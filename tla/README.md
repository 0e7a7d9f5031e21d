# A TLA+ model of lightarray

lightarray is a small-array library with NumPy's interface: a Rust core (`src/array.rs`,
`src/dims.rs`, `src/dlpack.rs`), its Python type (`src/python.rs`, `src/lib.rs`) and a Python
package (`python/lightarray/`) that delegates the rest to NumPy and can take NumPy's place inside
other packages. These modules model its core, TLC checks them on small instances, and TLAPS proves
the main invariants of five of them, and a refinement, for all instances. `PROJECT.json` lists the
runs, the lines each definition stands for, the hazards and the theorems.

## The system

| Component | State | Operations | Interacts with |
|---|---|---|---|
| Arrays, windows and strided views (`PyArray`, `Array`, `Storage`) | an owner's buffer; a window's pointer and base; a strided view's pointer, strides, base and contiguous cache | create, index, slice, transpose, reshape, copy, take, read, write, in-place and binary operators | share the owner's memory; NumPy reads and writes it through the buffer protocol; binary operators call back into Python |
| Layouts and indexing (`Dims`, `Layout`, `plan_view`, `walk_strided`, `view_of_numpy`) | pointer, shape, strides | select, insert axes, reverse, reshape, take rows, accept a view made by NumPy | decide whether an array is a window, a strided view or a copy |
| Kernels (`zip_map`, `fold_axis`, `concatenate`, ...) | none besides flat data | broadcast arithmetic, reductions, joining, running folds, `nonzero`, `argmax`, sorting, masks and keys, `arange` | read the refreshed data of arrays, or the cache of a strided view that is committed after |
| Nested sequences (`nested_sequence`) | the walk's dims, numbers and flags | array from lists and tuples | declines to NumPy |
| Patching (`patch_module`, `patched`, `LIGHTARRAY_PATCH`) | module namespaces, remembered originals, two flags and the numpy namespace switch | patch, unpatch, `set_patched`, enter and leave a block, import hook | rebinds names of other packages while they import; `array()` and the fallbacks read the flags |
| Lifetime (references, `__getbuffer__`, DLPack) | reference counts, views, exports, capsules, tensors | view, hold, drop, export, consume, release, assign a shape | consumers outside the library keep pointers into an array |
| Fallback and dispatch (`_fallback.py`, entry points in `lib.rs`, operators in `python.rs`) | a counter of calls, the call stack | decide, delegate, convert arguments and results, `out=`, NumPy's protocols | NumPy, which calls back into lightarray; results may be views of an operand |
| Creation, math functions, dtypes | none | `arange`, `linspace`, unary functions, casts | decide with the dispatch which dtype comes out |
| Python namespace | none | re-exported names, pickling, printing | - |

What is hard in it:

* *Stale state and interleaving.* A strided view works on a cache of its base's cells. Every access
  must refresh it, every write commit it, and a binary operator may run arbitrary Python code
  between looking at its operands and computing. On the GIL build this callback is the only
  interleaving inside an operation. On the free-threaded build nothing orders the element accesses
  of two threads, and even readers of one strided view write: they fill its cache.
* *Composition.* Pointers and strides go through chains of negative steps, new axes, transposes and
  empty selections; whether a result is a window, a view or a copy is decided by index arithmetic.
* *Lifetimes.* Views, buffer views, capsules and tensors end in any order.
* *Protocols over time.* Patching in two modes, by module and by package, inside blocks and inside
  imports that are nested or circular.
* *Re-entrance.* lightarray calls NumPy, NumPy's dispatch protocols call lightarray; an argument
  left unconverted makes the two hand a call to and fro.

Nothing is persistent and nothing waits: there are no locks, queues, timeouts, retries or messages
in the code, hence no crash recovery. What has to end are two recursions: the hand-over of a call
between lightarray and NumPy, and the walk over nested lists.

What makes each component correct:

* arrays: all arrays over one buffer behave as if they simply shared its cells; results come from
  data an operand really had; a view's base is an owner; threads that keep to the contract of the
  free-threaded build read and write what NumPy's operations would;
* layouts: inside the buffer, in NumPy's order, and shared whenever the memory is one block;
* kernels: NumPy's element at every multi-index, and NumPy's refusals;
* nested sequences: no number lost, NumPy's shape and dtype, ragged input declined;
* patching: every name `patch_module` replaced can be put back, the flags say whether any is replaced,
  and what stays on lightarray after unpatching is exactly what modules took over from one another;
* lifetime: nobody points into freed memory, counts are exact, a tensor is deleted once;
* dispatch: whoever computes a call, the result has NumPy's dtype, shares memory as NumPy's does
  and has the class the caller needs; `out=` objects come back; delegated calls are counted once;
  every call is answered.

## Modules

| Module | Models |
|---|---|
| `ArrayData` | pure operators on flat data and cell lists: pick, gather, scatter, element-wise kernels |
| `SharedMemory` | abstract specification: arrays are lists of cells in shared buffers, no caches |
| `StridedArrays` | the arrays of the code, with windows, strided views, caches, refresh, commit, callbacks |
| `FreeThreading` | threads on an owner and its views, one element access at a time |
| `Shapes` | shapes, C order, and the odometer of `walk_strided`; no state |
| `Layouts` | where the elements of an array are, after chains of indexing operations |
| `Kernels` | broadcasting, reductions, joining, scanning, sorting, masks and keys on flat data; `arange` |
| `NestedSequences` | the conversion of nested lists |
| `Patching` | the patching protocol with imports and blocks |
| `Lifetime` | references, buffer views and DLPack |
| `Promotion` | which calls run natively and with which dtype, next to NumPy's promotion rules; no state |
| `Dispatch` | one call through native code, the fallback, NumPy and its protocols, until it is answered |
| `StridedArraysProofs`, `FreeThreadingProofs`, `PatchingProofs`, `LifetimeProofs`, `ShapesProofs`, `LayoutsProofs`, `KernelsProofs`, `DispatchProofs` | theorems and proofs |
| `MC*` | values of the constants for TLC |

**StridedArrays.** `buf[a]` is what array `a` itself stores: the data of an owner, the cache of a
strided view, nothing for a window. `obj[a]` is its kind, its base and the cells of the owner it
addresses, in C order. Each operation of `python.rs` is an action and includes the refresh before
and the commit after. `view_from_layout` decides between an own array (empty), a window (consecutive
cells) and a strided view. `BeginEarly` and `BeginLate` start a binary operation that waits for
Python code of its other operand: the early ones (`__richcmp__`, the bitwise operators,
`binary_native`, `where_native`) have already refreshed and keep the data, the late ones
(`binary_op`) read afterwards. `reshape` is an early one too: it refreshes (l. 1646), then runs
`__len__` and `__index__` of the lengths it is given, then copies the cache of a strided view as it is by then, or
shares the memory of any other array (`ReturnReshaped`); with plain integers it is one step (`Reshape`). While a call waits, all atomic operations may happen; `call.seen`
collects the data the array had meanwhile. One callback is in progress at a time. `fill`,
`__setitem__` and scalar in-place operators also convert their argument in Python, but before any
effect, so they are one step. A layout is abstracted to its list of cells, which `Layouts` justifies:
its `DataInCOrder` and `StridedOnlyIfScattered` say that cells in C order and consecutiveness are all
that refresh, commit and `view_from_layout` depend on. Broadcasting is abstracted to operands of
equal size or one element (`Kernels` has it in full). Views that overlap themselves, which only
`as_strided` makes, are left out. An empty view is modelled as an empty array of its own, since
nothing can be read or written through it.

**SharedMemory** is what the user relies on. `StridedArrays!ImplementsSharedMemory` instantiates it
with the refinement mapping that forgets caches and keeps the owners' buffers, so a write that is
not committed, a read that is not refreshed, or a reshape that aliases where it should copy is not a
step of it. `out` records what an operation returned or wrote: without it a lost write would be a step
that changes nothing, which the abstract specification allows.

**FreeThreading.** An operation of a thread is a loop per phase: `refresh` loads an element of the
buffer (`Load`) and stores it in the cache (`Store`), the kernel works through the cache or the
buffer itself (`Kernel`), `commit` writes the cache back (`Scatter`). Steps of different threads
interleave anywhere between. `thread[t].op` says which elements the result depends on (`uses`);
`a[[i]]` and masks depend on some and refresh all. `a[i]`, `a[i] = x`, and what NumPy does through
the buffer protocol go past the cache. `ideal` is the buffer as NumPy's operations leave it, each
taking effect when it returns. `Contract` is what callers keep apart: "arrays", no write overlaps an
operation on an array that shares memory; "elements", no write overlaps an operation on the same
array object or one that needs the same element, which is enough for NumPy's arrays. Accesses to one
element are taken to be indivisible and in program order; formally, two threads that store even
equal values are a race, which this abstraction does not see. Left out: operations on several arrays
(an operand is read as any other array is), empty arrays, an in-place operation on an owner counts
as one step per element.

**Layouts.** One behaviour is a chain of operations on one array. `lay` and `strided` are what the
code computes; `elems` is what NumPy's definition of each operation gives, read off the key item by
item. Strides count elements. A foreign layout (`ViewOfNumpy`) is one NumPy returned after it worked
on the array; it may end outside the buffer, and `Accepts` is the extent check. Operations that
raise leave everything alone and are disabled here.

**Kernels.** As in `Layouts`, `arr` is computed by the code's loops and `ideal` by the definitions.
An operation that raises leaves the array and sets `outcome`; `refused` says whether NumPy would have
raised. That a refused in-place operation writes nothing is not a matter of these properties but of
`StridedArrays` (`InplaceFails` and the refinement). Values are small integers and NaN, and `Apply("mix", ...)` is not commutative, so a wrong
order of operands or elements shows. The division of `mean` is a further `Apply`. Sums are exact:
rounding is not modelled. A key is one integer, a list of integers (an int64 array is read alike),
a list of bools, or a bool mask of the whole array or of its leading axis; what the code does with
it (`IntegersOf`, `TakeLeading`, the masks, the refusals) is compared with NumPy's definition. Keys
that are tuples are in `Layouts`. `Argsort` is a stable sort by value with NaN last, ascending in
the kernel and, for `descending=True`, the code's flip, sort and flip: the item at place k is the one
with k - 1 items before it, whatever algorithm finds it. `Arange` computes in integers from `-Half`
to `Half - 1` as the code does, in which `Half` is 2^63.

**NestedSequences.** `rest` is the call stack of `walk_items` (the items left at each depth). Lists
and tuples are treated alike by the code. Kinds that are not numbers, and integers beyond int64,
are one kind. The item `Itself` is the outermost list again: a list can contain itself, and only
the limit on dimensions ends its walk.

**Promotion and Dispatch.** `Promotion` has two sides: `NativeType` is what the entry points of
`lib.rs` and the operators of `python.rs` decide (`Delegate`, or a dtype), `NumpyType` is NumPy's
rule for the same call (external, NEP 50). `Dispatch` runs one call: the state is the stack of
frames, `calls` is `_fallback.calls`, `runs` is a history of how often NumPy really ran. The actions
are the native function or operator, the wrappers and methods that go through `invoke`, `getitem`
with its own conversion and counter, the proxies of patched packages, NumPy dispatching on its
arguments or computing, `__array_ufunc__`, `__array_function__`, and the returns, which convert
(`from_numpy`), hand back `out=` objects, or pass on. Values carry the object's identity, its memory,
and for NumPy arrays the lightarray they are a view of. `Lookback` is how many
Python frames the search for `__array__` takes in (`PythonFrames`: native functions and NumPy's have
none; for the items of a list or tuple one is `from_numpy`'s own). What is left out: the values, the error messages, and
keyword arguments beyond whether the native function takes them.

**Patching.** `ns[m][n]` is what the name is bound to, `saved[m]` the names in `_patched`. Calls of
`patch_module` and so on are atomic under the GIL; imports are not: a module's body runs between
`ImportFirst` and `Finish`, can bind NumPy's objects, import others, and be interrupted by the hook.
`Assign` is the module binding its own names later. In both it can take the name over from any loaded module,
as `from pkg import np` does (`Available`), and so get a stand-in: `patch_module` tells none of them from the
module's own objects and remembers nothing. `copied` is a history of these names; no action
of the program reads it. A name is taken over under the same name, and only names bound under NumPy's
name are told apart from conversions.

**Lifetime.** `obj[o].refs` counts like CPython; a view holds one reference of its owner, an export
one of the array it was made of. Objects are never reborn. Legacy and versioned DLPack capsules
behave alike and share an action. The consumers of buffers and capsules are external: they release,
consume or drop in any order the protocols allow.

## Runs

| Run | Instance | Shows |
|---|---|---|
| `strided_atomic` | 3 arrays, one buffer of 3 cells, 5 selections, values {0, 1} | types, bases, storage sizes and the refinement, for every operation in one step |
| `strided_calls` | 3 arrays, one buffer of 2 cells, 2 selections, callbacks | results come from data the array had during the call; the refinement with callbacks, also into `reshape`, which makes an array |
| `threads` | 2 threads, 2 operations each, on 3 cells, a strided view and its reverse | with the contract on arrays, what each thread reads, and memory no operation is writing, is NumPy's |
| `threads_elements` | the same, contract on elements | *violated*: the same property |
| `layouts` | shapes (2,3), (4), (2,2,2), (2,0); 13 keys; chains of 4 | elements (all inside the buffer), their order, windows exactly for blocks, and the extent check |
| `kernels` | 8 arrays of up to 3 dimensions, axes -3..2, keys, masks, chains of 3 | results and refusals as NumPy defines them; lanes, first extremes, stable descending order |
| `nested` | ten thousand nested lists of up to 2 items a list, some containing themselves | nothing lost, regular input native, uneven lists declined, the walk ends |
| `nested_ragged` | the same | *violated*: ragged input is declined |
| `patching` | a package, its submodule, a sibling; 2 names, which submodule and sibling import from NumPy or from each other; both modes; hook; 2 nested blocks | originals remembered, flags, restoring, and what of it taken-over stand-ins escape |
| `lifetime` | 3 arrays, 2 exports, 2 references | memory safety, exact counts, single deletion |
| `dispatch` | single calls from each of the 7 entry points (native, patched proxy, NumPy protocol, operator, wrapped NumPy function, method, `getitem`), 3 arrays, 5 NumPy arrays, 5 kinds of number, `out=`, in and out of `__array__`, patched or not | dtypes, memory, classes, `out=`, the counter, no re-entrance, an answer |
| `dispatch_sequences` | `concatenate` of sequences that are neither list nor tuple | *violated*: NumPy is not re-entered from the fallback |

**Why the bounds are enough.** Three arrays are an owner, a view and a view of that view (or two
views that overlap); a buffer of three cells has selections that are consecutive, scattered,
reversed and empty; two values with a non-commutative kernel tell a stale element from a fresh one.
For threads, a stale store needs a slow reader and a
writer that comes back to read: two threads with two operations each, on a view whose cache holds an
element one thread uses and another the other does.
For callbacks three arrays suffice: the view in the operation, the base the callback writes, and the
array `reshape` makes, or another view through which the callback reads or writes; two cells make a reversed view and a window. Chains
of four pass through window, strided view, copy and window again; three axes are what the odometer
needs to carry twice; `MAX_NDIM` is 3 instead of 8 so that the limit is met. `Lanes` is 4 instead of
8, and arrays of up to 18 elements have several chunks and a remainder. Two items a list and depth
four reach every branch of the walk with `MAX_NDIM` = 3, including a first list that is shorter or
longer than the next. A package with a submodule and a sibling are the three ways a module gets
patched; the two that bind names can take them over from each other in either order, inside and outside
of the package's blocks; a block within a block meets a package that is patched already. In `dispatch` one call is followed to its end, so the bounds are on the calls: every native
function with operands of every dtype and kind, from every way in that reaches it, with up to two
helpers below `__array__` (one for `modf` through a proxy, see below); `MaxDepth` frames (20) stand for Python's recursion limit and no call
of that run comes near it. `VIEW Future` in the strided runs drops `out`, which no action reads and every property of
which is about the step that set it. `VIEW Future` in `patching` merges import statements that differ only in
which module outside of the package they stand in, and blocks that differ only in a `recursive` that has nothing to
recurse to. Symmetry is used over arrays and exports only in runs without
liveness. `CHECK_DEADLOCK FALSE` is set where the chain or the supply of objects ends, and in
`nested`, where the walk does, and in `threads`, where the supply of operations does.

**Fairness.** `NestedSequences` and `Dispatch` follow one call to its end, under `WF_vars(Next)`: the
interpreter keeps running a call it has begun (no step of the models waits for another thread, and
NumPy's functions, which are external, return). On it rest `Decided` (every walk ends) and `Answered`
(every call returns). The other modules describe programs, which may stop between any two calls: no
fairness is assumed there and no liveness stated.

## Where code and documentation disagree

Each has a run that finds it; `PROJECT.json` quotes the lines.

* `threads_elements`: the comment on `PyArray` promises NumPy's guarantees on the free-threaded
  build. A thread that reads `v[[0]]` of a strided view also gathers the other elements into the
  shared cache, and can put back there an old value of an element that another thread has since
  written through the base and is reading again. With NumPy these threads do not disturb each other.
* `nested_ragged`: `array([1.0, [2]])` becomes an array of shape (2, 1).
* `dispatch_sequences`: `concatenate` of a namedtuple or deque of lightarrays of different dtypes
  reaches NumPy unconverted, NumPy calls `__array_function__`, that the native `concatenate`, and so
  on until `RecursionError`.

Behaviour seen while modelling that has no run of its own:

* *Arrays.* Comparisons, bitwise operators, `binary_native`, `where_native` and `reshape` take a view's data
  before Python code of their arguments runs and use it afterwards, against the comment that every
  read access refreshes. The data is what the view had at some point of the call (`CallsUseSeenData`),
  not at its end as with `binary_op`.
* *Lifetime.* Assigning a shape rewrites the dims a raw `Py_buffer` points at, against the comment on
  the setter. `memoryview` and NumPy copy the shape and are not affected.
* *Patching.* Leaving a `patched` block unpatches only if the package itself was not patched, and
  `is_patched` does not see siblings, so a block can leave NumPy replaced in a sibling; it re-patches
  a package that was patched before in the default mode, whatever mode it had. With a circular
  import the hook patches a package whose body still runs, against its comment. A module that takes a
  stand-in over from a patched one (`from pkg import np`, run while `pkg` is patched) keeps it: nothing of it enters `_patched`
  (l. 545), so `unpatch_module` and the end of a `patched` block leave it in place, against "restore the NumPy
  objects" (`__init__.py`, l. 580) and "restores NumPy afterwards" (l. 614), and when nothing else is
  patched the flags are cleared although a dispatcher is still bound (l. 586-590). `NothingForgotten`, `NumpyNamespaceWhileNeeded` and
  `UnpatchRestores` say what holds nevertheless; without `copied` in them each is false.
* *Kernels.* `mean(axis)` looks the axis up before it is checked: a 0-d array, or axis -3 of a 2-d
  one, panics instead of raising `ValueError` (the outcome "panic" of `Mean`). The items of a list
  key are read as integers, also `True` and `False`, so `a[[True, False, True]]` gives elements 1, 0,
  1 instead of masking; with such a key among `Keys`, `ResultsMatchNumPy` fails. Reductions of a 0-d array along axis 0 or -1 raise where NumPy accepts them, so do `max`
  and `min` along an empty axis whose result is empty, and `stack` of arrays with `MAX_NDIM`
  dimensions raises instead of delegating; `RefusesWithNumPy` leaves out exactly arrays of these
  kinds. `a[True]` reads and sets element 1. A 2-D int64 array of one element is an integer as a
  key. `clip` with a NaN bound differs. `arange` of bounds far apart wraps.
* *Dispatch.* Scalars of NumPy dtypes other than float64 and int64 count as Python numbers: int64
  with `np.uint64` gives int64 (NumPy: float64), bool with `np.float32` gives float64 (NumPy:
  float32), int64 with an int beyond 64 bits gives float64 (NumPy raises), `np.complex128` loses its
  imaginary part, `arange(np.int64(n))` is float64. `floor`, `square` and `abs` of a Python int are
  floats. `asarray(copy=False)` copies silently, `swapaxes` of a NumPy array returns a copy, and with
  one of two `out=` arrays given the other result is lost. The named tuples of `svd` and `eigh` keep
  their NumPy arrays. Native results made inside `__array__` through a helper are lightarrays. `modf`,
  which lightarray only wraps, called in a patched package by the second helper of an `__array__`
  method, answers with lightarrays too, although such results "must stay NumPy arrays"
  (`_fallback.py`, l. 56): the items of the tuple are converted below `from_numpy` itself, `invoke`,
  the wrapper, the proxy and the helpers, six frames, and the search ends before `__array__`. Without
  the conjunct `~IsFar(c)` of `MCCalls` the run `dispatch` finds it. A
  ufunc NumPy calls with `out=` is not counted, against the comment on `calls`.

## Proofs

The theorems are invariants, action properties and a refinement of `Spec`, proved for all values of the constants
that satisfy the named assumptions of the modules, by `Init => Inv`, `Inv /\ [Next]_vars => Inv'` and
`Inv => property`.

* **StridedArraysProofs.** `Inv` is types, `ViewsAreInOwners`, `StorageMatchesKind`, `CallOK` and
  `CallsUseSeenData`. The invariants support each other: that a cache fits its view needs the cells
  to lie in the owner, that in turn needs the base to be an owner, not a cache; and
  the data a call keeps needs the call's array to stay live (`CallOK`). The lemmas about `ArrayData`
  give length, type and injectivity of what pick, gather, scatter and the kernels return. Assumptions: `None` is no array, `Zero` a value, `Op` a total function,
  contents and selections are sequences of the right kind. Any number of arrays, of any size.
* **Refinement**, in the same module: `Spec => ImplementsSharedMemory`, step simulation on the
  invariant above. `MemoryOf(b)` is the shared memory that buffers `b` stand for. `RefreshedMemory` and
  `WrittenMemory` say that refreshes do not change it and that a write with its commit changes
  just the array's cells; `AliasedOverlaps` that the test on address ranges in the in-place
  operators misses no common cell, so that the operand is read as it was before; `ReturnMaps` and
  `ReturnReshapedMaps` rest on `CallsUseSeenData`. One lemma per operation names the step of `SharedMemory` it is.
* **FreeThreadingProofs.** `Guarantees` assumes the contract on arrays, and `threads_elements` shows
  that it cannot do with less. `Consistent` says, for every phase, what the cache of an operation's
  view holds (`CacheOK`: gathered, computed, to be scattered) and which cells of the buffer are ahead
  of `ideal` (`Written`, `MemOK`). `Exclusive` is the contract as an invariant; from it `Apart`: while
  a thread writes, the array of any other thread has none of its cells. A store into a cache by one
  reader then leaves what another reader of the view expects, because both store what `ideal` holds.
  Any number of threads, arrays, cells and operations.
* **PatchingProofs.** `Inv` is the type invariant split into the parts imports and blocks change
  (`ControlOK`) and the parts patching changes (`Safe`), with `NothingForgotten`,
  `ActiveWhilePatched`, `NumpyNamespaceWhileNeeded` and `CopiesAreStandIns` (a name in `copied` is still
  bound to a stand-in). `NumpyNamespaceWhileNeeded` is inductive only together with `NothingForgotten`: the
  switch is cleared when `_patched` is empty, and a dispatcher that `patch_module` bound must then be
  impossible. `CopiesAreStandIns` is what keeps patching from touching a copy: a name bound to
  a stand-in is not rebound, so it cannot become patched without being bound anew. For `UnpatchRestores`, a remembered name gets NumPy's
  object, and one that is not is on a stand-in exactly if it was taken over, by `NothingForgotten` and
  `CopiesAreStandIns`. Any modules, names, imports, and nesting of blocks.
* **LifetimeProofs.** `Inv` is types, the shapes of objects and exports, `DeletedOnce` and
  `CountsAreExact`. `NoDangling` is not inductive: that a held array is live follows from its exact
  count, and that a view's owner is live from the owner's count including the view. The lemmas
  count the sets of views and exports before and after a step; a drop can end a view and with it a
  reference of the owner, the only cascade, since the owner of a view is never a view itself.

* **DispatchProofs.** `Shape` says which frame may stand on which and what it has of the program's
  call: the call itself, or its converted arguments where NumPy computes for lightarray. An action
  replaces the last frame by frames that may stand in its place, or pops it, so one lemma
  (`EnterKeepsShape`) serves them all. `Shape` is not inductive alone: the flip in a descending sort
  is called with what the sort returned, so `Inv` adds that an answer is a value the conversion takes
  every lightarray out of. `NumPyIsNotReentered` is then in the shape. For `EveryRunCounted`, `Counted`
  says when a counted run of NumPy is still owed; for `OutReturned`, `Delivered` says that the answer
  is the caller's arrays or a frame that puts them in its place is still on the stack. Any set of
  calls and any recursion limit. Assumptions: `CallsAssumption` (a call has operands, views are taken
  of arrays) on the constant; as hypotheses of the theorems, `ListsAndTuples` (containers are lists
  and tuples, which `dispatch_sequences` shows to be needed: with a named tuple the call is handed to and fro)
  and `OutTaken` (`out=` is given to functions that take it).
* **DispatchProofs, answers.** `MemoryMatchesNumPy`, `DtypesMatchNumPy`, `ResultsHaveTheRightClass`. `Answering` says that the answer is what NumPy
  returned while the frame on top converts, and fits NumPy's in every other one: everything is
  converted once, but a descending sort twice, since NumPy's flip is a view of the converted sort.
  `NativeTypes` compares lightarray's own tables of dtypes with NumPy's promotion and
  `ConvertedFits` what `from_numpy` keeps. Hypotheses: `OperandsGiven` (a function has as many
  operands as it takes, arrays and numbers) and for the dtypes `HasNumpysTypes`: numbers are Python's,
  `np.float64` or `np.int64`, and `floor` is not of a Python int. The numbers left out are those
  under "Behaviour seen while modelling", for which the theorem is false. For the class, `Height`
  bounds the frames between a conversion and the program by the shape of the stack, `Reached` shows that
  the search gets over them, and `Classed` says that an answer below its conversion has its class,
  and that lightarray's own results are made before any run of NumPy. Hypothesis: `WithinReach`, at
  most two helpers below `__array__`, and one for `modf` through a proxy, where the second breaks the
  property (above). The calls of the run `dispatch` meet all these hypotheses.
* **ShapesProofs.** What `Layouts` computes with, for shapes of any length. `UnravelPlace` and
  `PlaceUnraveled`: place in C order and multi-index determine each other (`Weight` is the number of
  elements behind an axis). `WalkIs`: the odometer of `walk_strided`, which carries from axis to axis
  and rewinds the offset by what it added, visits every multi-index, in C order, at the offset of its
  strides, negative and zero ones included. The definitions are recursive functions; the library's
  induction theorems take an operator and cannot be used, so `Induction` is proved from the least
  element of a set of numbers, and for each function its existence first (`SumsExist`,
  `ProductsExist`, `WalkExists`). `Rank` and `Ordered` count and enumerate the axes that a key keeps.
* **LayoutsProofs.** Every property of the run `layouts`, and `MemorySafe`, the comments `SAFETY` of
  `refresh`, `commit` and `view_from_layout`: every element of every array lies in the owner's buffer.
  Chains of any length, of any shapes, keys, rows and foreign layouts. `IInv` is `Typed`,
  `StaysInside`, `Windows`, `Views` and `ElementsMatchNumPy`. The last is not inductive alone: what the
  code does with a window (`locate`, taking rows, reshaping) reads the pointer and the shape only, so the window
  must be contiguous (`Windows`), and a reshaped window must not have moved out of the buffer
  (`StaysInside`). The lemmas follow the code. `SelectMaps`: the layout of a plan puts an index where
  the old layout puts the index it came from. `WithAxesMaps`: inserted axes of length 1 change no
  address. `SliceInRange`: what the normalisation of a slice selects, with either sign of the
  step. `NumpyIndexedIs` equates that with NumPy's definition, read off the key item by item, and `LocateIsSelect` with
  the shortcut for integers. `AcceptsIffInside`: the extent check lets in what lies in the buffer,
  and nothing else. Assumptions: `LayoutsAssumption` (types of the constants, shapes of at most `MAX_NDIM` axes, no step
  is 0, foreign layouts have a stride for every axis) and `NoneIsNoSlice`. TLC checked `IInv` before it was proved.
* **KernelsProofs.** Every property of the run `kernels`, for any arrays of any shapes, any keys, axes and
  bounds, any number of lanes and chains of any length. `IInv` is `TypeOK`, with `ResultsMatchNumPy` and
  `RefusesWithNumPy` under `Comparable`; `TypeOK` holds without it. NumPy's definitions work by
  multi-index and the code by position, so the proofs rest on where things are in C order:
  `ShapesProofs` for the odometer and broadcasting, and sections on data as `outer x middle x inner`
  for `fold_axis`, on blocks of given lengths joined one after the other for `concatenate` and
  `stack`, and on the selected positions in order for `nonzero`, masks and lists. Every kernel has a
  lemma that it is `Faithful` (it makes exactly the array NumPy makes, or both refuse) or that its
  refusal is `Justified` (NumPy refuses too, or the array is of the kinds `RefusesWithNumPy` leaves
  out); `Good` collects these with types, and one lemma (`ActedKeeps`) serves all the actions. In `arange` the number
  of steps is a wrapping difference divided with rounding up; `WholeSteps` equates it with the number of
  points between the bounds. `LanesAdd`: after m chunks the lanes have added the first `m * Lanes` items.
  `ExtremalStep`: the best so far is the first extreme, or the first NaN. For `KernelsSortStable`,
  `BeforeOrders` shows that value and index order the items strictly and totally, `NthIs` that every
  item then has a place of its own, and `SortedReversed`, by counting smaller values, that sorting
  does not see the order of the data. Assumptions: `KernelsAssumption` (types of the constants). Hypothesis of the
  two theorems about NumPy: `Comparable`, no list of bools is a key and no difference of bounds of
  `arange` leaves the integers; for both the code differs from NumPy (above). The run meets it.

Only model-checked: `NestedSequences`, whose properties are stated with recursive operators over
nested data, for which the prover has no induction, and the two liveness properties, since the prover has neither fairness nor
`ENABLED`. Of `Kernels`, the theorems are about the values of its model: small integers and NaN, and exact sums.

## Not modelled

Floating-point results and rounding, dot products, `interp`, `searchsorted`, pickling and printing;
keyword arguments that only select a NumPy implementation; exceptions in the middle of
`patch_module` and failing imports (they need a module that refuses assignment); hardware memory
orders weaker than program order; the overflow of shape products (an array of such a size cannot be allocated); what NumPy
itself computes.

## Plan

Order of work, most important first. Done, with proofs: `SharedMemory`, `StridedArrays` and the
refinement; `FreeThreading`; `Patching`; `Lifetime`; `Promotion` and `Dispatch`; `Shapes`, `Layouts` and
`Kernels`. Done, model-checked: `NestedSequences`. Left:

1. `FreeThreading` with operations on two arrays.
2. `Patching` with an exception in the middle of a loop, and modules that vanish from
   `sys.modules`.
