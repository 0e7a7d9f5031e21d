--------------------------- MODULE FreeThreading ----------------------------
(***************************************************************************)
(* Threads on arrays over one buffer in the free-threaded build, where no  *)
(* lock orders what native code does.  A native operation on a strided     *)
(* view gathers the view's cache from the buffer before its kernel runs on *)
(* the cache, so two readers of one view both write; an in-place operation *)
(* scatters the cache back.  Which operations may overlap in time is left  *)
(* to the callers: they keep to a contract.                                *)
(*                                                                         *)
(* A step loads, stores or computes one element; gathering loads and       *)
(* stores in two steps.  `ideal` is the buffer as NumPy's operations leave *)
(* it, which have no caches.                                               *)
(***************************************************************************)
EXTENDS Integers, Sequences

CONSTANTS
  Threads,
  Arrays,    \* an owner and views of it
  Views,     \* the strided ones
  CellsOf,   \* CellsOf[a]: the cells of the buffer that a addresses, in C order
  Size,      \* cells of the buffer
  Values,
  Zero,      \* what a new cache is filled with
  Updates,   \* what operations write: a function of the element's old value
  Contract,  \* "arrays" or "elements", see Conflict
  MaxOps,    \* operations of one thread
  None

Cells == 1..Size

ASSUME ViewsAssumption   == Views \subseteq Arrays
ASSUME CellsAssumption   ==
  \A a \in Arrays : /\ CellsOf[a] \in Seq(Cells) /\ CellsOf[a] # <<>>
                    /\ \A i, j \in DOMAIN CellsOf[a] : CellsOf[a][i] = CellsOf[a][j] => i = j
ASSUME ValuesAssumption  == Zero \in Values /\ Updates \subseteq [Values -> Values]
ASSUME NoneAssumption    == None \notin Values /\ None \notin Arrays
ASSUME MaxOpsAssumption  == MaxOps \in Nat

VARIABLES
  mem,     \* the buffer
  cache,   \* cache[v]: the contiguous copy of view v that native code works on
  thread,  \* thread[t]: the operation t is in, how far it is, what it has read
  left,    \* left[t]: operations t may still begin
  ideal    \* history variable: the buffer without caches

vars == <<mem, cache, thread, left, ideal>>

-----------------------------------------------------------------------------
(* Operations. *)

Count(a)     == Len(CellsOf[a])
Positions(a) == 1..Count(a)

\* The result of an operation depends on the elements at `uses`, and it
\* replaces them when it writes.  A native one goes through arr() or arr_mut().
Operation(native, a, uses, writes, f) ==
  [native |-> native, array |-> a, uses |-> uses, writes |-> writes, f |-> f]

Identity == [x \in Values |-> x]

Cached(op)  == op.native /\ op.array \in Views
Touched(op) == {CellsOf[op.array][k] : k \in op.uses}
Extent(op)  == {CellsOf[op.array][k] : k \in Positions(op.array)}

\* What must not overlap in time, when one of two operations writes: with
\* "arrays", operations on arrays that share memory; with "elements", those on
\* one array object and those that need the same element, as for NumPy.
Conflict(p, q) ==
  /\ p.writes \/ q.writes
  /\ \/ Contract = "arrays" /\ Extent(p) \cap Extent(q) # {}
     \/ Contract = "elements" /\ (p.array = q.array \/ Touched(p) \cap Touched(q) # {})

NoOp == Operation(FALSE, None, {}, FALSE, Identity)
Idle == [at |-> "idle", op |-> NoOp, k |-> 1, reg |-> None, got |-> {}]

Active(t)   == thread[t].at # "idle"
CellAt(t)   == CellsOf[thread[t].op.array][thread[t].k]

\* A slip the runs must notice: a loop goes one past the end.
IsPastLast(t) == thread[t].k > Count(thread[t].op.array)

IsLast(t) == thread[t].k = Count(thread[t].op.array)

\* Element by element, and after the last one on to `next`.
Onward(t, here, next) ==
  IF IsLast(t) THEN [thread[t] EXCEPT !.at = next, !.k = 1]
               ELSE [thread[t] EXCEPT !.at = here, !.k = @ + 1]

Init ==
  /\ mem \in [Cells -> Values]
  /\ cache = [v \in Views |-> [k \in Positions(v) |-> Zero]]
  /\ thread = [t \in Threads |-> Idle]
  /\ left = [t \in Threads |-> MaxOps]
  /\ ideal = mem

Begin(t, op) ==
  /\ ~Active(t) /\ left[t] > 0
  /\ \A u \in Threads : Active(u) => ~Conflict(op, thread[u].op)
  /\ thread' = [thread EXCEPT ![t] = [Idle EXCEPT !.at = IF Cached(op) THEN "gather" ELSE "kernel", !.op = op]]
  /\ left' = [left EXCEPT ![t] = @ - 1]
  /\ UNCHANGED <<mem, cache, ideal>>

\* Operators, reductions, copies (every element), a[[i, ...]] and a[mask] (some).
Read(t, a, uses) == Begin(t, Operation(TRUE, a, uses, FALSE, Identity))

\* In-place operators with a number, fill().
Inplace(t, a, f) == Begin(t, Operation(TRUE, a, Positions(a), TRUE, f))

\* a[i]; and what NumPy reads of the array it is shown.
Fetch(t, a, uses) == Begin(t, Operation(FALSE, a, uses, FALSE, Identity))

\* a[i] = x; and a[key] = x, which NumPy does through the array it is shown.
Assign(t, a, uses, f) == Begin(t, Operation(FALSE, a, uses, TRUE, f))

-----------------------------------------------------------------------------
(* Steps of an operation. *)

\* A slip the runs must notice: refresh() empties the cache it fills again.
LoadClearing(t) ==
  /\ thread[t].at = "gather"
  /\ thread' = [thread EXCEPT ![t].at = "store", ![t].reg = mem[CellAt(t)]]
  /\ cache' = IF thread[t].k # 1 THEN cache
              ELSE [cache EXCEPT ![thread[t].op.array] = [k \in DOMAIN @ |-> Zero]]
  /\ UNCHANGED <<mem, left, ideal>>

\* refresh(): gather_from loads an element ...
Load(t) ==
  /\ thread[t].at = "gather"
  /\ thread' = [thread EXCEPT ![t].at = "store", ![t].reg = mem[CellAt(t)]]
  /\ UNCHANGED <<mem, cache, left, ideal>>

\* ... and stores it in the cache.
Store(t) ==
  LET th == thread[t] IN
  /\ th.at = "store"
  /\ cache' = [cache EXCEPT ![th.op.array][th.k] = th.reg]
  /\ thread' = [thread EXCEPT ![t] = [Onward(t, "gather", "kernel") EXCEPT !.reg = None]]
  /\ UNCHANGED <<mem, left, ideal>>

\* A kernel gets to element k: of the cache, or of the memory itself.
Kernel(t) ==
  LET th == thread[t]
      op == th.op
      x  == IF Cached(op) THEN cache[op.array][th.k] ELSE mem[CellAt(t)]
  IN
  /\ th.at = "kernel"
  /\ thread' = [thread EXCEPT ![t] =
       [Onward(t, "kernel", IF Cached(op) /\ op.writes THEN "scatter" ELSE "done") EXCEPT
          !.got = IF th.k \in op.uses THEN @ \cup {<<th.k, x>>} ELSE @]]
  /\ cache' = IF Cached(op) /\ op.writes THEN [cache EXCEPT ![op.array][th.k] = op.f[x]] ELSE cache
  /\ mem' = IF ~Cached(op) /\ op.writes /\ th.k \in op.uses THEN [mem EXCEPT ![CellAt(t)] = op.f[x]] ELSE mem
  /\ UNCHANGED <<left, ideal>>

\* commit(): scatter_to writes an element of the cache to the memory.
Scatter(t) ==
  LET th == thread[t] IN
  /\ th.at = "scatter"
  /\ mem' = [mem EXCEPT ![CellAt(t)] = cache[th.op.array][th.k]]
  /\ thread' = [thread EXCEPT ![t] = Onward(t, "scatter", "done")]
  /\ UNCHANGED <<cache, left, ideal>>

\* The operation returns; NumPy's has done the same to the elements it needs.
Finish(t) ==
  LET op == thread[t].op IN
  /\ thread[t].at = "done"
  /\ ideal' = [c \in Cells |-> IF op.writes /\ c \in Touched(op) THEN op.f[ideal[c]] ELSE ideal[c]]
  /\ thread' = [thread EXCEPT ![t] = Idle]
  /\ UNCHANGED <<mem, cache, left>>

Next == \E t \in Threads :
  \/ \E a \in Arrays, uses \in SUBSET Cells :
       /\ uses # {} /\ uses \subseteq Positions(a)
       /\ \/ Read(t, a, uses)
          \/ Fetch(t, a, uses)
          \/ \E f \in Updates : Assign(t, a, uses, f)
  \/ \E a \in Arrays, f \in Updates : Inplace(t, a, f)
  \/ Load(t) \/ Store(t) \/ Kernel(t) \/ Scatter(t) \/ Finish(t)

Spec == Init /\ [][Next]_vars

-----------------------------------------------------------------------------
(* Properties. *)

Operations ==
  [native : BOOLEAN, array : Arrays \cup {None}, uses : SUBSET Nat, writes : BOOLEAN, f : [Values -> Values]]

ThreadStates ==
  [at  : {"idle", "gather", "store", "kernel", "scatter", "done"},
   op  : Operations,
   k   : Nat,
   reg : Values \cup {None},
   got : SUBSET (Nat \X Values)]

\* An operation in progress.
ActiveOK(th) ==
  /\ th.op.array \in Arrays
  /\ th.op.uses \subseteq Positions(th.op.array)
  /\ th.k \in Positions(th.op.array)
  /\ \A p \in th.got : p[1] \in th.op.uses
  /\ Cached(th.op) /\ th.op.writes => th.op.uses = Positions(th.op.array)
  /\ th.at \in {"gather", "store", "scatter"} => Cached(th.op)
  /\ th.at = "scatter" => th.op.writes
  /\ th.reg \in Values <=> th.at = "store"

\* Threads, caches and buffer are well formed: an operation's progress stays in
\* its array, and only an operation on a strided view gathers or scatters.
TypeOK ==
  /\ mem \in [Cells -> Values] /\ ideal \in [Cells -> Values]
  /\ cache \in [Views -> Seq(Values)] /\ \A v \in Views : Len(cache[v]) = Count(v)
  /\ left \in [Threads -> 0..MaxOps]
  /\ thread \in [Threads -> ThreadStates]
  /\ \A t \in Threads : IF Active(t) THEN ActiveOK(thread[t]) ELSE thread[t] = Idle

\* The guarantees are NumPy's (python.rs, PyArray): whatever the caches do in
\* between, an operation reads what NumPy's would, and memory no operation is
\* writing holds what NumPy's operations have written: none is lost, none done twice.
GuaranteesAreNumPys ==
  /\ \A t \in Threads : \A p \in thread[t].got : p[2] = ideal[CellsOf[thread[t].op.array][p[1]]]
  /\ \A c \in Cells :
       (\A t \in Threads : ~(thread[t].op.writes /\ c \in Touched(thread[t].op))) => mem[c] = ideal[c]

=============================================================================
