------------------------------ MODULE Dispatch ------------------------------
(***************************************************************************)
(* One call of a lightarray function, a NumPy function on lightarrays, or  *)
(* an operator, with everything that is called on its behalf: the native   *)
(* function, the fallback (_fallback.py: call, invoke), NumPy, NumPy's     *)
(* dispatch protocols (__array_ufunc__, __array_function__) and back into  *)
(* lightarray.  The state is the call stack.                               *)
(*                                                                         *)
(* Values: see Promotion.  Arrays also have                                *)
(*   id     the object: a name for the caller's own, "new" otherwise       *)
(*   mem    the memory of the elements                                     *)
(*   source ndarrays only: the dtype of the lightarray they are a view of, *)
(*          "none" if they are not                                         *)
(*   writable  ndarrays only                                               *)
(***************************************************************************)
EXTENDS Promotion, Integers, FiniteSets, Functions

CONSTANTS
  Calls,     \* the calls a program may make, see Init
  MaxDepth   \* Python's recursion limit

VARIABLES
  call,     \* the call the program made
  stack,    \* the frames, outermost first
  answer,   \* what the innermost frame returned, while status = "returning"
  status,   \* "calling", "returning", then "returned"
  calls,    \* _fallback.calls
  runs      \* how often NumPy ran on lightarray's behalf

vars == <<call, stack, answer, status, calls, runs>>

\* `out` is how it was given: "no", "keyword" (one array or a tuple) or
\* "positional" (after the inputs of a ufunc); `outs` the arrays and Nones.
NoOut == [how |-> "no", outs |-> <<>>]
None  == [is |-> "None", id |-> "None", dtype |-> "None", mem |-> "None"]

Ndarray(t, m, s, w) ==
  [is |-> "ndarray", id |-> "new", dtype |-> t, mem |-> m, source |-> s, writable |-> w]
Lightarray(t, m) == [is |-> "lightarray", id |-> "new", dtype |-> t, mem |-> m]
Number(t)        == [is |-> "scalar", id |-> "new", dtype |-> t, mem |-> "none"]
Tuple(items)     == [is |-> "tuple", items |-> items]

IsContainer(v) == v.is \in {"list", "tuple", "sequence"}
Parts(v)       == IF IsContainer(v) THEN {v.items[k] : k \in DOMAIN v.items} ELSE {v}
Map(s, F(_))   == [k \in DOMAIN s |-> F(s[k])]

-----------------------------------------------------------------------------
(* NumPy.                                                                  *)

Ufuncs  == Unary \cup Binary \cup {"isnan", "modf"}
Views   == {"swapaxes", "broadcast_to", "view", "getitem", "flip"}
Results(f) == IF f = "modf" THEN 2 ELSE 1

\* What a NumPy function looks at for a protocol: a ufunc its operands, a
\* function also the items of a sequence.
Relevant(fr) ==
  LET given == {fr.args[k] : k \in DOMAIN fr.args} \cup {fr.out.outs[k] : k \in DOMAIN fr.out.outs}
  IN IF fr.fn \in Ufuncs THEN given ELSE UNION {Parts(v) : v \in given}

Dispatches(fr) == \E v \in Relevant(fr) : IsArray(v)

\* What it returns for converted arguments: new arrays and numbers, views of
\* an argument, and with out= the arrays it was given.
NumpyAnswer(fr) ==
  LET x        == fr.args[1]
      fresh    == IF fr.fn \in Reductions \cup {"any"}
                  THEN IF fr.form = "bare" THEN Number(NumpyType(fr.fn, fr.args))
                                           ELSE Ndarray(NumpyType(fr.fn, fr.args), "result", "none", TRUE)
                  ELSE IF fr.fn # "full" /\ \A k \in DOMAIN fr.args : fr.args[k].is = "scalar"
                       THEN Number(NumpyType(fr.fn, fr.args))
                       ELSE Ndarray(NumpyType(fr.fn, fr.args), "result", "none", TRUE)
      view     == [x EXCEPT !.id = "new"]
      given(k) == k \in DOMAIN fr.out.outs /\ fr.out.outs[k] # None
      result(k) == IF given(k) THEN fr.out.outs[k] ELSE fresh
  IN CASE fr.fn = "broadcast_to" -> [view EXCEPT !.writable = FALSE]
       [] fr.fn = "view" -> [view EXCEPT !.dtype = "int64"]
       [] fr.fn \in {"swapaxes", "getitem", "flip"} -> view
       [] fr.fn = "split" -> [is |-> "list", items |-> <<view, view>>]
       [] fr.fn = "modf" -> Tuple(<<result(1), result(2)>>)
       [] OTHER -> result(1)

-----------------------------------------------------------------------------
(* Conversions of _fallback.py.                                            *)

NumpyLeaf(v) ==
  IF IsArray(v) THEN [Ndarray(v.dtype, v.mem, v.dtype, TRUE) EXCEPT !.id = v.id] ELSE v

\* A slip the runs must notice: tuples are left as they are.
to_numpy_lists(v) ==
  IF v.is = "list" THEN [v EXCEPT !.items = Map(v.items, NumpyLeaf)] ELSE NumpyLeaf(v)

\* A slip the runs must notice: only arrays are converted.
to_numpy_arrays(v) == NumpyLeaf(v)

\* Exactly lists and tuples are gone into.
to_numpy(v) ==
  IF v.is \in {"list", "tuple"} THEN [v EXCEPT !.items = Map(v.items, NumpyLeaf)] ELSE NumpyLeaf(v)

args_to_numpy(args) == Map(args, to_numpy)
OutToNumpy(out)     == [out EXCEPT !.outs = Map(out.outs, to_numpy)]

\* Rust functions and NumPy's have no Python frame.
Compiled == {"native", "operator", "sort", "numpy", "implementation"}

\* How many Python frames there are from the k-th to the innermost.
PythonFrames(k) == Cardinality({j \in k..Len(stack) : stack[j].at \notin Compiled})

\* A slip the runs must notice: one frame short.
LookbackFive == 5

\* _inside_dunder_array looks at six frames, `own` of them from_numpy's.
Lookback == 6

InsideDunderArray(own) ==
  \E k \in DOMAIN stack : stack[k].at = "__array__" /\ own + PythonFrames(k) <= Lookback

\* A slip the runs must notice: read-only results (broadcast_to) share the memory too.
SharesReadOnly(v) == v.source = v.dtype

\* _lightarray_source and _view_of: a writable view of a lightarray of the
\* same dtype becomes a lightarray view of the same memory, others are copied.
SharesMemory(v) == v.writable /\ v.source = v.dtype

FromNumpyLeaf(v, inside) ==
  IF v.is # "ndarray" \/ v.dtype \notin ArrayTypes \/ inside THEN v
  ELSE Lightarray(v.dtype, IF SharesMemory(v) THEN v.mem ELSE "copy")

\* Lightarrays inside __array__ would not do: NumPy wants an ndarray.  For the
\* items of a list or tuple from_numpy calls itself.
from_numpy(v) ==
  IF v.is \in {"list", "tuple"}
  THEN [v EXCEPT !.items = Map(v.items, LAMBDA x : FromNumpyLeaf(x, call.patched /\ InsideDunderArray(1)))]
  ELSE FromNumpyLeaf(v, call.patched /\ InsideDunderArray(0))

\* "hand back the caller's object"
OutAnswer(out) == IF Len(out.outs) = 1 THEN out.outs[1] ELSE Tuple(out.outs)

-----------------------------------------------------------------------------
(* The call stack.                                                         *)

Frame(at, f, args, out, form) == [at |-> at, fn |-> f, args |-> args, out |-> out, form |-> form]

Top  == stack[Len(stack)]
Rest == SubSeq(stack, 1, Len(stack) - 1)

\* Python gives up (RecursionError) on a stack that only grows: nothing more happens.
Calling(at) == status = "calling" /\ Len(stack) <= MaxDepth /\ Top.at = at

\* The same call, one frame on.
To(at) == [Top EXCEPT !.at = at]

Enter(frames) ==
  /\ stack' = Rest \o frames
  /\ UNCHANGED <<call, answer, status, runs>>

\* The frame returns v to the one below.
Return(v) ==
  /\ stack' = Rest
  /\ answer' = v
  /\ status' = "returning"

\* Everything for NumPy goes through here: count, convert, call.
Invoke(frames, at) ==
  /\ calls' = calls + 1
  /\ Enter(frames \o <<To("invoke"),
                       Frame(at, Top.fn, args_to_numpy(Top.args), OutToNumpy(Top.out), Top.form)>>)

\* The program's own frames: an __array__ method may have helper functions.
CallerFrames == {"caller", "__array__", "helper"}

\* A function of lightarray, one of a patched package, NumPy's, an operator,
\* and what lightarray's own Python code adds to arrays and wraps.
Entries == {"native", "proxy", "numpy", "operator", "wrapper", "method", "getitem"}

IsSequence(s) == s \in Seq(Range(s))

IsSingle(v) ==
  \/ v.is \in {"lightarray", "scalar", "None"} /\ DOMAIN v = {"is", "id", "dtype", "mem"}
  \/ v.is = "ndarray" /\ DOMAIN v = {"is", "id", "dtype", "mem", "source", "writable"}

IsValue(v) ==
  \/ IsSingle(v)
  \/ /\ IsContainer(v) /\ DOMAIN v = {"is", "items"}
     /\ IsSequence(v.items) /\ \A k \in DOMAIN v.items : IsSingle(v.items[k])

\* A call has at least one operand, and with out= at least one output; views
\* are taken of arrays.
ASSUME CallsAssumption ==
  \A c \in Calls :
    /\ c.entry \in Entries
    /\ c.under \in Seq(CallerFrames) /\ c.under # <<>>
    /\ IsSequence(c.args) /\ c.args # <<>>
    /\ \A k \in DOMAIN c.args : IsValue(c.args[k])
    /\ c.fn \in Views \cup {"split"} => c.args[1].is \in {"lightarray", "ndarray"}
    /\ \/ c.out = NoOut
       \/ /\ c.out \in [how : {"keyword", "positional"}, outs : Seq(Range(c.out.outs))]
          /\ c.out.outs # <<>>
          /\ \A k \in DOMAIN c.out.outs : IsSingle(c.out.outs[k])

\* A program calls a function or an operator, at the top level or inside an
\* __array__ method, while some package is patched or none is.
Init ==
  /\ call \in Calls
  /\ stack = [k \in DOMAIN call.under |-> Frame(call.under[k], "none", <<>>, NoOut, "bare")]
               \o <<Frame(call.entry, call.fn, call.args, call.out, call.form)>>
  /\ answer = None
  /\ status = "calling"
  /\ calls = 0
  /\ runs = 0

\* Every form with out= is NumPy's.
Natively(fr) == IF fr.out = NoOut THEN NativeType(fr.fn, fr.args, fr.form) ELSE Delegate

\* The native result: an array if an operand is one and not all of it is reduced.
NativeAnswer(fr, t) ==
  IF \/ fr.fn \in Reductions /\ fr.form = "bare"
     \/ fr.fn \in {"any"}
     \/ fr.fn \in Unary \cup Binary \cup {"isnan"} /\ ~\E k \in DOMAIN fr.args : IsArray(fr.args[k])
  THEN Number(t) ELSE Lightarray(t, "result")

\* array(), full() and the like look whether __array__ calls them directly.
called_from_dunder_array ==
  call.patched /\ \E k \in DOMAIN stack : stack[k].at = "__array__" /\ PythonFrames(k) = 1

\* A function of the native module, and an operator, decides for itself.
Native ==
  \E at \in {"native", "operator"} :
    /\ Calling(at)
    /\ LET t == IF Top.fn = "full" /\ called_from_dunder_array THEN Delegate ELSE Natively(Top) IN
       \/ /\ t # Delegate
          /\ Return(NativeAnswer(Top, t))
          /\ UNCHANGED <<call, calls, runs>>
       \/ /\ t = Delegate /\ Top.fn = "argsort" /\ Top.form = "descending"
          /\ calls' = calls + 1
          /\ Enter(<<To("argsort_descending"), [To("implementation") EXCEPT !.args = args_to_numpy(@)]>>)
       \/ /\ t = Delegate /\ Top.fn = "sort" /\ Top.form = "descending"
          /\ Invoke(<<To("sort"), To("call")>>, "numpy")
       \/ /\ t = Delegate /\ ~(Top.fn \in {"sort", "argsort"} /\ Top.form = "descending")
          /\ Invoke(<<To("call")>>, "numpy")

\* A NumPy function lightarray wraps, and a method or property it takes from
\* numpy.ndarray (of the array view, so there is nothing to dispatch).
Wrapper == Calling("wrapper") /\ Invoke(<<To("wrapper")>>, "numpy")

Method == Calling("method") /\ Invoke(<<To("method")>>, "implementation")

\* A slip the runs must notice: a call of NumPy that is not counted.
GetItemUncounted ==
  /\ Calling("getitem")
  /\ calls' = calls
  /\ Enter(<<To("getitem: convert"), [To("implementation") EXCEPT !.args = args_to_numpy(@)]>>)

\* A slip the runs must notice: counted down.
GetItemCountsDown ==
  /\ Calling("getitem")
  /\ calls' = calls - 1
  /\ Enter(<<To("getitem: convert"), [To("implementation") EXCEPT !.args = args_to_numpy(@)]>>)

\* getitem, and the properties, count by themselves.
GetItem ==
  /\ Calling("getitem")
  /\ calls' = calls + 1
  /\ Enter(<<To("getitem: convert"), [To("implementation") EXCEPT !.args = args_to_numpy(@)]>>)

\* In a patched package a ufunc is a UfuncProxy for the native function, or for
\* the wrapper where there is none.
UfuncProxy ==
  /\ Calling("proxy")
  /\ Enter(<<To("proxy: call"), To(IF Top.fn \in NativeFunctions THEN "native" ELSE "wrapper")>>)
  /\ UNCHANGED calls

\* NumPy hands a call with a lightarray operand to the protocol ...
NumpyDispatches ==
  /\ Calling("numpy")
  /\ Dispatches(Top)
  /\ Enter(<<To(IF Top.fn \in Ufuncs THEN "_array_ufunc" ELSE "_array_function")>>)
  /\ UNCHANGED calls

\* ... and computes everything else.
NumpyRuns ==
  /\ \/ Calling("implementation")
     \/ Calling("numpy") /\ ~Dispatches(Top)
  /\ Return(NumpyAnswer(Top))
  /\ runs' = IF \E k \in DOMAIN Rest : Rest[k].at \notin CallerFrames THEN runs + 1 ELSE runs
  /\ UNCHANGED <<call, calls>>

\* The ufuncs and functions the protocols find a native function for.
Registered == NativeFunctions \ (Compares \cup Bitwise)

ArrayUfunc ==
  /\ Calling("_array_ufunc")
  /\ \/ /\ Top.out # NoOut
        /\ Enter(<<To("_array_ufunc: out"),
                   Frame("numpy", Top.fn, args_to_numpy(Top.args), OutToNumpy(Top.out), Top.form)>>)
        /\ UNCHANGED calls
     \/ /\ Top.out = NoOut /\ Top.fn \in Registered /\ Top.form # "keywords"
        /\ Enter(<<To("_array_ufunc: native"), To("native")>>)
        /\ UNCHANGED calls
     \/ /\ Top.out = NoOut /\ ~(Top.fn \in Registered /\ Top.form # "keywords")
        /\ Invoke(<<To("_array_ufunc: invoke")>>, "numpy")

ArrayFunction ==
  /\ Calling("_array_function")
  /\ \/ /\ Top.fn \in Registered
        /\ Enter(<<To("_array_function: native"), To("native")>>)
        /\ UNCHANGED calls
     \/ /\ Top.fn \notin Registered
        /\ Invoke(<<To("_array_function: invoke")>>, "implementation")

-----------------------------------------------------------------------------
(* Returning.                                                              *)

\* A slip the runs must notice: converts what NumPy returns even if the caller gave the arrays.
InvokeConverts(fr, v) == from_numpy(v)

InvokeAnswer(fr, v) ==
  IF \/ fr.out.how = "keyword"
     \/ fr.out.how = "positional" /\ \A k \in DOMAIN fr.out.outs : fr.out.outs[k] # None
  THEN OutAnswer(fr.out) ELSE from_numpy(v)

\* Frames that pass on what they get.
Passing == {"call", "wrapper", "method", "proxy: call", "_array_ufunc: native", "_array_ufunc: invoke",
            "_array_function: native", "_array_function: invoke"}

ReturnTo ==
  /\ status = "returning"
  /\ Top.at \notin CallerFrames \cup {"sort"}
  /\ stack' = Rest
  /\ answer' = CASE Top.at = "invoke" -> InvokeAnswer(Top, answer)
                 [] Top.at = "_array_ufunc: out" -> OutAnswer(Top.out)
                 [] Top.at \in {"getitem: convert", "argsort_descending"} -> from_numpy(answer)
                 [] Top.at \in Passing -> answer
  /\ UNCHANGED <<call, status, calls, runs>>

\* sort(descending=True) turns the sorted array round with a second call.
SortFlip ==
  /\ status = "returning"
  /\ Top.at = "sort"
  /\ calls' = calls + 1
  /\ status' = "calling"
  /\ stack' = Rest \o <<[To("call") EXCEPT !.fn = "flip"],
                        Frame("invoke", "flip", <<answer>>, NoOut, "bare"),
                        Frame("numpy", "flip", args_to_numpy(<<answer>>), NoOut, "bare")>>
  /\ UNCHANGED <<call, answer, runs>>

Finish ==
  /\ status = "returning"
  /\ Top.at \in CallerFrames
  /\ status' = "returned"
  /\ UNCHANGED <<call, stack, answer, calls, runs>>

Next ==
  \/ Native \/ Wrapper \/ Method \/ GetItem \/ UfuncProxy
  \/ NumpyDispatches \/ NumpyRuns \/ ArrayUfunc \/ ArrayFunction
  \/ ReturnTo \/ SortFlip \/ Finish

\* Python keeps running the call; NumPy's functions return.
Spec == Init /\ [][Next]_vars /\ WF_vars(Next)

-----------------------------------------------------------------------------
(* Properties.                                                             *)

Items(v) == IF IsContainer(v) THEN v.items ELSE <<v>>

\* What NumPy answers when the program calls it with NumPy arrays.
Expected == NumpyAnswer(Frame("numpy", call.fn, args_to_numpy(call.args), OutToNumpy(call.out), call.form))

Answers(P(_, _)) ==
  status = "returned" /\ call.out = NoOut =>
    /\ Len(Items(answer)) = Len(Items(Expected))
    /\ \A k \in DOMAIN Items(answer) : P(Items(answer)[k], Items(Expected)[k])

\* Frames are known ones, and counters count.
TypeOK ==
  /\ status \in {"calling", "returning", "returned"}
  /\ \A k \in DOMAIN stack : {"at", "fn", "args", "out", "form"} = DOMAIN stack[k]
  /\ calls \in Nat /\ runs \in Nat

\* Whoever computes it, natively, NumPy through a protocol or NumPy from the
\* fallback, the result has the dtype NumPy gives it.
DtypesMatchNumPy == Answers(LAMBDA a, e : a.dtype = e.dtype)

\* A view NumPy returns of a lightarray comes back as a lightarray on the same
\* memory, through every conversion, unless it is read-only or reinterprets
\* the elements: then it is a copy.  Nothing else shares memory.
MemoryMatchesNumPy ==
  Answers(LAMBDA a, e :
    /\ e.mem = "result" => a.mem \in {"result", "copy"}
    /\ e.is = "ndarray" /\ e.mem # "result" =>
         (a.mem = e.mem <=> a.is = "ndarray" \/ (e.writable /\ e.source = e.dtype)))

\* A program that gives all outputs gets them back: its own objects, not views or copies.
OutReturned ==
  status = "returned" /\ Len(call.out.outs) = Results(call.fn) /\ None \notin Range(call.out.outs)
    => [k \in DOMAIN Items(answer) |-> Items(answer)[k]] = call.out.outs

\* `calls` counts every run of NumPy on lightarray's behalf once, however the
\* call got there, except NumPy's own call with out=.
EveryRunCounted ==
  status = "returned" => \/ calls = runs
                         \/ (call.entry = "numpy" /\ call.out # NoOut /\ calls = 0 /\ runs = 1)

\* Once the fallback calls NumPy, NumPy does the work: no lightarray is left
\* for it to dispatch on, and nothing native runs below the fallback.
NumPyIsNotReentered ==
  \A i, j \in DOMAIN stack :
    stack[i].at = "invoke" /\ i < j => stack[j].at \in {"numpy", "implementation"}

\* Arrays of lightarray's dtypes come back as lightarrays.  An __array__ method
\* in a patched package, and the helpers it calls, get NumPy arrays whenever
\* NumPy made them, through every wrapper.
ResultsHaveTheRightClass ==
  Answers(LAMBDA a, e :
    /\ "__array__" \in Range(call.under) /\ call.patched /\ runs > 0 => a.is # "lightarray"
    /\ /\ ~("__array__" \in Range(call.under) /\ call.patched)
       /\ e.is = "ndarray" /\ e.dtype \in ArrayTypes
       /\ call.entry = "numpy" => \E k \in DOMAIN call.args : \E v \in Parts(call.args[k]) : IsArray(v)
       => IsArray(a))

\* Every call returns: the hand-over from lightarray to NumPy to lightarray ends.
Answered == <>(status = "returned")

=============================================================================
