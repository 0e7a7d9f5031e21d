----------------------------- MODULE MCDispatch -----------------------------
(***************************************************************************)
(* The calls of Dispatch that are checked: every native function, with     *)
(* operands of every dtype, from every entry point that reaches it.        *)
(***************************************************************************)
EXTENDS Dispatch

Own(t, n) == [Lightarray(t, "memory of " \o n) EXCEPT !.id = n]
a == Own("float64", "a")
i == Own("int64", "i")
b == Own("bool", "b")
Arrays == {a, i, b}

\* The caller's NumPy arrays: its own, and views of a, one of them read-only.
n     == [Ndarray("int64", "memory of n", "none", TRUE) EXCEPT !.id = "n"]
mask  == [Ndarray("bool", "memory of mask", "none", TRUE) EXCEPT !.id = "mask"]
view  == [Ndarray("float64", "memory of a", "float64", TRUE) EXCEPT !.id = "view"]
fixed == [Ndarray("float64", "memory of a", "float64", FALSE) EXCEPT !.id = "fixed"]
small == [Ndarray("float32", "memory of small", "none", TRUE) EXCEPT !.id = "small"]
Ndarrays == {n, mask, view, fixed, small}

Values == Arrays \cup Ndarrays \cup
  {Number(t) : t \in {"python float", "python int", "python bool", "np.float64", "np.int64"}}

Unders == {<<"caller">>, <<"__array__">>, <<"__array__", "helper">>, <<"__array__", "helper", "helper">>}

\* How a program comes to call: at the top level, or from a patched package's __array__.
Usual    == {[under |-> <<"caller">>, patched |-> p] : p \in BOOLEAN}
Settings == {[under |-> <<"caller">>, patched |-> FALSE]} \cup [under : Unders, patched : {TRUE}]

Make(entries, fns, argss, forms, outs, settings) ==
  {[entry |-> e, fn |-> f, args |-> x, form |-> form, out |-> o, under |-> s.under, patched |-> s.patched] :
     e \in entries, f \in fns, x \in argss, form \in forms, o \in outs, s \in settings}

Plain == {NoOut}
Ones  == {<<x>> : x \in Values}
Pairs == {<<x, y>> : x \in Values, y \in Values}

Has(s, p(_)) == \E k \in DOMAIN s : p(s[k])
SomeArray(s) == Has(s, LAMBDA x : x.is = "lightarray")
AnyNd(s)     == Has(s, LAMBDA x : x.is # "scalar")
Boolean(s)   == ~Has(s, LAMBDA x : Default[x.dtype] # "bool")
Floating(s)  == Has(s, LAMBDA x : Default[x.dtype] \in Floats)

\* A protocol is reached from NumPy, a proxy in a patched package only.
Everywhere == {"native", "proxy", "numpy"}

UnaryCalls ==
  LET whole == {<<x>> : x \in {v \in Values : v.dtype \in {"python int", "python bool"}}}
  IN Make(Everywhere, {"sin", "isnan"}, Ones, {"bare", "keywords"}, Plain, Settings) \cup
     Make(Everywhere, {"floor"}, Ones \ whole, {"bare", "keywords"}, Plain, Settings)

\* NumPy refuses bitwise operations on floats.
BinaryCalls ==
  Make(Everywhere \cup {"operator"}, {"add", "divide", "power"}, {p \in Pairs : AnyNd(p)}, {"bare", "broadcast"}, Plain, Usual) \cup
  Make(Everywhere, {"maximum"}, Pairs, {"bare", "keywords"}, Plain, Usual) \cup
  Make({"operator", "numpy"}, {"less", "equal"}, {p \in Pairs : SomeArray(p)}, {"bare", "broadcast"}, Plain, Usual) \cup
  Make({"operator", "numpy"}, {"bitwise_and"}, {p \in Pairs : SomeArray(p) /\ ~Floating(p)}, {"bare", "broadcast"}, Plain, Usual)

WhereCalls ==
  Make({"native", "numpy"}, {"where"}, {<<c>> \o p : c \in {b, mask}, p \in Pairs}, {"bare"}, Plain, Usual)

ReduceCalls ==
  Make({"native", "numpy"}, {"sum", "mean", "max"}, {<<x>> : x \in Arrays \cup Ndarrays}, {"bare", "axis", "keywords"}, Plain, Settings) \cup
  Make({"native", "numpy"}, {"cumsum", "any"}, {<<x>> : x \in Arrays \cup Ndarrays}, {"bare", "axis"}, Plain, Settings)

SortCalls ==
  Make({"native"}, {"sort", "argsort"}, {<<x>> : x \in Arrays \cup Ndarrays}, {"bare", "descending", "axis"}, Plain, Settings) \cup
  Make({"numpy"}, {"sort", "argsort"}, {<<x>> : x \in Arrays}, {"bare", "axis"}, Plain, Settings)

Joined(kinds) == {<<[is |-> k, items |-> p]>> : k \in kinds, p \in {q \in Pairs : ~Has(q, LAMBDA x : x.is = "scalar")}}
JoinCalls == Make({"native", "numpy"}, {"concatenate"}, Joined({"list", "tuple"}), {"bare", "keywords"}, Plain, Settings)

FullCalls == Make({"native"}, {"full"}, {<<x>> : x \in {v \in Values : v.is = "scalar"}}, {"bare", "keywords"}, Plain, Settings)

ViewCalls ==
  Make({"wrapper", "numpy"}, {"swapaxes", "broadcast_to", "split", "flip"}, {<<x>> : x \in Arrays \cup Ndarrays}, {"bare"}, Plain, Settings) \cup
  Make({"method"}, {"swapaxes", "view"}, {<<x>> : x \in Arrays}, {"bare"}, Plain, Settings) \cup
  Make({"getitem"}, {"getitem"}, {<<x>> : x \in Arrays}, {"bare"}, Plain, Settings)

\* out= of one and of two results, the caller's lightarrays or NumPy arrays.
Out(how, outs) == [how |-> how, outs |-> outs]
OutCalls ==
  LET one == {Out(h, <<o>>) : h \in {"keyword", "positional"}, o \in {a, view}}
  IN Make({"native", "numpy", "proxy"}, {"sin"}, {<<a>>}, {"keywords"}, one, Settings) \cup
     Make({"native", "numpy", "proxy"}, {"maximum"}, {<<a, i>>}, {"keywords"}, one, Settings) \cup
     Make({"wrapper", "numpy", "proxy"}, {"modf"}, {<<a>>, <<view>>}, {"keywords"},
          {Out(h, <<o, p>>) : h \in {"keyword", "positional"}, o \in {a, view, None}, p \in {a, view}}
            \cup {Out("positional", <<a>>)}, Settings)

\* Two results, of a ufunc lightarray has no function of its own for.
ModfCalls == Make({"wrapper", "numpy", "proxy"}, {"modf"}, {<<x>> : x \in {a, view, fixed, small}}, {"bare"}, Plain, Settings)

\* Left out: from_numpy, which calls itself, the frames of a proxy, the wrapper
\* and invoke leave room for one helper of __array__.  With a second the results
\* are lightarrays.
IsFar(c) == c.entry = "proxy" /\ c.fn = "modf" /\ c.out = NoOut /\ Len(c.under) > 2

MCCalls == {c \in UnaryCalls \cup BinaryCalls \cup WhereCalls \cup ReduceCalls \cup SortCalls
                    \cup JoinCalls \cup FullCalls \cup ViewCalls \cup ModfCalls \cup OutCalls :
              c.entry = "proxy" => c.patched /\ ~IsFar(c)}

\* Sequences that are neither a list nor a tuple: a named tuple, a deque.
MCSequences == Make({"native", "numpy"}, {"concatenate"}, Joined({"sequence"}), {"bare"}, Plain, Settings)

=============================================================================
