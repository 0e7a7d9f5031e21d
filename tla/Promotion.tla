----------------------------- MODULE Promotion -----------------------------
(***************************************************************************)
(* Which calls lightarray computes itself, and the dtype of the result:    *)
(* the decisions of the entry points in lib.rs and the operators in        *)
(* python.rs, next to NumPy's promotion rules (NEP 50), which the results  *)
(* are compared with.                                                      *)
(*                                                                         *)
(* A value has a field "is" (what Python object it is) and a dtype; a      *)
(* container has items instead.  "form" is how a call is written:          *)
(*   "bare"      nothing but the operands, arrays of one shape             *)
(*   "broadcast" nothing but the operands, of different shapes             *)
(*   "axis"      with one integer axis                                     *)
(*   "descending" with the Array API's keyword (sort, argsort)             *)
(*   "keywords"  anything else: out=, dtype=, where=, too many dimensions  *)
(***************************************************************************)
EXTENDS Naturals, Sequences

ArrayTypes  == {"float64", "int64", "bool"}
PythonTypes == {"python float", "python int", "python bool", "huge int"}
NumpyTypes  == {"np.float64", "np.int64", "np.float32", "np.uint64"}

Unary      == {"sin", "floor"}
Operators  == {"add", "divide", "power"}
Compares   == {"less", "equal"}
Bitwise    == {"bitwise_and"}
BinaryMath == {"maximum"}
Binary     == Operators \cup Compares \cup Bitwise \cup BinaryMath
Reductions == {"sum", "mean", "max"}

IsArray(x)    == x.is = "lightarray"
IsF64(x)      == IsArray(x) /\ x.dtype = "float64"
IsI64(x)      == IsArray(x) /\ x.dtype = "int64"
IsBool(x)     == IsArray(x) /\ x.dtype = "bool"

-----------------------------------------------------------------------------
(* NumPy.                                                                  *)

\* The dtype a value has by itself.
Default ==
  [t \in ArrayTypes \cup {"float32", "uint64"} \cup NumpyTypes \cup (PythonTypes \ {"huge int"}) |->
     CASE t \in {"python float", "np.float64"} -> "float64"
       [] t \in {"python int", "np.int64"} -> "int64"
       [] t = "python bool" -> "bool"
       [] t = "np.float32" -> "float32"
       [] t = "np.uint64" -> "uint64"
       [] OTHER -> t]

Floats   == {"float64", "float32"}
Integers == {"int64", "uint64"}

\* Of two dtypes that both count: bool gives way, everything else mixes to float64.
Promote(s, t) ==
  IF s = t \/ t = "bool" THEN s ELSE IF s = "bool" THEN t ELSE "float64"

\* A Python float, or int, takes the dtype of the other operand if that is
\* of its kind or a higher one.  An int that does not fit raises.
Weak(t, other) ==
  IF other \in Floats THEN other
  ELSE IF t = "huge int" THEN "OverflowError"
  ELSE IF t = "python float" THEN "float64"
  ELSE IF other \in Integers THEN other ELSE "int64"

IsWeak(t) == t \in {"python float", "python int", "huge int"}

ResultType(x, y) ==
  IF IsWeak(x.dtype) /\ ~IsWeak(y.dtype) THEN Weak(x.dtype, Default[y.dtype])
  ELSE IF IsWeak(y.dtype) /\ ~IsWeak(x.dtype) THEN Weak(y.dtype, Default[x.dtype])
  ELSE Promote(Default[x.dtype], Default[y.dtype])

InFloat(t) == IF t \in Integers \cup {"bool"} THEN "float64" ELSE t
Added(t)   == IF t = "bool" THEN "int64" ELSE t

NumpyType(f, args) ==
  CASE f \in {"add", "maximum", "bitwise_and"} -> ResultType(args[1], args[2])
    [] f = "power" -> LET t == ResultType(args[1], args[2]) IN IF t = "bool" THEN "int8" ELSE t
    [] f = "divide" -> InFloat(ResultType(args[1], args[2]))
    [] f = "where" -> ResultType(args[2], args[3])
    [] f = "concatenate" -> ResultType(args[1].items[1], args[1].items[2])
    [] f \in Compares \cup {"isnan", "any"} -> "bool"
    [] f = "sin" -> LET t == Default[args[1].dtype] IN IF t = "bool" THEN "float16" ELSE InFloat(t)
    [] f \in {"sum", "cumsum"} -> Added(Default[args[1].dtype])
    [] f = "mean" -> InFloat(Default[args[1].dtype])
    [] f = "argsort" -> "int64"
    [] OTHER -> Default[args[1].dtype]

-----------------------------------------------------------------------------
(* lightarray: the dtype of the native result, or Delegate.                *)

Delegate == "NumPy"

\* A Python or NumPy number becomes a float or an int; bool is told apart,
\* np.bool_ is left out.  An int beyond int64 becomes a float.
Classify(x) ==
  CASE IsF64(x) -> "F64"
    [] IsArray(x) /\ ~IsF64(x) -> "Alt"
    [] x.dtype \in {"python float", "np.float64", "huge int", "np.float32"} /\ x.is = "scalar" -> "Float"
    [] x.dtype \in {"python int", "np.int64", "np.uint64"} /\ x.is = "scalar" -> "Int"
    [] x.dtype = "python bool" /\ x.is = "scalar" -> "Bool"
    [] OTHER -> "Other"

Scalars == {"Float", "Int", "Bool"}

\* A slip the runs must notice: floor is missing from the list.
KeepsNoInt == {}

\* The integer dtype is kept by these, and NumPy computes them.
KeepsInt == {"floor"}

UnaryType(f, x) ==
  IF \/ IsF64(x)
     \/ IsI64(x) /\ f \notin KeepsInt
     \/ x.is = "scalar" /\ x.dtype \in {"python float", "python int", "huge int", "np.float64"}
  THEN "float64" ELSE Delegate

PredicateType(x) ==
  IF IsF64(x) \/ (x.is = "scalar" /\ x.dtype \in PythonTypes \cup {"np.float64"}) THEN "bool" ELSE Delegate

\* x1 + x2 and add(x1, x2): the first lightarray handles it.
OperatorType(f, x, y, form) ==
  LET me    == IF IsArray(x) THEN x ELSE y
      other == IF IsArray(x) THEN y ELSE x
      o     == Classify(other)
      wraps == /\ f \in {"add", "subtract", "multiply"}
               /\ IsI64(me)
               /\ o = "Int" \/ (IsI64(other) /\ form = "bare")
  IN IF ~IsArray(me) \/ o = "Other" THEN Delegate
     ELSE IF IsF64(me) \/ f = "divide" \/ o \in {"Float", "F64"} THEN "float64"
     ELSE IF wraps THEN "int64" ELSE Delegate

CompareType(f, x, y, form) ==
  LET me    == IF IsArray(x) THEN x ELSE y
      other == IF IsArray(x) THEN y ELSE x
      o     == Classify(other)
  IN IF \/ IsF64(me)  /\ (IsF64(other) \/ IsI64(other)) /\ form = "bare"
        \/ IsF64(me)  /\ o \in Scalars
        \/ IsI64(me)  /\ (IsF64(other) \/ IsI64(other)) /\ form = "bare"
        \/ IsI64(me)  /\ o \in {"Int", "Float"}
        \/ IsBool(me) /\ f = "equal" /\ (o = "Bool" \/ (IsBool(other) /\ form = "bare"))
     THEN "bool" ELSE Delegate

BitwiseType(x, y, form) ==
  LET me    == IF IsArray(x) THEN x ELSE y
      other == IF IsArray(x) THEN y ELSE x
      o     == Classify(other)
  IN IF IsBool(me) /\ (o = "Bool" \/ (IsBool(other) /\ form = "bare")) THEN "bool"
     ELSE IF IsI64(me) /\ (o = "Int" \/ (IsI64(other) /\ form = "bare")) THEN "int64"
     ELSE Delegate

BinaryMathType(x, y) ==
  LET number(v) == Classify(v) \in {"F64", "Float", "Int"}
  IN IF \/ IsF64(x) /\ number(y)
        \/ IsF64(y) /\ number(x)
        \/ x.dtype = "python float" /\ y.dtype = "python float"
     THEN "float64" ELSE Delegate

\* The mask is a lightarray or a NumPy array of bools.
WhereType(c, x, y, form) ==
  LET fits(v) == (IsF64(v) /\ form = "bare") \/ Classify(v) \in {"Float", "Int"}
  IN IF /\ c.is \in {"lightarray", "ndarray"} /\ c.dtype = "bool"
        /\ fits(x) /\ fits(y)
        /\ \E v \in {x, y} : Classify(v) \in {"F64", "Float"}
     THEN "float64" ELSE Delegate

\* The whole array natively, along an axis only float64.
ReduceType(f, x, form) ==
  IF IsF64(x) /\ form \in {"bare", "axis"} THEN "float64"
  ELSE IF form # "bare" THEN Delegate
  ELSE IF f = "mean" /\ IsArray(x) THEN "float64"
  ELSE IF (f = "sum" /\ IsArray(x)) \/ (f = "max" /\ IsI64(x)) THEN "int64"
  ELSE Delegate

BareType(f, x, form) ==
  IF form # "bare" THEN Delegate
  ELSE IF f = "cumsum" THEN IF IsF64(x) THEN "float64" ELSE Delegate
  ELSE IF IsArray(x) \/ (x.is = "ndarray" /\ x.dtype = "bool") THEN "bool" ELSE Delegate

SortType(x, form) == IF IsF64(x) /\ form \in {"bare", "descending"} THEN "float64" ELSE Delegate

ArgsortType(x, form) == IF IsF64(x) /\ form = "bare" THEN "int64" ELSE Delegate

\* Any sequence of lightarrays of one dtype.
JoinType(c, form) ==
  LET items == {c.items[k] : k \in DOMAIN c.items} IN
  IF form = "bare" /\ (\E t \in ArrayTypes : \A x \in items : IsArray(x) /\ x.dtype = t)
  THEN c.items[1].dtype ELSE Delegate

\* full(shape, value)
FullType(x, form) ==
  CASE form = "bare" /\ x.is = "scalar" /\ x.dtype \in {"python float", "np.float64"} -> "float64"
    [] form = "bare" /\ x.is = "scalar" /\ x.dtype = "python int" -> "int64"
    [] form = "bare" /\ x.is = "scalar" /\ x.dtype = "python bool" -> "bool"
    [] OTHER -> Delegate

NativeFunctions ==
  Unary \cup Binary \cup Reductions
    \cup {"isnan", "where", "cumsum", "any", "sort", "argsort", "concatenate", "full"}

NativeType(f, args, form) ==
  CASE f \in Unary -> IF form = "keywords" THEN Delegate ELSE UnaryType(f, args[1])
    [] f = "isnan" -> IF form = "keywords" THEN Delegate ELSE PredicateType(args[1])
    [] f \in Binary /\ form = "keywords" -> Delegate
    [] f \in Operators /\ form # "keywords" -> OperatorType(f, args[1], args[2], form)
    [] f \in Compares /\ form # "keywords" -> CompareType(f, args[1], args[2], form)
    [] f \in Bitwise /\ form # "keywords" -> BitwiseType(args[1], args[2], form)
    [] f \in BinaryMath /\ form # "keywords" -> BinaryMathType(args[1], args[2])
    [] f = "where" -> WhereType(args[1], args[2], args[3], form)
    [] f \in Reductions -> ReduceType(f, args[1], form)
    [] f \in {"cumsum", "any"} -> BareType(f, args[1], form)
    [] f = "sort" -> SortType(args[1], form)
    [] f = "argsort" -> ArgsortType(args[1], form)
    [] f = "concatenate" -> JoinType(args[1], form)
    [] f = "full" -> FullType(args[1], form)
    [] OTHER -> Delegate

=============================================================================
