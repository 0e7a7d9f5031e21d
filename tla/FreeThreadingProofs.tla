------------------------ MODULE FreeThreadingProofs -------------------------
(***************************************************************************)
(* When threads keep off each other's arrays, the caches change nothing.   *)
(***************************************************************************)
EXTENDS FreeThreading, TLAPS

-----------------------------------------------------------------------------
(* The inductive invariant. *)

\* Threads keep to the contract.
Exclusive ==
  \A t, u \in Threads : t # u /\ Active(t) /\ Active(u) => ~Conflict(thread[t].op, thread[u].op)

\* What NumPy's buffer holds at position j of the operation's array, and what
\* the operation makes of it.
Old(op, j) == ideal[CellsOf[op.array][j]]
New(op, j) == op.f[Old(op, j)]

\* The cache of a view holds what the operations on it have gathered, or computed.
CacheOK(t) ==
  LET op == thread[t].op
      k  == thread[t].k
  IN
  /\ thread[t].at \in {"gather", "store"} => \A j \in 1..(k - 1) : cache[op.array][j] = Old(op, j)
  /\ thread[t].at = "store" => thread[t].reg = Old(op, k)
  /\ thread[t].at = "kernel" /\ Cached(op) =>
       \A j \in Positions(op.array) :
         cache[op.array][j] = IF op.writes /\ j < k THEN New(op, j) ELSE Old(op, j)
  /\ thread[t].at = "scatter" => \A j \in Positions(op.array) : cache[op.array][j] = New(op, j)

\* The operation has written position j to the buffer.
Written(th, j) ==
  /\ th.op.writes /\ j \in th.op.uses
  /\ \/ th.at = "done"
     \/ th.at = "scatter" /\ j < th.k
     \/ th.at = "kernel" /\ ~Cached(th.op) /\ j < th.k

\* The buffer is NumPy's but for what operations in progress have written.
MemOK ==
  /\ \A t \in Threads : \A j \in thread[t].op.uses :
       Written(thread[t], j) => mem[CellsOf[thread[t].op.array][j]] = New(thread[t].op, j)
  /\ \A c \in Cells :
       (\A t \in Threads : \A j \in thread[t].op.uses : Written(thread[t], j) => CellsOf[thread[t].op.array][j] # c)
         => mem[c] = ideal[c]

\* Operations have read what NumPy's would.
GotOK == \A t \in Threads : \A p \in thread[t].got : p[2] = Old(thread[t].op, p[1])

Consistent ==
  /\ Exclusive
  /\ \A t \in Threads : Active(t) => CacheOK(t)
  /\ MemOK
  /\ GotOK

Inv == TypeOK /\ Consistent

-----------------------------------------------------------------------------
(* Types. *)

\* The operations threads begin.
Started ==
  {op \in Operations :
     /\ op.array \in Arrays
     /\ op.uses \subseteq Positions(op.array)
     /\ Cached(op) /\ op.writes => op.uses = Positions(op.array)}

\* Lengths are natural numbers and arrays are not empty.
LEMMA CountIsPositive == \A a \in Arrays : Count(a) \in Nat \ {0}
  BY CellsAssumption DEF Count

\* A position of an array is a cell of the buffer, and no other position is the same.
LEMMA PositionsAreCells ==
  \A a \in Arrays : \A i \in Positions(a) :
    /\ CellsOf[a][i] \in Cells
    /\ \A j \in Positions(a) : CellsOf[a][i] = CellsOf[a][j] => i = j
  BY CellsAssumption DEF Positions, Count

\* Replacing an element of a sequence.
LEMMA ReplaceInSeq ==
  ASSUME NEW S, NEW s \in Seq(S), NEW k \in 1..Len(s), NEW x \in S
  PROVE  /\ [s EXCEPT ![k] = x] \in Seq(S)
         /\ Len([s EXCEPT ![k] = x]) = Len(s)
         /\ \A j \in 1..Len(s) : [s EXCEPT ![k] = x][j] = IF j = k THEN x ELSE s[j]
  OBVIOUS

\* What operations are begun with.
LEMMA Starts ==
  ASSUME NEW a \in Arrays, NEW uses \in SUBSET Positions(a), NEW native \in BOOLEAN, NEW writes \in BOOLEAN,
         NEW f \in [Values -> Values], native /\ writes => uses = Positions(a)
  PROVE  Operation(native, a, uses, writes, f) \in Started
  <1>1. uses \in SUBSET Nat
    BY CountIsPositive DEF Positions
  <1> QED
    BY <1>1 DEF Started, Operation, Operations, Cached

\* A step is one of these.
LEMMA Steps ==
  ASSUME Next
  PROVE  \E t \in Threads :
           \/ \E op \in Started : Begin(t, op)
           \/ Load(t) \/ Store(t) \/ Kernel(t) \/ Scatter(t) \/ Finish(t)
  <1>1. PICK t \in Threads :
          \/ \E a \in Arrays, uses \in SUBSET Cells :
               /\ uses # {} /\ uses \subseteq Positions(a)
               /\ \/ Read(t, a, uses)
                  \/ Fetch(t, a, uses)
                  \/ \E f \in Updates : Assign(t, a, uses, f)
          \/ \E a \in Arrays, f \in Updates : Inplace(t, a, f)
          \/ Load(t) \/ Store(t) \/ Kernel(t) \/ Scatter(t) \/ Finish(t)
    BY DEF Next
  <1>2. Identity \in [Values -> Values] /\ Updates \subseteq [Values -> Values]
    BY ValuesAssumption DEF Identity
  <1>3. ASSUME NEW a \in Arrays, NEW f \in Updates, Inplace(t, a, f)
        PROVE  \E op \in Started : Begin(t, op)
    BY <1>2, <1>3, Starts DEF Inplace
  <1>4. ASSUME NEW a \in Arrays, NEW uses \in SUBSET Positions(a), Read(t, a, uses)
        PROVE  \E op \in Started : Begin(t, op)
    BY <1>2, <1>4, Starts DEF Read
  <1>5. ASSUME NEW a \in Arrays, NEW uses \in SUBSET Positions(a), Fetch(t, a, uses)
        PROVE  \E op \in Started : Begin(t, op)
    BY <1>2, <1>5, Starts DEF Fetch
  <1>6. ASSUME NEW a \in Arrays, NEW uses \in SUBSET Positions(a), NEW f \in Updates, Assign(t, a, uses, f)
        PROVE  \E op \in Started : Begin(t, op)
    BY <1>2, <1>6, Starts DEF Assign
  <1> QED
    BY <1>1, <1>3, <1>4, <1>5, <1>6

LEMMA IdleIsState == Idle \in ThreadStates
  BY DEF ThreadStates, Idle, NoOp, Operation, Operations, Identity

LEMMA TypeInit == Init => TypeOK
  <1> SUFFICES ASSUME Init PROVE TypeOK
    OBVIOUS
  <1>1. cache \in [Views -> Seq(Values)] /\ \A v \in Views : Len(cache[v]) = Count(v)
    BY CountIsPositive, ViewsAssumption, ValuesAssumption DEF Init, Positions
  <1>2. Idle \in ThreadStates
    BY IdleIsState
  <1>3. \A t \in Threads : ~Active(t) /\ thread[t] = Idle
    BY DEF Init, Active, Idle
  <1> QED
    BY <1>1, <1>2, <1>3, MaxOpsAssumption DEF Init, TypeOK

\* Whatever thread t does, the threads stay well formed if t does.
LEMMA ThreadStep ==
  ASSUME TypeOK, NEW t \in Threads, NEW X \in ThreadStates, thread' = [thread EXCEPT ![t] = X],
         IF X.at # "idle" THEN ActiveOK(X) ELSE X = Idle
  PROVE  /\ thread' \in [Threads -> ThreadStates]
         /\ \A u \in Threads : IF Active(u)' THEN ActiveOK(thread'[u]) ELSE thread'[u] = Idle
  BY DEF TypeOK, Active

\* An operation in progress, field by field.
LEMMA InProgress ==
  ASSUME TypeOK, NEW t \in Threads, Active(t)
  PROVE  /\ thread[t] \in ThreadStates /\ ActiveOK(thread[t])
         /\ CellAt(t) \in Cells /\ mem[CellAt(t)] \in Values
         /\ Cached(thread[t].op) =>
              /\ thread[t].op.array \in Views
              /\ cache[thread[t].op.array] \in Seq(Values)
              /\ thread[t].k \in 1..Len(cache[thread[t].op.array])
              /\ cache[thread[t].op.array][thread[t].k] \in Values
  <1>1. thread[t] \in ThreadStates /\ ActiveOK(thread[t])
    BY DEF TypeOK
  <1>2. CellAt(t) \in Cells /\ mem[CellAt(t)] \in Values
    BY <1>1, PositionsAreCells DEF TypeOK, ActiveOK, CellAt
  <1>3. ASSUME Cached(thread[t].op)
        PROVE  /\ thread[t].op.array \in Views
               /\ cache[thread[t].op.array] \in Seq(Values)
               /\ thread[t].k \in 1..Len(cache[thread[t].op.array])
    BY <1>1, <1>3 DEF TypeOK, ActiveOK, Cached, Positions
  <1> QED
    BY <1>1, <1>2, <1>3

\* The loops stay in their array, and change nothing else.
LEMMA OnwardOK ==
  ASSUME TypeOK, NEW t \in Threads, Active(t),
         NEW here \in {"gather", "kernel", "scatter"}, NEW next \in {"kernel", "scatter", "done"},
         NEW X, X = Onward(t, here, next)
  PROVE  /\ X \in ThreadStates
         /\ X.op = thread[t].op /\ X.reg = thread[t].reg /\ X.got = thread[t].got
         /\ X.at = IF IsLast(t) THEN next ELSE here
         /\ X.k = IF IsLast(t) THEN 1 ELSE thread[t].k + 1
         /\ X.k \in Positions(thread[t].op.array)
  <1> DEFINE th == thread[t]
  <1>1. th \in ThreadStates /\ th.op.array \in Arrays /\ th.k \in 1..Count(th.op.array)
    BY InProgress DEF ActiveOK, Positions
  <1>2. Count(th.op.array) \in Nat \ {0}
    BY <1>1, CountIsPositive
  <1>3. CASE IsLast(t)
    <2>1. X = [th EXCEPT !.at = next, !.k = 1]
      BY <1>3 DEF Onward
    <2>2. /\ X \in ThreadStates
          /\ X.op = th.op /\ X.reg = th.reg /\ X.got = th.got
          /\ X.at = next /\ X.k = 1
      <3> HIDE DEF th
      <3> DEFINE Y == [th EXCEPT !.at = next]
      <3>1. Y \in ThreadStates /\ Y.op = th.op /\ Y.reg = th.reg /\ Y.got = th.got /\ Y.at = next
        BY <1>1 DEF ThreadStates
      <3>2. X = [Y EXCEPT !.k = 1]
        BY <2>1 DEF Y
      <3> HIDE DEF Y
      <3> QED
        BY <3>1, <3>2 DEF ThreadStates
    <2>3. 1 \in Positions(th.op.array)
      BY <1>2 DEF Positions
    <2> QED
      BY <2>2, <2>3, <1>3
  <1>4. CASE ~IsLast(t)
    <2>1. X = [th EXCEPT !.at = here, !.k = th.k + 1]
      BY <1>4 DEF Onward
    <2>2. /\ X \in ThreadStates
          /\ X.op = th.op /\ X.reg = th.reg /\ X.got = th.got
          /\ X.at = here /\ X.k = th.k + 1
      <3> HIDE DEF th
      <3> DEFINE Y == [th EXCEPT !.at = here]
      <3>1. Y \in ThreadStates /\ Y.op = th.op /\ Y.reg = th.reg /\ Y.got = th.got /\ Y.at = here
        BY <1>1 DEF ThreadStates
      <3>2. X = [Y EXCEPT !.k = th.k + 1] /\ th.k + 1 \in Nat
        BY <2>1, <1>1 DEF Y, ThreadStates
      <3> HIDE DEF Y
      <3> QED
        BY <3>1, <3>2 DEF ThreadStates
    <2>3. th.k + 1 \in Positions(th.op.array)
      BY <1>1, <1>2, <1>4 DEF IsLast, Positions
    <2> QED
      BY <2>2, <2>3, <1>4
  <1> QED
    BY <1>3, <1>4

LEMMA TypeNext == TypeOK /\ [Next]_vars => TypeOK'
  <1> SUFFICES ASSUME TypeOK, [Next]_vars PROVE TypeOK'
    OBVIOUS
  <1>1. CASE UNCHANGED vars
    BY <1>1 DEF vars, TypeOK, Active
  <1>2. CASE Next
    <2>1. PICK t \in Threads :
            \/ \E op \in Started : Begin(t, op)
            \/ Load(t) \/ Store(t) \/ Kernel(t) \/ Scatter(t) \/ Finish(t)
      BY <1>2, Steps
    <2>2. ASSUME NEW op \in Started, Begin(t, op) PROVE TypeOK'
      <3> DEFINE X == [Idle EXCEPT !.at = IF Cached(op) THEN "gather" ELSE "kernel", !.op = op]
      <3>1. X \in ThreadStates
        BY IdleIsState DEF ThreadStates, Started, Idle
      <3>2. X.at # "idle" /\ ActiveOK(X)
        BY CountIsPositive, NoneAssumption DEF ActiveOK, Started, Idle, Positions
      <3>3. thread' = [thread EXCEPT ![t] = X]
        BY <2>2 DEF Begin
      <3>4. /\ thread' \in [Threads -> ThreadStates]
            /\ \A u \in Threads : IF Active(u)' THEN ActiveOK(thread'[u]) ELSE thread'[u] = Idle
        BY <3>1, <3>2, <3>3, ThreadStep
      <3>5. left' \in [Threads -> 0..MaxOps]
        BY <2>2, MaxOpsAssumption DEF Begin, TypeOK
      <3> QED
        BY <2>2, <3>4, <3>5 DEF Begin, TypeOK
    <2>3. CASE Load(t)
      <3> DEFINE X == [thread[t] EXCEPT !.at = "store", !.reg = mem[CellAt(t)]]
      <3>1. Active(t)
        BY <2>3 DEF Load, Active
      <3>2. X \in ThreadStates /\ X.at # "idle" /\ ActiveOK(X)
        BY <2>3, <3>1, InProgress DEF Load, ThreadStates, ActiveOK
      <3>3. thread' = [thread EXCEPT ![t] = X]
        BY <2>3 DEF Load, TypeOK
      <3>4. /\ thread' \in [Threads -> ThreadStates]
            /\ \A u \in Threads : IF Active(u)' THEN ActiveOK(thread'[u]) ELSE thread'[u] = Idle
        BY <3>2, <3>3, ThreadStep
      <3> QED
        BY <2>3, <3>4 DEF Load, TypeOK
    <2>4. CASE Store(t)
      <3> DEFINE X == [Onward(t, "gather", "kernel") EXCEPT !.reg = None]
                 O == Onward(t, "gather", "kernel")
                 v == thread[t].op.array
      <3>1. Active(t) /\ Cached(thread[t].op) /\ thread[t].reg \in Values
        BY <2>4, InProgress DEF Store, Active, ActiveOK
      <3>2. X \in ThreadStates /\ X.at # "idle" /\ ActiveOK(X)
        <4>1. /\ O \in ThreadStates /\ O.op = thread[t].op /\ O.got = thread[t].got
              /\ O.at \in {"gather", "kernel"} /\ O.k \in Positions(v)
          BY <3>1, OnwardOK
        <4>2. X \in ThreadStates /\ X.op = O.op /\ X.got = O.got /\ X.at = O.at /\ X.k = O.k /\ X.reg = None
          BY <4>1 DEF ThreadStates
        <4>3. ActiveOK(thread[t])
          BY <3>1, InProgress
        <4> QED
          BY <4>1, <4>2, <4>3, <3>1, NoneAssumption DEF ActiveOK
      <3>3. thread' = [thread EXCEPT ![t] = X] /\ cache' = [cache EXCEPT ![v] = [@ EXCEPT ![thread[t].k] = thread[t].reg]]
        BY <2>4 DEF Store
      <3>4. /\ thread' \in [Threads -> ThreadStates]
            /\ \A u \in Threads : IF Active(u)' THEN ActiveOK(thread'[u]) ELSE thread'[u] = Idle
        BY <3>2, <3>3, ThreadStep
      <3>5. cache' \in [Views -> Seq(Values)] /\ \A w \in Views : Len(cache'[w]) = Count(w)
        BY <3>1, <3>3, InProgress, ReplaceInSeq DEF TypeOK
      <3> QED
        BY <2>4, <3>4, <3>5 DEF Store, TypeOK
    <2>5. CASE Kernel(t)
      <3> DEFINE op == thread[t].op
                 k  == thread[t].k
                 x  == IF Cached(op) THEN cache[op.array][k] ELSE mem[CellAt(t)]
                 X  == [Onward(t, "kernel", IF Cached(op) /\ op.writes THEN "scatter" ELSE "done") EXCEPT
                          !.got = IF k \in op.uses THEN @ \cup {<<k, x>>} ELSE @]
                 O  == Onward(t, "kernel", IF Cached(op) /\ op.writes THEN "scatter" ELSE "done")
      <3>1. Active(t) /\ thread[t].at = "kernel" /\ op \in Operations
        BY <2>5, InProgress DEF Kernel, Active, ThreadStates
      <3>2. x \in Values /\ op.f[x] \in Values /\ k \in Nat
        BY <3>1, InProgress DEF ThreadStates, Operations
      <3>3. X \in ThreadStates /\ X.at # "idle" /\ ActiveOK(X)
        <4>1. /\ O \in ThreadStates /\ O.op = op /\ O.got = thread[t].got /\ O.reg = thread[t].reg
              /\ O.at \in {"kernel", "scatter", "done"} /\ O.k \in Positions(op.array)
              /\ O.at = "scatter" => Cached(op) /\ op.writes
          BY <3>1, OnwardOK
        <4>2. /\ X \in ThreadStates /\ X.op = O.op /\ X.at = O.at /\ X.k = O.k /\ X.reg = O.reg
              /\ X.got \subseteq thread[t].got \cup (IF k \in op.uses THEN {<<k, x>>} ELSE {})
          <5> DEFINE G == IF k \in op.uses THEN O.got \cup {<<k, x>>} ELSE O.got
          <5>1. X = [O EXCEPT !.got = G]
            OBVIOUS
          <5>2. k \in Nat /\ x \in Values
            BY <3>2
          <5>3. O.got \in SUBSET (Nat \X Values) /\ O.got = thread[t].got
            BY <4>1 DEF ThreadStates
          <5> HIDE DEF O, X, x
          <5>4. {<<k, x>>} \subseteq Nat \X Values
            BY <5>2
          <5>5. G \in SUBSET (Nat \X Values) /\ G \subseteq thread[t].got \cup (IF k \in op.uses THEN {<<k, x>>} ELSE {})
            BY <5>3, <5>4
          <5> HIDE DEF G
          <5> QED
            BY <4>1, <5>1, <5>5 DEF ThreadStates
        <4>3. ActiveOK(thread[t])
          BY <3>1, InProgress
        <4>4. \A p \in X.got : p[1] \in op.uses
          BY <4>2, <4>3 DEF ActiveOK
        <4> QED
          BY <4>1, <4>2, <4>3, <4>4, <3>1 DEF ActiveOK
      <3>4. /\ thread' = [thread EXCEPT ![t] = X]
            /\ cache' = IF Cached(op) /\ op.writes THEN [cache EXCEPT ![op.array] = [@ EXCEPT ![k] = op.f[x]]] ELSE cache
            /\ mem' = IF ~Cached(op) /\ op.writes /\ k \in op.uses THEN [mem EXCEPT ![CellAt(t)] = op.f[x]] ELSE mem
        BY <2>5 DEF Kernel
      <3>5. /\ thread' \in [Threads -> ThreadStates]
            /\ \A u \in Threads : IF Active(u)' THEN ActiveOK(thread'[u]) ELSE thread'[u] = Idle
        BY <3>3, <3>4, ThreadStep
      <3>6. cache' \in [Views -> Seq(Values)] /\ \A w \in Views : Len(cache'[w]) = Count(w)
        BY <3>1, <3>2, <3>4, InProgress, ReplaceInSeq DEF TypeOK
      <3>7. mem' \in [Cells -> Values]
        BY <3>1, <3>2, <3>4, InProgress DEF TypeOK
      <3> QED
        BY <2>5, <3>5, <3>6, <3>7 DEF Kernel, TypeOK
    <2>6. CASE Scatter(t)
      <3> DEFINE X == Onward(t, "scatter", "done")
      <3>1. Active(t) /\ Cached(thread[t].op) /\ thread[t].at = "scatter"
        BY <2>6, InProgress DEF Scatter, Active, ActiveOK
      <3>2. X \in ThreadStates /\ X.at # "idle" /\ ActiveOK(X)
        <4>1. /\ X \in ThreadStates /\ X.op = thread[t].op /\ X.got = thread[t].got /\ X.reg = thread[t].reg
              /\ X.at \in {"scatter", "done"} /\ X.k \in Positions(thread[t].op.array)
          BY <3>1, OnwardOK
        <4>2. ActiveOK(thread[t])
          BY <3>1, InProgress
        <4> QED
          BY <4>1, <4>2, <3>1 DEF ActiveOK
      <3>3. thread' = [thread EXCEPT ![t] = X] /\ mem' = [mem EXCEPT ![CellAt(t)] = cache[thread[t].op.array][thread[t].k]]
        BY <2>6 DEF Scatter
      <3>4. /\ thread' \in [Threads -> ThreadStates]
            /\ \A u \in Threads : IF Active(u)' THEN ActiveOK(thread'[u]) ELSE thread'[u] = Idle
        BY <3>2, <3>3, ThreadStep
      <3>5. mem' \in [Cells -> Values]
        BY <3>1, <3>3, InProgress DEF TypeOK
      <3> QED
        BY <2>6, <3>4, <3>5 DEF Scatter, TypeOK
    <2>7. CASE Finish(t)
      <3>1. Active(t)
        BY <2>7 DEF Finish, Active
      <3>2. /\ thread' \in [Threads -> ThreadStates]
            /\ \A u \in Threads : IF Active(u)' THEN ActiveOK(thread'[u]) ELSE thread'[u] = Idle
        BY <2>7, IdleIsState, ThreadStep DEF Finish, Idle
      <3>3. ideal' \in [Cells -> Values]
        BY <2>7, <3>1, InProgress DEF Finish, TypeOK, ThreadStates, Operations
      <3> QED
        BY <2>7, <3>2, <3>3 DEF Finish, TypeOK
    <2> QED
      BY <2>1, <2>2, <2>3, <2>4, <2>5, <2>6, <2>7
  <1> QED
    BY <1>1, <1>2 DEF vars

\* Buffer, caches and threads stay well formed, whatever the contract.
THEOREM TypeCorrect == Spec => []TypeOK
  BY TypeInit, TypeNext, PTL DEF Spec

-----------------------------------------------------------------------------
(* Facts about the threads in one state. *)

\* While one thread writes, another one's array has none of its cells.
LEMMA Apart ==
  ASSUME TypeOK, Exclusive, Contract = "arrays",
         NEW t \in Threads, NEW u \in Threads, t # u, Active(t), Active(u),
         thread[t].op.writes \/ thread[u].op.writes
  PROVE  /\ thread[t].op.array # thread[u].op.array
         /\ \A i \in Positions(thread[t].op.array), j \in Positions(thread[u].op.array) :
              CellsOf[thread[t].op.array][i] # CellsOf[thread[u].op.array][j]
  <1>1. Extent(thread[t].op) \cap Extent(thread[u].op) = {}
    BY DEF Exclusive, Conflict
  <1>2. \A i \in Positions(thread[t].op.array), j \in Positions(thread[u].op.array) :
          CellsOf[thread[t].op.array][i] # CellsOf[thread[u].op.array][j]
    BY <1>1 DEF Extent
  <1>3. thread[t].op.array \in Arrays /\ 1 \in Positions(thread[t].op.array)
    BY InProgress, CountIsPositive DEF ActiveOK, Positions
  <1> QED
    BY <1>2, <1>3

\* What has been written is part of an operation in progress.
LEMMA WrittenIsActive ==
  ASSUME TypeOK, NEW t \in Threads, NEW j \in thread[t].op.uses, Written(thread[t], j)
  PROVE  /\ Active(t) /\ thread[t].op.writes
         /\ j \in Positions(thread[t].op.array)
  <1>1. Active(t) /\ thread[t].op.writes
    BY DEF Written, Active
  <1> QED
    BY <1>1, InProgress DEF ActiveOK

\* A thread that has still to deal with its element finds NumPy's there.
LEMMA MemAtCell ==
  ASSUME TypeOK, Exclusive, MemOK, Contract = "arrays", NEW t \in Threads, thread[t].at \in {"gather", "kernel"}
  PROVE  mem[CellAt(t)] = Old(thread[t].op, thread[t].k)
  <1>1. Active(t)
    BY DEF Active
  <1>2. /\ ActiveOK(thread[t]) /\ CellAt(t) \in Cells /\ thread[t].k \in Positions(thread[t].op.array)
        /\ thread[t].op.array \in Arrays
    BY <1>1, InProgress DEF ActiveOK
  <1>3. ASSUME NEW u \in Threads, NEW j \in thread[u].op.uses, Written(thread[u], j)
        PROVE  CellsOf[thread[u].op.array][j] # CellAt(t)
    <2>1. Active(u) /\ thread[u].op.writes /\ j \in Positions(thread[u].op.array)
      BY <1>3, WrittenIsActive
    <2>2. CASE u = t
      <3>1. j < thread[t].k
        BY <1>3, <2>2 DEF Written
      <3>2. j # thread[t].k
        BY <3>1, <1>2, <2>1, <2>2, CountIsPositive DEF Positions
      <3> QED
        BY <3>2, <1>2, <2>1, <2>2, PositionsAreCells DEF CellAt
    <2>3. CASE u # t
      BY <1>1, <1>2, <2>1, <2>3, Apart DEF CellAt
    <2> QED
      BY <2>2, <2>3
  <1> QED
    BY <1>2, <1>3 DEF MemOK, CellAt, Old

-----------------------------------------------------------------------------
(* What a step leaves as it was. *)

\* The contract is kept when no operation begins.
LEMMA ExclusiveStep ==
  ASSUME Exclusive, \A u \in Threads : Active(u)' => Active(u) /\ thread'[u].op = thread[u].op
  PROVE  Exclusive'
  BY DEF Exclusive

\* A thread that does nothing keeps its cache if that is left alone.
LEMMA CacheStep ==
  ASSUME TypeOK, NEW u \in Threads, Active(u), CacheOK(u), thread'[u] = thread[u],
         \A j \in Positions(thread[u].op.array) : Old(thread[u].op, j)' = Old(thread[u].op, j),
         Cached(thread[u].op) =>
           \A j \in Positions(thread[u].op.array) :
             \/ cache'[thread[u].op.array][j] = cache[thread[u].op.array][j]
             \/ ~thread[u].op.writes /\ cache'[thread[u].op.array][j] = Old(thread[u].op, j)
  PROVE  CacheOK(u)'
  <1> DEFINE op == thread[u].op
             k  == thread[u].k
  <1>1. /\ k \in Positions(op.array) /\ op.array \in Arrays
        /\ thread[u].at \in {"gather", "store", "scatter"} => Cached(op)
        /\ thread[u].at = "scatter" => op.writes
    BY InProgress DEF ActiveOK
  <1>2. \A j \in 1..(k - 1) : j \in Positions(op.array)
    BY <1>1, CountIsPositive DEF Positions
  <1>3. ASSUME NEW j \in Positions(op.array) PROVE New(op, j)' = New(op, j)
    BY <1>3 DEF New
  <1> QED
    BY <1>1, <1>2, <1>3 DEF CacheOK

\* The buffer is untouched, and no operation has written more of it.
LEMMA MemSame ==
  ASSUME MemOK, mem' = mem, ideal' = ideal,
         \A u \in Threads :
           \/ thread'[u].op = thread[u].op /\ \A j \in thread[u].op.uses : Written(thread'[u], j) <=> Written(thread[u], j)
           \/ /\ \A j \in thread[u].op.uses : ~Written(thread[u], j)
              /\ \A j \in thread'[u].op.uses : ~Written(thread'[u], j)
  PROVE  MemOK'
  <1>1. ASSUME NEW u \in Threads, NEW j \in thread'[u].op.uses, Written(thread'[u], j)
        PROVE  mem'[CellsOf[thread'[u].op.array][j]] = New(thread[u].op, j)'
    <2>1. thread'[u].op = thread[u].op /\ Written(thread[u], j)
      BY <1>1
    <2> QED
      BY <1>1, <2>1 DEF MemOK, New, Old
  <1>2. ASSUME NEW c \in Cells,
               \A u \in Threads : \A j \in thread'[u].op.uses :
                 Written(thread'[u], j) => CellsOf[thread'[u].op.array][j] # c
        PROVE  mem'[c] = ideal'[c]
    <2>1. \A u \in Threads : \A j \in thread[u].op.uses :
            Written(thread[u], j) => CellsOf[thread[u].op.array][j] # c
      BY <1>2
    <2> QED
      BY <2>1 DEF MemOK
  <1> QED
    BY <1>1, <1>2 DEF MemOK

\* One more element has been written to the buffer.
LEMMA MemWrite ==
  ASSUME TypeOK, Exclusive, MemOK, Contract = "arrays",
         NEW t \in Threads, Active(t), thread[t].op.writes, thread[t].k \in thread[t].op.uses,
         mem' = [mem EXCEPT ![CellAt(t)] = New(thread[t].op, thread[t].k)], ideal' = ideal,
         \A u \in Threads : thread'[u].op = thread[u].op /\ (u # t => thread'[u] = thread[u]),
         \A j \in thread[t].op.uses : Written(thread'[t], j) <=> Written(thread[t], j) \/ j = thread[t].k
  PROVE  MemOK'
  <1>1. /\ thread[t].k \in Positions(thread[t].op.array) /\ thread[t].op.array \in Arrays
        /\ CellAt(t) \in Cells /\ mem \in [Cells -> Values]
    BY InProgress DEF ActiveOK, TypeOK
  <1>2. ASSUME NEW u \in Threads, NEW j \in thread[u].op.uses, Written(thread[u], j), u = t => j # thread[t].k
        PROVE  CellsOf[thread[u].op.array][j] # CellAt(t)
    <2>1. Active(u) /\ j \in Positions(thread[u].op.array)
      BY <1>2, WrittenIsActive
    <2>2. CASE u = t
      BY <1>1, <1>2, <2>1, <2>2, PositionsAreCells DEF CellAt
    <2>3. CASE u # t
      BY <1>1, <2>1, <2>3, Apart DEF CellAt
    <2> QED
      BY <2>2, <2>3
  <1>3. ASSUME NEW u \in Threads, NEW j \in thread[u].op.uses, Written(thread'[u], j)
        PROVE  mem'[CellsOf[thread[u].op.array][j]] = New(thread[u].op, j)
    <2>1. CASE u = t /\ j = thread[t].k
      BY <1>1, <2>1 DEF CellAt
    <2>2. CASE ~(u = t /\ j = thread[t].k)
      <3>1. Written(thread[u], j)
        BY <1>3, <2>2 DEF Written
      <3>2. CellsOf[thread[u].op.array][j] # CellAt(t) /\ CellsOf[thread[u].op.array][j] \in Cells
        <4>1. Active(u) /\ j \in Positions(thread[u].op.array)
          BY <3>1, WrittenIsActive
        <4>2. thread[u].op.array \in Arrays
          BY <4>1, InProgress DEF ActiveOK
        <4> QED
          BY <1>2, <2>2, <3>1, <4>1, <4>2, PositionsAreCells
      <3>3. mem[CellsOf[thread[u].op.array][j]] = New(thread[u].op, j)
        BY <3>1 DEF MemOK
      <3> QED
        BY <1>1, <3>2, <3>3
    <2> QED
      BY <2>1, <2>2
  <1>4. ASSUME NEW c \in Cells,
               \A u \in Threads : \A j \in thread[u].op.uses :
                 Written(thread'[u], j) => CellsOf[thread[u].op.array][j] # c
        PROVE  mem'[c] = ideal[c]
    <2>1. c # CellAt(t)
      BY <1>4 DEF CellAt
    <2>3. ASSUME NEW u \in Threads, NEW j \in thread[u].op.uses, Written(thread[u], j)
          PROVE  CellsOf[thread[u].op.array][j] # c
      <3>1. CASE u = t
        BY <1>4, <2>3, <3>1
      <3>2. CASE u # t
        BY <1>4, <2>3, <3>2 DEF Written
      <3> QED
        BY <3>1, <3>2
    <2>4. mem[c] = ideal[c]
      BY <2>3 DEF MemOK
    <2> QED
      BY <1>1, <2>1, <2>4
  <1>5. \A u \in Threads : \A j \in thread[u].op.uses : New(thread[u].op, j)' = New(thread[u].op, j)
    BY DEF New, Old
  <1> QED
    BY <1>3, <1>4, <1>5 DEF MemOK

-----------------------------------------------------------------------------
(* The steps of an operation. *)

\* Every other thread does nothing meanwhile.
LEMMA Others ==
  ASSUME TypeOK, NEW t \in Threads, NEW X, thread' = [thread EXCEPT ![t] = X]
  PROVE  thread'[t] = X /\ \A u \in Threads \ {t} : thread'[u] = thread[u]
  BY DEF TypeOK

LEMMA BeginConsistent ==
  ASSUME Inv, Contract = "arrays", NEW t \in Threads, NEW op \in Started, Begin(t, op)
  PROVE  Consistent'
  <1>1. /\ thread'[t] = [Idle EXCEPT !.at = IF Cached(op) THEN "gather" ELSE "kernel", !.op = op]
        /\ \A u \in Threads \ {t} : thread'[u] = thread[u]
    BY Others DEF Begin, Inv
  <1>2. /\ thread'[t].op = op /\ thread'[t].k = 1 /\ thread'[t].got = {}
        /\ thread'[t].at = IF Cached(op) THEN "gather" ELSE "kernel"
    BY <1>1 DEF Idle
  <1>3. ~Active(t) /\ thread[t].op.uses = {}
    BY DEF Begin, Inv, TypeOK, Idle, NoOp, Operation
  <1>4. op.array \in Arrays /\ op.uses \subseteq Positions(op.array)
    BY DEF Started
  <1>5. Exclusive'
    <2>1. ASSUME NEW u \in Threads, u # t, Active(u)
          PROVE  ~Conflict(op, thread[u].op) /\ ~Conflict(thread[u].op, op)
      BY <2>1 DEF Begin, Conflict
    <2> QED
      BY <1>1, <1>2, <2>1 DEF Exclusive, Active, Inv, Consistent
  <1>6. \A u \in Threads : Active(u)' => CacheOK(u)'
    <2>1. CacheOK(t)'
      BY <1>2, <1>4 DEF CacheOK
    <2>2. ASSUME NEW u \in Threads \ {t}, Active(u)'
          PROVE  CacheOK(u)'
      <3>1. Active(u) /\ thread'[u] = thread[u] /\ CacheOK(u)
        BY <2>2, <1>1 DEF Active, Inv, Consistent
      <3> QED
        BY <3>1, CacheStep DEF Begin, Old, Inv
    <2> QED
      BY <2>1, <2>2
  <1>7. MemOK'
    <2>1. \A j \in thread'[t].op.uses : ~Written(thread'[t], j)
      BY <1>2, <1>4, CountIsPositive DEF Written, Positions
    <2>2. \A u \in Threads \ {t} : thread'[u].op = thread[u].op /\ \A j \in thread[u].op.uses : Written(thread'[u], j) <=> Written(thread[u], j)
      BY <1>1 DEF Written
    <2> QED
      BY <1>3, <2>1, <2>2, MemSame DEF Begin, Inv, Consistent
  <1>8. GotOK'
    BY <1>1, <1>2 DEF Begin, GotOK, Old, Inv, Consistent
  <1> QED
    BY <1>5, <1>6, <1>7, <1>8 DEF Consistent

\* What a step of an operation in progress has to show: the contract and what
\* the other threads have gathered follow from what the step leaves alone.
LEMMA StepConsistent ==
  ASSUME Inv, NEW t \in Threads, Active(t),
         \A u \in Threads \ {t} : thread'[u] = thread[u],
         thread'[t].op = thread[t].op, ideal' = ideal,
         \A u \in Threads \ {t} : Active(u) /\ Cached(thread[u].op) =>
           \A j \in Positions(thread[u].op.array) :
             \/ cache'[thread[u].op.array][j] = cache[thread[u].op.array][j]
             \/ ~thread[u].op.writes /\ cache'[thread[u].op.array][j] = Old(thread[u].op, j),
         CacheOK(t)', MemOK',
         \A p \in thread'[t].got : p \in thread[t].got \/ p[2] = Old(thread[t].op, p[1])
  PROVE  Consistent'
  <1>1. \A u \in Threads : thread'[u].op = thread[u].op
    OBVIOUS
  <1>2. Exclusive'
    <2>1. \A u \in Threads : Active(u)' => Active(u) /\ thread'[u].op = thread[u].op
      BY <1>1 DEF Active
    <2> QED
      BY <2>1, ExclusiveStep DEF Inv, Consistent
  <1>3. ASSUME NEW u \in Threads, Active(u)' PROVE CacheOK(u)'
    <2>1. CASE u = t
      BY <2>1
    <2>2. CASE u # t
      <3>1. Active(u) /\ thread'[u] = thread[u] /\ CacheOK(u)
        BY <1>3, <2>2 DEF Active, Inv, Consistent
      <3>2. \A j \in Positions(thread[u].op.array) : Old(thread[u].op, j)' = Old(thread[u].op, j)
        BY <3>1 DEF Old
      <3> QED
        BY <2>2, <3>1, <3>2, CacheStep DEF Inv
    <2> QED
      BY <2>1, <2>2
  <1>4. GotOK'
    BY <1>1 DEF GotOK, Old, Inv, Consistent
  <1> QED
    BY <1>2, <1>3, <1>4 DEF Consistent

LEMMA LoadConsistent ==
  ASSUME Inv, Contract = "arrays", NEW t \in Threads, Load(t)
  PROVE  Consistent'
  <1> DEFINE X == [thread[t] EXCEPT !.at = "store", !.reg = mem[CellAt(t)]]
  <1>1. Active(t) /\ thread[t] \in ThreadStates /\ CacheOK(t) /\ thread[t].at = "gather"
    BY InProgress DEF Load, Active, Inv, Consistent
  <1>2. /\ X.at = "store" /\ X.reg = mem[CellAt(t)]
        /\ X.op = thread[t].op /\ X.k = thread[t].k /\ X.got = thread[t].got
    BY <1>1 DEF ThreadStates
  <1>3. thread'[t] = X /\ \A u \in Threads \ {t} : thread'[u] = thread[u]
    <2>1. thread' = [thread EXCEPT ![t] = X]
      BY DEF Load, Inv, TypeOK
    <2> QED
      BY <2>1, Others DEF Inv
  <1> HIDE DEF X
  <1>4. mem[CellAt(t)] = Old(thread[t].op, thread[t].k)
    BY <1>1, MemAtCell DEF Inv, Consistent
  <1>5. CacheOK(t)'
    BY <1>1, <1>2, <1>3, <1>4 DEF Load, CacheOK, Old
  <1>6. MemOK'
    <2>1. \A j \in thread[t].op.uses : ~Written(thread[t], j) /\ ~Written(thread'[t], j)
      BY <1>1, <1>2, <1>3 DEF Written
    <2> QED
      BY <1>2, <1>3, <2>1, MemSame DEF Load, Inv, Consistent
  <1> QED
    BY <1>1, <1>2, <1>3, <1>5, <1>6, StepConsistent DEF Load

LEMMA StoreConsistent ==
  ASSUME Inv, Contract = "arrays", NEW t \in Threads, Store(t)
  PROVE  Consistent'
  <1> DEFINE O  == Onward(t, "gather", "kernel")
             X  == [O EXCEPT !.reg = None]
             op == thread[t].op
             k  == thread[t].k
  <1>1. Active(t) /\ CacheOK(t) /\ thread[t].at = "store" /\ thread[t].reg = Old(op, k)
    BY DEF Store, Active, Inv, Consistent, CacheOK
  <1>2. /\ ActiveOK(thread[t]) /\ Cached(op) /\ op.array \in Views /\ op.array \in Arrays
        /\ cache[op.array] \in Seq(Values) /\ Len(cache[op.array]) = Count(op.array)
        /\ k \in Positions(op.array) /\ thread[t].reg \in Values
    BY <1>1, InProgress DEF ActiveOK, Inv, TypeOK
  <1>3. /\ X.op = op /\ X.got = thread[t].got
        /\ X.at = IF IsLast(t) THEN "kernel" ELSE "gather"
        /\ X.k = IF IsLast(t) THEN 1 ELSE k + 1
    <2>1. /\ O \in ThreadStates /\ O.op = op /\ O.got = thread[t].got
          /\ O.at = IF IsLast(t) THEN "kernel" ELSE "gather"
          /\ O.k = IF IsLast(t) THEN 1 ELSE k + 1
      BY <1>1, OnwardOK DEF Inv
    <2> HIDE DEF O
    <2> QED
      BY <2>1 DEF ThreadStates
  <1>4. thread'[t] = X /\ \A u \in Threads \ {t} : thread'[u] = thread[u]
    BY Others DEF Store, Inv
  <1> HIDE DEF X
  <1>5. /\ \A j \in Positions(op.array) :
             cache'[op.array][j] = IF j = k THEN Old(op, k) ELSE cache[op.array][j]
        /\ \A w \in Views \ {op.array} : cache'[w] = cache[w]
    <2>1. cache' = [cache EXCEPT ![op.array] = [@ EXCEPT ![k] = thread[t].reg]]
      BY DEF Store
    <2>2. cache'[op.array] = [cache[op.array] EXCEPT ![k] = thread[t].reg]
      BY <1>2, <2>1 DEF Inv, TypeOK
    <2>3. \A j \in Positions(op.array) :
            cache'[op.array][j] = IF j = k THEN thread[t].reg ELSE cache[op.array][j]
      BY <1>2, <2>2, ReplaceInSeq DEF Positions
    <2> QED
      BY <1>1, <2>1, <2>3 DEF Inv, TypeOK
  <1>6. CacheOK(t)'
    <2>1. \A j \in 1..k : j \in Positions(op.array) /\ cache'[op.array][j] = Old(op, j)
      <3>1. \A j \in 1..k : j \in Positions(op.array) /\ (j = k \/ j \in 1..(k - 1))
        BY <1>2, CountIsPositive DEF Positions
      <3>2. \A j \in 1..(k - 1) : cache[op.array][j] = Old(op, j)
        BY <1>1 DEF CacheOK
      <3> QED
        BY <1>5, <3>1, <3>2
    <2>2. ideal' = ideal
      BY DEF Store
    <2>3. CASE IsLast(t)
      <3>1. thread'[t].at = "kernel" /\ thread'[t].k = 1 /\ thread'[t].op = op
        BY <1>3, <1>4, <2>3
      <3>2. Positions(op.array) = 1..k
        BY <2>3 DEF IsLast, Positions
      <3>3. \A j \in Positions(op.array) : cache'[op.array][j] = ideal'[CellsOf[op.array][j]] /\ ~(j < 1)
        BY <2>1, <2>2, <3>2 DEF Old
      <3> QED
        BY <3>1, <3>3 DEF CacheOK, Old
    <2>4. CASE ~IsLast(t)
      <3>1. thread'[t].at = "gather" /\ thread'[t].k = k + 1 /\ thread'[t].op = op
        BY <1>3, <1>4, <2>4
      <3>2. 1..(thread'[t].k - 1) = 1..k
        BY <1>2, <3>1 DEF Positions
      <3>3. \A j \in 1..(thread'[t].k - 1) : cache'[op.array][j] = ideal'[CellsOf[op.array][j]]
        BY <2>1, <2>2, <3>2 DEF Old
      <3> QED
        BY <3>1, <3>2, <3>3 DEF CacheOK, Old
    <2> QED
      BY <2>3, <2>4
  <1>7. MemOK'
    <2>1. \A j \in op.uses : ~Written(thread[t], j) /\ ~Written(thread'[t], j)
      <3>1. \A j \in op.uses : j \in Positions(op.array)
        BY <1>2 DEF ActiveOK
      <3>2. \A j \in op.uses : Written(thread'[t], j) => FALSE
        BY <1>2, <1>3, <1>4 DEF Written
      <3> QED
        BY <1>1, <3>2 DEF Written
    <2> QED
      BY <1>3, <1>4, <2>1, MemSame DEF Store, Inv, Consistent
  <1>8. ASSUME NEW u \in Threads \ {t}, Active(u), Cached(thread[u].op), NEW j \in Positions(thread[u].op.array)
        PROVE  \/ cache'[thread[u].op.array][j] = cache[thread[u].op.array][j]
               \/ ~thread[u].op.writes /\ cache'[thread[u].op.array][j] = Old(thread[u].op, j)
    <2>1. CASE thread[u].op.array # op.array
      BY <1>5, <1>8, <2>1, InProgress DEF Inv
    <2>2. CASE thread[u].op.array = op.array
      <3>1. ~thread[u].op.writes
        BY <1>1, <1>8, <2>2, Apart DEF Inv, Consistent
      <3>2. \/ cache'[thread[u].op.array][j] = cache[thread[u].op.array][j]
            \/ j = k /\ cache'[thread[u].op.array][j] = Old(op, k)
        BY <1>5, <1>8, <2>2
      <3> QED
        BY <2>2, <3>1, <3>2 DEF Old
    <2> QED
      BY <2>1, <2>2
  <1> QED
    BY <1>1, <1>3, <1>4, <1>6, <1>7, <1>8, StepConsistent DEF Store

LEMMA KernelConsistent ==
  ASSUME Inv, Contract = "arrays", NEW t \in Threads, Kernel(t)
  PROVE  Consistent'
  <1> DEFINE op == thread[t].op
             k  == thread[t].k
             x  == IF Cached(op) THEN cache[op.array][k] ELSE mem[CellAt(t)]
             O  == Onward(t, "kernel", IF Cached(op) /\ op.writes THEN "scatter" ELSE "done")
             G  == IF k \in op.uses THEN O.got \cup {<<k, x>>} ELSE O.got
             X  == [O EXCEPT !.got = G]
  <1>1. Active(t) /\ CacheOK(t) /\ thread[t].at = "kernel"
    BY DEF Kernel, Active, Inv, Consistent
  <1>2. /\ op.array \in Arrays /\ Count(op.array) \in Nat \ {0} /\ op.uses \subseteq Positions(op.array)
        /\ k \in Positions(op.array)
        /\ Cached(op) => /\ op.array \in Views /\ cache[op.array] \in Seq(Values)
                         /\ Len(cache[op.array]) = Count(op.array)
    BY <1>1, InProgress, CountIsPositive DEF ActiveOK, Inv, TypeOK
  <1>3. x = Old(op, k)
    <2>1. CASE Cached(op)
      BY <1>1, <1>2, <2>1 DEF CacheOK, Positions
    <2>2. CASE ~Cached(op)
      BY <1>1, <2>2, MemAtCell DEF Inv, Consistent
    <2> QED
      BY <2>1, <2>2
  <1>4. /\ X.op = op /\ X.got \subseteq thread[t].got \cup {<<k, x>>}
        /\ X.at = IF IsLast(t) THEN (IF Cached(op) /\ op.writes THEN "scatter" ELSE "done") ELSE "kernel"
        /\ X.k = IF IsLast(t) THEN 1 ELSE k + 1
    <2>1. /\ O \in ThreadStates /\ O.op = op /\ O.got = thread[t].got
          /\ O.at = IF IsLast(t) THEN (IF Cached(op) /\ op.writes THEN "scatter" ELSE "done") ELSE "kernel"
          /\ O.k = IF IsLast(t) THEN 1 ELSE k + 1
      BY <1>1, OnwardOK DEF Inv
    <2>2. G \subseteq thread[t].got \cup {<<k, x>>}
      BY <2>1
    <2> HIDE DEF O, G
    <2> QED
      BY <2>1, <2>2 DEF ThreadStates
  <1>5. /\ thread' = [thread EXCEPT ![t] = X]
        /\ cache' = IF Cached(op) /\ op.writes THEN [cache EXCEPT ![op.array] = [@ EXCEPT ![k] = op.f[x]]] ELSE cache
        /\ mem' = IF ~Cached(op) /\ op.writes /\ k \in op.uses THEN [mem EXCEPT ![CellAt(t)] = op.f[x]] ELSE mem
        /\ ideal' = ideal
    BY DEF Kernel
  <1>6. thread'[t] = X /\ \A u \in Threads \ {t} : thread'[u] = thread[u]
    BY <1>5, Others DEF Inv
  <1> HIDE DEF X, x
  <1>7. Cached(op) /\ op.writes =>
          /\ \A j \in Positions(op.array) :
               cache'[op.array][j] = IF j = k THEN New(op, k) ELSE cache[op.array][j]
          /\ \A w \in Views \ {op.array} : cache'[w] = cache[w]
    <2> SUFFICES ASSUME Cached(op), op.writes
                 PROVE  /\ \A j \in Positions(op.array) :
                             cache'[op.array][j] = IF j = k THEN New(op, k) ELSE cache[op.array][j]
                        /\ \A w \in Views \ {op.array} : cache'[w] = cache[w]
      OBVIOUS
    <2>1. op.f[x] = New(op, k) /\ op.f[x] \in Values
      BY <1>1, <1>3, InProgress DEF New, x, Inv, ThreadStates, Operations
    <2>2. cache'[op.array] = [cache[op.array] EXCEPT ![k] = op.f[x]]
      BY <1>2, <1>5 DEF Inv, TypeOK
    <2>3. \A j \in Positions(op.array) :
            cache'[op.array][j] = IF j = k THEN op.f[x] ELSE cache[op.array][j]
      BY <1>2, <2>1, <2>2, ReplaceInSeq DEF Positions
    <2> QED
      BY <1>5, <2>1, <2>3 DEF Inv, TypeOK
  <1>8. Cached(op) => \A j \in Positions(op.array) :
          cache'[op.array][j] = IF op.writes /\ (j < k \/ j = k) THEN op.f[ideal'[CellsOf[op.array][j]]]
                                                                 ELSE ideal'[CellsOf[op.array][j]]
    <2> SUFFICES ASSUME Cached(op), NEW j \in Positions(op.array)
                 PROVE  cache'[op.array][j] = IF op.writes /\ (j < k \/ j = k)
                                              THEN op.f[ideal'[CellsOf[op.array][j]]]
                                              ELSE ideal'[CellsOf[op.array][j]]
      OBVIOUS
    <2>1. cache[op.array][j] = IF op.writes /\ j < k THEN New(op, j) ELSE Old(op, j)
      BY <1>1 DEF CacheOK
    <2>2. CASE op.writes
      BY <1>5, <1>7, <2>1, <2>2 DEF New, Old
    <2>3. CASE ~op.writes
      BY <1>5, <2>1, <2>3 DEF Old
    <2> QED
      BY <2>2, <2>3
  <1>9. CacheOK(t)'
    <2>1. /\ thread'[t].op = op
          /\ thread'[t].at = IF IsLast(t) THEN (IF Cached(op) /\ op.writes THEN "scatter" ELSE "done") ELSE "kernel"
          /\ thread'[t].k = IF IsLast(t) THEN 1 ELSE k + 1
      BY <1>4, <1>6
    <2>2. CASE IsLast(t)
      <3>1. \A j \in Positions(op.array) : j < k \/ j = k
        BY <1>2, <2>2 DEF IsLast, Positions
      <3> QED
        BY <1>8, <2>1, <2>2, <3>1 DEF CacheOK, New, Old
    <2>3. CASE ~IsLast(t)
      <3>1. \A j \in Positions(op.array) : j < k + 1 <=> j < k \/ j = k
        BY <1>2 DEF Positions
      <3> QED
        BY <1>8, <2>1, <2>3, <3>1 DEF CacheOK, New, Old
    <2> QED
      BY <2>2, <2>3
  <1>10. MemOK'
    <2>1. CASE ~op.writes \/ Cached(op)
      <3>1. \A j \in op.uses : ~Written(thread[t], j) /\ ~Written(thread'[t], j)
        <4>1. \A j \in op.uses : ~(j < 1)
          BY <1>2 DEF Positions
        <4> QED
          BY <1>1, <1>4, <1>6, <2>1, <4>1 DEF Written
      <3> QED
        BY <1>4, <1>5, <1>6, <2>1, <3>1, MemSame DEF Inv, Consistent
    <2>2. CASE op.writes /\ ~Cached(op)
      <3>1. \A j \in op.uses : Written(thread'[t], j) <=> Written(thread[t], j) \/ j = k
        <4>1. ASSUME NEW j \in op.uses
              PROVE  Written(thread[t], j) <=> j < k
          BY <1>1, <2>2 DEF Written
        <4>2. ASSUME NEW j \in op.uses
              PROVE  Written(thread'[t], j) <=> j < k \/ j = k
          <5>1. j \in 1..Count(op.array) /\ k \in 1..Count(op.array)
            BY <1>2 DEF Positions
          <5>2. CASE IsLast(t)
            BY <1>2, <1>4, <1>6, <2>2, <5>1, <5>2 DEF Written, IsLast
          <5>3. CASE ~IsLast(t)
            BY <1>2, <1>4, <1>6, <2>2, <5>1, <5>3 DEF Written
          <5> QED
            BY <5>2, <5>3
        <4> QED
          BY <4>1, <4>2
      <3>2. CASE k \in op.uses
        <4>1. mem' = [mem EXCEPT ![CellAt(t)] = New(op, k)]
          BY <1>3, <1>5, <2>2, <3>2 DEF New
        <4>2. \A u \in Threads : thread'[u].op = thread[u].op /\ (u # t => thread'[u] = thread[u])
          BY <1>4, <1>6
        <4> QED
          BY <1>1, <1>5, <2>2, <3>1, <3>2, <4>1, <4>2, MemWrite DEF Inv, Consistent
      <3>3. CASE k \notin op.uses
        BY <1>4, <1>5, <1>6, <2>2, <3>1, <3>3, MemSame DEF Inv, Consistent
      <3> QED
        BY <3>2, <3>3
    <2> QED
      BY <2>1, <2>2
  <1>11. ASSUME NEW u \in Threads \ {t}, Active(u), Cached(thread[u].op), NEW j \in Positions(thread[u].op.array)
         PROVE  cache'[thread[u].op.array][j] = cache[thread[u].op.array][j]
    <2>1. CASE Cached(op) /\ op.writes
      <3>1. thread[u].op.array # op.array /\ thread[u].op.array \in Views
        BY <1>1, <1>11, <2>1, Apart, InProgress DEF Inv, Consistent
      <3> QED
        BY <1>7, <2>1, <3>1
    <2>2. CASE ~(Cached(op) /\ op.writes)
      BY <1>5, <2>2
    <2> QED
      BY <2>1, <2>2
  <1>12. \A p \in thread'[t].got : p \in thread[t].got \/ p[2] = Old(op, p[1])
    BY <1>3, <1>4, <1>6
  <1> QED
    BY <1>1, <1>4, <1>5, <1>6, <1>9, <1>10, <1>11, <1>12, StepConsistent

LEMMA ScatterConsistent ==
  ASSUME Inv, Contract = "arrays", NEW t \in Threads, Scatter(t)
  PROVE  Consistent'
  <1> DEFINE op == thread[t].op
             k  == thread[t].k
             X  == Onward(t, "scatter", "done")
  <1>1. Active(t) /\ CacheOK(t) /\ thread[t].at = "scatter"
    BY DEF Scatter, Active, Inv, Consistent
  <1>2. /\ op.array \in Arrays /\ Count(op.array) \in Nat \ {0} /\ op.uses = Positions(op.array)
        /\ k \in Positions(op.array) /\ op.writes /\ Cached(op)
    BY <1>1, InProgress, CountIsPositive DEF ActiveOK, Inv
  <1>3. /\ X.op = op /\ X.got = thread[t].got
        /\ X.at = IF IsLast(t) THEN "done" ELSE "scatter"
        /\ X.k = IF IsLast(t) THEN 1 ELSE k + 1
    BY <1>1, OnwardOK DEF Inv
  <1>4. thread'[t] = X /\ \A u \in Threads \ {t} : thread'[u] = thread[u]
    BY Others DEF Scatter, Inv
  <1> HIDE DEF X
  <1>5. cache[op.array][k] = New(op, k)
    BY <1>1, <1>2 DEF CacheOK
  <1>6. CacheOK(t)'
    <2>1. thread'[t].op = op /\ thread'[t].at \in {"scatter", "done"}
      BY <1>3, <1>4
    <2>2. \A j \in Positions(op.array) : cache'[op.array][j] = op.f[ideal'[CellsOf[op.array][j]]]
      BY <1>1 DEF Scatter, CacheOK, New, Old
    <2> QED
      BY <2>1, <2>2 DEF CacheOK, New, Old
  <1>7. MemOK'
    <2>1. \A j \in op.uses : Written(thread'[t], j) <=> Written(thread[t], j) \/ j = k
      <3> SUFFICES ASSUME NEW j \in op.uses
                   PROVE  Written(thread'[t], j) <=> Written(thread[t], j) \/ j = k
        OBVIOUS
      <3>1. j \in 1..Count(op.array) /\ k \in 1..Count(op.array)
        BY <1>2 DEF Positions
      <3>2. Written(thread[t], j) <=> j < k
        BY <1>1, <1>2 DEF Written
      <3>3. CASE IsLast(t)
        BY <1>2, <1>3, <1>4, <3>1, <3>2, <3>3 DEF Written, IsLast
      <3>4. CASE ~IsLast(t)
        BY <1>2, <1>3, <1>4, <3>1, <3>2, <3>4 DEF Written
      <3> QED
        BY <3>3, <3>4
    <2>2. mem' = [mem EXCEPT ![CellAt(t)] = New(op, k)] /\ ideal' = ideal
      BY <1>5 DEF Scatter
    <2>3. \A u \in Threads : thread'[u].op = thread[u].op /\ (u # t => thread'[u] = thread[u])
      BY <1>3, <1>4
    <2> QED
      BY <1>1, <1>2, <2>1, <2>2, <2>3, MemWrite DEF Inv, Consistent
  <1> QED
    BY <1>1, <1>3, <1>4, <1>6, <1>7, StepConsistent DEF Scatter

LEMMA FinishConsistent ==
  ASSUME Inv, Contract = "arrays", NEW t \in Threads, Finish(t)
  PROVE  Consistent'
  <1> DEFINE op == thread[t].op
  <1>1. Active(t) /\ thread[t].at = "done" /\ ActiveOK(thread[t])
    BY InProgress DEF Finish, Active, Inv
  <1>2. /\ thread'[t] = Idle /\ \A u \in Threads \ {t} : thread'[u] = thread[u]
        /\ mem' = mem /\ cache' = cache
    BY Others DEF Finish, Inv
  <1>3. thread'[t].at = "idle" /\ thread'[t].op.uses = {} /\ thread'[t].got = {}
    BY <1>2 DEF Idle, NoOp, Operation
  <1>4. \A c \in Cells : ideal'[c] = IF op.writes /\ c \in Touched(op) THEN op.f[ideal[c]] ELSE ideal[c]
    BY DEF Finish
  <1>5. ASSUME NEW u \in Threads \ {t}, Active(u), NEW j \in Positions(thread[u].op.array)
        PROVE  Old(thread[u].op, j)' = Old(thread[u].op, j)
    <2>1. thread[u].op.array \in Arrays /\ CellsOf[thread[u].op.array][j] \in Cells
      BY <1>5, InProgress, PositionsAreCells DEF ActiveOK, Inv
    <2>2. op.writes => CellsOf[thread[u].op.array][j] \notin Touched(op)
      BY <1>1, <1>5, Apart DEF Touched, ActiveOK, Inv, Consistent
    <2> QED
      BY <1>2, <1>4, <2>1, <2>2 DEF Old
  <1>6. Exclusive'
    <2>1. \A u \in Threads : Active(u)' => Active(u) /\ thread'[u].op = thread[u].op
      BY <1>2, <1>3 DEF Active
    <2> QED
      BY <2>1, ExclusiveStep DEF Inv, Consistent
  <1>7. ASSUME NEW u \in Threads, Active(u)' PROVE CacheOK(u)'
    <2>1. u # t /\ Active(u) /\ thread'[u] = thread[u] /\ CacheOK(u)
      BY <1>2, <1>3, <1>7 DEF Active, Inv, Consistent
    <2> QED
      BY <1>2, <1>5, <2>1, CacheStep DEF Inv
  <1>8. MemOK'
    <2>1. ASSUME NEW u \in Threads, NEW j \in thread'[u].op.uses, Written(thread'[u], j)
          PROVE  mem'[CellsOf[thread'[u].op.array][j]] = New(thread[u].op, j)'
      <3>1. u # t /\ thread'[u] = thread[u]
        BY <1>2, <1>3, <2>1
      <3>2. Active(u) /\ j \in Positions(thread[u].op.array)
        BY <2>1, <3>1, WrittenIsActive DEF Inv
      <3>3. Old(thread[u].op, j)' = Old(thread[u].op, j)
        BY <1>5, <3>1, <3>2
      <3>4. New(thread[u].op, j)' = New(thread[u].op, j)
        BY <3>1, <3>3 DEF New
      <3> QED
        BY <1>2, <2>1, <3>1, <3>4 DEF MemOK, Inv, Consistent
    <2>2. ASSUME NEW c \in Cells,
                 \A u \in Threads : \A j \in thread'[u].op.uses :
                   Written(thread'[u], j) => CellsOf[thread'[u].op.array][j] # c
          PROVE  mem'[c] = ideal'[c]
      <3>1. CASE op.writes /\ c \in Touched(op)
        <4>1. PICK j \in op.uses : c = CellsOf[op.array][j]
          BY <3>1 DEF Touched
        <4>2. mem[c] = New(op, j)
          BY <1>1, <3>1, <4>1 DEF MemOK, Written, Inv, Consistent
        <4> QED
          BY <1>2, <1>4, <3>1, <4>1, <4>2 DEF New, Old
      <3>2. CASE ~(op.writes /\ c \in Touched(op))
        <4>1. ASSUME NEW u \in Threads, NEW j \in thread[u].op.uses, Written(thread[u], j)
              PROVE  CellsOf[thread[u].op.array][j] # c
          <5>1. CASE u = t
            BY <3>2, <4>1, <5>1 DEF Written, Touched
          <5>2. CASE u # t
            BY <1>2, <2>2, <4>1, <5>2
          <5> QED
            BY <5>1, <5>2
        <4>2. mem[c] = ideal[c]
          BY <4>1 DEF MemOK, Inv, Consistent
        <4> QED
          BY <1>2, <1>4, <3>2, <4>2
      <3> QED
        BY <3>1, <3>2
    <2> QED
      BY <2>1, <2>2 DEF MemOK
  <1>9. GotOK'
    <2> SUFFICES ASSUME NEW u \in Threads, NEW p \in thread'[u].got
                 PROVE  p[2] = Old(thread[u].op, p[1])'
      BY DEF GotOK
    <2>1. u # t /\ thread'[u] = thread[u]
      BY <1>2, <1>3
    <2>2. Active(u)
      BY <2>1 DEF Inv, TypeOK, Idle
    <2>3. p[1] \in Positions(thread[u].op.array)
      BY <2>1, <2>2, InProgress DEF ActiveOK, Inv
    <2>4. p[2] = Old(thread[u].op, p[1])
      BY <2>1 DEF GotOK, Inv, Consistent
    <2> QED
      BY <1>5, <2>1, <2>2, <2>3, <2>4
  <1> QED
    BY <1>6, <1>7, <1>8, <1>9 DEF Consistent

-----------------------------------------------------------------------------
(* The theorem. *)

LEMMA InvInit == Init => Inv
  <1> SUFFICES ASSUME Init PROVE Consistent
    BY TypeInit DEF Inv
  <1>1. \A t \in Threads : /\ ~Active(t) /\ thread[t].op.uses = {} /\ thread[t].got = {}
    BY DEF Init, Active, Idle, NoOp, Operation
  <1>2. mem = ideal
    BY DEF Init
  <1> QED
    BY <1>1, <1>2 DEF Consistent, Exclusive, MemOK, GotOK

LEMMA InvNext ==
  ASSUME Contract = "arrays", Inv, [Next]_vars
  PROVE  Inv'
  <1>1. TypeOK'
    BY TypeNext DEF Inv
  <1>2. CASE UNCHANGED vars
    <2>1. Consistent'
      <3>1. Exclusive' /\ GotOK'
        BY <1>2 DEF vars, Inv, Consistent, Exclusive, GotOK, Active, Old
      <3>2. \A u \in Threads : Active(u)' => CacheOK(u)'
        BY <1>2, CacheStep DEF vars, Inv, Consistent, Active, Old
      <3>3. MemOK'
        BY <1>2, MemSame DEF vars, Inv, Consistent
      <3> QED
        BY <3>1, <3>2, <3>3 DEF Consistent
    <2> QED
      BY <1>1, <2>1 DEF Inv
  <1>3. CASE Next
    <2>1. PICK t \in Threads :
            \/ \E op \in Started : Begin(t, op)
            \/ Load(t) \/ Store(t) \/ Kernel(t) \/ Scatter(t) \/ Finish(t)
      BY <1>3, Steps
    <2>2. Consistent'
      BY <2>1, BeginConsistent, LoadConsistent, StoreConsistent, KernelConsistent, ScatterConsistent, FinishConsistent
    <2> QED
      BY <1>1, <2>2 DEF Inv
  <1> QED
    BY <1>2, <1>3 DEF vars

\* What is consistent looks to callers as NumPy's arrays do.
LEMMA InvIsNumPys == Inv => GuaranteesAreNumPys
  <1> SUFFICES ASSUME Inv PROVE GuaranteesAreNumPys
    OBVIOUS
  <1>1. \A t \in Threads : \A p \in thread[t].got : p[2] = ideal[CellsOf[thread[t].op.array][p[1]]]
    BY DEF Inv, Consistent, GotOK, Old
  <1>2. ASSUME NEW c \in Cells, \A t \in Threads : ~(thread[t].op.writes /\ c \in Touched(thread[t].op))
        PROVE  mem[c] = ideal[c]
    BY <1>2 DEF Inv, Consistent, MemOK, Written, Touched
  <1> QED
    BY <1>1, <1>2 DEF GuaranteesAreNumPys

\* While callers let no write overlap an operation on memory the arrays share,
\* readers of one strided view may fill its cache at the same time, and every
\* operation of any number of threads reads and writes what NumPy's would.
THEOREM Guarantees ==
  ASSUME Contract = "arrays"
  PROVE  Spec => []GuaranteesAreNumPys
  <1>1. Inv /\ [Next]_vars => Inv'
    BY InvNext
  <1> QED
    BY <1>1, InvInit, InvIsNumPys, PTL DEF Spec

=============================================================================
