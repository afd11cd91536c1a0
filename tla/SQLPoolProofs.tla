---------------------------- MODULE SQLPoolProofs ----------------------------
(***************************************************************************)
(* The pool's counter and its connections, for every number of goroutines  *)
(* and every size of the pool.  The inductive invariant PoolInv adds to    *)
(* the properties of SQLPool that nobody uses the pool before it is        *)
(* booted, and that nobody opens a connection after a boot that did.       *)
(***************************************************************************)
EXTENDS SQLPool, FiniteSetTheorems, TLAPS

BootsAlone ==
  booted < initOpen => closer = "no" /\ \A u \in User : pc[u] = "out"

NothingBooted == booted = 0 /\ booted < initOpen => idle = 0

NobodyOpens ==
  backend = "mysql" /\ initOpen > 0 => \A u \in User : pc[u] \notin {"try", "open", "nil"}

PoolInv ==
  /\ TypeOK
  /\ CounterAhead
  /\ ReturnFindsRoom
  /\ ClosePoolReturns
  /\ BootsAlone
  /\ NothingBooted
  /\ NobodyOpens

USE PoolAssumption
-----------------------------------------------------------------------------
\* How many hold a connection, or have given one up, is a number.
LEMMA HoldersCounted ==
  /\ IsFiniteSet(Holders) /\ Cardinality(Holders) \in Nat
  /\ IsFiniteSet(Droppers) /\ Cardinality(Droppers) \in Nat
<1>1. Holders \subseteq User /\ Droppers \subseteq User BY DEF Holders, Droppers
<1>2. IsFiniteSet(Holders) /\ IsFiniteSet(Droppers) BY <1>1, FS_Subset
<1> QED BY <1>2, FS_CardinalityType

\* A set of goroutines that one joins, leaves, or neither.
LEMMA JoinsOrLeaves ==
  ASSUME NEW S, IsFiniteSet(S), NEW T, NEW u,
         \A v : v # u => (v \in T <=> v \in S)
  PROVE  Cardinality(T) = Cardinality(S) + (IF u \in T THEN 1 ELSE 0)
                                         - (IF u \in S THEN 1 ELSE 0)
<1>0. Cardinality(S) \in Nat BY FS_CardinalityType
<1>1. CASE u \in T /\ u \notin S
  <2>1. T = S \cup {u} BY <1>1
  <2>2. Cardinality(S \cup {u}) = Cardinality(S) + 1 BY <1>1, FS_AddElement
  <2> QED BY <1>0, <1>1, <2>1, <2>2
<1>2. CASE u \notin T /\ u \in S
  <2>1. T = S \ {u} BY <1>2
  <2>2. Cardinality(S \ {u}) = Cardinality(S) - 1 BY <1>2, FS_RemoveElement
  <2> QED BY <1>0, <1>2, <2>1, <2>2
<1>3. CASE u \in T <=> u \in S
  <2>1. T = S BY <1>3
  <2> QED BY <1>0, <1>3, <2>1
<1> QED BY <1>1, <1>2, <1>3

\* A step of one goroutine changes what it holds and nothing else.
LEMMA OneMoves ==
  ASSUME TypeOK, NEW u \in User, NEW to, pc' = [pc EXCEPT ![u] = to]
  PROVE  /\ Cardinality(Holders') = Cardinality(Holders) + (IF to = "hold" THEN 1 ELSE 0)
                                       - (IF pc[u] = "hold" THEN 1 ELSE 0)
         /\ Cardinality(Droppers') = Cardinality(Droppers) + (IF to = "drop" THEN 1 ELSE 0)
                                       - (IF pc[u] = "drop" THEN 1 ELSE 0)
<1>1. \A v \in User : pc'[v] = IF v = u THEN to ELSE pc[v] BY DEF TypeOK
<1>2. /\ \A v : v # u => (v \in Holders' <=> v \in Holders)
      /\ u \in Holders' <=> to = "hold"
      /\ u \in Holders <=> pc[u] = "hold"
  BY <1>1 DEF Holders
<1>3. /\ \A v : v # u => (v \in Droppers' <=> v \in Droppers)
      /\ u \in Droppers' <=> to = "drop"
      /\ u \in Droppers <=> pc[u] = "drop"
  BY <1>1 DEF Droppers
<1> HIDE DEF Holders, Droppers
<1>4. Cardinality(Holders') = Cardinality(Holders) + (IF u \in Holders' THEN 1 ELSE 0)
                                - (IF u \in Holders THEN 1 ELSE 0)
  BY <1>2, HoldersCounted, JoinsOrLeaves
<1>5. Cardinality(Droppers') = Cardinality(Droppers) + (IF u \in Droppers' THEN 1 ELSE 0)
                                 - (IF u \in Droppers THEN 1 ELSE 0)
  BY <1>3, HoldersCounted, JoinsOrLeaves
<1> QED BY <1>2, <1>3, <1>4, <1>5

\* The boot loop adds one connection to the pool, or none, and counts one more.
LEMMA BootTurnKeeps ==
  ASSUME PoolInv, BootTurn
  PROVE  PoolInv'
<1> USE DEF BootTurn, Returned, Counted
<1>1. /\ Holders = {} /\ Holders' = {} /\ Droppers = {} /\ Droppers' = {}
      /\ closer = "no" /\ closer' = "no"
  BY DEF PoolInv, BootsAlone, Holders, Droppers
<1>2. Cardinality({}) = 0 BY FS_EmptySet
<1>3. TypeOK' BY DEF PoolInv, TypeOK
<1>4. CounterAhead'
  BY <1>1, <1>2 DEF PoolInv, TypeOK, CounterAhead, Real, Gone
<1>5. ReturnFindsRoom'
  BY <1>1, <1>2 DEF PoolInv, TypeOK, ReturnFindsRoom, Real
<1>6. ClosePoolReturns' BY DEF PoolInv, BootsAlone, ClosePoolReturns
<1>7. BootsAlone' BY DEF PoolInv, TypeOK, BootsAlone
<1>8. NothingBooted' BY DEF PoolInv, TypeOK, NothingBooted
<1>9. NobodyOpens' BY DEF PoolInv, NobodyOpens
<1> QED BY <1>3, <1>4, <1>5, <1>6, <1>7, <1>8, <1>9 DEF PoolInv

\* In a pool that was booted with a connection the counter never falls to zero,
\* so GetDB always waits for an idle one.
LEMMA CounterIsPositive ==
  ASSUME PoolInv, booted = initOpen, initOpen > 0
  PROVE  isOpen > 0
BY HoldersCounted DEF PoolInv, TypeOK, CounterAhead, Real, Gone

\* Whatever a goroutine does with the pool keeps the invariant.
LEMMA UserStepKeeps ==
  ASSUME PoolInv, NEW u \in User, UserStep(u)
  PROVE  PoolInv'
<1> USE DEF Goes
<1> USE HoldersCounted
<1>1. /\ initOpen' = initOpen /\ booted' = booted /\ closer' = closer
      /\ backend' = backend
  BY DEF UserStep, CallGetDB, CallGetDBAndTable, Panics, WaitGets, WaitFails, DropCounts,
         TryGets, TryFindsNone, Opens, OpenFails, OpenReturnsNil, ReturnDB, bootVars
<1>2. booted = initOpen
  BY DEF UserStep, CallGetDB, CallGetDBAndTable, Panics, WaitGets, WaitFails, DropCounts,
         TryGets, TryFindsNone, Opens, OpenFails, OpenReturnsNil, ReturnDB, PoolInv, TypeOK,
         BootsAlone, Closed
<1>a. Closed /\ idle = 0 => idle' = 0
  BY DEF UserStep, CallGetDB, CallGetDBAndTable, Panics, WaitGets, WaitFails, DropCounts,
         TryGets, TryFindsNone, Opens, OpenFails, OpenReturnsNil, ReturnDB, Takes
<1>b. ClosePoolReturns'
  BY <1>1, <1>a DEF PoolInv, TypeOK, ClosePoolReturns, Closed
<1>3. BootsAlone' /\ NothingBooted' /\ ClosePoolReturns'
  BY <1>1, <1>2, <1>b DEF PoolInv, TypeOK, BootsAlone, NothingBooted
<1>4. SUFFICES TypeOK' /\ CounterAhead' /\ ReturnFindsRoom' /\ NobodyOpens'
  BY <1>3 DEF PoolInv
<1>c. /\ idle \in Nat /\ isOpen \in Int /\ booted \in Nat /\ Real \in Int /\ Gone \in Nat
      /\ isOpen = Real + Gone + booted /\ Real <= maxOpen
  BY DEF PoolInv, TypeOK, CounterAhead, ReturnFindsRoom, Real, Gone
<1>d. ASSUME NEW to \in {"out", "wait", "try", "open", "hold", "drop", "nil"},
             pc' = [pc EXCEPT ![u] = to], idle' \in Nat, isOpen' \in Int,
             panic' = panic, lost' \in BOOLEAN
      PROVE  TypeOK'
  BY <1>1, <1>d DEF PoolInv, TypeOK
<1>e. /\ Real' = Real + (idle' - idle) + (IF pc'[u] = "hold" THEN 1 ELSE 0)
                                         - (IF pc[u] = "hold" THEN 1 ELSE 0)
      /\ Gone' = Gone + (IF pc'[u] = "drop" THEN 1 ELSE 0)
                      - (IF pc[u] = "drop" THEN 1 ELSE 0)
  <2>1. TypeOK BY DEF PoolInv
  <2>2. pc' = [pc EXCEPT ![u] = pc'[u]] /\ idle' \in Int
    BY DEF UserStep, CallGetDB, CallGetDBAndTable, Panics, WaitGets, WaitFails, DropCounts,
           TryGets, TryFindsNone, Opens, OpenFails, OpenReturnsNil, ReturnDB, Takes,
           PoolInv, TypeOK
  <2> DEFINE to == pc'[u]
  <2>3. pc' = [pc EXCEPT ![u] = to] BY <2>2
  <2> HIDE DEF to
  <2>4. /\ Cardinality(Holders') = Cardinality(Holders) + (IF to = "hold" THEN 1 ELSE 0)
                                       - (IF pc[u] = "hold" THEN 1 ELSE 0)
        /\ Cardinality(Droppers') = Cardinality(Droppers) + (IF to = "drop" THEN 1 ELSE 0)
                                       - (IF pc[u] = "drop" THEN 1 ELSE 0)
    BY <2>1, <2>3, OneMoves
  <2> QED BY <1>1, <1>c, <2>2, <2>4 DEF Real, Gone, to
<1>5. CASE CallGetDB(u)
  <2>1. pc' = [pc EXCEPT ![u] = IF MustWait THEN "wait" ELSE "try"]
        /\ pc[u] = "out" /\ UNCHANGED <<isOpen, idle, panic, lost>>
    BY <1>5 DEF CallGetDB
  <2>2. Real' = Real /\ Gone' = Gone
    BY <1>c, <1>e, <2>1 DEF PoolInv, TypeOK
  <2>3. TypeOK' BY <1>1, <2>1 DEF PoolInv, TypeOK
  <2>4. CounterAhead' /\ ReturnFindsRoom'
    BY <1>1, <1>c, <2>1, <2>2 DEF CounterAhead, ReturnFindsRoom
  <2>5. initOpen > 0 => MustWait
    BY <1>2, CounterIsPositive DEF MustWait
  <2>6. NobodyOpens'
    BY <1>1, <2>1, <2>5 DEF PoolInv, TypeOK, NobodyOpens
  <2> QED BY <2>3, <2>4, <2>6
<1>6. CASE WaitGets(u) \/ TryGets(u)
  <2>1. /\ pc[u] \in {"wait", "try"} /\ pc' = [pc EXCEPT ![u] = "hold"]
        /\ idle > 0 /\ idle' = idle - 1 /\ UNCHANGED <<isOpen, panic, lost>>
    BY <1>6 DEF WaitGets, TryGets, Takes
  <2>2. Real' = Real /\ Gone' = Gone
    BY <1>c, <1>e, <2>1 DEF PoolInv, TypeOK
  <2>3. TypeOK' BY <1>1, <2>1 DEF PoolInv, TypeOK
  <2>5. CounterAhead' /\ ReturnFindsRoom'
    BY <1>1, <1>c, <2>1, <2>2 DEF CounterAhead, ReturnFindsRoom
  <2>6. NobodyOpens' BY <1>1, <2>1 DEF PoolInv, TypeOK, NobodyOpens
  <2> QED BY <2>3, <2>5, <2>6
<1>7. CASE WaitFails(u)
  <2>1. /\ pc[u] = "wait" /\ pc' = [pc EXCEPT ![u] = "drop"]
        /\ idle > 0 /\ idle' = idle - 1 /\ isOpen' = isOpen /\ lost' = TRUE /\ panic' = panic
    BY <1>7 DEF WaitFails, Takes
  <2>2. Real' = Real - 1 /\ Gone' = Gone + 1
    BY <1>c, <1>e, <2>1 DEF PoolInv, TypeOK
  <2>3. TypeOK' BY <1>1, <2>1 DEF PoolInv, TypeOK
  <2>6. CounterAhead' /\ ReturnFindsRoom'
    BY <1>1, <1>c, <2>1, <2>2, PoolAssumption DEF CounterAhead, ReturnFindsRoom
  <2>7. NobodyOpens' BY <1>1, <2>1 DEF PoolInv, TypeOK, NobodyOpens
  <2> QED BY <2>3, <2>6, <2>7
<1>13. CASE DropCounts(u)
  <2>1. /\ pc[u] = "drop" /\ pc' = [pc EXCEPT ![u] = "out"]
        /\ isOpen' = isOpen - 1 /\ UNCHANGED <<idle, panic, lost>>
    BY <1>13 DEF DropCounts, CountedOff
  <2>2. Real' = Real /\ Gone' = Gone - 1
    BY <1>c, <1>e, <2>1 DEF PoolInv, TypeOK
  <2>3. TypeOK' BY <1>1, <2>1 DEF PoolInv, TypeOK
  <2>6. CounterAhead' /\ ReturnFindsRoom'
    BY <1>1, <1>c, <2>1, <2>2 DEF CounterAhead, ReturnFindsRoom
  <2>7. NobodyOpens' BY <1>1, <2>1 DEF PoolInv, TypeOK, NobodyOpens
  <2> QED BY <2>3, <2>6, <2>7
<1>8. CASE TryFindsNone(u) \/ OpenFails(u) \/ OpenReturnsNil(u)
  <2>1. PICK to \in {"open", "out", "nil"} : pc' = [pc EXCEPT ![u] = to]
    BY <1>8 DEF TryFindsNone, OpenFails, OpenReturnsNil
  <2>2. pc[u] \in {"try", "open"} /\ UNCHANGED <<isOpen, idle, panic, lost>>
    BY <1>8 DEF TryFindsNone, OpenFails, OpenReturnsNil
  <2>3. Real' = Real /\ Gone' = Gone
    BY <1>c, <1>e, <2>1, <2>2 DEF PoolInv, TypeOK
  <2>4. TypeOK' BY <1>1, <2>1, <2>2 DEF PoolInv, TypeOK
  <2>5. CounterAhead' /\ ReturnFindsRoom'
    BY <1>1, <1>c, <2>2, <2>3 DEF CounterAhead, ReturnFindsRoom
  <2>6. NobodyOpens' BY <1>1, <2>2 DEF PoolInv, TypeOK, NobodyOpens
  <2> QED BY <2>4, <2>5, <2>6
<1>9. CASE Opens(u)
  <2>1. /\ pc[u] = "open" /\ pc' = [pc EXCEPT ![u] = "hold"]
        /\ isOpen < maxOpen /\ isOpen' = isOpen + 1 /\ UNCHANGED <<idle, panic, lost>>
    BY <1>9 DEF Opens, MayOpen
  <2>2. Real' = Real + 1 /\ Gone' = Gone
    BY <1>c, <1>e, <2>1 DEF PoolInv, TypeOK
  <2>3. TypeOK' BY <1>1, <2>1 DEF PoolInv, TypeOK
  <2>5. CounterAhead' /\ ReturnFindsRoom'
    BY <1>1, <1>c, <2>1, <2>2, PoolAssumption DEF CounterAhead, ReturnFindsRoom
  <2>7. NobodyOpens' BY <1>1, <2>1 DEF PoolInv, TypeOK, NobodyOpens
  <2> QED BY <2>3, <2>5, <2>7
<1>10. CASE ReturnDB(u)
  <2>1. /\ pc[u] = "hold" /\ pc' = [pc EXCEPT ![u] = "out"]
        /\ idle' = idle + 1 /\ UNCHANGED <<isOpen, panic, lost>>
    BY <1>10 DEF ReturnDB
  <2>2. Real' = Real /\ Gone' = Gone
    BY <1>c, <1>e, <2>1 DEF PoolInv, TypeOK
  <2>3. TypeOK' BY <1>1, <2>1 DEF PoolInv, TypeOK
  <2>5. CounterAhead' /\ ReturnFindsRoom'
    BY <1>1, <1>c, <2>1, <2>2 DEF CounterAhead, ReturnFindsRoom
  <2>6. NobodyOpens' BY <1>1, <2>1 DEF PoolInv, TypeOK, NobodyOpens
  <2> QED BY <2>3, <2>5, <2>6
<1>11. CASE CallGetDBAndTable(u)
  <2>1. /\ pc[u] = "out" /\ pc' = [pc EXCEPT ![u] = "try"] /\ backend = "sqlite"
        /\ UNCHANGED <<isOpen, idle, panic, lost>>
    BY <1>11 DEF CallGetDBAndTable
  <2>2. Real' = Real /\ Gone' = Gone
    BY <1>c, <1>e, <2>1 DEF PoolInv, TypeOK
  <2>3. TypeOK' BY <1>1, <2>1 DEF PoolInv, TypeOK
  <2>4. CounterAhead' /\ ReturnFindsRoom'
    BY <1>1, <1>c, <2>1, <2>2 DEF CounterAhead, ReturnFindsRoom
  <2>5. NobodyOpens' BY <1>1, <2>1 DEF NobodyOpens
  <2> QED BY <2>3, <2>4, <2>5
<1>12. CASE Panics(u)
  <2>1. panic' = TRUE /\ UNCHANGED <<isOpen, idle, pc, lost>> BY <1>12 DEF Panics
  <2>2. TypeOK' BY <1>1, <2>1 DEF PoolInv, TypeOK
  <2>3. CounterAhead' /\ ReturnFindsRoom' /\ NobodyOpens'
    BY <1>1, <2>1
       DEF PoolInv, CounterAhead, ReturnFindsRoom, NobodyOpens, Real, Gone, Holders, Droppers
  <2> QED BY <2>2, <2>3
<1> QED BY <1>5, <1>6, <1>7, <1>8, <1>9, <1>10, <1>11, <1>12, <1>13 DEF UserStep

\* ClosePool takes connections: in MYSQL.go it never sees the counter reach zero,
\* in SQLite.go it ends behind the last one.
LEMMA CloserStepKeeps ==
  ASSUME PoolInv, CallClosePool \/ ClosePoolTakes \/ ClosePoolCounts \/ ClosePoolDrained
  PROVE  PoolInv'
<1> USE HoldersCounted
<1> USE DEF CallClosePool, ClosePoolTakes, ClosePoolCounts, ClosePoolDrained
<1>1. UNCHANGED <<backend, initOpen, booted, pc, panic, lost>> BY DEF bootVars
<1>2. Holders' = Holders /\ Droppers' = Droppers BY <1>1 DEF Holders, Droppers
<1>3. booted = initOpen BY DEF PoolInv, TypeOK, BootsAlone
<1>4. \/ UNCHANGED <<isOpen, idle>> /\ closer = "no" /\ closer' = "closing"
      \/ /\ closer = "closing" /\ closer' = "taken" /\ isOpen' = isOpen
         /\ idle > 0 /\ idle' = idle - 1
      \/ /\ closer = "taken" /\ isOpen' = isOpen - 1 /\ idle' = idle
         /\ closer' = IF backend = "mysql" /\ isOpen' = 0 THEN "returned" ELSE "closing"
      \/ /\ backend = "sqlite" /\ idle = 0
         /\ closer = "closing" /\ closer' = "returned"
         /\ UNCHANGED <<isOpen, idle>>
  BY DEF Takes, CountedOff
<1> HIDE DEF CallClosePool, ClosePoolTakes, ClosePoolCounts, ClosePoolDrained
<1>5. TypeOK' BY <1>1, <1>4 DEF PoolInv, TypeOK
<1>6. CounterAhead' /\ ReturnFindsRoom'
  BY <1>1, <1>2, <1>4, PoolAssumption
     DEF PoolInv, TypeOK, CounterAhead, ReturnFindsRoom, Real, Gone
<1>7. initOpen > 0 => isOpen' > 0
  BY <1>1, <1>2, <1>3, <1>5, <1>6 DEF TypeOK, CounterAhead, Real, Gone
<1>8. ClosePoolReturns'
  BY <1>1, <1>4, <1>7 DEF PoolInv, TypeOK, ClosePoolReturns
<1>9. BootsAlone' /\ NothingBooted' /\ NobodyOpens'
  BY <1>1, <1>3 DEF PoolInv, TypeOK, BootsAlone, NothingBooted, NobodyOpens
<1> QED BY <1>5, <1>6, <1>8, <1>9 DEF PoolInv

\* The invariant holds in every reachable state.
THEOREM PoolInvariant == Spec => []PoolInv
<1>1. Init => PoolInv
  <2> SUFFICES ASSUME Init PROVE PoolInv OBVIOUS
  <2>1. Holders = {} /\ Droppers = {} BY DEF Init, Holders, Droppers
  <2>2. Real = 0 /\ Gone = 0 BY <2>1, FS_EmptySet DEF Init, Real, Gone
  <2>3. pc \in [User -> {"out", "wait", "try", "open", "hold", "drop", "nil"}]
    BY DEF Init
  <2>4. initOpen \in 0..MaxInit /\ booted \in 0..initOpen
        /\ isOpen \in Int /\ idle \in Nat
    BY DEF Init
  <2>5. TypeOK BY <2>3, <2>4 DEF Init, TypeOK
  <2> QED BY <2>2, <2>5 DEF Init, PoolInv, CounterAhead, ReturnFindsRoom,
             ClosePoolReturns, BootsAlone, NothingBooted, NobodyOpens
<1>2. PoolInv /\ [Next]_vars => PoolInv'
  <2>1. ASSUME PoolInv, UNCHANGED vars PROVE PoolInv'
    BY <2>1 DEF vars, bootVars, PoolInv, TypeOK, CounterAhead, ReturnFindsRoom,
       Real, Gone, Holders, Droppers, ClosePoolReturns, BootsAlone, NothingBooted, NobodyOpens
  <2> QED BY <2>1, BootTurnKeeps, UserStepKeeps, CloserStepKeeps DEF Next
<1> QED BY <1>1, <1>2, PTL DEF Spec

\* However goroutines open, lose, return and close connections, isOpen is ahead
\* of the real connections by one for each turn of the boot loop and by those that
\* somebody is about to count off.
THEOREM CounterStaysAhead == Spec => []CounterAhead
<1>1. PoolInv => CounterAhead BY DEF PoolInv
<1> QED BY <1>1, PoolInvariant, PTL

\* ReturnDB never finds the channel full, for every number of goroutines that
\* decided to open a connection on a counter they read earlier.
THEOREM ReturnNeverBlocks == Spec => []ReturnFindsRoom
<1>1. PoolInv => ReturnFindsRoom BY DEF PoolInv
<1> QED BY <1>1, PoolInvariant, PTL

\* ClosePool of MYSQL.go never returns in a pool that was booted with connections;
\* that of SQLite.go returns with an empty channel.
THEOREM ClosedPools == Spec => []ClosePoolReturns
<1>1. PoolInv => ClosePoolReturns BY DEF PoolInv
<1> QED BY <1>1, PoolInvariant, PTL

\* GetDB(true) of a pool booted with connections never returns nil without an error.
THEOREM GetDBNeverNil == Spec => []NoNilConnection
<1>1. PoolInv => NoNilConnection BY DEF PoolInv, NobodyOpens, NoNilConnection
<1> QED BY <1>1, PoolInvariant, PTL
=============================================================================
