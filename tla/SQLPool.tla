------------------------------- MODULE SQLPool -------------------------------
(***************************************************************************)
(* The connection pool of the hash database: a channel DBs of idle         *)
(* connections and a counter isOpen that GetDB reads to decide between     *)
(* waiting for a connection and opening one.  MYSQL.go and SQLite.go have  *)
(* the same GetDB, ReturnDB and boot loop; ClosePool of MYSQL.go takes     *)
(* connections until the counter is zero, that of SQLite.go closes the     *)
(* channel, and who uses a closed pool panics, which ends the process.     *)
(*                                                                         *)
(* Only the number of idle connections matters; whether the one that is    *)
(* taken has timed out is decided when it is taken.                        *)
(***************************************************************************)
EXTENDS Integers, FiniteSets

CONSTANTS
  User,       \* goroutines that use the pool: hashDB_Workers
  maxOpen,    \* opts.maxopen, and the capacity of the channel
  MaxInit     \* opts.initopen is between 0 and MaxInit

ASSUME PoolAssumption ==
  /\ maxOpen \in Nat \ {0} /\ MaxInit \in Nat
  /\ IsFiniteSet(User)

VARIABLES
  backend,  \* "mysql", or "sqlite"
  initOpen, \* opts.initopen
  isOpen,  \* what the pool believes is open
  idle,    \* Len(DBs)
  booted,  \* turns of the loop in NewSQLpool that are done
  pc,      \* pc[u]: where u is in GetDB, or what it holds
  closer,  \* ClosePool: "no", "closing", "taken" (one connection), "returned"
  panic,   \* has a goroutine met nil or a closed channel?
  lost     \* history: did a ping and the NewConn behind it fail?

bootVars == <<backend, initOpen, booted>>
vars == <<bootVars, isOpen, idle, pc, closer, panic, lost>>

Init ==
  /\ backend \in {"mysql", "sqlite"}
  /\ initOpen \in 0..MaxInit
  /\ isOpen = 0 /\ idle = 0 /\ booted = 0
  /\ pc = [u \in User |-> "out"]
  /\ closer = "no" /\ panic = FALSE /\ lost = FALSE
-----------------------------------------------------------------------------
\* NewSQLpool: GetDB(false), isOpen++, ReturnDB.  GetDB(false) counts the
\* connection it opens as well; from the second turn on it takes the idle one.
Counted == IF idle = 0 THEN isOpen + 2 ELSE isOpen + 1
NotReturned == 0   \* mutant: the connection is not given back
Returned == IF idle = 0 THEN 1 ELSE idle

BootTurn ==
  /\ booted < initOpen
  /\ booted' = booted + 1
  /\ idle' = Returned
  /\ isOpen' = Counted
  /\ UNCHANGED <<backend, initOpen, pc, closer, panic, lost>>

Goes(u, from, to) == ~panic /\ pc[u] = from /\ pc' = [pc EXCEPT ![u] = to]

WaitForIdle == idle > 0   \* mutant: waits only for what is idle
MustWait == isOpen > 0

\* GetDB(true): the counter is read under the lock, the rest happens later
CallGetDB(u) ==
  /\ booted = initOpen
  /\ Goes(u, "out", IF MustWait THEN "wait" ELSE "try")
  /\ UNCHANGED <<bootVars, isOpen, idle, closer, panic, lost>>

\* A closed channel gives nil for ever when it is empty.
LeftOpen == FALSE   \* mutant: the channel is drained, but not closed
Closed == backend = "sqlite" /\ closer # "no"

\* GetDBAndTable of the sharded databases calls GetDB(false).
CallGetDBAndTable(u) ==
  /\ backend = "sqlite" /\ booted = initOpen
  /\ Goes(u, "out", "try")
  /\ UNCHANGED <<bootVars, isOpen, idle, closer, panic, lost>>

Takes == idle > 0 /\ idle' = idle - 1

\* dbconn := <-s.DBs: in time, or alive, or replaced
WaitGets(u) ==
  /\ Takes
  /\ Goes(u, "wait", "hold")
  /\ UNCHANGED <<bootVars, isOpen, closer, panic, lost>>

\* timed out, the ping fails, and so does NewConn: the connection is gone from
\* the channel some time before it is gone from the counter
WaitFails(u) ==
  /\ Takes
  /\ Goes(u, "wait", "drop")
  /\ lost' = TRUE
  /\ UNCHANGED <<bootVars, isOpen, closer, panic>>

StillCounted == UNCHANGED isOpen   \* mutant
CountedOff == isOpen' = isOpen - 1

DropCounts(u) ==
  /\ Goes(u, "drop", "out")
  /\ CountedOff
  /\ UNCHANGED <<bootVars, idle, closer, panic, lost>>

\* select { case dbconn := <-s.DBs: ... default: }
TryGets(u) ==
  /\ Takes
  /\ Goes(u, "try", "hold")
  /\ UNCHANGED <<bootVars, isOpen, closer, panic, lost>>

TryFindsNone(u) ==
  /\ idle = 0 /\ ~Closed
  /\ Goes(u, "try", "open")
  /\ UNCHANGED <<bootVars, isOpen, idle, closer, panic, lost>>

MayOpenOneMore == isOpen <= maxOpen   \* mutant: off by one
MayOpen == isOpen < maxOpen

Opens(u) ==
  /\ MayOpen
  /\ Goes(u, "open", "hold")
  /\ isOpen' = isOpen + 1
  /\ UNCHANGED <<bootVars, idle, closer, panic, lost>>

OpenFails(u) ==
  /\ MayOpen
  /\ Goes(u, "open", "out")
  /\ UNCHANGED <<bootVars, isOpen, idle, closer, panic, lost>>

\* GetDB returns (nil, nil); the caller uses the nil pointer
OpenReturnsNil(u) ==
  /\ ~MayOpen
  /\ Goes(u, "open", "nil")
  /\ UNCHANGED <<bootVars, isOpen, idle, closer, panic, lost>>

ReturnDB(u) ==
  /\ idle < maxOpen /\ ~Closed
  /\ Goes(u, "hold", "out")
  /\ idle' = idle + 1
  /\ UNCHANGED <<bootVars, isOpen, closer, panic, lost>>

\* dbconn is nil, or the send is on the closed channel
Panics(u) ==
  /\ ~panic /\ Closed
  /\ pc[u] = "hold" \/ (pc[u] \in {"wait", "try"} /\ idle = 0)
  /\ panic' = TRUE
  /\ UNCHANGED <<bootVars, isOpen, idle, pc, closer, lost>>

CallClosePool ==
  /\ ~panic /\ booted = initOpen /\ closer = "no"
  /\ closer' = "closing"
  /\ UNCHANGED <<bootVars, isOpen, idle, pc, panic, lost>>

\* MYSQL.go: dbconn := <-s.DBs; SQLite.go: for dbconn := range s.DBs
ClosePoolTakes ==
  /\ ~panic /\ closer = "closing" /\ Takes
  /\ closer' = "taken"
  /\ UNCHANGED <<bootVars, isOpen, pc, panic, lost>>

\* the end of a turn; the loop of MYSQL.go ends when the counter reaches zero
ClosePoolCounts ==
  /\ ~panic /\ closer = "taken"
  /\ CountedOff
  /\ closer' = IF backend = "mysql" /\ isOpen' = 0 THEN "returned" ELSE "closing"
  /\ UNCHANGED <<bootVars, idle, pc, panic, lost>>

\* the loop of SQLite.go ends when the closed channel is empty
ClosePoolDrained ==
  /\ ~panic /\ backend = "sqlite" /\ closer = "closing" /\ idle = 0
  /\ closer' = "returned"
  /\ UNCHANGED <<bootVars, isOpen, idle, pc, panic, lost>>

UserStep(u) ==
  \/ CallGetDB(u) \/ CallGetDBAndTable(u) \/ WaitGets(u) \/ WaitFails(u)
  \/ DropCounts(u) \/ TryGets(u) \/ TryFindsNone(u)
  \/ Opens(u) \/ OpenFails(u) \/ OpenReturnsNil(u)
  \/ ReturnDB(u) \/ Panics(u)

Next ==
  \/ BootTurn
  \/ \E u \in User : UserStep(u)
  \/ CallClosePool \/ ClosePoolTakes \/ ClosePoolCounts \/ ClosePoolDrained

Spec == Init /\ [][Next]_vars

\* A goroutine in GetDB or with a connection goes on; receivers blocked on DBs
\* are served in the order they came.
Fairness ==
  /\ WF_vars(BootTurn)
  /\ \A u \in User :
       /\ SF_vars(WaitGets(u))
       /\ WF_vars(\/ TryGets(u) \/ TryFindsNone(u)
                  \/ Opens(u) \/ OpenFails(u) \/ OpenReturnsNil(u) \/ DropCounts(u))
       /\ WF_vars(ReturnDB(u) \/ Panics(u))
  /\ WF_vars(ClosePoolCounts) /\ WF_vars(ClosePoolDrained)

FairSpec == Spec /\ Fairness
-----------------------------------------------------------------------------
Holders == {u \in User : pc[u] = "hold"}
Real == idle + Cardinality(Holders)

\* taken out of the channel for good, and not yet taken off the counter
Droppers == {u \in User : pc[u] = "drop"}
Gone == Cardinality(Droppers) + IF closer = "taken" THEN 1 ELSE 0

TypeOK ==
  /\ backend \in {"mysql", "sqlite"}
  /\ initOpen \in 0..MaxInit /\ booted \in 0..initOpen
  /\ isOpen \in Int /\ idle \in Nat
  /\ pc \in [User -> {"out", "wait", "try", "open", "hold", "drop", "nil"}]
  /\ closer \in {"no", "closing", "taken", "returned"}
  /\ panic \in BOOLEAN /\ lost \in BOOLEAN

\* The counter is ahead of the real connections by one for every turn of the
\* boot loop, and by those that somebody has given up but not counted off yet,
\* whatever fails and whatever is opened or closed later.
CounterAhead == isOpen = Real + Gone + booted

\* A connection that is given back finds room in the channel, so ReturnDB never
\* blocks: there are never more connections than opts.maxopen, though the
\* counter is read long before a connection is opened.
ReturnFindsRoom == Real <= maxOpen

\* ClosePool of MYSQL.go waits for a counter of zero: in a pool that was booted
\* with a connection it takes every connection there is and then waits for ever.
\* Where that of SQLite.go returns, no connection is left in the channel, whoever
\* returned or opened one meanwhile.
ClosePoolReturns ==
  closer = "returned" => IF backend = "mysql" THEN initOpen = 0 ELSE idle = 0

\* GetDB(true) of a pool that was booted with a connection never returns nil
\* without an error: the callers use what they get.  (One that was not may do so,
\* and so may GetDB(false).)
NoNilConnection ==
  backend = "mysql" /\ initOpen > 0 => \A u \in User : pc[u] # "nil"

\* Every GetDB returns, until a connection is lost or the pool is closed.
InGetDB(u) == pc[u] \in {"wait", "try", "open", "drop"}
EveryoneServed ==
  \A u \in User : InGetDB(u) ~> (~InGetDB(u) \/ lost \/ closer # "no")
=============================================================================
