------------------------------- MODULE Lifecycle -------------------------------
(***************************************************************************)
(* How a HISTORY comes up and goes down: BootHistory and the header of     *)
(* history.dat, hashDB_Init and the goroutines it starts, the three locks  *)
(* of the package that these goroutines try to take, history_Writer as far *)
(* as it decides who is answered, and CLOSE_HISTORY.                       *)
(*                                                                         *)
(* The locks and the variable History belong to the package, channels and  *)
(* index to a HISTORY value; a program may have several, here all of one   *)
(* directory.  Lengths are counted in lines and headers.  One dispatcher   *)
(* stands for those of hashDB_Index and one worker for those of all        *)
(* characters: HashDBIndex has them all.                                   *)
(***************************************************************************)
EXTENDS Integers, Sequences, FiniteSets

CONSTANTS
  His,            \* HISTORY values
  History,        \* the one in the package variable
  Client,         \* goroutines that call AddHistory and IndexQuery
  WriterCap,      \* cap(his.WriterChan), NumQueueWriteChan
  IndexCap,       \* cap(his.IndexChan)
  WorkerCap,      \* cap(his.indexChans[i])
  MaxInit,        \* calls of hashDB_Init
  Limits,         \* what a behaviour may use, see limit
  Nil             \* a nil pointer in a channel

ASSUME LifecycleAssumption ==
  /\ History \in His /\ His \cap Client = {} /\ Nil \notin His \cup Client
  /\ {WriterCap, IndexCap, WorkerCap} \subseteq Nat \ {0} /\ MaxInit \in Nat
  /\ Limits \subseteq [his : SUBSET His, modes : SUBSET BOOLEAN, chans : SUBSET SUBSET His,
                       parallel : SUBSET (Nat \ {0}), clients : SUBSET Client, calls : Nat, inits : 0..MaxInit,
                       closes : SUBSET His, deaths : Nat]

VARIABLES
  limit,       \* who is used and closed, with which settings, by which clients,
               \* and how many calls, inits and deaths there may be
  UseHashDB,   \* the setting
  IndexParallel, \* the setting: dispatchers of a hashDB_Index
  HasChan,     \* the HISTORY values whose IndexChan the program has made
  calls, inits, deaths
VARIABLES      \* history.dat
  head,        \* what it begins with: "none", "empty", "part", "whole"
  extra,       \* headers, or parts of one, behind the first
  lines
VARIABLES      \* the process
  boot,        \* boot[h]: where BootHistory is; WriterChan is nil until "done"
  gen,         \* gen[h]: calls of hashDB_Init, numbered g
  chans,       \* chans[h][g]: a channel that call g made
  idx, hand,   \* idx[h][g]: the hashDB_Index of call g; what it sends, and to which
               \* call's channels
  worker,      \* worker[h][g]: a hashDB_Worker of call g; without it the channel is nil
  closed,      \* closed[h]: a single dispatcher has closed IndexChan
  WriterChan, IndexChan,
  writer, obj, \* writer[h]: history_Writer; obj[h]: whose object it works on
  offset,      \* his.Offset
  buffer,      \* buffer[h]: lines in its bufio.Writer
  closer,      \* closer[h]: CLOSE_HISTORY
  late,        \* late[h]: whose writers took LOCKHISTORY since that of h read it free
  pc, on       \* pc[c]: the call of client c; on[c]: at which HISTORY

settings == <<limit, UseHashDB, IndexParallel, HasChan>>
bounds == <<calls, inits, deaths>>
file == <<head, extra, lines>>
indexVars == <<gen, chans, idx, hand, worker, closed>>
writerVars == <<writer, obj, offset, buffer>>
closeVars == <<closer, late>>
clientVars == <<pc, on>>
vars == <<settings, bounds, file, boot, indexVars, WriterChan, IndexChan, writerVars,
          closeVars, clientVars>>

Gen == 1..MaxInit
All(x) == [h \in His |-> x]
Each(x) == All([g \in Gen |-> x])

Init ==
  /\ limit \in Limits /\ UseHashDB \in limit.modes /\ HasChan \in limit.chans
  /\ IndexParallel \in limit.parallel
  /\ calls = 0 /\ inits = 0 /\ deaths = 0
  /\ head = "none" /\ extra = 0 /\ lines = 0
  /\ boot = All("no") /\ closer = All("no") /\ late = All({})
  /\ gen = All(0) /\ chans = Each(<<>>) /\ idx = Each("none") /\ hand = Each(<<Nil, 0>>)
  /\ worker = Each("none") /\ closed = All(FALSE)
  /\ WriterChan = All(<<>>) /\ IndexChan = All(<<>>)
  /\ writer = All("none") /\ obj = All(Nil) /\ offset = All(0) /\ buffer = All(0)
  /\ pc = [c \in Client |-> "idle"] /\ on = [c \in Client |-> History]

\* The process is gone and the next one starts; the file is what it was.
Dies ==
  /\ boot' = All("no") /\ closer' = All("no") /\ late' = All({})
  /\ gen' = All(0) /\ chans' = Each(<<>>) /\ idx' = Each("none")
  /\ hand' = Each(<<Nil, 0>>) /\ worker' = Each("none") /\ closed' = All(FALSE)
  /\ WriterChan' = All(<<>>) /\ IndexChan' = All(<<>>)
  /\ writer' = All("none") /\ obj' = All(Nil) /\ offset' = All(0) /\ buffer' = All(0)
  /\ pc' = [c \in Client |-> "idle"] /\ on' = [c \in Client |-> History]
  /\ UNCHANGED <<settings, lines, calls, inits>>

Restarted == deaths < limit.deaths /\ deaths' = deaths + 1 /\ Dies

Crash == Restarted /\ UNCHANGED <<head, extra>>
-----------------------------------------------------------------------------
(* BootHistory.  It holds his.mux, and returns at once when the HISTORY has  *)
(* been booted before, also when it was closed since.                        *)
Goes(h, from, to) == boot[h] = from /\ boot' = [boot EXCEPT ![h] = to]
BootOnly == UNCHANGED <<settings, bounds, extra, lines, indexVars, WriterChan, IndexChan,
                        writerVars, closeVars, clientVars>>

\* it looks for the file
BootHistory(h) ==
  /\ h \in limit.his
  /\ Goes(h, "no", IF head = "none" THEN "create" ELSE "read")
  /\ BootOnly /\ UNCHANGED head

\* os.O_CREATE, some time after it looked
CreatesFile(h) ==
  /\ Goes(h, "create", "header")
  /\ head' = IF head = "none" THEN "empty" ELSE head
  /\ BootOnly

\* hashDB_Init: new channels and new goroutines, whatever runs already.  Without
\* ROOTDBS, which a BootHistory fills, no worker is started and no channel made.
hashDB_Init(h, rootDBs) ==
  LET g == gen[h] + 1 IN
  /\ inits < limit.inits /\ inits' = inits + 1
  /\ gen' = [gen EXCEPT ![h] = g]
  /\ idx' = [idx EXCEPT ![h][g] = "start"]
  /\ worker' = [worker EXCEPT ![h][g] = IF rootDBs THEN "start" ELSE "none"]
  /\ UNCHANGED <<chans, hand, closed>>

\* InitializeDatabase(true), before or after BootHistory
InitializeDatabase(h) ==
  /\ h \in limit.his
  /\ hashDB_Init(h, \E k \in His : boot[k] = "done")
  /\ UNCHANGED <<settings, file, calls, deaths, boot, WriterChan, IndexChan, writerVars,
                 closeVars, clientVars>>

\* What follows the header: ROOTDBS, hashDB_Init, WriterChan, history_Writer.  A
\* pool that cannot be opened ends the program, as a crash does.
BootEnds(h, from) ==
  /\ Goes(h, from, "done")
  /\ IF UseHashDB THEN hashDB_Init(h, TRUE) ELSE UNCHANGED <<inits, indexVars>>
  /\ writer' = [writer EXCEPT ![h] = "start"]
  /\ UNCHANGED <<settings, lines, calls, deaths, WriterChan, IndexChan, obj, offset,
                 buffer, closeVars, clientVars>>

\* The header is longer than the buffer and goes to the end of the file at once.
WritesHeader(h) ==
  /\ BootEnds(h, "header")
  /\ IF head = "empty" THEN head' = "whole" /\ UNCHANGED extra
                       ELSE extra' = extra + 1 /\ UNCHANGED head

\* os.Exit; a short write may have left a part of the header, also behind another
HeaderFails(h) ==
  /\ boot[h] = "header" /\ Restarted
  /\ IF head = "empty" THEN head' \in {"empty", "part"} /\ UNCHANGED extra
                       ELSE extra' \in {extra, extra + 1} /\ UNCHANGED head

NotMissing == head # "none"   \* mutant: an empty header is taken for a good one
HeaderGood == head = "whole"

ReadsHeader(h) ==
  /\ HeaderGood
  /\ BootEnds(h, "read") /\ UNCHANGED <<head, extra>>

\* FseekHistoryHeader meets the end of the file: os.Exit
HeaderRefused(h) ==
  /\ boot[h] = "read" /\ ~HeaderGood
  /\ Restarted /\ UNCHANGED <<head, extra>>
-----------------------------------------------------------------------------
(* hashDB_Index and hashDB_Worker of call g of hashDB_Init on h.  LOCKfunc   *)
(* does not wait: who finds the lock taken returns.                          *)
IndexKeeps == UNCHANGED <<settings, bounds, file, boot, WriterChan, closeVars, gen, obj,
                          offset, buffer, on>>
IndexOnly == IndexKeeps /\ UNCHANGED closed

IndexRuns == \E h \in His, g \in Gen : idx[h][g] \in {"run", "resend", "send", "idle"}
WorkerRuns == \E h \in His, g \in Gen : worker[h][g] = "run"

\* indexPar is zero, and there are no dispatchers, before BootHistory
IndexStarts(h, g) ==
  /\ idx[h][g] = "start"
  /\ idx' = [idx EXCEPT ![h][g] = CASE IndexRuns -> "gone"
                                    [] ~IndexRuns /\ boot[h] = "no" -> "idle"
                                    [] OTHER -> "run"]
  /\ IndexOnly /\ UNCHANGED <<chans, hand, worker, IndexChan, writer, pc>>

\* The channel it will send to is that of the last hashDB_Init.
Holds(h, g, x) ==
  /\ hand' = [hand EXCEPT ![h][g] = <<x, gen[h]>>]
  /\ idx' = [idx EXCEPT ![h][g] = "send"]
  /\ IndexKeeps /\ UNCHANGED <<chans, worker, writer, pc>>

Takes(h, g) ==
  /\ idx[h][g] = "run" /\ IndexChan[h] # <<>>
  /\ IndexChan' = [IndexChan EXCEPT ![h] = Tail(@)]

IndexTakes(h, g) ==
  /\ Takes(h, g) /\ Head(IndexChan[h]) # Nil
  /\ Holds(h, g, Head(IndexChan[h])) /\ UNCHANGED closed

\* several dispatchers: the nil is to go back for the next one
IndexTakesNil(h, g) ==
  /\ Takes(h, g) /\ Head(IndexChan[h]) = Nil /\ IndexParallel > 1
  /\ idx' = [idx EXCEPT ![h][g] = "resend"]
  /\ IndexOnly /\ UNCHANGED <<chans, hand, worker, writer, pc>>

Queued(h, r) ==
  /\ ~closed[h] /\ Len(IndexChan[h]) < IndexCap
  /\ IndexChan' = [IndexChan EXCEPT ![h] = Append(@, r)]

\* when others have not filled IndexChan; then on to stop the workers
IndexResends(h, g) ==
  /\ idx[h][g] = "resend" /\ Queued(h, Nil)
  /\ Holds(h, g, Nil) /\ UNCHANGED closed

\* a single one closes IndexChan
IndexCloses(h, g) ==
  /\ Takes(h, g) /\ Head(IndexChan[h]) = Nil /\ IndexParallel = 1 /\ ~closed[h]
  /\ closed' = [closed EXCEPT ![h] = TRUE]
  /\ Holds(h, g, Nil)

\* it finds IndexChan closed, or there are no dispatchers: the workers are stopped
IndexHasNobody(h, g) ==
  /\ idx[h][g] = "idle" \/ (idx[h][g] = "run" /\ closed[h] /\ IndexChan[h] = <<>>)
  /\ Holds(h, g, Nil) /\ UNCHANGED <<IndexChan, closed>>

\* nothing can be sent to a nil channel
IndexSends(h, g) ==
  LET x == hand[h][g][1]  to == hand[h][g][2] IN
  /\ idx[h][g] = "send"
  /\ worker[h][to] # "none" /\ Len(chans[h][to]) < WorkerCap
  /\ chans' = [chans EXCEPT ![h][to] = Append(@, x)]
  /\ idx' = [idx EXCEPT ![h][g] = IF x = Nil THEN "gone" ELSE "run"]
  /\ hand' = [hand EXCEPT ![h][g] = <<Nil, 0>>]
  /\ IndexOnly /\ UNCHANGED <<worker, IndexChan, writer, pc>>

WorkerStarts(h, g) ==
  /\ worker[h][g] = "start"
  /\ worker' = [worker EXCEPT ![h][g] = IF WorkerRuns THEN "gone" ELSE "run"]
  /\ IndexOnly /\ UNCHANGED <<chans, idx, hand, IndexChan, writer, pc>>

\* history_Writer asks the package variable whether it needs an answer channel;
\* a search makes its own, also that of a writer without the hash database.
HasRetChan(h) == History \in HasChan \/ ~UseHashDB
SometimesNone == {"added", "wait"}   \* mutant: a path that sends no answer
Answers == {"added", "retry"}

WorkerTakes(h, g) ==
  LET r == Head(chans[h][g]) IN
  /\ worker[h][g] = "run" /\ chans[h][g] # <<>>
  /\ chans' = [chans EXCEPT ![h][g] = Tail(@)]
  /\ worker' = [worker EXCEPT ![h][g] = IF r = Nil THEN "gone" ELSE @]
  /\ pc' = IF r \in Client THEN [pc EXCEPT ![r] = "idle"] ELSE pc
  /\ IF r \in His /\ HasRetChan(r)
     THEN \E code \in Answers : writer' = [writer EXCEPT ![r] = code]
     ELSE UNCHANGED writer
  /\ IndexOnly /\ UNCHANGED <<idx, hand, IndexChan>>

IndexStep(h, g) ==
  \/ IndexStarts(h, g) \/ IndexTakes(h, g) \/ IndexTakesNil(h, g) \/ IndexResends(h, g)
  \/ IndexCloses(h, g) \/ IndexHasNobody(h, g) \/ IndexSends(h, g)
  \/ WorkerStarts(h, g) \/ WorkerTakes(h, g)
-----------------------------------------------------------------------------
(* history_Writer.                                                           *)
WriterKeeps == UNCHANGED <<settings, bounds, head, extra, boot, indexVars, closer, on>>
WriterOnly == WriterKeeps /\ UNCHANGED late
Running(h) == writer[h] \notin {"none", "start", "gone", "failed"}
UnlocksEarly == \E h \in His : Running(h) /\ writer[h] # "flush"   \* mutant: before the last flush
WriterRuns == \E h \in His : Running(h)

size == lines + extra + (IF head = "whole" THEN 1 ELSE 0)
NeverRefused == FALSE   \* mutant: a second writer gets the lock
Refused == WriterRuns

WriterStarts(h) ==
  /\ writer[h] = "start"
  /\ writer' = [writer EXCEPT ![h] = IF Refused THEN "gone" ELSE "recv"]
  /\ offset' = [offset EXCEPT ![h] = IF Refused THEN @ ELSE size]
  /\ late' = [k \in His |-> IF ~Refused /\ closer[k] \in {"lock2", "lock3"}
                            THEN late[k] \cup {h} ELSE late[k]]
  /\ WriterKeeps /\ UNCHANGED <<lines, WriterChan, IndexChan, obj, buffer, pc>>

Receives(h) ==
  /\ writer[h] = "recv" /\ WriterChan[h] # <<>>
  /\ WriterChan' = [WriterChan EXCEPT ![h] = Tail(@)]
  /\ WriterOnly /\ UNCHANGED <<lines, IndexChan, offset, buffer>>

\* the nil of CLOSE_HISTORY goes on to the index of the package variable
IndexNotTold == "flush"   \* mutant
AfterNil == IF History \in HasChan THEN "nil" ELSE "flush"

WriterTakesNil(h) ==
  /\ Receives(h) /\ Head(WriterChan[h]) = Nil
  /\ writer' = [writer EXCEPT ![h] = AfterNil]
  /\ UNCHANGED <<obj, pc>>

\* An object goes to the index, or to the L1 cache; when there is neither the
\* client gets CaseError and the writer ends.
WriterTakes(h) ==
  LET c == Head(WriterChan[h]) IN
  /\ Receives(h) /\ c # Nil
  /\ IF h \notin HasChan /\ UseHashDB
     THEN /\ writer' = [writer EXCEPT ![h] = "abort"]
          /\ pc' = [pc EXCEPT ![c] = "idle"] /\ UNCHANGED obj
     ELSE /\ writer' = [writer EXCEPT ![h] = IF h \in HasChan THEN "ask" ELSE "added"]
          /\ obj' = [obj EXCEPT ![h] = c] /\ UNCHANGED pc

\* An incomplete object ends the writer; neither its client nor the index is told.
WriterTakesBad(h) ==
  /\ Receives(h) /\ Head(WriterChan[h]) # Nil
  /\ writer' = [writer EXCEPT ![h] = "abort"]
  /\ UNCHANGED <<obj, pc>>

WriterAsks(h) ==
  /\ \/ writer[h] = "ask" /\ Queued(h, h) /\ writer' = [writer EXCEPT ![h] = "wait"]
     \/ writer[h] = "nil" /\ Queued(History, Nil) /\ writer' = [writer EXCEPT ![h] = "flush"]
  /\ WriterOnly /\ UNCHANGED <<lines, WriterChan, obj, offset, buffer, pc>>

Flushed(h) ==
  /\ lines' = lines + buffer[h]
  /\ buffer' = [buffer EXCEPT ![h] = 0]

\* the client is answered; CaseRetry flushes then, CaseAdded writes
WriterAnswers(h) ==
  /\ writer[h] \in {"added", "retry"}
  /\ pc' = [pc EXCEPT ![obj[h]] = "idle"]
  /\ obj' = [obj EXCEPT ![h] = Nil]
  /\ writer' = [writer EXCEPT ![h] = IF @ = "added" THEN "write" ELSE "reflush"]
  /\ WriterOnly /\ UNCHANGED <<lines, buffer, WriterChan, IndexChan, offset>>

\* the line waits in the buffer, or pushes out what is there
WriterWrites(h) ==
  /\ writer[h] = "write"
  /\ writer' = [writer EXCEPT ![h] = "recv"]
  /\ offset' = [offset EXCEPT ![h] = @ + 1]
  /\ \/ buffer' = [buffer EXCEPT ![h] = @ + 1] /\ UNCHANGED lines
     \/ buffer' = [buffer EXCEPT ![h] = 1] /\ lines' = lines + buffer[h]
  /\ WriterOnly /\ UNCHANGED <<WriterChan, IndexChan, obj, pc>>

\* the file takes a part of the buffer, or nothing
WriteFails(h) ==
  /\ writer[h] \in {"write", "reflush", "flush", "abort"}
  /\ writer' = [writer EXCEPT ![h] = "failed"]
  /\ \E n \in 0..buffer[h] : lines' = lines + n
  /\ buffer' = [buffer EXCEPT ![h] = 0]
  /\ WriterOnly /\ UNCHANGED <<WriterChan, IndexChan, obj, offset, pc>>

\* the flush after CaseRetry, or the last one, after which the lock is given back
WriterFlushes(h) ==
  /\ writer[h] \in {"reflush", "flush", "abort"}
  /\ writer' = [writer EXCEPT ![h] = CASE @ = "reflush" -> "recv"
                                       [] @ = "flush" -> "gone"
                                       [] @ = "abort" -> "failed"]
  /\ Flushed(h)
  /\ WriterOnly /\ UNCHANGED <<WriterChan, IndexChan, obj, offset, pc>>

WriterStep(h) ==
  \/ WriterStarts(h) \/ WriterTakesNil(h) \/ WriterTakes(h) \/ WriterAsks(h)
  \/ WriterAnswers(h) \/ WriterWrites(h) \/ WriterFlushes(h)
-----------------------------------------------------------------------------
(* CLOSE_HISTORY (once in a process) and clients.  It holds his.mux, which   *)
(* BootHistory has given back by then.                                       *)
CloseKeeps == UNCHANGED <<settings, bounds, file, boot, indexVars, IndexChan, writerVars,
                          clientVars>>
CloseOnly == CloseKeeps /\ UNCHANGED late

CloseHistory(h) ==
  /\ boot[h] = "done" /\ closer[h] = "no" /\ h \in limit.closes
  /\ closer' = [closer EXCEPT ![h] = "send"]
  /\ CloseOnly /\ UNCHANGED WriterChan

PutAlways(h, x) == WriterChan' = [WriterChan EXCEPT ![h] = Append(@, x)]   \* mutant
PutWriter(h, x) ==
  /\ Len(WriterChan[h]) < WriterCap
  /\ WriterChan' = [WriterChan EXCEPT ![h] = Append(@, x)]

CloseSends(h) ==
  /\ closer[h] = "send" /\ PutWriter(h, Nil)
  /\ closer' = [closer EXCEPT ![h] = "lock1"]
  /\ CloseOnly

\* It looks at LOCKHISTORY, HISTORY_INDEX_LOCK and HISTORY_INDEX_LOCK16 one after the
\* other, others go on between; one that is taken sends it to sleep and to the first.
LooksAt(h, lock, taken, next) ==
  /\ closer[h] = lock
  /\ closer' = [closer EXCEPT ![h] = IF taken THEN "lock1" ELSE next]

CloseLooks(h) ==
  /\ \/ ~WriterRuns /\ LooksAt(h, "lock1", FALSE, "lock2")
     \/ LooksAt(h, "lock2", IndexRuns, "lock3")
     \/ LooksAt(h, "lock3", WorkerRuns, "returned")
  /\ late' = [late EXCEPT ![h] = IF closer'[h] = "lock1" \/ closer[h] = "lock1" THEN {} ELSE @]
  /\ CloseKeeps /\ UNCHANGED WriterChan

ClientOnly == UNCHANGED <<settings, file, inits, deaths, boot, indexVars, writerVars, closeVars>>

\* AddHistory, or IndexQuery with offset -1, which returns at once without IndexChan
Calls(c, h) ==
  /\ boot[h] = "done" /\ c \in limit.clients /\ pc[c] = "idle"
  /\ \/ pc' = [pc EXCEPT ![c] = "add"]
     \/ h \in HasChan /\ pc' = [pc EXCEPT ![c] = "search"]
  /\ on' = [on EXCEPT ![c] = h]
  /\ calls < limit.calls /\ calls' = calls + 1
  /\ ClientOnly /\ UNCHANGED <<WriterChan, IndexChan>>

CallSends(c) ==
  /\ \/ pc[c] = "add" /\ PutWriter(on[c], c) /\ UNCHANGED IndexChan
     \/ pc[c] = "search" /\ Queued(on[c], c) /\ UNCHANGED WriterChan
  /\ pc' = [pc EXCEPT ![c] = "wait"]
  /\ ClientOnly /\ UNCHANGED <<on, calls>>

\* Who sends on a channel that is closed, or closes it again, ends the program.
UsesClosed(h) ==
  /\ closed[h]
  /\ \/ writer[h] = "ask"
     \/ h = History /\ \E k \in His : writer[k] = "nil"
     \/ \E c \in Client : on[c] = h /\ pc[c] = "search"
     \/ \E g \in Gen : idx[h][g] = "run" /\ IndexChan[h] # <<>> /\ Head(IndexChan[h]) = Nil

Panics(h) == UsesClosed(h) /\ Dies /\ UNCHANGED <<deaths, head, extra>>
-----------------------------------------------------------------------------
BootStep(h) ==
  \/ BootHistory(h) \/ CreatesFile(h) \/ WritesHeader(h) \/ HeaderFails(h)
  \/ ReadsHeader(h) \/ HeaderRefused(h) \/ InitializeDatabase(h)

\* what goroutines do that have something to do, but for looking at locks
Work ==
  \/ \E h \in His :
       \/ WriterStep(h) \/ CloseSends(h) \/ Panics(h)
       \/ \E g \in Gen : IndexStep(h, g)
  \/ \E c \in Client : CallSends(c)

Next ==
  \/ Work \/ Crash
  \/ \E h \in His :
       \/ BootStep(h) \/ WriterTakesBad(h) \/ WriteFails(h) \/ CloseHistory(h)
       \/ CloseLooks(h)
       \/ \E c \in Client : Calls(c, h)

Spec == Init /\ [][Next]_vars

\* The scheduler runs goroutines as long as one can run.  Calls are bounded and no
\* goroutine but CLOSE_HISTORY does steps for ever, so each of them gets its turn
\* under one condition for all, and each CLOSE_HISTORY under its own.  Nobody has to
\* boot, to call or to close.
Fairness == WF_vars(Work) /\ \A h \in His : WF_vars(CloseLooks(h))

FairSpec == Spec /\ Fairness
-----------------------------------------------------------------------------
Item == His \cup Client \cup {Nil}

BoundsTyped ==
  /\ limit \in Limits /\ UseHashDB \in BOOLEAN /\ HasChan \in SUBSET His
  /\ IndexParallel \in limit.parallel
  /\ calls \in 0..limit.calls /\ inits \in 0..limit.inits /\ deaths \in 0..limit.deaths

FileTyped ==
  /\ head \in {"none", "empty", "part", "whole"} /\ extra \in Nat /\ lines \in Nat
  /\ boot \in [His -> {"no", "create", "header", "read", "done"}]

IndexTyped ==
  /\ gen \in [His -> 0..MaxInit] /\ \A h \in His : gen[h] <= inits
  /\ idx \in [His -> [Gen -> {"none", "start", "run", "resend", "send", "idle", "gone"}]]
  /\ hand \in [His -> [Gen -> Item \X (0..MaxInit)]]
  /\ \A h \in His, g \in Gen : idx[h][g] # "none" => gen[h] > 0
  /\ \A h \in His, g \in Gen : idx[h][g] = "send" => hand[h][g][2] > 0
  /\ worker \in [His -> [Gen -> {"none", "start", "run", "gone"}]]
  /\ closed \in [His -> BOOLEAN]

ChannelsTyped ==
  /\ chans \in [His -> [Gen -> Seq(Item)]]
  /\ \A h \in His, g \in Gen : Len(chans[h][g]) <= WorkerCap
  /\ IndexChan \in [His -> Seq(Item)] /\ \A h \in His : Len(IndexChan[h]) <= IndexCap

WriterTyped ==
  /\ WriterChan \in [His -> Seq(Client \cup {Nil})]
  /\ \A h \in His : Len(WriterChan[h]) <= WriterCap
  /\ writer \in [His -> {"none", "start", "recv", "ask", "wait", "added", "retry",
                         "write", "reflush", "nil", "flush", "abort", "gone", "failed"}]
  /\ obj \in [His -> Client \cup {Nil}]
  /\ offset \in [His -> Nat] /\ buffer \in [His -> Nat]
  /\ closer \in [His -> {"no", "send", "lock1", "lock2", "lock3", "returned"}]
  /\ late \in [His -> SUBSET His]
  /\ pc \in [Client -> {"idle", "add", "search", "wait"}] /\ on \in [Client -> His]

TypeOK == BoundsTyped /\ FileTyped /\ IndexTyped /\ ChannelsTyped /\ WriterTyped

\* A file that was created and lost its header is never written to: the line of a
\* message only ever stands behind a whole header, whenever boots crash or meet.
LinesBehindHeader ==
  /\ lines > 0 => head = "whole"
  /\ \A h \in His : Running(h) => head = "whole"

\* his.Offset is the end of file and buffer as long as a writer runs, of
\* whichever HISTORY it is, after closes, failures and restarts; unless two boots
\* both found no file, and the header of one came behind the Stat of the other.
OffsetIsSize ==
  extra = 0 => \A h \in His : Running(h) => offset[h] = size + buffer[h]

\* When CLOSE_HISTORY returns, only the buffer of a writer that took LOCKHISTORY after
\* it was found free can hold an acknowledged line, or be about to get one: those of
\* every other HISTORY have been flushed, whoever runs while the locks are looked at.
ClosedIsFlushed ==
  [][\A h \in His : closer[h] = "lock3" /\ closer'[h] = "returned" =>
       \A k \in His \ late[h] : buffer[k] = 0 /\ writer[k] # "write"]_vars

\* hashDB_Init was called once, on h, and not before BootHistory.
OnlyIndexOf(h) ==
  \A k \in His, g \in Gen : idx[k][g] # "none" => k = h /\ gen[k] = 1 /\ worker[k][g] # "none"
IndexAnswers(h) ==
  h \in HasChan => gen[h] > 0 /\ OnlyIndexOf(h) /\ HasRetChan(h)
WriterLeaves(h) == writer[h] \in {"nil", "flush", "abort", "gone", "failed"}

\* Every call of a client returns, unless the writer of its HISTORY was refused,
\* has ended or is ending, or hashDB_Init ran twice, before BootHistory or on
\* another HISTORY, or its index cannot answer the writer.
CallsReturn ==
  \A c \in Client :
    (pc[c] # "idle") ~> (pc[c] = "idle" \/ WriterLeaves(on[c]) \/ ~IndexAnswers(on[c]))

\* CLOSE_HISTORY returns, or the program dies, when one HISTORY was booted, its index
\* can be told to stop, its writer did not fail, and the dispatcher that puts the nil
\* back does not find IndexChan filled by clients meanwhile, and nobody left to empty it.
NoIndex == \A h \in His, g \in Gen : idx[h][g] = "none"
Blocked == \E h \in His, g \in Gen : idx[h][g] = "resend" /\ Len(IndexChan[h]) = IndexCap
CanClose(h) ==
  /\ \A k \in His \ {h} : boot[k] = "no"
  /\ writer[h] # "failed"
  /\ NoIndex \/ (OnlyIndexOf(h) /\ h = History /\ h \in HasChan)
  /\ IndexAnswers(h) /\ ~Blocked

Closing(h) == closer[h] \in {"send", "lock1", "lock2", "lock3"}
CloseEnds == \A h \in His : Closing(h) ~> (~Closing(h) \/ ~CanClose(h))
=============================================================================
