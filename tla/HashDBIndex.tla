----------------------------- MODULE HashDBIndex -----------------------------
(***************************************************************************)
(* The channels of the hash database: IndexChan, the dispatchers that      *)
(* hashDB_Index starts, one channel and one hashDB_Worker per leading      *)
(* characters, and the nil pointer that stops them one after the other.    *)
(* What a worker does with a request is the subject of HistoryStore.       *)
(*                                                                         *)
(* Nothing under src/ makes IndexChan: it is an exported field that the    *)
(* embedding program sets, with a capacity of its choice.                  *)
(***************************************************************************)
EXTENDS Integers, Sequences, FiniteSets

CONSTANTS
  Requester,    \* goroutines that call IndexQuery, one request at a time
  MaxPar,       \* IndexParallel is between 1 and MaxPar
  NumCacheDBs,  \* workers, numbered like indexChans
  IndexCaps,    \* what cap(his.IndexChan) may be
  WorkerCap,    \* cap(his.indexChans[i])
  MayClose,     \* does history_Writer stop and send the nil pointer?
  Nil           \* the nil *HistoryIndex

ASSUME ChannelAssumption ==
  /\ IndexCaps \subseteq Nat \ {0} /\ WorkerCap \in Nat \ {0}
  /\ NumCacheDBs \in Nat \ {0} /\ MaxPar \in Nat \ {0}
  /\ IsFiniteSet(Requester) /\ Nil \notin Requester
  /\ MayClose \in BOOLEAN

VARIABLES
  indexPar,    \* his.indexPar: so many dispatchers run
  indexCap,    \* cap(his.IndexChan), a choice of the program that makes it
  st,          \* st[r]: "none", "asked" or "done"
  char,        \* char[r]: the worker its last request is for
  IndexChan,   \* requesters in the channel, or Nil
  closed,      \* was close(IndexChan) called?
  disp,        \* disp[p]: "recv", "send", "resend" or "stopped"
  held,        \* held[p]: the request dispatcher p forwards
  nextNil,     \* 0 while dispatchers run, then the worker to stop next
  indexChans,  \* indexChans[i]: requesters, or Nil
  worker,      \* worker[i]: "recv", "serve" or "stopped"
  served,      \* served[i]: the request worker i works on
  nilSent,     \* did history_Writer send the nil pointer, or what is taken for it?
  panicked     \* did a goroutine send on the closed channel?

requestVars == <<st, char>>
dispatchVars == <<indexPar, indexCap, closed, disp, held, nextNil>>
workerVars == <<worker, served>>
vars == <<requestVars, IndexChan, dispatchVars, indexChans, workerVars, nilSent,
          panicked>>

Chars == 1..NumCacheDBs
Dispatcher == 1..indexPar   \* the goroutines of hashDB_Index

Init ==
  /\ indexPar \in 1..MaxPar /\ indexCap \in IndexCaps
  /\ st = [r \in Requester |-> "none"]
  /\ char \in [Requester -> {1}]
  /\ IndexChan = <<>> /\ closed = FALSE
  /\ disp = [p \in 1..MaxPar |-> "recv"]
  /\ held = [p \in 1..MaxPar |-> Nil]
  /\ nextNil = 0
  /\ indexChans = [i \in Chars |-> <<>>]
  /\ worker = [i \in Chars |-> "recv"]
  /\ served = [i \in Chars |-> Nil]
  /\ nilSent = FALSE /\ panicked = FALSE
-----------------------------------------------------------------------------
(* Requesters and history_Writer.                                           *)
HasRoom == ~closed /\ Len(IndexChan) < indexCap

IndexQuery(r, ch) ==
  /\ st[r] = "none" /\ HasRoom
  /\ st' = [st EXCEPT ![r] = "asked"]
  /\ char' = [char EXCEPT ![r] = ch]
  /\ IndexChan' = Append(IndexChan, r)
  /\ UNCHANGED <<dispatchVars, indexChans, workerVars, nilSent, panicked>>

\* A send on a closed channel is a run-time panic and ends the process; other
\* goroutines may still do a step before it is gone.
QueryPanics(r) ==
  /\ st[r] = "none" /\ closed /\ ~panicked
  /\ panicked' = TRUE
  /\ UNCHANGED <<requestVars, IndexChan, dispatchVars, indexChans, workerVars,
                 nilSent>>

TakeAnswer(r) ==
  /\ st[r] = "done"
  /\ st' = [st EXCEPT ![r] = "none"]
  /\ UNCHANGED <<char, IndexChan, dispatchVars, indexChans, workerVars, nilSent,
                 panicked>>

\* mutant: the writer sends a nil at an error and another one when it ends
WriterSendsNils ==
  /\ MayClose /\ HasRoom
  /\ nilSent' = TRUE
  /\ IndexChan' = Append(IndexChan, Nil)
  /\ UNCHANGED <<requestVars, dispatchVars, indexChans, workerVars, panicked>>

\* history_Writer leaves its loop and sends nil "to stop history_dbz"; or it sends
\* the request of an object whose hash is too short, which AddHistory lets through
\* and a dispatcher takes for nil, and waits for the answer for ever.
WriterSendsNil ==
  /\ MayClose /\ ~nilSent /\ HasRoom
  /\ nilSent' = TRUE
  /\ IndexChan' = Append(IndexChan, Nil)
  /\ UNCHANGED <<requestVars, dispatchVars, indexChans, workerVars, panicked>>
-----------------------------------------------------------------------------
(* hashDB_Index.                                                            *)
Receives(p) ==
  /\ disp[p] = "recv" /\ IndexChan # <<>>
  /\ IndexChan' = Tail(IndexChan)
  /\ UNCHANGED <<requestVars, indexPar, indexCap, nextNil, indexChans, workerVars, nilSent,
                 panicked>>

DispatcherTakesRequest(p) ==
  /\ Receives(p) /\ Head(IndexChan) # Nil
  /\ held' = [held EXCEPT ![p] = Head(IndexChan)]
  /\ disp' = [disp EXCEPT ![p] = "send"]
  /\ UNCHANGED closed

Alone == indexPar = 1
NilEnds == "stopped"   \* mutant: does not pass the nil on
AfterNil == IF Alone THEN "stopped" ELSE "resend"

\* The nil pointer stops one dispatcher.  It closes the channel when it is the
\* only one, else it passes the nil on to the others.
DispatcherTakesNil(p) ==
  /\ Receives(p) /\ Head(IndexChan) = Nil
  /\ closed' = Alone
  /\ disp' = [disp EXCEPT ![p] = AfterNil]
  /\ UNCHANGED held

DispatcherResendsNil(p) ==
  /\ disp[p] = "resend" /\ HasRoom
  /\ IndexChan' = Append(IndexChan, Nil)
  /\ disp' = [disp EXCEPT ![p] = "stopped"]
  /\ UNCHANGED <<requestVars, indexPar, indexCap, closed, held, nextNil, indexChans,
                 workerVars, nilSent, panicked>>

\* his.indexChans[his.charsMap[char]] <- hi
\* mutant: a send that does not wait
SentOrDropped(i, x) ==
  indexChans' = IF Len(indexChans[i]) < WorkerCap
                THEN [indexChans EXCEPT ![i] = Append(@, x)] ELSE indexChans
Sent(i, x) ==
  /\ Len(indexChans[i]) < WorkerCap
  /\ indexChans' = [indexChans EXCEPT ![i] = Append(@, x)]

\* mutant: the worker with the shortest queue
ShortestQueue(p) ==
  CHOOSE i \in Chars : \A j \in Chars : Len(indexChans[i]) <= Len(indexChans[j])
WorkerFor(p) == char[held[p]]

DispatcherForwards(p) ==
  /\ disp[p] = "send"
  /\ Sent(WorkerFor(p), held[p])
  /\ disp' = [disp EXCEPT ![p] = "recv"]
  /\ held' = [held EXCEPT ![p] = Nil]
  /\ UNCHANGED <<requestVars, IndexChan, indexPar, indexCap, closed, nextNil, workerVars,
                 nilSent, panicked>>

\* the loop that waits until waitchan is empty
NilWasSent == nilSent   \* mutant: does not wait for the dispatchers
AllGone == \A p \in Dispatcher : disp[p] = "stopped"

DispatchersGone ==
  /\ nextNil = 0
  /\ AllGone
  /\ nextNil' = 1
  /\ UNCHANGED <<requestVars, IndexChan, indexPar, indexCap, closed, disp, held, indexChans,
                 workerVars, nilSent, panicked>>

\* "passing nils to indexChans will stop hashDB_Worker"; behind the last one
\* HISTORY_INDEX_LOCK is released
StopNextWorker ==
  /\ nextNil \in Chars
  /\ Sent(nextNil, Nil)
  /\ nextNil' = nextNil + 1
  /\ UNCHANGED <<requestVars, IndexChan, indexPar, indexCap, closed, disp, held, workerVars,
                 nilSent, panicked>>
-----------------------------------------------------------------------------
(* hashDB_Worker.                                                           *)
WorkerReceives(i) ==
  /\ worker[i] = "recv" /\ indexChans[i] # <<>>
  /\ indexChans' = [indexChans EXCEPT ![i] = Tail(@)]
  /\ served' = [served EXCEPT ![i] = Head(indexChans[i])]
  /\ worker' = [worker EXCEPT ![i] = IF Head(indexChans[i]) = Nil
                                     THEN "stopped" ELSE "serve"]
  /\ UNCHANGED <<requestVars, IndexChan, dispatchVars, nilSent, panicked>>

\* IndexRetChan holds one answer, the worker never waits for the requester
WorkerAnswers(i) ==
  /\ worker[i] = "serve"
  /\ st' = [st EXCEPT ![served[i]] = "done"]
  /\ worker' = [worker EXCEPT ![i] = "recv"]
  /\ served' = [served EXCEPT ![i] = Nil]
  /\ UNCHANGED <<char, IndexChan, dispatchVars, indexChans, nilSent, panicked>>

DispatcherStep(p) ==
  \/ DispatcherTakesRequest(p) \/ DispatcherTakesNil(p)
  \/ DispatcherResendsNil(p) \/ DispatcherForwards(p)
IndexStep == DispatchersGone \/ StopNextWorker
WorkerStep(i) == WorkerReceives(i) \/ WorkerAnswers(i)

RequesterStep(r) ==
  (\E ch \in Chars : IndexQuery(r, ch)) \/ QueryPanics(r) \/ TakeAnswer(r)

Next ==
  \/ \E r \in Requester : RequesterStep(r)
  \/ WriterSendsNil
  \/ \E p \in Dispatcher : DispatcherStep(p)
  \/ IndexStep
  \/ \E i \in Chars : WorkerStep(i)

Spec == Init /\ [][Next]_vars

Runs(p) == p \in Dispatcher

\* Goroutines run; a goroutine blocked on a full channel gets its turn, for the
\* runtime serves blocked senders in order.
Fairness ==
  /\ \A r \in Requester : WF_vars(TakeAnswer(r))
  /\ \A p \in 1..MaxPar :
       /\ SF_vars(Runs(p) /\ DispatcherForwards(p))
       /\ SF_vars(Runs(p) /\ DispatcherResendsNil(p))
       /\ WF_vars(Runs(p) /\ (DispatcherTakesRequest(p) \/ DispatcherTakesNil(p)))
  /\ SF_vars(StopNextWorker) /\ WF_vars(DispatchersGone)
  /\ \A i \in Chars : WF_vars(WorkerStep(i))

FairSpec == Spec /\ Fairness
-----------------------------------------------------------------------------
States == {"none", "asked", "done"}

TypeOK ==
  /\ indexPar \in 1..MaxPar /\ indexCap \in IndexCaps
  /\ st \in [Requester -> States] /\ char \in [Requester -> Chars]
  /\ IndexChan \in Seq(Requester \cup {Nil}) /\ Len(IndexChan) <= indexCap
  /\ closed \in BOOLEAN /\ nilSent \in BOOLEAN /\ panicked \in BOOLEAN
  /\ disp \in [1..MaxPar -> {"recv", "send", "resend", "stopped"}]
  /\ held \in [1..MaxPar -> Requester \cup {Nil}]
  /\ nextNil \in 0..(NumCacheDBs + 1)
  /\ indexChans \in [Chars -> Seq(Requester \cup {Nil})]
  /\ \A i \in Chars : Len(indexChans[i]) <= WorkerCap
  /\ worker \in [Chars -> {"recv", "serve", "stopped"}]
  /\ served \in [Chars -> Requester \cup {Nil}]

\* A worker only ends when nothing is on its way to it any more: the nil to the
\* workers is sent behind the last request of the last dispatcher.
StoppedWorkerDrained ==
  \A i \in Chars : worker[i] = "stopped" =>
    /\ indexChans[i] = <<>>
    /\ \A p \in Dispatcher : held[p] # Nil => char[held[p]] # i

\* The requests are served as IndexService says.
Being(r) == {i \in Chars : served[i] = r}
Stage == [r \in Requester |-> IF st[r] # "asked" THEN st[r]
                              ELSE IF Being(r) # {} THEN "served" ELSE "queued"]
Service == INSTANCE IndexService WITH st <- Stage
ImplementsService == Service!Spec

\* Every request that was sent before the nil pointer is answered, also when the
\* index stops in between.
EveryQueryAnswered ==
  \A r \in Requester : (st[r] = "asked" /\ ~nilSent) ~> st[r] = "done"

\* The nil is put back into the channel it came from, which clients go on to fill:
\* with a place for every goroutine that asks and one more, the dispatcher that
\* holds it always finds room.
NilHasRoom ==
  Cardinality(Requester) < indexCap =>
    \A p \in Dispatcher : disp[p] = "resend" => Len(IndexChan) < indexCap

\* The nil pointer stops the dispatchers and the workers, so CLOSE_HISTORY, which
\* waits for their locks, returns; unless the last dispatcher finds the channel full
\* when it puts the nil back.  One that waits with the nil before a full channel is
\* helped by any other that runs, and with a place for everybody (NilHasRoom) none
\* waits.
IndexDown ==
  /\ nextNil = NumCacheDBs + 1
  /\ \A i \in Chars : worker[i] = "stopped"
LastBlocked ==
  /\ Len(IndexChan) = indexCap
  /\ \E p \in Dispatcher :
       disp[p] = "resend" /\ \A q \in Dispatcher \ {p} : disp[q] = "stopped"
IndexStops == nilSent ~> (IndexDown \/ LastBlocked)

\* "dont close IndexChan as clients may still send requests": nobody ever sends on
\* a closed channel.
NoSendOnClosed == ~panicked
=============================================================================
