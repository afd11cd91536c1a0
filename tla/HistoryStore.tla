----------------------------- MODULE HistoryStore -----------------------------
(***************************************************************************)
(* The core of package history: history_Writer, the hashDB_Workers, the    *)
(* hash database and history.dat, with the clients that call AddHistory    *)
(* and IndexQuery.                                                         *)
(*                                                                         *)
(* A requester (a client, or the writer) has at most one index request of  *)
(* its own under way, because it waits for the answer on its IndexRetChan. *)
(* The way through IndexChan, dispatcher and indexChans is abstracted to   *)
(* the set of queued requests: with several dispatchers two requests can   *)
(* overtake each other, so any queued request may be next (the channels    *)
(* themselves are the subject of HashDBIndex).  A worker serves one        *)
(* request at a time.                                                      *)
(***************************************************************************)
EXTENDS HistoryDat, Sequences

CONSTANTS
  Client, Writer,  \* the requesters
  Key,             \* Key[h]: the ten characters a hash is filed under
  Char,            \* Char[h]: the first cutChar characters, naming the worker
  WriterCap,       \* cap(his.WriterChan), NumQueueWriteChan
  Faults,          \* which of "crash", "db", "read", "write", "stop" happen
  MaxLines,        \* bound of the models: lines ever in history.dat
  MaxEntries,      \* bound of the models: offsets filed under a key
  CasePass, CaseDupes, CaseRetry, CaseAdded,
  NoReply, NoJob, NoObject

ASSUME StoreAssumption ==
  /\ Writer \notin Client
  /\ DOMAIN Key = Hash /\ DOMAIN Char = Hash
  /\ \A g, h \in Hash : Key[g] = Key[h] => Char[g] = Char[h]
  /\ WriterCap \in Nat \ {0}
  /\ MaxLines \in Nat /\ MaxEntries \in Nat
  /\ \A ll \in LineLen : HeaderLen + MaxLines * ll <= MaxOffset

ASSUME CodeAssumption ==
  /\ CasePass # CaseDupes /\ CasePass # CaseRetry /\ CasePass # CaseAdded
  /\ CaseDupes # CaseRetry /\ CaseDupes # CaseAdded /\ CaseRetry # CaseAdded
  /\ NoReply \notin {CasePass, CaseDupes, CaseRetry, CaseAdded}

VARIABLES
  WriterChan,  \* the objects waiting for history_Writer
  wpc,         \* where history_Writer is in its loop
  wobj,        \* the object it holds
  job,         \* job[r]: the index request of requester r
  db,          \* db[k]: the comma list of offsets filed under key k
  client,      \* what a client waits for
  resp,        \* resp[c]: the ResponseChan of c
  sure,        \* history: was the hash c searches for on disk when it asked?
  acked        \* history: hashes this process answered CaseAdded to

chanVars == <<WriterChan, wpc, wobj>>
storeVars == <<chanVars, job, db, client, resp, sure, acked>>
vars == <<datVars, storeVars>>

Requester == Client \cup {Writer}
Keys == {Key[h] : h \in Hash}
Code == {CasePass, CaseDupes, CaseRetry, CaseAdded}

\* What WriterChan carries: an object to write, one without a hash or without a
\* storage token, and the nil that CLOSE_HISTORY sends.
Object == [kind : {"line"}, hash : Hash, len : LineLen, from : Client]
BadObject == [kind |-> "bad"]
NilObject == [kind |-> "nil"]

SearchOnly == -1   \* FlagSearch

\* hashes a reader of the file can find
Known == {l.hash : l \in {k \in lines : /\ k.len >= KeyField
                                        /\ k.at + KeyField <= fileSize}}
-----------------------------------------------------------------------------
Request(h, at) ==
  [st |-> "queued", hash |-> h, at |-> at, todo |-> <<>>, multi |-> FALSE,
   code |-> NoReply]

\* the request of r after a step of its worker
Served(r, st, todo, multi, code) ==
  [st |-> st, hash |-> job[r].hash, at |-> job[r].at, todo |-> todo,
   multi |-> multi, code |-> code]

Reply(r, code) ==
  [job EXCEPT ![r] = Served(r, "done", <<>>, FALSE, code)]
ReadNext(r, todo, multi) ==
  [job EXCEPT ![r] = Served(r, "scan", todo, multi, NoReply)]

Is(r, st) == job[r] # NoJob /\ job[r].st = st

StoreInit ==
  /\ Init
  /\ WriterChan = <<>>
  /\ wpc = "recv"
  /\ wobj = NoObject
  /\ job = [r \in Requester |-> NoJob]
  /\ db = [k \in Keys |-> <<>>]
  /\ client = [c \in Client |-> "idle"]
  /\ resp = [c \in Client |-> NoReply]
  /\ sure = [c \in Client |-> FALSE]
  /\ acked = {}
-----------------------------------------------------------------------------
(* Clients.                                                                 *)

\* IndexQuery(hash, indexRetChan, FlagSearch)
Search(c, h) ==
  /\ client[c] = "idle"
  /\ client' = [client EXCEPT ![c] = "search"]
  /\ job' = [job EXCEPT ![c] = Request(h, SearchOnly)]
  /\ sure' = [sure EXCEPT ![c] = h \in Known]
  /\ UNCHANGED <<datVars, chanVars, db, resp, acked>>

LinesUnderWay ==
  Cardinality(lines) + Len(WriterChan) + (IF wpc = "recv" THEN 0 ELSE 1)

\* AddHistory blocks while WriterChan is full.
SendToWriter(o) ==
  /\ Len(WriterChan) < WriterCap
  /\ WriterChan' = Append(WriterChan, o)

AddHistory(c, o) ==
  /\ client[c] = "idle" /\ o.from = c
  /\ LinesUnderWay < MaxLines /\ Len(db[Key[o.hash]]) < MaxEntries
  /\ SendToWriter(o)
  /\ client' = [client EXCEPT ![c] = "add"]
  /\ UNCHANGED <<datVars, wpc, wobj, job, db, resp, sure, acked>>

\* AddHistory does not look at the object either
AddBadObject(c) ==
  /\ "stop" \in Faults
  /\ client[c] = "idle"
  /\ SendToWriter(BadObject)
  /\ client' = [client EXCEPT ![c] = "add"]
  /\ UNCHANGED <<datVars, wpc, wobj, job, db, resp, sure, acked>>

CloseHistory ==
  /\ "stop" \in Faults
  /\ SendToWriter(NilObject)
  /\ UNCHANGED <<datVars, wpc, wobj, job, db, client, resp, sure, acked>>

TakeSearchReply(c) ==
  /\ client[c] = "search" /\ Is(c, "done")
  /\ job' = [job EXCEPT ![c] = NoJob]
  /\ client' = [client EXCEPT ![c] = "idle"]
  /\ sure' = [sure EXCEPT ![c] = FALSE]
  /\ UNCHANGED <<datVars, chanVars, db, resp, acked>>

TakeAddReply(c) ==
  /\ client[c] = "add" /\ resp[c] # NoReply
  /\ resp' = [resp EXCEPT ![c] = NoReply]
  /\ client' = [client EXCEPT ![c] = "idle"]
  /\ UNCHANGED <<datVars, chanVars, job, db, sure, acked>>
-----------------------------------------------------------------------------
(* hashDB_Worker.                                                           *)

WorkerIdle(ch) ==
  \A r \in Requester : Is(r, "scan") => Char[job[r].hash] # ch
Picks(r) == Is(r, "queued") /\ WorkerIdle(Char[job[r].hash])

\* GetOffsets: no offset means a new hash, else the file has to be read
WorkerLooksUp(r) ==
  /\ Picks(r) /\ job[r].at = SearchOnly
  /\ LET offsets == db[Key[job[r].hash]] IN
       job' = IF offsets = <<>> THEN Reply(r, CasePass)
              ELSE ReadNext(r, offsets, Len(offsets) > 1)
  /\ UNCHANGED <<datVars, chanVars, db, client, resp, sure, acked>>

WorkerLookupFails(r) ==
  /\ "db" \in Faults
  /\ Picks(r) /\ job[r].at = SearchOnly
  /\ job' = Reply(r, CaseRetry)
  /\ UNCHANGED <<datVars, chanVars, db, client, resp, sure, acked>>

NoMatch(r) ==
  IF Len(job[r].todo) = 1 THEN Reply(r, CasePass)
  ELSE ReadNext(r, Tail(job[r].todo), job[r].multi)

\* an error at one of several offsets is logged and skipped
ReadError(r) == IF job[r].multi THEN NoMatch(r) ELSE Reply(r, CaseRetry)

\* mutant: any hash filed under the key counts
KeyIsEnough(r, found) ==
  IF found \in Hash THEN Reply(r, CaseDupes) ELSE NoMatch(r)
Compare(r, found) ==
  IF found = job[r].hash THEN Reply(r, CaseDupes)
  ELSE IF found = BadLine THEN ReadError(r)
  ELSE NoMatch(r)

WorkerReads(r) ==
  /\ Is(r, "scan")
  /\ job' = Compare(r, FseekHistoryMessageHash(Head(job[r].todo)))
  /\ UNCHANGED <<datVars, chanVars, db, client, resp, sure, acked>>

\* open, seek or read fails
WorkerReadFails(r) ==
  /\ "read" \in Faults
  /\ Is(r, "scan")
  /\ job' = ReadError(r)
  /\ UNCHANGED <<datVars, chanVars, db, client, resp, sure, acked>>

\* mutants: the offset replaces those filed before; the flag is filed instead
FiledAlone(r) == [db EXCEPT ![Key[job[r].hash]] = <<job[r].at>>]
FiledFlag(r) == [db EXCEPT ![Key[job[r].hash]] = Append(@, SearchOnly)]
Filed(r) == [db EXCEPT ![Key[job[r].hash]] = Append(@, job[r].at)]

\* InsertOffset: o = CONCAT(o, 'offset,')
WorkerInserts(r) ==
  /\ Picks(r) /\ job[r].at > 0
  /\ db' = Filed(r)
  /\ job' = Reply(r, CaseAdded)
  /\ UNCHANGED <<datVars, chanVars, client, resp, sure, acked>>

\* The statement returns an error; the server may have executed it.
WorkerInsertFails(r) ==
  /\ "db" \in Faults
  /\ Picks(r) /\ job[r].at > 0
  /\ db' \in {db, Filed(r)}
  /\ job' = Reply(r, CaseRetry)
  /\ UNCHANGED <<datVars, chanVars, client, resp, sure, acked>>
-----------------------------------------------------------------------------
(* history_Writer.                                                          *)

\* the next line's offset goes to the index before the line is written
WriterReceives ==
  /\ wpc = "recv" /\ WriterChan # <<>> /\ Head(WriterChan).kind = "line"
  /\ WriterChan' = Tail(WriterChan)
  /\ wobj' = Head(WriterChan)
  /\ wpc' = "index"
  /\ job' = [job EXCEPT ![Writer] = Request(Head(WriterChan).hash, offset)]
  /\ UNCHANGED <<datVars, db, client, resp, sure, acked>>

\* a nil object, or one without hash or token, ends the loop
WriterStops ==
  /\ wpc = "recv" /\ WriterChan # <<>> /\ Head(WriterChan).kind # "line"
  /\ WriterChan' = Tail(WriterChan)
  /\ wpc' = "stopped"
  /\ Flush \/ ("write" \in Faults /\ FlushFails)
  /\ UNCHANGED <<wobj, job, db, client, resp, sure, acked>>

\* mutants: the cases swapped, the retry written too, break for continue
SwappedCases(code) == IF code = CaseAdded THEN "flush" ELSE "write"
WriteAnyway(code) == "write"
StopOnRetry(code) == IF code = CaseAdded THEN "write" ELSE "stopped"
AfterIndex(code) ==
  IF code = CaseAdded THEN "write" ELSE IF code = CaseRetry THEN "flush"
  ELSE "recv"

\* the client gets its answer before the line is written
WriterAnswers ==
  /\ wpc = "index" /\ Is(Writer, "done")
  /\ resp' = [resp EXCEPT ![wobj.from] = job[Writer].code]
  /\ acked' = IF job[Writer].code = CaseAdded THEN acked \cup {wobj.hash}
              ELSE acked
  /\ wpc' = AfterIndex(job[Writer].code)
  /\ job' = [job EXCEPT ![Writer] = NoJob]
  /\ UNCHANGED <<datVars, WriterChan, wobj, db, client, sure>>

WriterWrites ==
  /\ wpc = "write"
  /\ \/ WriteHistoryLine(wobj.hash, wobj.len) /\ wpc' = "recv"
     \/ /\ "write" \in Faults
        /\ WriteHistoryLineFails(wobj.hash, wobj.len)
        /\ wpc' = "stopped"
  /\ wobj' = NoObject
  /\ UNCHANGED <<WriterChan, job, db, client, resp, sure, acked>>

WriterFlushes ==
  /\ wpc = "flush"
  /\ \/ Flush /\ wpc' = "recv"
     \/ "write" \in Faults /\ FlushFails /\ wpc' = "stopped"
  /\ wobj' = NoObject
  /\ UNCHANGED <<WriterChan, job, db, client, resp, sure, acked>>
-----------------------------------------------------------------------------
\* The process dies and boots again.  The hash database is another process.
Crash ==
  /\ "crash" \in Faults
  /\ Reopen
  /\ WriterChan' = <<>> /\ wpc' = "recv" /\ wobj' = NoObject
  /\ job' = [r \in Requester |-> NoJob]
  /\ client' = [c \in Client |-> "idle"]
  /\ resp' = [c \in Client |-> NoReply]
  /\ sure' = [c \in Client |-> FALSE]
  /\ acked' = {}
  /\ UNCHANGED db

WorkerStep(r) ==
  \/ WorkerLooksUp(r) \/ WorkerLookupFails(r)
  \/ WorkerReads(r) \/ WorkerReadFails(r)
  \/ WorkerInserts(r) \/ WorkerInsertFails(r)

WriterStep ==
  WriterReceives \/ WriterStops \/ WriterAnswers \/ WriterWrites \/ WriterFlushes

ClientStep(c) ==
  \/ \E h \in Hash : Search(c, h)
  \/ \E o \in Object : AddHistory(c, o)
  \/ AddBadObject(c)
  \/ TakeSearchReply(c)
  \/ TakeAddReply(c)

StoreNext ==
  \/ \E c \in Client : ClientStep(c)
  \/ CloseHistory
  \/ \E r \in Requester : WorkerStep(r)
  \/ WriterStep
  \/ Crash

StoreSpec == StoreInit /\ [][StoreNext]_vars

\* The writer and a worker that reads the file never pause for ever, a client
\* takes its answer, and a queued request is served: the channels to a worker
\* are first-in first-out.
Fairness ==
  /\ WF_vars(WriterStep)
  /\ \A r \in Requester :
       /\ WF_vars(WorkerReads(r))
       /\ SF_vars(WorkerLooksUp(r) \/ WorkerInserts(r))
  /\ \A c \in Client : WF_vars(TakeSearchReply(c) \/ TakeAddReply(c))

FairSpec == StoreSpec /\ Fairness
-----------------------------------------------------------------------------
Job == [st : {"queued", "scan", "done"}, hash : Hash, at : Int,
        todo : Seq(Nat), multi : BOOLEAN, code : Code \cup {NoReply}]

ASSUME JobAssumption == NoJob \notin Job

StoreTypeOK ==
  /\ DatTypeOK
  /\ WriterChan \in Seq(Object \cup {BadObject, NilObject})
  /\ wpc \in {"recv", "index", "write", "flush", "stopped"}
  /\ wobj \in Object \cup {NoObject}
  /\ job \in [Requester -> Job \cup {NoJob}]
  /\ db \in [Keys -> Seq(Nat)]
  /\ client \in [Client -> {"idle", "search", "add"}]
  /\ resp \in [Client -> Code \cup {NoReply}]
  /\ sure \in [Client -> BOOLEAN]
  /\ acked \subseteq Hash

OffsetsOf(h) == {db[Key[h]][i] : i \in DOMAIN db[Key[h]]}

\* Every line of history.dat, flushed or not, is filed in the hash database
\* under its key with the offset where it really stands.  The offset was taken
\* before the line was written, so this is what flushes, retries, failed
\* inserts, crashes and reused offsets could break.
IndexCoversFile == \A l \in lines : l.at \in OffsetsOf(l.hash)

\* A search that was asked when the line was already in the file is never told
\* CasePass, however often the file is flushed, the key grows or the process
\* restarts in between (as long as reading the file works).
FlushedIsFound ==
  \A c \in Client : Is(c, "done") /\ sure[c] => job[c].code # CasePass

\* CaseDupes is only answered of a hash that stands in the file: another hash
\* with the same ten characters is never mistaken for it.
NoFalseDupes ==
  \A c \in Client : Is(c, "done") /\ job[c].code = CaseDupes
                     => job[c].hash \in Known

\* What CaseAdded was answered to is in history.dat or about to be written by
\* the writer, while the process lives and no write failed.
AckedIsWritten ==
  ~failed => \A h \in acked : \/ \E l \in lines : l.hash = h
                              \/ wpc = "write" /\ wobj.hash = h

\* The clients see the duplicate check that DupeOracle specifies: what the file
\* holds is known, an answer is Retry only where a process may die, or a statement
\* or a read may fail.
Open(c) == client[c] = "search" /\ ~Is(c, "done")
Asked == [c \in Client |-> IF Open(c) THEN {job[c].hash} ELSE {}]
Unsure == [c \in Client |-> IF Open(c) /\ ~sure[c] THEN {job[c].hash} ELSE {}]
Answered == [c \in Client |-> IF Is(c, "done") THEN {<<job[c].hash, job[c].code>>}
                              ELSE {}]
Oracle == INSTANCE DupeOracle WITH
  known <- Known, asked <- Asked, fresh <- Unsure, answer <- Answered,
  MayRetry <- Faults \cap {"crash", "db", "read"} # {}
ImplementsOracle == Oracle!Spec

\* Every search and every AddHistory is answered.
EveryoneAnswered ==
  \A c \in Client : client[c] # "idle" ~> client[c] = "idle"

-----------------------------------------------------------------------------
(* Claims of comments and documents that the code does not keep.            *)

\* "If an index channel (IndexChan) is provided, it also interacts with the
\* history database for duplicate checks": no hash is written twice.
NoDuplicateLines == \A k, l \in lines : k.hash = l.hash => k = l
=============================================================================
