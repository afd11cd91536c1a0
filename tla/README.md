# nntp-history in TLA+

Specifications of `go-while/nntp-history`, a Go package that keeps the history
of a Usenet server: which message-ID hashes it has seen, and where the line of
each one stands in the append-only file `history.dat`. The modules are written
from the code in `src/`; where a comment or document says something else, the
code is what is modelled and the difference is recorded (section 7).

## 1. The system

| part | source | state | operations |
|------|--------|-------|------------|
| history.dat and its `bufio.Writer` | `nntp-history.go` | the file, the buffer, `his.Offset`, the writer's sticky error | `writeHistoryLine`, `checkBufioWriteBuffer`, `Flush`, `Stat` at boot, `FseekHistoryMessageHash` |
| `history_Writer` | `nntp-history.go` | the object in hand, `WriterChan` | receive, ask the index, answer, write, flush, stop |
| clients | `AddHistory`, `IndexQuery` | one question at a time, `ResponseChan`, `IndexRetChan` | search (offset -1), add |
| `hashDB_Index` | `nntp-history.go` | `IndexChan`, `indexPar` dispatchers, one channel per worker | dispatch, shutdown by nil |
| `hashDB_Worker` | `nntp-history.go` | the request in hand | look up, scan the file, insert |
| hash database | `MYSQL.go`, `SQLite.go` | key (10 characters of the hash) -> list of offsets | `GetOffsets`, `InsertOffset` |
| connection pool | `MYSQL.go`, `SQLite.go` | channel of idle connections, counter `isOpen` | boot, `GetDB`, `ReturnDB`, `ClosePool` |
| sharding | `SQLiteSharding.go` | none (a function of the hash) | `getDBIndexFromHash`, `getTableNameFromHash` |
| L1 cache | `L1CACHE.go` | entries, queue of expiring items | `LockL1Cache`, `Set`, `pqExpire` |
| L2, L3 caches | `L2CACHE.go`, `L3CACHE.go` | entries (offset -> hash, key -> offsets), queue of expiring items, channel and batch of `pqExtend` | `SetOffsetHash`, `SetOffsets`, the getters, `pqExpire`, `pqExtend`; no caller in the package |
| socket server, client | `SOCKET.go`, `CLIENT.go` | `TCPchan`, one connection at a time, one session for each | dial, greeting, ADD line and reply, dial again |
| boot and close | `BootHistory`, `hashDB_Init`, `CLOSE_HISTORY`, `SQLite.go`/`MYSQL.go` for `InitializeDatabase` | the header of history.dat, `his.Offset`, three package-wide locks, the package variable `History` | boot, header, start of the goroutines, close |
| header, padding, CRC; statistics; profiling | `HASHENC.go`, `STATS.go`, `PROFILE.go` | counters | |

How they meet. A client searches with `IndexQuery(hash, -1)`: the request goes
through `IndexChan` and a dispatcher into the channel of the worker of the
hash's first characters; the worker asks the database for the offsets filed
under the first ten characters and reads `history.dat` at each until it finds
the hash. A client adds with `AddHistory`: the object goes through `WriterChan`
to the only writer, which sends the offset the next line *will* have to the same
index, waits, answers the client, and then writes the line into a buffer.
Without a hash database (`UseHashDB = false`) both calls end in the L1 cache.

What is hard about it:

* the offset is filed before the line exists, the client is answered before the
  line is written, and the line reaches the file when the buffer is full: a
  crash, a failed write or a failed insert may come at each of these points;
* searches read the file behind the writer's back, so they may meet the end of
  the file, a fragment left by a short write, or another hash's line;
* ten characters are a key of several hashes: a dangling offset may later name
  the line of another hash;
* requests of several clients overtake each other between dispatchers, every
  channel is bounded, and one nil pointer has to stop them all;
* the pool's counter is read under a lock and used after it;
* cache entry and queue item are written under different mutexes;
* boot looks for the file, creates it and writes its header in separate steps,
  and the locks of the package are only tried: who finds one taken goes away;
* CLOSE_HISTORY sends a nil and watches locks that are taken some time after the
  goroutines were started;
* a remote client cannot know what became of a line when its connection dies,
  and the protocol has no sequence numbers.

What makes each part correct: *file* - offsets are true, lines are whole, apart
and stay; *store* - every line is filed where it stands, what is on disk is
known, what is known is on disk, acknowledged is written, everyone is answered;
*index* - one request, one place, one answer, and a shutdown that drains;
*pool* - counter and connections agree, `ReturnDB` does not block, `GetDB` does
not return nil; *caches* - one holder (L1), an entry is true and lives for its
time, and what expires is taken away; *boot and close* - lines only behind a
whole header, one writer, its offset is the size of the file, a close leaves
nothing in a buffer and returns;
*sharding* - one table per prefix; *server
and client* - an answer is that of one's own line, nothing is added more often
than it was sent, a lost connection loses at most one object.

## 2. The modules

| module | models | checked by | proved in |
|--------|--------|-----------|-----------|
| `HistoryDat` | history.dat, the buffer, the reader | `StoreFaults` | `HistoryStoreProofs` |
| `HistoryStore` (extends `HistoryDat`) | writer, workers, database, clients | `StoreFaults`, `StoreClients`, `StoreDuplicateLines` | `HistoryStoreProofs` |
| `DupeOracle` | abstract: what a search promises | through `ImplementsOracle` | `StoreImplementsOracle` |
| `HashDBIndex` | dispatchers, channels, shutdown | `Index`, `IndexClosed` | `HashDBIndexProofs` |
| `IndexService` | abstract: queued, served, answered once | through `ImplementsService` | `HashDBIndexProofs` |
| `Lifecycle` | boot, header, locks, several HISTORY values, close | `Lifecycle` | `LifecycleProofs` |
| `SQLPool` | the connection pool, both backends | `Pool` | `SQLPoolProofs` |
| `L1History` | duplicate detection by the L1 cache | `L1` | `L1HistoryProofs` |
| `OffsetCaches` | the L2 and the L3 cache | `Caches` | `OffsetCachesProofs` |
| `HistoryServer` | remote client, connections, sessions | `Server` | `HistoryServerProofs` |
| `Sharding` | where a hash is filed | `Sharding` | `ShardingProofs` |

The `MC*` modules give TLC small sets of model values. Operators marked
`\* mutant` are plausible wrong versions of the operator they stand before; they
are used by nothing and are there to show that the properties can fail.

**HistoryDat.** A line is a record of its place, its length and its hash;
`fileSize` bytes of the stream are in the file and `buffered` in the writer's
buffer. `WriteHistoryLine` is the whole of `writeHistoryLine` with the check and
the flush in front of it; `CheckFlushFails` and `LongLineFails` are its error
paths, where some bytes got to the file and the writer's error sticks. `Reopen`
is a process that died and booted: the buffer is gone, `his.Offset` is the size
of the file. The content of a line is abstracted to where its first two tabs
are, which is what `FseekHistoryMessageHash` can meet (a storage token has no
tab, and the text that a reader meets between two tabs is not enclosed in
braces).

**HistoryStore.** One action per step of the worker, the writer and the client;
a worker that reads the file reads one offset per step, so writes and flushes
come between two reads. The way of a request through the channels is a set of
queued requests of which any may be next; that this is what the channels do is
`ImplementsService`. `Faults` names what may go wrong: "crash" (the process
dies; the database is another process and lives), "db" (a statement returns an
error, and an insert may have been executed), "read", "write", "stop" (a nil or
an incomplete object ends the writer). `sure` and `acked` are history variables.
`AfterIndex` is the writer's switch: an insert is only answered CaseAdded or
CaseRetry, so its default branch cannot be reached.

**HashDBIndex.** `indexPar`, a setting, is any number from 1 to `MaxPar`.
A channel send is enabled when there is room. What a worker does with a request
is left to HistoryStore. Nothing under `src/` makes `IndexChan`; the embedding
program does, with a capacity of its choice (`IndexCap`), and no document says
which. The branch for a closed channel on the receiving side cannot be
reached with one `hashDB_Init`: the only dispatcher that closes it has ended by
then (`Lifecycle` has the branch). Taking the nil and putting it back are two
steps, between which clients fill the channel. `WriterSendsNil`
is a close, or a request whose hash is shorter than 64 characters, which
`AddHistory` lets through and a dispatcher takes for the nil pointer.

**Lifecycle.** The frame around the two modules above: what `HistoryStore` takes
as given (one writer, a file with a header, an index that answers) is what
`BootHistory` and `hashDB_Init` have to bring about. `head` is what the file
begins with, `extra` counts headers behind the first, `lines` the lines; a line
and a header are one unit each, which is enough to compare `his.Offset` with the
size. One dispatcher and one worker stand for all of a HISTORY; `gen[h]` counts
the calls of `hashDB_Init`, each of which makes new channels and goroutines.
With `IndexParallel = 1` the dispatcher that takes the nil closes IndexChan
(`IndexCloses`), and who sends on it later, or closes it again, ends the process
(`Panics`); with more it puts the nil back when there is room (`IndexTakesNil`,
`IndexResends`) and may wait for that for ever. CLOSE_HISTORY looks at the three
locks in three steps and everybody else goes on in between (`CloseLooks`);
`late` remembers the writers that took their lock after it was found free.
`LOCKfunc` does not wait, so `IndexStarts`, `WorkerStarts` and `WriterStarts`
end in "gone" when another one has the lock. Where the code looks at the package
variable instead of its receiver (`HasRetChan`, `AfterNil`) so does the module.
The record `limit` says, for one behaviour, which HISTORY values are used, which
have an IndexChan, and how many calls, inits and deaths of the process there
may be. `HeaderFails`, `HeaderRefused` and a pool that cannot be opened end the
process as `Crash` does; the file stays.

**SQLPool.** `GetDB(true)` as the workers call it and `GetDB(false)` as
`GetDBAndTable` does, in the steps between which another goroutine can run:
reading the counter, waiting on the channel or trying it, opening. `backend`
says whose `ClosePool` it is: that of `MYSQL.go` takes connections until the
counter is zero, that of `SQLite.go` closes the channel and drains it, and who
uses the pool then panics. A connection that is given up leaves the channel in
one step and the counter in the next (`WaitFails` and `DropCounts`,
`ClosePoolTakes` and `ClosePoolCounts`). A boot that fails ends the program and
is left out.

**L1History.** Time is counted in ticks; `pqExpire` pops an item and waits for
it. The two halves of `Set` (queue the item, write the entry) are two actions.
Any client adds any hash at any time: `AddHistory`, the writer and `Set` do not
look whether it was searched, so a hash may have several items in the queue.
`bypassed` remembers the hashes that were added without a pass.

**OffsetCaches.** One module for both caches, which are the same code but for the
entry: `Merged` is where they differ. It is one character's cache with its
`pqExpire` and `pqExtend`. `known` stands for what is true outside (the offsets
filed under a key, or whether the line at an offset is in the file); a caller
reads it (`Reads`), and sets it some time later in the two halves of
`SetOffsets` or `SetOffsetHash`. The callers are external: their comments say
what they are for, the package does not have them yet.

**HistoryServer.** One client process and its connections, each with a session
at the server. A line and its reply are under way in `toServer[k]` and
`toClient[k]`; a connection that is lost keeps or loses them, and may swallow
what is written into it. `rpc` is where `BootHistoryClient` ("dial", "banner")
and `handleRConn` ("recv", "await") are. What `IndexQuery` answers is any of its
codes. `checkACL` lets nobody in until the operator says so, therefore a greeting
may be refused. The server listens from the start of `BootHistory`, before
`ready`.

**Sharding.** The first three hexadecimal digits as a number, the six modes, and
the bit cutting of both functions with `\div` and `%`.

## 3. What the runs check

| run | bounds | shows |
|-----|--------|-------|
| `StoreFaults` | 1 client, 2 hashes with one key, 3 lines of 4 or 13 bytes, buffer 12, all faults | `OffsetIsEnd`, `CompleteLinesOnly`, `FseekFindsLine`, `AppendOnly`, `StoreTypeOK`, `IndexCoversFile`, `NoFalseDupes` |
| `StoreClients` | 2 clients, 2 hashes with one key, 2 lines, 3 filed offsets, buffer 7, failing statements and crashes | `FlushedIsFound`, `AckedIsWritten`, `ImplementsOracle`, `EveryoneAnswered` |
| `Index` | 3 requesters, 1 or 2 dispatchers, 2 workers, worker channels of 1, IndexChan of 2 or 4 | `StoppedWorkerDrained`, `NilHasRoom`, `ImplementsService`, `EveryQueryAnswered`, `IndexStops` |
| `Lifecycle` | 2 HISTORY values, 2 clients, WriterChan of 1, IndexChan of 2, one dispatcher or several, in four scenarios | `TypeOK`, `LinesBehindHeader`, `OffsetIsSize`, `ClosedIsFlushed`, `CallsReturn`, `CloseEnds` |
| `Pool` | 4 users, maxopen 3, initopen 0 to 2, both backends | `CounterAhead`, `ReturnFindsRoom`, `ClosePoolReturns`, `NoNilConnection`, `EveryoneServed` |
| `L1` | 2 clients, 2 articles, entries of 2 ticks, 3 queue items | `OneHolder`, `KnownUntilExpiry`, `AddedExpires` |
| `Caches` | L2 and L3; 1 key, 2 callers, 3 offsets, entries of 2 ticks, extensions of 1, batches of 2 | `EntryIsTrue`, `KeepsItsTime`, `NoOrphan`, `StaleSetKeepsNewer`, `ItemsDelete` |
| `Sharding` | all 4096 prefixes, all 6 modes | `FiledInOwnTable` |
| `Server` | 2 objects, one malformed, sent up to twice; TCPchan of 2; 2 faults, hence 3 connections; tcp and unix; 0 or 1 dial retries | `AnswerIsOwn`, `HandedAsAsked`, `LostPerConnection`, `AnsweredUnlessStuck` |
| `StoreDuplicateLines`, `IndexClosed`, `ServerAnswers` | small | claims of comments that the code does not keep (section 7) |

Why the bounds are enough. A line of 4 bytes fits twice into a buffer of 12 and
the third fills it to its last byte, which is where the code begins to flush; a
line of 13 goes past the buffer. Three lines are enough for a fragment between
lines, after any number of restarts. One key for both hashes makes every insert of one hash
grow the list that a search for the other one scans; three filed offsets are
more than there are lines, so that some dangle and are used again. In `Index`
three requests for two one-place channels make every dispatcher block; an
IndexChan of 4 has room for all requesters and the nil, one of 2 is filled while
a dispatcher holds the nil. Two ticks and three items let an article be added
again while its first item is in the queue and pqExpire holds another. Four users
are one more than the pool opens connections. Three connections let a client that sends an object again meet the
session of the first sending still at work, with one more connection to lose
in between; every fault that ends a connection counts, so that `Dial` never
meets the bound. The scenarios of `MCLifecycle` keep apart what would multiply:
two boots that meet at one file with a crash between, both of which are closed; one
HISTORY with its index, two clients and a close; `InitializeDatabase` before and
behind `BootHistory`; two HISTORY values with an index each and a client. In
`Caches` keys share the two goroutines and no entry, so one key is enough; two
callers let an old list meet a new one, three offsets a list with a middle, and
two items under way an item of an earlier `Set` that takes a later entry. Bounds
are named constants: `MaxOffset`, `MaxLines`, `MaxEntries`, `MaxQueue`, `MaxPar`,
`MaxInit`, `MaxPut`, `MaxFault`, `MaxKnown`, `MaxItems`, and `Limits` of Lifecycle.

Deadlock is not checked where the system may rightly stop: when no more lines fit
the bound, when the writer has ended, when the index has shut down, when a
pool is closed, when all calls of a scenario are made, or when client and session
wait for each other. That requests are answered is a liveness property instead.

## 4. Fairness

Goroutines are weakly fair: the Go scheduler preempts and runs every runnable
goroutine. A send to or a receive from a channel that others use too is strongly
fair: blocked goroutines are served in the order they came. No client has to ask
anything, no fault has to happen, nobody has to close. In L1History and
OffsetCaches time passes and the goroutines of the caches go on. In
HistoryServer the server comes back and its address is reached at last. In
Lifecycle one weak fairness condition on all work together is enough for
everyone but CLOSE_HISTORY: calls are bounded and nobody else does steps for
ever, so each gets its turn. CLOSE_HISTORY polls for ever, so each one has a
condition of its own and does not count as work of the others.
`StoreSpec` and `Spec`, of which everything is proved, state no fairness.

## 5. Abstract specifications

`DupeOracle` knows a growing set of hashes, those whose lines are in the file.
It may say CaseDupes only of what it knows when it answers, CasePass only of what
it did not know when asked, CaseRetry only if it may, and a crash
forgets the questions but not the hashes. `ImplementsOracle` maps HistoryStore to
it: the answer of the store is that of an atomic check, though the scan takes
many steps. CaseRetry is only allowed where a process may die, or a statement or a
read may fail: a failed write or a stopped writer is no reason for it. It needs files that can be read: a read error at one of several
offsets is skipped by the code.

`IndexService` is a request that is queued, served while no other of the same
worker is, and answered. `ImplementsService` maps the channels to it, and
HistoryStore uses requests in this form.

## 6. Proofs

TLAPS proves, for all values of the constants that satisfy the named ASSUMEs:

| module | theorems | assumptions |
|--------|----------|-------------|
| `HistoryStoreProofs`, about HistoryDat | `DatInvariant`, `FileEndsBetweenLines`, `FseekFinds`, `FileIsAppendOnly` | `LengthAssumption`, `ResultAssumption` |
| `HistoryStoreProofs`, about HistoryStore | `IndexAlwaysCovers`, `DupesAreReal`, `FlushedAlwaysFound`, `AckedAlwaysWritten`, `StoreImplementsOracle`, `StoreImplementsDat`, `StoreFileIsSound`, `NothingIsForgotten`, `StoreTyped` | those and `StoreAssumption`, `CodeAssumption`, `JobAssumption` |
| `HashDBIndexProofs` | `ChannelsImplementService`, `NilIsLast`, `NilFindsRoom`, `IndexTyped` | `ChannelAssumption` |
| `LifecycleProofs` | `LifecycleTyped`, `HeaderComesFirst`, `OffsetAlwaysSize`, `CloseHasFlushed` | `LifecycleAssumption` |
| `SQLPoolProofs` | `CounterStaysAhead`, `ReturnNeverBlocks`, `ClosedPools`, `GetDBNeverNil` | `PoolAssumption` |
| `L1HistoryProofs` | `PassIsExclusive`, `AddedStaysKnown` | `L1Assumption` |
| `OffsetCachesProofs` | `EntriesAreTrue`, `EntriesLive`, `NothingStaysForEver`, `SetsKeepNewer` | `CachesAssumption`, `NoneAssumption` |
| `HistoryServerProofs` | `RepliesMatch`, `HandedOnOnce`, `LossIsBounded` | `ServerAssumption` |
| `ShardingProofs` | `PlacesCorrect`, `NoTwoPrefixesShareATable` | none |

*HistoryDat.* The inductive invariant is `DatInv`: types, `OffsetIsEnd`,
`CompleteLinesOnly`, `LinesDisjoint` and `LinesInStream`. The last is what makes
the others inductive: a line appended at the end of the stream touches no other
only because all others end there, and a flush ends behind every line for the
same reason. `BytesOutCases` is the heart of it: the check in front of
`WriteString` makes bufio hand out nothing, the buffer, or the buffer and the
line, and never a part of a line. `FseekFindsLine` follows from
`LinesDisjoint`; `AppendOnly` looks at each step. The assumptions say that a
line is longer than its first two fields and that no result of a failed read is
a hash.

*HistoryStore.* Every step is a step of `HistoryDat` or leaves the file alone,
so `DatInv` comes for free, and `StoreImplementsDat` says so of whole behaviours:
what is proved of HistoryDat holds in the store (`StoreFileIsSound`), and with it
that a hash once in the file is never forgotten (`NothingIsForgotten`).
`IndexCoversFile` is not inductive: the offset
travels through the request, the database and the answer before the line is
written. `StoreInv` follows it: `RequestIsNext` (the writer's request is for the
object in hand and the writer's present offset, and if it was answered CaseAdded
that offset is filed) and `NextIsFiled` (when the writer is about to write, the
present offset is filed). Appending to the database never removes an offset
(`OffsetsGrow`), a restart never moves a line. For `NoFalseDupes` it is shown
that what is read at an offset belongs to a line whose hash field is wholly in
the file (`FseekIsReadable`, from `LinesDisjoint`), and that such a line stays
(`ReadableStays`). `FlushedIsFound` needs `SearchFinds`: as long as a search that
must succeed is scanning, the place of a line of its hash is among the offsets
left. It is proved for `"read" \notin Faults`, without which it is false
(section 7). `AckedIsWritten` is inductive as it stands.

`StoreImplementsOracle` is the refinement of `DupeOracle` by the same three
steps: initial states map to initial states, and with `StoreInv`, `SearchFinds`
and `ClientAsks` (a client has a request exactly while it searches, and never one
that inserts) each step is a step of the oracle or a stutter (`StepOfOracle`). A
search asks, a worker's last step answers, an answer is taken; everything that
only moves the file is learning (`KnownStays`), and a crash forgets the
questions and not the hashes, because a line that loses its end with the buffer
and can still be read keeps its hash (`ReopenKeepsKnown`). The theorem has
`"read" \notin Faults`, as above, and nothing else. That CaseRetry needs a reason is
an invariant of its own: as long as no process has died, every offset in the
database and in a search under way leads to a line or to the end of the stream
(`OffsetsLead`), also when inserts or writes fail, because the writer offers the
same place again or has stopped; and a reader that is led so never reads the rest
of a line (`LedWell`). After a crash this is false (section 7).

*SQLPool.* `PoolInv` adds that nobody uses the pool while it boots and that in a
pool booted with a connection nobody gets past `MustWait`. `CounterAhead` then
bounds the connections by the counter, which is what keeps `ReturnDB` from
blocking although goroutines decide on a counter they read earlier: each
compares it again (`MayOpen`) before it opens. What was taken out of the channel
and is not off the counter yet (`Gone`) only makes the counter larger.

*Sharding.* The two functions take quotient and remainder of the same prefix by
the number of tables of a database; both together give the prefix back.

*HashDBIndex.* `IndexInv` follows the requests and the nils. `OnePlace`: a
request is in IndexChan, in a dispatcher's hand, in a worker's channel or in a
worker's hand, in one of them and once; without it, taking one copy would say
nothing of where the request still is. `OnItsWay`: wherever it is, its requester
waits, and behind the dispatchers it is with the worker of its characters. From
these two a step that takes a request from its channel is a step "serve" of
IndexService, for the worker that takes it has nothing else in hand. `Nils`: a
nil is the last in a worker's channel, because it is sent when all dispatchers
are gone, and behind it that worker ends with an empty channel (`NilIsLast`).
For `NilFindsRoom` the nils in IndexChan and in hands are counted: `NilOnce`
says there is at most one, so what else is in the channel are requests, each once,
and there are no more of them than requesters.

*Lifecycle.* `LifeInv` consists of the types, `HeaderOf` (a HISTORY that boots
has found or is about to write a whole header), `OneWriter` (one writer runs, and
only its buffer has lines) and `OffsetIsSize`. That one writer runs is not
inductive on the locks alone: an answer of the index makes a writer go on, so a
request of a writer that has ended would bring it back. `OnePlace` and
`AskerWaits` exclude it: a writer's request is in one place, and as long as it
is anywhere its writer waits. A crash, or a panic on a closed channel, empties
channels and goroutines and leaves the file; `OffsetIsSize` holds again because
the next writer begins with the size it finds. For `CloseHasFlushed`, `LateKnown`
says what CLOSE_HISTORY knows between its looks: behind the first one, whoever runs
took the lock since then. With `OneWriter` every other buffer is empty.

*L1History.* `pqExpire` deletes whatever entry it finds for its item's hash, so
the question is when it may take one away. `DueFirst` answers it for all hashes:
no item of a hash expires before the time that was promised at its last `Set`,
which is that of the first item under way. For hashes that only holders of the
pass added, more is true: the queue has one item (`OneItem`), because a pass
needs an absent entry; while an item is on its way out the hash is in the cache
and nobody has a pass for it (`PendingKnown`); a pass leaves its lock in the
cache (`PassKnown`). `PassIsExclusive` follows.

*HistoryServer.* The protocol has no sequence numbers. `OneUp` says that only the
last connection is open; `Turns` that lines and replies alternate on it, so that
a reply under way is the one the client waits for; `Waiting` that an object is in
TCPchan, or awaited, once, and its caller waits; `Numbers` that a sending is in
TCPchan, on one connection, or read, and never in two of them. `RepliesMatch`
follows from `Turns`. For `HandedOnOnce` the sessions of dead connections have
to be counted: `Counted` bounds what was handed on and what sessions hold by the
sendings that were read, and each is read by one session. `LostCounted` bounds
the forgotten objects by the connections that the client has left.

*OffsetCaches.* Callers set what they read some time ago, and pqExpire deletes by
key whatever entry it finds; `CachesInv` says why neither does harm. `ReadIsTrue`:
what a caller is about to set is a list of the offsets that were filed first, or
the hash of a line that is in the file, and stays that while more is filed.
Two such lists, the shorter of which begins the longer, are what `AppendMissing`
is given: `AppendsInitial` shows, for lists of any length, that it appends what is
missing, last one first, and stops in time, so that the result has no hole and
loses nothing. For the time of an entry, the order of the queue matters.
`SetHasItem`: between the two halves of a Set its item has not expired before the
next tick, so what is written has an item (`NoOrphan`). `FreshOutlives`: the item
of a key that pqExpire will meet first has at least the time that the entry has
left, because all others of the key are behind it, be they set later or sent to
Extend; hence `KeepsItsTime`. `NoneAssumption` says that the marks for "nothing"
are no values.

All safety invariants and action properties that the runs check are proved. Only
model-checked is liveness under fairness, and everything with ENABLED, which is
out of the prover's reach. Nothing is proved by induction over data: the lists of
OffsetCaches are reasoned about by their ranges and lengths, the sequences of the
other modules by their elements.

## 7. Where the code differs from what is said of it

Each of these is a run that TLC finds violated.

* `NoDuplicateLines`: `insert` does not look for the hash
  (`nntp-history.go:784`), so a hash that is added twice has two lines; README and
  comments speak of avoiding duplicate entries. Two clients that search before
  they add can both be told CasePass.
* `ServerAnswers`: an object that came as a line has no `ResponseChan`, and
  `AddHistory` receives from it (`SOCKET.go:198`, `nntp-history.go:256`): a
  session hangs after the first new article it adds, and the client waits for
  ever for the reply to its next line.
* `NoSendOnClosed`: with `IndexParallel = 1` the dispatcher that takes the nil
  closes IndexChan (`:655`), and a later search panics; the writer's comments
  (`:311`, `:340`) say that it is not closed since clients may still send.

Known weaknesses that the modules contain but no run is spent on:

* there is no periodic flush (`:292`, against the comment at `:270`): the last
  lines stay in the buffer, and invisible to searches, until others push them
  out;
* in L1 mode a search locks with CaseDupes (`:613`), so the next search of an
  article that nobody has added yet is told it is a duplicate, where the
  comment at `:25` has CaseRetry;
* over a unix socket, the default, the server sends no greeting
  (`SOCKET.go:92`) and the client waits for one (`CLIENT.go:83`): they read from
  each other for ever (the last case of `AnsweredUnlessStuck`);
* an object whose line cannot be written is forgotten and its caller waits for
  ever (`CLIENT.go:109`): `LostPerConnection` says how many;
* what a session adds before `BootHistory` made the WriterChan is acknowledged
  and dropped (`AddTooEarly`);
* a second `BootHistoryClient` returns with the mutex locked (`CLIENT.go:35`);
* an offset that was filed before a crash, and whose line was lost with the
  buffer, may later stand inside another line; a search for its hash is then
  told CaseRetry (`nntp-history.go:765`), again and again until the hash is added;
* an offset whose line is still in the buffer reads as EOF, EOF is compared like a
  hash (`nntp-history.go:505`, `:776`), and the search is told CasePass, where the
  comment on the constant (`:28`) says CaseRetry: `FlushedIsFound` speaks of lines
  that are in the file;
* what was acknowledged and is still in the buffer is lost with a crash or a
  failed write: `AckedIsWritten` promises no more than that nothing else loses it;
* an incomplete object ends the writer without an answer (`:315`, `:319`), and
  after a failed write (`:382`) WriterChan still takes objects: `AddHistory` waits
  for ever (`WriterLeaves` in `CallsReturn`);
* the nil of a shutdown is put back into a bounded channel (`:657`) that clients
  fill meanwhile: the last dispatcher may wait for ever (`LastBlocked`), and
  `CLOSE_HISTORY` with it (`Blocked` in `CanClose`); behind the last one a nil stays
  there, which stops the index of a later `hashDB_Init`;
* a hash of fewer than 64 characters passes `AddHistory` and stops the index
  (`:652`);
* `his.Offset`, the locks and `History`: the writer of a second HISTORY finds the
  lock taken and ends, and its clients wait for ever (`Refused`); the writer asks
  the package variable for its answer channel and for the nil
  (`:296`, `:329`); `CallsReturn` and `CloseEnds` say when the calls return;
* `InitializeDatabase` before `BootHistory`, or twice, leaves an index without
  dispatchers, or with channels that have no worker;
* with `UseHashDB` and no IndexChan the writer ends at the first object, and
  `CLOSE_HISTORY` waits for ever for an index nobody stops;
* `CLOSE_HISTORY` does not look at LOCKHISTORY again once it was free (`:835`): a
  writer that takes the lock behind this look may acknowledge an object and hold
  its line in the buffer when `CLOSE_HISTORY` returns. `ClosedIsFlushed` says that
  no other writer can (`late`);
* two boots that both find no file both write a header (`extra`); a boot that died
  between `os.O_CREATE` and the header leaves a file that every later boot refuses;
* a closed SQLite pool panics who still uses it (`SQLite.go:288`); the workers use
  `MySQLPool` only (`:731`); `GetDBAndTable` may return a nil connection;
* `BootL3Cache` dereferences nil when ROOTDBS are set to three characters; a nil
  sent to `Extend` ends `pqExtend` and loses its batch (`ItemsDelete` has it as
  the exception); L3 keeps the slice of the caller that set the entry first;
* a read error at one of several offsets is skipped and the search may end in
  CasePass for a line on disk (`:746`): `FlushedIsFound` fails with the "read"
  fault;
* the boot loops of both pools count each connection twice and open one
  (`MYSQL.go:137`, `SQLite.go:67`): `CounterAhead` says by how much, and
  `ClosePoolReturns` what follows; `SQLITE3_README.md:63` calls `initOpen` initial
  connections;
* an L1 lock that is not followed by an add never expires (`L1CACHE.go:136`);
* an article that is added to L1 again keeps the item of its first add, which
  deletes the new entry, or the lock of somebody who searched meanwhile, before
  its time (`L1CACHE.go:376`): `KnownUntilExpiry` promises the time of the first
  item, `OneHolder` speaks of hashes that only holders of the pass added;
* an entry whose `Set` was overtaken by its own item's expiry never expires
  (`late` in `AddedExpires`, and in `NoOrphan` for L2 and L3);
* a user of the pool may wait for ever when a connection was lost (`lost` in
  `EveryoneServed`): the counter of a booted pool does not fall to zero.

## 8. Not modelled

* gob encoding of the header, padding and CRC (`HASHENC.go`): no state; a header
  is a length, and whole or not. Settings of an old header that differ from the
  present ones end the program with `os.Exit`, before anything is touched.
* statistics, profiling, `WatchDB`: counters that no decision reads.
* `FseekHistoryLine`: a read-only tool beside `FseekHistoryMessageHash`.
* creation of tables, cache sizes and directories of the sharded databases; the
  SQL database itself is external, a map from keys to lists of offsets whose
  statements may fail.
* `CloseDB`, `SetMaxOpen` and the `pqExtend` of L1 have no caller.
* of the server's commands CPU, STOP and QUIT, which no client sends.
* the example programs and the tests: they call the package.
* a loss of power: the code never syncs the file, so nothing could be promised.
  What is modelled is the death of the process, with the file as it was.
