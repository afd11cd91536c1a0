--------------------------- MODULE LifecycleProofs ---------------------------
(***************************************************************************)
(* history.dat and his.Offset through boots, failures and closes, for      *)
(* every number of HISTORY values, clients, calls of hashDB_Init and       *)
(* deaths of the process.                                                  *)
(*                                                                         *)
(* That only one history_Writer runs rests on where the requests to the    *)
(* index are: an answer makes the writer go on, so LifeInv has to know     *)
(* that a request is in one place (OnePlace), and that its writer waits    *)
(* for it (AskerWaits), and that a writer which ended never comes back.    *)
(* LateKnown follows the looks of CLOSE_HISTORY at the locks.              *)
(***************************************************************************)
EXTENDS Lifecycle, SequenceTheorems, TLAPS

USE LifecycleAssumption

\* A request of the writer of r is at place n of IndexChan (g = 0), in the hand of
\* dispatcher g (n = 0) or at place n of the channel of worker g.
At(h, g, n, r) ==
  \/ g = 0 /\ n \in DOMAIN IndexChan[h] /\ IndexChan[h][n] = r
  \/ g \in Gen /\ n = 0 /\ hand[h][g][1] = r
  \/ g \in Gen /\ n \in DOMAIN chans[h][g] /\ chans[h][g][n] = r

OnePlace ==
  \A r, h, k \in His, f, g \in 0..MaxInit, m, n \in Nat :
    At(h, f, m, r) /\ At(k, g, n, r) => h = k /\ f = g /\ m = n

AskerWaits ==
  \A r, h \in His, g \in 0..MaxInit, n \in Nat : At(h, g, n, r) => writer[r] = "wait"

\* Who is booted found or wrote a whole header, and only who is booted has a writer.
HeaderOf ==
  /\ \A h \in His : /\ boot[h] = "done" => head = "whole"
                    /\ boot[h] = "header" => head \in {"empty", "whole"}
                    /\ boot[h] = "create" => head \in {"none", "empty", "whole"}
                    /\ writer[h] # "none" => boot[h] = "done"
  /\ lines > 0 => head = "whole"

\* One writer runs, and only its buffer has lines.
OneWriter ==
  /\ \A h, k \in His : Running(h) /\ Running(k) => h = k
  /\ \A h \in His : ~Running(h) => buffer[h] = 0

\* Past LOCKHISTORY, CLOSE_HISTORY has seen who runs now come.
LateKnown ==
  \A h \in His : closer[h] \in {"lock2", "lock3"} =>
    \A k \in His : Running(k) => k \in late[h]

LifeInv == TypeOK /\ OnePlace /\ AskerWaits /\ HeaderOf /\ OneWriter /\ OffsetIsSize
           /\ LateKnown

LEMMA TailOf ==
  ASSUME NEW S, NEW s \in Seq(S), s # <<>>
  PROVE  /\ Tail(s) \in Seq(S) /\ Head(s) \in S /\ Len(Tail(s)) = Len(s) - 1
         /\ 1 \in DOMAIN s /\ Head(s) = s[1] /\ Len(s) \in Nat
         /\ \A n \in Nat : n \in DOMAIN Tail(s) => /\ n >= 1 /\ n + 1 \in DOMAIN s
                                                   /\ Tail(s)[n] = s[n + 1]
OBVIOUS

LEMMA AppendOf ==
  ASSUME NEW S, NEW s \in Seq(S), NEW x \in S
  PROVE  /\ Append(s, x) \in Seq(S) /\ Len(Append(s, x)) = Len(s) + 1 /\ Len(s) \in Nat
         /\ \A n \in Nat : n \in DOMAIN Append(s, x) =>
              \/ n \in DOMAIN s /\ n <= Len(s) /\ Append(s, x)[n] = s[n]
              \/ n = Len(s) + 1 /\ Append(s, x)[n] = x
OBVIOUS
-----------------------------------------------------------------------------
(* Types.                                                                   *)
LEMMA RestartTyped ==
  ASSUME TypeOK, Dies, head' \in {"none", "empty", "part", "whole"}, extra' \in Nat,
         deaths' \in 0..limit.deaths
  PROVE  TypeOK'
<1> USE DEF Dies, All, Each, settings
<1>1. BoundsTyped' BY DEF TypeOK, BoundsTyped
<1>2. FileTyped' BY DEF TypeOK, FileTyped
<1>3. IndexTyped' BY DEF TypeOK, IndexTyped, Item, Gen, BoundsTyped
<1>4. ChannelsTyped' BY DEF ChannelsTyped
<1>5. WriterTyped' BY DEF TypeOK, WriterTyped
<1> QED BY <1>1, <1>2, <1>3, <1>4, <1>5 DEF TypeOK

LEMMA WriterSame ==
  ASSUME WriterTyped,
         UNCHANGED <<WriterChan, writer, obj, offset, buffer, closer, late, pc, on>>
  PROVE  WriterTyped'
BY DEF WriterTyped

LEMMA IndexStepTyped ==
  ASSUME TypeOK, NEW h \in His, NEW g \in Gen, IndexStep(h, g)
  PROVE  TypeOK'
<1> USE DEF TypeOK, IndexOnly, IndexKeeps, settings, bounds, file, closeVars
<1>1. BoundsTyped' /\ FileTyped'
  BY DEF IndexStep, IndexStarts, IndexTakes, IndexTakesNil, IndexResends,
         IndexCloses, IndexHasNobody, IndexSends, Takes, WorkerStarts,
         WorkerTakes, Holds, BoundsTyped, FileTyped
<1>a. gen[h] \in 0..MaxInit /\ hand[h][g] \in Item \X (0..MaxInit) BY DEF IndexTyped
<1>b. idx[h][g] # "none" => gen[h] > 0 BY DEF IndexTyped
<1>c. idx[h][g] = "send" => hand[h][g][2] > 0 BY DEF IndexTyped
<1>2. CASE IndexStarts(h, g)
  <2>1. IndexTyped' BY <1>2, <1>b DEF IndexStarts, IndexTyped
  <2>2. ChannelsTyped' BY <1>2 DEF IndexStarts, ChannelsTyped
  <2>3. WriterTyped' BY <1>2, WriterSame DEF IndexStarts
  <2> QED BY <1>1, <2>1, <2>2, <2>3
<1>3. ASSUME NEW x \in Item, Holds(h, g, x), idx[h][g] # "none", closed' \in [His -> BOOLEAN]
      PROVE  IndexTyped'
  <2> DEFINE new == <<x, gen[h]>>
  <2>1. new \in Item \X (0..MaxInit) /\ new[2] > 0 BY <1>3, <1>a, <1>b
  <2>2. /\ hand' = [hand EXCEPT ![h][g] = new] /\ idx' = [idx EXCEPT ![h][g] = "send"]
        /\ UNCHANGED <<gen, inits, worker>>
    BY <1>3 DEF Holds
  <2>3. gen[h] > 0 BY <1>3, <1>b
  <2> HIDE DEF new
  <2> QED BY <1>3, <2>1, <2>2, <2>3 DEF IndexTyped
<1>d. ASSUME Takes(h, g), UNCHANGED chans
      PROVE  ChannelsTyped' /\ Head(IndexChan[h]) \in Item
  <2>1. IndexChan[h] \in Seq(Item) /\ IndexChan[h] # <<>> /\ Len(IndexChan[h]) <= IndexCap
    BY <1>d DEF Takes, ChannelsTyped
  <2>2. /\ Head(IndexChan[h]) \in Item /\ Tail(IndexChan[h]) \in Seq(Item)
        /\ Len(Tail(IndexChan[h])) <= IndexCap
    BY <2>1
  <2> QED BY <1>d, <2>2 DEF Takes, ChannelsTyped
<1>e. closed \in [His -> BOOLEAN] BY DEF IndexTyped
<1>f. CASE IndexTakes(h, g) \/ IndexCloses(h, g)
  <2> DEFINE x == Head(IndexChan[h])
  <2>1. Takes(h, g) /\ UNCHANGED chans /\ idx[h][g] # "none"
    BY <1>f DEF IndexTakes, IndexCloses, Takes, Holds
  <2>2. ChannelsTyped' /\ x \in Item BY <1>d, <2>1
  <2>3. Holds(h, g, x) BY <1>f DEF IndexTakes, IndexCloses
  <2>4. closed' \in [His -> BOOLEAN] BY <1>e, <1>f DEF IndexTakes, IndexCloses
  <2> HIDE DEF x
  <2>5. IndexTyped' BY <1>3, <2>1, <2>2, <2>3, <2>4
  <2>6. WriterTyped' BY <2>3, WriterSame DEF Holds
  <2> QED BY <1>1, <2>2, <2>5, <2>6
<1>g. CASE IndexTakesNil(h, g)
  <2>1. Takes(h, g) /\ UNCHANGED chans /\ idx[h][g] # "none"
    BY <1>g DEF IndexTakesNil, Takes
  <2>2. ChannelsTyped' BY <1>d, <2>1
  <2>3. IndexTyped' BY <1>g, <1>b, <2>1 DEF IndexTakesNil, IndexTyped
  <2>4. WriterTyped' BY <1>g, WriterSame DEF IndexTakesNil
  <2> QED BY <1>1, <2>2, <2>3, <2>4
<1>i. CASE IndexResends(h, g)
  <2>1. Holds(h, g, Nil) /\ Nil \in Item /\ idx[h][g] # "none" /\ UNCHANGED <<closed, chans>>
    BY <1>i DEF IndexResends, Holds, Item
  <2>2. IndexChan[h] \in Seq(Item) /\ Len(IndexChan[h]) < IndexCap
    BY <1>i DEF IndexResends, Queued, ChannelsTyped
  <2>3. Append(IndexChan[h], Nil) \in Seq(Item) /\ Len(Append(IndexChan[h], Nil)) <= IndexCap
    BY <2>1, <2>2
  <2>4. ChannelsTyped' BY <1>i, <2>1, <2>3 DEF IndexResends, Queued, ChannelsTyped
  <2>5. IndexTyped' BY <1>3, <1>e, <2>1
  <2>6. WriterTyped' BY <2>1, WriterSame DEF Holds
  <2> QED BY <1>1, <2>4, <2>5, <2>6
<1>4. CASE IndexHasNobody(h, g)
  <2>1. Holds(h, g, Nil) /\ Nil \in Item /\ idx[h][g] # "none"
        /\ UNCHANGED <<closed, chans, IndexChan>>
    BY <1>4 DEF IndexHasNobody, Holds, Item
  <2>2. IndexTyped' BY <1>3, <1>e, <2>1
  <2>3. ChannelsTyped' BY <2>1 DEF ChannelsTyped
  <2>4. WriterTyped' BY <2>1, WriterSame DEF Holds
  <2> QED BY <1>1, <2>2, <2>3, <2>4
<1>5. CASE IndexSends(h, g)
  <2> DEFINE x == hand[h][g][1]
             to == hand[h][g][2]
  <2>1. x \in Item /\ to \in 0..MaxInit BY <1>a
  <2>2. to > 0 BY <1>5, <1>c DEF IndexSends
  <2>3. to \in Gen BY <2>1, <2>2 DEF Gen
  <2>4. chans[h][to] \in Seq(Item) /\ Len(chans[h][to]) < WorkerCap
    BY <1>5, <2>3 DEF IndexSends, ChannelsTyped
  <2>5. /\ Append(chans[h][to], x) \in Seq(Item)
        /\ Len(Append(chans[h][to], x)) <= WorkerCap
    BY <2>1, <2>4
  <2>6. /\ chans' = [chans EXCEPT ![h][to] = Append(@, x)]
        /\ idx[h][g] = "send" /\ idx' = [idx EXCEPT ![h][g] = IF x = Nil THEN "gone" ELSE "run"]
        /\ hand' = [hand EXCEPT ![h][g] = <<Nil, 0>>]
        /\ UNCHANGED <<gen, inits, worker, closed, IndexChan>>
    BY <1>5 DEF IndexSends
  <2> HIDE DEF x, to
  <2>7. IndexTyped' BY <2>6, <1>b DEF IndexTyped, Item
  <2>8. ChannelsTyped' BY <2>3, <2>5, <2>6 DEF ChannelsTyped
  <2>9. WriterTyped' BY <1>5, WriterSame DEF IndexSends
  <2> QED BY <1>1, <2>7, <2>8, <2>9
<1>6. CASE WorkerStarts(h, g)
  <2>1. IndexTyped' BY <1>6 DEF WorkerStarts, IndexTyped
  <2>2. ChannelsTyped' BY <1>6 DEF WorkerStarts, ChannelsTyped
  <2>3. WriterTyped' BY <1>6, WriterSame DEF WorkerStarts
  <2> QED BY <1>1, <2>1, <2>2, <2>3
<1>7. CASE WorkerTakes(h, g)
  <2>1. /\ chans[h][g] \in Seq(Item) /\ Len(chans[h][g]) <= WorkerCap
        /\ chans[h][g] # <<>>
    BY <1>7 DEF WorkerTakes, ChannelsTyped
  <2>2. /\ Head(chans[h][g]) \in Item /\ Tail(chans[h][g]) \in Seq(Item)
        /\ Len(Tail(chans[h][g])) <= WorkerCap
    BY <2>1
  <2>3. IndexTyped' BY <1>7 DEF WorkerTakes, IndexTyped
  <2>4. ChannelsTyped' BY <1>7, <2>2 DEF WorkerTakes, ChannelsTyped
  <2>5. WriterTyped' BY <1>7, <2>2 DEF WorkerTakes, WriterTyped, Answers
  <2> QED BY <1>1, <2>3, <2>4, <2>5
<1> QED BY <1>2, <1>f, <1>g, <1>i, <1>4, <1>5, <1>6, <1>7 DEF IndexStep

LEMMA BootTyped ==
  ASSUME TypeOK, NEW h \in His, BootStep(h)
  PROVE  TypeOK'
<1> USE DEF TypeOK
<1>1. CASE HeaderFails(h) \/ HeaderRefused(h)
  <2>1. /\ head' \in {"none", "empty", "part", "whole"} /\ extra' \in Nat
        /\ Dies /\ deaths' \in 0..limit.deaths
    BY <1>1 DEF HeaderFails, HeaderRefused, FileTyped, BoundsTyped, Restarted
  <2> QED BY <2>1, RestartTyped
<1>2. CASE BootHistory(h) \/ CreatesFile(h)
  <2> USE <1>2 DEF BootHistory, CreatesFile, Goes, BootOnly, settings, bounds, indexVars,
                   writerVars, closeVars, clientVars
  <2>1. BoundsTyped' BY DEF BoundsTyped
  <2>2. FileTyped' BY DEF FileTyped
  <2>3. IndexTyped' BY DEF IndexTyped
  <2>4. ChannelsTyped' BY DEF ChannelsTyped
  <2>5. WriterTyped' BY WriterSame
  <2> QED BY <2>1, <2>2, <2>3, <2>4, <2>5
<1>3. ASSUME NEW b \in BOOLEAN, hashDB_Init(h, b), UNCHANGED <<settings, calls, deaths>>
      PROVE  IndexTyped' /\ inits' \in 0..limit'.inits
  <2>1. /\ inits \in 0..limit.inits /\ limit.inits \in 0..MaxInit
        /\ gen[h] \in 0..MaxInit /\ gen[h] <= inits
    BY DEF BoundsTyped, IndexTyped
  <2>2. gen[h] + 1 \in Gen /\ inits < limit.inits /\ inits' = inits + 1
    BY <1>3, <2>1 DEF hashDB_Init, Gen
  <2> DEFINE g == gen[h] + 1
  <2>3. /\ gen' = [gen EXCEPT ![h] = g] /\ idx' = [idx EXCEPT ![h][g] = "start"]
        /\ worker' = [worker EXCEPT ![h][g] = IF b THEN "start" ELSE "none"]
        /\ UNCHANGED <<hand, limit, closed>>
    BY <1>3 DEF hashDB_Init, settings
  <2>4. g \in Gen /\ g \in 0..MaxInit /\ g > 0 /\ g <= inits' /\ inits' \in Int /\ inits \in Int
    BY <2>1, <2>2 DEF Gen
  <2> HIDE DEF g
  <2>5. IndexTyped' BY <2>2, <2>3, <2>4 DEF IndexTyped
  <2> QED BY <2>1, <2>2, <2>3, <2>5
<1>4. CASE InitializeDatabase(h)
  <2> USE DEF InitializeDatabase, file, writerVars, closeVars, clientVars
  <2>1. IndexTyped' /\ inits' \in 0..limit'.inits BY <1>3, <1>4
  <2>2. BoundsTyped' BY <1>4, <2>1 DEF BoundsTyped, settings
  <2>3. FileTyped' BY <1>4 DEF FileTyped
  <2>4. ChannelsTyped' BY <1>4 DEF ChannelsTyped, hashDB_Init
  <2>5. WriterTyped' BY <1>4, WriterSame
  <2> QED BY <2>1, <2>2, <2>3, <2>4, <2>5
<1>5. CASE WritesHeader(h) \/ ReadsHeader(h)
  <2>1. \E from \in {"header", "read"} : BootEnds(h, from)
    BY <1>5 DEF WritesHeader, ReadsHeader
  <2>2. /\ boot' = [boot EXCEPT ![h] = "done"] /\ writer' = [writer EXCEPT ![h] = "start"]
        /\ UNCHANGED <<settings, lines, calls, deaths, WriterChan, IndexChan, obj, offset,
                       buffer, closeVars, clientVars>>
        /\ IF UseHashDB THEN hashDB_Init(h, TRUE) ELSE UNCHANGED <<inits, indexVars>>
    BY <2>1 DEF BootEnds, Goes
  <2>3. IndexTyped' /\ inits' \in 0..limit'.inits
    <3>1. CASE UseHashDB BY <1>3, <2>2, <3>1
    <3>2. CASE ~UseHashDB BY <2>2, <3>2 DEF IndexTyped, BoundsTyped, indexVars, settings
    <3> QED BY <3>1, <3>2
  <2>4. BoundsTyped' BY <2>2, <2>3 DEF BoundsTyped, settings
  <2>5. FileTyped' BY <1>5, <2>2 DEF WritesHeader, ReadsHeader, FileTyped
  <2>6. UNCHANGED <<chans, IndexChan>> BY <2>2 DEF hashDB_Init, indexVars
  <2>7. ChannelsTyped' BY <2>6 DEF ChannelsTyped
  <2>8. WriterTyped' BY <2>2 DEF WriterTyped, closeVars, clientVars
  <2> QED BY <2>3, <2>4, <2>5, <2>7, <2>8
<1> QED BY <1>1, <1>2, <1>4, <1>5 DEF BootStep

\* history_Writer, CLOSE_HISTORY and clients.
LEMMA WriterStepTyped ==
  ASSUME TypeOK, NEW h \in His, WriterStep(h) \/ WriterTakesBad(h) \/ WriteFails(h)
  PROVE  TypeOK'
<1> USE DEF TypeOK, WriterOnly, WriterKeeps, settings, bounds, indexVars
<1>1. BoundsTyped' /\ IndexTyped'
  <2>1. UNCHANGED <<settings, bounds, indexVars>>
    BY DEF WriterStep, WriterStarts, WriterTakesNil, WriterTakes, WriterAsks, WriterAnswers,
           WriterWrites, WriterFlushes, WriterTakesBad, WriteFails, Receives
  <2>2. BoundsTyped' BY <2>1 DEF BoundsTyped
  <2>3. IndexTyped' BY <2>1 DEF IndexTyped
  <2> QED BY <2>2, <2>3
<1>2. buffer[h] \in Nat /\ lines \in Nat /\ extra \in Nat /\ offset[h] \in Nat /\ size \in Nat
  BY DEF WriterTyped, FileTyped, size
<1>3. FileTyped'
  BY <1>2 DEF WriterStep, WriterStarts, WriterTakesNil, WriterTakes, WriterAsks, WriterAnswers,
         WriterWrites, WriterFlushes, WriterTakesBad, WriteFails, Receives, Flushed, FileTyped
<1>4. CASE WriterAsks(h)
  <2>1. \A k \in His, x \in Item : Queued(k, x) => ChannelsTyped'
    <3> SUFFICES ASSUME NEW k \in His, NEW x \in Item, Queued(k, x) PROVE ChannelsTyped'
      OBVIOUS
    <3>1. IndexChan[k] \in Seq(Item) /\ Len(IndexChan[k]) < IndexCap
      BY DEF Queued, ChannelsTyped
    <3>2. Append(IndexChan[k], x) \in Seq(Item) /\ Len(Append(IndexChan[k], x)) <= IndexCap
      BY <3>1
    <3>3. chans' = chans BY <1>4 DEF WriterAsks
    <3> QED BY <3>2, <3>3 DEF Queued, ChannelsTyped
  <2>2. ChannelsTyped' BY <1>4, <2>1 DEF WriterAsks, Item
  <2>3. WriterTyped' BY <1>4 DEF WriterAsks, WriterTyped
  <2> QED BY <1>1, <1>3, <2>2, <2>3
<1>5. CASE WriterTakesNil(h) \/ WriterTakes(h) \/ WriterTakesBad(h)
  <2>1. Receives(h) BY <1>5 DEF WriterTakesNil, WriterTakes, WriterTakesBad
  <2>2. /\ WriterChan[h] \in Seq(Client \cup {Nil}) /\ WriterChan[h] # <<>>
        /\ Len(WriterChan[h]) <= WriterCap
    BY <2>1 DEF Receives, WriterTyped
  <2>3. /\ Tail(WriterChan[h]) \in Seq(Client \cup {Nil})
        /\ Head(WriterChan[h]) \in Client \cup {Nil}
        /\ Len(Tail(WriterChan[h])) <= WriterCap
    BY <2>2
  <2>4. ChannelsTyped' BY <2>1 DEF Receives, ChannelsTyped
  <2>5. /\ WriterChan' = [WriterChan EXCEPT ![h] = Tail(@)]
        /\ UNCHANGED <<offset, buffer, closer, late, on>>
    BY <2>1 DEF Receives
  <2>6. CASE WriterTakesNil(h) \/ WriterTakesBad(h)
    <3>1. \E x \in {"nil", "flush", "abort"} : writer' = [writer EXCEPT ![h] = x]
      BY <2>6 DEF WriterTakesNil, WriterTakesBad, AfterNil
    <3>2. UNCHANGED <<obj, pc>> BY <2>6 DEF WriterTakesNil, WriterTakesBad
    <3> QED BY <1>1, <1>3, <2>3, <2>4, <2>5, <3>1, <3>2 DEF WriterTyped
  <2>7. CASE WriterTakes(h)
    <3> DEFINE c == Head(WriterChan[h])
    <3>1. c \in Client BY <2>3, <2>7 DEF WriterTakes
    <3>2. \E x \in {"abort", "ask", "added"} : writer' = [writer EXCEPT ![h] = x]
      BY <2>7 DEF WriterTakes
    <3>3. obj' = obj \/ obj' = [obj EXCEPT ![h] = c] BY <2>7 DEF WriterTakes
    <3>4. pc' = pc \/ pc' = [pc EXCEPT ![c] = "idle"] BY <2>7 DEF WriterTakes
    <3> HIDE DEF c
    <3>5. obj' \in [His -> Client \cup {Nil}] BY <3>1, <3>3 DEF WriterTyped
    <3>6. pc' \in [Client -> {"idle", "add", "search", "wait"}]
      BY <3>1, <3>4 DEF WriterTyped
    <3>7. writer' \in [His -> {"none", "start", "recv", "ask", "wait", "added", "retry",
                               "write", "reflush", "nil", "flush", "abort", "gone", "failed"}]
      BY <3>2 DEF WriterTyped
    <3> QED BY <1>1, <1>3, <2>3, <2>4, <2>5, <3>5, <3>6, <3>7 DEF WriterTyped
  <2> QED BY <1>5, <2>6, <2>7
<1>6. CASE WriterStarts(h) \/ WriterAnswers(h) \/ WriterWrites(h) \/ WriterFlushes(h)
           \/ WriteFails(h)
  <2> USE DEF WriterStarts, WriterAnswers, WriterWrites, WriterFlushes, WriteFails, Flushed
  <2>1. ChannelsTyped' BY <1>6 DEF ChannelsTyped
  <2>2. UNCHANGED <<WriterChan, closer, on>> /\ late' \in [His -> SUBSET His]
    <3>1. CASE WriterStarts(h)
      <4>1. \A k \in His : late[k] \cup {h} \in SUBSET His /\ late[k] \in SUBSET His
        BY DEF WriterTyped
      <4> QED BY <3>1, <4>1
    <3>2. CASE ~WriterStarts(h) BY <1>6, <3>2 DEF WriterTyped
    <3>3. UNCHANGED <<WriterChan, closer, on>> BY <1>6
    <3> QED BY <3>1, <3>2, <3>3
  <2>3. writer' \in [His -> {"none", "start", "recv", "ask", "wait", "added", "retry",
                             "write", "reflush", "nil", "flush", "abort", "gone", "failed"}]
    <3>1. \E x \in {"gone", "recv", "write", "reflush", "failed"} : writer' = [writer EXCEPT ![h] = x]
      <4>1. CASE WriterStarts(h) BY <4>1
      <4>2. CASE WriterAnswers(h) BY <4>2
      <4>3. CASE WriterWrites(h) BY <4>3
      <4>4. CASE WriterFlushes(h) \/ WriteFails(h) BY <4>4
      <4> QED BY <1>6, <4>1, <4>2, <4>3, <4>4
    <3> QED BY <3>1 DEF WriterTyped
  <2>4. offset' \in [His -> Nat]
    <3>1. CASE WriterStarts(h) BY <1>2, <3>1 DEF WriterTyped
    <3>2. CASE WriterWrites(h) BY <1>2, <3>2 DEF WriterTyped
    <3>3. CASE WriterAnswers(h) \/ WriterFlushes(h) \/ WriteFails(h) BY <3>3 DEF WriterTyped
    <3> QED BY <1>6, <3>1, <3>2, <3>3
  <2>5. buffer' \in [His -> Nat]
    <3>1. CASE WriterStarts(h) BY <3>1 DEF WriterTyped
    <3>2. CASE WriterAnswers(h) BY <3>2 DEF WriterTyped
    <3>3. CASE WriterWrites(h)
      <4>1. \E x \in Nat : buffer' = [buffer EXCEPT ![h] = x] BY <1>2, <3>3
      <4> QED BY <4>1 DEF WriterTyped
    <3>4. CASE WriterFlushes(h) \/ WriteFails(h)
      <4>1. buffer' = [buffer EXCEPT ![h] = 0] BY <3>4
      <4> QED BY <4>1 DEF WriterTyped
    <3> QED BY <1>6, <3>1, <3>2, <3>3, <3>4
  <2>6. obj' \in [His -> Client \cup {Nil}] BY <1>6 DEF WriterTyped
  <2>7. pc' \in [Client -> {"idle", "add", "search", "wait"}] BY <1>6 DEF WriterTyped
  <2>8. WriterTyped' BY <2>2, <2>3, <2>4, <2>5, <2>6, <2>7 DEF WriterTyped
  <2> QED BY <1>1, <1>3, <2>1, <2>8
<1> QED BY <1>4, <1>5, <1>6 DEF WriterStep

CallerStep(h, c) ==
  \/ CloseHistory(h) \/ CloseSends(h) \/ CloseLooks(h)
  \/ c \in Client /\ (Calls(c, h) \/ CallSends(c))

LEMMA ClientStepTyped ==
  ASSUME TypeOK, NEW h \in His, NEW c, CallerStep(h, c)
  PROVE  TypeOK'
<1> USE DEF TypeOK, CloseOnly, CloseKeeps, ClientOnly, closeVars, settings, bounds, file, indexVars, writerVars,
            clientVars
<1>1. BoundsTyped' /\ FileTyped' /\ IndexTyped'
  <2>1. /\ UNCHANGED <<settings, file, inits, deaths, boot, indexVars>>
        /\ calls' = calls \/ (calls < limit.calls /\ calls' = calls + 1)
    BY DEF CallerStep, CloseHistory, CloseSends, CloseLooks, Calls, CallSends
  <2>2. BoundsTyped' BY <2>1 DEF BoundsTyped
  <2>3. FileTyped' /\ IndexTyped' BY <2>1 DEF FileTyped, IndexTyped
  <2> QED BY <2>2, <2>3
<1>2. CASE CloseHistory(h) \/ CloseLooks(h)
  <2>1. ChannelsTyped' BY <1>2 DEF CloseHistory, CloseLooks, ChannelsTyped
  <2>2. \E x \in {"send", "lock1", "lock2", "lock3", "returned"} : closer' = [closer EXCEPT ![h] = x]
    BY <1>2 DEF CloseHistory, CloseLooks, LooksAt
  <2>3. \E x \in {late[h], {}} : late' = [late EXCEPT ![h] = x]
    BY <1>2 DEF CloseHistory, CloseLooks, WriterTyped
  <2>4. UNCHANGED <<WriterChan, writer, obj, offset, buffer, pc, on>>
    BY <1>2 DEF CloseHistory, CloseLooks
  <2>5. closer' \in [His -> {"no", "send", "lock1", "lock2", "lock3", "returned"}]
    BY <2>2 DEF WriterTyped
  <2>6. late' \in [His -> SUBSET His] BY <2>3 DEF WriterTyped
  <2>7. WriterTyped' BY <2>4, <2>5, <2>6 DEF WriterTyped
  <2> QED BY <1>1, <2>1, <2>7
<1>a. CASE c \in Client /\ Calls(c, h)
  <2> USE DEF Calls
  <2>1. ChannelsTyped' BY <1>a DEF ChannelsTyped
  <2>2. pc' \in [Client -> {"idle", "add", "search", "wait"}] /\ on' \in [Client -> His]
    BY <1>a DEF WriterTyped
  <2>3. WriterTyped' BY <1>a, <2>2 DEF WriterTyped
  <2> QED BY <1>1, <2>1, <2>3
<1>3. ASSUME NEW k \in His, NEW x \in Client \cup {Nil}, PutWriter(k, x)
      PROVE  /\ WriterChan' \in [His -> Seq(Client \cup {Nil})]
             /\ \A j \in His : Len(WriterChan'[j]) <= WriterCap
  <2>1. WriterChan[k] \in Seq(Client \cup {Nil}) /\ Len(WriterChan[k]) < WriterCap
    BY <1>3 DEF PutWriter, WriterTyped
  <2>2. /\ Append(WriterChan[k], x) \in Seq(Client \cup {Nil})
        /\ Len(Append(WriterChan[k], x)) <= WriterCap
    BY <2>1
  <2> QED BY <1>3, <2>2 DEF PutWriter, WriterTyped
<1>4. CASE CloseSends(h)
  <2>1. ChannelsTyped' BY <1>4 DEF CloseSends, ChannelsTyped
  <2>2. PutWriter(h, Nil) BY <1>4 DEF CloseSends
  <2>3. WriterTyped' BY <1>3, <1>4, <2>2 DEF CloseSends, WriterTyped
  <2> QED BY <1>1, <2>1, <2>3
<1>5. CASE c \in Client /\ CallSends(c)
  <2>0. on[c] \in His BY <1>5 DEF WriterTyped
  <2>1. CASE PutWriter(on[c], c) /\ UNCHANGED IndexChan
    <3>1. ChannelsTyped' BY <1>5, <2>1 DEF CallSends, ChannelsTyped
    <3>2. /\ WriterChan' \in [His -> Seq(Client \cup {Nil})]
          /\ \A j \in His : Len(WriterChan'[j]) <= WriterCap
      BY <1>5, <1>3, <2>0, <2>1
    <3>3. WriterTyped' BY <1>5, <3>2 DEF CallSends, WriterTyped
    <3> QED BY <1>1, <3>1, <3>3
  <2>2. CASE Queued(on[c], c) /\ UNCHANGED WriterChan
    <3>1. IndexChan[on[c]] \in Seq(Item) /\ Len(IndexChan[on[c]]) < IndexCap
      BY <2>0, <2>2 DEF Queued, ChannelsTyped
    <3>2. /\ Append(IndexChan[on[c]], c) \in Seq(Item)
          /\ Len(Append(IndexChan[on[c]], c)) <= IndexCap
      BY <1>5, <3>1 DEF Item
    <3>3. ChannelsTyped' BY <1>5, <2>2, <3>2 DEF CallSends, Queued, ChannelsTyped
    <3>4. WriterTyped' BY <1>5, <2>2 DEF CallSends, WriterTyped
    <3> QED BY <1>1, <3>3, <3>4
  <2> QED BY <1>5, <2>1, <2>2 DEF CallSends
<1> QED BY <1>2, <1>a, <1>4, <1>5 DEF CallerStep
-----------------------------------------------------------------------------
(* Where requests are.                                                      *)
LEMMA Single ==
  ASSUME OnePlace, NEW r \in His, NEW h \in His, NEW k \in His,
         NEW f \in 0..MaxInit, NEW g \in 0..MaxInit, NEW m \in Nat, NEW n \in Nat,
         At(h, f, m, r), At(k, g, n, r)
  PROVE  h = k /\ f = g /\ m = n
BY DEF OnePlace

LEMMA Waits ==
  ASSUME AskerWaits, NEW r \in His, NEW h \in His, NEW f \in 0..MaxInit, NEW m \in Nat,
         At(h, f, m, r)
  PROVE  writer[r] = "wait"
BY DEF AskerWaits

\* No request is where none was.
LEMMA PlacesFewer ==
  ASSUME OnePlace, AskerWaits,
         \A r, h \in His, g \in 0..MaxInit, n \in Nat : At(h, g, n, r)' => At(h, g, n, r),
         \A r \in His : writer[r] = "wait" => writer'[r] = "wait"
  PROVE  OnePlace' /\ AskerWaits'
<1>1. OnePlace'
  <2> SUFFICES ASSUME NEW r \in His, NEW h \in His, NEW k \in His,
                      NEW f \in 0..MaxInit, NEW g \in 0..MaxInit, NEW m \in Nat, NEW n \in Nat,
                      At(h, f, m, r)', At(k, g, n, r)'
               PROVE  h = k /\ f = g /\ m = n
    BY DEF OnePlace
  <2>1. At(h, f, m, r) /\ At(k, g, n, r) OBVIOUS
  <2> QED BY <2>1, Single
<1>2. AskerWaits' BY Waits DEF AskerWaits
<1> QED BY <1>1, <1>2

LEMMA PlacesSame ==
  ASSUME OnePlace, AskerWaits, UNCHANGED <<IndexChan, hand, chans>>,
         \A r \in His : writer[r] = "wait" => writer'[r] = "wait"
  PROVE  OnePlace' /\ AskerWaits'
<1>1. \A r, h \in His, g \in 0..MaxInit, n \in Nat : At(h, g, n, r)' => At(h, g, n, r)
  BY DEF At
<1> QED BY <1>1, PlacesFewer

\* A client's request, or nil, is queued.
LEMMA PlacesOfOthers ==
  ASSUME TypeOK, OnePlace, AskerWaits, NEW k \in His, NEW x \in Client \cup {Nil},
         Queued(k, x), UNCHANGED <<hand, chans>>,
         \A r \in His : writer[r] = "wait" => writer'[r] = "wait"
  PROVE  OnePlace' /\ AskerWaits'
<1>1. IndexChan[k] \in Seq(Item) /\ x \in Item /\ x \notin His
  BY DEF TypeOK, ChannelsTyped, Item
<1>2. \A n \in Nat : n \in DOMAIN Append(IndexChan[k], x) =>
              \/ n \in DOMAIN IndexChan[k] /\ Append(IndexChan[k], x)[n] = IndexChan[k][n]
              \/ Append(IndexChan[k], x)[n] = x
  BY <1>1, AppendOf
<1>3. IndexChan' = [IndexChan EXCEPT ![k] = Append(@, x)] BY DEF Queued
<1>4. IndexChan \in [His -> Seq(Item)] BY DEF TypeOK, ChannelsTyped
<1>5. \A r, h \in His, g \in 0..MaxInit, n \in Nat : At(h, g, n, r)' => At(h, g, n, r)
  BY <1>1, <1>2, <1>3, <1>4 DEF At
<1> QED BY <1>5, PlacesFewer

\* The writer that asks has no request under way; it waits from now on.
LEMMA PlacesOfAsker ==
  ASSUME TypeOK, OnePlace, AskerWaits, NEW h \in His,
         writer[h] # "wait", Queued(h, h), UNCHANGED <<hand, chans>>,
         writer' = [writer EXCEPT ![h] = "wait"]
  PROVE  OnePlace' /\ AskerWaits'
<1>1. IndexChan[h] \in Seq(Item) /\ h \in Item BY DEF TypeOK, ChannelsTyped, Item
<1> DEFINE last == Len(IndexChan[h]) + 1
<1>2. \A n \in Nat : n \in DOMAIN Append(IndexChan[h], h) =>
              \/ n \in DOMAIN IndexChan[h] /\ Append(IndexChan[h], h)[n] = IndexChan[h][n]
              \/ n = last /\ Append(IndexChan[h], h)[n] = h
  BY <1>1, AppendOf
<1>3. IndexChan' = [IndexChan EXCEPT ![h] = Append(@, h)] BY DEF Queued
<1>4. IndexChan \in [His -> Seq(Item)] BY DEF TypeOK, ChannelsTyped
<1> HIDE DEF last
<1>5. \A r, k \in His, g \in 0..MaxInit, n \in Nat :
        At(k, g, n, r)' => At(k, g, n, r) \/ (r = h /\ k = h /\ g = 0 /\ n = last)
  BY <1>1, <1>2, <1>3, <1>4 DEF At
<1>6. \A k \in His, g \in 0..MaxInit, n \in Nat : ~At(k, g, n, h) BY DEF AskerWaits
<1>7. writer \in [His -> {"none", "start", "recv", "ask", "wait", "added", "retry",
                          "write", "reflush", "nil", "flush", "abort", "gone", "failed"}]
  BY DEF TypeOK, WriterTyped
<1>8. AskerWaits' BY <1>5, <1>7 DEF AskerWaits
<1>9. OnePlace' BY <1>5, <1>6 DEF OnePlace
<1> QED BY <1>8, <1>9

\* A request moves on from IndexChan to the dispatcher, to the worker, and is answered
\* once.
LEMMA PlacesOfIndex ==
  ASSUME TypeOK, OnePlace, AskerWaits, NEW h \in His, NEW g \in Gen, IndexStep(h, g)
  PROVE  OnePlace' /\ AskerWaits'
<1> USE DEF IndexOnly, IndexKeeps
<1>0. g \in 0..MaxInit /\ g # 0 BY DEF Gen
<1>1. CASE IndexStarts(h, g) \/ WorkerStarts(h, g)
  BY <1>1, PlacesSame DEF IndexStarts, WorkerStarts
<1>2. CASE IndexTakes(h, g) \/ IndexCloses(h, g)
  <2> DEFINE s == IndexChan[h]
  <2>1. s \in Seq(Item) /\ s # <<>>
    BY <1>2 DEF IndexTakes, IndexCloses, Takes, TypeOK, ChannelsTyped
  <2>2. /\ Head(s) = s[1] /\ 1 \in DOMAIN s /\ Tail(s) \in Seq(Item)
        /\ \A n \in Nat : n \in DOMAIN Tail(s) => /\ n >= 1 /\ n + 1 \in DOMAIN s
                                                  /\ Tail(s)[n] = s[n + 1]
    BY <2>1, TailOf
  <2>4. /\ hand' = [hand EXCEPT ![h][g] = <<Head(s), gen[h]>>]
        /\ IndexChan' = [IndexChan EXCEPT ![h] = Tail(s)]
        /\ UNCHANGED <<chans, writer>>
    BY <1>2 DEF IndexTakes, IndexCloses, Takes, Holds
  <2>5. /\ IndexChan \in [His -> Seq(Item)]
        /\ hand \in [His -> [Gen -> Item \X (0..MaxInit)]]
    BY DEF TypeOK, ChannelsTyped, IndexTyped
  <2> HIDE DEF s
  <2>6. \A r \in His, n \in Nat : At(h, 0, n, r)' => n >= 1 /\ At(h, 0, n + 1, r)
    <3>1. IndexChan'[h] = Tail(s) BY <2>4, <2>5
    <3> QED BY <2>2, <3>1 DEF At, Gen, s
  <2>7. \A r \in His : At(h, g, 0, r)' => At(h, 0, 1, r)
    BY <1>0, <2>1, <2>2, <2>4, <2>5 DEF At, s, ChannelsTyped, TypeOK
  <2>8. \A r, k \in His, f \in 0..MaxInit, n \in Nat :
          At(k, f, n, r)' => \/ k = h /\ f = 0 /\ n >= 1 /\ At(h, 0, n + 1, r)
                             \/ k = h /\ f = g /\ n = 0 /\ At(h, 0, 1, r)
                             \/ ~(k = h /\ f = 0) /\ ~(k = h /\ f = g /\ n = 0)
                                /\ At(k, f, n, r)
    <3> SUFFICES ASSUME NEW r \in His, NEW k \in His, NEW f \in 0..MaxInit, NEW n \in Nat,
                        At(k, f, n, r)', ~(k = h /\ f = 0), ~(k = h /\ f = g /\ n = 0)
                 PROVE  At(k, f, n, r)
      BY <2>6, <2>7
    <3> QED BY <2>4, <2>5 DEF At
  <2>9. AskerWaits' BY <2>4, <2>8, <1>0 DEF AskerWaits
  <2>10. OnePlace'
    <3> SUFFICES ASSUME NEW r \in His, NEW j \in His, NEW k \in His,
                        NEW e \in 0..MaxInit, NEW f \in 0..MaxInit, NEW m \in Nat, NEW n \in Nat,
                        At(j, e, m, r)', At(k, f, n, r)'
                 PROVE  j = k /\ e = f /\ m = n
      BY DEF OnePlace
    <3>1. PICK e1 \in 0..MaxInit, m1 \in Nat :
            /\ At(j, e1, m1, r)
            /\ \/ j = h /\ e = 0 /\ m >= 1 /\ e1 = 0 /\ m1 = m + 1
               \/ j = h /\ e = g /\ m = 0 /\ e1 = 0 /\ m1 = 1
               \/ ~(j = h /\ e = 0) /\ ~(j = h /\ e = g /\ m = 0) /\ e1 = e /\ m1 = m
      BY <2>8, <1>0
    <3>2. PICK e2 \in 0..MaxInit, m2 \in Nat :
            /\ At(k, e2, m2, r)
            /\ \/ k = h /\ f = 0 /\ n >= 1 /\ e2 = 0 /\ m2 = n + 1
               \/ k = h /\ f = g /\ n = 0 /\ e2 = 0 /\ m2 = 1
               \/ ~(k = h /\ f = 0) /\ ~(k = h /\ f = g /\ n = 0) /\ e2 = f /\ m2 = n
      BY <2>8, <1>0
    <3>3. j = k /\ e1 = e2 /\ m1 = m2 BY <3>1, <3>2, Single
    <3> QED BY <3>1, <3>2, <3>3, <1>0
  <2> QED BY <2>9, <2>10
<1>6. CASE IndexTakesNil(h, g)
  <2> DEFINE s == IndexChan[h]
  <2>1. s \in Seq(Item) /\ s # <<>> /\ UNCHANGED <<hand, chans, writer>>
    BY <1>6 DEF IndexTakesNil, Takes, TypeOK, ChannelsTyped
  <2>2. \A n \in Nat : n \in DOMAIN Tail(s) => /\ n >= 1 /\ n + 1 \in DOMAIN s
                                                /\ Tail(s)[n] = s[n + 1]
    BY <2>1, TailOf
  <2>3. IndexChan' = [IndexChan EXCEPT ![h] = Tail(s)] BY <1>6 DEF IndexTakesNil, Takes
  <2>4. IndexChan \in [His -> Seq(Item)] BY DEF TypeOK, ChannelsTyped
  <2> HIDE DEF s
  <2>5. IndexChan'[h] = Tail(s) /\ \A k \in His \ {h} : IndexChan'[k] = IndexChan[k]
    BY <2>3, <2>4
  <2>6. \A r, k \in His, f \in 0..MaxInit, n \in Nat :
          At(k, f, n, r)' => \/ k = h /\ f = 0 /\ n >= 1 /\ At(h, 0, n + 1, r)
                             \/ ~(k = h /\ f = 0) /\ At(k, f, n, r)
    <3> SUFFICES ASSUME NEW r \in His, NEW k \in His, NEW f \in 0..MaxInit, NEW n \in Nat,
                        At(k, f, n, r)'
                 PROVE  \/ k = h /\ f = 0 /\ n >= 1 /\ At(h, 0, n + 1, r)
                        \/ ~(k = h /\ f = 0) /\ At(k, f, n, r)
      OBVIOUS
    <3>1. CASE k = h /\ f = 0
      <4>1. n \in DOMAIN Tail(s) /\ Tail(s)[n] = r BY <3>1, <2>5 DEF At, Gen
      <4> QED BY <3>1, <4>1, <2>2 DEF At, s
    <3>2. CASE ~(k = h /\ f = 0) BY <3>2, <2>1, <2>5 DEF At
    <3> QED BY <3>1, <3>2
  <2>7. AskerWaits' BY <2>1, <2>6, Waits DEF AskerWaits
  <2>8. OnePlace'
    <3> SUFFICES ASSUME NEW r \in His, NEW j \in His, NEW k \in His,
                        NEW e \in 0..MaxInit, NEW f \in 0..MaxInit, NEW m \in Nat, NEW n \in Nat,
                        At(j, e, m, r)', At(k, f, n, r)'
                 PROVE  j = k /\ e = f /\ m = n
      BY DEF OnePlace
    <3>1. PICK m1 \in Nat : /\ At(j, e, m1, r)
                            /\ m1 = IF j = h /\ e = 0 THEN m + 1 ELSE m
      BY <2>6
    <3>2. PICK n1 \in Nat : /\ At(k, f, n1, r)
                            /\ n1 = IF k = h /\ f = 0 THEN n + 1 ELSE n
      BY <2>6
    <3>3. j = k /\ e = f /\ m1 = n1 BY <3>1, <3>2, Single
    <3> QED BY <3>1, <3>2, <3>3
  <2> QED BY <2>7, <2>8
<1>7. CASE IndexResends(h, g)
  <2>1. IndexChan[h] \in Seq(Item) /\ Nil \in Item
    BY DEF TypeOK, ChannelsTyped, Item
  <2>2. /\ IndexChan' = [IndexChan EXCEPT ![h] = Append(@, Nil)]
        /\ hand' = [hand EXCEPT ![h][g] = <<Nil, gen[h]>>] /\ UNCHANGED <<chans, writer>>
    BY <1>7 DEF IndexResends, Queued, Holds
  <2>3. \A n \in Nat : n \in DOMAIN Append(IndexChan[h], Nil) =>
              \/ n \in DOMAIN IndexChan[h] /\ Append(IndexChan[h], Nil)[n] = IndexChan[h][n]
              \/ Append(IndexChan[h], Nil)[n] = Nil
    BY <2>1, AppendOf
  <2>4. /\ hand \in [His -> [Gen -> Item \X (0..MaxInit)]]
        /\ IndexChan \in [His -> Seq(Item)]
    BY DEF TypeOK, IndexTyped, ChannelsTyped
  <2>5. \A r, k \in His, f \in 0..MaxInit, n \in Nat : At(k, f, n, r)' => At(k, f, n, r)
    <3> SUFFICES ASSUME NEW r \in His, NEW k \in His, NEW f \in 0..MaxInit, NEW n \in Nat,
                        At(k, f, n, r)'
                 PROVE  At(k, f, n, r)
      OBVIOUS
    <3>1. CASE f = 0 /\ n \in DOMAIN IndexChan'[k] /\ IndexChan'[k][n] = r
      BY <3>1, <2>2, <2>3, <2>4 DEF At
    <3>2. CASE f \in Gen /\ n = 0 /\ hand'[k][f][1] = r
      BY <3>2, <2>2, <2>4 DEF At
    <3>3. CASE f \in Gen /\ n \in DOMAIN chans'[k][f] /\ chans'[k][f][n] = r
      BY <3>3, <2>2 DEF At
    <3> QED BY <3>1, <3>2, <3>3 DEF At
  <2> QED BY <2>2, <2>5, PlacesFewer
<1>3. CASE IndexHasNobody(h, g)
  <2>1. hand' = [hand EXCEPT ![h][g] = <<Nil, gen[h]>>] /\ UNCHANGED <<chans, writer, IndexChan>>
    BY <1>3 DEF IndexHasNobody, Holds
  <2>2. hand \in [His -> [Gen -> Item \X (0..MaxInit)]] BY DEF TypeOK, IndexTyped
  <2>3. \A r, k \in His, f \in 0..MaxInit, n \in Nat : At(k, f, n, r)' => At(k, f, n, r)
    BY <2>1, <2>2 DEF At
  <2> QED BY <2>1, <2>3, PlacesFewer
<1>4. CASE IndexSends(h, g)
  <2> DEFINE x == hand[h][g][1]
             to == hand[h][g][2]
             s == chans[h][to]
             last == Len(s) + 1
  <2>1. to \in Gen BY <1>4 DEF IndexSends, TypeOK, IndexTyped, Gen
  <2>2. s \in Seq(Item) /\ x \in Item BY <2>1 DEF TypeOK, ChannelsTyped, IndexTyped
  <2>3. /\ \A n \in Nat : n \in DOMAIN Append(s, x) =>
              \/ n \in DOMAIN s /\ n # last /\ Append(s, x)[n] = s[n]
              \/ n = last /\ Append(s, x)[n] = x
        /\ last \in Nat /\ last # 0
    <3> HIDE DEF s, x
    <3>1. Len(s) \in Nat BY <2>2
    <3> QED BY <2>2, <3>1, AppendOf
  <2>4. /\ chans' = [chans EXCEPT ![h][to] = Append(s, x)]
        /\ hand' = [hand EXCEPT ![h][g] = <<Nil, 0>>]
        /\ UNCHANGED <<IndexChan, writer>>
    BY <1>4 DEF IndexSends
  <2>5. /\ chans \in [His -> [Gen -> Seq(Item)]]
        /\ hand \in [His -> [Gen -> Item \X (0..MaxInit)]]
    BY DEF TypeOK, ChannelsTyped, IndexTyped
  <2> HIDE DEF to, s, last
  <2>6. /\ chans'[h][to] = Append(s, x) /\ s = chans[h][to]
        /\ \A k \in His, f \in Gen : ~(k = h /\ f = to) => chans'[k][f] = chans[k][f]
        /\ \A k \in His, f \in Gen : hand'[k][f][1] \in {Nil, hand[k][f][1]}
        /\ hand'[h][g][1] = Nil
    BY <2>1, <2>4, <2>5 DEF s
  <2> HIDE DEF x
  <2>7. \A r, k \in His, f \in 0..MaxInit, n \in Nat :
          At(k, f, n, r)' =>
            \/ k = h /\ f = to /\ n = last /\ r = x
            \/ At(k, f, n, r) /\ ~(k = h /\ f = to /\ n = last) /\ ~(k = h /\ f = g /\ n = 0)
    <3> SUFFICES ASSUME NEW r \in His, NEW k \in His, NEW f \in 0..MaxInit, NEW n \in Nat,
                        At(k, f, n, r)'
                 PROVE  \/ k = h /\ f = to /\ n = last /\ r = x
                        \/ /\ At(k, f, n, r) /\ ~(k = h /\ f = to /\ n = last)
                           /\ ~(k = h /\ f = g /\ n = 0)
      OBVIOUS
    <3>0. 0 \notin Gen BY DEF Gen
    <3>1. CASE f = 0 /\ n \in DOMAIN IndexChan'[k] /\ IndexChan'[k][n] = r
      BY <3>0, <3>1, <2>1, <2>4 DEF At
    <3>2. CASE f \in Gen /\ n = 0 /\ hand'[k][f][1] = r
      BY <3>2, <2>3, <2>6 DEF At
    <3>3. CASE f \in Gen /\ n \in DOMAIN chans'[k][f] /\ chans'[k][f][n] = r
      <4>1. n # 0
        <5>1. chans'[k][f] \in Seq(Item)
          <6>1. Append(s, x) \in Seq(Item) BY <2>2 DEF x, s
          <6> QED BY <3>3, <6>1, <2>4, <2>5, <2>1
        <5> QED BY <3>3, <5>1
      <4>2. CASE k = h /\ f = to
        <5>1. n \in DOMAIN Append(s, x) /\ Append(s, x)[n] = r BY <3>3, <4>2, <2>6
        <5>2. CASE n = last /\ Append(s, x)[n] = x BY <4>2, <5>1, <5>2
        <5>3. CASE n \in DOMAIN s /\ n # last /\ Append(s, x)[n] = s[n]
          <6>1. At(k, f, n, r) BY <3>3, <4>2, <5>1, <5>3, <2>6 DEF At
          <6> QED BY <5>3, <6>1, <4>1
        <5> QED BY <5>1, <5>2, <5>3, <2>3
      <4>3. CASE ~(k = h /\ f = to)
        <5>1. chans'[k][f] = chans[k][f] BY <3>3, <4>3, <2>6
        <5>2. At(k, f, n, r) BY <3>3, <5>1 DEF At
        <5> QED BY <4>1, <4>3, <5>2
      <4> QED BY <4>2, <4>3
    <3> QED BY <3>1, <3>2, <3>3 DEF At
  <2>8. x \in His => At(h, g, 0, x) BY DEF At, x
  <2>9. AskerWaits' BY <2>4, <2>7, <2>8, <1>0 DEF AskerWaits
  <2>10. OnePlace'
    <3> SUFFICES ASSUME NEW r \in His, NEW j \in His, NEW k \in His,
                        NEW e \in 0..MaxInit, NEW f \in 0..MaxInit, NEW m \in Nat, NEW n \in Nat,
                        At(j, e, m, r)', At(k, f, n, r)'
                 PROVE  j = k /\ e = f /\ m = n
      BY DEF OnePlace
    <3>1. PICK e1 \in 0..MaxInit, m1 \in Nat :
            /\ At(j, e1, m1, r)
            /\ \/ j = h /\ e = to /\ m = last /\ e1 = g /\ m1 = 0
               \/ ~(j = h /\ e = to /\ m = last) /\ ~(j = h /\ e = g /\ m = 0) /\ e1 = e /\ m1 = m
      BY <2>7, <2>8, <1>0
    <3>2. PICK e2 \in 0..MaxInit, m2 \in Nat :
            /\ At(k, e2, m2, r)
            /\ \/ k = h /\ f = to /\ n = last /\ e2 = g /\ m2 = 0
               \/ ~(k = h /\ f = to /\ n = last) /\ ~(k = h /\ f = g /\ n = 0) /\ e2 = f /\ m2 = n
      BY <2>7, <2>8, <1>0
    <3>3. j = k /\ e1 = e2 /\ m1 = m2 BY <3>1, <3>2, Single
    <3> QED BY <3>1, <3>2, <3>3, <1>0
  <2> QED BY <2>9, <2>10
<1>5. CASE WorkerTakes(h, g)
  <2> DEFINE s == chans[h][g]
  <2>1. s \in Seq(Item) /\ s # <<>> BY <1>5 DEF WorkerTakes, TypeOK, ChannelsTyped
  <2>2. /\ Head(s) = s[1] /\ 1 \in DOMAIN s
        /\ \A n \in Nat : n \in DOMAIN Tail(s) => /\ n >= 1 /\ n + 1 \in DOMAIN s
                                                  /\ Tail(s)[n] = s[n + 1]
    BY <2>1, TailOf
  <2>3. chans' = [chans EXCEPT ![h][g] = Tail(s)] /\ UNCHANGED <<hand, IndexChan>>
    BY <1>5 DEF WorkerTakes
  <2>4. /\ chans \in [His -> [Gen -> Seq(Item)]]
        /\ writer \in [His -> {"none", "start", "recv", "ask", "wait", "added", "retry",
                               "write", "reflush", "nil", "flush", "abort", "gone", "failed"}]
    BY DEF TypeOK, ChannelsTyped, WriterTyped
  <2>5. \A r \in His : writer'[r] = writer[r] \/ r = Head(s)
    BY <1>5, <2>4 DEF WorkerTakes
  <2> HIDE DEF s
  <2>6. /\ chans'[h][g] = Tail(s) /\ s = chans[h][g]
        /\ \A k \in His, f \in Gen : ~(k = h /\ f = g) => chans'[k][f] = chans[k][f]
    BY <2>3, <2>4 DEF s
  <2>7. \A r, k \in His, f \in 0..MaxInit, n \in Nat :
          At(k, f, n, r)' => \/ k = h /\ f = g /\ n >= 1 /\ At(h, g, n + 1, r)
                             \/ ~(k = h /\ f = g /\ n >= 1) /\ At(k, f, n, r)
    <3> SUFFICES ASSUME NEW r \in His, NEW k \in His, NEW f \in 0..MaxInit, NEW n \in Nat,
                        At(k, f, n, r)'
                 PROVE  \/ k = h /\ f = g /\ n >= 1 /\ At(h, g, n + 1, r)
                        \/ ~(k = h /\ f = g /\ n >= 1) /\ At(k, f, n, r)
      OBVIOUS
    <3>1. CASE f = 0 /\ n \in DOMAIN IndexChan'[k] /\ IndexChan'[k][n] = r
      BY <1>0, <3>1, <2>3 DEF At
    <3>2. CASE f \in Gen /\ n = 0 /\ hand'[k][f][1] = r
      BY <3>2, <2>3 DEF At
    <3>3. CASE f \in Gen /\ n \in DOMAIN chans'[k][f] /\ chans'[k][f][n] = r
      <4>1. CASE k = h /\ f = g
        <5>1. n \in DOMAIN Tail(s) /\ Tail(s)[n] = r BY <3>3, <4>1, <2>6
        <5>2. n >= 1 /\ n + 1 \in DOMAIN s /\ s[n + 1] = r BY <5>1, <2>2
        <5>3. At(h, g, n + 1, r) BY <5>2, <2>6 DEF At
        <5> QED BY <4>1, <5>2, <5>3
      <4>2. CASE ~(k = h /\ f = g)
        <5>1. chans'[k][f] = chans[k][f] BY <3>3, <4>2, <2>6
        <5>2. At(k, f, n, r) BY <3>3, <5>1 DEF At
        <5> QED BY <4>2, <5>2
      <4> QED BY <4>1, <4>2
    <3> QED BY <3>1, <3>2, <3>3 DEF At
  <2>8. Head(s) \in His => At(h, g, 1, Head(s)) BY <2>2, <2>6 DEF At
  <2>9. OnePlace'
    <3> SUFFICES ASSUME NEW r \in His, NEW j \in His, NEW k \in His,
                        NEW e \in 0..MaxInit, NEW f \in 0..MaxInit, NEW m \in Nat, NEW n \in Nat,
                        At(j, e, m, r)', At(k, f, n, r)'
                 PROVE  j = k /\ e = f /\ m = n
      BY DEF OnePlace
    <3>1. PICK e1 \in 0..MaxInit, m1 \in Nat :
            /\ At(j, e1, m1, r)
            /\ \/ j = h /\ e = g /\ m >= 1 /\ e1 = g /\ m1 = m + 1
               \/ ~(j = h /\ e = g /\ m >= 1) /\ e1 = e /\ m1 = m
      BY <2>7, <1>0
    <3>2. PICK e2 \in 0..MaxInit, m2 \in Nat :
            /\ At(k, e2, m2, r)
            /\ \/ k = h /\ f = g /\ n >= 1 /\ e2 = g /\ m2 = n + 1
               \/ ~(k = h /\ f = g /\ n >= 1) /\ e2 = f /\ m2 = n
      BY <2>7, <1>0
    <3>3. j = k /\ e1 = e2 /\ m1 = m2 BY <3>1, <3>2, Single
    <3> QED BY <3>1, <3>2, <3>3, <1>0
  <2>10. \A r, k \in His, f \in 0..MaxInit, n \in Nat : r = Head(s) => ~At(k, f, n, r)'
    <3> SUFFICES ASSUME NEW r \in His, NEW k \in His, NEW f \in 0..MaxInit, NEW n \in Nat,
                        r = Head(s), At(k, f, n, r)'
                 PROVE  FALSE
      OBVIOUS
    <3>1. At(h, g, 1, r) BY <2>8
    <3>2. CASE k = h /\ f = g /\ n >= 1 /\ At(h, g, n + 1, r)
      <4>1. 1 = n + 1 BY <3>1, <3>2, <1>0, Single
      <4> QED BY <3>2, <4>1
    <3>3. CASE ~(k = h /\ f = g /\ n >= 1) /\ At(k, f, n, r)
      <4>1. k = h /\ f = g /\ n = 1 BY <3>1, <3>3, <1>0, Single
      <4> QED BY <3>3, <4>1
    <3> QED BY <2>7, <3>2, <3>3
  <2>11. AskerWaits'
    <3> SUFFICES ASSUME NEW r \in His, NEW k \in His, NEW f \in 0..MaxInit, NEW n \in Nat,
                        At(k, f, n, r)'
                 PROVE  writer'[r] = "wait"
      BY DEF AskerWaits
    <3>1. \E m \in Nat : At(k, f, m, r) BY <2>7
    <3>2. r # Head(s) BY <2>10
    <3> QED BY <2>5, <3>1, <3>2, Waits
  <2> QED BY <2>9, <2>11
<1> QED BY <1>1, <1>2, <1>3, <1>4, <1>5, <1>6, <1>7 DEF IndexStep
-----------------------------------------------------------------------------
(* The file, its header and the writers.                                    *)
FileInv == HeaderOf /\ OneWriter /\ OffsetIsSize

LEMMA FileSame ==
  ASSUME FileInv, UNCHANGED <<file, boot, offset, buffer>>,
         \A h \in His : /\ Running(h)' <=> Running(h)
                        /\ writer'[h] # "none" <=> writer[h] # "none"
  PROVE  FileInv'
<1> USE DEF FileInv, file
<1>1. HeaderOf' BY DEF HeaderOf
<1>2. OneWriter' BY DEF OneWriter
<1>3. OffsetIsSize' BY DEF OffsetIsSize, size
<1> QED BY <1>1, <1>2, <1>3

LEMMA RestartKeepsFile ==
  ASSUME TypeOK, FileInv, Dies, head = "whole" => head' = "whole"
  PROVE  FileInv'
<1>1. \A h \in His : ~Running(h)' /\ writer'[h] = "none" /\ buffer'[h] = 0 /\ boot'[h] = "no"
  BY DEF Dies, All, Running
<1>2. lines' = lines BY DEF Dies
<1>3. HeaderOf' BY <1>1, <1>2 DEF FileInv, HeaderOf
<1>4. OneWriter' BY <1>1 DEF OneWriter
<1>5. OffsetIsSize' BY <1>1 DEF OffsetIsSize
<1> QED BY <1>3, <1>4, <1>5 DEF FileInv

\* A boot appends its header in front of all lines, or counts in extra; who starts
\* a writer leaves a whole header.
LEMMA BootKeepsFile ==
  ASSUME TypeOK, FileInv, NEW h \in His, BootStep(h)
  PROVE  FileInv'
<1> USE DEF FileInv
<1>1. CASE HeaderFails(h) \/ HeaderRefused(h)
  <2>1. head = "whole" => head' = "whole" BY <1>1 DEF HeaderFails, HeaderRefused
  <2> QED BY <1>1, <2>1, RestartKeepsFile DEF HeaderFails, HeaderRefused, Restarted
<1>2. CASE InitializeDatabase(h)
  BY <1>2, FileSame DEF InitializeDatabase, writerVars, file, Running
<1>3. CASE BootHistory(h) \/ CreatesFile(h)
  <2>1. /\ UNCHANGED <<lines, extra, writer, offset, buffer>>
        /\ \E to \in {"create", "read", "header"} : boot' = [boot EXCEPT ![h] = to]
        /\ boot[h] # "done"
    BY <1>3 DEF BootHistory, CreatesFile, Goes, BootOnly, writerVars
  <2>2. head' = head \/ (head = "none" /\ head' = "empty")
    BY <1>3 DEF BootHistory, CreatesFile
  <2>3. boot \in [His -> {"no", "create", "header", "read", "done"}]
    BY DEF TypeOK, FileTyped
  <2>4. HeaderOf'
    <3>1. \A k \in His \ {h} : boot'[k] = boot[k] BY <2>1, <2>3
    <3>2. /\ boot'[h] = "create" => head = "none" /\ head' = "none"
          /\ boot'[h] = "header" => head' \in {"empty", "whole"}
          /\ boot'[h] # "done"
      BY <1>3, <2>3 DEF BootHistory, CreatesFile, Goes, HeaderOf
    <3> QED BY <2>1, <2>2, <3>1, <3>2 DEF HeaderOf
  <2>5. \A k \in His : Running(k) => head = "whole" BY DEF HeaderOf, Running
  <2>6. OneWriter' BY <2>1 DEF OneWriter, Running
  <2>7. OffsetIsSize' BY <2>1, <2>2, <2>5 DEF OffsetIsSize, Running, size
  <2> QED BY <2>4, <2>6, <2>7
<1>4. CASE WritesHeader(h) \/ ReadsHeader(h)
  <2>1. /\ boot' = [boot EXCEPT ![h] = "done"] /\ writer' = [writer EXCEPT ![h] = "start"]
        /\ UNCHANGED <<lines, offset, buffer>> /\ boot[h] \in {"header", "read"}
    BY <1>4 DEF WritesHeader, ReadsHeader, BootEnds, Goes
  <2>2. /\ boot \in [His -> {"no", "create", "header", "read", "done"}]
        /\ writer \in [His -> {"none", "start", "recv", "ask", "wait", "added", "retry",
                               "write", "reflush", "nil", "flush", "abort", "gone", "failed"}]
        /\ extra \in Nat
    BY DEF TypeOK, FileTyped, WriterTyped
  <2>3. writer[h] = "none" BY <2>1 DEF HeaderOf
  <2>4. /\ head' = "whole"
        /\ head = "whole" \/ head = "empty"
        /\ head = "whole" => extra' \in {extra, extra + 1}
    BY <1>4, <2>1 DEF WritesHeader, ReadsHeader, HeaderGood, BootEnds, Goes, HeaderOf
  <2>5. \A k \in His : Running(k)' <=> Running(k) BY <2>1, <2>2, <2>3 DEF Running
  <2>6. HeaderOf' BY <2>1, <2>2, <2>4 DEF HeaderOf
  <2>7. OneWriter' BY <2>1, <2>5 DEF OneWriter
  <2>8. \A k \in His : Running(k) => head = "whole" BY DEF HeaderOf, Running
  <2>9. OffsetIsSize'
    <3>1. head = "whole" /\ extra' = 0 => extra' = extra
      BY <1>4, <2>2 DEF WritesHeader, ReadsHeader
    <3> QED BY <2>1, <2>4, <2>5, <2>8, <3>1 DEF OffsetIsSize, size
  <2> QED BY <2>6, <2>7, <2>9
<1> QED BY <1>1, <1>2, <1>3, <1>4 DEF BootStep

\* An answer only makes a writer go on that waits for it.
LEMMA AnswersOnlyWaiting ==
  ASSUME TypeOK, AskerWaits, NEW h \in His, NEW g \in Gen, IndexStep(h, g)
  PROVE  \A k \in His : /\ Running(k)' <=> Running(k)
                        /\ writer'[k] # "none" <=> writer[k] # "none"
<1>1. CASE WorkerTakes(h, g)
  <2> DEFINE r == Head(chans[h][g])
  <2>1. r \in His => writer[r] = "wait"
    <3>1. chans[h][g] \in Seq(Item) /\ chans[h][g] # <<>>
      BY <1>1 DEF WorkerTakes, TypeOK, ChannelsTyped
    <3>2. 1 \in DOMAIN chans[h][g] /\ chans[h][g][1] = r BY <3>1, TailOf
    <3>3. At(h, g, 1, r) BY <3>2 DEF At
    <3>4. g \in 0..MaxInit BY DEF Gen
    <3> HIDE DEF r
    <3> QED BY <3>3, <3>4, Waits
  <2>2. \/ writer' = writer
        \/ r \in His /\ \E code \in Answers : writer' = [writer EXCEPT ![r] = code]
    BY <1>1 DEF WorkerTakes
  <2>3. writer \in [His -> {"none", "start", "recv", "ask", "wait", "added", "retry",
                            "write", "reflush", "nil", "flush", "abort", "gone", "failed"}]
    BY DEF TypeOK, WriterTyped
  <2> HIDE DEF r
  <2> QED BY <2>1, <2>2, <2>3 DEF Running, Answers
<1>2. CASE ~WorkerTakes(h, g)
  <2>1. writer' = writer
    BY <1>2 DEF IndexStep, IndexStarts, IndexTakes, IndexTakesNil, IndexResends, IndexCloses,
         IndexHasNobody, IndexSends, WorkerStarts, Holds, IndexOnly, IndexKeeps
  <2> QED BY <2>1 DEF Running
<1> QED BY <1>1, <1>2

LEMMA IndexKeepsFile ==
  ASSUME TypeOK, AskerWaits, FileInv, NEW h \in His, NEW g \in Gen, IndexStep(h, g)
  PROVE  FileInv'
<1>1. UNCHANGED <<file, boot, offset, buffer>>
  BY DEF IndexStep, IndexStarts, IndexTakes, IndexTakesNil, IndexResends, IndexCloses,
         IndexHasNobody, IndexSends, WorkerStarts, WorkerTakes, Holds, IndexOnly, IndexKeeps, file
<1> QED BY <1>1, AnswersOnlyWaiting, FileSame

LEMMA WriterKeepsFile ==
  ASSUME TypeOK, FileInv, NEW h \in His, WriterStep(h) \/ WriterTakesBad(h) \/ WriteFails(h)
  PROVE  FileInv'
<1> USE DEF FileInv, WriterOnly, WriterKeeps, settings, bounds
<1>1. /\ buffer \in [His -> Nat] /\ offset \in [His -> Nat]
      /\ writer \in [His -> {"none", "start", "recv", "ask", "wait", "added", "retry",
                             "write", "reflush", "nil", "flush", "abort", "gone", "failed"}]
      /\ lines \in Nat /\ extra \in Nat /\ buffer[h] \in Nat
  BY DEF TypeOK, FileTyped, WriterTyped
<1>2. UNCHANGED <<boot, head, extra>> /\ \A k \in His \ {h} : writer'[k] = writer[k]
  BY <1>1 DEF WriterStep, WriterStarts, WriterTakesNil, WriterTakes, WriterAsks, WriterAnswers,
     WriterWrites, WriterFlushes, WriterTakesBad, WriteFails, Receives
<1>3. \A k \in His \ {h} : Running(k)' <=> Running(k) BY <1>2 DEF Running
<1>4. writer[h] # "none" /\ boot[h] = "done" /\ head = "whole"
  BY DEF WriterStep, WriterStarts, WriterTakesNil, WriterTakes, WriterAsks, WriterAnswers,
     WriterWrites, WriterFlushes, WriterTakesBad, WriteFails, Receives, HeaderOf
<1>5. HeaderOf' BY <1>2, <1>4 DEF HeaderOf
<1>6. CASE WriterStarts(h)
  <2>1. UNCHANGED <<lines, buffer>> BY <1>6 DEF WriterStarts
  <2>2. ~Running(h) /\ buffer[h] = 0 BY <1>6 DEF WriterStarts, Running, OneWriter
  <2>3. CASE Refused
    <3>1. ~Running(h)' BY <1>1, <1>6, <2>3 DEF WriterStarts, Running
    <3>2. offset'[h] = offset[h] /\ offset' \in [His -> Nat]
          /\ \A k \in His \ {h} : offset'[k] = offset[k]
      BY <1>1, <1>6, <2>3 DEF WriterStarts
    <3>3. OneWriter' BY <1>3, <2>1, <2>2, <3>1 DEF OneWriter
    <3>4. OffsetIsSize' BY <1>2, <1>3, <2>1, <3>1, <3>2 DEF OffsetIsSize, size
    <3> QED BY <1>5, <3>3, <3>4
  <2>4. CASE ~Refused
    <3>1. \A k \in His : ~Running(k) BY <2>4 DEF Refused, WriterRuns
    <3>2. offset'[h] = size BY <1>1, <1>6, <2>4 DEF WriterStarts
    <3>3. OneWriter' BY <1>3, <2>1, <3>1 DEF OneWriter
    <3>4. OffsetIsSize' BY <1>1, <1>2, <1>3, <2>1, <2>2, <3>1, <3>2 DEF OffsetIsSize, size
    <3> QED BY <1>5, <3>3, <3>4
  <2> QED BY <2>3, <2>4
<1>7. CASE ~WriterStarts(h)
  <2>1. Running(h)
    BY <1>7 DEF WriterStep, WriterTakesNil, WriterTakes, WriterAsks, WriterAnswers,
       WriterWrites, WriterFlushes, WriterTakesBad, WriteFails, Receives, Running
  <2>2. \A k \in His \ {h} : ~Running(k) /\ ~Running(k)'
    BY <1>3, <2>1 DEF OneWriter
  <2>3. \A k \in His \ {h} : buffer'[k] = buffer[k]
    BY <1>1, <1>7 DEF WriterStep, WriterTakesNil, WriterTakes, WriterAsks, WriterAnswers,
       WriterWrites, WriterFlushes, WriterTakesBad, WriteFails, Receives, Flushed
  <2>4. OffsetIsSize => (extra = 0 => offset[h] = size + buffer[h])
    BY <2>1 DEF OffsetIsSize
  <2>5. CASE WriterTakesNil(h) \/ WriterTakes(h) \/ WriterTakesBad(h) \/ WriterAsks(h)
    <3>1. UNCHANGED <<lines, offset, buffer>> /\ Running(h)'
      BY <1>1, <2>5 DEF WriterTakesNil, WriterTakes, WriterAsks, WriterTakesBad, Receives,
         Running, AfterNil
    <3>2. OneWriter' BY <2>2, <3>1 DEF OneWriter
    <3>3. OffsetIsSize' BY <1>2, <2>2, <2>4, <3>1 DEF OffsetIsSize, size
    <3> QED BY <1>5, <3>2, <3>3
  <2>6. CASE WriterAnswers(h) \/ (WriterFlushes(h) /\ writer[h] = "reflush")
    <3>1. /\ offset' = offset /\ Running(h)'
          /\ lines' + buffer'[h] = lines + buffer[h] /\ lines' \in Nat /\ buffer'[h] \in Nat
      BY <1>1, <2>6 DEF WriterAnswers, WriterFlushes, Flushed, Running
    <3>2. OneWriter' BY <2>2, <2>3, <3>1 DEF OneWriter
    <3>3. OffsetIsSize' BY <1>1, <1>2, <2>2, <2>4, <3>1 DEF OffsetIsSize, size
    <3>4. HeaderOf' BY <1>5
    <3> QED BY <3>2, <3>3, <3>4
  <2>7. CASE WriterWrites(h)
    <3>1. /\ offset'[h] = offset[h] + 1 /\ Running(h)'
          /\ lines' + buffer'[h] = lines + buffer[h] + 1 /\ lines' \in Nat /\ buffer'[h] \in Nat
      BY <1>1, <2>7 DEF WriterWrites, Running
    <3>2. OneWriter' BY <2>2, <2>3, <3>1 DEF OneWriter
    <3>3. offset[h] \in Nat BY <1>1
    <3>4. OffsetIsSize' BY <1>1, <1>2, <2>2, <2>4, <3>1, <3>3 DEF OffsetIsSize, size
    <3> QED BY <1>5, <3>2, <3>4
  <2>8. CASE (WriterFlushes(h) /\ writer[h] # "reflush") \/ WriteFails(h)
    <3>1. ~Running(h)' /\ buffer'[h] = 0
      BY <1>1, <2>8 DEF WriterFlushes, WriteFails, Flushed, Running
    <3>2. OneWriter' BY <2>2, <2>3, <3>1 DEF OneWriter
    <3>3. OffsetIsSize' BY <2>2, <3>1 DEF OffsetIsSize
    <3> QED BY <1>5, <3>2, <3>3
  <2> QED BY <1>7, <2>5, <2>6, <2>7, <2>8 DEF WriterStep
<1> QED BY <1>6, <1>7

LEMMA ClientKeepsFile ==
  ASSUME FileInv, NEW h \in His, NEW c, CallerStep(h, c)
  PROVE  FileInv'
BY FileSame DEF CallerStep, CloseHistory, CloseSends, CloseLooks, Calls, CallSends, CloseOnly, CloseKeeps,
   ClientOnly,
   file, writerVars, Running

\* The requests during the steps of the writer and its callers.
LEMMA WriterKeepsPlaces ==
  ASSUME TypeOK, OnePlace, AskerWaits, NEW h \in His,
         WriterStep(h) \/ WriterTakesBad(h) \/ WriteFails(h)
  PROVE  OnePlace' /\ AskerWaits'
<1> USE DEF WriterOnly, WriterKeeps, indexVars
<1>0. writer \in [His -> {"none", "start", "recv", "ask", "wait", "added", "retry",
                          "write", "reflush", "nil", "flush", "abort", "gone", "failed"}]
  BY DEF TypeOK, WriterTyped
<1>1. CASE writer[h] = "ask" /\ Queued(h, h) /\ writer' = [writer EXCEPT ![h] = "wait"]
  <2>1. UNCHANGED <<hand, chans>>
    BY DEF WriterStep, WriterStarts, WriterTakesNil, WriterTakes, WriterAsks, WriterAnswers,
       WriterWrites, WriterFlushes, WriterTakesBad, WriteFails, Receives
  <2> QED BY <1>1, <2>1, PlacesOfAsker
<1>2. CASE WriterAsks(h) /\ Queued(History, Nil) /\ writer[h] = "nil"
           /\ writer' = [writer EXCEPT ![h] = "flush"]
  <2>1. UNCHANGED <<hand, chans>> BY <1>2 DEF WriterAsks
  <2>2. \A r \in His : writer[r] = "wait" => writer'[r] = "wait" BY <1>0, <1>2
  <2> QED BY <1>2, <2>1, <2>2, PlacesOfOthers
<1>3. CASE ~WriterAsks(h)
  <2>1. UNCHANGED <<hand, chans, IndexChan>>
    BY <1>3 DEF WriterStep, WriterStarts, WriterTakesNil, WriterTakes, WriterAnswers,
       WriterWrites, WriterFlushes, WriterTakesBad, WriteFails, Receives
  <2>2. \A r \in His : writer[r] = "wait" => writer'[r] = "wait"
    BY <1>0, <1>3 DEF WriterStep, WriterStarts, WriterTakesNil, WriterTakes, WriterAnswers,
       WriterWrites, WriterFlushes, WriterTakesBad, WriteFails, Receives
  <2> QED BY <2>1, <2>2, PlacesSame
<1> QED BY <1>1, <1>2, <1>3 DEF WriterAsks

LEMMA ClientKeepsPlaces ==
  ASSUME TypeOK, OnePlace, AskerWaits, NEW h \in His, NEW c, CallerStep(h, c)
  PROVE  OnePlace' /\ AskerWaits'
<1>1. UNCHANGED <<hand, chans, writer>>
  BY DEF CallerStep, CloseHistory, CloseSends, CloseLooks, Calls, CallSends, CloseOnly, CloseKeeps,
   ClientOnly,
     writerVars, indexVars
<1>2. CASE UNCHANGED IndexChan BY <1>1, <1>2, PlacesSame
<1>3. CASE c \in Client /\ CallSends(c) /\ Queued(on[c], c)
  <2>1. on[c] \in His BY <1>3 DEF TypeOK, WriterTyped
  <2> QED BY <1>1, <1>3, <2>1, PlacesOfOthers
<1> QED BY <1>2, <1>3
  DEF CallerStep, CloseHistory, CloseSends, CloseLooks, Calls, CallSends, CloseOnly, CloseKeeps,
   ClientOnly

LEMMA BootKeepsPlaces ==
  ASSUME TypeOK, OnePlace, AskerWaits, HeaderOf, NEW h \in His, BootStep(h) \/ Crash \/ Dies
  PROVE  OnePlace' /\ AskerWaits'
<1>0. writer \in [His -> {"none", "start", "recv", "ask", "wait", "added", "retry",
                          "write", "reflush", "nil", "flush", "abort", "gone", "failed"}]
  BY DEF TypeOK, WriterTyped
<1>1. CASE Dies
  <2>1. \A r, k \in His, f \in 0..MaxInit, n \in Nat : ~At(k, f, n, r)'
    BY <1>1 DEF Dies, All, Each, At
  <2> QED BY <2>1 DEF OnePlace, AskerWaits
<1>2. CASE WritesHeader(h) \/ ReadsHeader(h)
  <2>1. UNCHANGED <<IndexChan, hand, chans>>
    BY <1>2 DEF WritesHeader, ReadsHeader, BootEnds, hashDB_Init, indexVars
  <2>2. writer[h] = "none" /\ writer' = [writer EXCEPT ![h] = "start"]
    BY <1>2 DEF WritesHeader, ReadsHeader, BootEnds, Goes, HeaderOf
  <2>3. \A r \in His : writer[r] = "wait" => writer'[r] = "wait" BY <1>0, <2>2
  <2> QED BY <2>1, <2>3, PlacesSame
<1>3. CASE BootHistory(h) \/ CreatesFile(h) \/ InitializeDatabase(h)
  <2>1. UNCHANGED <<IndexChan, hand, chans, writer>>
    BY <1>3 DEF BootHistory, CreatesFile, BootOnly, InitializeDatabase, hashDB_Init, indexVars,
       writerVars
  <2> QED BY <2>1, PlacesSame
<1> QED BY <1>1, <1>2, <1>3 DEF BootStep, HeaderFails, HeaderRefused, Crash,
  Restarted
-----------------------------------------------------------------------------
(* Who started since CLOSE_HISTORY found LOCKHISTORY free.                   *)
LEMMA LateSame ==
  ASSUME LateKnown, UNCHANGED closeVars, \A k \in His : Running(k)' => Running(k)
  PROVE  LateKnown'
BY DEF LateKnown, closeVars

LEMMA LateGone ==
  ASSUME Dies
  PROVE  LateKnown'
BY DEF Dies, All, LateKnown

LEMMA BootKeepsLate ==
  ASSUME TypeOK, HeaderOf, LateKnown, NEW h \in His, BootStep(h)
  PROVE  LateKnown'
<1>1. CASE HeaderFails(h) \/ HeaderRefused(h)
  BY <1>1, LateGone DEF HeaderFails, HeaderRefused, Restarted
<1>2. CASE BootHistory(h) \/ CreatesFile(h) \/ InitializeDatabase(h)
  BY <1>2, LateSame DEF BootHistory, CreatesFile, InitializeDatabase, BootOnly, writerVars, Running
<1>3. CASE WritesHeader(h) \/ ReadsHeader(h)
  <2>1. writer' = [writer EXCEPT ![h] = "start"] /\ UNCHANGED closeVars
    BY <1>3 DEF WritesHeader, ReadsHeader, BootEnds
  <2>2. \A k \in His : Running(k)' => Running(k)
    BY <2>1 DEF TypeOK, WriterTyped, Running
  <2> QED BY <2>1, <2>2, LateSame
<1> QED BY <1>1, <1>2, <1>3 DEF BootStep

LEMMA IndexKeepsLate ==
  ASSUME TypeOK, AskerWaits, LateKnown, NEW h \in His, NEW g \in Gen, IndexStep(h, g)
  PROVE  LateKnown'
<1>1. UNCHANGED closeVars
  BY DEF IndexStep, IndexStarts, IndexTakes, IndexTakesNil, IndexResends, IndexCloses,
         IndexHasNobody, IndexSends, WorkerStarts, WorkerTakes, Holds, IndexOnly, IndexKeeps
<1>2. \A k \in His : Running(k)' => Running(k) BY AnswersOnlyWaiting
<1> QED BY <1>1, <1>2, LateSame

LEMMA WriterKeepsLate ==
  ASSUME TypeOK, LateKnown, NEW h \in His, WriterStep(h) \/ WriterTakesBad(h) \/ WriteFails(h)
  PROVE  LateKnown'
<1>1. closer' = closer /\ \A k \in His \ {h} : writer'[k] = writer[k]
  BY DEF WriterStep, WriterStarts, WriterTakesNil, WriterTakes, WriterAsks, WriterAnswers,
     WriterWrites, WriterFlushes, WriterTakesBad, WriteFails, Receives, WriterOnly, WriterKeeps,
     TypeOK, WriterTyped
<1>2. CASE WriterStarts(h)
  <2>1. late \in [His -> SUBSET His] /\ writer[h] = "start"
    BY <1>2 DEF WriterStarts, TypeOK, WriterTyped
  <2>2. \A j \in His : late[j] \subseteq late'[j] BY <1>2, <2>1 DEF WriterStarts
  <2>3. ~Refused => \A j \in His : closer[j] \in {"lock2", "lock3"} => h \in late'[j]
    BY <1>2 DEF WriterStarts
  <2>4. Refused => ~Running(h)' BY <1>2, <2>1 DEF WriterStarts, Running, TypeOK, WriterTyped
  <2>5. \A k \in His \ {h} : Running(k)' => Running(k) BY <1>1 DEF Running
  <2> QED BY <1>1, <2>2, <2>3, <2>4, <2>5 DEF LateKnown
<1>3. CASE ~WriterStarts(h)
  <2>1. late' = late /\ Running(h)
    BY <1>3 DEF WriterStep, WriterTakesNil, WriterTakes, WriterAsks, WriterAnswers,
       WriterWrites, WriterFlushes, WriterTakesBad, WriteFails, Receives, WriterOnly, Running
  <2> QED BY <1>1, <2>1, LateSame DEF closeVars, Running
<1> QED BY <1>2, <1>3

LEMMA ClientKeepsLate ==
  ASSUME TypeOK, LateKnown, NEW h \in His, NEW c, CallerStep(h, c)
  PROVE  LateKnown'
<1>1. \A k \in His : Running(k)' <=> Running(k)
  BY DEF CallerStep, CloseHistory, CloseSends, CloseLooks, Calls, CallSends, CloseOnly,
     CloseKeeps, ClientOnly, writerVars, Running
<1>2. CASE c \in Client /\ (Calls(c, h) \/ CallSends(c))
  BY <1>1, <1>2, LateSame DEF Calls, CallSends, ClientOnly
<1>3. closer \in [His -> {"no", "send", "lock1", "lock2", "lock3", "returned"}]
      /\ late \in [His -> SUBSET His]
  BY DEF TypeOK, WriterTyped
<1>4. CASE CloseHistory(h) \/ CloseSends(h)
  <2>1. late' = late /\ closer'[h] \notin {"lock2", "lock3"}
        /\ \A k \in His \ {h} : closer'[k] = closer[k]
    BY <1>3, <1>4 DEF CloseHistory, CloseSends, CloseOnly
  <2> QED BY <1>1, <2>1 DEF LateKnown
<1>5. CASE CloseLooks(h)
  <2>1. \A k \in His \ {h} : closer'[k] = closer[k] /\ late'[k] = late[k]
    BY <1>3, <1>5 DEF CloseLooks, LooksAt
  <2>2. \/ closer'[h] \notin {"lock2", "lock3"}
        \/ ~WriterRuns
        \/ closer[h] = "lock2" /\ late'[h] = late[h]
    BY <1>3, <1>5 DEF CloseLooks, LooksAt
  <2> QED BY <1>1, <2>1, <2>2 DEF LateKnown, WriterRuns
<1> QED BY <1>2, <1>4, <1>5 DEF CallerStep
-----------------------------------------------------------------------------
LEMMA LifeInit ==
  ASSUME Init
  PROVE  LifeInv
<1> USE DEF Init, All, Each
<1>1. limit \in [his : SUBSET His, modes : SUBSET BOOLEAN, chans : SUBSET SUBSET His,
                 parallel : SUBSET (Nat \ {0}), clients : SUBSET Client, calls : Nat, inits : 0..MaxInit,
                 closes : SUBSET His, deaths : Nat]
  OBVIOUS
<1>2. BoundsTyped BY <1>1 DEF BoundsTyped
<1>3. FileTyped BY DEF FileTyped
<1>4. IndexTyped BY DEF IndexTyped, Item
<1>5. ChannelsTyped BY DEF ChannelsTyped
<1>6. WriterTyped BY DEF WriterTyped
<1>7. \A r, k \in His, f \in 0..MaxInit, n \in Nat : ~At(k, f, n, r) BY DEF At
<1>8. OnePlace /\ AskerWaits BY <1>7 DEF OnePlace, AskerWaits
<1>9. HeaderOf /\ OneWriter BY DEF HeaderOf, OneWriter, Running
<1>10. OffsetIsSize /\ LateKnown BY DEF OffsetIsSize, LateKnown, Running
<1> QED BY <1>2, <1>3, <1>4, <1>5, <1>6, <1>8, <1>9, <1>10 DEF LifeInv, TypeOK

LEMMA LifeNext ==
  ASSUME LifeInv, [Next]_vars
  PROVE  LifeInv'
<1> USE DEF LifeInv
<1>1. CASE UNCHANGED vars
  <2> USE <1>1 DEF vars, settings, bounds, file, indexVars, writerVars, closeVars, clientVars
  <2>1. TypeOK' BY DEF TypeOK, BoundsTyped, FileTyped, IndexTyped, ChannelsTyped, WriterTyped
  <2>2. OnePlace' /\ AskerWaits' BY PlacesSame
  <2>3. FileInv' BY FileSame DEF FileInv, Running
  <2>4. LateKnown' BY LateSame DEF Running
  <2> QED BY <2>1, <2>2, <2>3, <2>4 DEF FileInv
<1>2. ASSUME NEW h \in His, Crash \/ Panics(h) PROVE LifeInv'
  <2>1. Dies /\ UNCHANGED <<head, extra>> /\ deaths' \in 0..limit.deaths
    BY <1>2 DEF Crash, Restarted, Panics, TypeOK, BoundsTyped
  <2>2. TypeOK' BY <2>1, RestartTyped DEF TypeOK, FileTyped
  <2>3. FileInv' BY <2>1, RestartKeepsFile DEF FileInv
  <2>4. OnePlace' /\ AskerWaits' BY <2>1, BootKeepsPlaces
  <2> QED BY <2>1, <2>2, <2>3, <2>4, LateGone DEF FileInv
<1>3. ASSUME NEW h \in His, BootStep(h) PROVE LifeInv'
  BY <1>3, BootTyped, BootKeepsFile, BootKeepsPlaces, BootKeepsLate DEF FileInv
<1>4. ASSUME NEW h \in His, WriterStep(h) \/ WriterTakesBad(h) \/ WriteFails(h) PROVE LifeInv'
  BY <1>4, WriterStepTyped, WriterKeepsFile, WriterKeepsPlaces, WriterKeepsLate DEF FileInv
<1>5. ASSUME NEW h \in His, NEW g \in Gen, IndexStep(h, g) PROVE LifeInv'
  BY <1>5, IndexStepTyped, IndexKeepsFile, PlacesOfIndex, IndexKeepsLate DEF FileInv
<1>6. ASSUME NEW h \in His, NEW c, CallerStep(h, c) PROVE LifeInv'
  BY <1>6, ClientStepTyped, ClientKeepsFile, ClientKeepsPlaces, ClientKeepsLate DEF FileInv
<1> QED BY <1>1, <1>2, <1>3, <1>4, <1>5, <1>6 DEF Next, Work, CallerStep

\* The invariant holds in every reachable state.
THEOREM LifeInvariant == Spec => []LifeInv
<1> QED BY LifeInit, LifeNext, PTL DEF Spec

\* The types, with the capacities of all channels and that a dispatcher only sends to
\* the channels of a call of hashDB_Init there was.
THEOREM LifecycleTyped == Spec => []TypeOK
<1>1. LifeInv => TypeOK BY DEF LifeInv
<1> QED BY <1>1, LifeInvariant, PTL

\* Lines only ever follow a whole header, and only then a history_Writer runs, however
\* many boots meet, fail or crash.
THEOREM HeaderComesFirst == Spec => []LinesBehindHeader
<1>1. LifeInv => LinesBehindHeader
  BY DEF LifeInv, HeaderOf, LinesBehindHeader, Running
<1> QED BY <1>1, LifeInvariant, PTL

\* his.Offset of the one writer that runs is the end of file and buffer, whichever
\* HISTORY it belongs to, unless a second boot put its header behind the first.
THEOREM OffsetAlwaysSize == Spec => []OffsetIsSize
<1>1. LifeInv => OffsetIsSize BY DEF LifeInv
<1> QED BY <1>1, LifeInvariant, PTL

\* What a buffer still holds when CLOSE_HISTORY returns belongs to a writer that took
\* LOCKHISTORY after it was found free, however the looks at the three locks and the
\* steps of the others interleave.
THEOREM CloseHasFlushed == Spec => ClosedIsFlushed
<1> DEFINE Flush == \A h \in His : closer[h] = "lock3" /\ closer'[h] = "returned" =>
                      \A k \in His \ late[h] : buffer[k] = 0 /\ writer[k] # "write"
<1>1. LifeInv => Flush
  <2> SUFFICES ASSUME LifeInv, NEW h \in His, closer[h] = "lock3", NEW k \in His \ late[h]
               PROVE  buffer[k] = 0 /\ writer[k] # "write"
    OBVIOUS
  <2>1. ~Running(k) BY DEF LifeInv, LateKnown
  <2> QED BY <2>1 DEF LifeInv, OneWriter, Running
<1>2. LifeInv /\ [Next]_vars => [Flush]_vars BY <1>1
<1> QED BY <1>2, LifeInvariant, PTL DEF Spec, ClosedIsFlushed
=============================================================================
