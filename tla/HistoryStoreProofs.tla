-------------------------- MODULE HistoryStoreProofs --------------------------
(***************************************************************************)
(* The hash database covers history.dat and a duplicate is never invented, *)
(* for every set of clients and hashes, every key function, every buffer   *)
(* and line length and every combination of faults; and, if reading the    *)
(* file works, a line that is in it is found.                              *)
(*                                                                         *)
(* The first part is about HistoryDat alone: history.dat is read back as   *)
(* it was written.  Its invariant DatInv adds one thing to the properties  *)
(* of HistoryDat, that all lines lie inside the stream.                    *)
(* Every step of the store is a step of HistoryDat or leaves the file      *)
(* alone, so DatInv holds in the store.  StoreInv adds what links the      *)
(* writer's offset to the database while the request is on its way         *)
(* (RequestIsNext) and until the line is written (NextIsFiled).            *)
(***************************************************************************)
EXTENDS HistoryStore, SequenceTheorems, TLAPS

LinesInStream == \A l \in lines : End(l) <= streamEnd

DatInv ==
  /\ DatTypeOK
  /\ OffsetIsEnd
  /\ LinesInStream
  /\ CompleteLinesOnly
  /\ LinesDisjoint

USE LengthAssumption, ResultAssumption
-----------------------------------------------------------------------------
\* What one call of writeHistoryLine moves to the file is nothing, the whole
\* buffer, or the whole buffer and the line: checkBufioWriteBuffer sees to it
\* that the bufio.Writer never cuts a line.
LEMMA BytesOutCases ==
  ASSUME DatTypeOK, NEW ll \in LineLen
  PROVE  \/ BytesOut(ll) = 0
         \/ BytesOut(ll) = buffered
         \/ BytesOut(ll) = buffered + ll
<1>1. ll \in Nat /\ buffered \in Nat /\ BUFIOBUFFER \in Nat
  BY DEF DatTypeOK
<1>2. CASE FlushFirst(ll)
  <2>1. LeftInBuffer(ll) = 0 BY <1>2 DEF LeftInBuffer
  <2>2. Spilled(0, ll) \in {0, ll} BY <1>1 DEF Spilled
  <2> QED BY <1>1, <2>1, <2>2 DEF BytesOut
<1>3. CASE ~FlushFirst(ll)
  <2>1. LeftInBuffer(ll) = buffered BY <1>3 DEF LeftInBuffer
  <2>2. Spilled(buffered, ll) = 0
    BY <1>1, <1>3 DEF Spilled, FlushFirst
  <2> QED BY <1>1, <2>1, <2>2 DEF BytesOut
<1> QED BY <1>2, <1>3

\* A line appended at the end of the stream touches no other line.
LEMMA AppendedDisjoint ==
  ASSUME DatInv, NEW h \in Hash, NEW n \in Nat \ {0}
  PROVE  /\ Appended(h, n) \subseteq Line
         /\ \A k, l \in Appended(h, n) : k = l \/ End(k) <= l.at \/ End(l) <= k.at
         /\ \A l \in Appended(h, n) : End(l) <= streamEnd + n
<1> DEFINE new == [at |-> streamEnd, len |-> n, hash |-> h]
<1>1. streamEnd \in Nat BY DEF DatInv, DatTypeOK, streamEnd
<1>2. new \in Line /\ new.at = streamEnd /\ End(new) = streamEnd + n
  BY <1>1 DEF Line, End
<1>3. \A l \in lines : l \in Line /\ End(l) <= streamEnd /\ End(l) \in Nat
  BY DEF DatInv, DatTypeOK, LinesInStream, Line, End
<1>4. Appended(h, n) = lines \cup {new} BY DEF Appended
<1> HIDE DEF new
<1>5. ASSUME NEW k \in Appended(h, n), NEW l \in Appended(h, n)
      PROVE  k = l \/ End(k) <= l.at \/ End(l) <= k.at
  BY <1>2, <1>3, <1>4 DEF DatInv, LinesDisjoint
<1> QED BY <1>1, <1>2, <1>3, <1>4, <1>5

\* What the file keeps of a line that begins in it: at most the line, and no
\* more than the file has.
LEMMA KeptFacts ==
  ASSUME DatTypeOK, NEW l \in lines, OnDisk(l)
  PROVE  /\ Kept(l) \in Line
         /\ Kept(l).at = l.at /\ Kept(l).hash = l.hash
         /\ End(Kept(l)) <= fileSize /\ End(Kept(l)) <= End(l)
<1>1. l \in Line /\ fileSize \in Nat BY DEF DatTypeOK
<1>2. CASE End(l) <= fileSize BY <1>1, <1>2 DEF Kept, End, Line
<1>3. CASE ~(End(l) <= fileSize)
  <2>1. Kept(l) = [l EXCEPT !.len = fileSize - l.at] BY <1>3 DEF Kept
  <2>2. fileSize - l.at \in Nat \ {0} BY <1>1 DEF OnDisk, Line
  <2>3. /\ Kept(l) \in Line /\ Kept(l).at = l.at
        /\ Kept(l).hash = l.hash /\ Kept(l).len = fileSize - l.at
    BY <1>1, <2>1, <2>2 DEF Line
  <2> QED BY <1>1, <1>3, <2>3 DEF End, Line
<1> QED BY <1>2, <1>3
-----------------------------------------------------------------------------
LEMMA InitDatInv == Init => DatInv
<1> SUFFICES ASSUME Init PROVE DatInv OBVIOUS
<1>1. /\ lines = {} /\ fileSize = HeaderLen /\ buffered = 0
      /\ offset = HeaderLen /\ failed = FALSE
  BY DEF Init
<1>2. DatTypeOK BY <1>1 DEF DatTypeOK
<1>3. OffsetIsEnd BY <1>1 DEF OffsetIsEnd, streamEnd
<1>4. LinesInStream /\ CompleteLinesOnly /\ LinesDisjoint
  BY <1>1 DEF LinesInStream, CompleteLinesOnly, LinesDisjoint
<1> QED BY <1>2, <1>3, <1>4 DEF DatInv

LEMMA WriteKeepsDatInv ==
  ASSUME DatInv, NEW h \in Hash, NEW ll \in LineLen, WriteHistoryLine(h, ll)
  PROVE  DatInv'
<1>1. /\ ~failed /\ ~failed'
      /\ lines' = Appended(h, ll)
      /\ fileSize' = fileSize + BytesOut(ll)
      /\ buffered' = buffered + ll - BytesOut(ll)
      /\ offset' = offset + ll
  BY DEF WriteHistoryLine, DatInv, DatTypeOK
<1>2. /\ ll \in Nat /\ fileSize \in Nat /\ buffered \in Nat /\ offset \in Nat
      /\ failed' \in BOOLEAN
  BY <1>1 DEF DatInv, DatTypeOK, WriteHistoryLine
<1>3. BytesOut(ll) \in {0, buffered, buffered + ll}
  BY BytesOutCases DEF DatInv
<1>4. /\ fileSize' \in Nat /\ buffered' \in Nat
      /\ streamEnd' = streamEnd + ll
      /\ fileSize' \in {fileSize, streamEnd, streamEnd + ll}
      /\ streamEnd \in Nat
  BY <1>1, <1>2, <1>3 DEF streamEnd
<1>5. DatTypeOK'
  BY <1>1, <1>2, <1>4, AppendedDisjoint DEF DatTypeOK
<1>6. OffsetIsEnd'
  BY <1>1, <1>2, <1>4 DEF DatInv, OffsetIsEnd
<1>7. LinesInStream'
  BY <1>1, <1>2, <1>4, AppendedDisjoint DEF LinesInStream, End
<1>8. CompleteLinesOnly'
  <2> SUFFICES ASSUME NEW l \in lines'
               PROVE  End(l) <= fileSize' \/ fileSize' <= l.at
    BY DEF CompleteLinesOnly, End
  <2>1. CASE l \in lines
    <3>1. End(l) <= fileSize \/ fileSize <= l.at
      BY <1>1, <2>1 DEF DatInv, CompleteLinesOnly
    <3>2. End(l) <= streamEnd BY <2>1 DEF DatInv, LinesInStream
    <3>3. End(l) \in Nat /\ l.at \in Nat
      BY <2>1 DEF DatInv, DatTypeOK, Line, End
    <3> QED BY <1>2, <1>4, <3>1, <3>2, <3>3
  <2>2. CASE l \notin lines
    <3>1. l = [at |-> streamEnd, len |-> ll, hash |-> h]
      BY <1>1, <2>2 DEF Appended
    <3>2. l.at = streamEnd /\ End(l) = streamEnd + ll BY <3>1 DEF End
    <3>3. fileSize <= streamEnd BY <1>2 DEF streamEnd
    <3> QED BY <1>2, <1>4, <3>2, <3>3
  <2> QED BY <2>1, <2>2
<1>9. LinesDisjoint'
  BY <1>1, <1>2, AppendedDisjoint DEF LinesDisjoint, End
<1> QED BY <1>5, <1>6, <1>7, <1>8, <1>9 DEF DatInv

\* A step that only moves bytes from the buffer to the file.
LEMMA MovingBytesKeepsDatInv ==
  ASSUME DatInv, NEW n \in Nat, n <= buffered,
         fileSize' = fileSize + n, buffered' = buffered - n,
         lines' = lines, offset' = offset,
         failed' = TRUE \/ (n = buffered /\ failed' = failed)
  PROVE  DatInv'
<1>1. /\ fileSize \in Nat /\ buffered \in Nat /\ offset \in Nat
      /\ failed \in BOOLEAN /\ failed' \in BOOLEAN /\ lines \subseteq Line
  BY DEF DatInv, DatTypeOK
<1>2. fileSize' \in Nat /\ buffered' \in Nat BY <1>1
<1>3. streamEnd' = streamEnd BY <1>1 DEF streamEnd
<1>4. DatTypeOK' BY <1>1, <1>2 DEF DatTypeOK
<1>5. OffsetIsEnd'
  <2>1. ~failed' => ~failed BY <1>1
  <2> QED BY <1>3, <2>1 DEF DatInv, OffsetIsEnd
<1>6. LinesInStream' BY <1>3 DEF DatInv, LinesInStream, End
<1>7. CompleteLinesOnly'
  <2> SUFFICES ASSUME ~failed', NEW l \in lines
               PROVE  End(l) <= fileSize'
    BY DEF CompleteLinesOnly, End
  <2>1. fileSize' = streamEnd BY <1>1 DEF streamEnd
  <2> QED BY <2>1 DEF DatInv, LinesInStream
<1>8. LinesDisjoint' BY DEF DatInv, LinesDisjoint, End
<1> QED BY <1>4, <1>5, <1>6, <1>7, <1>8 DEF DatInv

LEMMA FlushKeepsDatInv == DatInv /\ Flush => DatInv'
<1> SUFFICES ASSUME DatInv, Flush PROVE DatInv' OBVIOUS
<1>1. /\ buffered \in Nat /\ buffered <= buffered
      /\ fileSize' = fileSize + buffered /\ buffered' = buffered - buffered
      /\ lines' = lines /\ offset' = offset /\ failed' = failed
  BY DEF Flush, DatInv, DatTypeOK, streamEnd
<1> QED BY <1>1, MovingBytesKeepsDatInv

LEMMA FlushFailsKeepsDatInv == DatInv /\ FlushFails => DatInv'
<1> SUFFICES ASSUME DatInv, FlushFails PROVE DatInv' OBVIOUS
<1>1. PICK n \in 0..MaxOffset : /\ n < buffered
                                /\ fileSize' = fileSize + n
                                /\ buffered' = buffered - n
  BY DEF FlushFails, ShortWrite
<1>2. /\ n \in Nat /\ n <= buffered
      /\ lines' = lines /\ offset' = offset /\ failed' = TRUE
  BY <1>1 DEF FlushFails, DatInv, DatTypeOK
<1> QED BY <1>1, <1>2, MovingBytesKeepsDatInv

LEMMA WriteFailsKeepsDatInv ==
  ASSUME DatInv, NEW h \in Hash, NEW ll \in LineLen, WriteHistoryLineFails(h, ll)
  PROVE  DatInv'
<1>1. PICK n \in 0..MaxOffset : CheckFlushFails(ll, n) \/ LongLineFails(h, ll, n)
  BY DEF WriteHistoryLineFails
<1>2. CASE CheckFlushFails(ll, n)
  <2>1. /\ n \in Nat /\ n <= buffered
        /\ fileSize' = fileSize + n /\ buffered' = buffered - n
        /\ lines' = lines /\ offset' = offset /\ failed' = TRUE
    BY <1>2 DEF CheckFlushFails, ShortWrite, DatInv, DatTypeOK
  <2> QED BY <2>1, MovingBytesKeepsDatInv
<1>3. CASE LongLineFails(h, ll, n)
  <2>1. /\ fileSize \in Nat /\ buffered \in Nat /\ offset \in Nat /\ n \in Nat
        /\ fileSize' = streamEnd + n /\ buffered' = 0 /\ failed' = TRUE
        /\ offset' = offset
        /\ lines' = IF n = 0 THEN lines ELSE Appended(h, n)
    BY <1>3 DEF LongLineFails, DatInv, DatTypeOK
  <2>2. streamEnd \in Nat /\ streamEnd' = streamEnd + n
    BY <2>1 DEF streamEnd
  <2>3. /\ lines' \subseteq Line
        /\ \A k, l \in lines' : k = l \/ End(k) <= l.at \/ End(l) <= k.at
        /\ \A l \in lines' : End(l) <= streamEnd + n
    <3>1. CASE n = 0
      BY <2>1, <2>2, <3>1
         DEF DatInv, DatTypeOK, LinesInStream, LinesDisjoint
    <3>2. CASE n # 0 BY <2>1, <3>2, AppendedDisjoint
    <3> QED BY <3>1, <3>2
  <2>4. DatTypeOK' BY <2>1, <2>2, <2>3 DEF DatTypeOK
  <2>5. OffsetIsEnd' /\ CompleteLinesOnly'
    BY <2>1 DEF OffsetIsEnd, CompleteLinesOnly
  <2>6. LinesInStream' /\ LinesDisjoint'
    BY <2>2, <2>3 DEF LinesInStream, LinesDisjoint, End
  <2> QED BY <2>4, <2>5, <2>6 DEF DatInv
<1> QED BY <1>1, <1>2, <1>3

LEMMA ReopenKeepsDatInv == DatInv /\ Reopen => DatInv'
<1> SUFFICES ASSUME DatInv, Reopen PROVE DatInv' OBVIOUS
<1>1. /\ fileSize \in Nat /\ fileSize' = fileSize /\ buffered' = 0
      /\ offset' = fileSize /\ failed' = FALSE /\ lines' = KeptLines
  BY DEF Reopen, StatSize, DatInv, DatTypeOK
<1>2. streamEnd' = fileSize BY <1>1 DEF streamEnd
<1>3. ASSUME NEW l \in lines'
      PROVE  /\ l \in Line /\ End(l) <= fileSize
             /\ \E k \in lines : /\ OnDisk(k) /\ l = Kept(k)
                                 /\ l.at = k.at /\ End(l) <= End(k)
  BY <1>1, KeptFacts DEF KeptLines, DatInv
<1>4. DatTypeOK' BY <1>1, <1>3 DEF DatTypeOK
<1>5. OffsetIsEnd' BY <1>1, <1>2 DEF OffsetIsEnd
<1>6. LinesInStream' /\ CompleteLinesOnly'
  BY <1>1, <1>2, <1>3 DEF LinesInStream, CompleteLinesOnly, End
<1>7. LinesDisjoint'
  <2> SUFFICES ASSUME NEW k \in lines', NEW l \in lines'
               PROVE  k = l \/ End(k) <= l.at \/ End(l) <= k.at
    BY DEF LinesDisjoint, End
  <2>1. PICK i \in lines : k = Kept(i) /\ k.at = i.at /\ End(k) <= End(i)
    BY <1>3
  <2>2. PICK j \in lines : l = Kept(j) /\ l.at = j.at /\ End(l) <= End(j)
    BY <1>3
  <2>3. i = j \/ End(i) <= j.at \/ End(j) <= i.at
    BY DEF DatInv, LinesDisjoint
  <2>4. /\ End(i) \in Nat /\ End(j) \in Nat /\ End(k) \in Nat /\ End(l) \in Nat
        /\ k.at \in Nat /\ l.at \in Nat
    BY <1>3 DEF DatInv, DatTypeOK, Line, End
  <2> QED BY <2>1, <2>2, <2>3, <2>4
<1> QED BY <1>4, <1>5, <1>6, <1>7 DEF DatInv

LEMMA StutterKeepsDatInv == DatInv /\ UNCHANGED datVars => DatInv'
  BY DEF DatInv, datVars, DatTypeOK, OffsetIsEnd, LinesInStream,
         CompleteLinesOnly, LinesDisjoint, streamEnd, End

LEMMA NextKeepsDatInv == DatInv /\ [Next]_datVars => DatInv'
  BY WriteKeepsDatInv, WriteFailsKeepsDatInv, FlushKeepsDatInv,
     FlushFailsKeepsDatInv, ReopenKeepsDatInv, StutterKeepsDatInv DEF Next
-----------------------------------------------------------------------------
\* Reading a line's offset finds the line: no other line starts there.
LEMMA DatInvFinds == DatInv => FseekFindsLine
<1> SUFFICES ASSUME DatInv, NEW l \in lines,
                    l.len >= KeyField, l.at + KeyField <= fileSize
             PROVE  FseekHistoryMessageHash(l.at) = l.hash
  BY DEF FseekFindsLine
<1>1. /\ lines \subseteq Line /\ l \in Line /\ fileSize \in Nat
      /\ KeyField \in Nat /\ KeyField > 0
  BY DEF DatInv, DatTypeOK
<1>2. l.at + KeyField - 1 \in TabsOnDisk /\ ~(l.at + KeyField - 1 < l.at)
  BY <1>1 DEF TabsOnDisk, Line
<1>3. l \in LineAt(l.at) /\ l.len >= KeyField BY DEF LineAt
<1>4. ASSUME NEW k \in LineAt(l.at), k.len >= KeyField PROVE k = l
  BY <1>1, <1>4 DEF LineAt, DatInv, LinesDisjoint, End, Line
<1>5. (CHOOSE k \in LineAt(l.at) : k.len >= KeyField) = l BY <1>3, <1>4
<1> QED BY <1>2, <1>3, <1>5 DEF FseekHistoryMessageHash

\* What is complete in the file stays: writes and flushes only append, a restart
\* only cuts what the file does not have.
LEMMA NextAppends ==
  ASSUME DatInv, [Next]_datVars
  PROVE  fileSize <= fileSize' /\ \A l \in lines : End(l) <= fileSize => l \in lines'
<1>1. /\ fileSize \in Nat /\ buffered \in Nat /\ LineLen \subseteq Nat
      /\ streamEnd \in Nat /\ fileSize <= streamEnd
  BY DEF DatInv, DatTypeOK, streamEnd
<1>2. ASSUME NEW h \in Hash, NEW ll \in LineLen, WriteHistoryLine(h, ll)
      PROVE  fileSize <= fileSize' /\ lines \subseteq lines'
  <2>1. BytesOut(ll) \in {0, buffered, buffered + ll}
    BY BytesOutCases DEF DatInv
  <2> QED BY <1>1, <1>2, <2>1 DEF WriteHistoryLine, Appended
<1>3. ASSUME NEW h \in Hash, NEW ll \in LineLen, WriteHistoryLineFails(h, ll)
      PROVE  fileSize <= fileSize' /\ lines \subseteq lines'
  BY <1>1, <1>3 DEF WriteHistoryLineFails, CheckFlushFails, ShortWrite,
                      LongLineFails, Appended
<1>4. ASSUME Flush \/ FlushFails \/ UNCHANGED datVars
      PROVE  fileSize <= fileSize' /\ lines \subseteq lines'
  BY <1>1, <1>4 DEF Flush, FlushFails, ShortWrite, datVars
<1>5. ASSUME Reopen, NEW l \in lines, End(l) <= fileSize
      PROVE  l \in lines'
  <2>1. OnDisk(l) BY <1>1, <1>5 DEF OnDisk, End, DatInv, DatTypeOK, Line
  <2> QED BY <1>5, <2>1 DEF Reopen, KeptLines, Kept
<1>6. Reopen => fileSize <= fileSize' BY <1>1 DEF Reopen
<1> QED BY <1>2, <1>3, <1>4, <1>5, <1>6 DEF Next

-----------------------------------------------------------------------------
\* The five state properties of HistoryDat hold in every reachable state.
THEOREM DatInvariant ==
  Spec => [](DatTypeOK /\ OffsetIsEnd /\ CompleteLinesOnly /\ LinesDisjoint)
<1>1. DatInv => DatTypeOK /\ OffsetIsEnd /\ CompleteLinesOnly /\ LinesDisjoint
  BY DEF DatInv
<1> QED BY <1>1, InitDatInv, NextKeepsDatInv, PTL DEF Spec

\* While no write failed the file ends between two lines: checkBufioWriteBuffer
\* makes the bufio.Writer flush complete lines only.
THEOREM FileEndsBetweenLines == Spec => []CompleteLinesOnly
<1>1. DatInv => CompleteLinesOnly BY DEF DatInv
<1> QED BY <1>1, InitDatInv, NextKeepsDatInv, PTL DEF Spec

\* A line whose hash field is in the file is found at its offset, always.
THEOREM FseekFinds == Spec => []FseekFindsLine
<1> QED BY InitDatInv, NextKeepsDatInv, DatInvFinds, PTL DEF Spec

\* Complete lines never leave the file and never move.
THEOREM FileIsAppendOnly == Spec => AppendOnly
<1>1. DatInv /\ [Next]_datVars
        => [ /\ fileSize <= fileSize'
             /\ \A l \in lines : End(l) <= fileSize => l \in lines' ]_datVars
  BY NextAppends
<1> QED BY <1>1, InitDatInv, NextKeepsDatInv, PTL DEF Spec, AppendOnly
-----------------------------------------------------------------------------
(* The store.                                                              *)

\* The request of the writer is about the object it holds and the place where
\* its line will start; if it was answered CaseAdded, that place is filed.
RequestIsNext ==
  wpc = "index" =>
    /\ wobj \in Object
    /\ job[Writer] # NoJob =>
         /\ job[Writer].hash = wobj.hash /\ job[Writer].at = offset
         /\ Is(Writer, "done") /\ job[Writer].code = CaseAdded
              => offset \in OffsetsOf(wobj.hash)

NextIsFiled ==
  wpc = "write" => wobj \in Object /\ offset \in OffsetsOf(wobj.hash)

ScanHasTodo == \A r \in Requester : Is(r, "scan") => job[r].todo # <<>>

StoreInv ==
  /\ DatInv
  /\ StoreTypeOK
  /\ ScanHasTodo
  /\ RequestIsNext
  /\ NextIsFiled
  /\ IndexCoversFile
  /\ NoFalseDupes

\* A line of hash h whose hash field is in the file starts at o.
Readable(h, o) ==
  \E l \in lines : /\ l.hash = h /\ l.at = o /\ l.len >= KeyField
                   /\ l.at + KeyField <= fileSize

\* A search that must find something still has the place to look at, or has
\* found it.
SearchGoesWell(c) ==
  job[c] # NoJob /\ sure[c] =>
    /\ job[c].hash \in Known
    /\ Is(c, "scan") =>
         \E i \in DOMAIN job[c].todo : Readable(job[c].hash, job[c].todo[i])
    /\ Is(c, "done") => job[c].code # CasePass

SearchFinds == \A c \in Client : SearchGoesWell(c)

USE StoreAssumption, CodeAssumption
-----------------------------------------------------------------------------
(* The hash database only grows.                                            *)

\* OffsetsOf in the next state, of a hash that is named in this one
FiledAfter(h) == {db'[Key[h]][i] : i \in DOMAIN db'[Key[h]]}

LEMMA KeyOfHash == \A h \in Hash : Key[h] \in Keys
BY DEF Keys

LEMMA OffsetsGrow ==
  ASSUME db \in [Keys -> Seq(Nat)], NEW g \in Hash, NEW o \in Nat,
         db' = [db EXCEPT ![Key[g]] = Append(@, o)]
  PROVE  /\ db' \in [Keys -> Seq(Nat)]
         /\ \A h \in Hash : OffsetsOf(h) \subseteq FiledAfter(h)
         /\ o \in FiledAfter(g)
<1> DEFINE k == Key[g]
<1>1. k \in Keys BY KeyOfHash
<1>2. db[k] \in Seq(Nat) BY <1>1
<1> DEFINE s == db[k]
<1>3. /\ Append(s, o) \in Seq(Nat)
      /\ Len(Append(s, o)) = Len(s) + 1
      /\ \A i \in 1..Len(s) : Append(s, o)[i] = s[i]
      /\ Append(s, o)[Len(s) + 1] = o
  BY <1>2, AppendProperties
<1>4. Len(s) \in Nat /\ DOMAIN s = 1..Len(s) BY <1>2, LenProperties
<1>5. DOMAIN Append(s, o) = 1..(Len(s) + 1) BY <1>3, LenProperties
<1>6. db' = [db EXCEPT ![k] = Append(s, o)] OBVIOUS
<1>7. db'[k] = Append(s, o) /\ \A x \in Keys \ {k} : db'[x] = db[x]
  BY <1>1, <1>6
<1>8. db' \in [Keys -> Seq(Nat)] BY <1>1, <1>3, <1>6
<1> HIDE DEF k, s
<1>9. o \in FiledAfter(g)
  <2>1. Len(s) + 1 \in DOMAIN db'[Key[g]] BY <1>4, <1>5, <1>7 DEF k
  <2>2. db'[Key[g]][Len(s) + 1] = o BY <1>3, <1>7 DEF k
  <2> QED BY <2>1, <2>2 DEF FiledAfter
<1>10. ASSUME NEW h \in Hash, NEW x \in OffsetsOf(h) PROVE x \in FiledAfter(h)
  <2>1. PICK i \in DOMAIN db[Key[h]] : x = db[Key[h]][i] BY DEF OffsetsOf
  <2>2. CASE Key[h] = k
    <3>1. i \in DOMAIN Append(s, o) /\ Append(s, o)[i] = x
      BY <1>3, <1>4, <1>5, <2>1, <2>2 DEF s
    <3> QED BY <1>7, <2>2, <3>1 DEF FiledAfter
  <2>3. CASE Key[h] # k
    BY <1>7, <2>1, <2>3, KeyOfHash DEF FiledAfter
  <2> QED BY <2>2, <2>3
<1> QED BY <1>8, <1>9, <1>10

\* Filing adds one offset and nothing else.
LEMMA FiledIsOneMore ==
  ASSUME db \in [Keys -> Seq(Nat)], NEW g \in Hash, NEW o \in Nat,
         db' = [db EXCEPT ![Key[g]] = Append(@, o)], NEW h \in Hash
  PROVE  FiledAfter(h) \subseteq OffsetsOf(h) \cup {o}
<1>1. Key[g] \in Keys /\ Key[h] \in Keys BY KeyOfHash
<1>2. CASE Key[h] # Key[g]
  <2>1. db'[Key[h]] = db[Key[h]] BY <1>1, <1>2
  <2> QED BY <2>1 DEF FiledAfter, OffsetsOf
<1>3. CASE Key[h] = Key[g]
  <2> DEFINE s == db[Key[h]]
  <2>1. s \in Seq(Nat) /\ db'[Key[h]] = Append(s, o) BY <1>1, <1>3
  <2>2. /\ Append(s, o) \in Seq(Nat) /\ Len(Append(s, o)) = Len(s) + 1
        /\ \A i \in 1..Len(s) : Append(s, o)[i] = s[i]
        /\ Append(s, o)[Len(s) + 1] = o
    BY <2>1, AppendProperties
  <2>3. /\ Len(s) \in Nat /\ DOMAIN s = 1..Len(s)
        /\ DOMAIN Append(s, o) = 1..Len(Append(s, o))
    BY <2>1, <2>2, LenProperties
  <2>4. \A i \in DOMAIN Append(s, o) :
          (i \in DOMAIN s /\ Append(s, o)[i] = s[i]) \/ Append(s, o)[i] = o
    BY <2>2, <2>3
  <2> QED BY <2>1, <2>4 DEF FiledAfter, OffsetsOf
<1> QED BY <1>2, <1>3
-----------------------------------------------------------------------------
(* What a worker does to the request it serves.                             *)

LEMMA RequestServed ==
  ASSUME StoreTypeOK, NEW r \in Requester, NEW st, Is(r, st)
  PROVE  job[r] \in Job /\ job[r] # NoJob /\ job[r].st = st
BY DEF StoreTypeOK, Is

LEMMA ServedIsJob ==
  ASSUME NEW r \in Requester, job[r] \in Job, NEW st \in {"scan", "done"},
         NEW todo \in Seq(Nat), NEW multi \in BOOLEAN, NEW code \in Code \cup {NoReply}
  PROVE  Served(r, st, todo, multi, code) \in Job
BY DEF Served, Job

\* WorkerDid(r, j): r's request became j, and what j says is true.
WorkerDid(r, j) ==
  /\ job' = [job EXCEPT ![r] = j]
  /\ j \in Job /\ j.hash = job[r].hash /\ j.at = job[r].at
  /\ j.st = "done" \/ (j.st = "scan" /\ j.todo # <<>>)
  /\ j.st = "done" => j.code \in Code
  /\ j.st = "done" /\ j.code = CaseAdded => j.at \in FiledAfter(j.hash)
  /\ j.st = "done" /\ j.code = CaseDupes => j.hash \in Known

LEMMA ReplyDid ==
  ASSUME StoreTypeOK, NEW r \in Requester, job[r] \in Job, NEW code \in Code,
         job' = Reply(r, code),
         code = CaseAdded => job[r].at \in FiledAfter(job[r].hash),
         code = CaseDupes => job[r].hash \in Known
  PROVE  \E j : WorkerDid(r, j)
<1> DEFINE j == Served(r, "done", <<>>, FALSE, code)
<1>1. j \in Job BY ServedIsJob, EmptySeq
<1>2. job' = [job EXCEPT ![r] = j] BY DEF Reply
<1>3. j.st = "done" /\ j.hash = job[r].hash /\ j.at = job[r].at /\ j.code = code
  BY DEF Served
<1> HIDE DEF j
<1>4. WorkerDid(r, j) BY <1>1, <1>2, <1>3 DEF WorkerDid
<1> QED BY <1>4

LEMMA ReadNextDid ==
  ASSUME StoreTypeOK, NEW r \in Requester, job[r] \in Job,
         NEW todo \in Seq(Nat), todo # <<>>, NEW multi \in BOOLEAN,
         job' = ReadNext(r, todo, multi)
  PROVE  \E j : WorkerDid(r, j)
<1> DEFINE j == Served(r, "scan", todo, multi, NoReply)
<1>1. j \in Job BY ServedIsJob
<1>2. job' = [job EXCEPT ![r] = j] BY DEF ReadNext
<1>3. j.st = "scan" /\ j.todo = todo /\ j.hash = job[r].hash /\ j.at = job[r].at
  BY DEF Served
<1> HIDE DEF j
<1>4. WorkerDid(r, j) BY <1>1, <1>2, <1>3 DEF WorkerDid
<1> QED BY <1>4

\* A requester that is scanned at has something to read.
LEMMA ScanFacts ==
  ASSUME StoreInv, NEW r \in Requester, Is(r, "scan")
  PROVE  /\ job[r] \in Job /\ job[r].todo \in Seq(Nat) /\ job[r].todo # <<>>
         /\ job[r].multi \in BOOLEAN /\ job[r].hash \in Hash
         /\ Head(job[r].todo) \in Nat /\ Tail(job[r].todo) \in Seq(Nat)
         /\ Len(job[r].todo) # 1 => Tail(job[r].todo) # <<>>
<1>1. job[r] \in Job /\ job[r].todo # <<>>
  BY RequestServed DEF StoreInv, ScanHasTodo
<1>2. /\ job[r].todo \in Seq(Nat) /\ job[r].multi \in BOOLEAN
      /\ job[r].hash \in Hash
  BY <1>1 DEF Job
<1>3. /\ Head(job[r].todo) \in Nat /\ Tail(job[r].todo) \in Seq(Nat)
      /\ Len(Tail(job[r].todo)) = Len(job[r].todo) - 1
  BY <1>1, <1>2, HeadTailProperties
<1>4. Len(job[r].todo) \in Nat BY <1>2, LenProperties
<1>5. Tail(job[r].todo) = <<>> => Len(Tail(job[r].todo)) = 0 BY EmptySeq
<1> QED BY <1>1, <1>2, <1>3, <1>4, <1>5

LEMMA NoMatchDid ==
  ASSUME StoreInv, NEW r \in Requester, Is(r, "scan"), job' = NoMatch(r)
  PROVE  \E j : WorkerDid(r, j)
<1>1. CASE Len(job[r].todo) = 1
  <2>1. job' = Reply(r, CasePass) BY <1>1 DEF NoMatch
  <2> QED BY <2>1, ScanFacts, ReplyDid DEF StoreInv, Code
<1>2. CASE Len(job[r].todo) # 1
  <2>1. job' = ReadNext(r, Tail(job[r].todo), job[r].multi)
    BY <1>2 DEF NoMatch
  <2> QED BY <1>2, <2>1, ScanFacts, ReadNextDid DEF StoreInv
<1> QED BY <1>1, <1>2

LEMMA ReadErrorDid ==
  ASSUME StoreInv, NEW r \in Requester, Is(r, "scan"), job' = ReadError(r)
  PROVE  \E j : WorkerDid(r, j)
<1>1. CASE job[r].multi BY <1>1, NoMatchDid DEF ReadError
<1>2. CASE ~job[r].multi
  <2>1. job' = Reply(r, CaseRetry) BY <1>2 DEF ReadError
  <2> QED BY <2>1, ScanFacts, ReplyDid DEF StoreInv, Code
<1> QED BY <1>1, <1>2
-----------------------------------------------------------------------------
(* Reading the file.                                                        *)

LEMMA KnownIsReadable == \A h : h \in Known <=> \E o : Readable(h, o)
BY DEF Known, Readable

\* What is read at an offset is the hash of a line whose hash field is in the
\* file: the tab that ends the reading lies in that line or behind it.
LEMMA FseekIsReadable ==
  ASSUME DatInv, NEW o, FseekHistoryMessageHash(o) \in Hash
  PROVE  Readable(FseekHistoryMessageHash(o), o)
<1>1. PICK t \in TabsOnDisk : ~(t < o)
  BY DEF FseekHistoryMessageHash
<1> DEFINE l == CHOOSE k \in LineAt(o) : k.len >= KeyField
<1>2. /\ \E k \in LineAt(o) : k.len >= KeyField
      /\ FseekHistoryMessageHash(o) = l.hash
  BY <1>1 DEF FseekHistoryMessageHash
<1>3. l \in LineAt(o) /\ l.len >= KeyField BY <1>2
<1> HIDE DEF l
<1>4. l \in lines /\ l.at = o /\ l \in Line BY <1>3 DEF LineAt, DatInv, DatTypeOK
<1>5. fileSize \in Nat /\ t < fileSize BY DEF DatInv, DatTypeOK, TabsOnDisk
<1>6. PICK k \in lines : \/ t = k.at + KeyField - 1 /\ k.len >= KeyField
                         \/ t = k.at + TimeField - 1 /\ k.len >= TimeField
  BY DEF TabsOnDisk
<1>7. k \in Line BY DEF DatInv, DatTypeOK
<1>8. k = l \/ End(k) <= l.at \/ End(l) <= k.at
  BY <1>4 DEF DatInv, LinesDisjoint
<1>9. t < End(k) /\ k.at <= t /\ k.at + KeyField - 1 <= t /\ t \in Int
  BY <1>6, <1>7 DEF Line, End
<1>10. l.at + KeyField <= fileSize
  BY <1>1, <1>3, <1>4, <1>5, <1>7, <1>8, <1>9 DEF Line, End
<1> QED BY <1>2, <1>3, <1>4, <1>10 DEF Readable

\* A line that can be read stays where it is.
LEMMA ReadableStays ==
  ASSUME DatInv, [Next]_datVars, NEW h, NEW o, Readable(h, o)
  PROVE  Readable(h, o)'
<1>1. PICK l \in lines : /\ l.hash = h /\ l.at = o /\ l.len >= KeyField
                         /\ l.at + KeyField <= fileSize
  BY DEF Readable
<1>2. /\ fileSize \in Nat /\ l \in Line /\ fileSize <= fileSize' /\ fileSize' \in Nat
  BY NextAppends, NextKeepsDatInv DEF DatInv, DatTypeOK
<1>3. CASE l \in lines' BY <1>1, <1>2, <1>3 DEF Readable, Line
<1>4. CASE l \notin lines'
  <2>1. Reopen
    BY <1>4 DEF Next, WriteHistoryLine, WriteHistoryLineFails, CheckFlushFails,
       LongLineFails, Appended, Flush, FlushFails, datVars
  <2>2. OnDisk(l) BY <1>1, <1>2 DEF OnDisk, Line
  <2>3. Kept(l) \in lines' BY <2>1, <2>2 DEF Reopen, KeptLines
  <2>4. ~(End(l) <= fileSize) BY <1>2, <1>4, <2>2, NextAppends
  <2>5. Kept(l).at = l.at /\ Kept(l).hash = l.hash /\ Kept(l).len = fileSize - l.at
    BY <1>2, <2>4 DEF Kept, Line
  <2>6. Kept(l).len >= KeyField BY <1>1, <1>2, <2>5 DEF Line
  <2> QED BY <1>1, <1>2, <2>3, <2>5, <2>6 DEF Readable, Line
<1> QED BY <1>3, <1>4

LEMMA KnownStays ==
  ASSUME DatInv, [Next]_datVars
  PROVE  Known \subseteq Known'
BY ReadableStays, KnownIsReadable DEF Known, Readable
-----------------------------------------------------------------------------
(* Every step of a worker.                                                  *)

LEMMA CompareDid ==
  ASSUME StoreInv, NEW r \in Requester, Is(r, "scan"),
         job' = Compare(r, FseekHistoryMessageHash(Head(job[r].todo)))
  PROVE  \E j : WorkerDid(r, j)
<1> DEFINE found == FseekHistoryMessageHash(Head(job[r].todo))
<1>1. CASE found = job[r].hash
  <2>1. job' = Reply(r, CaseDupes) BY <1>1 DEF Compare
  <2>2. job[r].hash \in Hash BY ScanFacts
  <2>3. job[r].hash \in Known
    BY <1>1, <2>2, FseekIsReadable, KnownIsReadable DEF StoreInv
  <2> QED BY <2>1, <2>3, ScanFacts, ReplyDid DEF StoreInv, Code
<1>2. CASE found # job[r].hash
  <2>1. job' = ReadError(r) \/ job' = NoMatch(r) BY <1>2 DEF Compare
  <2> QED BY <2>1, ReadErrorDid, NoMatchDid
<1> QED BY <1>1, <1>2

LEMMA LookupDid ==
  ASSUME StoreInv, NEW r \in Requester, WorkerLooksUp(r)
  PROVE  \E j : WorkerDid(r, j)
<1>1. job[r] \in Job /\ job[r].hash \in Hash
  BY RequestServed DEF WorkerLooksUp, Picks, StoreInv, Job
<1> DEFINE s == db[Key[job[r].hash]]
<1>2. s \in Seq(Nat) BY <1>1, KeyOfHash DEF StoreInv, StoreTypeOK
<1>3. job' = IF s = <<>> THEN Reply(r, CasePass) ELSE ReadNext(r, s, Len(s) > 1)
  BY DEF WorkerLooksUp
<1> HIDE DEF s
<1>4. CASE s = <<>>
  BY <1>1, <1>3, <1>4, ReplyDid DEF StoreInv, Code
<1>5. CASE s # <<>>
  <2>1. (Len(s) > 1) \in BOOLEAN OBVIOUS
  <2> QED BY <1>1, <1>2, <1>3, <1>5, <2>1, ReadNextDid DEF StoreInv
<1> QED BY <1>4, <1>5

\* What any step of a worker does.
LEMMA WorkerEffect ==
  ASSUME StoreInv, NEW r \in Requester, WorkerStep(r)
  PROVE  /\ UNCHANGED <<datVars, chanVars, client, resp, sure, acked>>
         /\ job[r] # NoJob
         /\ db' \in [Keys -> Seq(Nat)]
         /\ \A h \in Hash : OffsetsOf(h) \subseteq FiledAfter(h)
         /\ \E j : WorkerDid(r, j)
<1>1. db \in [Keys -> Seq(Nat)] BY DEF StoreInv, StoreTypeOK
<1>2. ASSUME db' = db
      PROVE  /\ db' \in [Keys -> Seq(Nat)]
             /\ \A h \in Hash : OffsetsOf(h) \subseteq FiledAfter(h)
  BY <1>1, <1>2 DEF OffsetsOf, FiledAfter
<1>3. CASE WorkerLooksUp(r)
  <2>1. job[r] # NoJob /\ db' = db
        /\ UNCHANGED <<datVars, chanVars, client, resp, sure, acked>>
    BY <1>3 DEF WorkerLooksUp, Picks, Is
  <2> QED BY <1>2, <1>3, <2>1, LookupDid
<1>4. CASE WorkerLookupFails(r)
  <2>1. /\ Is(r, "queued") /\ db' = db /\ job' = Reply(r, CaseRetry)
        /\ UNCHANGED <<datVars, chanVars, client, resp, sure, acked>>
    BY <1>4 DEF WorkerLookupFails, Picks
  <2>2. job[r] \in Job /\ job[r] # NoJob BY <2>1, RequestServed DEF StoreInv
  <2> QED BY <1>2, <2>1, <2>2, ReplyDid DEF StoreInv, Code
<1>5. CASE WorkerReads(r) \/ WorkerReadFails(r)
  <2>1. /\ Is(r, "scan") /\ db' = db
        /\ \/ job' = Compare(r, FseekHistoryMessageHash(Head(job[r].todo)))
           \/ job' = ReadError(r)
        /\ UNCHANGED <<datVars, chanVars, client, resp, sure, acked>>
    BY <1>5 DEF WorkerReads, WorkerReadFails
  <2>2. job[r] # NoJob BY <2>1 DEF Is
  <2> QED BY <1>2, <2>1, <2>2, CompareDid, ReadErrorDid
<1>6. CASE WorkerInserts(r) \/ WorkerInsertFails(r)
  <2>1. /\ Is(r, "queued") /\ job[r].at > 0
        /\ \/ db' = Filed(r) /\ job' = Reply(r, CaseAdded)
           \/ db' \in {db, Filed(r)} /\ job' = Reply(r, CaseRetry)
        /\ UNCHANGED <<datVars, chanVars, client, resp, sure, acked>>
    BY <1>6 DEF WorkerInserts, WorkerInsertFails, Picks
  <2>2. /\ job[r] \in Job /\ job[r] # NoJob
        /\ job[r].hash \in Hash /\ job[r].at \in Nat
    BY <2>1, RequestServed DEF StoreInv, Job
  <2>3. ASSUME db' = Filed(r)
        PROVE  /\ db' \in [Keys -> Seq(Nat)]
               /\ \A h \in Hash : OffsetsOf(h) \subseteq FiledAfter(h)
               /\ job[r].at \in FiledAfter(job[r].hash)
    <3> HIDE DEF FiledAfter
    <3>1. PICK g \in Hash, o \in Nat : g = job[r].hash /\ o = job[r].at
      BY <2>2
    <3>2. db' = [db EXCEPT ![Key[g]] = Append(@, o)]
      BY <2>3, <3>1 DEF Filed
    <3> QED BY <1>1, <3>1, <3>2, OffsetsGrow
  <2>4. CASE db' = Filed(r) /\ job' = Reply(r, CaseAdded)
    BY <2>1, <2>2, <2>3, <2>4, ReplyDid DEF StoreInv, Code
  <2>5. CASE db' \in {db, Filed(r)} /\ job' = Reply(r, CaseRetry)
    BY <1>2, <2>1, <2>2, <2>3, <2>5, ReplyDid DEF StoreInv, Code
  <2> QED BY <2>1, <2>4, <2>5
<1> QED BY <1>3, <1>4, <1>5, <1>6 DEF WorkerStep
-----------------------------------------------------------------------------
(* Steps that leave the file alone.                                         *)

LEMMA SameFile ==
  ASSUME DatInv, UNCHANGED datVars
  PROVE  /\ DatInv' /\ DatTypeOK'
         /\ Known' = Known /\ lines' = lines /\ offset' = offset
<1>1. DatInv' BY StutterKeepsDatInv
<1>2. DatTypeOK' BY <1>1 DEF DatInv
<1> QED BY <1>1, <1>2 DEF datVars, Known

\* What was in the database stays in it, so the lines stay covered.
LEMMA StillCovered ==
  ASSUME StoreInv, UNCHANGED datVars,
         \A h \in Hash : OffsetsOf(h) \subseteq FiledAfter(h)
  PROVE  IndexCoversFile'
<1> SUFFICES ASSUME NEW l \in lines' PROVE l.at \in OffsetsOf(l.hash)'
  BY DEF IndexCoversFile
<1>1. l \in lines /\ l.hash \in Hash
  BY SameFile DEF StoreInv, StoreTypeOK, DatTypeOK, Line
<1>2. l.at \in OffsetsOf(l.hash) BY <1>1 DEF StoreInv, IndexCoversFile
<1> QED BY <1>1, <1>2 DEF OffsetsOf, FiledAfter

LEMMA WorkerKeeps ==
  ASSUME StoreInv, NEW r \in Requester, WorkerStep(r)
  PROVE  StoreInv'
<1>1. /\ UNCHANGED datVars
      /\ WriterChan' = WriterChan /\ wpc' = wpc /\ wobj' = wobj
      /\ client' = client /\ resp' = resp /\ sure' = sure /\ acked' = acked
      /\ job[r] # NoJob
      /\ db' \in [Keys -> Seq(Nat)]
      /\ \A h \in Hash : OffsetsOf(h) \subseteq FiledAfter(h)
  BY WorkerEffect DEF chanVars
<1>2. PICK j : WorkerDid(r, j) BY WorkerEffect
<1>3. /\ job' = [job EXCEPT ![r] = j]
      /\ j \in Job /\ j.hash = job[r].hash /\ j.at = job[r].at
      /\ j.st = "done" \/ (j.st = "scan" /\ j.todo # <<>>)
      /\ j.st = "done" /\ j.code = CaseAdded => j.at \in FiledAfter(j.hash)
      /\ j.st = "done" /\ j.code = CaseDupes => j.hash \in Known
  BY <1>2 DEF WorkerDid
<1>4. DatInv' /\ DatTypeOK' /\ Known' = Known /\ offset' = offset
  BY <1>1, SameFile DEF StoreInv
<1>5. job \in [Requester -> Job \cup {NoJob}] BY DEF StoreInv, StoreTypeOK
<1>6. StoreTypeOK'
  <2>1. job' \in [Requester -> Job \cup {NoJob}] BY <1>3, <1>5
  <2> QED BY <1>1, <1>4, <2>1 DEF StoreInv, StoreTypeOK
<1>7. job'[r] = j /\ \A q \in Requester \ {r} : job'[q] = job[q]
  BY <1>3, <1>5
<1>8. ScanHasTodo' BY <1>3, <1>7 DEF StoreInv, ScanHasTodo, Is
<1>9. RequestIsNext'
  <2> SUFFICES ASSUME wpc = "index", job'[Writer] # NoJob
               PROVE  /\ job'[Writer].hash = wobj.hash
                      /\ job'[Writer].at = offset
                      /\ job'[Writer].st = "done" /\ job'[Writer].code = CaseAdded
                           => offset \in FiledAfter(wobj.hash)
    BY <1>1, <1>4 DEF RequestIsNext, Is, FiledAfter, OffsetsOf, StoreInv
  <2>1. wobj \in Object /\ wobj.hash \in Hash
    BY DEF StoreInv, RequestIsNext, Object
  <2>2. CASE r = Writer
    BY <1>1, <1>3, <1>7, <2>2 DEF StoreInv, RequestIsNext
  <2>3. CASE r # Writer
    <3>1. job'[Writer] = job[Writer] BY <1>7, <2>3 DEF Requester
    <3> QED BY <1>1, <2>1, <3>1 DEF StoreInv, RequestIsNext, Is
  <2> QED BY <2>2, <2>3
<1>10. NextIsFiled'
  <2> SUFFICES ASSUME wpc = "write"
               PROVE  wobj \in Object /\ offset \in FiledAfter(wobj.hash)
    BY <1>1, <1>4 DEF NextIsFiled, FiledAfter, OffsetsOf
  <2>1. wobj \in Object /\ wobj.hash \in Hash /\ offset \in OffsetsOf(wobj.hash)
    BY DEF StoreInv, NextIsFiled, Object
  <2> QED BY <1>1, <2>1
<1>11. IndexCoversFile' BY <1>1, StillCovered
<1>12. NoFalseDupes'
  BY <1>3, <1>4, <1>7 DEF StoreInv, NoFalseDupes, Is, Requester
<1> QED BY <1>4, <1>6, <1>8, <1>9, <1>10, <1>11, <1>12 DEF StoreInv

\* A client asks or takes an answer: only its own request changes, and a new
\* request is not answered yet.
LEMMA ClientKeeps ==
  ASSUME StoreInv, UNCHANGED <<datVars, wpc, wobj, db>>, StoreTypeOK',
         \A r \in Requester :
           job'[r] = job[r]
             \/ (r \in Client /\ (job'[r] = NoJob \/ job'[r].st = "queued"))
  PROVE  StoreInv'
<1>1. DatInv' /\ Known' = Known /\ lines' = lines /\ offset' = offset
  BY SameFile DEF StoreInv
<1>2. job'[Writer] = job[Writer] BY DEF Requester
<1>3. ScanHasTodo' BY DEF StoreInv, ScanHasTodo, Is
<1>4. RequestIsNext' /\ NextIsFiled'
  BY <1>1, <1>2 DEF StoreInv, RequestIsNext, NextIsFiled, Is, OffsetsOf
<1>5. IndexCoversFile' BY <1>1 DEF StoreInv, IndexCoversFile, OffsetsOf
<1>6. NoFalseDupes'
  BY <1>1 DEF StoreInv, NoFalseDupes, Is, Requester
<1> QED BY <1>1, <1>3, <1>4, <1>5, <1>6 DEF StoreInv

LEMMA SearchKeeps ==
  ASSUME StoreInv, NEW c \in Client, NEW h \in Hash, Search(c, h)
  PROVE  StoreInv'
<1>1. /\ UNCHANGED datVars /\ wpc' = wpc /\ wobj' = wobj /\ db' = db
      /\ WriterChan' = WriterChan /\ resp' = resp /\ acked' = acked
      /\ client' = [client EXCEPT ![c] = "search"]
      /\ job' = [job EXCEPT ![c] = Request(h, SearchOnly)]
      /\ sure' = [sure EXCEPT ![c] = h \in Known]
  BY DEF Search, chanVars
<1>2. Request(h, SearchOnly) \in Job /\ Request(h, SearchOnly).st = "queued"
  BY EmptySeq DEF Request, Job, SearchOnly
<1>3. /\ job \in [Requester -> Job \cup {NoJob}] /\ c \in Requester
      /\ client \in [Client -> {"idle", "search", "add"}]
      /\ sure \in [Client -> BOOLEAN]
  BY DEF StoreInv, StoreTypeOK, Requester
<1>4. /\ job' \in [Requester -> Job \cup {NoJob}]
      /\ job'[c].st = "queued"
      /\ \A r \in Requester \ {c} : job'[r] = job[r]
  BY <1>1, <1>2, <1>3
<1>5. client' \in [Client -> {"idle", "search", "add"}] BY <1>1, <1>3
<1>6. sure' \in [Client -> BOOLEAN]
  <2>1. (h \in Known) \in BOOLEAN OBVIOUS
  <2> HIDE DEF Known
  <2> QED BY <1>1, <1>3, <2>1
<1>7. StoreTypeOK'
  BY <1>1, <1>4, <1>5, <1>6, SameFile DEF StoreInv, StoreTypeOK
<1> QED BY <1>1, <1>4, <1>7, ClientKeeps

\* What goes into WriterChan is an object that the writer can take out again.
LEMMA SendKeeps ==
  ASSUME StoreInv, NEW o \in Object \cup {BadObject, NilObject},
         SendToWriter(o),
         UNCHANGED <<datVars, wpc, wobj, job, db, resp, sure, acked>>,
         client' \in [Client -> {"idle", "search", "add"}]
  PROVE  StoreInv'
<1>1. WriterChan' \in Seq(Object \cup {BadObject, NilObject})
  BY AppendProperties DEF SendToWriter, StoreInv, StoreTypeOK
<1>2. StoreTypeOK' BY <1>1, SameFile DEF StoreInv, StoreTypeOK
<1> QED BY <1>2, ClientKeeps

LEMMA TakeReplyKeeps ==
  ASSUME StoreInv, NEW c \in Client, TakeSearchReply(c) \/ TakeAddReply(c)
  PROVE  StoreInv'
<1>1. /\ UNCHANGED datVars /\ wpc' = wpc /\ wobj' = wobj /\ db' = db
      /\ WriterChan' = WriterChan /\ acked' = acked
      /\ client' = [client EXCEPT ![c] = "idle"]
      /\ job' = job \/ job' = [job EXCEPT ![c] = NoJob]
      /\ resp' = resp \/ resp' = [resp EXCEPT ![c] = NoReply]
      /\ sure' = sure \/ sure' = [sure EXCEPT ![c] = FALSE]
  BY DEF TakeSearchReply, TakeAddReply, chanVars
<1>2. /\ job \in [Requester -> Job \cup {NoJob}] /\ c \in Requester
      /\ client \in [Client -> {"idle", "search", "add"}]
      /\ resp \in [Client -> Code \cup {NoReply}]
      /\ sure \in [Client -> BOOLEAN]
  BY DEF StoreInv, StoreTypeOK, Requester
<1>3. /\ job' \in [Requester -> Job \cup {NoJob}]
      /\ \A r \in Requester :
           job'[r] = job[r] \/ (r \in Client /\ job'[r] = NoJob)
  BY <1>1, <1>2
<1>4. /\ client' \in [Client -> {"idle", "search", "add"}]
      /\ resp' \in [Client -> Code \cup {NoReply}]
  BY <1>1, <1>2
<1>5. sure' \in [Client -> BOOLEAN] BY <1>1, <1>2
<1>6. StoreTypeOK'
  BY <1>1, <1>3, <1>4, <1>5, SameFile DEF StoreInv, StoreTypeOK
<1> QED BY <1>1, <1>3, <1>6, ClientKeeps

LEMMA ClientStepKeeps ==
  ASSUME StoreInv, CloseHistory \/ \E c \in Client : ClientStep(c)
  PROVE  StoreInv'
<1>1. client \in [Client -> {"idle", "search", "add"}]
  BY DEF StoreInv, StoreTypeOK
<1>2. CASE CloseHistory
  BY <1>1, <1>2, SendKeeps DEF CloseHistory
<1>3. ASSUME NEW c \in Client, ClientStep(c) PROVE StoreInv'
  <2>1. ASSUME NEW o \in Object, AddHistory(c, o) PROVE StoreInv'
    BY <1>1, <2>1, SendKeeps DEF AddHistory
  <2>2. CASE AddBadObject(c)
    BY <1>1, <2>2, SendKeeps DEF AddBadObject
  <2> QED BY <1>3, <2>1, <2>2, SearchKeeps, TakeReplyKeeps DEF ClientStep
<1> QED BY <1>2, <1>3
-----------------------------------------------------------------------------
(* The steps of the writer.                                                 *)

\* The writer asks for the place where the next line will start.
LEMMA ReceiveKeeps == ASSUME StoreInv, WriterReceives PROVE StoreInv'
<1> DEFINE o == Head(WriterChan)
<1>1. /\ WriterChan # <<>> /\ o.kind = "line"
      /\ WriterChan' = Tail(WriterChan) /\ wobj' = o /\ wpc' = "index"
      /\ job' = [job EXCEPT ![Writer] = Request(o.hash, offset)]
      /\ UNCHANGED datVars /\ db' = db /\ client' = client /\ resp' = resp
      /\ sure' = sure /\ acked' = acked
  BY DEF WriterReceives
<1>2. /\ o \in Object \cup {BadObject, NilObject}
      /\ WriterChan' \in Seq(Object \cup {BadObject, NilObject})
  BY <1>1, HeadTailProperties DEF StoreInv, StoreTypeOK
<1> HIDE DEF o
<1>3. o \in Object BY <1>1, <1>2 DEF BadObject, NilObject
<1>4. o.hash \in Hash /\ offset \in Nat
  BY <1>3 DEF Object, StoreInv, StoreTypeOK, DatTypeOK
<1>5. /\ Request(o.hash, offset) \in Job
      /\ Request(o.hash, offset).hash = o.hash
      /\ Request(o.hash, offset).at = offset
      /\ Request(o.hash, offset).st = "queued"
  BY <1>4, EmptySeq DEF Request, Job
<1>6. DatInv' /\ DatTypeOK' /\ Known' = Known /\ lines' = lines /\ offset' = offset
  BY <1>1, SameFile DEF StoreInv
<1>7. job \in [Requester -> Job \cup {NoJob}] /\ Writer \in Requester
  BY DEF StoreInv, StoreTypeOK, Requester
<1>8. /\ job' \in [Requester -> Job \cup {NoJob}]
      /\ job'[Writer] = Request(o.hash, offset)
      /\ \A r \in Requester \ {Writer} : job'[r] = job[r]
  BY <1>1, <1>5, <1>7
<1>9. StoreTypeOK' BY <1>1, <1>2, <1>3, <1>6, <1>8 DEF StoreInv, StoreTypeOK
<1>10. ScanHasTodo' BY <1>5, <1>8 DEF StoreInv, ScanHasTodo, Is
<1>11. RequestIsNext' /\ NextIsFiled'
  BY <1>1, <1>3, <1>5, <1>6, <1>8 DEF RequestIsNext, NextIsFiled, Is
<1>12. IndexCoversFile' BY <1>1, <1>6 DEF StoreInv, IndexCoversFile, OffsetsOf
<1>13. NoFalseDupes'
  BY <1>6, <1>8 DEF StoreInv, NoFalseDupes, Is, Requester
<1> QED BY <1>6, <1>9, <1>10, <1>11, <1>12, <1>13 DEF StoreInv

\* Only an answer CaseAdded leads to the line being written.
LEMMA AnswerKeeps == ASSUME StoreInv, WriterAnswers PROVE StoreInv'
<1> DEFINE code == job[Writer].code
<1>1. /\ wpc = "index" /\ Is(Writer, "done")
      /\ resp' = [resp EXCEPT ![wobj.from] = code]
      /\ acked' = acked \/ acked' = acked \cup {wobj.hash}
      /\ wpc' = AfterIndex(code)
      /\ job' = [job EXCEPT ![Writer] = NoJob]
      /\ UNCHANGED datVars /\ WriterChan' = WriterChan /\ wobj' = wobj
      /\ db' = db /\ client' = client /\ sure' = sure
  BY DEF WriterAnswers
<1>2. wpc' \in {"write", "flush", "recv"} /\ (wpc' = "write" => code = CaseAdded)
  BY <1>1 DEF AfterIndex
<1>3. job[Writer] \in Job /\ job[Writer] # NoJob
  BY <1>1, RequestServed DEF StoreInv, Requester
<1>4. wobj \in Object /\ wobj.hash \in Hash
  BY <1>1 DEF StoreInv, RequestIsNext, Object
<1>5. wpc' = "write" => offset \in OffsetsOf(wobj.hash)
  BY <1>1, <1>2, <1>3 DEF StoreInv, RequestIsNext
<1>6. resp' \in [Client -> Code \cup {NoReply}]
  BY <1>1, <1>3 DEF StoreInv, StoreTypeOK, Job
<1>7. DatInv' /\ DatTypeOK' /\ Known' = Known /\ lines' = lines /\ offset' = offset
  BY <1>1, SameFile DEF StoreInv
<1>8. job \in [Requester -> Job \cup {NoJob}] /\ Writer \in Requester
  BY DEF StoreInv, StoreTypeOK, Requester
<1>9. /\ job' \in [Requester -> Job \cup {NoJob}]
      /\ job'[Writer] = NoJob
      /\ \A r \in Requester \ {Writer} : job'[r] = job[r]
  BY <1>1, <1>8
<1>10. StoreTypeOK'
  BY <1>1, <1>2, <1>4, <1>6, <1>7, <1>9 DEF StoreInv, StoreTypeOK
<1>11. ScanHasTodo' BY <1>9 DEF StoreInv, ScanHasTodo, Is
<1>12. RequestIsNext' /\ NextIsFiled'
  BY <1>1, <1>2, <1>4, <1>5, <1>7 DEF RequestIsNext, NextIsFiled, OffsetsOf
<1>13. IndexCoversFile' BY <1>1, <1>7 DEF StoreInv, IndexCoversFile, OffsetsOf
<1>14. NoFalseDupes'
  BY <1>7, <1>9 DEF StoreInv, NoFalseDupes, Is, Requester
<1> QED BY <1>7, <1>10, <1>11, <1>12, <1>13, <1>14 DEF StoreInv

\* A step of the file keeps the lines covered if the only new line stands where
\* the writer was told to put it.
LEMMA FileStepKeeps ==
  ASSUME StoreInv, [Next]_datVars, UNCHANGED <<job, db, client, resp, sure, acked>>,
         WriterChan' \in Seq(Object \cup {BadObject, NilObject}),
         wobj' \in Object \cup {NoObject}, wpc' \in {"recv", "stopped"},
         \A l \in lines' : \/ \E k \in lines : k.at = l.at /\ k.hash = l.hash
                           \/ l.at \in OffsetsOf(l.hash)
  PROVE  StoreInv'
<1>1. DatInv' /\ DatTypeOK' BY NextKeepsDatInv DEF StoreInv, DatInv
<1>2. StoreTypeOK' BY <1>1 DEF StoreInv, StoreTypeOK
<1>3. ScanHasTodo' BY DEF StoreInv, ScanHasTodo, Is
<1>4. RequestIsNext' /\ NextIsFiled' BY DEF RequestIsNext, NextIsFiled
<1>5. IndexCoversFile' BY DEF StoreInv, IndexCoversFile, OffsetsOf
<1>6. NoFalseDupes'
  <2>1. Known \subseteq Known' BY KnownStays DEF StoreInv
  <2> QED BY <2>1 DEF StoreInv, NoFalseDupes, Is
<1> QED BY <1>1, <1>2, <1>3, <1>4, <1>5, <1>6 DEF StoreInv

LEMMA WriteKeeps == ASSUME StoreInv, WriterWrites PROVE StoreInv'
<1> DEFINE h == wobj.hash
           n == wobj.len
<1>1. /\ wpc = "write"
      /\ WriteHistoryLine(h, n) \/ WriteHistoryLineFails(h, n)
      /\ wpc' \in {"recv", "stopped"} /\ wobj' = NoObject
      /\ WriterChan' = WriterChan /\ UNCHANGED <<job, db, client, resp, sure, acked>>
  BY DEF WriterWrites
<1>2. h \in Hash /\ n \in LineLen /\ offset \in OffsetsOf(h)
  BY <1>1 DEF StoreInv, NextIsFiled, Object
<1> HIDE DEF h, n
<1>3. [Next]_datVars BY <1>1, <1>2 DEF Next
<1>4. WriterChan' \in Seq(Object \cup {BadObject, NilObject})
  BY <1>1 DEF StoreInv, StoreTypeOK
<1>5. ASSUME NEW l \in lines'
      PROVE  l \in lines \/ l.at \in OffsetsOf(l.hash)
  <2>1. l \in lines \/ (~failed /\ l.at = streamEnd /\ l.hash = h)
    BY <1>1 DEF WriteHistoryLine, WriteHistoryLineFails, CheckFlushFails,
       LongLineFails, Appended
  <2> QED BY <1>2, <2>1 DEF StoreInv, DatInv, OffsetIsEnd
<1> QED BY <1>1, <1>3, <1>4, <1>5, FileStepKeeps

LEMMA FlushKeeps == ASSUME StoreInv, WriterStops \/ WriterFlushes PROVE StoreInv'
<1>1. /\ Flush \/ FlushFails
      /\ wpc' \in {"recv", "stopped"} /\ wobj' \in {wobj, NoObject}
      /\ UNCHANGED <<job, db, client, resp, sure, acked>>
  BY DEF WriterStops, WriterFlushes
<1>2. WriterChan' \in Seq(Object \cup {BadObject, NilObject})
  <2>1. WriterChan \in Seq(Object \cup {BadObject, NilObject})
    BY DEF StoreInv, StoreTypeOK
  <2>2. CASE WriterStops BY <2>1, <2>2, HeadTailProperties DEF WriterStops
  <2>3. CASE WriterFlushes BY <2>1, <2>3 DEF WriterFlushes
  <2> QED BY <2>2, <2>3
<1>3. [Next]_datVars /\ lines' = lines BY <1>1 DEF Next, Flush, FlushFails
<1>4. wobj' \in Object \cup {NoObject} BY <1>1 DEF StoreInv, StoreTypeOK
<1> QED BY <1>1, <1>2, <1>3, <1>4, FileStepKeeps
-----------------------------------------------------------------------------
\* A restart keeps the database, and cuts or keeps the lines where they stand.
LEMMA CrashKeeps == ASSUME StoreInv, Crash PROVE StoreInv'
<1>1. /\ Reopen /\ WriterChan' = <<>> /\ wpc' = "recv" /\ wobj' = NoObject
      /\ job' = [r \in Requester |-> NoJob]
      /\ client' = [c \in Client |-> "idle"]
      /\ resp' = [c \in Client |-> NoReply]
      /\ sure' = [c \in Client |-> FALSE]
      /\ acked' = {} /\ db' = db
  BY DEF Crash
<1>2. DatInv' /\ DatTypeOK' BY <1>1, ReopenKeepsDatInv DEF StoreInv, DatInv
<1>3. /\ WriterChan' \in Seq(Object \cup {BadObject, NilObject})
      /\ job' \in [Requester -> Job \cup {NoJob}]
      /\ client' \in [Client -> {"idle", "search", "add"}]
      /\ resp' \in [Client -> Code \cup {NoReply}]
      /\ sure' \in [Client -> BOOLEAN]
  BY <1>1, EmptySeq
<1>4. StoreTypeOK' BY <1>1, <1>2, <1>3 DEF StoreInv, StoreTypeOK
<1>5. ScanHasTodo' /\ NoFalseDupes'
  BY <1>1 DEF ScanHasTodo, NoFalseDupes, Is, Requester
<1>6. RequestIsNext' /\ NextIsFiled' BY <1>1 DEF RequestIsNext, NextIsFiled
<1>7. IndexCoversFile'
  <2> SUFFICES ASSUME NEW l \in lines' PROVE l.at \in OffsetsOf(l.hash)'
    BY DEF IndexCoversFile
  <2>1. PICK k \in lines : k.at = l.at /\ k.hash = l.hash
    BY <1>1, KeptFacts DEF Reopen, KeptLines, StoreInv, DatInv
  <2> QED BY <1>1, <2>1 DEF StoreInv, IndexCoversFile, OffsetsOf
<1> QED BY <1>2, <1>4, <1>5, <1>6, <1>7 DEF StoreInv

LEMMA StoreStutterKeeps == ASSUME StoreInv, UNCHANGED vars PROVE StoreInv'
<1>1. /\ UNCHANGED datVars /\ UNCHANGED <<wpc, wobj, db, job>>
      /\ WriterChan' = WriterChan /\ client' = client /\ resp' = resp
      /\ sure' = sure /\ acked' = acked
  BY DEF vars, storeVars, chanVars
<1>2. StoreTypeOK' BY <1>1, SameFile DEF StoreInv, StoreTypeOK
<1> QED BY <1>1, <1>2, ClientKeeps

LEMMA StoreInitInv == StoreInit => StoreInv
<1> SUFFICES ASSUME StoreInit PROVE StoreInv OBVIOUS
<1>1. /\ lines = {} /\ WriterChan = <<>> /\ wpc = "recv" /\ wobj = NoObject
      /\ job = [r \in Requester |-> NoJob]
      /\ db = [k \in Keys |-> <<>>]
      /\ client = [c \in Client |-> "idle"]
      /\ resp = [c \in Client |-> NoReply]
      /\ sure = [c \in Client |-> FALSE]
      /\ acked = {}
  BY DEF StoreInit, Init
<1>2. DatInv /\ DatTypeOK BY InitDatInv DEF StoreInit, DatInv
<1>3. /\ WriterChan \in Seq(Object \cup {BadObject, NilObject})
      /\ job \in [Requester -> Job \cup {NoJob}]
      /\ db \in [Keys -> Seq(Nat)]
      /\ client \in [Client -> {"idle", "search", "add"}]
      /\ resp \in [Client -> Code \cup {NoReply}]
      /\ sure \in [Client -> BOOLEAN]
  BY <1>1, EmptySeq
<1>4. StoreTypeOK BY <1>1, <1>2, <1>3 DEF StoreTypeOK
<1>5. ScanHasTodo /\ NoFalseDupes
  BY <1>1 DEF ScanHasTodo, NoFalseDupes, Is, Requester
<1>6. RequestIsNext /\ NextIsFiled /\ IndexCoversFile
  BY <1>1 DEF RequestIsNext, NextIsFiled, IndexCoversFile
<1> QED BY <1>2, <1>4, <1>5, <1>6 DEF StoreInv

LEMMA StoreNextKeeps == StoreInv /\ [StoreNext]_vars => StoreInv'
<1> SUFFICES ASSUME StoreInv, [StoreNext]_vars PROVE StoreInv' OBVIOUS
<1>1. WriterStep => StoreInv'
  BY ReceiveKeeps, AnswerKeeps, WriteKeeps, FlushKeeps DEF WriterStep
<1> QED BY <1>1, ClientStepKeeps, WorkerKeeps, CrashKeeps, StoreStutterKeeps
        DEF StoreNext
-----------------------------------------------------------------------------
\* Whatever fails, stops or dies between the insert and the write, every line
\* of history.dat is filed where it stands.
THEOREM IndexAlwaysCovers == StoreSpec => []IndexCoversFile
<1>1. StoreInv => IndexCoversFile BY DEF StoreInv
<1> QED BY <1>1, StoreInitInv, StoreNextKeeps, PTL DEF StoreSpec

\* No hash is called a duplicate that is not in the file, for any way to file
\* hashes under shared keys.
THEOREM DupesAreReal == StoreSpec => []NoFalseDupes
<1>1. StoreInv => NoFalseDupes BY DEF StoreInv
<1> QED BY <1>1, StoreInitInv, StoreNextKeeps, PTL DEF StoreSpec

\* All values of the store stay what the code takes them for.
THEOREM StoreTyped == StoreSpec => []StoreTypeOK
<1>1. StoreInv => StoreTypeOK BY DEF StoreInv
<1> QED BY <1>1, StoreInitInv, StoreNextKeeps, PTL DEF StoreSpec
-----------------------------------------------------------------------------
(* The store is a user of history.dat as HistoryDat specifies it.           *)

LEMMA StepOfDat ==
  ASSUME StoreInv, [StoreNext]_vars
  PROVE  [Next]_datVars
<1>1. CASE UNCHANGED vars BY <1>1 DEF vars
<1>2. ASSUME NEW c \in Client, ClientStep(c) PROVE UNCHANGED datVars
  BY <1>2 DEF ClientStep, Search, AddHistory, AddBadObject, TakeSearchReply,
              TakeAddReply
<1>3. CASE CloseHistory BY <1>3 DEF CloseHistory
<1>4. ASSUME NEW r \in Requester, WorkerStep(r) PROVE UNCHANGED datVars
  BY <1>4, WorkerEffect
<1>5. CASE WriterReceives \/ WriterAnswers
  BY <1>5 DEF WriterReceives, WriterAnswers
<1>6. CASE WriterStops \/ WriterFlushes
  BY <1>6 DEF WriterStops, WriterFlushes, Next
<1>7. CASE WriterWrites
  <2>1. \/ WriteHistoryLine(wobj.hash, wobj.len)
        \/ WriteHistoryLineFails(wobj.hash, wobj.len)
    BY <1>7 DEF WriterWrites
  <2>2. wobj.hash \in Hash /\ wobj.len \in LineLen
    BY <1>7 DEF WriterWrites, StoreInv, NextIsFiled, Object
  <2> QED BY <2>1, <2>2 DEF Next
<1>8. CASE Crash BY <1>8 DEF Crash, Next
<1> QED BY <1>1, <1>2, <1>3, <1>4, <1>5, <1>6, <1>7, <1>8 DEF StoreNext, WriterStep

\* What history_Writer, the workers and a restart do to history.dat is what
\* HistoryDat allows: one writer appends lines, readers change nothing.
THEOREM StoreImplementsDat == StoreSpec => Spec
<1>1. StoreInit => Init BY DEF StoreInit
<1>2. StoreInv /\ [StoreNext]_vars => [Next]_datVars BY StepOfDat
<1> QED BY <1>1, <1>2, StoreInitInv, StoreNextKeeps, PTL DEF StoreSpec, Spec

\* So the file of the store is as append-only and as readable as that of
\* HistoryDat, whatever its clients ask and whatever fails.
THEOREM StoreFileIsSound ==
  StoreSpec => [](OffsetIsEnd /\ CompleteLinesOnly /\ FseekFindsLine) /\ AppendOnly
BY StoreImplementsDat, DatInvariant, FileEndsBetweenLines, FseekFinds,
   FileIsAppendOnly, PTL

\* A hash whose field is in the file, where FseekHistoryMessageHash
\* reads it, is in the file for ever: no flush,
\* failed write, crash or restart makes the store forget it.
THEOREM NothingIsForgotten == StoreSpec => [][Known \subseteq Known']_vars
<1>1. StoreInv /\ [StoreNext]_vars => [Known \subseteq Known']_vars
  BY StepOfDat, KnownStays DEF StoreInv
<1> QED BY <1>1, StoreInitInv, StoreNextKeeps, PTL DEF StoreSpec
-----------------------------------------------------------------------------
(* A search for what is in the file finds it, if reading works.             *)

LEMMA ReplyGoesWell ==
  ASSUME StoreInv, NEW c \in Client, NEW code \in Code \ {CasePass},
         job[c].hash \in Known, Known' = Known, job' = Reply(c, code)
  PROVE  SearchGoesWell(c)'
<1>1. c \in Requester /\ job \in [Requester -> Job \cup {NoJob}]
  BY DEF StoreInv, StoreTypeOK, Requester
<1>2. job'[c] = Served(c, "done", <<>>, FALSE, code) BY <1>1 DEF Reply
<1>3. job'[c].st = "done" /\ job'[c].hash = job[c].hash /\ job'[c].code = code
  BY <1>2 DEF Served
<1> QED BY <1>3 DEF SearchGoesWell, Is

LEMMA ReadNextGoesWell ==
  ASSUME StoreInv, NEW c \in Client, job[c].hash \in Known,
         UNCHANGED datVars, NEW todo, NEW multi, job' = ReadNext(c, todo, multi),
         \E i \in DOMAIN todo : Readable(job[c].hash, todo[i])
  PROVE  SearchGoesWell(c)'
<1>1. c \in Requester /\ job \in [Requester -> Job \cup {NoJob}]
  BY DEF StoreInv, StoreTypeOK, Requester
<1>2. job'[c] = Served(c, "scan", todo, multi, NoReply) BY <1>1 DEF ReadNext
<1>3. job'[c].st = "scan" /\ job'[c].hash = job[c].hash /\ job'[c].todo = todo
  BY <1>2 DEF Served
<1>4. Known' = Known /\ lines' = lines /\ fileSize' = fileSize
  BY SameFile DEF StoreInv, datVars
<1> QED BY <1>3, <1>4 DEF SearchGoesWell, Is, Readable

\* The database names the place of every line that can be read.
LEMMA LookupGoesWell ==
  ASSUME StoreInv, NEW c \in Client, WorkerLooksUp(c), job[c].hash \in Known
  PROVE  SearchGoesWell(c)'
<1> DEFINE h == job[c].hash
           s == db[Key[h]]
<1>1. PICK o : Readable(h, o) BY KnownIsReadable
<1>2. o \in OffsetsOf(h)
  BY <1>1 DEF Readable, StoreInv, IndexCoversFile
<1>3. PICK i \in DOMAIN s : s[i] = o BY <1>2 DEF OffsetsOf
<1>4. s # <<>> BY <1>3
<1>5. job' = ReadNext(c, s, Len(s) > 1) /\ UNCHANGED datVars
  BY <1>4 DEF WorkerLooksUp
<1> QED BY <1>1, <1>3, <1>5, ReadNextGoesWell

\* The place that is looked for is read, or it is among those that are left.
LEMMA ReadGoesWell ==
  ASSUME StoreInv, NEW c \in Client, WorkerReads(c), SearchGoesWell(c), sure[c]
  PROVE  SearchGoesWell(c)'
<1> DEFINE h == job[c].hash
           s == job[c].todo
           found == FseekHistoryMessageHash(Head(s))
<1>1. /\ Is(c, "scan") /\ job' = Compare(c, found) /\ UNCHANGED datVars
      /\ c \in Requester
  BY DEF WorkerReads, Requester
<1>2. Known' = Known BY <1>1, SameFile DEF StoreInv
<1>3. h \in Known BY <1>1 DEF SearchGoesWell, Is
<1>4. PICK i \in DOMAIN s : Readable(h, s[i]) BY <1>1 DEF SearchGoesWell, Is
<1>5. /\ s \in Seq(Nat) /\ s # <<>> /\ h \in Hash
      /\ Len(s) # 1 => Tail(s) # <<>>
  BY <1>1, ScanFacts
<1>6. CASE found = h
  <2>1. job' = Reply(c, CaseDupes) BY <1>1, <1>6 DEF Compare
  <2> QED BY <1>2, <1>3, <2>1, ReplyGoesWell DEF Code
<1>7. CASE found # h
  <2>0. PICK q \in Seq(Nat) : q = s BY <1>5
  <2>1. i \in 1..Len(s) /\ Len(s) \in Nat
    <3>1. i \in DOMAIN q BY <1>4, <2>0
    <3>2. i \in 1..Len(q) /\ Len(q) \in Nat BY <3>1, LenProperties
    <3> QED BY <2>0, <3>2
  <2>2. FseekHistoryMessageHash(s[i]) = h
    BY <1>4, DatInvFinds DEF Readable, FseekFindsLine, StoreInv
  <2>3. Head(s) = s[1] BY <1>5
  <2>4. i # 1 BY <1>7, <2>2, <2>3
  <2>5. /\ Tail(s) \in Seq(Nat) /\ Len(Tail(s)) = Len(s) - 1
        /\ \A k \in 1..Len(Tail(s)) : Tail(s)[k] = s[k + 1]
    BY <1>5, HeadTailProperties
  <2>6. i - 1 \in 1..Len(Tail(s)) /\ (i - 1) + 1 = i BY <2>1, <2>4, <2>5
  <2>7. i - 1 \in DOMAIN Tail(s) /\ Tail(s)[i - 1] = s[i]
    BY <2>5, <2>6, LenProperties
  <2>8. \E k \in DOMAIN Tail(s) : Readable(h, Tail(s)[k]) BY <1>4, <2>7
  <2>9. Len(s) # 1 BY <2>1, <2>4
  <2>10. \/ job' = Reply(c, CaseRetry)
         \/ job' = ReadNext(c, Tail(s), job[c].multi)
    BY <1>1, <1>7, <2>9 DEF Compare, ReadError, NoMatch
  <2>11. CASE job' = Reply(c, CaseRetry)
    BY <1>2, <1>3, <2>11, ReplyGoesWell DEF Code
  <2>12. CASE job' = ReadNext(c, Tail(s), job[c].multi)
    BY <1>1, <1>3, <2>8, <2>12, ReadNextGoesWell
  <2> QED BY <2>10, <2>11, <2>12
<1> QED BY <1>6, <1>7

LEMMA WorkerKeepsSearch ==
  ASSUME StoreInv, SearchFinds, "read" \notin Faults,
         NEW r \in Requester, WorkerStep(r)
  PROVE  SearchFinds'
<1> SUFFICES ASSUME NEW c \in Client PROVE SearchGoesWell(c)'
  BY DEF SearchFinds
<1>1. /\ UNCHANGED datVars /\ sure' = sure /\ job[r] # NoJob
      /\ c \in Requester
  BY WorkerEffect DEF Requester
<1>2. Known' = Known /\ lines' = lines /\ fileSize' = fileSize
  BY <1>1, SameFile DEF StoreInv, datVars
<1>3. SearchGoesWell(c) BY DEF SearchFinds
<1>4. CASE c # r
  <2>1. job'[c] = job[c]
    <3>1. PICK j : WorkerDid(r, j) BY WorkerEffect
    <3>2. job' = [job EXCEPT ![r] = j] BY <3>1 DEF WorkerDid
    <3> QED BY <1>1, <1>4, <3>2 DEF StoreInv, StoreTypeOK
  <2> QED BY <1>1, <1>2, <1>3, <2>1 DEF SearchGoesWell, Is, Readable
<1>5. CASE c = r /\ ~sure[c] BY <1>1, <1>5 DEF SearchGoesWell
<1>6. CASE c = r /\ sure[c]
  <2>1. job[c].hash \in Known BY <1>1, <1>3, <1>6 DEF SearchGoesWell
  <2>2. ~WorkerReadFails(r) BY DEF WorkerReadFails
  <2>3. CASE WorkerLooksUp(r) BY <1>6, <2>1, <2>3, LookupGoesWell
  <2>4. CASE WorkerReads(r) BY <1>3, <1>6, <2>4, ReadGoesWell
  <2>5. CASE WorkerLookupFails(r) \/ WorkerInserts(r) \/ WorkerInsertFails(r)
    <3>1. job' = Reply(c, CaseRetry) \/ job' = Reply(c, CaseAdded)
      BY <1>6, <2>5 DEF WorkerLookupFails, WorkerInserts, WorkerInsertFails
    <3> QED BY <1>2, <2>1, <3>1, ReplyGoesWell DEF Code
  <2> QED BY <2>2, <2>3, <2>4, <2>5 DEF WorkerStep
<1> QED BY <1>4, <1>5, <1>6

\* The other steps drop requests, start them or leave them alone, while what is
\* known stays known.
LEMMA OthersKeepSearch ==
  ASSUME StoreInv, SearchFinds, [Next]_datVars,
         \A c \in Client :
           \/ job'[c] = job[c] /\ (sure'[c] => sure[c])
           \/ job'[c] = NoJob
           \/ job'[c].st = "queued" /\ (sure'[c] => job'[c].hash \in Known)
  PROVE  SearchFinds'
<1> SUFFICES ASSUME NEW c \in Client, job'[c] # NoJob, sure'[c]
             PROVE  SearchGoesWell(c)'
  BY DEF SearchFinds, SearchGoesWell
<1>1. Known \subseteq Known' BY KnownStays DEF StoreInv
<1>2. CASE job'[c] = job[c] /\ (sure'[c] => sure[c])
  <2>1. SearchGoesWell(c) BY DEF SearchFinds
  <2>2. Is(c, "scan") => (\E i \in DOMAIN job[c].todo :
                             Readable(job[c].hash, job[c].todo[i]))'
    <3> SUFFICES ASSUME Is(c, "scan")
                 PROVE  (\E i \in DOMAIN job[c].todo :
                           Readable(job[c].hash, job[c].todo[i]))'
      OBVIOUS
    <3>1. PICK i \in DOMAIN job[c].todo : Readable(job[c].hash, job[c].todo[i])
      BY <1>2, <2>1 DEF SearchGoesWell
    <3>2. PICK h, o : h = job[c].hash /\ o = job[c].todo[i] OBVIOUS
    <3>3. Readable(h, o) BY <3>1, <3>2
    <3>4. Readable(h, o)' BY <3>3, ReadableStays DEF StoreInv
    <3>5. i \in DOMAIN job'[c].todo /\ job'[c].hash = h /\ job'[c].todo[i] = o
      BY <1>2, <3>2
    <3> QED BY <3>4, <3>5 DEF Readable
  <2> QED BY <1>1, <1>2, <2>1, <2>2 DEF SearchGoesWell, Is
<1>3. CASE job'[c].st = "queued" /\ (sure'[c] => job'[c].hash \in Known)
  BY <1>1, <1>3 DEF SearchGoesWell, Is
<1> QED BY <1>2, <1>3

LEMMA NextKeepsSearch ==
  ASSUME StoreInv, SearchFinds, "read" \notin Faults, [StoreNext]_vars
  PROVE  SearchFinds'
<1>1. job \in [Requester -> Job \cup {NoJob}] /\ Client \subseteq Requester
      /\ Writer \in Requester /\ Writer \notin Client /\ sure \in [Client -> BOOLEAN]
  BY DEF StoreInv, StoreTypeOK, Requester
<1>2. ASSUME UNCHANGED <<datVars, job, sure>> PROVE SearchFinds'
  BY <1>2, OthersKeepSearch
<1>3. ASSUME NEW d \in Client, NEW h \in Hash, Search(d, h) PROVE SearchFinds'
  <2>1. /\ UNCHANGED datVars
        /\ job' = [job EXCEPT ![d] = Request(h, SearchOnly)]
        /\ sure' = [sure EXCEPT ![d] = h \in Known]
    BY <1>3 DEF Search
  <2>2. /\ job'[d].st = "queued" /\ job'[d].hash = h /\ sure'[d] = (h \in Known)
        /\ \A c \in Client \ {d} : job'[c] = job[c] /\ sure'[c] = sure[c]
    BY <1>1, <2>1 DEF Request
  <2> QED BY <2>1, <2>2, OthersKeepSearch
<1>4. ASSUME NEW d \in Client, TakeSearchReply(d) PROVE SearchFinds'
  <2>1. UNCHANGED datVars /\ job' = [job EXCEPT ![d] = NoJob]
        /\ sure' = [sure EXCEPT ![d] = FALSE]
    BY <1>4 DEF TakeSearchReply
  <2>2. /\ job'[d] = NoJob
        /\ \A c \in Client \ {d} : job'[c] = job[c] /\ sure'[c] = sure[c]
    BY <1>1, <2>1
  <2> QED BY <2>1, <2>2, OthersKeepSearch
<1>5. ASSUME NEW d \in Client, ClientStep(d) PROVE SearchFinds'
  BY <1>2, <1>3, <1>4, <1>5
     DEF ClientStep, AddHistory, AddBadObject, TakeAddReply, chanVars
<1>6. CASE CloseHistory BY <1>2, <1>6 DEF CloseHistory
<1>7. ASSUME NEW r \in Requester, WorkerStep(r) PROVE SearchFinds'
  BY <1>7, WorkerKeepsSearch
<1>8. CASE WriterReceives \/ WriterAnswers
  <2>1. UNCHANGED datVars /\ UNCHANGED sure
        /\ \E j : job' = [job EXCEPT ![Writer] = j]
    BY <1>8 DEF WriterReceives, WriterAnswers
  <2>2. \A c \in Client : job'[c] = job[c] BY <1>1, <2>1
  <2> QED BY <2>1, <2>2, OthersKeepSearch
<1>9. CASE WriterStops \/ WriterFlushes
  <2>1. Flush \/ FlushFails BY <1>9 DEF WriterStops, WriterFlushes
  <2>2. UNCHANGED <<job, sure>> BY <1>9 DEF WriterStops, WriterFlushes
  <2> QED BY <2>1, <2>2, OthersKeepSearch DEF Next
<1>10. CASE WriterWrites
  <2>1. \/ WriteHistoryLine(wobj.hash, wobj.len)
        \/ WriteHistoryLineFails(wobj.hash, wobj.len)
    BY <1>10 DEF WriterWrites
  <2>2. UNCHANGED <<job, sure>> BY <1>10 DEF WriterWrites
  <2>3. wobj.hash \in Hash /\ wobj.len \in LineLen
    BY <1>10 DEF WriterWrites, StoreInv, NextIsFiled, Object
  <2>4. [Next]_datVars BY <2>1, <2>3 DEF Next
  <2> QED BY <2>2, <2>4, OthersKeepSearch
<1>11. CASE Crash
  <2>1. Reopen /\ job' = [r \in Requester |-> NoJob] BY <1>11 DEF Crash
  <2>2. \A c \in Client : job'[c] = NoJob BY <1>1, <2>1
  <2> QED BY <2>1, <2>2, OthersKeepSearch DEF Next
<1>12. CASE UNCHANGED vars BY <1>2, <1>12 DEF vars, storeVars
<1> QED BY <1>5, <1>6, <1>7, <1>8, <1>9, <1>10, <1>11, <1>12
        DEF StoreNext, WriterStep

\* If reading the file works, a search that was asked when the line was in the
\* file is never told CasePass, whatever else fails, stops or restarts.
THEOREM FlushedAlwaysFound ==
  ASSUME "read" \notin Faults
  PROVE  StoreSpec => []FlushedIsFound
<1>1. StoreInit => SearchFinds
  BY DEF StoreInit, SearchFinds, SearchGoesWell, Requester
<1>2. StoreInv /\ SearchFinds /\ [StoreNext]_vars => SearchFinds'
  BY NextKeepsSearch
<1>3. SearchFinds => FlushedIsFound
  BY DEF SearchFinds, SearchGoesWell, FlushedIsFound, Is
<1> QED BY <1>1, <1>2, <1>3, StoreInitInv, StoreNextKeeps, PTL DEF StoreSpec
-----------------------------------------------------------------------------
LEMMA NextKeepsAcked ==
  ASSUME AckedIsWritten, [StoreNext]_vars
  PROVE  AckedIsWritten'
<1>1. ASSUME UNCHANGED <<lines, failed, wpc, wobj, acked>> PROVE AckedIsWritten'
  BY <1>1 DEF AckedIsWritten
<1>2. CASE \E c \in Client : ClientStep(c)
  BY <1>1, <1>2 DEF ClientStep, Search, AddHistory, AddBadObject,
     TakeSearchReply, TakeAddReply, datVars, chanVars
<1>3. CASE CloseHistory BY <1>1, <1>3 DEF CloseHistory, datVars
<1>4. CASE \E r \in Requester : WorkerStep(r)
  BY <1>1, <1>4 DEF WorkerStep, WorkerLooksUp, WorkerLookupFails, WorkerReads,
     WorkerReadFails, WorkerInserts, WorkerInsertFails, datVars, chanVars
<1>5. CASE WriterReceives
  BY <1>5 DEF WriterReceives, AckedIsWritten, datVars
<1>6. CASE WriterStops \/ WriterFlushes
  <2>1. wpc # "write" /\ acked' = acked /\ lines' = lines
        /\ (failed' = failed \/ failed' = TRUE)
    BY <1>6 DEF WriterStops, WriterFlushes, Flush, FlushFails
  <2> QED BY <2>1 DEF AckedIsWritten
<1>7. CASE WriterAnswers
  <2>1. /\ wpc = "index" /\ wobj' = wobj /\ lines' = lines /\ failed' = failed
        /\ wpc' = AfterIndex(job[Writer].code)
        /\ acked' = IF job[Writer].code = CaseAdded THEN acked \cup {wobj.hash}
                    ELSE acked
    BY <1>7 DEF WriterAnswers, datVars
  <2>2. CASE job[Writer].code = CaseAdded
    <3>1. wpc' = "write" /\ acked' = acked \cup {wobj.hash}
      BY <2>1, <2>2 DEF AfterIndex
    <3> QED BY <2>1, <3>1 DEF AckedIsWritten
  <2>3. CASE job[Writer].code # CaseAdded
    BY <2>1, <2>3 DEF AckedIsWritten
  <2> QED BY <2>2, <2>3
<1>8. CASE WriterWrites
  <2>1. CASE WriteHistoryLine(wobj.hash, wobj.len)
    <3> DEFINE new == [at |-> streamEnd, len |-> wobj.len, hash |-> wobj.hash]
    <3>1. ~failed /\ acked' = acked /\ lines' = lines \cup {new}
      BY <1>8, <2>1 DEF WriterWrites, WriteHistoryLine, Appended
    <3>2. new.hash = wobj.hash OBVIOUS
    <3> HIDE DEF new
    <3> QED BY <3>1, <3>2 DEF AckedIsWritten
  <2>2. CASE WriteHistoryLineFails(wobj.hash, wobj.len)
    <3>1. failed' = TRUE
      BY <2>2 DEF WriteHistoryLineFails, CheckFlushFails, LongLineFails
    <3> QED BY <3>1 DEF AckedIsWritten
  <2> QED BY <1>8, <2>1, <2>2 DEF WriterWrites
<1>9. CASE Crash BY <1>9 DEF Crash, AckedIsWritten
<1>10. CASE UNCHANGED vars
  BY <1>1, <1>10 DEF vars, datVars, storeVars, chanVars
<1> QED BY <1>2, <1>3, <1>4, <1>5, <1>6, <1>7, <1>8, <1>9, <1>10
        DEF StoreNext, WriterStep

\* Until a write fails or the process dies, what was acknowledged with CaseAdded
\* is in the stream or is what the writer writes next.
THEOREM AckedAlwaysWritten == StoreSpec => []AckedIsWritten
<1>1. StoreInit => AckedIsWritten BY DEF StoreInit, AckedIsWritten
<1> QED BY <1>1, NextKeepsAcked, PTL DEF StoreSpec
-----------------------------------------------------------------------------
(* The step simulation of DupeOracle.                                       *)

\* Whoever searches has a request, and it is a search.
ClientAsks ==
  \A c \in Client : /\ client[c] = "search" <=> job[c] # NoJob
                    /\ job[c] # NoJob => job[c].at = SearchOnly

LEMMA RequestIsNoJob ==
  ASSUME NEW h \in Hash, NEW at \in Int
  PROVE  Request(h, at) \in Job /\ Request(h, at) # NoJob
<1>1. Request(h, at) \in Job BY EmptySeq DEF Request, Job
<1> QED BY <1>1, JobAssumption

LEMMA NextKeepsAsks ==
  ASSUME StoreInv, ClientAsks, [StoreNext]_vars
  PROVE  ClientAsks'
<1>1. /\ job \in [Requester -> Job \cup {NoJob}] /\ Client \subseteq Requester
      /\ Writer \in Requester /\ Writer \notin Client
      /\ client \in [Client -> {"idle", "search", "add"}]
  BY DEF StoreInv, StoreTypeOK, Requester
<1>2. ASSUME \A c \in Client : /\ job'[c] = job[c]
                               /\ client'[c] = "search" <=> client[c] = "search"
      PROVE  ClientAsks'
  BY <1>2 DEF ClientAsks
<1>3. ASSUME NEW d \in Client, NEW h \in Hash, Search(d, h) PROVE ClientAsks'
  <2>1. /\ job'[d] = Request(h, SearchOnly) /\ client'[d] = "search"
        /\ \A c \in Client \ {d} : job'[c] = job[c] /\ client'[c] = client[c]
    BY <1>1, <1>3 DEF Search
  <2>2. Request(h, SearchOnly).at = SearchOnly /\ Request(h, SearchOnly) # NoJob
    BY RequestIsNoJob DEF Request, SearchOnly
  <2> QED BY <2>1, <2>2 DEF ClientAsks
<1>4. ASSUME NEW d \in Client, TakeSearchReply(d) PROVE ClientAsks'
  <2>1. /\ job'[d] = NoJob /\ client'[d] = "idle"
        /\ \A c \in Client \ {d} : job'[c] = job[c] /\ client'[c] = client[c]
    BY <1>1, <1>4 DEF TakeSearchReply
  <2> QED BY <2>1 DEF ClientAsks
<1>5. ASSUME NEW d \in Client,
             \/ \E o \in Object : AddHistory(d, o)
             \/ AddBadObject(d) \/ TakeAddReply(d)
      PROVE  ClientAsks'
  BY <1>1, <1>2, <1>5 DEF AddHistory, AddBadObject, TakeAddReply
<1>6. ASSUME NEW r \in Requester, WorkerStep(r) PROVE ClientAsks'
  <2>1. PICK j : WorkerDid(r, j) BY <1>6, WorkerEffect
  <2>2. client' = client /\ job[r] # NoJob BY <1>6, WorkerEffect
  <2>3. /\ job'[r] = j /\ j.at = job[r].at /\ j # NoJob
        /\ \A c \in Requester : c # r => job'[c] = job[c]
    BY <1>1, <2>1, JobAssumption DEF WorkerDid
  <2> QED BY <1>1, <2>2, <2>3 DEF ClientAsks
<1>7. CASE WriterReceives \/ WriterAnswers
  <2>1. client' = client /\ \E j : job' = [job EXCEPT ![Writer] = j]
    BY <1>7 DEF WriterReceives, WriterAnswers
  <2>2. \A c \in Client : job'[c] = job[c] BY <1>1, <2>1
  <2> QED BY <1>2, <2>1, <2>2
<1>8. CASE CloseHistory \/ WriterStops \/ WriterWrites \/ WriterFlushes \/ UNCHANGED vars
  BY <1>2, <1>8 DEF CloseHistory, WriterStops, WriterWrites, WriterFlushes, vars, storeVars
<1>9. CASE Crash
  <2>1. \A c \in Client : job'[c] = NoJob /\ client'[c] = "idle" BY <1>1, <1>9 DEF Crash
  <2> QED BY <2>1 DEF ClientAsks
<1> QED BY <1>3, <1>4, <1>5, <1>6, <1>7, <1>8, <1>9 DEF StoreNext, ClientStep, WriterStep

\* What one step does to a value for each client.
LEMMA OneChanges ==
  ASSUME NEW S, NEW f, NEW g, f = [x \in S |-> f[x]], g = [x \in S |-> g[x]],
         NEW c \in S, NEW v, g[c] = v, \A d \in S : d # c => g[d] = f[d]
  PROVE  g = [f EXCEPT ![c] = v]
OBVIOUS

LEMMA NoneChanges ==
  ASSUME NEW S, NEW f, NEW g, f = [x \in S |-> f[x]], g = [x \in S |-> g[x]],
         \A d \in S : g[d] = f[d]
  PROVE  g = f
OBVIOUS

LEMMA OracleValues ==
  /\ Asked = [c \in Client |-> Asked[c]] /\ Asked' = [c \in Client |-> Asked'[c]]
  /\ Unsure = [c \in Client |-> Unsure[c]] /\ Unsure' = [c \in Client |-> Unsure'[c]]
  /\ Answered = [c \in Client |-> Answered[c]]
  /\ Answered' = [c \in Client |-> Answered'[c]]
BY DEF Asked, Unsure, Answered

\* What the oracle sees of a client: nothing, a question, or an answer.
LEMMA OracleSees ==
  ASSUME ClientAsks, ClientAsks', NEW c \in Client
  PROVE  /\ job[c] = NoJob => Asked[c] = {} /\ Unsure[c] = {} /\ Answered[c] = {}
         /\ job[c] # NoJob /\ job[c].st # "done" =>
              /\ Asked[c] = {job[c].hash} /\ Answered[c] = {}
              /\ Unsure[c] = IF sure[c] THEN {} ELSE {job[c].hash}
         /\ job[c] # NoJob /\ job[c].st = "done" =>
              /\ Asked[c] = {} /\ Unsure[c] = {}
              /\ Answered[c] = {<<job[c].hash, job[c].code>>}
         /\ job'[c] = NoJob => Asked'[c] = {} /\ Unsure'[c] = {} /\ Answered'[c] = {}
         /\ job'[c] # NoJob /\ job'[c].st # "done" =>
              /\ Asked'[c] = {job'[c].hash} /\ Answered'[c] = {}
              /\ Unsure'[c] = IF sure'[c] THEN {} ELSE {job'[c].hash}
         /\ job'[c] # NoJob /\ job'[c].st = "done" =>
              /\ Asked'[c] = {} /\ Unsure'[c] = {}
              /\ Answered'[c] = {<<job'[c].hash, job'[c].code>>}
<1>1. /\ client[c] = "search" <=> job[c] # NoJob
      /\ client'[c] = "search" <=> job'[c] # NoJob
  BY DEF ClientAsks
<1>2. /\ Open(c) <=> job[c] # NoJob /\ job[c].st # "done"
      /\ Open(c)' <=> job'[c] # NoJob /\ job'[c].st # "done"
      /\ Is(c, "done") <=> job[c] # NoJob /\ job[c].st = "done"
      /\ Is(c, "done")' <=> job'[c] # NoJob /\ job'[c].st = "done"
  BY <1>1 DEF Open, Is
<1>3. Asked[c] = (IF Open(c) THEN {job[c].hash} ELSE {}) BY DEF Asked
<1>4. Asked'[c] = (IF Open(c)' THEN {job'[c].hash} ELSE {}) BY DEF Asked
<1>5. Unsure[c] = (IF Open(c) /\ ~sure[c] THEN {job[c].hash} ELSE {}) BY DEF Unsure
<1>6. Unsure'[c] = (IF Open(c)' /\ ~sure'[c] THEN {job'[c].hash} ELSE {}) BY DEF Unsure
<1>7. Answered[c] = (IF Is(c, "done") THEN {<<job[c].hash, job[c].code>>} ELSE {})
  BY DEF Answered
<1>8. Answered'[c] = (IF Is(c, "done")' THEN {<<job'[c].hash, job'[c].code>>} ELSE {})
  BY DEF Answered
<1> QED BY <1>2, <1>3, <1>4, <1>5, <1>6, <1>7, <1>8

\* A client whose question, if it has one, stays open or who keeps its answer
\* looks the same to the oracle.
LEMMA SeesTheSame ==
  ASSUME ClientAsks, ClientAsks', NEW c \in Client, sure'[c] = sure[c],
         \/ job'[c] = job[c]
         \/ /\ job[c] # NoJob /\ job'[c] # NoJob
            /\ job[c].st # "done" /\ job'[c].st # "done"
            /\ job'[c].hash = job[c].hash
  PROVE  Asked'[c] = Asked[c] /\ Unsure'[c] = Unsure[c] /\ Answered'[c] = Answered[c]
<1>1. CASE job'[c] # NoJob /\ job'[c].st # "done"
  <2>1. job[c] # NoJob /\ job[c].st # "done" /\ job'[c].hash = job[c].hash BY <1>1
  <2>2. /\ Asked[c] = {job[c].hash} /\ Answered[c] = {}
        /\ Unsure[c] = IF sure[c] THEN {} ELSE {job[c].hash}
    BY <2>1, OracleSees
  <2>3. /\ Asked'[c] = {job'[c].hash} /\ Answered'[c] = {}
        /\ Unsure'[c] = IF sure'[c] THEN {} ELSE {job'[c].hash}
    BY <1>1, OracleSees
  <2> QED BY <2>1, <2>2, <2>3
<1>2. CASE job'[c] # NoJob /\ job'[c].st = "done" BY <1>2, OracleSees
<1>3. CASE job'[c] = NoJob BY <1>3, OracleSees
<1> QED BY <1>1, <1>2, <1>3

LEMMA OracleRests ==
  ASSUME ClientAsks, ClientAsks',
         \A c \in Client : sure'[c] = sure[c] /\ job'[c] = job[c]
  PROVE  UNCHANGED <<Asked, Unsure, Answered>>
<1>1. \A c \in Client : /\ Asked'[c] = Asked[c] /\ Unsure'[c] = Unsure[c]
                        /\ Answered'[c] = Answered[c]
  BY SeesTheSame
<1>2. Asked' = Asked BY <1>1, OracleValues, NoneChanges
<1>3. Unsure' = Unsure BY <1>1, OracleValues, NoneChanges
<1>4. Answered' = Answered BY <1>1, OracleValues, NoneChanges
<1> QED BY <1>2, <1>3, <1>4

LEMMA KnownIsHash == ASSUME DatInv PROVE Known \subseteq Hash
BY DEF Known, DatInv, DatTypeOK, Line

\* A step of the file is learning: what is known stays known.
LEMMA FileStepLearns ==
  ASSUME StoreInv, StoreInv', [Next]_datVars, ClientAsks, ClientAsks',
         \A c \in Client : sure'[c] = sure[c] /\ job'[c] = job[c]
  PROVE  Oracle!Learn
<1>1. UNCHANGED <<Asked, Unsure, Answered>> BY OracleRests
<1>2. Known \subseteq Known' BY KnownStays DEF StoreInv
<1>3. Known' \subseteq Hash
  <2>1. DatInv' BY DEF StoreInv
  <2>2. lines' \subseteq Line BY <2>1 DEF DatInv, DatTypeOK
  <2> QED BY <2>2 DEF Known, Line
<1>4. Known' = Known \cup Known' BY <1>2
<1> HIDE DEF Known
<1> QED BY <1>1, <1>3, <1>4 DEF Oracle!Learn

LEMMA SearchAsks ==
  ASSUME StoreInv, ClientAsks, ClientAsks',
         NEW d \in Client, NEW h \in Hash, Search(d, h)
  PROVE  Oracle!Ask(d, h)
<1>1. /\ job \in [Requester -> Job \cup {NoJob}] /\ Client \subseteq Requester
      /\ sure \in [Client -> BOOLEAN]
  BY DEF StoreInv, StoreTypeOK, Requester
<1>2. /\ client[d] = "idle" /\ UNCHANGED datVars
      /\ job' = [job EXCEPT ![d] = Request(h, SearchOnly)]
      /\ sure' = [sure EXCEPT ![d] = h \in Known]
  BY DEF Search
<1>3. /\ job'[d] = Request(h, SearchOnly) /\ sure'[d] = (h \in Known)
      /\ \A c \in Client : c # d => job'[c] = job[c] /\ sure'[c] = sure[c]
  BY <1>1, <1>2
<1>4. job'[d] # NoJob /\ job'[d].st = "queued" /\ job'[d].hash = h
  BY <1>3, RequestIsNoJob DEF Request, SearchOnly
<1>5. job[d] = NoJob BY <1>2 DEF ClientAsks
<1>6. /\ Asked[d] = {} /\ Answered[d] = {}
      /\ Asked'[d] = {h} /\ Answered'[d] = {}
      /\ Unsure'[d] = IF sure'[d] THEN {} ELSE {h}
  BY <1>4, <1>5, OracleSees
<1>7. Unsure'[d] = {h} \ Known BY <1>3, <1>6
<1>8. \A c \in Client : c # d => /\ Asked'[c] = Asked[c] /\ Unsure'[c] = Unsure[c]
                                 /\ Answered'[c] = Answered[c]
  BY <1>3, SeesTheSame
<1>9. Asked' = [Asked EXCEPT ![d] = {h}] BY <1>6, <1>8, OracleValues, OneChanges
<1>10. Unsure' = [Unsure EXCEPT ![d] = {h} \ Known]
  BY <1>7, <1>8, OracleValues, OneChanges
<1>11. \A c \in Client : Answered'[c] = Answered[c] BY <1>6, <1>8
<1>12. Answered' = Answered BY <1>11, OracleValues, NoneChanges
<1>13. Known' = Known BY <1>2, SameFile DEF StoreInv
<1> QED BY <1>6, <1>9, <1>10, <1>12, <1>13 DEF Oracle!Ask

LEMMA ReplyIsTaken ==
  ASSUME StoreInv, ClientAsks, ClientAsks', NEW d \in Client, TakeSearchReply(d)
  PROVE  Oracle!Take(d)
<1>1. /\ job \in [Requester -> Job \cup {NoJob}] /\ Client \subseteq Requester
      /\ sure \in [Client -> BOOLEAN]
  BY DEF StoreInv, StoreTypeOK, Requester
<1>2. /\ job[d] # NoJob /\ job[d].st = "done" /\ UNCHANGED datVars
      /\ job' = [job EXCEPT ![d] = NoJob] /\ sure' = [sure EXCEPT ![d] = FALSE]
  BY DEF TakeSearchReply, Is
<1>3. /\ job'[d] = NoJob
      /\ \A c \in Client : c # d => job'[c] = job[c] /\ sure'[c] = sure[c]
  BY <1>1, <1>2
<1>4. /\ Asked[d] = {} /\ Unsure[d] = {} /\ Answered[d] = {<<job[d].hash, job[d].code>>}
      /\ Asked'[d] = {} /\ Unsure'[d] = {} /\ Answered'[d] = {}
  BY <1>2, <1>3, OracleSees
<1>5. \A c \in Client : c # d => /\ Asked'[c] = Asked[c] /\ Unsure'[c] = Unsure[c]
                                 /\ Answered'[c] = Answered[c]
  BY <1>3, SeesTheSame
<1>6. Answered' = [Answered EXCEPT ![d] = {}]
  BY <1>4, <1>5, OracleValues, OneChanges
<1>7. \A c \in Client : Asked'[c] = Asked[c] /\ Unsure'[c] = Unsure[c]
  BY <1>4, <1>5
<1>8. Asked' = Asked BY <1>7, OracleValues, NoneChanges
<1>9. Unsure' = Unsure BY <1>7, OracleValues, NoneChanges
<1>10. Known' = Known BY <1>2, SameFile DEF StoreInv
<1> QED BY <1>4, <1>6, <1>8, <1>9, <1>10 DEF Oracle!Take

\* A worker never touches a request it has answered.
LEMMA AnsweredOnce ==
  ASSUME NEW r \in Requester, WorkerStep(r)
  PROVE  job[r].st # "done"
BY DEF WorkerStep, WorkerLooksUp, WorkerLookupFails, WorkerReads,
   WorkerReadFails, WorkerInserts, WorkerInsertFails, Picks, Is

\* Where an offset of the database leads as long as no process has died: to a
\* line, or to the place of the next one.
Leads(o) == o = streamEnd \/ \E l \in lines : l.at = o

OffsetsLead ==
  /\ failed => wpc = "stopped"
  /\ job[Writer] # NoJob => wpc = "index"
  /\ \A h \in Hash : \A o \in OffsetsOf(h) : Leads(o)
  /\ \A r \in Requester : Is(r, "scan") =>
       \A i \in DOMAIN job[r].todo : Leads(job[r].todo[i])

\* A reader that is led so does not read the rest of a line.
LEMMA LedWell ==
  ASSUME DatInv, NEW o, Leads(o)
  PROVE  FseekHistoryMessageHash(o) # BadLine
<1>1. /\ fileSize \in Nat /\ buffered \in Nat
      /\ \A l \in lines : l.hash \in Hash
      /\ BadLine \notin Hash /\ BadLine # eofhash /\ BadLine # NoHash
  BY DEF DatInv, DatTypeOK, Line
<1>2. CASE o = streamEnd
  <2>1. \A t \in TabsOnDisk : t \in Nat /\ t < fileSize
    BY DEF TabsOnDisk, DatInv, DatTypeOK, Line
  <2>2. \A t \in TabsOnDisk : t < o BY <1>1, <1>2, <2>1 DEF streamEnd
  <2> QED BY <1>1, <2>2 DEF FseekHistoryMessageHash
<1>3. CASE \E l \in lines : l.at = o
  <2>1. LineAt(o) # {} BY <1>3 DEF LineAt
  <2>2. CASE \E l \in LineAt(o) : l.len >= KeyField
    <3> DEFINE first == CHOOSE l \in LineAt(o) : l.len >= KeyField
    <3>1. first \in lines BY <2>2 DEF LineAt
    <3>2. FseekHistoryMessageHash(o) \in {eofhash, first.hash}
      BY <2>2 DEF FseekHistoryMessageHash
    <3> HIDE DEF first
    <3> QED BY <1>1, <3>1, <3>2
  <2>3. CASE ~ \E l \in LineAt(o) : l.len >= KeyField
    <3>1. FseekHistoryMessageHash(o) \in {eofhash, NoHash}
      BY <2>1, <2>3 DEF FseekHistoryMessageHash
    <3> QED BY <1>1, <3>1
  <2> QED BY <2>2, <2>3
<1> QED BY <1>2, <1>3 DEF Leads

\* The end of the stream moves only when a line is put there, if only in part.
LEMMA FileStepLeads ==
  ASSUME DatInv,
         \/ UNCHANGED datVars
         \/ Flush \/ FlushFails
         \/ \E h \in Hash, ll \in LineLen :
              WriteHistoryLine(h, ll) \/ WriteHistoryLineFails(h, ll),
         NEW o, Leads(o)
  PROVE  Leads(o)'
<1>1. fileSize \in Nat /\ buffered \in Nat BY DEF DatInv, DatTypeOK
<1>2. CASE UNCHANGED datVars BY <1>2 DEF datVars, Leads, streamEnd
<1>3. CASE Flush BY <1>1, <1>3 DEF Flush, Leads, streamEnd
<1>4. ASSUME NEW n \in 0..MaxOffset, ShortWrite(n), lines' = lines PROVE Leads(o)'
  <2>1. streamEnd' = streamEnd BY <1>1, <1>4 DEF ShortWrite, streamEnd
  <2> QED BY <1>4, <2>1 DEF Leads
<1>5. CASE FlushFails BY <1>4, <1>5 DEF FlushFails
<1>6. ASSUME NEW h \in Hash, NEW len, lines' = Appended(h, len) PROVE Leads(o)'
  <2> DEFINE line == [at |-> streamEnd, len |-> len, hash |-> h]
  <2>1. lines \subseteq lines' /\ line \in lines' /\ line.at = streamEnd
    BY <1>6 DEF Appended
  <2> HIDE DEF line
  <2> QED BY <2>1 DEF Leads
<1>7. ASSUME NEW h \in Hash, NEW ll \in LineLen,
             WriteHistoryLine(h, ll) \/ WriteHistoryLineFails(h, ll)
      PROVE  Leads(o)'
  <2>1. CASE WriteHistoryLine(h, ll) BY <1>6, <2>1 DEF WriteHistoryLine
  <2>2. ASSUME NEW n \in 0..MaxOffset, CheckFlushFails(ll, n) PROVE Leads(o)'
    BY <1>4, <2>2 DEF CheckFlushFails
  <2>3. ASSUME NEW n \in 0..MaxOffset, LongLineFails(h, ll, n) PROVE Leads(o)'
    <3>1. CASE n # 0 BY <1>6, <2>3, <3>1 DEF LongLineFails
    <3>2. CASE n = 0
      <4>1. lines' = lines /\ streamEnd' = streamEnd
        BY <1>1, <2>3, <3>2 DEF LongLineFails, streamEnd
      <4> QED BY <4>1 DEF Leads
    <3> QED BY <3>1, <3>2
  <2> QED BY <1>7, <2>1, <2>2, <2>3 DEF WriteHistoryLineFails
<1> QED BY <1>2, <1>3, <1>5, <1>7

\* Steps that file nothing and read nothing.
LEMMA OthersKeepLeads ==
  ASSUME StoreInv, OffsetsLead,
         \/ UNCHANGED datVars
         \/ Flush \/ FlushFails
         \/ \E h \in Hash, ll \in LineLen :
              WriteHistoryLine(h, ll) \/ WriteHistoryLineFails(h, ll),
         db' = db,
         \A r \in Requester : \/ job'[r] = job[r]
                              \/ job'[r] = NoJob
                              \/ job'[r].st = "queued",
         failed' => wpc' = "stopped",
         job'[Writer] # NoJob => wpc' = "index"
  PROVE  OffsetsLead'
<1>1. \A o : Leads(o) => Leads(o)' BY FileStepLeads DEF StoreInv
<1>2. \A h \in Hash : \A o \in OffsetsOf(h)' : Leads(o)'
  BY <1>1 DEF OffsetsLead, OffsetsOf
<1>3. ASSUME NEW r \in Requester, Is(r, "scan")', NEW i \in DOMAIN job'[r].todo
      PROVE  \E o : o = job'[r].todo[i] /\ Leads(o)'
  <2>1. job'[r] = job[r] BY <1>3 DEF Is
  <2>2. Leads(job[r].todo[i]) BY <1>3, <2>1 DEF OffsetsLead, Is
  <2> QED BY <1>1, <2>1, <2>2
<1> QED BY <1>2, <1>3 DEF OffsetsLead, Leads

\* What is left to read of a request was in the database or was left before.
WorkerLeaves(r, j) ==
  /\ job' = [job EXCEPT ![r] = j]
  /\ \/ j.st = "done"
     \/ \A i \in DOMAIN j.todo :
          \/ j.todo[i] \in OffsetsOf(job[r].hash)
          \/ Is(r, "scan") /\ \E k \in DOMAIN job[r].todo : j.todo[i] = job[r].todo[k]

LEMMA WorkerTodo ==
  ASSUME StoreInv, NEW r \in Requester, WorkerStep(r)
  PROVE  \E j : WorkerLeaves(r, j)
<1>1. ASSUME NEW code, job' = Reply(r, code) PROVE \E j : WorkerLeaves(r, j)
  <2>1. Served(r, "done", <<>>, FALSE, code).st = "done" BY DEF Served
  <2>2. WorkerLeaves(r, Served(r, "done", <<>>, FALSE, code))
    BY <1>1, <2>1 DEF Reply, WorkerLeaves
  <2> QED BY <2>2
<1>2. ASSUME NEW todo, NEW multi, job' = ReadNext(r, todo, multi),
             \A i \in DOMAIN todo :
               \/ todo[i] \in OffsetsOf(job[r].hash)
               \/ Is(r, "scan") /\ \E k \in DOMAIN job[r].todo : todo[i] = job[r].todo[k]
      PROVE  \E j : WorkerLeaves(r, j)
  <2>1. Served(r, "scan", todo, multi, NoReply).todo = todo BY DEF Served
  <2>2. WorkerLeaves(r, Served(r, "scan", todo, multi, NoReply))
    BY <1>2, <2>1 DEF ReadNext, WorkerLeaves
  <2> QED BY <2>2
<1>3. CASE WorkerLooksUp(r)
  <2> DEFINE s == db[Key[job[r].hash]]
  <2>1. PICK multi : job' = Reply(r, CasePass) \/ job' = ReadNext(r, s, multi)
    BY <1>3 DEF WorkerLooksUp
  <2>2. \A i \in DOMAIN s : s[i] \in OffsetsOf(job[r].hash) BY DEF OffsetsOf
  <2> HIDE DEF s
  <2> QED BY <1>1, <1>2, <2>1, <2>2
<1>4. CASE WorkerReads(r) \/ WorkerReadFails(r)
  <2> DEFINE s == job[r].todo
  <2>1. Is(r, "scan") BY <1>4 DEF WorkerReads, WorkerReadFails
  <2>2. \/ \E code : job' = Reply(r, code)
        \/ job' = ReadNext(r, Tail(s), job[r].multi)
    BY <1>4 DEF WorkerReads, WorkerReadFails, Compare, ReadError, NoMatch
  <2>3. s \in Seq(Nat) /\ s # <<>> BY <2>1, ScanFacts
  <2>4. /\ Tail(s) \in Seq(Nat) /\ Len(Tail(s)) = Len(s) - 1
        /\ \A k \in 1..Len(Tail(s)) : Tail(s)[k] = s[k + 1]
    BY <2>3, HeadTailProperties
  <2>5. /\ Len(s) \in Nat /\ DOMAIN s = 1..Len(s)
        /\ DOMAIN Tail(s) = 1..Len(Tail(s))
    BY <2>3, <2>4, LenProperties
  <2>6. \A i \in DOMAIN Tail(s) : i + 1 \in DOMAIN s /\ Tail(s)[i] = s[i + 1]
    BY <2>4, <2>5
  <2>7. \A i \in DOMAIN Tail(s) : \E k \in DOMAIN s : Tail(s)[i] = s[k] BY <2>6
  <2>8. CASE \E code : job' = Reply(r, code) BY <1>1, <2>8
  <2>9. CASE job' = ReadNext(r, Tail(s), job[r].multi)
    <3>1. PICK todo : todo = Tail(s) OBVIOUS
    <3>2. \A i \in DOMAIN todo : \E k \in DOMAIN job[r].todo : todo[i] = job[r].todo[k]
      BY <2>7, <3>1
    <3>3. job' = ReadNext(r, todo, job[r].multi) BY <2>9, <3>1
    <3> QED BY <1>2, <2>1, <3>2, <3>3
  <2> QED BY <2>2, <2>8, <2>9
<1>5. CASE WorkerLookupFails(r) \/ WorkerInserts(r) \/ WorkerInsertFails(r)
  <2>1. job' = Reply(r, CaseRetry) \/ job' = Reply(r, CaseAdded)
    BY <1>5 DEF WorkerLookupFails, WorkerInserts, WorkerInsertFails
  <2> QED BY <1>1, <2>1
<1> QED BY <1>3, <1>4, <1>5 DEF WorkerStep

\* Only the writer files offsets, and the one it files is the end of the stream.
LEMMA WorkerKeepsLeads ==
  ASSUME StoreInv, ClientAsks, OffsetsLead, NEW r \in Requester, WorkerStep(r)
  PROVE  OffsetsLead'
<1>1. /\ UNCHANGED <<datVars, chanVars>> /\ job[r] # NoJob
      /\ job \in [Requester -> Job \cup {NoJob}] /\ Writer \in Requester
  BY WorkerEffect DEF Requester, StoreInv, StoreTypeOK
<1>2. PICK j : WorkerLeaves(r, j) BY WorkerTodo
<1>3. job'[r] = j /\ \A q \in Requester : q # r => job'[q] = job[q]
  BY <1>1, <1>2 DEF WorkerLeaves
<1>4. \A o : Leads(o) => Leads(o)' BY <1>1 DEF datVars, Leads, streamEnd
<1>5. job[r].hash \in Hash BY <1>1 DEF Job
<1>6. (failed => wpc = "stopped")' /\ (job[Writer] # NoJob => wpc = "index")'
  BY <1>1, <1>3 DEF OffsetsLead, datVars, chanVars
<1>7. ASSUME NEW q \in Requester, Is(q, "scan")', NEW i \in DOMAIN job'[q].todo
      PROVE  \E o : o = job'[q].todo[i] /\ Leads(o)'
  <2>1. CASE q # r
    <3>1. job'[q] = job[q] BY <1>3, <2>1
    <3>2. Leads(job[q].todo[i]) BY <1>7, <3>1 DEF OffsetsLead, Is
    <3> QED BY <1>4, <3>1, <3>2
  <2>2. CASE q = r
    <3>1. Leads(j.todo[i])
      BY <1>2, <1>3, <1>5, <1>7, <2>2 DEF OffsetsLead, Is, WorkerLeaves
    <3> QED BY <1>3, <1>4, <2>2, <3>1
  <2> QED BY <2>1, <2>2
<1>8. \A h \in Hash : \A o \in FiledAfter(h) : Leads(o)
  <2>1. CASE db' = db BY <2>1 DEF FiledAfter, OffsetsOf, OffsetsLead
  <2>2. CASE db' # db
    <3>1. db' = Filed(r) /\ job[r].at > 0
      BY <2>2 DEF WorkerStep, WorkerLooksUp, WorkerLookupFails, WorkerReads,
                  WorkerReadFails, WorkerInserts, WorkerInsertFails
    <3>2. r = Writer
      BY <1>1, <3>1 DEF Requester, ClientAsks, SearchOnly
    <3>3. job[r].at = streamEnd /\ streamEnd \in Nat
      BY <1>1, <3>2 DEF OffsetsLead, StoreInv, RequestIsNext, DatInv, OffsetIsEnd,
                       DatTypeOK, streamEnd
    <3>4. PICK g \in Hash : g = job[r].hash BY <1>5
    <3>5. db' = [db EXCEPT ![Key[g]] = Append(@, streamEnd)]
      BY <3>1, <3>3, <3>4 DEF Filed
    <3>6. db \in [Keys -> Seq(Nat)] BY DEF StoreInv, StoreTypeOK
    <3>7. \A h \in Hash : FiledAfter(h) \subseteq OffsetsOf(h) \cup {streamEnd}
      BY <3>3, <3>5, <3>6, FiledIsOneMore
    <3> QED BY <3>7 DEF OffsetsLead, Leads
  <2> QED BY <2>1, <2>2
<1>9. \A h \in Hash : \A o \in OffsetsOf(h)' : Leads(o)'
  BY <1>4, <1>8 DEF FiledAfter, OffsetsOf
<1> QED BY <1>6, <1>7, <1>9 DEF OffsetsLead, Leads

LEMMA NextKeepsLeads ==
  ASSUME StoreInv, ClientAsks, OffsetsLead, "crash" \notin Faults, [StoreNext]_vars
  PROVE  OffsetsLead'
<1>1. /\ job \in [Requester -> Job \cup {NoJob}] /\ Client \subseteq Requester
      /\ Writer \in Requester /\ Writer \notin Client
  BY DEF StoreInv, StoreTypeOK, Requester
<1>2. /\ failed => wpc = "stopped"
      /\ job[Writer] # NoJob => wpc = "index"
  BY DEF OffsetsLead
<1>3. ASSUME UNCHANGED <<datVars, wpc, job, db>> PROVE OffsetsLead'
  BY <1>2, <1>3, OthersKeepLeads DEF datVars
<1>4. ASSUME NEW d \in Client, NEW h \in Hash, Search(d, h) PROVE OffsetsLead'
  <2>1. /\ UNCHANGED <<datVars, wpc, db>>
        /\ job' = [job EXCEPT ![d] = Request(h, SearchOnly)]
    BY <1>4 DEF Search, chanVars
  <2>2. job'[d].st = "queued" /\ \A r \in Requester \ {d} : job'[r] = job[r]
    BY <1>1, <2>1 DEF Request
  <2> QED BY <1>1, <1>2, <2>1, <2>2, OthersKeepLeads DEF datVars
<1>5. ASSUME NEW d \in Client, TakeSearchReply(d) PROVE OffsetsLead'
  <2>1. UNCHANGED <<datVars, wpc, db>> /\ job' = [job EXCEPT ![d] = NoJob]
    BY <1>5 DEF TakeSearchReply, chanVars
  <2>2. job'[d] = NoJob /\ \A r \in Requester \ {d} : job'[r] = job[r]
    BY <1>1, <2>1
  <2> QED BY <1>1, <1>2, <2>1, <2>2, OthersKeepLeads DEF datVars
<1>6. ASSUME NEW d \in Client, ClientStep(d) PROVE OffsetsLead'
  BY <1>3, <1>4, <1>5, <1>6
     DEF ClientStep, AddHistory, AddBadObject, TakeAddReply, chanVars
<1>7. CASE CloseHistory \/ UNCHANGED vars
  BY <1>3, <1>7 DEF CloseHistory, vars, storeVars, chanVars
<1>8. ASSUME NEW r \in Requester, WorkerStep(r) PROVE OffsetsLead'
  BY <1>8, WorkerKeepsLeads
<1>9. CASE WriterReceives
  <2>1. /\ UNCHANGED <<datVars, db>> /\ wpc = "recv" /\ wpc' = "index"
        /\ \E h : job' = [job EXCEPT ![Writer] = Request(h, offset)]
    BY <1>9 DEF WriterReceives
  <2>2. /\ job'[Writer].st = "queued"
        /\ \A r \in Requester \ {Writer} : job'[r] = job[r]
    BY <1>1, <2>1 DEF Request
  <2>3. ~failed' BY <1>2, <2>1 DEF datVars
  <2> QED BY <2>1, <2>2, <2>3, OthersKeepLeads
<1>10. CASE WriterAnswers
  <2>1. /\ UNCHANGED <<datVars, db>> /\ wpc = "index"
        /\ job' = [job EXCEPT ![Writer] = NoJob]
    BY <1>10 DEF WriterAnswers
  <2>2. /\ job'[Writer] = NoJob
        /\ \A r \in Requester \ {Writer} : job'[r] = job[r]
    BY <1>1, <2>1
  <2>3. ~failed' BY <1>2, <2>1 DEF datVars
  <2> QED BY <2>1, <2>2, <2>3, OthersKeepLeads
<1>11. CASE WriterStops \/ WriterFlushes
  <2>1. /\ Flush \/ FlushFails
        /\ UNCHANGED <<job, db>> /\ wpc \in {"recv", "flush"}
        /\ FlushFails => wpc' = "stopped"
    BY <1>11 DEF WriterStops, WriterFlushes, Flush, FlushFails
  <2>2. Flush => ~failed' BY DEF Flush
  <2>3. job'[Writer] = NoJob BY <1>2, <2>1
  <2> QED BY <2>1, <2>2, <2>3, OthersKeepLeads
<1>12. CASE WriterWrites
  <2>1. /\ UNCHANGED <<job, db>> /\ wpc = "write"
        /\ \/ WriteHistoryLine(wobj.hash, wobj.len)
           \/ WriteHistoryLineFails(wobj.hash, wobj.len) /\ wpc' = "stopped"
    BY <1>12 DEF WriterWrites
  <2>2. wobj.hash \in Hash /\ wobj.len \in LineLen
    BY <2>1 DEF StoreInv, NextIsFiled, Object
  <2>3. WriteHistoryLine(wobj.hash, wobj.len) => ~failed' BY DEF WriteHistoryLine
  <2>4. job'[Writer] = NoJob BY <1>2, <2>1
  <2> QED BY <2>1, <2>2, <2>3, <2>4, OthersKeepLeads
<1> QED BY <1>6, <1>7, <1>8, <1>9, <1>10, <1>11, <1>12
        DEF StoreNext, WriterStep, Crash

\* So a search is only told CaseRetry where a process may have died or a
\* statement or a read may fail.
LEMMA RetryHasReason ==
  ASSUME StoreInv, "crash" \notin Faults => OffsetsLead,
         NEW c \in Client, WorkerStep(c), NEW j, WorkerDid(c, j),
         j.st = "done", j.code = CaseRetry
  PROVE  Faults \cap {"crash", "db", "read"} # {}
<1> SUFFICES ASSUME "crash" \notin Faults, "db" \notin Faults, "read" \notin Faults
             PROVE  FALSE
  OBVIOUS
<1>1. c \in Requester /\ job \in [Requester -> Job \cup {NoJob}]
  BY DEF StoreInv, StoreTypeOK, Requester
<1>2. job'[c] = j BY <1>1 DEF WorkerDid
<1>3. ASSUME NEW code, job' = Reply(c, code) PROVE j.code = code
  BY <1>1, <1>2, <1>3 DEF Reply, Served
<1>4. ASSUME NEW todo, NEW multi, job' = ReadNext(c, todo, multi) PROVE j.st = "scan"
  BY <1>1, <1>2, <1>4 DEF ReadNext, Served
<1>5. CASE WorkerLooksUp(c)
  BY <1>3, <1>4, <1>5 DEF WorkerLooksUp
<1>6. CASE WorkerReads(c)
  <2> DEFINE s == job[c].todo
  <2>1. Is(c, "scan") /\ job' = Compare(c, FseekHistoryMessageHash(Head(s)))
    BY <1>6 DEF WorkerReads
  <2>2. s \in Seq(Nat) /\ s # <<>> BY <1>1, <2>1, ScanFacts
  <2>3. Head(s) = s[1] /\ 1 \in DOMAIN s BY <2>2, LenProperties, EmptySeq
  <2>4. Leads(Head(s)) BY <1>1, <2>1, <2>3 DEF OffsetsLead
  <2>5. FseekHistoryMessageHash(Head(s)) # BadLine BY <2>4, LedWell DEF StoreInv
  <2>6. job' = Reply(c, CaseDupes) \/ job' = NoMatch(c) BY <2>1, <2>5 DEF Compare
  <2> QED BY <1>3, <1>4, <2>6 DEF NoMatch
<1>7. CASE WorkerInserts(c) BY <1>3, <1>7 DEF WorkerInserts
<1> QED BY <1>5, <1>6, <1>7
        DEF WorkerStep, WorkerLookupFails, WorkerReadFails, WorkerInsertFails

LEMMA WorkerAnswers ==
  ASSUME StoreInv, SearchFinds', ClientAsks, ClientAsks',
         "crash" \notin Faults => OffsetsLead,
         NEW r \in Requester, WorkerStep(r)
  PROVE  \/ UNCHANGED <<Known, Asked, Unsure, Answered>>
         \/ r \in Client /\ \E h \in Hash, code \in {CasePass, CaseDupes, CaseRetry} :
                              Oracle!Answer(r, h, code)
<1>1. /\ job \in [Requester -> Job \cup {NoJob}] /\ Client \subseteq Requester
      /\ Writer \notin Client /\ Requester = Client \cup {Writer}
  BY DEF StoreInv, StoreTypeOK, Requester
<1>2. /\ UNCHANGED datVars /\ sure' = sure /\ job[r] # NoJob
      /\ db' \in [Keys -> Seq(Nat)]
  BY WorkerEffect
<1>3. PICK j : WorkerDid(r, j) BY WorkerEffect
<1>4. /\ job' = [job EXCEPT ![r] = j] /\ j \in Job
      /\ j.hash = job[r].hash /\ j.at = job[r].at
      /\ j.st = "done" \/ j.st = "scan"
      /\ j.st = "done" => /\ j.code \in Code
                          /\ j.code = CaseAdded => j.at \in FiledAfter(j.hash)
                          /\ j.code = CaseDupes => j.hash \in Known
  BY <1>3 DEF WorkerDid
<1>5. job'[r] = j /\ \A c \in Client : c # r => job'[c] = job[c]
  BY <1>1, <1>4
<1>6. Known' = Known BY <1>2, SameFile DEF StoreInv
<1>7. job[r].st # "done" BY AnsweredOnce
<1>8. j # NoJob BY <1>4, JobAssumption
<1>9. CASE r \notin Client
  <2>1. \A c \in Client : sure'[c] = sure[c] /\ job'[c] = job[c]
    BY <1>2, <1>5, <1>9
  <2> QED BY <1>6, <2>1, OracleRests
<1>10. CASE r \in Client /\ j.st = "scan"
  <2>1. \A c \in Client : /\ Asked'[c] = Asked[c] /\ Unsure'[c] = Unsure[c]
                          /\ Answered'[c] = Answered[c]
    BY <1>2, <1>4, <1>5, <1>7, <1>8, <1>10, SeesTheSame
  <2>2. Asked' = Asked BY <2>1, OracleValues, NoneChanges
  <2>3. Unsure' = Unsure BY <2>1, OracleValues, NoneChanges
  <2>4. Answered' = Answered BY <2>1, OracleValues, NoneChanges
  <2> QED BY <1>6, <2>2, <2>3, <2>4
<1>11. CASE r \in Client /\ j.st = "done"
  <2>1. j.hash \in Hash BY <1>4 DEF Job
  <2>2. /\ Asked[r] = {j.hash} /\ Answered[r] = {}
        /\ Unsure[r] = IF sure[r] THEN {} ELSE {j.hash}
        /\ Asked'[r] = {} /\ Unsure'[r] = {} /\ Answered'[r] = {<<j.hash, j.code>>}
    BY <1>2, <1>4, <1>5, <1>7, <1>8, <1>11, OracleSees
  <2>3. \A c \in Client : c # r => /\ Asked'[c] = Asked[c] /\ Unsure'[c] = Unsure[c]
                                   /\ Answered'[c] = Answered[c]
    BY <1>2, <1>5, SeesTheSame
  <2>4. Asked' = [Asked EXCEPT ![r] = {}]
    BY <1>11, <2>2, <2>3, OracleValues, OneChanges
  <2>5. Unsure' = [Unsure EXCEPT ![r] = {}]
    BY <1>11, <2>2, <2>3, OracleValues, OneChanges
  <2>6. Answered' = [Answered EXCEPT ![r] = {<<j.hash, j.code>>}]
    BY <1>11, <2>2, <2>3, OracleValues, OneChanges
  <2>7. j.code # CaseAdded
    <3>1. j.at = SearchOnly BY <1>2, <1>4, <1>11 DEF ClientAsks
    <3>2. db'[Key[j.hash]] \in Seq(Nat) BY <1>2, <2>1, KeyOfHash
    <3>3. \A i \in DOMAIN db'[Key[j.hash]] : db'[Key[j.hash]][i] \in Nat
      BY <3>2, ElementOfSeq, LenProperties
    <3>4. SearchOnly \notin FiledAfter(j.hash)
      BY <3>3 DEF FiledAfter, SearchOnly
    <3> QED BY <1>4, <1>11, <3>1, <3>4
  <2>8. j.code \in {CasePass, CaseDupes, CaseRetry}
    BY <1>4, <1>11, <2>7 DEF Code
  <2>9. j.code = CasePass => j.hash \in Unsure[r]
    <3>1. SearchGoesWell(r)' BY <1>11 DEF SearchFinds
    <3>2. sure[r] => j.code # CasePass
      BY <1>2, <1>5, <1>8, <1>11, <3>1 DEF SearchGoesWell, Is
    <3> QED BY <2>2, <3>2
  <2>10. j.code = CaseRetry => Faults \cap {"crash", "db", "read"} # {}
    BY <1>3, <1>11, RetryHasReason
  <2>11. Oracle!Answer(r, j.hash, j.code)
    BY <1>4, <1>6, <1>11, <2>2, <2>4, <2>5, <2>6, <2>9, <2>10 DEF Oracle!Answer
  <2> QED BY <1>11, <2>1, <2>8, <2>11
<1> QED BY <1>4, <1>9, <1>10, <1>11

\* A reader finds the same after a crash: a line that loses its end but can
\* still be read keeps its hash and its place.
LEMMA ReopenKeepsKnown ==
  ASSUME DatInv, Reopen
  PROVE  Known' = Known
<1>1. Known \subseteq Known' BY KnownStays DEF Next
<1>2. ASSUME NEW h \in Known' PROVE h \in Known
  <2>1. PICK k \in lines' : k.hash = h /\ k.len >= KeyField /\ k.at + KeyField <= fileSize
    BY DEF Known, Reopen
  <2>2. PICK l \in lines : OnDisk(l) /\ k = Kept(l) BY <2>1 DEF Reopen, KeptLines
  <2>3. l \in Line /\ fileSize \in Nat BY DEF DatInv, DatTypeOK
  <2>4. CASE End(l) <= fileSize BY <2>1, <2>2, <2>4 DEF Kept, Known
  <2>5. CASE ~(End(l) <= fileSize)
    <3>1. k = [l EXCEPT !.len = fileSize - l.at] BY <2>2, <2>5 DEF Kept
    <3>2. k.hash = l.hash /\ k.at = l.at /\ k.len = fileSize - l.at
      BY <2>3, <3>1 DEF Line
    <3>3. l.len >= KeyField
      BY <2>1, <2>3, <2>5, <3>2 DEF Line, End
    <3> QED BY <2>1, <2>3, <3>2, <3>3 DEF Known
  <2> QED BY <2>4, <2>5
<1> QED BY <1>1, <1>2

LEMMA CrashForgets ==
  ASSUME StoreInv, ClientAsks, ClientAsks', Crash
  PROVE  Oracle!Crash
<1>1. Reopen /\ job' = [r \in Requester |-> NoJob] BY DEF Crash
<1>2. \A c \in Client : job'[c] = NoJob BY <1>1 DEF Requester
<1>3. \A c \in Client : Asked'[c] = {} /\ Unsure'[c] = {} /\ Answered'[c] = {}
  BY <1>2, OracleSees
<1>4. Asked' = [c \in Client |-> {}] BY <1>3, OracleValues
<1>5. Unsure' = [c \in Client |-> {}] BY <1>3, OracleValues
<1>6. Answered' = [c \in Client |-> {}] BY <1>3, OracleValues
<1>7. Known' = Known BY <1>1, ReopenKeepsKnown DEF StoreInv
<1> QED BY <1>4, <1>5, <1>6, <1>7 DEF Oracle!Crash

LEMMA StepOfOracle ==
  ASSUME StoreInv, StoreInv', SearchFinds', ClientAsks, ClientAsks',
         "crash" \notin Faults => OffsetsLead, [StoreNext]_vars
  PROVE  Oracle!Next \/ UNCHANGED <<Known, Asked, Unsure, Answered>>
<1>1. job \in [Requester -> Job \cup {NoJob}] /\ Client \subseteq Requester
      /\ Writer \in Requester /\ Writer \notin Client
  BY DEF StoreInv, StoreTypeOK, Requester
<1>2. ASSUME [Next]_datVars,
             \A c \in Client : sure'[c] = sure[c] /\ job'[c] = job[c]
      PROVE  Oracle!Next
  BY <1>2, FileStepLearns DEF Oracle!Next
<1>3. ASSUME NEW d \in Client, NEW h \in Hash, Search(d, h) PROVE Oracle!Next
  BY <1>3, SearchAsks DEF Oracle!Next
<1>4. ASSUME NEW d \in Client, TakeSearchReply(d) PROVE Oracle!Next
  BY <1>4, ReplyIsTaken DEF Oracle!Next
<1>5. ASSUME NEW d \in Client,
             \/ \E o \in Object : AddHistory(d, o)
             \/ AddBadObject(d) \/ TakeAddReply(d)
      PROVE  Oracle!Next
  BY <1>2, <1>5 DEF AddHistory, AddBadObject, TakeAddReply
<1>6. ASSUME NEW r \in Requester, WorkerStep(r)
      PROVE  Oracle!Next \/ UNCHANGED <<Known, Asked, Unsure, Answered>>
  BY <1>6, WorkerAnswers DEF Oracle!Next
<1>7. CASE WriterReceives \/ WriterAnswers
  <2>1. UNCHANGED datVars /\ sure' = sure /\ \E j : job' = [job EXCEPT ![Writer] = j]
    BY <1>7 DEF WriterReceives, WriterAnswers
  <2>2. \A c \in Client : sure'[c] = sure[c] /\ job'[c] = job[c] BY <1>1, <2>1
  <2> QED BY <1>2, <2>1, <2>2
<1>8. CASE WriterStops \/ WriterFlushes
  <2>1. Flush \/ FlushFails BY <1>8 DEF WriterStops, WriterFlushes
  <2>2. UNCHANGED <<job, sure>> BY <1>8 DEF WriterStops, WriterFlushes
  <2> QED BY <1>2, <2>1, <2>2 DEF Next
<1>9. CASE WriterWrites
  <2>1. \/ WriteHistoryLine(wobj.hash, wobj.len)
        \/ WriteHistoryLineFails(wobj.hash, wobj.len)
    BY <1>9 DEF WriterWrites
  <2>2. UNCHANGED <<job, sure>> BY <1>9 DEF WriterWrites
  <2>3. wobj.hash \in Hash /\ wobj.len \in LineLen
    BY <1>9 DEF WriterWrites, StoreInv, NextIsFiled, Object
  <2>4. [Next]_datVars BY <2>1, <2>3 DEF Next
  <2> QED BY <1>2, <2>2, <2>4
<1>10. CASE Crash BY <1>10, CrashForgets DEF Oracle!Next
<1>11. CASE CloseHistory \/ UNCHANGED vars
  BY <1>2, <1>11 DEF CloseHistory, vars, storeVars
<1> QED BY <1>3, <1>4, <1>5, <1>6, <1>7, <1>8, <1>9, <1>10, <1>11
        DEF StoreNext, ClientStep, WriterStep

\* The duplicate check as DupeOracle specifies it is what the clients of the
\* store see, if reading the file works: with what else may fail, and with
\* nothing that may fail.
THEOREM StoreImplementsOracle ==
  ASSUME "read" \notin Faults
  PROVE  StoreSpec => ImplementsOracle
<1> DEFINE Led == "crash" \notin Faults => OffsetsLead
<1>1. StoreInit => SearchFinds /\ ClientAsks /\ Led
  <2> SUFFICES ASSUME StoreInit PROVE SearchFinds /\ ClientAsks /\ Led OBVIOUS
  <2>1. SearchFinds /\ ClientAsks
    BY DEF StoreInit, SearchFinds, SearchGoesWell, ClientAsks, Requester
  <2>2. \A r \in Requester : job[r] = NoJob BY DEF StoreInit
  <2>3. \A h \in Hash : OffsetsOf(h) = {}
    BY KeyOfHash, EmptySeq DEF StoreInit, OffsetsOf
  <2>4. OffsetsLead
    BY <2>2, <2>3 DEF OffsetsLead, StoreInit, Init, Requester, Is
  <2> QED BY <2>1, <2>4
<1>2. StoreInit => Oracle!Init
  <2> SUFFICES ASSUME StoreInit PROVE Oracle!Init OBVIOUS
  <2>1. Known \subseteq Hash BY StoreInitInv, KnownIsHash DEF StoreInv
  <2>2. \A c \in Client : ~Open(c) /\ ~Is(c, "done")
    BY DEF StoreInit, Open, Is, Requester
  <2>3. /\ Asked = [c \in Client |-> {}] /\ Unsure = [c \in Client |-> {}]
        /\ Answered = [c \in Client |-> {}]
    BY <2>2 DEF Asked, Unsure, Answered
  <2> QED BY <2>1, <2>3 DEF Oracle!Init
<1>3. StoreInv /\ SearchFinds /\ [StoreNext]_vars => SearchFinds'
  BY NextKeepsSearch
<1>4. StoreInv /\ ClientAsks /\ [StoreNext]_vars => ClientAsks'
  BY NextKeepsAsks
<1>5. StoreInv /\ ClientAsks /\ Led /\ [StoreNext]_vars => Led'
  BY NextKeepsLeads
<1>6. /\ StoreInv /\ StoreInv' /\ SearchFinds' /\ ClientAsks /\ ClientAsks' /\ Led
      /\ [StoreNext]_vars
      => [Oracle!Next]_(Oracle!oracleVars)
  BY StepOfOracle DEF Oracle!oracleVars
<1> QED BY <1>1, <1>2, <1>3, <1>4, <1>5, <1>6, StoreInitInv, StoreNextKeeps, PTL
        DEF StoreSpec, ImplementsOracle, Oracle!Spec
=============================================================================
