------------------------------ MODULE HistoryDat ------------------------------
(***************************************************************************)
(* history.dat and the bufio.Writer in front of it, as nntp-history.go     *)
(* uses them: writeHistoryLine, checkBufioWriteBuffer, dw.Flush, the       *)
(* os.Stat at the start of history_Writer and FseekHistoryMessageHash.     *)
(*                                                                         *)
(* A line is the record of where its first byte stands in the stream, how  *)
(* many bytes it has and which message-ID hash it carries.  The first      *)
(* fileSize bytes of the stream are in the file (in the page cache of the  *)
(* kernel: a process can die, the machine does not), the next `buffered'   *)
(* bytes are in the bufio.Writer.                                          *)
(***************************************************************************)
EXTENDS Integers, FiniteSets

CONSTANTS
  Hash,         \* message-ID hashes
  HeaderLen,    \* bytes of the header line (ZEROPADLEN + 1 in the code)
  KeyField,     \* bytes of "{hash}\t"
  TimeField,    \* bytes of "{hash}\tarrival~expires~date\t"
  LineLen,      \* the lengths a line can have
  BUFIOBUFFER,  \* capacity of the bufio.Writer
  MaxOffset,    \* bound of the models: no line ends behind it
  eofhash,      \* what a reader gets when no tab follows
  NoHash,       \* "" : a field that is not 64 characters long
  BadLine       \* an error: the field is not enclosed in braces

ASSUME LengthAssumption ==
  /\ HeaderLen \in Nat \ {0} /\ BUFIOBUFFER \in Nat \ {0}
  /\ KeyField \in Nat \ {0} /\ TimeField \in Nat /\ KeyField < TimeField
  /\ LineLen \subseteq Nat /\ \A ll \in LineLen : TimeField < ll
  /\ MaxOffset \in Nat

ASSUME ResultAssumption ==
  /\ eofhash \notin Hash /\ NoHash \notin Hash /\ BadLine \notin Hash
  /\ BadLine \notin {eofhash, NoHash}

VARIABLES
  lines,     \* the lines written, those still in the buffer included
  fileSize,  \* bytes in the file
  buffered,  \* dw.Buffered()
  offset,    \* his.Offset: where the writer believes the next line starts
  failed     \* the sticky error of the bufio.Writer

datVars == <<lines, fileSize, buffered, offset, failed>>

Line == [at : Nat, len : Nat \ {0}, hash : Hash]

streamEnd == fileSize + buffered
End(l) == l.at + l.len

\* the file after the header was written, opened by history_Writer
Init ==
  /\ lines = {}
  /\ fileSize = HeaderLen
  /\ buffered = 0
  /\ offset = HeaderLen
  /\ failed = FALSE
-----------------------------------------------------------------------------
(* bufio.Writer: the bytes WriteString hands to the file when `left' bytes  *)
(* are in the buffer and ll more come.                                      *)
Spilled(left, ll) ==
  IF left + ll <= BUFIOBUFFER THEN 0
  ELSE IF left = 0 \/ left + ll > 2 * BUFIOBUFFER THEN left + ll
  ELSE BUFIOBUFFER

\* checkBufioWriteBuffer: does the buffer go to the file before the line?
FlushFirstWhenFull(ll) == buffered >= BUFIOBUFFER   \* mutant: forgets the line
FlushFirst(ll) == buffered + ll >= BUFIOBUFFER

LeftInBuffer(ll) == IF FlushFirst(ll) THEN 0 ELSE buffered

\* every byte that one call of writeHistoryLine moves to the file
BytesOut(ll) == buffered - LeftInBuffer(ll) + Spilled(LeftInBuffer(ll), ll)

Appended(h, ll) == lines \cup {[at |-> streamEnd, len |-> ll, hash |-> h]}

WriteHistoryLine(h, ll) ==
  /\ ~failed
  /\ streamEnd + ll <= MaxOffset
  /\ lines' = Appended(h, ll)
  /\ fileSize' = fileSize + BytesOut(ll)
  /\ buffered' = buffered + ll - BytesOut(ll)
  /\ offset' = offset + ll
  /\ UNCHANGED failed

\* dw.Flush() gets n bytes into the file and keeps the others.
ShortWrite(n) ==
  /\ n < buffered
  /\ fileSize' = fileSize + n
  /\ buffered' = buffered - n

\* The flush in checkBufioWriteBuffer writes n bytes and fails: the line is
\* not written, the offset does not move and every later call fails too.
CheckFlushFails(ll, n) ==
  /\ ~failed
  /\ FlushFirst(ll)
  /\ ShortWrite(n)
  /\ failed' = TRUE
  /\ UNCHANGED <<lines, offset>>

\* A line longer than the buffer goes straight to the file; the write stops
\* after n bytes of it.
LongLineFails(h, ll, n) ==
  /\ ~failed
  /\ streamEnd + ll <= MaxOffset
  /\ ll > BUFIOBUFFER /\ n < ll
  /\ fileSize' = streamEnd + n
  /\ buffered' = 0
  /\ failed' = TRUE
  /\ lines' = IF n = 0 THEN lines ELSE Appended(h, n)
  /\ UNCHANGED offset

WriteHistoryLineFails(h, ll) ==
  \E n \in 0..MaxOffset : CheckFlushFails(ll, n) \/ LongLineFails(h, ll, n)

\* dw.Flush() after a CaseRetry and when the writer stops
Flush ==
  /\ ~failed
  /\ fileSize' = streamEnd
  /\ buffered' = 0
  /\ UNCHANGED <<lines, offset, failed>>

FlushFails ==
  /\ ~failed
  /\ \E n \in 0..MaxOffset : ShortWrite(n)
  /\ failed' = TRUE
  /\ UNCHANGED <<lines, offset>>

\* What the file keeps of the lines when the buffer is gone.
OnDisk(l) == l.at < fileSize
Kept(l) == IF End(l) <= fileSize THEN l ELSE [l EXCEPT !.len = fileSize - l.at]
CompleteButLast == {l \in lines : End(l) < fileSize}   \* mutant: off by one
KeptLines == {Kept(l) : l \in {k \in lines : OnDisk(k)}}

\* fileInfo.Size()
HeaderSize == HeaderLen   \* mutant: starts behind the header
StatSize == fileSize

\* The process dies and boots again: the buffer is lost, history_Writer takes
\* his.Offset from Stat().Size() and appends behind what is there.
Reopen ==
  /\ lines' = KeptLines
  /\ buffered' = 0
  /\ offset' = StatSize
  /\ failed' = FALSE
  /\ UNCHANGED fileSize

Next ==
  \/ \E h \in Hash, ll \in LineLen :
       WriteHistoryLine(h, ll) \/ WriteHistoryLineFails(h, ll)
  \/ Flush
  \/ FlushFails
  \/ Reopen

Spec == Init /\ [][Next]_datVars
-----------------------------------------------------------------------------
(* FseekHistoryMessageHash: seek to o, read to the first tab.  A line that  *)
(* was cut before its first tab runs together with the line behind it.      *)
\* mutant: does not read the last byte of the file
TabsBeforeLast == {l.at + KeyField - 1 : l \in {k \in lines :
                     k.len >= KeyField /\ k.at + KeyField < fileSize}}
TabsOnDisk ==
  {t \in {l.at + KeyField - 1 : l \in {k \in lines : k.len >= KeyField}}
         \cup {l.at + TimeField - 1 : l \in {k \in lines : k.len >= TimeField}} :
     t < fileSize}

LineAt(o) == {l \in lines : l.at = o}

FseekHistoryMessageHash(o) ==
  IF \A t \in TabsOnDisk : t < o THEN eofhash
  ELSE IF \E l \in LineAt(o) : l.len >= KeyField
       THEN (CHOOSE l \in LineAt(o) : l.len >= KeyField).hash
  ELSE IF LineAt(o) # {} \/ o \in TabsOnDisk THEN NoHash
  ELSE BadLine
-----------------------------------------------------------------------------
DatTypeOK ==
  /\ lines \subseteq Line
  /\ fileSize \in Nat /\ buffered \in Nat /\ offset \in Nat
  /\ failed \in BOOLEAN

\* The offset the writer puts into the hash database for the next line is the
\* place where that line will start, across flushes, long lines and restarts.
OffsetIsEnd == ~failed => offset = streamEnd

\* "check and flush only complete lines": as long as no write failed, the end
\* of the file is never inside a line, so a reader never meets half a line that
\* a later flush completes.
CompleteLinesOnly ==
  ~failed => \A l \in lines : End(l) <= fileSize \/ fileSize <= l.at

\* No two lines share a byte, whatever short writes and restarts came before:
\* an offset names at most one line.
LinesDisjoint ==
  \A k, l \in lines : k = l \/ End(k) <= l.at \/ End(l) <= k.at

\* A line whose hash field is in the file is read back by its offset with the
\* hash it was written for.
FseekFindsLine ==
  \A l \in lines :
    (l.len >= KeyField /\ l.at + KeyField <= fileSize)
      => FseekHistoryMessageHash(l.at) = l.hash

\* history.dat is append-only: a line that is complete in the file stays there,
\* at its offset, through failed writes, crashes and restarts.
AppendOnly ==
  [][ /\ fileSize <= fileSize'
      /\ \A l \in lines : End(l) <= fileSize => l \in lines' ]_datVars
=============================================================================
