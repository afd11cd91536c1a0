-------------------------- MODULE OffsetCachesProofs --------------------------
(***************************************************************************)
(* What the L2 and the L3 cache give is true and lives for its time, and   *)
(* what was set to expire is taken away, for every set of keys and callers *)
(* and every interleaving of Set, pqExpire and pqExtend.                   *)
(*                                                                         *)
(* CachesInv adds what the three properties rest on: what a caller is      *)
(* about to set was true when it read it and still is (ReadIsTrue); a Set  *)
(* between its halves has an item that the next tick cannot take away      *)
(* (SetHasItem); and the first item of a key that pqExpire will meet is    *)
(* not older than what the entry has left (FreshOutlives).                 *)
(***************************************************************************)
EXTENDS OffsetCaches, FiniteSetTheorems, SequenceTheorems, TLAPS

\* What a caller is about to set was true when it read it and still is; what L2
\* refuses is not queued.
ReadIsTrue ==
  /\ \A k \in Key : kind = "L2" => known[k] <= 1
  /\ \A c \in Caller : call[c] # NoCall =>
       LET v == call[c].val
           k == call[c].key
       IN  IF kind = "L3" THEN \E n \in 0..known[k] : v = [i \in 1..n |-> i]
           ELSE (v = hash /\ known[k] = 1) \/ (v = eofhash /\ ~call[c].queued)

Waiting(k) == item # NoItem /\ item.key = k

\* An item for k that pqExpire does not delete by before the next tick.
Live(k) ==
  \/ Waiting(k) /\ item.left > 0
  \/ \E n \in DOMAIN pq : pq[n].key = k /\ pq[n].left > 0

SetHasItem ==
  \A c \in Caller :
    call[c] # NoCall /\ call[c].queued /\ call[c].flagexpires /\ ~call[c].late
      => Live(call[c].key)

\* The item for k that pqExpire meets first has at least that many ticks.
FirstLasts(k, ticks) ==
  IF Waiting(k) THEN item.left >= ticks
  ELSE \E n \in DOMAIN pq : /\ pq[n].key = k /\ pq[n].left >= ticks
                            /\ \A m \in 1..(n - 1) : pq[m].key # k

FreshOutlives == \A k \in Key : fresh[k] > 0 => FirstLasts(k, fresh[k])

EntryTyped == kind = "L3" => \A k \in Key : cache[k] \in Seq(Nat) \cup {Absent}

CachesInv ==
  /\ TypeOK
  /\ EntryTyped
  /\ ReadIsTrue
  /\ EntryIsTrue
  /\ SetHasItem
  /\ NoOrphan
  /\ FreshOutlives
  /\ KeepsItsTime

USE CachesAssumption, NoneAssumption
-----------------------------------------------------------------------------
(* AppendMissing.                                                           *)

\* What a caller of L3 sets.
Initial(n) == [i \in 1..n |-> i]

LEMMA InitialIsSeq ==
  ASSUME NEW n \in Nat
  PROVE  /\ Initial(n) \in Seq(Nat) /\ Len(Initial(n)) = n
         /\ DOMAIN Initial(n) = 1..n /\ \A i \in 1..n : Initial(n)[i] = i
         /\ Range(Initial(n)) = 1..n
<1>1. Initial(n) \in [1..n -> Nat] BY DEF Initial
<1>2. Initial(n) \in Seq(Nat) /\ Len(Initial(n)) = n BY <1>1
<1> QED BY <1>2 DEF Initial, Range

\* The new offsets behind those that are there are appended, last one first, and
\* nothing that is there is lost: both lists are without holes, so is the result.
LEMMA AppendsInitial ==
  ASSUME NEW old \in Seq(Nat), Range(old) = 1..Len(old), NEW n \in Nat
  PROVE  LET r == AppendMissing(old, Initial(n)) IN
         /\ r \in Seq(Nat)
         /\ Range(r) = 1..Len(r)
         /\ Len(r) = IF n > Len(old) THEN n ELSE Len(old)
         /\ Range(old) \subseteq Range(r)
<1> DEFINE new == Initial(n)
           m == Len(old)
           There(i) == new[i] > 0 /\ new[i] \in Range(old) \cup {new[j] : j \in i+1..Len(new)}
           missing == {i \in DOMAIN new : new[i] > 0 /\ \A j \in i..Len(new) : ~There(j)}
           FromBehind(k) == CHOOSE i \in missing : Cardinality({j \in missing : j >= i}) = k
           more == [k \in 1..Cardinality(missing) |-> new[FromBehind(k)]]
<1>1. AppendMissing(old, new) = old \o more BY DEF AppendMissing
<1>2. /\ Len(new) = n /\ DOMAIN new = 1..n
      /\ \A i \in 1..n : new[i] = i
  BY InitialIsSeq
<1>3. m \in Nat BY LenProperties
<1> HIDE DEF new, m
<1>4. ASSUME NEW i \in 1..n PROVE There(i) <=> i <= m
  <2>1. \A j \in i+1..n : new[j] = j BY <1>2
  <2>2. i \notin {new[j] : j \in i+1..n} BY <2>1
  <2> QED BY <1>2, <1>3, <2>2 DEF m
<1> HIDE DEF There
<1>5. missing = (m + 1)..n
  <2>1. ASSUME NEW i \in missing PROVE i \in (m + 1)..n
    <3>1. i \in 1..n /\ ~There(i) BY <1>2
    <3> QED BY <1>3, <1>4, <3>1
  <2>2. ASSUME NEW i \in (m + 1)..n PROVE i \in missing
    <3>1. i \in 1..n /\ \A j \in i..n : j \in 1..n /\ ~(j <= m) BY <1>3
    <3>2. new[i] > 0 /\ \A j \in i..n : ~There(j) BY <1>2, <1>4, <3>1
    <3> QED BY <1>2, <3>1, <3>2
  <2> QED BY <2>1, <2>2
<1> HIDE DEF missing
<1>6. Cardinality(missing) = IF n > m THEN n - m ELSE 0
  <2>0. m + 1 \in Int /\ n \in Int BY <1>3
  <2>1. Cardinality((m + 1)..n) = IF m + 1 > n THEN 0 ELSE n - (m + 1) + 1
    BY <2>0, FS_Interval, Zenon
  <2> QED BY <1>3, <1>5, <2>1
<1>7. ASSUME NEW i \in missing PROVE Cardinality({j \in missing : j >= i}) = n - i + 1
  <2>1. i \in Int /\ i <= n /\ {j \in missing : j >= i} = i..n BY <1>3, <1>5
  <2>2. i \in Int /\ n \in Int BY <2>1
  <2>3. Cardinality(i..n) = IF i > n THEN 0 ELSE n - i + 1
    BY <2>2, FS_Interval, Zenon
  <2>4. Cardinality({j \in missing : j >= i}) = Cardinality(i..n) BY <2>1
  <2> HIDE DEF m
  <2>5. Cardinality(i..n) = n - i + 1 BY <2>1, <2>2, <2>3
  <2> QED BY <2>4, <2>5
<1>8. ASSUME NEW k \in 1..Cardinality(missing) PROVE FromBehind(k) = n - k + 1
  <2>1. n - k + 1 \in missing BY <1>3, <1>5, <1>6
  <2>2. \A i \in missing : i \in Int BY <1>3, <1>5
  <2>3. ASSUME NEW i \in missing
        PROVE  Cardinality({j \in missing : j >= i}) = k <=> i = n - k + 1
    <3>1. Cardinality({j \in missing : j >= i}) = n - i + 1 BY <1>7
    <3>2. i \in Int /\ k \in Int BY <1>3, <1>6, <2>2
    <3> QED BY <3>1, <3>2
  <2> QED BY <2>1, <2>3
<1> HIDE DEF FromBehind
<1>9. ASSUME NEW k \in 1..Cardinality(missing)
      PROVE  more[k] = n - k + 1 /\ more[k] \in (m + 1)..n
  <2>1. n - k + 1 \in 1..n /\ n - k + 1 \in (m + 1)..n BY <1>3, <1>6
  <2> QED BY <1>2, <1>8, <2>1
<1>10. Cardinality(missing) \in Nat BY <1>3, <1>6
<1>11. DOMAIN more = 1..Cardinality(missing) OBVIOUS
<1>12. more \in [1..Cardinality(missing) -> Nat]
  <2>1. \A x \in (m + 1)..n : x \in Nat BY <1>3
  <2>2. \A k \in 1..Cardinality(missing) : more[k] \in Nat BY <1>9, <2>1
  <2> QED BY <2>2
<1> HIDE DEF more
<1>13. more \in Seq(Nat) /\ Len(more) = Cardinality(missing)
  <2>1. PICK k \in Nat : k = Cardinality(missing) BY <1>10
  <2>2. more \in [1..k -> Nat] BY <1>12, <2>1
  <2>3. more \in Seq(Nat) /\ Len(more) = k BY <2>2
  <2> QED BY <2>1, <2>3
<1>14. Range(more) = (m + 1)..n
  <2>1. ASSUME NEW x \in Range(more) PROVE x \in (m + 1)..n
    BY <1>9, <1>11 DEF Range
  <2>2. ASSUME NEW x \in (m + 1)..n PROVE x \in Range(more)
    <3>1. n - x + 1 \in 1..Cardinality(missing) /\ n - (n - x + 1) + 1 = x
      <4>1. x \in Int /\ m + 1 <= x /\ x <= n BY <1>3
      <4>2. n > m BY <1>3, <4>1
      <4>3. Cardinality(missing) = n - m BY <1>6, <4>2
      <4> QED BY <1>3, <4>1, <4>3
    <3> QED BY <1>9, <1>11, <3>1 DEF Range
  <2> QED BY <2>1, <2>2
<1>15. /\ old \o more \in Seq(Nat) /\ Len(old \o more) = m + Len(more)
       /\ Range(old \o more) = Range(old) \cup Range(more)
  <2>1. old \o more \in Seq(Nat) /\ Len(old \o more) = m + Len(more)
    BY <1>13, ConcatProperties DEF m
  <2>2. Range(old \o more) = Range(old) \cup Range(more)
    BY <1>13, RangeConcatenation
  <2> QED BY <2>1, <2>2
<1>16. Range(old \o more) = 1..Len(old \o more)
  <2>1. Range(old) = 1..m BY DEF m
  <2>2. Range(old \o more) = (1..m) \cup ((m + 1)..n) BY <1>14, <1>15, <2>1
  <2>3. Len(old \o more) = IF n > m THEN n ELSE m BY <1>3, <1>6, <1>13, <1>15
  <2>4. CASE n > m BY <1>3, <2>2, <2>3, <2>4
  <2>5. CASE ~(n > m) BY <1>3, <2>2, <2>3, <2>5
  <2> QED BY <2>4, <2>5
<1> QED BY <1>1, <1>3, <1>6, <1>13, <1>15, <1>16 DEF new, m
-----------------------------------------------------------------------------
(* What an entry holds.                                                     *)

KindIs == kind = "L3" \/ kind = "L2"

LEMMA TwoKinds == ASSUME TypeOK PROVE KindIs
BY DEF TypeOK, KindIs

\* What SetWrites puts into the cache is an entry, as true as what was there and
\* what is set, and takes nothing away.
LEMMA MergedIsTrue ==
  ASSUME CachesInv, NEW c \in Caller, call[c] # NoCall, call[c].queued,
         NEW k \in Key, k = call[c].key
  PROVE  LET w == Merged(cache[k], call[c].val) IN
         /\ w \in Value /\ w # Absent
         /\ kind = "L3" => /\ w \in Seq(Nat)
                           /\ Range(w) = 1..Len(w) /\ Len(w) <= known[k]
                           /\ cache[k] # Absent => Range(cache[k]) \subseteq Range(w)
         /\ kind = "L2" => w = hash /\ known[k] = 1
<1> DEFINE old == cache[k]
           v == call[c].val
           w == Merged(old, v)
<1>1. /\ known[k] \in Nat /\ Absent \notin Value /\ hash \in Value
      /\ \A s \in Seq(Nat) : s \in Value
  BY DEF CachesInv, TypeOK, Value
<1>2. CASE kind = "L3"
  <2>1. PICK n \in 0..known[k] : v = Initial(n)
    BY <1>2 DEF CachesInv, ReadIsTrue, Initial
  <2>2. n \in Nat /\ n <= known[k] BY <1>1, <2>1
  <2>3. /\ v \in Seq(Nat) /\ Len(v) = n /\ Range(v) = 1..Len(v)
    BY <2>1, <2>2, InitialIsSeq
  <2>4. old \in Seq(Nat) \cup {Absent} BY <1>2 DEF CachesInv, EntryTyped
  <2>5. old # Absent => Range(old) = 1..Len(old) /\ Len(old) <= known[k]
    BY <1>2 DEF CachesInv, EntryIsTrue, Cached
  <2>6. CASE old \in {Absent, <<>>}
    <3>1. w = v BY <2>6 DEF Merged
    <3>2. old # Absent => Range(old) = {} BY <2>6 DEF Range
    <3> QED BY <1>1, <1>2, <2>2, <2>3, <3>1, <3>2
  <2>7. CASE old \notin {Absent, <<>>}
    <3>1. w = AppendMissing(old, v) BY <1>2, <2>7 DEF Merged
    <3>2. old \in Seq(Nat) /\ Len(old) \in Nat BY <2>4, <2>7, LenProperties
    <3>3. /\ w \in Seq(Nat) /\ Range(w) = 1..Len(w)
          /\ Len(w) = IF n > Len(old) THEN n ELSE Len(old)
          /\ Range(old) \subseteq Range(w)
      <4>1. Range(old) = 1..Len(old) BY <2>5, <2>7
      <4>2. w = AppendMissing(old, Initial(n)) BY <2>1, <3>1
      <4> HIDE DEF w, old
      <4> DEFINE a == AppendMissing(old, Initial(n))
      <4>3. /\ a \in Seq(Nat) /\ Range(a) = 1..Len(a)
            /\ Len(a) = IF n > Len(old) THEN n ELSE Len(old)
            /\ Range(old) \subseteq Range(a)
        BY <2>2, <3>2, <4>1, AppendsInitial
      <4> QED BY <4>2, <4>3
    <3>4. Len(w) <= known[k] BY <2>2, <2>5, <2>7, <3>2, <3>3
    <3> QED BY <1>1, <1>2, <3>3, <3>4
  <2> QED BY <2>6, <2>7
<1>3. CASE kind = "L2"
  <2>1. v = hash /\ known[k] = 1 BY <1>3 DEF CachesInv, ReadIsTrue
  <2>2. old = Absent \/ old = hash BY <1>3 DEF CachesInv, EntryIsTrue, Cached
  <2>3. w = hash
    <3>1. CASE old \in {Absent, <<>>} BY <2>1, <3>1 DEF Merged
    <3>2. CASE old \notin {Absent, <<>>}
      <4>1. w = old BY <1>3, <3>2 DEF Merged
      <4> QED BY <2>2, <3>2, <4>1
    <3> QED BY <3>1, <3>2
  <2> QED BY <1>1, <1>3, <2>1, <2>3
<1> QED BY <1>2, <1>3, TwoKinds DEF CachesInv, KindIs

\* What is true of what is filed stays true when more is filed.
LEMMA FiledStaysTrue ==
  ASSUME TypeOK, ReadIsTrue, EntryIsTrue, NEW d \in Key, Known(d)
  PROVE  ReadIsTrue' /\ EntryIsTrue' /\ known' \in [Key -> Nat]
<1>1. /\ UNCHANGED <<kind, cache, call>> /\ known \in [Key -> Nat]
      /\ known' = [known EXCEPT ![d] = @ + 1]
      /\ kind = "L2" => known[d] < 1
  BY DEF Known, TypeOK
<1>2. \A k \in Key : /\ known[k] \in Nat /\ known'[k] \in Nat /\ known[k] <= known'[k]
                     /\ kind = "L2" /\ known[k] = 1 => known'[k] = 1
                     /\ kind = "L2" => known'[k] <= 1
  BY <1>1 DEF ReadIsTrue
<1>3. ReadIsTrue'
  <2>1. ASSUME NEW c \in Caller, call[c] # NoCall
        PROVE  IF kind = "L3"
               THEN \E n \in 0..known'[call[c].key] : call[c].val = [i \in 1..n |-> i]
               ELSE \/ call[c].val = hash /\ known'[call[c].key] = 1
                    \/ call[c].val = eofhash /\ ~call[c].queued
    <3>1. call[c].key \in Key BY <2>1 DEF TypeOK, Call
    <3>2. CASE kind = "L3"
      <4>1. PICK n \in 0..known[call[c].key] : call[c].val = [i \in 1..n |-> i]
        BY <2>1, <3>2 DEF ReadIsTrue
      <4>2. n \in 0..known'[call[c].key] BY <1>2, <3>1
      <4> QED BY <3>2, <4>1, <4>2
    <3>3. CASE kind # "L3"
      <4>1. kind = "L2" BY <3>3, TwoKinds DEF KindIs
      <4> QED BY <1>2, <2>1, <3>1, <3>3, <4>1 DEF ReadIsTrue
    <3> QED BY <3>2, <3>3
  <2> QED BY <1>1, <1>2, <2>1 DEF ReadIsTrue
<1>4. EntryIsTrue'
  <2>1. ASSUME NEW k \in Key, cache[k] # Absent
        PROVE  \/ kind = "L3" /\ Range(cache[k]) = 1..Len(cache[k])
                              /\ Len(cache[k]) <= known'[k]
               \/ kind = "L2" /\ known'[k] = 1 /\ cache[k] = hash
    <3>1. CASE kind = "L2" BY <1>2, <2>1, <3>1 DEF EntryIsTrue, Cached
    <3>2. CASE kind = "L3"
      <4>1. Range(cache[k]) = 1..Len(cache[k]) /\ Len(cache[k]) <= known[k]
        BY <2>1, <3>2 DEF EntryIsTrue, Cached
      <4> QED BY <1>2, <3>2, <4>1
    <3> QED BY <3>1, <3>2, TwoKinds DEF KindIs
  <2> QED BY <1>1, <2>1 DEF EntryIsTrue, Cached
<1> QED BY <1>1, <1>3, <1>4

\* A call that is not there, or only queued, changes nothing of this.
LEMMA SameEntries ==
  ASSUME EntryTyped, ReadIsTrue, EntryIsTrue, UNCHANGED <<kind, known, cache>>,
         \A c \in Caller : \/ call'[c] = NoCall
                           \/ /\ call[c] # NoCall /\ call'[c].key = call[c].key
                              /\ call'[c].val = call[c].val
                              /\ \/ call'[c].queued = call[c].queued
                                 \/ call[c].val # eofhash
  PROVE  EntryTyped' /\ ReadIsTrue' /\ EntryIsTrue'
<1>1. EntryTyped' /\ EntryIsTrue' BY DEF EntryTyped, EntryIsTrue, Cached
<1>2. ASSUME NEW c \in Caller, call'[c] # NoCall
      PROVE  IF kind' = "L3"
             THEN \E n \in 0..known'[call'[c].key] : call'[c].val = [i \in 1..n |-> i]
             ELSE \/ call'[c].val = hash /\ known'[call'[c].key] = 1
                  \/ call'[c].val = eofhash /\ ~call'[c].queued
  <2>1. /\ call[c] # NoCall /\ call'[c].key = call[c].key
        /\ call'[c].val = call[c].val
        /\ call'[c].queued = call[c].queued \/ call[c].val # eofhash
    BY <1>2
  <2> QED BY <2>1 DEF ReadIsTrue
<1>3. ReadIsTrue' BY <1>2 DEF ReadIsTrue
<1> QED BY <1>1, <1>3
-----------------------------------------------------------------------------
(* The queue of items.                                                      *)

LEMMA PqFacts ==
  ASSUME TypeOK
  PROVE  /\ Len(pq) \in Nat /\ DOMAIN pq = 1..Len(pq)
         /\ \A n \in 1..Len(pq) : /\ pq[n] \in Item /\ pq[n].key \in Key
                                  /\ pq[n].left \in Nat
         /\ item # NoItem => item \in Item /\ item.key \in Key /\ item.left \in Nat
         /\ CacheExpires \in 0..Longest /\ ExtendExpires \in 0..Longest
         /\ CacheExpires > 0
<1>1. /\ Len(pq) \in Nat /\ DOMAIN pq = 1..Len(pq)
      /\ \A n \in 1..Len(pq) : pq[n] \in Item
  BY LenProperties, ElementOfSeq DEF TypeOK
<1>2. \A i \in Item : i.key \in Key /\ i.left \in Nat BY DEF Item, Longest
<1>3. item # NoItem => item \in Item BY DEF TypeOK
<1>4. /\ CacheExpires \in 0..Longest /\ ExtendExpires \in 0..Longest
      /\ CacheExpires > 0
  BY DEF Longest
<1> QED BY <1>1, <1>2, <1>3, <1>4

LEMMA LiveIsQueued == ASSUME NEW k, Live(k) PROVE Queued(k)
BY DEF Live, Queued, Waiting

\* More items at the end of the queue change nothing of what is said of a key.
LEMMA PqGrows ==
  ASSUME TypeOK, item' = item, pq' \in Seq(Item), Len(pq) <= Len(pq'),
         \A n \in 1..Len(pq) : pq'[n] = pq[n],
         NEW k, NEW ticks
  PROVE  /\ Queued(k) => Queued(k)'
         /\ Live(k) => Live(k)'
         /\ FirstLasts(k, ticks) => FirstLasts(k, ticks)'
<1>1. /\ Len(pq) \in Nat /\ Len(pq') \in Nat
      /\ DOMAIN pq = 1..Len(pq) /\ DOMAIN pq' = 1..Len(pq')
  BY PqFacts, LenProperties
<1>2. \A n \in DOMAIN pq : /\ n \in DOMAIN pq' /\ pq'[n] = pq[n]
                           /\ \A m \in 1..(n - 1) : pq'[m] = pq[m]
  BY <1>1
<1>3. Waiting(k)' = Waiting(k) BY DEF Waiting
<1>4. Queued(k) => Queued(k)' BY <1>2 DEF Queued
<1>5. Live(k) => Live(k)' BY <1>2, <1>3 DEF Live
<1>6. FirstLasts(k, ticks) => FirstLasts(k, ticks)'
  BY <1>2, <1>3 DEF FirstLasts
<1> QED BY <1>4, <1>5, <1>6

\* One item at the end of the queue is there, and alone if its key was not.
LEMMA PqGetsItem ==
  ASSUME TypeOK, NEW k \in Key, NEW left \in 0..Longest,
         item' = item, pq' = Append(pq, [key |-> k, left |-> left])
  PROVE  /\ pq' \in Seq(Item) /\ Len(pq) <= Len(pq')
         /\ \A n \in 1..Len(pq) : pq'[n] = pq[n]
         /\ left > 0 => Live(k)'
         /\ ~Queued(k) => FirstLasts(k, left)'
<1> DEFINE i == [key |-> k, left |-> left]
<1>1. i \in Item /\ i.key = k /\ i.left = left BY DEF Item
<1> HIDE DEF i
<1>2. pq' = Append(pq, i) /\ pq \in Seq(Item) BY DEF i, TypeOK
<1>3. /\ pq' \in Seq(Item) /\ Len(pq') = Len(pq) + 1 /\ pq'[Len(pq) + 1] = i
      /\ \A n \in 1..Len(pq) : pq'[n] = pq[n]
  BY <1>1, <1>2, AppendProperties
<1>4. /\ Len(pq) \in Nat /\ Len(pq) + 1 \in DOMAIN pq' /\ DOMAIN pq = 1..Len(pq)
  BY <1>3, PqFacts, LenProperties
<1>5. left > 0 => Live(k)' BY <1>1, <1>3, <1>4 DEF Live
<1>6. ASSUME ~Queued(k) PROVE FirstLasts(k, left)'
  <2>1. ~Waiting(k)' BY <1>6 DEF Queued, Waiting
  <2>2. \A m \in 1..Len(pq) : pq[m].key # k BY <1>4, <1>6 DEF Queued
  <2>3. \A m \in 1..((Len(pq) + 1) - 1) : pq'[m].key # k BY <1>3, <1>4, <2>2
  <2>4. pq'[Len(pq) + 1].key = k /\ pq'[Len(pq) + 1].left >= left
    BY <1>1, <1>3
  <2> QED BY <1>4, <2>1, <2>3, <2>4 DEF FirstLasts
<1> QED BY <1>3, <1>4, <1>5, <1>6

LEMMA BatchIsQueued ==
  ASSUME TypeOK, NEW batch \in Seq(Key), pq' = PushAll(batch)
  PROVE  /\ pq' \in Seq(Item) /\ Len(pq) <= Len(pq')
         /\ \A n \in 1..Len(pq) : pq'[n] = pq[n]
<1> DEFINE items == [n \in DOMAIN batch |-> [key |-> batch[n], left |-> ExtendExpires]]
<1>1. Len(batch) \in Nat /\ DOMAIN batch = 1..Len(batch)
      /\ \A n \in 1..Len(batch) : batch[n] \in Key
  BY LenProperties, ElementOfSeq
<1>2. \A n \in 1..Len(batch) : [key |-> batch[n], left |-> ExtendExpires] \in Item
  BY <1>1, PqFacts DEF Item
<1>3. items \in [1..Len(batch) -> Item] BY <1>1, <1>2
<1> HIDE DEF items
<1>4. items \in Seq(Item) BY <1>1, <1>3
<1>5. pq \in Seq(Item) /\ pq' = pq \o items BY DEF TypeOK, PushAll, items
<1>6. Len(items) \in Nat /\ Len(pq) \in Nat BY <1>4, <1>5, LenProperties
<1>7. /\ pq \o items \in Seq(Item) /\ Len(pq \o items) = Len(pq) + Len(items)
      /\ \A n \in 1..(Len(pq) + Len(items)) :
           (pq \o items)[n] = IF n <= Len(pq) THEN pq[n] ELSE items[n - Len(pq)]
  BY <1>4, <1>5, ConcatProperties
<1> QED BY <1>5, <1>6, <1>7

\* pqExpire takes the head: the items keep their order.
LEMMA PopKeepsItems ==
  ASSUME TypeOK, Pop, NEW k, NEW ticks
  PROVE  /\ item' \in Item /\ pq' \in Seq(Item)
         /\ Queued(k) => Queued(k)'
         /\ Live(k) => Live(k)'
         /\ FirstLasts(k, ticks) => FirstLasts(k, ticks)'
<1>1. /\ item = NoItem /\ pq \in Seq(Item) /\ pq # <<>>
      /\ item' = Head(pq) /\ pq' = Tail(pq)
  BY DEF Pop, TypeOK
<1>2. /\ item' \in Item /\ pq' \in Seq(Item) /\ Len(pq') = Len(pq) - 1
      /\ item' = pq[1]
      /\ \A n \in 1..Len(pq') : pq'[n] = pq[n + 1]
  BY <1>1, HeadTailProperties
<1>3. /\ Len(pq) \in Nat /\ Len(pq') \in Nat
      /\ DOMAIN pq = 1..Len(pq) /\ DOMAIN pq' = 1..Len(pq')
  BY <1>2, PqFacts, LenProperties
<1>4. item' # NoItem /\ ~Waiting(k) BY <1>1, <1>2 DEF Waiting
<1>5. \A n \in DOMAIN pq : n = 1 \/ (n - 1 \in DOMAIN pq' /\ pq'[n - 1] = pq[n])
  BY <1>2, <1>3
<1>6. Queued(k) => Queued(k)'
  BY <1>1, <1>2, <1>4, <1>5 DEF Queued
<1>7. Live(k) => Live(k)'
  BY <1>2, <1>4, <1>5 DEF Live, Waiting
<1>8. ASSUME FirstLasts(k, ticks) PROVE FirstLasts(k, ticks)'
  <2>1. PICK n \in DOMAIN pq : /\ pq[n].key = k /\ pq[n].left >= ticks
                               /\ \A m \in 1..(n - 1) : pq[m].key # k
    BY <1>4, <1>8 DEF FirstLasts
  <2>2. CASE n = 1
    <3>1. Waiting(k)' BY <1>2, <1>4, <2>1, <2>2 DEF Waiting
    <3> QED BY <1>2, <2>1, <2>2, <3>1 DEF FirstLasts
  <2>3. CASE n # 1
    <3>1. 1 \in 1..(n - 1) BY <1>3, <2>3
    <3>2. ~Waiting(k)' BY <1>2, <2>1, <3>1 DEF Waiting
    <3>3. n - 1 \in DOMAIN pq' /\ pq'[n - 1] = pq[n] BY <1>5, <2>3
    <3>4. \A m \in 1..((n - 1) - 1) : m \in 1..Len(pq') /\ m + 1 \in 1..(n - 1)
      BY <1>3, <3>3
    <3>5. \A m \in 1..((n - 1) - 1) : pq'[m].key # k BY <1>2, <2>1, <3>4
    <3> QED BY <2>1, <3>2, <3>3, <3>5 DEF FirstLasts
  <2> QED BY <2>2, <2>3
<1> QED BY <1>2, <1>6, <1>7, <1>8

\* A tick takes one from the ticks of every item.
LEMMA TickKeepsItems ==
  ASSUME TypeOK, Tick, NEW k, NEW ticks \in Nat
  PROVE  /\ item' \in Item \cup {NoItem} /\ pq' \in Seq(Item)
         /\ Queued(k) => Queued(k)'
         /\ FirstLasts(k, ticks) => FirstLasts(k, Sooner(ticks))'
<1>1. /\ pq' = [n \in DOMAIN pq |-> [pq[n] EXCEPT !.left = Sooner(@)]]
      /\ item' = IF item = NoItem THEN NoItem ELSE [item EXCEPT !.left = Sooner(@)]
  BY DEF Tick
<1>2. \A i \in Item : /\ [i EXCEPT !.left = Sooner(@)] \in Item
                      /\ [i EXCEPT !.left = Sooner(@)].key = i.key
                      /\ [i EXCEPT !.left = Sooner(@)].left = Sooner(i.left)
  BY DEF Item, Sooner, Longest
<1>3. \A i \in Item : i.left >= ticks => Sooner(i.left) >= Sooner(ticks)
  BY DEF Item, Sooner, Longest
<1>4. /\ Len(pq) \in Nat /\ DOMAIN pq = 1..Len(pq) /\ DOMAIN pq' = 1..Len(pq)
      /\ \A n \in 1..Len(pq) : /\ pq[n] \in Item /\ pq'[n] \in Item
                               /\ pq'[n].key = pq[n].key
                               /\ pq'[n].left = Sooner(pq[n].left)
  BY <1>1, <1>2, PqFacts
<1>5. /\ item = NoItem => item' = NoItem
      /\ item # NoItem => /\ item \in Item /\ item' \in Item /\ item' # NoItem
                          /\ item'.key = item.key /\ item'.left = Sooner(item.left)
  BY <1>1, <1>2, PqFacts
<1>6. pq' \in Seq(Item)
  <2>1. pq' \in [1..Len(pq) -> Item] BY <1>1, <1>2, <1>4
  <2> QED BY <1>4, <2>1
<1>7. Waiting(k)' = Waiting(k) BY <1>5 DEF Waiting
<1>8. Queued(k) => Queued(k)' BY <1>4, <1>5 DEF Queued
<1>9. ASSUME FirstLasts(k, ticks) PROVE FirstLasts(k, Sooner(ticks))'
  <2>1. CASE Waiting(k)
    <3>1. item \in Item /\ item.left >= ticks
      BY <1>5, <1>9, <2>1 DEF FirstLasts, Waiting
    <3>2. item'.left >= Sooner(ticks) BY <1>3, <1>5, <2>1, <3>1 DEF Waiting
    <3> QED BY <1>7, <2>1, <3>2 DEF FirstLasts, Sooner
  <2>2. CASE ~Waiting(k)
    <3>1. PICK n \in DOMAIN pq : /\ pq[n].key = k /\ pq[n].left >= ticks
                                 /\ \A m \in 1..(n - 1) : pq[m].key # k
      BY <1>9, <2>2 DEF FirstLasts
    <3>2. /\ n \in DOMAIN pq' /\ pq'[n].key = k /\ pq'[n].left >= Sooner(ticks)
          /\ \A m \in 1..(n - 1) : pq'[m].key # k
      <4>1. n \in 1..Len(pq) /\ pq[n] \in Item BY <1>4, <3>1
      <4>2. /\ n \in DOMAIN pq' /\ pq'[n].key = k
            /\ pq'[n].left = Sooner(pq[n].left)
        BY <1>4, <3>1, <4>1
      <4>3. Sooner(pq[n].left) >= Sooner(ticks) BY <1>3, <3>1, <4>1
      <4>4. \A m \in 1..(n - 1) : m \in 1..Len(pq) BY <1>4, <4>1
      <4>5. \A m \in 1..(n - 1) : pq'[m].key # k BY <1>4, <3>1, <4>4
      <4> QED BY <4>2, <4>3, <4>5
    <3> QED BY <1>7, <2>2, <3>2 DEF FirstLasts, Sooner
  <2> QED BY <2>1, <2>2
<1> QED BY <1>5, <1>6, <1>8, <1>9

\* pqExpire deletes by the first item of a key, when its ticks are over; the
\* items of other keys, and those behind it, stay.
LEMMA DeleteKeepsItems ==
  ASSUME TypeOK, Delete, NEW k, NEW ticks \in Nat
  PROVE  /\ k # item.key /\ Queued(k) => Queued(k)'
         /\ Live(k) => Live(k)'
         /\ k # item.key /\ FirstLasts(k, ticks) => FirstLasts(k, ticks)'
         /\ ticks > 0 => ~FirstLasts(item.key, ticks)
<1>1. item # NoItem /\ item.left = 0 /\ item' = NoItem /\ pq' = pq
  BY DEF Delete, Expired
<1>2. ~Waiting(k)' BY <1>1 DEF Waiting
<1>3. k # item.key => ~Waiting(k) BY DEF Waiting
<1>4. k # item.key /\ Queued(k) => Queued(k)' BY <1>1 DEF Queued
<1>5. Live(k) => Live(k)' BY <1>1 DEF Live
<1>6. k # item.key /\ FirstLasts(k, ticks) => FirstLasts(k, ticks)'
  BY <1>1, <1>2, <1>3 DEF FirstLasts
<1>7. Waiting(item.key) BY <1>1 DEF Waiting
<1>8. ticks > 0 => ~FirstLasts(item.key, ticks) BY <1>1, <1>7 DEF FirstLasts
<1> QED BY <1>4, <1>5, <1>6, <1>8
-----------------------------------------------------------------------------
(* The steps.                                                               *)

ItemsInv == SetHasItem /\ NoOrphan /\ FreshOutlives /\ KeepsItsTime

\* What a step keeps that only moves items, or calls that are not queued.
LEMMA ItemsCarry ==
  ASSUME TypeOK, ItemsInv, UNCHANGED <<cache, fresh, owed>>,
         \A c \in Caller :
           \/ call'[c] = call[c]
           \/ /\ call[c] # NoCall => ~call[c].queued
              /\ call'[c] # NoCall => ~call'[c].queued,
         \A k \in Key : /\ Queued(k) => Queued(k)'
                        /\ Live(k) => Live(k)'
                        /\ \A n \in Nat : FirstLasts(k, n) => FirstLasts(k, n)'
  PROVE  ItemsInv'
<1>1. SetHasItem'
  <2>1. ASSUME NEW c \in Caller, call'[c] # NoCall, call'[c].queued,
               call'[c].flagexpires, ~call'[c].late
        PROVE  Live(call[c].key)' /\ call'[c] = call[c]
    <3>1. call'[c] = call[c] BY <2>1
    <3>2. call[c].key \in Key BY <2>1, <3>1 DEF TypeOK, Call
    <3>3. Live(call[c].key) BY <2>1, <3>1 DEF ItemsInv, SetHasItem
    <3>4. PICK k \in Key : k = call[c].key BY <3>2
    <3>5. Live(k)' BY <3>3, <3>4
    <3> QED BY <3>1, <3>4, <3>5 DEF Live, Waiting
  <2> QED BY <2>1 DEF SetHasItem
<1>2. NoOrphan' BY DEF ItemsInv, NoOrphan, TypeOK
<1>3. FreshOutlives'
  <2>1. ASSUME NEW k \in Key, fresh[k] > 0 PROVE FirstLasts(k, fresh[k])'
    <3>1. PICK n \in Nat : n = fresh[k] BY DEF TypeOK
    <3>2. FirstLasts(k, n)' BY <2>1, <3>1 DEF ItemsInv, FreshOutlives
    <3>3. fresh'[k] = n BY <3>1
    <3> QED BY <3>2, <3>3 DEF FirstLasts
  <2> QED BY <2>1 DEF FreshOutlives
<1>4. KeepsItsTime'
  <2>1. \A k \in Key : Setting(k) => Setting(k)' BY DEF Setting
  <2> QED BY <2>1 DEF ItemsInv, KeepsItsTime, Cached
<1> QED BY <1>1, <1>2, <1>3, <1>4 DEF ItemsInv

LEMMA InvInParts ==
  CachesInv <=> TypeOK /\ EntryTyped /\ ReadIsTrue /\ EntryIsTrue /\ ItemsInv
BY DEF CachesInv, ItemsInv

LEMMA SameItems ==
  ASSUME UNCHANGED <<pq, item>>, NEW k
  PROVE  /\ Queued(k)' = Queued(k) /\ Live(k)' = Live(k)
         /\ \A n : FirstLasts(k, n)' = FirstLasts(k, n)
BY DEF Queued, Live, FirstLasts, Waiting

LEMMA KnownKeeps == ASSUME CachesInv, NEW d \in Key, Known(d) PROVE CachesInv'
<1>1. UNCHANGED <<kind, cache, pq, item, ext, pushq, extends, call, fresh, owed>>
  BY DEF Known
<1>2. ReadIsTrue' /\ EntryIsTrue' /\ known' \in [Key -> Nat]
  BY FiledStaysTrue DEF CachesInv
<1>3. TypeOK' /\ EntryTyped' BY <1>1, <1>2 DEF CachesInv, TypeOK, EntryTyped
<1>4. ItemsInv' BY <1>1, SameItems, ItemsCarry, InvInParts
<1> QED BY <1>2, <1>3, <1>4 DEF CachesInv, ItemsInv

LEMMA ReadsKeeps ==
  ASSUME CachesInv, NEW c \in Caller, NEW k \in Key, Reads(c, k)
  PROVE  CachesInv'
<1>1. /\ call[c] = NoCall /\ call \in [Caller -> Call \cup {NoCall}]
      /\ UNCHANGED <<kind, known, cache, pq, item, ext, pushq, extends, fresh, owed>>
  BY DEF Reads, CachesInv, TypeOK
<1>2. PICK f \in BOOLEAN :
        call' = [call EXCEPT ![c] = [key |-> k, val |-> Truth(k), flagexpires |-> f,
                                     queued |-> FALSE, late |-> FALSE]]
  BY DEF Reads
<1> DEFINE new == [key |-> k, val |-> Truth(k), flagexpires |-> f,
                   queued |-> FALSE, late |-> FALSE]
<1>3. /\ new.key = k /\ new.val = Truth(k) /\ ~new.queued
      /\ Truth(k) \in Value => new \in Call
  BY DEF Call
<1> HIDE DEF new
<1>4. call' = [call EXCEPT ![c] = new] BY <1>2 DEF new
<1>5. call'[c] = new /\ \A b \in Caller \ {c} : call'[b] = call[b] BY <1>1, <1>4
<1>6. known[k] \in Nat /\ known[k] \in 0..known[k] BY DEF CachesInv, TypeOK
<1>7. /\ kind = "L3" => Truth(k) = Initial(known[k]) /\ Truth(k) \in Value
      /\ kind = "L2" => /\ Truth(k) \in Value
                        /\ (Truth(k) = hash /\ known[k] = 1) \/ Truth(k) = eofhash
  <2>1. ASSUME kind = "L3" PROVE Truth(k) = Initial(known[k]) BY <2>1 DEF Truth, Initial
  <2>2. Initial(known[k]) \in Value BY <1>6, InitialIsSeq DEF Value
  <2>3. ASSUME kind = "L2" PROVE Truth(k) = IF known[k] = 0 THEN eofhash ELSE hash
    BY <2>3 DEF Truth
  <2>4. kind = "L2" => known[k] = 0 \/ known[k] = 1 BY <1>6 DEF CachesInv, ReadIsTrue
  <2> QED BY <2>1, <2>2, <2>3, <2>4 DEF Value
<1>8. new \in Call BY <1>3, <1>7, TwoKinds DEF KindIs, CachesInv
<1>9. TypeOK'
  <2>1. call' \in [Caller -> Call \cup {NoCall}] BY <1>1, <1>4, <1>8
  <2> QED BY <1>1, <2>1 DEF CachesInv, TypeOK
<1>10. EntryTyped' /\ EntryIsTrue'
  BY <1>1 DEF CachesInv, EntryTyped, EntryIsTrue, Cached
<1>11. ReadIsTrue'
  <2>1. IF kind = "L3" THEN \E n \in 0..known[k] : new.val = [i \in 1..n |-> i]
        ELSE (new.val = hash /\ known[k] = 1) \/ (new.val = eofhash /\ ~new.queued)
    BY <1>3, <1>6, <1>7, TwoKinds DEF KindIs, CachesInv, Initial
  <2>2. ASSUME NEW b \in Caller, call'[b] # NoCall
        PROVE  IF kind = "L3"
               THEN \E n \in 0..known[call'[b].key] : call'[b].val = [i \in 1..n |-> i]
               ELSE \/ call'[b].val = hash /\ known[call'[b].key] = 1
                    \/ call'[b].val = eofhash /\ ~call'[b].queued
    <3>1. CASE b = c BY <1>3, <1>5, <2>1, <3>1
    <3>2. CASE b # c BY <1>5, <2>2, <3>2 DEF CachesInv, ReadIsTrue
    <3> QED BY <3>1, <3>2
  <2>3. \A d \in Key : kind = "L2" => known[d] <= 1 BY DEF CachesInv, ReadIsTrue
  <2>4. kind' = kind /\ known' = known BY <1>1
  <2> QED BY <2>2, <2>3, <2>4 DEF ReadIsTrue
<1>12. ItemsInv'
  <2>1. \A b \in Caller : \/ call'[b] = call[b]
                          \/ /\ call[b] # NoCall => ~call[b].queued
                             /\ call'[b] # NoCall => ~call'[b].queued
    BY <1>1, <1>3, <1>5
  <2> QED BY <1>1, <2>1, SameItems, ItemsCarry, InvInParts
<1> QED BY <1>9, <1>10, <1>11, <1>12 DEF CachesInv, ItemsInv

\* The steps that only move items behind or to the head of the queue.
LEMMA MovingKeeps ==
  ASSUME CachesInv, UNCHANGED <<kind, known, cache, call, fresh, owed>>, TypeOK',
         \A k \in Key : /\ Queued(k) => Queued(k)'
                        /\ Live(k) => Live(k)'
                        /\ \A n \in Nat : FirstLasts(k, n) => FirstLasts(k, n)'
  PROVE  CachesInv'
<1>1. ItemsInv' BY ItemsCarry, InvInParts
<1>2. EntryTyped' /\ ReadIsTrue' /\ EntryIsTrue'
  BY DEF CachesInv, EntryTyped, ReadIsTrue, EntryIsTrue, Cached
<1> QED BY <1>1, <1>2 DEF CachesInv, ItemsInv

LEMMA PopKeeps == ASSUME CachesInv, Pop PROVE CachesInv'
<1>1. UNCHANGED <<kind, known, cache, ext, pushq, extends, call, fresh, owed>>
  BY DEF Pop
<1>2. TypeOK' BY <1>1, PopKeepsItems DEF CachesInv, TypeOK
<1> QED BY <1>1, <1>2, PopKeepsItems, MovingKeeps DEF CachesInv

LEMMA ExtendKeeps ==
  ASSUME CachesInv, NEW k \in Key \cup {Nil}, Extend(k) PROVE CachesInv'
<1>1. /\ UNCHANGED <<kind, known, cache, pq, item, pushq, extends, call, fresh, owed>>
      /\ ext' = Append(ext, k)
  BY DEF Extend
<1>2. ext' \in Seq(Key \cup {Nil}) BY <1>1, AppendProperties DEF CachesInv, TypeOK
<1>3. TypeOK' BY <1>1, <1>2 DEF CachesInv, TypeOK
<1> QED BY <1>1, <1>3, SameItems, MovingKeeps

LEMMA BatchKeeps ==
  ASSUME CachesInv, pqExtendTakes \/ pqExtendTimeout PROVE CachesInv'
<1>1. /\ UNCHANGED <<kind, known, cache, item, call, fresh, owed>>
      /\ pushq \in Seq(Key) /\ ext \in Seq(Key \cup {Nil}) /\ extends \in BOOLEAN
      /\ pq \in Seq(Item)
  BY DEF pqExtendTakes, pqExtendTimeout, CachesInv, TypeOK
<1>2. /\ ext' \in Seq(Key \cup {Nil}) /\ pushq' \in Seq(Key) /\ extends' \in BOOLEAN
      /\ pq' = pq \/ \E batch \in Seq(Key) : pq' = PushAll(batch)
  <2>1. CASE pqExtendTimeout
    BY <1>1, <2>1, EmptySeq DEF pqExtendTimeout
  <2>2. CASE pqExtendTakes
    <3> DEFINE head == Head(ext)
               batch == Append(pushq, head)
    <3>1. ext # <<>> /\ ext' = Tail(ext) BY <2>2 DEF pqExtendTakes
    <3>2. ext' \in Seq(Key \cup {Nil}) /\ head \in Key \cup {Nil}
      BY <1>1, <3>1, HeadTailProperties
    <3>3. \/ extends' = FALSE /\ pushq' = <<>> /\ pq' = pq
          \/ head # Nil /\ pq' = PushAll(batch) /\ pushq' = <<>> /\ extends' = extends
          \/ head # Nil /\ pushq' = batch /\ pq' = pq /\ extends' = extends
      BY <2>2 DEF pqExtendTakes
    <3>4. head # Nil => batch \in Seq(Key)
      BY <1>1, <3>2, AppendProperties
    <3> HIDE DEF head, batch
    <3> QED BY <1>1, <3>2, <3>3, <3>4, EmptySeq
  <2> QED BY <2>1, <2>2
<1>3. /\ pq' \in Seq(Item) /\ Len(pq) <= Len(pq')
      /\ \A n \in 1..Len(pq) : pq'[n] = pq[n]
  <2>1. CASE pq' = pq BY <1>1, <2>1, LenProperties
  <2>2. ASSUME NEW batch \in Seq(Key), pq' = PushAll(batch)
        PROVE  /\ pq' \in Seq(Item) /\ Len(pq) <= Len(pq')
               /\ \A n \in 1..Len(pq) : pq'[n] = pq[n]
    BY <2>2, BatchIsQueued DEF CachesInv
  <2> QED BY <1>2, <2>1, <2>2
<1>4. TypeOK' BY <1>1, <1>2, <1>3 DEF CachesInv, TypeOK
<1>5. \A k \in Key : /\ Queued(k) => Queued(k)'
                     /\ Live(k) => Live(k)'
                     /\ \A n \in Nat : FirstLasts(k, n) => FirstLasts(k, n)'
  BY <1>1, <1>3, PqGrows DEF CachesInv
<1> QED BY <1>1, <1>4, <1>5, MovingKeeps

LEMMA CallFacts ==
  ASSUME TypeOK, NEW c \in Caller, call[c] # NoCall
  PROVE  /\ call[c] \in Call /\ call[c].key \in Key /\ call[c].val \in Value
         /\ call[c].queued \in BOOLEAN /\ call[c].flagexpires \in BOOLEAN
BY DEF TypeOK, Call

\* A call that sets nothing is over.
LEMMA RefusedKeeps ==
  ASSUME CachesInv, NEW c \in Caller, call[c] # NoCall, ~call[c].queued,
         call' = [call EXCEPT ![c] = NoCall],
         UNCHANGED <<kind, known, cache, pq, item, ext, pushq, extends, fresh, owed>>
  PROVE  CachesInv'
<1>1. call'[c] = NoCall /\ \A b \in Caller : b # c => call'[b] = call[b]
  BY DEF CachesInv, TypeOK
<1>2. TypeOK' BY DEF CachesInv, TypeOK
<1>3. EntryTyped' /\ ReadIsTrue' /\ EntryIsTrue'
  BY <1>1, SameEntries DEF CachesInv
<1>4. ItemsInv' BY <1>1, SameItems, ItemsCarry, InvInParts
<1> QED BY <1>2, <1>3, <1>4 DEF CachesInv, ItemsInv

\* A Set without an item only says that it will write.
LEMMA QueuedKeeps ==
  ASSUME CachesInv, NEW c \in Caller, call[c] # NoCall, ~call[c].queued,
         call[c].val # eofhash,
         call' = [call EXCEPT ![c].queued = TRUE],
         UNCHANGED <<kind, known, cache, item, ext, pushq, extends, owed>>,
         NEW k \in Key, k = call[c].key,
         \/ ~call[c].flagexpires /\ pq' = pq /\ fresh' = fresh
         \/ /\ pq' = Push(k, CacheExpires)
            /\ fresh' = [fresh EXCEPT ![k] = IF Queued(k) THEN @ ELSE CacheExpires]
  PROVE  CachesInv'
<1>1. /\ call'[c] = [call[c] EXCEPT !.queued = TRUE]
      /\ \A b \in Caller : b # c => call'[b] = call[b]
  BY DEF CachesInv, TypeOK
<1>2. /\ call'[c] \in Call /\ call'[c].key = k /\ call'[c].val = call[c].val
      /\ call'[c].queued /\ call'[c].flagexpires = call[c].flagexpires
      /\ call'[c] # NoCall
  <2>1. call[c] \in Call /\ call[c].key = k BY CallFacts DEF CachesInv
  <2>2. /\ [call[c] EXCEPT !.queued = TRUE] \in Call
        /\ [call[c] EXCEPT !.queued = TRUE].key = call[c].key
        /\ [call[c] EXCEPT !.queued = TRUE].val = call[c].val
        /\ [call[c] EXCEPT !.queued = TRUE].queued = TRUE
        /\ [call[c] EXCEPT !.queued = TRUE].flagexpires = call[c].flagexpires
    BY <2>1 DEF Call
  <2>3. NoCall \notin Call OBVIOUS
  <2> QED BY <1>1, <2>1, <2>2, <2>3
<1>3. /\ pq' \in Seq(Item) /\ Len(pq) <= Len(pq')
      /\ \A n \in 1..Len(pq) : pq'[n] = pq[n]
      /\ call[c].flagexpires => Live(k)'
      /\ fresh'[k] = fresh[k] \/ (fresh'[k] = CacheExpires /\ FirstLasts(k, CacheExpires)')
  <2>1. fresh \in [Key -> Nat] /\ pq \in Seq(Item) BY DEF CachesInv, TypeOK
  <2>2. CASE ~call[c].flagexpires /\ pq' = pq /\ fresh' = fresh
    BY <2>1, <2>2, LenProperties
  <2>3. CASE /\ pq' = Push(k, CacheExpires)
             /\ fresh' = [fresh EXCEPT ![k] = IF Queued(k) THEN @ ELSE CacheExpires]
    <3>1. pq' = Append(pq, [key |-> k, left |-> CacheExpires]) BY <2>3 DEF Push
    <3>2. CacheExpires \in 0..Longest /\ CacheExpires > 0 BY PqFacts DEF CachesInv
    <3>3. /\ pq' \in Seq(Item) /\ Len(pq) <= Len(pq')
          /\ \A n \in 1..Len(pq) : pq'[n] = pq[n]
          /\ Live(k)' /\ (~Queued(k) => FirstLasts(k, CacheExpires)')
      BY <3>1, <3>2, PqGetsItem DEF CachesInv
    <3>4. fresh'[k] = IF Queued(k) THEN fresh[k] ELSE CacheExpires BY <2>1, <2>3
    <3> QED BY <3>3, <3>4
  <2> QED BY <2>2, <2>3
<1>4. /\ fresh' \in [Key -> Nat]
      /\ \A d \in Key : d # k => fresh'[d] = fresh[d]
  <2>1. fresh \in [Key -> Nat] /\ CacheExpires \in Nat BY DEF CachesInv, TypeOK
  <2> QED BY <2>1
<1>5. TypeOK' BY <1>2, <1>3, <1>4 DEF CachesInv, TypeOK
<1>6. EntryTyped' /\ ReadIsTrue' /\ EntryIsTrue'
  BY <1>1, <1>2, SameEntries DEF CachesInv
<1>7. \A d \in Key : /\ Queued(d) => Queued(d)'
                     /\ Live(d) => Live(d)'
                     /\ \A n \in Nat : FirstLasts(d, n) => FirstLasts(d, n)'
  BY <1>3, PqGrows DEF CachesInv
<1>8. SetHasItem'
  <2>1. ASSUME NEW b \in Caller, call'[b] # NoCall, call'[b].queued,
               call'[b].flagexpires, ~call'[b].late
        PROVE  \E d \in Key : d = call'[b].key /\ Live(d)'
    <3>1. CASE b = c BY <1>2, <1>3, <2>1, <3>1
    <3>2. CASE b # c
      <4>1. call[b] # NoCall /\ call'[b] = call[b] BY <1>1, <2>1, <3>2
      <4>2. call[b].key \in Key BY <4>1, CallFacts DEF CachesInv
      <4>3. Live(call[b].key) BY <2>1, <4>1 DEF CachesInv, SetHasItem
      <4> QED BY <1>7, <4>1, <4>2, <4>3
    <3> QED BY <3>1, <3>2
  <2> QED BY <2>1 DEF SetHasItem, Live, Waiting
<1>9. NoOrphan' BY <1>7 DEF CachesInv, NoOrphan, TypeOK
<1>10. FreshOutlives'
  <2>1. ASSUME NEW d \in Key, fresh'[d] > 0
        PROVE  \E n \in Nat : n = fresh'[d] /\ FirstLasts(d, n)'
    <3>1. fresh'[d] = fresh[d] \/ (d = k /\ fresh'[d] = CacheExpires
                                         /\ FirstLasts(k, CacheExpires)')
      BY <1>3, <1>4
    <3>2. CASE fresh'[d] = fresh[d]
      <4>1. fresh[d] \in Nat /\ FirstLasts(d, fresh[d])
        BY <2>1, <3>2 DEF CachesInv, FreshOutlives, TypeOK
      <4> QED BY <1>7, <3>2, <4>1
    <3>3. CASE d = k /\ fresh'[d] = CacheExpires /\ FirstLasts(k, CacheExpires)'
      BY <3>3
    <3> QED BY <3>1, <3>2, <3>3
  <2> QED BY <2>1 DEF FreshOutlives, FirstLasts
<1>11. KeepsItsTime'
  <2>1. Setting(k)' BY <1>2 DEF Setting
  <2>2. \A d \in Key : Setting(d) => Setting(d)' BY <1>1, <1>2 DEF Setting
  <2> QED BY <1>4, <2>1, <2>2 DEF CachesInv, KeepsItsTime, Cached
<1> QED BY <1>5, <1>6, <1>8, <1>9, <1>10, <1>11 DEF CachesInv

LEMMA SetQueuesKeeps ==
  ASSUME CachesInv, NEW c \in Caller, SetQueues(c) PROVE CachesInv'
<1>1. /\ call[c] # NoCall /\ ~call[c].queued
      /\ UNCHANGED <<kind, known, cache, item, ext, pushq, extends, owed>>
  BY DEF SetQueues
<1>2. PICK k \in Key : k = call[c].key BY <1>1, CallFacts DEF CachesInv
<1>3. CASE call[c].val = eofhash
  <2>1. call' = [call EXCEPT ![c] = NoCall] /\ pq' = pq /\ fresh' = fresh
    BY <1>3 DEF SetQueues, Accepted
  <2> QED BY <1>1, <2>1, RefusedKeeps
<1>4. CASE call[c].val # eofhash
  <2>1. /\ call' = [call EXCEPT ![c].queued = TRUE]
        /\ \/ ~call[c].flagexpires /\ pq' = pq /\ fresh' = fresh
           \/ /\ pq' = Push(k, CacheExpires)
              /\ fresh' = [fresh EXCEPT ![k] = IF Queued(k) THEN @ ELSE CacheExpires]
    BY <1>2, <1>4 DEF SetQueues, Accepted
  <2> QED BY <1>1, <1>2, <1>4, <2>1, QueuedKeeps
<1> QED BY <1>3, <1>4

LEMMA SetWritesKeeps ==
  ASSUME CachesInv, NEW c \in Caller, SetWrites(c) PROVE CachesInv'
<1>1. /\ call[c] # NoCall /\ call[c].queued
      /\ UNCHANGED <<kind, known, pq, item, ext, pushq, extends, fresh>>
      /\ call' = [call EXCEPT ![c] = NoCall]
  BY DEF SetWrites
<1>2. PICK k \in Key : k = call[c].key BY <1>1, CallFacts DEF CachesInv
<1> DEFINE w == Merged(cache[k], call[c].val)
<1>3. /\ cache' = [cache EXCEPT ![k] = w]
      /\ owed' = IF call[c].flagexpires /\ ~call[c].late THEN owed \cup {k} ELSE owed
  BY <1>2 DEF SetWrites
<1>4. /\ w \in Value /\ w # Absent
      /\ kind = "L3" => /\ w \in Seq(Nat)
                        /\ Range(w) = 1..Len(w) /\ Len(w) <= known[k]
      /\ kind = "L2" => w = hash /\ known[k] = 1
  BY <1>1, <1>2, MergedIsTrue
<1> HIDE DEF w
<1>5. cache'[k] = w /\ \A d \in Key : d # k => cache'[d] = cache[d]
  BY <1>3 DEF CachesInv, TypeOK
<1>6. call'[c] = NoCall /\ \A b \in Caller : b # c => call'[b] = call[b]
  BY <1>1 DEF CachesInv, TypeOK
<1>7. TypeOK' BY <1>1, <1>3, <1>4 DEF CachesInv, TypeOK
<1>8. EntryTyped' BY <1>1, <1>4, <1>5 DEF CachesInv, EntryTyped
<1>9. ReadIsTrue'
  <2>1. \A b \in Caller : call'[b] = NoCall \/ call'[b] = call[b] BY <1>6
  <2>2. kind' = kind /\ known' = known BY <1>1
  <2>3. ReadIsTrue BY DEF CachesInv
  <2> QED BY <2>1, <2>2, <2>3 DEF ReadIsTrue
<1>10. EntryIsTrue'
  BY <1>1, <1>4, <1>5, TwoKinds DEF CachesInv, EntryIsTrue, Cached, KindIs
<1>11. SetHasItem'
  BY <1>1, <1>6 DEF CachesInv, SetHasItem, Live, Waiting
<1>12. NoOrphan'
  <2>1. call[c].flagexpires /\ ~call[c].late => Queued(k)
    BY <1>1, <1>2, LiveIsQueued DEF CachesInv, SetHasItem
  <2>2. \A d \in owed' : Queued(d) BY <1>3, <2>1 DEF CachesInv, NoOrphan
  <2> QED BY <1>1, <2>2 DEF NoOrphan, Queued
<1>13. FreshOutlives' BY <1>1 DEF CachesInv, FreshOutlives, FirstLasts, Waiting
<1>14. KeepsItsTime'
  <2>1. \A d \in Key : d # k /\ Setting(d) => Setting(d)'
    BY <1>2, <1>6 DEF Setting
  <2> QED BY <1>1, <1>4, <1>5, <2>1 DEF CachesInv, KeepsItsTime, Cached
<1> QED BY <1>7, <1>8, <1>9, <1>10, <1>11, <1>12, <1>13, <1>14 DEF CachesInv

LEMMA DeleteKeeps == ASSUME CachesInv, Delete PROVE CachesInv'
<1>1. /\ item # NoItem /\ item' = NoItem /\ owed' = owed \ {item.key}
      /\ cache' = [cache EXCEPT ![item.key] = Absent]
      /\ UNCHANGED <<kind, known, pq, ext, pushq, extends, call, fresh>>
  BY DEF Delete, Deleted
<1>2. PICK k \in Key : k = item.key BY <1>1, PqFacts DEF CachesInv
<1>3. /\ \A d \in Key : d # k /\ Queued(d) => Queued(d)'
      /\ \A d \in Key : Live(d) => Live(d)'
      /\ \A d \in Key, n \in Nat : d # k /\ FirstLasts(d, n) => FirstLasts(d, n)'
      /\ \A n \in Nat : n > 0 => ~FirstLasts(k, n)
  BY <1>2, DeleteKeepsItems DEF CachesInv
<1>4. cache'[k] = Absent /\ \A d \in Key : d # k => cache'[d] = cache[d]
  BY <1>1, <1>2 DEF CachesInv, TypeOK
<1>5. fresh \in [Key -> Nat] BY DEF CachesInv, TypeOK
<1>6. fresh[k] = 0 BY <1>2, <1>3, <1>5 DEF CachesInv, FreshOutlives
<1>7. TypeOK' BY <1>1, <1>2 DEF CachesInv, TypeOK
<1>8. EntryTyped' BY <1>1, <1>4 DEF CachesInv, EntryTyped
<1>9. ReadIsTrue' BY <1>1 DEF CachesInv, ReadIsTrue
<1>10. EntryIsTrue' BY <1>1, <1>4 DEF CachesInv, EntryIsTrue, Cached
<1>11. SetHasItem'
  <2>1. ASSUME NEW b \in Caller, call[b] # NoCall, call[b].queued,
               call[b].flagexpires, ~call[b].late
        PROVE  \E d \in Key : d = call[b].key /\ Live(d)'
    <3>1. call[b].key \in Key BY <2>1, CallFacts DEF CachesInv
    <3>2. Live(call[b].key) BY <2>1 DEF CachesInv, SetHasItem
    <3> QED BY <1>3, <3>1, <3>2
  <2> QED BY <1>1, <2>1 DEF SetHasItem, Live, Waiting
<1>12. NoOrphan' BY <1>1, <1>2, <1>3 DEF CachesInv, NoOrphan, TypeOK
<1>13. FreshOutlives'
  <2>1. ASSUME NEW d \in Key, fresh[d] > 0
        PROVE  \E n \in Nat : n = fresh[d] /\ FirstLasts(d, n)'
    <3>1. d # k /\ fresh[d] \in Nat BY <1>5, <1>6, <2>1
    <3>2. FirstLasts(d, fresh[d]) BY <2>1 DEF CachesInv, FreshOutlives
    <3> QED BY <1>3, <3>1, <3>2
  <2> QED BY <1>1, <2>1 DEF FreshOutlives, FirstLasts
<1>14. KeepsItsTime'
  BY <1>1, <1>4, <1>6 DEF CachesInv, KeepsItsTime, Cached, Setting
<1> QED BY <1>7, <1>8, <1>9, <1>10, <1>11, <1>12, <1>13, <1>14 DEF CachesInv

LEMMA TickKeeps == ASSUME CachesInv, Tick PROVE CachesInv'
<1>1. /\ UNCHANGED <<kind, known, cache, ext, pushq, extends, owed>>
      /\ fresh' = [k \in Key |-> Sooner(fresh[k])]
      /\ call' = [c \in Caller |-> IF call[c] # NoCall /\ call[c].queued
                                   THEN [call[c] EXCEPT !.late = TRUE] ELSE call[c]]
  BY DEF Tick
<1>2. \A c \in Caller :
        /\ call[c] = NoCall <=> call'[c] = NoCall
        /\ call[c] # NoCall => /\ call'[c] \in Call
                               /\ call'[c].key = call[c].key
                               /\ call'[c].val = call[c].val
                               /\ call'[c].queued = call[c].queued
                               /\ call'[c].queued => call'[c].late
  <2>1. \A r \in Call : /\ [r EXCEPT !.late = TRUE] \in Call
                        /\ [r EXCEPT !.late = TRUE].key = r.key
                        /\ [r EXCEPT !.late = TRUE].val = r.val
                        /\ [r EXCEPT !.late = TRUE].queued = r.queued
                        /\ [r EXCEPT !.late = TRUE].late = TRUE
    BY DEF Call
  <2>2. ASSUME NEW c \in Caller, call[c] # NoCall PROVE call[c] \in Call
    BY <2>2, CallFacts DEF CachesInv
  <2>3. ASSUME NEW c \in Caller
        PROVE  call'[c] = IF call[c] # NoCall /\ call[c].queued
                          THEN [call[c] EXCEPT !.late = TRUE] ELSE call[c]
    BY <1>1
  <2>4. \A r \in Call : r # NoCall OBVIOUS
  <2>5. ASSUME NEW c \in Caller, call[c] # NoCall
        PROVE  /\ call'[c] \in Call
               /\ call'[c].key = call[c].key
               /\ call'[c].val = call[c].val
               /\ call'[c].queued = call[c].queued
               /\ call'[c].queued => call'[c].late
    <3>1. call[c] \in Call BY <2>2, <2>5
    <3>2. CASE call[c].queued
      <4>1. call'[c] = [call[c] EXCEPT !.late = TRUE] BY <2>3, <2>5, <3>2
      <4> QED BY <2>1, <3>1, <4>1
    <3>3. CASE ~call[c].queued
      <4>1. call'[c] = call[c] BY <2>3, <3>3
      <4> QED BY <3>1, <3>3, <4>1
    <3> QED BY <3>2, <3>3
  <2>6. ASSUME NEW c \in Caller, call[c] = NoCall PROVE call'[c] = NoCall
    BY <2>3, <2>6
  <2> QED BY <2>4, <2>5, <2>6
<1>3. \A k \in Key : /\ fresh[k] \in Nat /\ fresh'[k] \in Nat
                     /\ fresh'[k] = Sooner(fresh[k])
                     /\ fresh'[k] > 0 => fresh[k] > 0
  BY <1>1 DEF CachesInv, TypeOK, Sooner
<1>4. /\ item' \in Item \cup {NoItem} /\ pq' \in Seq(Item)
      /\ \A k \in Key : Queued(k) => Queued(k)'
      /\ \A k \in Key, n \in Nat : FirstLasts(k, n) => FirstLasts(k, Sooner(n))'
  <2>1. 0 \in Nat OBVIOUS
  <2>2. item' \in Item \cup {NoItem} /\ pq' \in Seq(Item)
    BY <2>1, TickKeepsItems DEF CachesInv
  <2>3. \A k \in Key : Queued(k) => Queued(k)'
    BY <2>1, TickKeepsItems DEF CachesInv
  <2>4. \A k \in Key, n \in Nat : FirstLasts(k, n) => FirstLasts(k, Sooner(n))'
    BY TickKeepsItems DEF CachesInv
  <2> QED BY <2>2, <2>3, <2>4
<1>5. TypeOK'
  <2>1. call' \in [Caller -> Call \cup {NoCall}] BY <1>1, <1>2
  <2>2. fresh' \in [Key -> Nat] BY <1>1, <1>3
  <2> QED BY <1>1, <1>4, <2>1, <2>2 DEF CachesInv, TypeOK
<1>6. EntryTyped' /\ ReadIsTrue' /\ EntryIsTrue'
  BY <1>1, <1>2, SameEntries DEF CachesInv
<1>7. SetHasItem' BY <1>2 DEF SetHasItem
<1>8. NoOrphan' BY <1>1, <1>4 DEF CachesInv, NoOrphan, TypeOK
<1>9. FreshOutlives'
  <2>1. ASSUME NEW k \in Key, fresh'[k] > 0
        PROVE  \E n : n = fresh'[k] /\ FirstLasts(k, n)'
    <3>1. PICK n \in Nat : n = fresh[k] BY <1>3
    <3>2. FirstLasts(k, n) BY <1>3, <2>1, <3>1 DEF CachesInv, FreshOutlives
    <3>3. FirstLasts(k, Sooner(n))' BY <1>4, <3>2
    <3>4. fresh'[k] = Sooner(n) BY <1>3, <3>1
    <3> QED BY <3>3, <3>4 DEF FirstLasts, Sooner
  <2> QED BY <2>1 DEF FreshOutlives, FirstLasts
<1>10. KeepsItsTime'
  <2>1. \A k \in Key : Setting(k) => Setting(k)' BY <1>2 DEF Setting
  <2> QED BY <1>1, <1>3, <2>1 DEF CachesInv, KeepsItsTime, Cached
<1> QED BY <1>5, <1>6, <1>7, <1>8, <1>9, <1>10 DEF CachesInv

LEMMA StutterKeeps == ASSUME CachesInv, UNCHANGED vars PROVE CachesInv'
<1>1. TypeOK' BY DEF CachesInv, TypeOK, vars
<1> QED BY <1>1, SameItems, MovingKeeps DEF vars

LEMMA NextKeepsCaches == ASSUME CachesInv, [Next]_vars PROVE CachesInv'
BY KnownKeeps, ReadsKeeps, ExtendKeeps, SetQueuesKeeps, SetWritesKeeps, PopKeeps,
   DeleteKeeps, BatchKeeps, TickKeeps, StutterKeeps DEF Next

LEMMA InitCaches == Init => CachesInv
<1> SUFFICES ASSUME Init PROVE CachesInv OBVIOUS
<1>1. TypeOK
  BY EmptySeq DEF Init, TypeOK
<1>2. EntryTyped /\ ReadIsTrue /\ EntryIsTrue
  BY DEF Init, EntryTyped, ReadIsTrue, EntryIsTrue, Cached
<1>3. SetHasItem /\ NoOrphan /\ FreshOutlives /\ KeepsItsTime
  BY DEF Init, SetHasItem, NoOrphan, FreshOutlives, KeepsItsTime
<1> QED BY <1>1, <1>2, <1>3 DEF CachesInv

\* The inductive invariant holds in every behaviour of the cache.
THEOREM CachesInvariant == Spec => []CachesInv
BY InitCaches, NextKeepsCaches, PTL DEF Spec

\* L3 gives the offsets that were filed first, without a hole, and L2 never says
\* that a line is missing, for every number of keys, callers and offsets and
\* whatever lists are set in whatever order.
THEOREM EntriesAreTrue == Spec => []EntryIsTrue
<1>1. CachesInv => EntryIsTrue BY DEF CachesInv
<1> QED BY <1>1, CachesInvariant, PTL

\* An entry that was set to expire lives for its time, if no item of its key was
\* in the queue before.
THEOREM EntriesLive == Spec => []KeepsItsTime
<1>1. CachesInv => KeepsItsTime BY DEF CachesInv
<1> QED BY <1>1, CachesInvariant, PTL

\* What was set to expire has an item that takes it away.
THEOREM NothingStaysForEver == Spec => []NoOrphan
<1>1. CachesInv => NoOrphan BY DEF CachesInv
<1> QED BY <1>1, CachesInvariant, PTL

\* A Set of what was read long ago takes no offset away from a living entry.
THEOREM SetsKeepNewer == Spec => StaleSetKeepsNewer
<1> DEFINE Keeps == \A k \in Key : (kind = "L3" /\ Cached(k) /\ cache'[k] # Absent)
                                     => Range(cache[k]) \subseteq Range(cache'[k])
<1>1. ASSUME CachesInv, [Next]_vars PROVE Keeps \/ UNCHANGED vars
  <2>1. ASSUME cache' = cache PROVE Keeps BY <2>1
  <2>2. ASSUME NEW c \in Caller, SetWrites(c) PROVE Keeps
    <3>1. call[c] # NoCall /\ call[c].queued BY <2>2 DEF SetWrites
    <3>2. PICK d \in Key : d = call[c].key BY <1>1, <3>1, CallFacts DEF CachesInv
    <3>3. cache' = [cache EXCEPT ![d] = Merged(@, call[c].val)]
      BY <2>2, <3>2 DEF SetWrites
    <3>4. /\ cache'[d] = Merged(cache[d], call[c].val)
          /\ \A k \in Key : k # d => cache'[k] = cache[k]
      BY <1>1, <3>3 DEF CachesInv, TypeOK
    <3>5. kind = "L3" /\ Cached(d) => Range(cache[d]) \subseteq Range(cache'[d])
      BY <1>1, <3>1, <3>2, <3>4, MergedIsTrue DEF Cached, CachesInv
    <3> QED BY <3>4, <3>5
  <2>3. ASSUME Delete PROVE Keeps
    <3>1. /\ cache' = [cache EXCEPT ![item.key] = Absent]
          /\ item.key \in Key
      BY <1>1, <2>3, PqFacts DEF Delete, Deleted, CachesInv
    <3> QED BY <1>1, <3>1 DEF CachesInv, TypeOK
  <2> QED BY <1>1, <2>1, <2>2, <2>3
          DEF Next, Known, Extend, Reads, SetQueues, Pop, pqExtendTakes,
              pqExtendTimeout, Tick
<1>2. CachesInv /\ [Next]_vars => [Keeps]_vars BY <1>1
<1> QED BY <1>2, CachesInvariant, PTL DEF Spec, StaleSetKeepsNewer
=============================================================================
