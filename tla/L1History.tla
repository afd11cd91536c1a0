------------------------------ MODULE L1History ------------------------------
(***************************************************************************)
(* Duplicate detection without a hash database (UseHashDB = FALSE): the    *)
(* L1 cache, its expiry goroutine pqExpire, the clients that search with   *)
(* IndexQuery(hash, -1) and history_Writer, which calls Set for every      *)
(* object it receives.  The caches of different leading characters share   *)
(* nothing; this is one of them.                                           *)
(*                                                                         *)
(* Time is counted in ticks.  A queue item keeps the ticks that are left   *)
(* of its Expires instead of the point in time.                            *)
(***************************************************************************)
EXTENDS Integers, Sequences, FiniteSets

CONSTANTS
  Hash, Client,
  L1CacheExpires,  \* ticks an entry lives after Set
  MaxQueue,        \* bound of the models: items in the queue
  CasePass, CaseDupes, CaseAdded, Absent, NoAnswer, NoHash, NoItem

ASSUME L1Assumption ==
  /\ L1CacheExpires \in Nat \ {0} /\ MaxQueue \in Nat
  /\ CasePass # CaseDupes /\ CaseAdded # CaseDupes
  /\ Absent \notin {CaseDupes, CaseAdded} /\ NoHash \notin Hash
  /\ NoItem \notin [key : Hash, left : 0..L1CacheExpires]
  /\ NoAnswer \notin {CasePass, CaseDupes} \X Hash

VARIABLES
  cache,   \* cache[h]: the value of the entry of h in ptr.cache, or Absent
  pq,      \* the queue of items [key, left], oldest first
  item,    \* the item pqExpire has popped and waits for
  wset,    \* the hash history_Writer is in Set with, its item being queued
  answer,  \* answer[c]: <<code, hash>> of the last search, until c is through
  due,     \* history: ticks for which a hash that was added must be known
  late,    \* history: hashes whose items were gone before Set wrote the entry
  bypassed \* history: hashes that were added by someone without a pass

vars == <<cache, pq, item, wset, answer, due, late, bypassed>>

Item == [key : Hash, left : 0..L1CacheExpires]

Init ==
  /\ cache = [h \in Hash |-> Absent]
  /\ pq = <<>> /\ item = NoItem /\ wset = NoHash
  /\ answer = [c \in Client |-> NoAnswer]
  /\ due = [h \in Hash |-> 0]
  /\ late = {} /\ bypassed = {}
-----------------------------------------------------------------------------
\* IndexQuery in query mode calls LockL1Cache(hash, CaseDupes): what is not in
\* the cache is put there, without a queue item, and passes.
IsLocked(h) == cache[h] # Absent
NotLocked(h) == cache   \* mutant: only looks
Locked(h) == [cache EXCEPT ![h] = IF IsLocked(h) THEN @ ELSE CaseDupes]

Search(c, h) ==
  /\ answer[c] = NoAnswer
  /\ answer' = [answer EXCEPT ![c] = <<IF IsLocked(h) THEN CaseDupes
                                       ELSE CasePass, h>>]
  /\ cache' = Locked(h)
  /\ UNCHANGED <<pq, item, wset, due, late, bypassed>>

\* the client goes on without adding
GiveUp(c) ==
  /\ answer[c] # NoAnswer
  /\ answer' = [answer EXCEPT ![c] = NoAnswer]
  /\ UNCHANGED <<cache, pq, item, wset, due, late, bypassed>>

NotQueued(h) == pq   \* mutant: the item never reaches pqExpire
Queued(h) == Append(pq, [key |-> h, left |-> L1CacheExpires])

\* ticks left of the items of h that are under way
LeftOf(h) == {n \in 0..L1CacheExpires :
                \/ \E i \in DOMAIN pq : pq[i].key = h /\ pq[i].left = n
                \/ item # NoItem /\ item.key = h /\ item.left = n}

\* AddHistory; history_Writer asks IndexQuery with its offset and that calls
\* Set, which first queues the item ...  Nothing looks whether the client
\* has searched, or whether an older item of the hash is under way: Delete will
\* take the entry with the first of them.
SetQueues(c, h) ==
  /\ wset = NoHash /\ Len(pq) < MaxQueue
  /\ wset' = h
  /\ pq' = Queued(h)
  /\ \E n \in LeftOf(h) \cup {L1CacheExpires} :
       /\ \A m \in LeftOf(h) : n <= m
       /\ due' = [due EXCEPT ![h] = n]
  /\ late' = late \ {h}
  /\ bypassed' = IF answer[c] = <<CasePass, h>> THEN bypassed ELSE bypassed \cup {h}
  /\ answer' = [answer EXCEPT ![c] = NoAnswer]
  /\ UNCHANGED <<cache, item>>

\* ... and then, under the other mutex, writes the entry.
SetWrites ==
  /\ wset # NoHash
  /\ cache' = [cache EXCEPT ![wset] = CaseAdded]
  /\ wset' = NoHash
  /\ UNCHANGED <<pq, item, answer, due, late, bypassed>>

\* pqExpire pops the oldest item and sleeps until it has expired ...
Pop ==
  /\ item = NoItem /\ pq # <<>>
  /\ item' = Head(pq)
  /\ pq' = Tail(pq)
  /\ UNCHANGED <<cache, wset, answer, due, late, bypassed>>

AtOnce == TRUE   \* mutant: does not sleep
Expired == item.left = 0

\* ... and deletes the key, whoever wrote the entry that is there now.
Delete ==
  /\ item # NoItem /\ Expired
  /\ cache' = [cache EXCEPT ![item.key] = Absent]
  /\ item' = NoItem
  /\ late' = IF item.key = wset /\ \A i \in DOMAIN pq : pq[i].key # wset
             THEN late \cup {wset} ELSE late
  /\ UNCHANGED <<pq, wset, answer, due, bypassed>>

Sooner(n) == IF n = 0 THEN 0 ELSE n - 1

Tick ==
  /\ pq' = [n \in DOMAIN pq |-> [pq[n] EXCEPT !.left = Sooner(@)]]
  /\ item' = IF item = NoItem THEN NoItem ELSE [item EXCEPT !.left = Sooner(@)]
  /\ due' = [h \in Hash |-> Sooner(due[h])]
  /\ UNCHANGED <<cache, wset, answer, late, bypassed>>

Next ==
  \/ \E c \in Client : \/ GiveUp(c)
                       \/ \E h \in Hash : Search(c, h) \/ SetQueues(c, h)
  \/ SetWrites
  \/ Pop \/ Delete
  \/ Tick

Spec == Init /\ [][Next]_vars

\* time passes, the writer and pqExpire go on
Fairness == WF_vars(Tick) /\ WF_vars(SetWrites) /\ WF_vars(Pop) /\ WF_vars(Delete)
FairSpec == Spec /\ Fairness
-----------------------------------------------------------------------------
TypeOK ==
  /\ cache \in [Hash -> {CaseDupes, CaseAdded, Absent}]
  /\ pq \in Seq(Item) /\ item \in Item \cup {NoItem}
  /\ wset \in Hash \cup {NoHash}
  /\ answer \in [Client -> ({CasePass, CaseDupes} \X Hash) \cup {NoAnswer}]
  /\ due \in [Hash -> 0..L1CacheExpires]
  /\ late \subseteq Hash /\ bypassed \subseteq Hash

\* CasePass "== not a duplicate == locked article for processing": two clients
\* never hold a pass for the same article, also not across an expiry.  That is so
\* while the article is added by those who hold the pass for it: an item that
\* somebody else queues deletes the lock under way.
OneHolder ==
  \A c, d \in Client, h \in Hash \ bypassed :
    (answer[c] = <<CasePass, h>> /\ answer[d] = <<CasePass, h>>) => c = d

\* What was added is in the cache until the first of the items of its hash that
\* were under way at its Set has expired: for all of its time when it was
\* not in the queue yet, for the time of the older item when it was added again.
KnownUntilExpiry == \A h \in Hash : (due[h] > 0 /\ wset # h) => IsLocked(h)

\* What was added leaves the cache again, memory does not grow with it: unless
\* pqExpire deleted its last item before Set wrote the entry.
AddedExpires ==
  \A h \in Hash : cache[h] = CaseAdded ~> (cache[h] = Absent \/ h \in late)
=============================================================================
