----------------------------- MODULE OffsetCaches -----------------------------
(***************************************************************************)
(* The L2 cache (offset => hash) and the L3 cache (key => offsets).  They  *)
(* are the same code but for what an entry holds: a map under one mutex,   *)
(* a queue of items that expire under another, pqExpire, and pqExtend,     *)
(* which collects items from a channel and queues them in batches.  The    *)
(* caches of different characters share nothing; this is one of them, with *)
(* its two goroutines.                                                     *)
(*                                                                         *)
(* Nothing in the package calls them today.  What they are for stands in   *)
(* their comments: "less requests to hashDB" and "to hisDat".  So a caller *)
(* reads what is filed under a key, or what stands at an offset, and sets  *)
(* it some time later.                                                     *)
(***************************************************************************)
EXTENDS Integers, Sequences, FiniteSets, Functions

CONSTANTS
  Kinds,          \* of the caches {"L2", "L3"} those that are looked at
  Key,            \* database keys in L3, offsets in L2
  Caller,
  CacheExpires,   \* L2CacheExpires and L3CacheExpires, in ticks
  ExtendExpires,  \* Expires of the items that are sent to Extend
  ClearEveryN,    \* items in a batch
  cEvCap,         \* capacity of the channel Extend
  MaxKnown,       \* bound of the models: offsets filed under a key
  MaxItems,       \* bound of the models: items under way
  hash, eofhash,  \* of the line at an offset; of an offset behind the end of file
  Absent, NoItem, NoCall, Nil

ASSUME CachesAssumption ==
  /\ Kinds \subseteq {"L2", "L3"}
  /\ {CacheExpires, ExtendExpires, ClearEveryN, cEvCap} \subseteq Nat \ {0}
  /\ {MaxKnown, MaxItems} \subseteq Nat
  /\ hash # eofhash /\ Nil \notin Key

VARIABLES
  kind,     \* which of the two caches this is
  known,    \* known[k]: offsets 1..n are filed under key k; in L2, whether the line
            \* at offset k is in the file
  cache,    \* cache[k]: the entry of k, or Absent
  pq,       \* items [key, left] that expire, oldest first
  item,     \* the item pqExpire has popped and waits for
  ext,      \* the channel Extend
  pushq,    \* the batch pqExtend collects
  extends,  \* does pqExtend run?
  call,     \* call[c]: what caller c has read and sets
  fresh,    \* history: ticks until the Set of a key with no item in the queue expires
  owed      \* history: the entries that an item has to take away

vars == <<kind, known, cache, pq, item, ext, pushq, extends, call, fresh, owed>>

Longest == IF CacheExpires > ExtendExpires THEN CacheExpires ELSE ExtendExpires
Item == [key : Key, left : 0..Longest]
Value == Seq(Nat) \cup {hash, eofhash}   \* offsets in L3, a hash in L2
Call == [key : Key, val : Value, flagexpires : BOOLEAN, queued : BOOLEAN, late : BOOLEAN]

ASSUME NoneAssumption == Absent \notin Value /\ NoItem \notin Item /\ NoCall \notin Call

Init ==
  /\ kind \in Kinds
  /\ known = [k \in Key |-> 0]
  /\ cache = [k \in Key |-> Absent]
  /\ pq = <<>> /\ item = NoItem
  /\ ext = <<>> /\ pushq = <<>> /\ extends = TRUE
  /\ call = [c \in Caller |-> NoCall]
  /\ fresh = [k \in Key |-> 0] /\ owed = {}

\* in the queue, or waited for by pqExpire
Queued(k) == (item # NoItem /\ item.key = k) \/ \E n \in DOMAIN pq : pq[n].key = k
Extended(k) == k \in Range(ext) \cup Range(pushq)
Room == Len(pq) + Len(ext) + Len(pushq) + Cardinality({item} \ {NoItem}) < MaxItems

Setting(k) == \E c \in Caller : call[c] # NoCall /\ call[c].key = k /\ call[c].queued
-----------------------------------------------------------------------------
\* The writer files one more offset under a key, or flushes a line.
Known(k) ==
  /\ known[k] < (IF kind = "L2" THEN 1 ELSE MaxKnown)
  /\ known' = [known EXCEPT ![k] = @ + 1]
  /\ UNCHANGED <<kind, cache, pq, item, ext, pushq, extends, call, fresh, owed>>

Truth(k) == CASE kind = "L3" -> [n \in 1..known[k] |-> n]
              [] kind = "L2" -> IF known[k] = 0 THEN eofhash ELSE hash

\* A caller missed k in the cache and has read it: it will set what is true now.
Reads(c, k) ==
  /\ call[c] = NoCall
  /\ \E flagexpires \in BOOLEAN :
       call' = [call EXCEPT ![c] = [key |-> k, val |-> Truth(k), flagexpires |-> flagexpires,
                                    queued |-> FALSE, late |-> FALSE]]
  /\ UNCHANGED <<kind, known, cache, pq, item, ext, pushq, extends, fresh, owed>>

Push(k, expires) == Append(pq, [key |-> k, left |-> expires])

\* SetOffsets and SetOffsetHash first queue an item, if the entry is to expire ...
Accepted(v) == v # eofhash

SetQueues(c) ==
  LET k == call[c].key IN
  /\ call[c] # NoCall /\ ~call[c].queued
  /\ IF ~Accepted(call[c].val)
     THEN call' = [call EXCEPT ![c] = NoCall] /\ UNCHANGED <<pq, fresh>>
     ELSE /\ call' = [call EXCEPT ![c].queued = TRUE]
          /\ IF call[c].flagexpires
             THEN /\ Room /\ pq' = Push(k, CacheExpires)
                  /\ fresh' = [fresh EXCEPT ![k] =
                                 IF Queued(k) THEN @ ELSE CacheExpires]
             ELSE UNCHANGED <<pq, fresh>>
  /\ UNCHANGED <<kind, known, cache, item, ext, pushq, extends, owed>>

\* ... and then write the entry.  L3 goes backwards through the new offsets and
\* appends them, until it meets one that is there; zeros and less are skipped.
NewestOnly(old, new) ==   \* mutant: stops after the first that is new
  IF new = <<>> \/ new[Len(new)] \in Range(old) THEN old ELSE Append(old, new[Len(new)])
AppendMissing(old, new) ==
  LET There(i) == new[i] > 0 /\ new[i] \in Range(old) \cup {new[j] : j \in i+1..Len(new)}
      missing == {i \in DOMAIN new : new[i] > 0 /\ \A j \in i..Len(new) : ~There(j)}
      FromBehind(n) == CHOOSE i \in missing : Cardinality({j \in missing : j >= i}) = n
  IN  old \o [n \in 1..Cardinality(missing) |-> new[FromBehind(n)]]

Overwritten(old, new) == IF kind = "L2" THEN old ELSE new   \* mutant: the last one wins
Merged(old, new) ==
  CASE old \in {Absent, <<>>} -> new
    [] old \notin {Absent, <<>>} /\ kind = "L3" -> AppendMissing(old, new)
    [] OTHER -> old   \* L2: the hash stays

SetWrites(c) ==
  LET k == call[c].key IN
  /\ call[c] # NoCall /\ call[c].queued
  /\ cache' = [cache EXCEPT ![k] = Merged(@, call[c].val)]
  /\ owed' = IF call[c].flagexpires /\ ~call[c].late THEN owed \cup {k} ELSE owed
  /\ call' = [call EXCEPT ![c] = NoCall]
  /\ UNCHANGED <<kind, known, pq, item, ext, pushq, extends, fresh>>
-----------------------------------------------------------------------------
\* pqExpire pops the oldest item and sleeps until it has expired ...
Pop ==
  /\ item = NoItem /\ pq # <<>>
  /\ item' = Head(pq)
  /\ pq' = Tail(pq)
  /\ UNCHANGED <<kind, known, cache, ext, pushq, extends, call, fresh, owed>>

AtOnce == TRUE   \* mutant: does not sleep
Expired == item.left = 0

\* ... and deletes the key, whoever wrote the entry that is there now.
Deleted == [cache EXCEPT ![item.key] = Absent]

Delete ==
  /\ item # NoItem /\ Expired
  /\ cache' = Deleted
  /\ owed' = owed \ {item.key}
  /\ item' = NoItem
  /\ UNCHANGED <<kind, known, pq, ext, pushq, extends, call, fresh>>

\* An item for an entry that was set without, or a nil.
Extend(k) ==
  /\ Len(ext) < cEvCap /\ Room
  /\ ext' = Append(ext, k)
  /\ UNCHANGED <<kind, known, cache, pq, item, pushq, extends, call, fresh, owed>>

\* The time of the items of a batch begins when the batch is queued.
PushAll(batch) == pq \o [n \in DOMAIN batch |-> [key |-> batch[n], left |-> ExtendExpires]]

pqExtendTakes ==
  LET batch == Append(pushq, Head(ext)) IN
  /\ extends /\ ext # <<>>
  /\ ext' = Tail(ext)
  /\ CASE Head(ext) = Nil ->   \* it ends, and forgets the batch
            extends' = FALSE /\ pushq' = <<>> /\ UNCHANGED pq
       [] Head(ext) # Nil /\ Len(batch) >= ClearEveryN ->
            pq' = PushAll(batch) /\ pushq' = <<>> /\ UNCHANGED extends
       [] OTHER ->
            pushq' = batch /\ UNCHANGED <<pq, extends>>
  /\ UNCHANGED <<kind, known, cache, item, call, fresh, owed>>

FullOnly == Len(pushq) >= ClearEveryN   \* mutant: the timer queues nothing
TimerPushes == pushq # <<>>

\* the timer, which every item sets back
pqExtendTimeout ==
  /\ extends /\ TimerPushes
  /\ pq' = PushAll(pushq)
  /\ pushq' = <<>>
  /\ UNCHANGED <<kind, known, cache, item, ext, extends, call, fresh, owed>>

Sooner(n) == IF n = 0 THEN 0 ELSE n - 1

Tick ==
  /\ pq' = [n \in DOMAIN pq |-> [pq[n] EXCEPT !.left = Sooner(@)]]
  /\ item' = IF item = NoItem THEN NoItem ELSE [item EXCEPT !.left = Sooner(@)]
  /\ fresh' = [k \in Key |-> Sooner(fresh[k])]
  /\ call' = [c \in Caller |-> IF call[c] # NoCall /\ call[c].queued
                               THEN [call[c] EXCEPT !.late = TRUE] ELSE call[c]]
  /\ UNCHANGED <<kind, known, cache, ext, pushq, extends, owed>>

Next ==
  \/ \E k \in Key : Known(k) \/ Extend(k) \/ \E c \in Caller : Reads(c, k)
  \/ Extend(Nil)
  \/ \E c \in Caller : SetQueues(c) \/ SetWrites(c)
  \/ Pop \/ Delete \/ pqExtendTakes \/ pqExtendTimeout \/ Tick

Spec == Init /\ [][Next]_vars

\* Time passes and the two goroutines go on; nobody has to set or extend anything.
Fairness == /\ WF_vars(Tick) /\ WF_vars(Pop) /\ WF_vars(Delete)
            /\ WF_vars(pqExtendTakes) /\ WF_vars(pqExtendTimeout)
FairSpec == Spec /\ Fairness
-----------------------------------------------------------------------------
TypeOK ==
  /\ kind \in Kinds
  /\ known \in [Key -> Nat]
  /\ cache \in [Key -> Value \cup {Absent}]
  /\ pq \in Seq(Item) /\ item \in Item \cup {NoItem}
  /\ ext \in Seq(Key \cup {Nil}) /\ pushq \in Seq(Key) /\ extends \in BOOLEAN
  /\ call \in [Caller -> Call \cup {NoCall}]
  /\ fresh \in [Key -> Nat] /\ owed \subseteq Key

\* GetOffsets and GetHashFromOffset.
Cached(k) == cache[k] # Absent

\* Who finds a key in L3 gets the offsets that were filed first, each of them once
\* and without a hole, in whatever order lists that were read before are set.
\* In L2 it is never remembered that a line was not in the file when it was read.
EntryIsTrue ==
  \A k \in Key : Cached(k) =>
    \/ kind = "L3" /\ Range(cache[k]) = 1..Len(cache[k]) /\ Len(cache[k]) <= known[k]
    \/ kind = "L2" /\ known[k] = 1 /\ cache[k] = hash

\* A caller that sets what it read long ago takes nothing away from an entry, as
\* long as the entry lives.
StaleSetKeepsNewer ==
  [][\A k \in Key : (kind = "L3" /\ Cached(k) /\ cache'[k] # Absent)
                      => Range(cache[k]) \subseteq Range(cache'[k])]_vars

\* An entry lives for its time, if no item of its key was in the queue when it was
\* set: items that were set or sent to Extend later are behind its own.
KeepsItsTime == \A k \in Key : fresh[k] > 0 /\ ~Setting(k) => Cached(k)

\* What was set to expire has an item that will take it away, unless the second
\* half of the Set came late.
NoOrphan == \A k \in owed : Queued(k)

\* Every item of the queue takes its key out of the cache in the end; an item sent
\* to Extend does when no nil follows it before it is queued.
ItemsDelete ==
  \A k \in Key : /\ Queued(k) ~> ~Cached(k)
                 /\ Extended(k) ~> (~Cached(k) \/ ~extends)
=============================================================================
