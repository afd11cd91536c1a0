---------------------------- MODULE L1HistoryProofs ----------------------------
(***************************************************************************)
(* Duplicate detection by the L1 cache alone, for every number of hashes   *)
(* and clients and every life time of an entry.  Delete takes whatever     *)
(* entry it finds.  The inductive invariant L1Inv says what this leaves:   *)
(* no item of a hash expires before the time promised for its entry        *)
(* (DueFirst), and a hash that only holders of its pass have added has one *)
(* item at most, and none while somebody holds a pass (OneItem,            *)
(* PendingKnown, PassKnown).                                               *)
(***************************************************************************)
EXTENDS L1History, TLAPS

\* an item of h on its way to Delete, after n more ticks
Leaves(h, n) ==
  \/ \E i \in DOMAIN pq : pq[i].key = h /\ pq[i].left = n
  \/ item # NoItem /\ item.key = h /\ item.left = n
Pending(h) == \E n \in 0..L1CacheExpires : Leaves(h, n)

OneItem ==
  /\ \A i, j \in DOMAIN pq : pq[i].key = pq[j].key /\ pq[i].key \notin bypassed => i = j
  /\ item # NoItem /\ item.key \notin bypassed => \A i \in DOMAIN pq : pq[i].key # item.key

\* who is on the way out is still there, and nobody may add it
PendingKnown ==
  \A h \in Hash \ bypassed : Pending(h) =>
    /\ cache[h] # Absent
    /\ \A c \in Client : answer[c] # <<CasePass, h>>

PassKnown ==
  \A c \in Client, h \in Hash \ bypassed :
    answer[c] = <<CasePass, h>> => cache[h] # Absent

\* no item of a hash leaves before the hash is due
DueFirst == \A h \in Hash, n \in 0..L1CacheExpires : Leaves(h, n) => due[h] <= n

L1Inv ==
  /\ TypeOK /\ OneItem /\ PendingKnown /\ PassKnown /\ OneHolder
  /\ DueFirst /\ KnownUntilExpiry

USE L1Assumption
-----------------------------------------------------------------------------
\* A client that is through holds no pass.
LEMMA NoAnswerIsNoPass == \A h \in Hash : NoAnswer # <<CasePass, h>>
OBVIOUS

\* The steps that leave the queue alone.
LEMMA QueueSame ==
  ASSUME UNCHANGED <<pq, item>>
  PROVE  /\ \A h, n : Leaves(h, n)' <=> Leaves(h, n)
         /\ \A h : Pending(h)' <=> Pending(h)
         /\ UNCHANGED bypassed /\ OneItem => OneItem'
BY DEF Leaves, Pending, OneItem

\* A search: only who finds nothing in the cache passes, and nothing is then on
\* its way out.
LEMMA SearchKeeps ==
  ASSUME L1Inv, NEW c \in Client, NEW h \in Hash, Search(c, h)
  PROVE  L1Inv'
<1>1. TypeOK' BY DEF L1Inv, TypeOK, Search, Locked
<1>2. \A g \in Hash : cache[g] # Absent => cache'[g] # Absent
  BY DEF L1Inv, TypeOK, Search, Locked, IsLocked
<1>3. cache'[h] # Absent BY DEF L1Inv, TypeOK, Search, Locked, IsLocked
<1>4. \A d \in Client, g \in Hash : answer'[d] = <<CasePass, g>> =>
        answer[d] = <<CasePass, g>> \/ (d = c /\ g = h /\ cache[h] = Absent)
  BY DEF L1Inv, TypeOK, Search, IsLocked
<1>5. PendingKnown'
  BY <1>2, <1>4, QueueSame DEF L1Inv, PendingKnown, Search
<1>6. PassKnown' BY <1>2, <1>3, <1>4 DEF L1Inv, PassKnown, Search
<1>7. OneHolder' BY <1>4 DEF L1Inv, PassKnown, OneHolder, Search
<1>8. DueFirst' /\ OneItem' BY QueueSame DEF L1Inv, DueFirst, Search
<1>9. KnownUntilExpiry' BY <1>2 DEF L1Inv, KnownUntilExpiry, IsLocked, Search
<1> QED BY <1>1, <1>5, <1>6, <1>7, <1>8, <1>9 DEF L1Inv

LEMMA GiveUpKeeps ==
  ASSUME L1Inv, NEW c \in Client, GiveUp(c)
  PROVE  L1Inv'
<1>1. TypeOK' BY DEF L1Inv, TypeOK, GiveUp
<1>2. \A d \in Client, g \in Hash :
        answer'[d] = <<CasePass, g>> => answer[d] = <<CasePass, g>>
  BY DEF L1Inv, TypeOK, GiveUp
<1>3. PendingKnown' /\ PassKnown' /\ OneHolder'
  BY <1>2, QueueSame DEF L1Inv, PendingKnown, PassKnown, OneHolder, GiveUp
<1>4. DueFirst' /\ OneItem' /\ KnownUntilExpiry'
  BY QueueSame DEF L1Inv, DueFirst, KnownUntilExpiry, IsLocked, GiveUp
<1> QED BY <1>1, <1>3, <1>4 DEF L1Inv

\* The first half of Set: the only pass for h becomes its only item, or h is one
\* of the hashes that were added without a pass.
LEMMA SetQueuesKeeps ==
  ASSUME L1Inv, NEW c \in Client, NEW h \in Hash, SetQueues(c, h)
  PROVE  L1Inv'
<1> DEFINE new == [key |-> h, left |-> L1CacheExpires]
<1>0. new \in Item /\ pq \in Seq(Item) /\ pq' = Append(pq, new)
  BY DEF L1Inv, TypeOK, SetQueues, Queued, Item
<1>1. PICK n \in 0..L1CacheExpires :
        /\ \A m \in LeftOf(h) : n <= m
        /\ n <= L1CacheExpires /\ due' = [due EXCEPT ![h] = n]
  <2>1. PICK n \in LeftOf(h) \cup {L1CacheExpires} :
          /\ \A m \in LeftOf(h) : n <= m
          /\ due' = [due EXCEPT ![h] = n]
    BY DEF SetQueues
  <2>2. LeftOf(h) \subseteq 0..L1CacheExpires BY DEF LeftOf
  <2>3. n \in 0..L1CacheExpires /\ n <= L1CacheExpires BY <2>2
  <2> QED BY <2>1, <2>3
<1>2. TypeOK'
  <2>1. pq' \in Seq(Item) BY <1>0
  <2> QED BY <1>1, <2>1 DEF L1Inv, TypeOK, SetQueues
<1>3. /\ DOMAIN pq' = 1..(Len(pq) + 1)
      /\ \A i \in DOMAIN pq : pq'[i] = pq[i]
      /\ pq'[Len(pq) + 1] = new /\ DOMAIN pq = 1..Len(pq)
  BY <1>0
<1>4. \A g \in Hash, m \in 0..L1CacheExpires :
        Leaves(g, m)' <=> Leaves(g, m) \/ (g = h /\ m = L1CacheExpires)
  BY <1>3 DEF Leaves, SetQueues
<1>5. DueFirst'
  <2>1. \A m \in 0..L1CacheExpires : Leaves(h, m) => n <= m
    BY <1>1 DEF Leaves, LeftOf
  <2> QED BY <1>1, <1>4, <2>1 DEF L1Inv, TypeOK, DueFirst
<1>6. KnownUntilExpiry'
  BY <1>1 DEF L1Inv, TypeOK, KnownUntilExpiry, IsLocked, SetQueues
<1>7. /\ bypassed \subseteq bypassed' /\ bypassed' \subseteq bypassed \cup {h}
      /\ h \notin bypassed' => answer[c] = <<CasePass, h>> /\ h \notin bypassed
  BY DEF SetQueues
<1>8. h \notin bypassed' => ~Pending(h) /\ cache[h] # Absent
  BY <1>7 DEF L1Inv, PendingKnown, PassKnown
<1>9. ASSUME h \notin bypassed'
      PROVE  /\ \A i \in DOMAIN pq : pq[i].key # h
             /\ item # NoItem => item.key # h
  <2>1. \A m \in 0..L1CacheExpires : ~Leaves(h, m) BY <1>8, <1>9 DEF Pending
  <2>2. \A i \in DOMAIN pq : pq[i].left \in 0..L1CacheExpires
    <3>1. \A i \in DOMAIN pq : pq[i] \in Item BY <1>0
    <3> QED BY <3>1 DEF Item
  <2>3. item # NoItem => item.left \in 0..L1CacheExpires BY DEF L1Inv, TypeOK, Item
  <2> QED BY <2>1, <2>2, <2>3 DEF Leaves
<1>10. OneItem'
  <2>1. ASSUME NEW i \in DOMAIN pq', NEW j \in DOMAIN pq',
               pq'[i].key = pq'[j].key, pq'[i].key \notin bypassed'
        PROVE  i = j
    <3>1. CASE i \in DOMAIN pq /\ j \in DOMAIN pq
      BY <1>3, <1>7, <2>1, <3>1 DEF L1Inv, OneItem
    <3>2. CASE i = Len(pq) + 1 \/ j = Len(pq) + 1
      <4>1. pq'[i].key = h /\ pq'[j].key = h BY <1>3, <2>1, <3>2
      <4>2. i \notin DOMAIN pq /\ j \notin DOMAIN pq BY <1>3, <1>9, <2>1, <4>1
      <4> QED BY <1>3, <4>2
    <3> QED BY <1>3, <3>1, <3>2
  <2>2. ASSUME item' # NoItem, item'.key \notin bypassed', NEW i \in DOMAIN pq'
        PROVE  pq'[i].key # item'.key
    <3>1. item' = item BY DEF SetQueues
    <3>2. CASE i \in DOMAIN pq BY <1>3, <1>7, <2>2, <3>1, <3>2 DEF L1Inv, OneItem
    <3>3. CASE i = Len(pq) + 1 BY <1>3, <1>9, <2>2, <3>1, <3>3
    <3> QED BY <1>3, <3>2, <3>3
  <2> QED BY <2>1, <2>2 DEF OneItem
<1>11. \A d \in Client, g \in Hash : answer'[d] = <<CasePass, g>> =>
         answer[d] = <<CasePass, g>> /\ d # c
  <2>1. answer' = [answer EXCEPT ![c] = NoAnswer] BY DEF SetQueues
  <2> QED BY <2>1, NoAnswerIsNoPass DEF L1Inv, TypeOK
<1>12. h \notin bypassed' => \A d \in Client : answer'[d] # <<CasePass, h>>
  BY <1>7, <1>11 DEF L1Inv, OneHolder
<1>13. PendingKnown'
  <2> SUFFICES ASSUME NEW g \in Hash, g \notin bypassed', Pending(g)'
               PROVE  /\ cache'[g] # Absent
                      /\ \A d \in Client : answer'[d] # <<CasePass, g>>
    BY DEF PendingKnown
  <2>1. UNCHANGED cache BY DEF SetQueues
  <2>2. CASE g = h BY <1>8, <1>12, <2>1, <2>2
  <2>3. CASE g # h
    <3>1. Pending(g) /\ g \notin bypassed BY <1>4, <1>7, <2>3 DEF Pending
    <3> QED BY <1>11, <2>1, <3>1 DEF L1Inv, PendingKnown
  <2> QED BY <2>2, <2>3
<1>14. PassKnown' /\ OneHolder'
  BY <1>7, <1>11 DEF L1Inv, PassKnown, OneHolder, SetQueues
<1> QED BY <1>2, <1>5, <1>6, <1>10, <1>13, <1>14 DEF L1Inv

LEMMA SetWritesKeeps ==
  ASSUME L1Inv, SetWrites
  PROVE  L1Inv'
<1>1. TypeOK' BY DEF L1Inv, TypeOK, SetWrites
<1>2. \A g \in Hash : cache[g] # Absent => cache'[g] # Absent
  BY DEF L1Inv, TypeOK, SetWrites
<1>3. PendingKnown' /\ PassKnown' /\ OneHolder'
  BY <1>2, QueueSame DEF L1Inv, PendingKnown, PassKnown, OneHolder, SetWrites
<1>4. DueFirst' /\ OneItem' BY QueueSame DEF L1Inv, DueFirst, SetWrites
<1>5. KnownUntilExpiry'
  BY <1>2 DEF L1Inv, TypeOK, KnownUntilExpiry, IsLocked, SetWrites
<1> QED BY <1>5, <1>1, <1>3, <1>4 DEF L1Inv

LEMMA PopKeeps ==
  ASSUME L1Inv, Pop
  PROVE  L1Inv'
<1>0. pq \in Seq(Item) /\ pq # <<>> /\ pq' = Tail(pq) /\ item' = Head(pq) /\ item = NoItem
  BY DEF L1Inv, TypeOK, Pop
<1>1. /\ Head(pq) \in Item /\ Tail(pq) \in Seq(Item) /\ Head(pq) = pq[1]
      /\ DOMAIN pq = 1..Len(pq) /\ DOMAIN pq' = 1..(Len(pq) - 1) /\ Len(pq) \in Nat \ {0}
      /\ \A i \in DOMAIN pq' : pq'[i] = pq[i + 1]
  BY <1>0
<1>2. item' # NoItem BY <1>0, <1>1 DEF Item
<1>3. TypeOK' BY <1>0, <1>1 DEF L1Inv, TypeOK, Pop
<1>4. OneItem'
  <2>0. bypassed' = bypassed BY DEF Pop
  <2>1. \A i, j \in DOMAIN pq' :
          pq'[i].key = pq'[j].key /\ pq'[i].key \notin bypassed => i = j
    BY <1>1 DEF L1Inv, OneItem
  <2>2. item'.key \notin bypassed => \A i \in DOMAIN pq' : pq'[i].key # item'.key
    BY <1>0, <1>1 DEF L1Inv, OneItem
  <2> QED BY <2>0, <2>1, <2>2 DEF OneItem
<1>5. \A g \in Hash, n \in 0..L1CacheExpires : Leaves(g, n)' <=> Leaves(g, n)
  <2> TAKE g \in Hash, n \in 0..L1CacheExpires
  <2>1. ASSUME NEW i \in DOMAIN pq, pq[i].key = g, pq[i].left = n PROVE Leaves(g, n)'
    <3>1. CASE i = 1 BY <1>0, <1>1, <1>2, <2>1, <3>1 DEF Leaves
    <3>2. CASE i # 1
      <4>1. i - 1 \in DOMAIN pq' /\ pq'[i - 1] = pq[i] BY <1>1, <3>2
      <4> QED BY <4>1, <2>1 DEF Leaves
    <3> QED BY <3>1, <3>2
  <2>2. Leaves(g, n)' => Leaves(g, n)
    <3>1. ASSUME NEW i \in DOMAIN pq', pq'[i].key = g, pq'[i].left = n PROVE Leaves(g, n)
      <4>1. i + 1 \in DOMAIN pq /\ pq[i + 1] = pq'[i] BY <1>1
      <4> QED BY <4>1, <3>1 DEF Leaves
    <3>2. 1 \in DOMAIN pq BY <1>1
    <3> QED BY <1>0, <1>1, <3>1, <3>2 DEF Leaves
  <2> QED BY <1>0, <2>1, <2>2 DEF Leaves
<1>6. PendingKnown' /\ PassKnown' /\ OneHolder'
  BY <1>5 DEF L1Inv, PendingKnown, Pending, PassKnown, OneHolder, Pop
<1>7. DueFirst' BY <1>5 DEF L1Inv, TypeOK, DueFirst, Pop
<1>8. KnownUntilExpiry' BY DEF L1Inv, KnownUntilExpiry, IsLocked, Pop
<1> QED BY <1>3, <1>4, <1>6, <1>7, <1>8 DEF L1Inv

\* The item that leaves was the only one of its hash, so that no pass loses its
\* lock; or the hash was added without one.  It leaves when its hash is due.
LEMMA DeleteKeeps ==
  ASSUME L1Inv, Delete
  PROVE  L1Inv'
<1>0. /\ item \in Item /\ item # NoItem /\ item.left = 0 /\ item' = NoItem
      /\ UNCHANGED <<pq, answer, due, wset, bypassed>>
  BY DEF L1Inv, TypeOK, Delete, Expired
<1>1. TypeOK'
  <2>1. item.key = wset => wset \in Hash BY <1>0 DEF Item
  <2> QED BY <2>1 DEF L1Inv, TypeOK, Delete
<1>2. Leaves(item.key, 0) /\ item.key \in Hash BY <1>0 DEF Leaves, Item
<1>3. item.key \notin bypassed => \A c \in Client : answer[c] # <<CasePass, item.key>>
  BY <1>2 DEF L1Inv, PendingKnown, Pending
<1>4. \A g \in Hash, n \in 0..L1CacheExpires : Leaves(g, n)' => Leaves(g, n)
  BY <1>0 DEF Leaves
<1>5. \A g \in Hash \ bypassed, n \in 0..L1CacheExpires :
        Leaves(g, n)' => g # item.key
  BY <1>0 DEF L1Inv, OneItem, Leaves
<1>6. \A g \in Hash : g # item.key => cache'[g] = cache[g]
  BY DEF L1Inv, TypeOK, Delete
<1>7. PendingKnown' /\ PassKnown' /\ OneHolder'
  BY <1>0, <1>3, <1>4, <1>5, <1>6 DEF L1Inv, PendingKnown, Pending, PassKnown, OneHolder
<1>8. due[item.key] = 0
  <2>1. due[item.key] <= 0 BY <1>2 DEF L1Inv, DueFirst
  <2> QED BY <1>2, <2>1 DEF L1Inv, TypeOK
<1>9. KnownUntilExpiry'
  BY <1>0, <1>6, <1>8 DEF L1Inv, TypeOK, KnownUntilExpiry, IsLocked
<1>10. DueFirst' /\ OneItem' BY <1>0, <1>4 DEF L1Inv, DueFirst, OneItem
<1> QED BY <1>1, <1>7, <1>9, <1>10 DEF L1Inv

\* A tick takes the same from an item and from the time its hash is due.
LEMMA TickKeeps ==
  ASSUME L1Inv, Tick
  PROVE  L1Inv'
<1>1. \A n \in 0..L1CacheExpires : Sooner(n) \in 0..L1CacheExpires BY DEF Sooner
<1>2. /\ pq \in Seq(Item) /\ DOMAIN pq' = DOMAIN pq /\ DOMAIN pq = 1..Len(pq)
      /\ \A i \in DOMAIN pq : /\ pq[i] \in Item /\ pq'[i].key = pq[i].key
                              /\ pq'[i].left = Sooner(pq[i].left)
                              /\ pq'[i] \in Item
  <2>1. pq \in Seq(Item) /\ pq' = [n \in DOMAIN pq |-> [pq[n] EXCEPT !.left = Sooner(@)]]
    BY DEF L1Inv, TypeOK, Tick
  <2>2. \A i \in DOMAIN pq : pq[i] \in Item /\ pq'[i] = [pq[i] EXCEPT !.left = Sooner(@)]
    BY <2>1
  <2>3. \A x \in Item : LET y == [x EXCEPT !.left = Sooner(@)]
                        IN  y \in Item /\ y.key = x.key /\ y.left = Sooner(x.left)
    BY <1>1 DEF Item
  <2>4. DOMAIN pq' = DOMAIN pq /\ DOMAIN pq = 1..Len(pq) BY <2>1
  <2>5. \A i \in DOMAIN pq : /\ pq[i] \in Item /\ pq'[i].key = pq[i].key
                             /\ pq'[i].left = Sooner(pq[i].left) /\ pq'[i] \in Item
    BY <2>2, <2>3
  <2> QED BY <2>1, <2>4, <2>5
<1>3. item # NoItem => /\ item' # NoItem /\ item' \in Item /\ item'.key = item.key
                       /\ item'.left = Sooner(item.left)
  BY <1>1 DEF L1Inv, TypeOK, Tick, Item
<1>4. item = NoItem => item' = NoItem BY DEF Tick
<1>5. TypeOK'
  <2>1. pq' \in Seq(Item)
    <3>1. pq' = [n \in 1..Len(pq) |-> pq'[n]] BY <1>2 DEF Tick
    <3>2. Len(pq) \in Nat BY <1>2
    <3> QED BY <1>2, <3>1, <3>2
  <2>2. due' \in [Hash -> 0..L1CacheExpires] BY <1>1 DEF L1Inv, TypeOK, Tick
  <2> QED BY <2>1, <2>2, <1>3, <1>4 DEF L1Inv, TypeOK, Tick
<1>6. OneItem'
  <2>1. bypassed' = bypassed BY DEF Tick
  <2>2. \A i, j \in DOMAIN pq' :
          pq'[i].key = pq'[j].key /\ pq'[i].key \notin bypassed => i = j
    BY <1>2 DEF L1Inv, OneItem
  <2>3. item' # NoItem /\ item'.key \notin bypassed =>
          \A i \in DOMAIN pq' : pq'[i].key # item'.key
    BY <1>2, <1>3, <1>4 DEF L1Inv, OneItem
  <2> QED BY <2>1, <2>2, <2>3 DEF OneItem
<1>7. \A g \in Hash, n \in 0..L1CacheExpires : Leaves(g, n)' =>
        \E m \in 0..L1CacheExpires : Leaves(g, m) /\ n = Sooner(m)
  <2> TAKE g \in Hash, n \in 0..L1CacheExpires
  <2> HAVE Leaves(g, n)'
  <2>1. CASE \E i \in DOMAIN pq' : pq'[i].key = g /\ pq'[i].left = n
    <3> PICK i \in DOMAIN pq' : pq'[i].key = g /\ pq'[i].left = n BY <2>1
    <3>1. pq[i] \in Item /\ pq[i].key = g /\ n = Sooner(pq[i].left) BY <1>2
    <3> QED BY <1>2, <3>1 DEF Leaves, Item
  <2>2. CASE item' # NoItem /\ item'.key = g /\ item'.left = n
    <3>1. item # NoItem /\ item \in Item /\ item.key = g /\ n = Sooner(item.left)
      BY <1>3, <1>4, <2>2 DEF L1Inv, TypeOK
    <3> QED BY <3>1 DEF Leaves, Item
  <2> QED BY <2>1, <2>2 DEF Leaves
<1>8. \A g \in Hash : Pending(g)' => Pending(g) BY <1>7 DEF Pending
<1>9. PendingKnown' /\ PassKnown' /\ OneHolder'
  BY <1>8 DEF L1Inv, PendingKnown, PassKnown, OneHolder, Tick
<1>10. \A g \in Hash : due[g] \in 0..L1CacheExpires /\ due'[g] = Sooner(due[g])
  BY DEF L1Inv, TypeOK, Tick
<1>11. DueFirst'
  <2>1. \A m, n \in 0..L1CacheExpires : m <= n => Sooner(m) <= Sooner(n) BY DEF Sooner
  <2> QED BY <1>7, <1>10, <2>1 DEF L1Inv, DueFirst
<1>12. KnownUntilExpiry'
  <2>1. \A n \in 0..L1CacheExpires : Sooner(n) > 0 => n > 0 BY DEF Sooner
  <2> QED BY <1>10, <2>1 DEF L1Inv, KnownUntilExpiry, IsLocked, Tick
<1> QED BY <1>5, <1>6, <1>9, <1>11, <1>12 DEF L1Inv
-----------------------------------------------------------------------------
\* The invariant holds in every reachable state.
THEOREM L1Invariant == Spec => []L1Inv
<1>1. Init => L1Inv
  <2> SUFFICES ASSUME Init PROVE L1Inv OBVIOUS
  <2>1. TypeOK
    <3>1. <<>> \in Seq(Item) /\ 0 \in 0..L1CacheExpires OBVIOUS
    <3> QED BY <3>1 DEF Init, TypeOK
  <2>2. \A h, n : ~Leaves(h, n) BY DEF Init, Leaves
  <2> QED BY <2>1, <2>2
    DEF Init, L1Inv, OneItem, PendingKnown, Pending, PassKnown, DueFirst, OneHolder,
        KnownUntilExpiry
<1>2. L1Inv /\ [Next]_vars => L1Inv'
  <2> SUFFICES ASSUME L1Inv, [Next]_vars PROVE L1Inv' OBVIOUS
  <2>1. CASE UNCHANGED vars
    BY <2>1, QueueSame
    DEF vars, L1Inv, TypeOK, OneItem, PendingKnown, PassKnown, DueFirst, OneHolder,
        KnownUntilExpiry, IsLocked
  <2> QED BY <2>1, SearchKeeps, GiveUpKeeps, SetQueuesKeeps, SetWritesKeeps, PopKeeps,
             DeleteKeeps, TickKeeps DEF Next
<1> QED BY <1>1, <1>2, PTL DEF Spec

\* "locked article for processing": two clients never both have a pass for one
\* article, although its entry comes and goes while they search and add, unless it
\* was added by somebody who had none.
THEOREM PassIsExclusive == Spec => []OneHolder
<1>1. L1Inv => OneHolder BY DEF L1Inv
<1> QED BY <1>1, L1Invariant, PTL

\* An added article stays known until the first item of its hash expires that was
\* under way when it was added: its own, for the whole time, or that of an earlier
\* add, for what was left of that.
THEOREM AddedStaysKnown == Spec => []KnownUntilExpiry
<1>1. L1Inv => KnownUntilExpiry BY DEF L1Inv
<1> QED BY <1>1, L1Invariant, PTL
=============================================================================
