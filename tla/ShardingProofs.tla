---------------------------- MODULE ShardingProofs ----------------------------
(* Every mode files every prefix in a table that exists and is its own.      *)
EXTENDS Sharding, TLAPS

\* Cutting digits out of a prefix is dividing it: the two digits that are taken
\* again are divided again.
LEMMA Digits ==
  ASSUME NEW p \in Prefixes
  PROVE  /\ p % 4096 = p
         /\ First(p) % 16 = p \div 256
         /\ (FirstTwo(p) \div 4) % 64 = p \div 64
         /\ (FirstTwo(p) \div 2) % 128 = p \div 32
         /\ (p \div 8) % 512 = p \div 8
         /\ LastTwo(p) = p % 256
         /\ LastTwo(p) % 64 = p % 64
         /\ LastTwo(p) % 32 = p % 32
         /\ Last(p) % 8 = p % 8
<1> USE DEF Prefixes, First, FirstTwo, LastTwo, Last
<1>1. p % 4096 = p OBVIOUS
<1>2. First(p) % 16 = p \div 256 OBVIOUS
<1>3. (FirstTwo(p) \div 4) % 64 = p \div 64 OBVIOUS
<1>4. (FirstTwo(p) \div 2) % 128 = p \div 32 OBVIOUS
<1>5. (p \div 8) % 512 = p \div 8 OBVIOUS
<1>6. LastTwo(p) = p % 256 OBVIOUS
<1>7. LastTwo(p) % 64 = p % 64 OBVIOUS
<1>8. LastTwo(p) % 32 = p % 32 OBVIOUS
<1>9. Last(p) % 8 = p % 8 OBVIOUS
<1> QED BY <1>1, <1>2, <1>3, <1>4, <1>5, <1>6, <1>7, <1>8, <1>9

\* Database and table are quotient and remainder of the prefix by the number of
\* tables, in every mode.
LEMMA PlaceIsQuotient ==
  ASSUME NEW m \in Modes, NEW p \in Prefixes
  PROVE  /\ tablesPerDB(m) \in {1, 8, 32, 64, 256, 4096}
         /\ numDBs(m) = 4096 \div tablesPerDB(m)
         /\ getDBIndexFromHash(m, p) = p \div tablesPerDB(m)
         /\ getTableNameFromHash(m, p) = p % tablesPerDB(m)
<1>0. p \in 0..4095 BY DEF Prefixes
<1> USE DEF tablesPerDB, numDBs
<1>1. CASE m = 0
  <2>1. tablesPerDB(m) = 4096 /\ numDBs(m) = 1 BY <1>1
  <2>2. getDBIndexFromHash(m, p) = 0 /\ getTableNameFromHash(m, p) = p
    BY <1>1 DEF getDBIndexFromHash, getTableNameFromHash
  <2>3. p \div 4096 = 0 /\ p % 4096 = p BY <1>0
  <2> QED BY <2>1, <2>2, <2>3
<1>2. CASE m = 1
  <2>1. tablesPerDB(m) = 1 /\ numDBs(m) = 4096 BY <1>2
  <2>2. getDBIndexFromHash(m, p) = p /\ getTableNameFromHash(m, p) = 0
    BY <1>2, <2>1, Digits DEF getDBIndexFromHash, getTableNameFromHash
  <2>3. p \div 1 = p /\ p % 1 = 0 BY <1>0
  <2> QED BY <2>1, <2>2, <2>3
<1>3. CASE m = 2
  <2>1. tablesPerDB(m) = 256 /\ numDBs(m) = 16 BY <1>3
  <2>2. getDBIndexFromHash(m, p) = p \div 256 /\ getTableNameFromHash(m, p) = p % 256
    BY <1>3, <2>1, Digits DEF getDBIndexFromHash, getTableNameFromHash
  <2> QED BY <2>1, <2>2
<1>4. CASE m = 3
  <2>1. tablesPerDB(m) = 64 /\ numDBs(m) = 64 BY <1>4
  <2>2. getDBIndexFromHash(m, p) = p \div 64 /\ getTableNameFromHash(m, p) = p % 64
    BY <1>4, <2>1, Digits DEF getDBIndexFromHash, getTableNameFromHash
  <2> QED BY <2>1, <2>2
<1>5. CASE m = 4
  <2>1. tablesPerDB(m) = 32 /\ numDBs(m) = 128 BY <1>5
  <2>2. getDBIndexFromHash(m, p) = p \div 32 /\ getTableNameFromHash(m, p) = p % 32
    BY <1>5, <2>1, Digits DEF getDBIndexFromHash, getTableNameFromHash
  <2> QED BY <2>1, <2>2
<1>6. CASE m = 5
  <2>1. tablesPerDB(m) = 8 /\ numDBs(m) = 512 BY <1>6
  <2>2. getDBIndexFromHash(m, p) = p \div 8 /\ getTableNameFromHash(m, p) = p % 8
    BY <1>6, <2>1, Digits DEF getDBIndexFromHash, getTableNameFromHash
  <2> QED BY <2>1, <2>2
<1> QED BY <1>1, <1>2, <1>3, <1>4, <1>5, <1>6 DEF Modes

\* getDBIndexFromHash and getTableNameFromHash take the prefix apart like a
\* quotient and a remainder, so a database and a table belong to one prefix.
THEOREM PlaceIsOwn ==
  ASSUME NEW m \in Modes, NEW p \in Prefixes
  PROVE  tablesPerDB(m) * getDBIndexFromHash(m, p)
           + getTableNameFromHash(m, p) = p
<1>1. ASSUME NEW t \in {1, 8, 32, 64, 256, 4096}
      PROVE  t * (p \div t) + (p % t) = p
  BY DEF Prefixes
<1> QED BY <1>1, PlaceIsQuotient

\* GetDBAndTable never names a database or a table that was not created.
THEOREM PlaceIsThere ==
  ASSUME NEW m \in Modes, NEW p \in Prefixes
  PROVE  /\ getDBIndexFromHash(m, p) \in DBIndexes(m)
         /\ getTableNameFromHash(m, p) \in getTableNamesForDB(m)
<1> DEFINE t == tablesPerDB(m)
           Fits == /\ p \div t \in 0..(numDBs(m) - 1)
                   /\ p % t \in 0..(t - 1)
<1>1. /\ t \in {1, 8, 32, 64, 256, 4096}
      /\ numDBs(m) = 4096 \div t
      /\ getDBIndexFromHash(m, p) = p \div t
      /\ getTableNameFromHash(m, p) = p % t
  BY PlaceIsQuotient
<1>2. p \in 0..4095 BY DEF Prefixes
<1> HIDE DEF t
<1>3. Fits
  <2>1. CASE t = 1 BY <1>1, <1>2, <2>1
  <2>2. CASE t = 8 BY <1>1, <1>2, <2>2
  <2>3. CASE t = 32 BY <1>1, <1>2, <2>3
  <2>4. CASE t = 64 BY <1>1, <1>2, <2>4
  <2>5. CASE t = 256 BY <1>1, <1>2, <2>5
  <2>6. CASE t = 4096 BY <1>1, <1>2, <2>6
  <2> QED BY <1>1, <2>1, <2>2, <2>3, <2>4, <2>5, <2>6
<1> QED BY <1>1, <1>3 DEF t, DBIndexes, getTableNamesForDB

\* Two hashes with different first three characters are never filed in the same
\* table, so a key without its prefix is not ambiguous there.
THEOREM NoTwoPrefixesShareATable ==
  ASSUME NEW m \in Modes, NEW p \in Prefixes, NEW q \in Prefixes,
         getDBIndexFromHash(m, p) = getDBIndexFromHash(m, q),
         getTableNameFromHash(m, p) = getTableNameFromHash(m, q)
  PROVE  p = q
  BY PlaceIsOwn

\* GetDBAndTable files every prefix in an existing table of its own, in every mode.
THEOREM PlacesCorrect == Spec => []FiledInOwnTable
<1> DEFINE InRange == mode \in Modes /\ prefix \in Prefixes
<1>1. Init => InRange BY DEF Init
<1>2. InRange /\ [Next]_<<mode, prefix>> => InRange' BY DEF Next
<1>3. InRange => FiledInOwnTable
  BY PlaceIsOwn, PlaceIsThere DEF FiledInOwnTable, PlaceExists, PlaceTellsPrefix
<1> QED BY <1>1, <1>2, <1>3, PTL DEF Spec
=============================================================================
