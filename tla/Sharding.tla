------------------------------- MODULE Sharding -------------------------------
(***************************************************************************)
(* Where SQLiteSharding.go files a hash.  The first three hexadecimal      *)
(* characters of the hash are its prefix, a number below 4096; a shard     *)
(* mode maps the prefix to a database and to a table of that database.     *)
(* Table names are the numbers that are formatted into them.  The rest of  *)
(* the key (h) does not hold the prefix, so two prefixes must never share  *)
(* a table of a database.                                                  *)
(***************************************************************************)
EXTENDS Integers

Prefixes == 0..4095
Modes == 0..5   \* SHARD_SINGLE_DB .. SHARD_512_8

\* the digits of a prefix, as hash[:2], hash[1:3] and so on cut them out
First(p) == p \div 256
FirstTwo(p) == p \div 16
LastTwo(p) == p % 256
Last(p) == p % 16

\* GetShardConfig; every other mode falls back to mode 0
numDBs(mode) ==
  CASE mode = 1 -> 4096 [] mode = 2 -> 16 [] mode = 3 -> 64
    [] mode = 4 -> 128 [] mode = 5 -> 512 [] OTHER -> 1

tablesPerDB(mode) ==
  CASE mode = 1 -> 1 [] mode = 2 -> 256 [] mode = 3 -> 64
    [] mode = 4 -> 32 [] mode = 5 -> 8 [] OTHER -> 4096

getDBIndexFromHash(mode, p) ==
  CASE mode = 1 -> p % numDBs(mode)
    [] mode = 2 -> First(p) % numDBs(mode)
    [] mode = 3 -> (FirstTwo(p) \div 4) % numDBs(mode)
    [] mode = 4 -> (FirstTwo(p) \div 2) % numDBs(mode)
    [] mode = 5 -> (p \div 8) % numDBs(mode)
    [] OTHER -> 0

\* mutant: keeps one bit less
OneBitLess(mode, p) == IF mode = 4 THEN LastTwo(p) % 16 ELSE 0
getTableNameFromHash(mode, p) ==
  CASE mode = 0 -> p
    [] mode = 2 -> LastTwo(p)
    [] mode = 3 -> LastTwo(p) % 64
    [] mode = 4 -> LastTwo(p) % 32
    [] mode = 5 -> Last(p) % 8
    [] OTHER -> 0

\* createTablesForDB: the tables that a database has
getTableNamesForDB(mode) == 0..(tablesPerDB(mode) - 1)

DBIndexes(mode) == 0..(numDBs(mode) - 1)
-----------------------------------------------------------------------------
VARIABLES mode, prefix

Init == mode \in Modes /\ prefix \in Prefixes
Next == UNCHANGED <<mode, prefix>>
Spec == Init /\ [][Next]_<<mode, prefix>>

\* GetDBAndTable names a database that is open and a table it was created with.
PlaceExists ==
  /\ getDBIndexFromHash(mode, prefix) \in DBIndexes(mode)
  /\ getTableNameFromHash(mode, prefix) \in getTableNamesForDB(mode)

\* The place tells the prefix: no two prefixes share a table, in no mode, though
\* database and table are cut from overlapping characters.
PlaceTellsPrefix ==
  tablesPerDB(mode) * getDBIndexFromHash(mode, prefix)
    + getTableNameFromHash(mode, prefix) = prefix

\* Every hash is filed in a table that exists, and with no hash of another prefix.
FiledInOwnTable == PlaceExists /\ PlaceTellsPrefix
=============================================================================
