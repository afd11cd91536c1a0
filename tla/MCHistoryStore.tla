---------------------------- MODULE MCHistoryStore ----------------------------
(* Two hashes that share their first ten characters and one that does not.   *)
EXTENDS HistoryStore, TLC
CONSTANTS h1, h2, h3, k1, k2, c1, c2

MCHash == {h1, h2, h3}
MCKey == h1 :> k1 @@ h2 :> k1 @@ h3 :> k2
MCPair == {h1, h2}
MCPairKey == h1 :> k1 @@ h2 :> k1
MCShort == {4}
MCMixed == {4, 13}
MCClients == {c1, c2}
MCClient == {c1}

NoFaults == {}
DbAndCrash == {"db", "crash"}
All == {"db", "crash", "write", "stop", "read"}
=============================================================================
