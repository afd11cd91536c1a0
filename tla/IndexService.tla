----------------------------- MODULE IndexService -----------------------------
(***************************************************************************)
(* What the channels between IndexQuery and the hashDB_Workers promise: a  *)
(* request is queued, then served, then answered, once; two requests with  *)
(* the same leading characters are never served at the same time.  Requests *)
(* that are queued may be served in any order, or never.  This is how      *)
(* HistoryStore sees the hash database index.                              *)
(***************************************************************************)
CONSTANTS Requester, Chars

VARIABLES
  st,    \* st[r]: the state of the request of r
  char   \* char[r]: the worker it is for

serviceVars == <<st, char>>

Init ==
  /\ st = [r \in Requester |-> "none"]
  /\ char \in [Requester -> Chars]

Ask(r, ch) ==
  /\ st[r] = "none"
  /\ st' = [st EXCEPT ![r] = "queued"]
  /\ char' = [char EXCEPT ![r] = ch]

Serve(r) ==
  /\ st[r] = "queued"
  /\ \A q \in Requester : st[q] = "served" => char[q] # char[r]
  /\ st' = [st EXCEPT ![r] = "served"]
  /\ UNCHANGED char

Answer(r) ==
  /\ st[r] = "served"
  /\ st' = [st EXCEPT ![r] = "done"]
  /\ UNCHANGED char

Take(r) ==
  /\ st[r] = "done"
  /\ st' = [st EXCEPT ![r] = "none"]
  /\ UNCHANGED char

Next == \E r \in Requester :
  \/ \E ch \in Chars : Ask(r, ch)
  \/ Serve(r) \/ Answer(r) \/ Take(r)

Spec == Init /\ [][Next]_serviceVars
=============================================================================
