------------------------------ MODULE MCSQLPool ------------------------------
(* Four goroutines, one more than the pool may open connections.             *)
EXTENDS SQLPool
CONSTANTS u1, u2, u3, u4
MCUser == {u1, u2, u3, u4}
=============================================================================
