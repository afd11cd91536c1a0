---------------------------- MODULE MCHashDBIndex ----------------------------
(* One or two dispatchers, two workers, three goroutines that ask.           *)
EXTENDS HashDBIndex
CONSTANTS r1, r2, r3
MCRequester == {r1, r2, r3}
MCCaps == {2, 4}
MCSmall == {2}
=============================================================================
