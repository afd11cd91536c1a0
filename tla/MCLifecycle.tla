----------------------------- MODULE MCLifecycle -----------------------------
(* Two HISTORY values of one directory, of which h1 is the package variable.  *)
(* The settings and who calls whom differ between the scenarios.              *)
EXTENDS Lifecycle
CONSTANTS h1, h2, c1, c2
MCHis == {h1, h2}
MCClient == {c1, c2}

Scenario(h, m, p, ch, cl, n, i, c, d) ==
  [his |-> h, modes |-> m, parallel |-> p, chans |-> ch, clients |-> cl, calls |-> n,
   inits |-> i, closes |-> c, deaths |-> d]

MCLimits == {
  \* two boots meet at one file, the process dies, both are closed, L1 mode
  Scenario(MCHis, {FALSE}, {2}, {{}}, {c1}, 1, 0, MCHis, 1),
  \* one HISTORY with its index, two clients
  Scenario({h1}, {TRUE}, {1, 2}, {{}, {h1}}, MCClient, 3, 1, {h1}, 0),
  \* InitializeDatabase before or behind BootHistory
  Scenario({h1}, {TRUE}, {2}, {{h1}}, {c1}, 1, 2, {h1}, 0),
  \* two HISTORY values with an index each, and a client
  Scenario(MCHis, {TRUE}, {2}, {{h2}, MCHis}, {c1}, 1, 2, {}, 0)}
=============================================================================
