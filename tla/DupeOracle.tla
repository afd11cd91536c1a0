------------------------------ MODULE DupeOracle ------------------------------
(***************************************************************************)
(* What the duplicate check promises to the caller of IndexQuery(hash, -1). *)
(* The oracle knows a set of hashes that only grows.  It may say CaseDupes  *)
(* only of a hash it knows when it answers, and CasePass only of a hash it  *)
(* did not know when it was asked.  It may ask to retry only if MayRetry.   *)
(***************************************************************************)
CONSTANTS Hash, Client, CasePass, CaseDupes, CaseRetry, MayRetry

VARIABLES
  known,   \* the hashes whose lines are on disk
  asked,   \* asked[c]: the hashes c has an open question about
  fresh,   \* fresh[c]: those of them that were unknown when c asked
  answer   \* answer[c]: <<hash, code>> waiting for c, or none

oracleVars == <<known, asked, fresh, answer>>

Init ==
  /\ known \subseteq Hash
  /\ asked = [c \in Client |-> {}]
  /\ fresh = [c \in Client |-> {}]
  /\ answer = [c \in Client |-> {}]

Learn == \E S \in SUBSET Hash :
  /\ known' = known \cup S
  /\ UNCHANGED <<asked, fresh, answer>>

Ask(c, h) ==
  /\ asked[c] = {} /\ answer[c] = {}
  /\ asked' = [asked EXCEPT ![c] = {h}]
  /\ fresh' = [fresh EXCEPT ![c] = {h} \ known]
  /\ UNCHANGED <<known, answer>>

Answer(c, h, code) ==
  /\ h \in asked[c]
  /\ code = CaseDupes => h \in known
  /\ code = CasePass => h \in fresh[c]
  /\ code = CaseRetry => MayRetry
  /\ asked' = [asked EXCEPT ![c] = {}]
  /\ answer' = [answer EXCEPT ![c] = {<<h, code>>}]
  /\ fresh' = [fresh EXCEPT ![c] = {}]
  /\ UNCHANGED known

Take(c) ==
  /\ answer[c] # {}
  /\ answer' = [answer EXCEPT ![c] = {}]
  /\ UNCHANGED <<known, asked, fresh>>

\* The process dies with every open question; what is known stays known.
Crash ==
  /\ asked' = [c \in Client |-> {}]
  /\ fresh' = [c \in Client |-> {}]
  /\ answer' = [c \in Client |-> {}]
  /\ UNCHANGED known

Next ==
  \/ Learn
  \/ Crash
  \/ \E c \in Client :
       \/ Take(c)
       \/ \E h \in Hash : \/ Ask(c, h)
                          \/ \E code \in {CasePass, CaseDupes, CaseRetry} :
                               Answer(c, h, code)

Spec == Init /\ [][Next]_oracleVars
=============================================================================
