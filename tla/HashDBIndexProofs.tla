--------------------------- MODULE HashDBIndexProofs ---------------------------
(***************************************************************************)
(* The channels of the hash database, for every number of dispatchers,     *)
(* workers and requesters and every capacity: they implement IndexService, *)
(* the nil pointer overtakes no request, and it finds room in a channel    *)
(* with a place for everyone.  The inductive invariant IndexInv says that  *)
(* a request is in one place only (OnePlace), that it is asked for and on  *)
(* its way to its worker (OnItsWay), where the nils to the workers are     *)
(* (Nils), and that there is one nil for the dispatchers (NilOnce).        *)
(***************************************************************************)
EXTENDS HashDBIndex, FiniteSetTheorems, TLAPS

\* where a request can be
Queued(r) == \E n \in 1..Len(IndexChan) : IndexChan[n] = r
Held(r) == \E p \in 1..MaxPar : held[p] = r
Forwarded(r) == \E i \in Chars : \E n \in 1..Len(indexChans[i]) : indexChans[i][n] = r
Served(r) == \E i \in Chars : served[i] = r

OnePlace ==
  /\ \A r \in Requester : /\ Queued(r) => ~Held(r) /\ ~Forwarded(r) /\ ~Served(r)
                          /\ Held(r) => ~Forwarded(r) /\ ~Served(r)
                          /\ Forwarded(r) => ~Served(r)
  /\ \A m, n \in 1..Len(IndexChan) :
       IndexChan[m] \in Requester /\ IndexChan[m] = IndexChan[n] => m = n
  /\ \A p, q \in 1..MaxPar : held[p] \in Requester /\ held[p] = held[q] => p = q
  /\ \A i \in Chars : \A m, n \in 1..Len(indexChans[i]) :
       indexChans[i][m] \in Requester /\ indexChans[i][m] = indexChans[i][n] => m = n

OnItsWay ==
  /\ \A r \in Requester :
       Queued(r) \/ Held(r) \/ Forwarded(r) \/ Served(r) => st[r] = "asked"
  /\ \A i \in Chars : \A n \in 1..Len(indexChans[i]) :
       indexChans[i][n] \in Requester => char[indexChans[i][n]] = i
  /\ \A i \in Chars : served[i] \in Requester => char[served[i]] = i

\* who has something in hand
Hands ==
  /\ \A p \in 1..MaxPar : disp[p] = "send" <=> held[p] \in Requester
  /\ \A i \in Chars : worker[i] = "serve" <=> served[i] \in Requester

\* A nil is the last in its channel, and behind it the worker is gone.
Nils ==
  /\ nextNil > 0 => AllGone
  /\ \A i \in Chars : \A n \in 1..Len(indexChans[i]) :
       indexChans[i][n] = Nil => n = Len(indexChans[i]) /\ nextNil > i
  /\ \A i \in Chars : worker[i] = "stopped" => indexChans[i] = <<>> /\ nextNil > i

\* The nil for the dispatchers is in IndexChan or in the hand of the one that puts
\* it back.
NilIn(n) == n \in 1..Len(IndexChan) /\ IndexChan[n] = Nil
Resends(p) == p \in 1..MaxPar /\ disp[p] = "resend"
NilOnce ==
  /\ \A n : NilIn(n) => nilSent /\ \A m : NilIn(m) => m = n
  /\ \A p : Resends(p) => /\ nilSent /\ \A n : ~NilIn(n)
                           /\ \A q : Resends(q) => q = p

IndexInv == TypeOK /\ OnePlace /\ OnItsWay /\ Hands /\ Nils /\ NilOnce

USE ChannelAssumption
-----------------------------------------------------------------------------
(* Channels.                                                                *)

\* a channel when its first element is taken
LEMMA Taken ==
  ASSUME NEW S, NEW s \in Seq(S), s # <<>>, NEW t, t = Tail(s)
  PROVE  /\ Head(s) \in S /\ Head(s) = s[1] /\ 1 \in 1..Len(s)
         /\ t \in Seq(S) /\ Len(t) = Len(s) - 1
         /\ \A i \in 1..Len(t) : i + 1 \in 1..Len(s) /\ t[i] = s[i + 1]
         /\ \A i \in 1..Len(s) : i # 1 => i - 1 \in 1..Len(t) /\ t[i - 1] = s[i]
OBVIOUS

\* ... and when one is put behind the others
LEMMA PutBehind ==
  ASSUME NEW S, NEW s \in Seq(S), NEW x \in S, NEW t, t = Append(s, x)
  PROVE  /\ t \in Seq(S) /\ Len(t) = Len(s) + 1 /\ t[Len(t)] = x /\ Len(t) \in 1..Len(t)
         /\ \A i \in 1..Len(s) : i \in 1..Len(t) /\ t[i] = s[i]
         /\ \A i \in 1..Len(t) : i = Len(t) \/ i \in 1..Len(s)
OBVIOUS

\* What a channel without its first element holds: the rest, in which the first
\* does not come again when it came once.
LEMMA HoldsRest ==
  ASSUME NEW s \in Seq(Requester \cup {Nil}), s # <<>>,
         \A m, n \in 1..Len(s) : s[m] \in Requester /\ s[m] = s[n] => m = n
  PROVE  /\ \A r \in Requester : (\E n \in 1..Len(Tail(s)) : Tail(s)[n] = r) <=>
                                   (\E n \in 1..Len(s) : s[n] = r) /\ r # Head(s)
         /\ \A m, n \in 1..Len(Tail(s)) :
              Tail(s)[m] \in Requester /\ Tail(s)[m] = Tail(s)[n] => m = n
<1> DEFINE t == Tail(s)
<1>0. t = Tail(s) OBVIOUS
<1> HIDE DEF t
<1>1. /\ Head(s) = s[1] /\ 1 \in 1..Len(s)
      /\ \A i \in 1..Len(t) : i + 1 \in 1..Len(s) /\ t[i] = s[i + 1]
      /\ \A i \in 1..Len(s) : i # 1 => i - 1 \in 1..Len(t) /\ t[i - 1] = s[i]
  BY <1>0, Taken
<1>2. \A i, j \in 1..Len(t) : i + 1 # 1 /\ (i + 1 = j + 1 => i = j) OBVIOUS
<1>3. ASSUME NEW r \in Requester, NEW n \in 1..Len(t), t[n] = r
      PROVE  (\E i \in 1..Len(s) : s[i] = r) /\ r # Head(s)
  <2>1. n + 1 \in 1..Len(s) /\ s[n + 1] = r /\ n + 1 # 1 BY <1>1, <1>2, <1>3
  <2> QED BY <1>1, <2>1
<1>4. ASSUME NEW r \in Requester, NEW n \in 1..Len(s), s[n] = r, r # Head(s)
      PROVE  \E i \in 1..Len(t) : t[i] = r
  <2>1. n - 1 \in 1..Len(t) /\ t[n - 1] = r BY <1>1, <1>4
  <2> QED BY <2>1
<1>5. ASSUME NEW m \in 1..Len(t), NEW n \in 1..Len(t), t[m] \in Requester, t[m] = t[n]
      PROVE  m = n
  <2>1. /\ m + 1 \in 1..Len(s) /\ s[m + 1] = t[m]
        /\ n + 1 \in 1..Len(s) /\ s[n + 1] = t[n]
    BY <1>1
  <2>2. m + 1 = n + 1 BY <1>5, <2>1
  <2> QED BY <1>2, <2>2
<1> QED BY <1>3, <1>4, <1>5 DEF t

LEMMA HoldsMore ==
  ASSUME NEW S, NEW s \in Seq(S), NEW x \in S, NEW t, t = Append(s, x), NEW R,
         \A m, n \in 1..Len(s) : s[m] \in R /\ s[m] = s[n] => m = n
  PROVE  /\ \A r : (\E n \in 1..Len(t) : t[n] = r) <=>
                     (\E n \in 1..Len(s) : s[n] = r) \/ r = x
         /\ x \notin R \/ (\A n \in 1..Len(s) : s[n] # x) =>
              \A m, n \in 1..Len(t) : t[m] \in R /\ t[m] = t[n] => m = n
<1>1. /\ t[Len(t)] = x /\ Len(t) \in 1..Len(t)
      /\ \A i \in 1..Len(s) : i \in 1..Len(t) /\ t[i] = s[i]
      /\ \A i \in 1..Len(t) : i = Len(t) \/ i \in 1..Len(s)
  BY PutBehind
<1> QED BY <1>1
-----------------------------------------------------------------------------
(* The types and the nil pointers.                                          *)
LEMMA StaysTyped == TypeOK /\ Hands /\ Next => TypeOK'
<1> SUFFICES ASSUME TypeOK, Hands, Next PROVE TypeOK' OBVIOUS
<1> USE DEF requestVars, dispatchVars, workerVars
<1>0. IndexChan \in Seq(Requester \cup {Nil}) /\ indexCap \in Nat BY DEF TypeOK
<1>1. ASSUME NEW r \in Requester, RequesterStep(r) PROVE TypeOK'
  <2>1. ASSUME NEW ch \in Chars, IndexQuery(r, ch) PROVE TypeOK'
    <3>1. /\ IndexChan' \in Seq(Requester \cup {Nil}) /\ Len(IndexChan') <= indexCap
      BY <1>0, <2>1, PutBehind DEF IndexQuery, HasRoom
    <3> QED BY <2>1, <3>1 DEF IndexQuery, TypeOK, States
  <2>2. CASE QueryPanics(r) \/ TakeAnswer(r)
    BY <2>2 DEF QueryPanics, TakeAnswer, TypeOK, States
  <2> QED BY <1>1, <2>1, <2>2 DEF RequesterStep
<1>2. CASE WriterSendsNil
  <2>1. /\ IndexChan' \in Seq(Requester \cup {Nil}) /\ Len(IndexChan') <= indexCap
    BY <1>0, <1>2, PutBehind DEF WriterSendsNil, HasRoom
  <2> QED BY <1>2, <2>1 DEF WriterSendsNil, TypeOK
<1>3. ASSUME NEW p \in Dispatcher, DispatcherStep(p) PROVE TypeOK'
  <2>0. p \in 1..MaxPar BY DEF TypeOK, Dispatcher
  <2>1. CASE DispatcherTakesRequest(p) \/ DispatcherTakesNil(p)
    <3>1. /\ IndexChan' \in Seq(Requester \cup {Nil}) /\ Len(IndexChan') <= indexCap
          /\ Head(IndexChan) \in Requester \cup {Nil}
      <4>1. IndexChan # <<>> /\ IndexChan' = Tail(IndexChan)
        BY <2>1 DEF DispatcherTakesRequest, DispatcherTakesNil, Receives
      <4>2. Len(IndexChan) \in Nat /\ Len(IndexChan) <= indexCap BY <1>0 DEF TypeOK
      <4> QED BY <1>0, <4>1, <4>2, Taken
    <3>2. CASE DispatcherTakesRequest(p)
      BY <2>0, <3>1, <3>2 DEF DispatcherTakesRequest, Receives, TypeOK
    <3>3. CASE DispatcherTakesNil(p)
      <4>1. AfterNil \in {"stopped", "resend"} /\ Alone \in BOOLEAN BY DEF AfterNil, Alone
      <4> QED BY <2>0, <3>1, <3>3, <4>1 DEF DispatcherTakesNil, Receives, TypeOK
    <3> QED BY <2>1, <3>2, <3>3
  <2>2. CASE DispatcherResendsNil(p)
    <3>1. /\ IndexChan' \in Seq(Requester \cup {Nil}) /\ Len(IndexChan') <= indexCap
      BY <1>0, <2>2, PutBehind DEF DispatcherResendsNil, HasRoom
    <3> QED BY <2>0, <2>2, <3>1 DEF DispatcherResendsNil, TypeOK
  <2>3. CASE DispatcherForwards(p)
    <3>1. held[p] \in Requester /\ WorkerFor(p) \in Chars
      BY <2>0, <2>3 DEF DispatcherForwards, Hands, WorkerFor, TypeOK
    <3>2. /\ indexChans' \in [Chars -> Seq(Requester \cup {Nil})]
          /\ \A i \in Chars : Len(indexChans'[i]) <= WorkerCap
      BY <2>3, <3>1 DEF DispatcherForwards, Sent, TypeOK
    <3> QED BY <2>0, <2>3, <3>2 DEF DispatcherForwards, TypeOK
  <2> QED BY <1>3, <2>1, <2>2, <2>3 DEF DispatcherStep
<1>4. CASE DispatchersGone BY <1>4 DEF DispatchersGone, TypeOK
<1>5. CASE StopNextWorker
  <2>1. /\ indexChans' \in [Chars -> Seq(Requester \cup {Nil})]
        /\ \A i \in Chars : Len(indexChans'[i]) <= WorkerCap
    BY <1>5 DEF StopNextWorker, Sent, TypeOK
  <2>2. nextNil' \in 0..(NumCacheDBs + 1) BY <1>5 DEF StopNextWorker, Chars
  <2> QED BY <1>5, <2>1, <2>2 DEF StopNextWorker, TypeOK
<1>6. ASSUME NEW i \in Chars, WorkerStep(i) PROVE TypeOK'
  <2>1. CASE WorkerReceives(i)
    <3>1. indexChans[i] \in Seq(Requester \cup {Nil}) /\ Len(indexChans[i]) <= WorkerCap
      BY DEF TypeOK
    <3>2. /\ Head(indexChans[i]) \in Requester \cup {Nil}
          /\ Tail(indexChans[i]) \in Seq(Requester \cup {Nil})
          /\ Len(Tail(indexChans[i])) <= WorkerCap
      BY <2>1, <3>1, Taken DEF WorkerReceives
    <3>3. /\ indexChans' \in [Chars -> Seq(Requester \cup {Nil})]
          /\ \A j \in Chars : Len(indexChans'[j]) <= WorkerCap
      BY <2>1, <3>2 DEF WorkerReceives, TypeOK
    <3> QED BY <2>1, <3>2, <3>3 DEF WorkerReceives, TypeOK
  <2>2. CASE WorkerAnswers(i) BY <2>2 DEF WorkerAnswers, TypeOK, States
  <2> QED BY <1>6, <2>1, <2>2 DEF WorkerStep
<1> QED BY <1>1, <1>2, <1>3, <1>4, <1>5, <1>6 DEF Next, IndexStep

LEMMA HandsStay == TypeOK /\ Hands /\ Next => Hands'
<1> SUFFICES ASSUME TypeOK, Hands, Next PROVE Hands' OBVIOUS
<1> USE DEF requestVars, dispatchVars, workerVars
<1>1. CASE UNCHANGED <<disp, held, worker, served>> BY <1>1 DEF Hands
<1>2. ASSUME NEW p \in Dispatcher, DispatcherTakesRequest(p) PROVE Hands'
  <2>1. p \in 1..MaxPar BY DEF TypeOK, Dispatcher
  <2>2. Head(IndexChan) \in Requester
    <3>1. IndexChan \in Seq(Requester \cup {Nil}) /\ IndexChan # <<>>
      BY <1>2 DEF TypeOK, DispatcherTakesRequest, Receives
    <3> QED BY <1>2, <3>1, Taken DEF DispatcherTakesRequest
  <2> QED BY <1>2, <2>1, <2>2 DEF DispatcherTakesRequest, Receives, TypeOK, Hands
<1>3. ASSUME NEW p \in Dispatcher,
             DispatcherTakesNil(p) \/ DispatcherResendsNil(p) \/ DispatcherForwards(p)
      PROVE  Hands'
  <2>1. p \in 1..MaxPar BY DEF TypeOK, Dispatcher
  <2> QED BY <1>3, <2>1
    DEF DispatcherTakesNil, DispatcherResendsNil, DispatcherForwards, Receives, AfterNil,
        TypeOK, Hands
<1>4. ASSUME NEW i \in Chars, WorkerReceives(i) PROVE Hands'
  <2>1. Head(indexChans[i]) \in Requester \cup {Nil}
    <3>1. indexChans[i] \in Seq(Requester \cup {Nil}) /\ indexChans[i] # <<>>
      BY <1>4 DEF TypeOK, WorkerReceives
    <3> QED BY <3>1, Taken
  <2> QED BY <1>4, <2>1 DEF WorkerReceives, TypeOK, Hands
<1>5. ASSUME NEW i \in Chars, WorkerAnswers(i) PROVE Hands'
  BY <1>5 DEF WorkerAnswers, TypeOK, Hands
<1> QED BY <1>1, <1>2, <1>3, <1>4, <1>5
  DEF Next, RequesterStep, IndexQuery, QueryPanics, TakeAnswer, WriterSendsNil, DispatcherStep,
      IndexStep, DispatchersGone, StopNextWorker, WorkerStep

\* A dispatcher puts back the nil that it took, and history_Writer sends one.
LEMMA NilOnceStays == TypeOK /\ NilOnce /\ Next => NilOnce'
<1> SUFFICES ASSUME TypeOK, NilOnce, Next PROVE NilOnce' OBVIOUS
<1> USE DEF requestVars, dispatchVars, workerVars
<1>0. /\ IndexChan \in Seq(Requester \cup {Nil}) /\ Dispatcher \subseteq 1..MaxPar
      /\ disp \in [1..MaxPar -> {"recv", "send", "resend", "stopped"}]
  BY DEF TypeOK, Dispatcher
<1>1. CASE UNCHANGED <<IndexChan, disp, nilSent>> BY <1>1 DEF NilOnce, NilIn, Resends
<1>2. ASSUME NEW r \in Requester, NEW ch \in Chars, IndexQuery(r, ch) PROVE NilOnce'
  <2>1. IndexChan' = Append(IndexChan, r) /\ UNCHANGED <<disp, nilSent>>
    BY <1>2 DEF IndexQuery
  <2>2. /\ Len(IndexChan') \in 1..Len(IndexChan') /\ IndexChan'[Len(IndexChan')] # Nil
        /\ \A n \in 1..Len(IndexChan) : IndexChan'[n] = IndexChan[n]
        /\ \A n \in 1..Len(IndexChan') : n = Len(IndexChan') \/ n \in 1..Len(IndexChan)
    BY <1>0, <2>1, PutBehind, r # Nil
  <2>3. \A n : NilIn(n)' => NilIn(n) BY <2>2 DEF NilIn
  <2> QED BY <2>1, <2>3 DEF NilOnce, Resends
<1>3. CASE WriterSendsNil
  <2>1. /\ ~nilSent /\ nilSent' /\ IndexChan' = Append(IndexChan, Nil) /\ UNCHANGED disp
    BY <1>3 DEF WriterSendsNil
  <2>2. (\A n : ~NilIn(n)) /\ \A p : ~Resends(p) BY <2>1 DEF NilOnce
  <2>3. /\ \A n \in 1..Len(IndexChan) : IndexChan'[n] = IndexChan[n]
        /\ \A n \in 1..Len(IndexChan') : n = Len(IndexChan') \/ n \in 1..Len(IndexChan)
    BY <1>0, <2>1, PutBehind
  <2>4. \A n : NilIn(n)' => n = Len(IndexChan') BY <2>2, <2>3 DEF NilIn
  <2> QED BY <2>1, <2>2, <2>4 DEF NilOnce, Resends
<1>4. ASSUME NEW p \in Dispatcher, DispatcherTakesRequest(p) \/ DispatcherTakesNil(p)
      PROVE  NilOnce'
  <2>1. /\ p \in 1..MaxPar /\ disp[p] = "recv" /\ IndexChan # <<>>
        /\ IndexChan' = Tail(IndexChan) /\ UNCHANGED nilSent
    BY <1>0, <1>4 DEF DispatcherTakesRequest, DispatcherTakesNil, Receives
  <2>2. /\ Head(IndexChan) = IndexChan[1] /\ 1 \in 1..Len(IndexChan)
        /\ \A n \in 1..Len(IndexChan') :
             n + 1 \in 1..Len(IndexChan) /\ IndexChan'[n] = IndexChan[n + 1]
    BY <1>0, <2>1, Taken
  <2>3. \A n : NilIn(n)' => n \in Nat /\ NilIn(n + 1) BY <2>2 DEF NilIn
  <2>4. CASE DispatcherTakesRequest(p)
    <3>1. \A q : Resends(q)' => Resends(q)
      BY <1>0, <2>1, <2>4 DEF DispatcherTakesRequest, Resends
    <3>2. \A m, n : NilIn(m)' /\ NilIn(n)' => m = n
      <4> SUFFICES ASSUME NEW m, NEW n, NilIn(m)', NilIn(n)' PROVE m = n OBVIOUS
      <4>1. m + 1 = n + 1 /\ m \in Nat /\ n \in Nat BY <2>3 DEF NilOnce
      <4> QED BY <4>1
    <3> QED BY <2>1, <2>3, <3>1, <3>2 DEF NilOnce
  <2>5. CASE DispatcherTakesNil(p)
    <3>1. NilIn(1) BY <2>2, <2>5 DEF DispatcherTakesNil, NilIn
    <3>2. nilSent /\ \A q : ~Resends(q) BY <3>1 DEF NilOnce
    <3>3. \A n : ~NilIn(n)'
      <4> SUFFICES ASSUME NEW n, NilIn(n)' PROVE FALSE OBVIOUS
      <4>1. n \in Nat /\ n + 1 = 1 /\ n \in 1..Len(IndexChan')
        BY <2>3, <3>1 DEF NilOnce, NilIn
      <4> QED BY <4>1
    <3>4. \A q : Resends(q)' => q = p
      BY <1>0, <2>1, <2>5, <3>2 DEF DispatcherTakesNil, Resends
    <3> QED BY <2>1, <3>2, <3>3, <3>4 DEF NilOnce
  <2> QED BY <1>4, <2>4, <2>5
<1>5. ASSUME NEW p \in Dispatcher, DispatcherResendsNil(p) PROVE NilOnce'
  <2>1. /\ Resends(p) /\ IndexChan' = Append(IndexChan, Nil) /\ UNCHANGED nilSent
        /\ disp' = [disp EXCEPT ![p] = "stopped"]
    BY <1>0, <1>5 DEF DispatcherResendsNil, Resends
  <2>2. nilSent /\ (\A n : ~NilIn(n)) /\ \A q : Resends(q) => q = p
    BY <2>1 DEF NilOnce
  <2>3. /\ \A n \in 1..Len(IndexChan) : IndexChan'[n] = IndexChan[n]
        /\ \A n \in 1..Len(IndexChan') : n = Len(IndexChan') \/ n \in 1..Len(IndexChan)
    BY <1>0, <2>1, PutBehind
  <2>4. \A n : NilIn(n)' => n = Len(IndexChan') BY <2>2, <2>3 DEF NilIn
  <2>5. \A q : ~Resends(q)' BY <1>0, <2>1, <2>2 DEF Resends
  <2> QED BY <2>1, <2>2, <2>4, <2>5 DEF NilOnce
<1>6. ASSUME NEW p \in Dispatcher, DispatcherForwards(p) PROVE NilOnce'
  <2>1. /\ p \in 1..MaxPar /\ disp' = [disp EXCEPT ![p] = "recv"]
        /\ UNCHANGED <<IndexChan, nilSent>>
    BY <1>0, <1>6 DEF DispatcherForwards
  <2>2. \A q : Resends(q)' => Resends(q) BY <1>0, <2>1 DEF Resends
  <2>3. \A n : NilIn(n)' = NilIn(n) BY <2>1 DEF NilIn
  <2> QED BY <2>1, <2>2, <2>3 DEF NilOnce
<1> QED BY <1>1, <1>2, <1>3, <1>4, <1>5, <1>6
  DEF Next, RequesterStep, QueryPanics, TakeAnswer, DispatcherStep, IndexStep,
      DispatchersGone, StopNextWorker, WorkerStep, WorkerReceives, WorkerAnswers

\* The nil for a worker goes behind all requests, for all dispatchers are gone.
LEMMA NilsStay == TypeOK /\ Hands /\ Nils /\ Next => Nils'
<1> SUFFICES ASSUME TypeOK, Hands, Nils, Next PROVE Nils' OBVIOUS
<1> USE DEF requestVars, dispatchVars, workerVars
<1>0. nextNil \in Nat /\ Dispatcher' = Dispatcher
  BY DEF TypeOK, Next, RequesterStep, IndexQuery, QueryPanics, TakeAnswer, WriterSendsNil,
         DispatcherStep, DispatcherTakesRequest, DispatcherTakesNil, DispatcherResendsNil,
         DispatcherForwards, Receives, IndexStep, DispatchersGone, StopNextWorker,
         WorkerStep, WorkerReceives, WorkerAnswers, Dispatcher
<1>1. CASE UNCHANGED <<nextNil, disp, indexChans, worker>>
  BY <1>0, <1>1 DEF Nils, AllGone
<1>2. ASSUME NEW p \in Dispatcher, DispatcherStep(p) PROVE Nils'
  <2>1. p \in 1..MaxPar /\ disp[p] # "stopped" /\ nextNil = 0 /\ UNCHANGED <<nextNil, worker>>
    BY <1>0, <1>2 DEF TypeOK, Dispatcher, DispatcherStep, DispatcherTakesRequest,
       DispatcherTakesNil, DispatcherResendsNil, DispatcherForwards, Receives, Nils, AllGone
  <2>2. \A i \in Chars : ~(0 > i) /\ ~(nextNil > i) BY <2>1 DEF Chars
  <2>3. CASE DispatcherForwards(p)
    <3>1. held[p] \in Requester /\ WorkerFor(p) \in Chars
      BY <2>1, <2>3 DEF DispatcherForwards, Hands, WorkerFor, TypeOK
    <3> DEFINE w == WorkerFor(p)
    <3>2. /\ indexChans' = [indexChans EXCEPT ![w] = Append(@, held[p])]
      BY <2>3 DEF DispatcherForwards, Sent
    <3>3. /\ indexChans'[w] = Append(indexChans[w], held[p])
          /\ \A i \in Chars : i # w => indexChans'[i] = indexChans[i]
          /\ indexChans[w] \in Seq(Requester \cup {Nil})
      BY <3>1, <3>2 DEF TypeOK
    <3> HIDE DEF w
    <3>4. \A i \in Chars : \A n \in 1..Len(indexChans[i]) : indexChans[i][n] # Nil
      BY <2>2 DEF Nils
    <3>5. \A n \in 1..Len(indexChans'[w]) : indexChans'[w][n] # Nil
      <4>1. \A n \in 1..Len(indexChans'[w]) :
              \/ indexChans'[w][n] = held[p]
              \/ n \in 1..Len(indexChans[w]) /\ indexChans'[w][n] = indexChans[w][n]
        BY <3>1, <3>3, PutBehind
      <4> QED BY <3>1, <3>4, <4>1 DEF w
    <3>6. \A i \in Chars : \A n \in 1..Len(indexChans'[i]) : indexChans'[i][n] # Nil
      BY <3>3, <3>4, <3>5
    <3>7. \A i \in Chars : worker[i] # "stopped" BY <2>2 DEF Nils
    <3> QED BY <2>1, <3>6, <3>7 DEF Nils
  <2>4. CASE UNCHANGED indexChans BY <2>1, <2>4 DEF Nils
  <2> QED BY <1>2, <2>3, <2>4
    DEF DispatcherStep, DispatcherTakesRequest, DispatcherTakesNil, DispatcherResendsNil, Receives
<1>3. CASE DispatchersGone
  <2>1. nextNil = 0 /\ nextNil' = 1 /\ AllGone /\ UNCHANGED <<disp, indexChans, worker>>
    BY <1>3 DEF DispatchersGone
  <2>2. \A i \in Chars : ~(0 > i) BY DEF Chars
  <2> QED BY <1>0, <2>1, <2>2 DEF Nils, AllGone
<1>4. CASE StopNextWorker
  <2> DEFINE w == nextNil
  <2>1. /\ w \in Chars /\ nextNil' = nextNil + 1 /\ UNCHANGED <<disp, worker>>
        /\ indexChans' = [indexChans EXCEPT ![w] = Append(@, Nil)]
    BY <1>4 DEF StopNextWorker, Sent
  <2>2. /\ indexChans'[w] = Append(indexChans[w], Nil)
        /\ \A i \in Chars : i # w => indexChans'[i] = indexChans[i]
        /\ indexChans[w] \in Seq(Requester \cup {Nil})
    BY <2>1 DEF TypeOK
  <2>3. \A i \in Chars : i \in Nat /\ (nextNil > i => nextNil' > i) /\ ~(w > w) /\ nextNil' > w
    BY <1>0, <2>1 DEF Chars
  <2>4. /\ \A n \in 1..Len(indexChans[w]) : indexChans[w][n] # Nil
        /\ worker[w] # "stopped"
    BY <2>1, <2>3 DEF Nils
  <2>5. \A n \in 1..Len(indexChans'[w]) :
          indexChans'[w][n] = Nil => n = Len(indexChans'[w])
    BY <2>2, <2>4, PutBehind
  <2>6. AllGone' BY <1>0, <2>1 DEF Nils, AllGone, Chars
  <2> HIDE DEF w
  <2>7. \A i \in Chars : \A n \in 1..Len(indexChans'[i]) :
          indexChans'[i][n] = Nil => n = Len(indexChans'[i]) /\ nextNil' > i
    BY <2>1, <2>2, <2>3, <2>5 DEF Nils
  <2>8. \A i \in Chars : worker'[i] = "stopped" => indexChans'[i] = <<>> /\ nextNil' > i
    BY <2>1, <2>2, <2>3, <2>4 DEF Nils
  <2> QED BY <2>6, <2>7, <2>8 DEF Nils
<1>5. ASSUME NEW i \in Chars, WorkerReceives(i) PROVE Nils'
  <2>1. /\ indexChans[i] # <<>> /\ worker[i] = "recv"
        /\ indexChans' = [indexChans EXCEPT ![i] = Tail(@)]
        /\ worker' = [worker EXCEPT ![i] = IF Head(indexChans[i]) = Nil THEN "stopped"
                                                                        ELSE "serve"]
        /\ UNCHANGED <<nextNil, disp>>
    BY <1>5 DEF WorkerReceives
  <2>2. /\ indexChans'[i] = Tail(indexChans[i]) /\ indexChans[i] \in Seq(Requester \cup {Nil})
        /\ worker'[i] = IF Head(indexChans[i]) = Nil THEN "stopped" ELSE "serve"
        /\ \A j \in Chars : j # i => indexChans'[j] = indexChans[j] /\ worker'[j] = worker[j]
    BY <2>1 DEF TypeOK
  <2>3. /\ Head(indexChans[i]) = indexChans[i][1] /\ 1 \in 1..Len(indexChans[i])
        /\ Len(indexChans'[i]) = Len(indexChans[i]) - 1
        /\ indexChans'[i] \in Seq(Requester \cup {Nil})
        /\ \A n \in 1..Len(indexChans'[i]) : /\ n + 1 \in 1..Len(indexChans[i])
                                             /\ indexChans'[i][n] = indexChans[i][n + 1]
    <3> DEFINE s == indexChans[i]
               t == indexChans'[i]
    <3>1. s \in Seq(Requester \cup {Nil}) /\ s # <<>> /\ t = Tail(s) BY <2>1, <2>2
    <3> HIDE DEF s, t
    <3>2. /\ Head(s) = s[1] /\ 1 \in 1..Len(s) /\ Len(t) = Len(s) - 1
          /\ t \in Seq(Requester \cup {Nil})
          /\ \A n \in 1..Len(t) : n + 1 \in 1..Len(s) /\ t[n] = s[n + 1]
      BY <3>1, Taken
    <3> QED BY <3>2 DEF s, t
  <2>4. \A n \in 1..Len(indexChans'[i]) :
          indexChans'[i][n] = Nil => n = Len(indexChans'[i]) /\ nextNil > i
    <3> TAKE n \in 1..Len(indexChans'[i])
    <3> HAVE indexChans'[i][n] = Nil
    <3>1. n + 1 = Len(indexChans[i]) /\ nextNil > i BY <2>3 DEF Nils
    <3>2. Len(indexChans[i]) \in Nat /\ n \in Nat BY <2>2
    <3> QED BY <2>3, <3>1, <3>2
  <2>5. worker'[i] = "stopped" => indexChans'[i] = <<>> /\ nextNil > i
    <3> HAVE worker'[i] = "stopped"
    <3>1. 1 = Len(indexChans[i]) /\ nextNil > i BY <2>2, <2>3 DEF Nils
    <3>2. Len(indexChans'[i]) = 0 BY <2>3, <3>1
    <3> QED BY <2>3, <3>1, <3>2
  <2> QED BY <1>0, <2>1, <2>2, <2>4, <2>5 DEF Nils, AllGone
<1>6. ASSUME NEW i \in Chars, WorkerAnswers(i) PROVE Nils'
  <2>1. /\ UNCHANGED <<nextNil, disp, indexChans>>
        /\ \A j \in Chars : worker'[j] = "stopped" => worker[j] = "stopped"
    BY <1>6 DEF WorkerAnswers, TypeOK
  <2> QED BY <1>0, <2>1 DEF Nils, AllGone
<1> QED BY <1>1, <1>2, <1>3, <1>4, <1>5, <1>6
  DEF Next, RequesterStep, IndexQuery, QueryPanics, TakeAnswer, WriterSendsNil, IndexStep, WorkerStep
-----------------------------------------------------------------------------
(* Where requests are.                                                      *)

\* Nothing but the state of one request changes that is nowhere.
LEMMA PlacesSame ==
  ASSUME OnePlace, OnItsWay, UNCHANGED <<IndexChan, held, indexChans, served, char>>,
         \A r \in Requester : st[r] = "asked" => st'[r] = "asked"
  PROVE  OnePlace' /\ OnItsWay'
<1>1. \A r : /\ Queued(r)' = Queued(r) /\ Held(r)' = Held(r)
             /\ Forwarded(r)' = Forwarded(r) /\ Served(r)' = Served(r)
  BY DEF Queued, Held, Forwarded, Served
<1>2. OnePlace' BY <1>1 DEF OnePlace
<1>3. OnItsWay' BY <1>1 DEF OnItsWay
<1> QED BY <1>2, <1>3

\* IndexChan gets one more, a request that is nowhere else or a nil.
LEMMA ChanGets ==
  ASSUME TypeOK, OnePlace, NEW x \in Requester \cup {Nil}, IndexChan' = Append(IndexChan, x),
         UNCHANGED <<held, indexChans, served>>,
         x \in Requester => ~Queued(x) /\ ~Held(x) /\ ~Forwarded(x) /\ ~Served(x)
  PROVE  /\ OnePlace'
         /\ \A r \in Requester : Queued(r)' => Queued(r) \/ r = x
<1>1. IndexChan \in Seq(Requester \cup {Nil}) BY DEF TypeOK
<1>2. \A r : Queued(r)' <=> Queued(r) \/ r = x
  BY <1>1, HoldsMore DEF OnePlace, Queued
<1>3. \A m, n \in 1..Len(IndexChan') :
        IndexChan'[m] \in Requester /\ IndexChan'[m] = IndexChan'[n] => m = n
  BY <1>1, HoldsMore DEF OnePlace, Queued
<1>4. \A r : Held(r)' = Held(r) /\ Forwarded(r)' = Forwarded(r) /\ Served(r)' = Served(r)
  BY DEF Held, Forwarded, Served
<1> QED BY <1>2, <1>3, <1>4 DEF OnePlace

\* A dispatcher takes the first of IndexChan and holds it, or it was nil.
LEMMA ChanGives ==
  ASSUME TypeOK, OnePlace, Hands, NEW p \in 1..MaxPar, disp[p] = "recv",
         IndexChan # <<>>, IndexChan' = Tail(IndexChan),
         \/ Head(IndexChan) \in Requester /\ held' = [held EXCEPT ![p] = Head(IndexChan)]
         \/ Head(IndexChan) = Nil /\ UNCHANGED held,
         UNCHANGED <<indexChans, served>>
  PROVE  /\ OnePlace'
         /\ \A r \in Requester : Queued(r)' \/ Held(r)' => Queued(r) \/ Held(r)
<1> DEFINE x == Head(IndexChan)
<1>1. IndexChan \in Seq(Requester \cup {Nil}) BY DEF TypeOK
<1>2. x = IndexChan[1] /\ 1 \in 1..Len(IndexChan) BY <1>1, Taken
<1>3. \A r \in Requester : Queued(r)' <=> Queued(r) /\ r # x
  <2> DEFINE s == IndexChan
             t == IndexChan'
  <2>1. /\ s \in Seq(Requester \cup {Nil}) /\ s # <<>> /\ t = Tail(s)
        /\ \A m, n \in 1..Len(s) : s[m] \in Requester /\ s[m] = s[n] => m = n
    BY <1>1 DEF OnePlace
  <2> HIDE DEF s, t
  <2>2. /\ \A r \in Requester : (\E n \in 1..Len(t) : t[n] = r) <=>
                                  (\E n \in 1..Len(s) : s[n] = r) /\ r # Head(s)
        /\ \A m, n \in 1..Len(t) : t[m] \in Requester /\ t[m] = t[n] => m = n
    BY <2>1, HoldsRest
  <2> QED BY <2>2 DEF s, t, Queued
<1>4. \A m, n \in 1..Len(IndexChan') :
        IndexChan'[m] \in Requester /\ IndexChan'[m] = IndexChan'[n] => m = n
  BY <1>1, HoldsRest DEF OnePlace
<1>5. held[p] \notin Requester /\ Queued(x) BY <1>2 DEF Hands, Queued
<1>6. \A r : Forwarded(r)' = Forwarded(r) /\ Served(r)' = Served(r)
  BY DEF Forwarded, Served
<1> HIDE DEF x
<1>7. CASE x \in Requester /\ held' = [held EXCEPT ![p] = x]
  <2>1. held'[p] = x /\ \A q \in 1..MaxPar : q # p => held'[q] = held[q]
    BY <1>7 DEF TypeOK
  <2>2. \A r \in Requester : Held(r)' <=> Held(r) \/ r = x BY <1>5, <2>1 DEF Held
  <2>3. ~Held(x) /\ ~Forwarded(x) /\ ~Served(x) BY <1>5, <1>7 DEF OnePlace
  <2>4. \A q, o \in 1..MaxPar : held'[q] \in Requester /\ held'[q] = held'[o] => q = o
    BY <2>1, <2>3 DEF OnePlace, Held
  <2> QED BY <1>3, <1>4, <1>5, <1>6, <1>7, <2>2, <2>3, <2>4 DEF OnePlace
<1>8. CASE x = Nil /\ UNCHANGED held
  <2>1. \A r : Held(r)' = Held(r) BY <1>8 DEF Held
  <2> QED BY <1>3, <1>4, <1>6, <1>8, <2>1 DEF OnePlace
<1> QED BY <1>7, <1>8 DEF x

\* A worker's channel gets one more: a dispatcher's request, or a nil.
LEMMA WorkerGets ==
  ASSUME TypeOK, OnePlace, NEW w \in Chars, NEW x \in Requester \cup {Nil},
         indexChans' = [indexChans EXCEPT ![w] = Append(@, x)],
         \/ x = Nil /\ UNCHANGED held
         \/ \E p \in 1..MaxPar : /\ x \in Requester /\ held[p] = x
                                 /\ held' = [held EXCEPT ![p] = Nil],
         UNCHANGED <<IndexChan, served>>
  PROVE  /\ OnePlace'
         /\ \A r \in Requester : Held(r)' \/ Forwarded(r)' => Held(r) \/ Forwarded(r)
         /\ \A i \in Chars : \A n \in 1..Len(indexChans'[i]) :
              \/ indexChans'[i][n] = x /\ i = w
              \/ n \in 1..Len(indexChans[i]) /\ indexChans'[i][n] = indexChans[i][n]
<1>1. /\ indexChans[w] \in Seq(Requester \cup {Nil})
      /\ indexChans'[w] = Append(indexChans[w], x)
      /\ \A i \in Chars : i # w => indexChans'[i] = indexChans[i]
  BY DEF TypeOK
<1> DEFINE s == indexChans[w]
           t == indexChans'[w]
<1>2. /\ s \in Seq(Requester \cup {Nil}) /\ t = Append(s, x)
      /\ \A m, n \in 1..Len(s) : s[m] \in Requester /\ s[m] = s[n] => m = n
  BY <1>1 DEF OnePlace
<1> HIDE DEF s, t
<1>3. /\ \A r : (\E n \in 1..Len(t) : t[n] = r) <=> (\E n \in 1..Len(s) : s[n] = r) \/ r = x
      /\ \A n \in 1..Len(t) : t[n] = x \/ (n \in 1..Len(s) /\ t[n] = s[n])
      /\ x \notin Requester \/ (\A n \in 1..Len(s) : s[n] # x) =>
           \A m, n \in 1..Len(t) : t[m] \in Requester /\ t[m] = t[n] => m = n
  BY <1>2, HoldsMore, PutBehind
<1>4. \A r : Forwarded(r)' <=> Forwarded(r) \/ r = x BY <1>1, <1>3 DEF Forwarded, s, t
<1>5. \A i \in Chars : \A n \in 1..Len(indexChans'[i]) :
        \/ indexChans'[i][n] = x /\ i = w
        \/ n \in 1..Len(indexChans[i]) /\ indexChans'[i][n] = indexChans[i][n]
  BY <1>1, <1>3 DEF s, t
<1>6. \A r : Queued(r)' = Queued(r) /\ Served(r)' = Served(r) BY DEF Queued, Served
<1>7. x \in Requester => Held(x) BY DEF Held
<1>8. x \in Requester => ~Queued(x) /\ ~Forwarded(x) /\ ~Served(x) BY <1>7 DEF OnePlace
<1>9. \A i \in Chars : \A m, n \in 1..Len(indexChans'[i]) :
        indexChans'[i][m] \in Requester /\ indexChans'[i][m] = indexChans'[i][n] => m = n
  <2>1. x \notin Requester \/ (\A n \in 1..Len(s) : s[n] # x)
    BY <1>8 DEF Forwarded, s
  <2>2. \A m, n \in 1..Len(t) : t[m] \in Requester /\ t[m] = t[n] => m = n BY <1>3, <2>1
  <2> QED BY <1>1, <2>2 DEF OnePlace, t
<1>10. \A r \in Requester : Held(r)' <=> Held(r) /\ r # x
  <2>1. CASE x = Nil /\ UNCHANGED held BY <2>1 DEF Held
  <2>2. CASE ~(x = Nil /\ UNCHANGED held)
    <3> PICK p \in 1..MaxPar : x \in Requester /\ held[p] = x /\ held' = [held EXCEPT ![p] = Nil]
      BY <2>2
    <3>1. held'[p] = Nil /\ \A q \in 1..MaxPar : q # p => held'[q] = held[q] BY DEF TypeOK
    <3>2. \A q \in 1..MaxPar : held[q] = x => q = p BY DEF OnePlace
    <3> QED BY <3>1, <3>2 DEF Held
  <2> QED BY <2>1, <2>2
<1>11. \A p, q \in 1..MaxPar : held'[p] \in Requester /\ held'[p] = held'[q] => p = q
  <2>1. \A q \in 1..MaxPar : held'[q] = held[q] \/ held'[q] = Nil BY DEF TypeOK
  <2> QED BY <2>1 DEF OnePlace
<1>12. OnePlace' BY <1>4, <1>6, <1>8, <1>9, <1>10, <1>11 DEF OnePlace
<1>13. \A r \in Requester : Held(r)' \/ Forwarded(r)' => Held(r) \/ Forwarded(r)
  BY <1>4, <1>7, <1>10
<1> QED BY <1>5, <1>12, <1>13

\* A worker takes the first of its channel, or nil.
LEMMA WorkerGives ==
  ASSUME TypeOK, OnePlace, OnItsWay, Hands, NEW i \in Chars, WorkerReceives(i)
  PROVE  /\ OnePlace' /\ OnItsWay'
         /\ Head(indexChans[i]) \in Requester =>
              /\ char[Head(indexChans[i])] = i /\ ~Served(Head(indexChans[i]))
              /\ st[Head(indexChans[i])] = "asked"
<1> DEFINE s == indexChans[i]
           t == indexChans'[i]
           x == Head(s)
<1>1. /\ s \in Seq(Requester \cup {Nil}) /\ s # <<>> /\ t = Tail(s)
      /\ \A j \in Chars : j # i => indexChans'[j] = indexChans[j]
      /\ served'[i] = x /\ \A j \in Chars : j # i => served'[j] = served[j]
      /\ worker[i] = "recv" /\ UNCHANGED <<IndexChan, held, st, char>>
      /\ \A m, n \in 1..Len(s) : s[m] \in Requester /\ s[m] = s[n] => m = n
  BY DEF WorkerReceives, TypeOK, OnePlace, requestVars, dispatchVars
<1>2. served[i] \notin Requester BY <1>1 DEF Hands
<1> HIDE DEF s, t
<1>3. /\ \A r \in Requester : (\E n \in 1..Len(t) : t[n] = r) <=>
                                (\E n \in 1..Len(s) : s[n] = r) /\ r # x
      /\ \A m, n \in 1..Len(t) : t[m] \in Requester /\ t[m] = t[n] => m = n
  <2>1. /\ s \in Seq(Requester \cup {Nil}) /\ s # <<>> /\ t = Tail(s)
        /\ \A m, n \in 1..Len(s) : s[m] \in Requester /\ s[m] = s[n] => m = n
    BY <1>1
  <2> QED BY <2>1, HoldsRest
<1>4. /\ x = s[1] /\ 1 \in 1..Len(s)
      /\ \A n \in 1..Len(t) : n + 1 \in 1..Len(s) /\ t[n] = s[n + 1]
  BY <1>1, Taken
<1> HIDE DEF x
<1>5. Forwarded(x) BY <1>4 DEF Forwarded, s
<1>6. x \in Requester => char[x] = i /\ ~Served(x) /\ ~Queued(x) /\ ~Held(x) /\ st[x] = "asked"
  BY <1>4, <1>5 DEF OnePlace, OnItsWay, s
<1>7. \A r \in Requester : Forwarded(r)' <=> Forwarded(r) /\ r # x
  <2> TAKE r \in Requester
  <2>1. r = x => \A j \in Chars : \A n \in 1..Len(indexChans[j]) : indexChans[j][n] = r => j = i
    BY <1>6 DEF OnItsWay
  <2>2. Forwarded(r) <=> \/ \E n \in 1..Len(s) : s[n] = r
                         \/ \E j \in Chars : j # i /\ \E n \in 1..Len(indexChans[j]) : indexChans[j][n] = r
    BY DEF Forwarded, s
  <2>3. Forwarded(r)' <=> \/ \E n \in 1..Len(t) : t[n] = r
                          \/ \E j \in Chars : j # i /\ \E n \in 1..Len(indexChans[j]) : indexChans[j][n] = r
    BY <1>1 DEF Forwarded, t
  <2> QED BY <1>3, <2>1, <2>2, <2>3
<1>8. \A r \in Requester : Served(r)' <=> Served(r) \/ r = x BY <1>1, <1>2 DEF Served
<1>9. \A r : Queued(r)' = Queued(r) /\ Held(r)' = Held(r) BY <1>1 DEF Queued, Held
<1>10. \A j \in Chars : \A m, n \in 1..Len(indexChans'[j]) :
         indexChans'[j][m] \in Requester /\ indexChans'[j][m] = indexChans'[j][n] => m = n
  BY <1>1, <1>3 DEF OnePlace, t
<1>11. OnePlace'
  BY <1>1, <1>6, <1>7, <1>8, <1>9, <1>10 DEF OnePlace
<1>12. \A j \in Chars : \A n \in 1..Len(indexChans'[j]) :
         indexChans'[j][n] \in Requester => char[indexChans'[j][n]] = j
  <2>1. \A n \in 1..Len(t) : t[n] \in Requester => char[t[n]] = i
    <3>1. \A n \in 1..Len(s) : s[n] \in Requester => char[s[n]] = i BY DEF OnItsWay, s
    <3> QED BY <1>4, <3>1
  <2>2. \A j \in Chars : \A n \in 1..Len(indexChans[j]) :
          indexChans[j][n] \in Requester => char[indexChans[j][n]] = j
    BY DEF OnItsWay
  <2>3. \A j \in Chars : j = i \/ indexChans'[j] = indexChans[j] BY <1>1
  <2> QED BY <2>1, <2>2, <2>3 DEF t
<1>13. OnItsWay' BY <1>1, <1>5, <1>6, <1>7, <1>8, <1>9, <1>12 DEF OnItsWay
<1> QED BY <1>6, <1>11, <1>13 DEF x, s

\* It answers what it serves, and that is nowhere else.
LEMMA WorkerAnswersOne ==
  ASSUME TypeOK, OnePlace, OnItsWay, Hands, NEW i \in Chars, WorkerAnswers(i)
  PROVE  /\ OnePlace' /\ OnItsWay'
         /\ served[i] \in Requester /\ st[served[i]] = "asked"
         /\ \A r \in Requester : Served(r)' <=> Served(r) /\ r # served[i]
<1> DEFINE x == served[i]
<1>1. /\ x \in Requester /\ served' = [served EXCEPT ![i] = Nil]
      /\ st' = [st EXCEPT ![x] = "done"]
      /\ UNCHANGED <<IndexChan, held, indexChans, char>>
  BY DEF WorkerAnswers, Hands, dispatchVars
<1>2. served'[i] = Nil /\ \A j \in Chars : j # i => served'[j] = served[j]
  BY <1>1 DEF TypeOK
<1>3. Served(x) BY DEF Served
<1>4. /\ st[x] = "asked" /\ char[x] = i /\ ~Queued(x) /\ ~Held(x) /\ ~Forwarded(x)
      /\ \A j \in Chars : served[j] = x => j = i
  BY <1>1, <1>3 DEF OnePlace, OnItsWay
<1>5. \A r \in Requester : r # x => st'[r] = st[r] BY <1>1 DEF TypeOK
<1>6. \A r \in Requester : Served(r)' <=> Served(r) /\ r # x
  BY <1>1, <1>2, <1>4 DEF Served
<1>7. \A r : Queued(r)' = Queued(r) /\ Held(r)' = Held(r) /\ Forwarded(r)' = Forwarded(r)
  BY <1>1 DEF Queued, Held, Forwarded
<1> HIDE DEF x
<1>8. OnePlace' BY <1>1, <1>6, <1>7 DEF OnePlace
<1>9. OnItsWay' BY <1>1, <1>2, <1>4, <1>5, <1>6, <1>7 DEF OnItsWay
<1> QED BY <1>1, <1>4, <1>6, <1>8, <1>9 DEF x

\* A new request is nowhere yet.
LEMMA QueryIsPlaced ==
  ASSUME TypeOK, OnePlace, OnItsWay, NEW r \in Requester, NEW ch \in Chars, IndexQuery(r, ch)
  PROVE  OnePlace' /\ OnItsWay'
<1>1. /\ st[r] = "none" /\ st' = [st EXCEPT ![r] = "asked"]
      /\ char' = [char EXCEPT ![r] = ch] /\ IndexChan' = Append(IndexChan, r)
      /\ UNCHANGED <<held, indexChans, served>>
  BY DEF IndexQuery, dispatchVars, workerVars
<1>2. ~Queued(r) /\ ~Held(r) /\ ~Forwarded(r) /\ ~Served(r) BY <1>1 DEF OnItsWay
<1>3. OnePlace' /\ \A q \in Requester : Queued(q)' => Queued(q) \/ q = r
  BY <1>1, <1>2, ChanGets
<1>4. \A q \in Requester : Held(q)' = Held(q) /\ Forwarded(q)' = Forwarded(q) /\ Served(q)' = Served(q)
  BY <1>1 DEF Held, Forwarded, Served
<1>5. /\ st'[r] = "asked"
      /\ \A q \in Requester : q # r => st'[q] = st[q] /\ char'[q] = char[q]
  BY <1>1 DEF TypeOK
<1>6. \A q \in Requester :
        Queued(q)' \/ Held(q)' \/ Forwarded(q)' \/ Served(q)' => st'[q] = "asked"
  BY <1>3, <1>4, <1>5 DEF OnItsWay
<1>7. \A i \in Chars : \A n \in 1..Len(indexChans'[i]) :
        indexChans'[i][n] \in Requester => char'[indexChans'[i][n]] = i
  <2> TAKE i \in Chars
  <2> TAKE n \in 1..Len(indexChans'[i])
  <2> HAVE indexChans'[i][n] \in Requester
  <2>1. indexChans'[i][n] = indexChans[i][n] /\ n \in 1..Len(indexChans[i]) BY <1>1
  <2>2. indexChans[i][n] # r BY <1>2, <2>1 DEF Forwarded
  <2> QED BY <1>5, <2>1, <2>2 DEF OnItsWay
<1>8. \A i \in Chars : served'[i] \in Requester => char'[served'[i]] = i
  BY <1>1, <1>2, <1>5 DEF OnItsWay, Served
<1> QED BY <1>3, <1>6, <1>7, <1>8 DEF OnItsWay

\* A nil more in IndexChan, or in the channel of a worker.
LEMMA NilIsPlaced ==
  ASSUME TypeOK, OnePlace, OnItsWay, IndexChan' = Append(IndexChan, Nil),
         UNCHANGED <<held, indexChans, served, st, char>>
  PROVE  OnePlace' /\ OnItsWay'
<1>1. OnePlace' /\ \A r \in Requester : Queued(r)' => Queued(r) BY ChanGets
<1>2. \A r : Held(r)' = Held(r) /\ Forwarded(r)' = Forwarded(r) /\ Served(r)' = Served(r)
  BY DEF Held, Forwarded, Served
<1>3. OnItsWay' BY <1>1, <1>2 DEF OnItsWay
<1> QED BY <1>1, <1>3

LEMMA NilToWorker ==
  ASSUME TypeOK, OnePlace, OnItsWay, StopNextWorker
  PROVE  OnePlace' /\ OnItsWay'
<1>1. /\ nextNil \in Chars /\ indexChans' = [indexChans EXCEPT ![nextNil] = Append(@, Nil)]
      /\ UNCHANGED <<IndexChan, held, served, st, char>>
  BY DEF StopNextWorker, Sent, requestVars, workerVars
<1>2. /\ OnePlace'
      /\ \A r \in Requester : Held(r)' \/ Forwarded(r)' => Held(r) \/ Forwarded(r)
      /\ \A i \in Chars : \A n \in 1..Len(indexChans'[i]) :
           \/ indexChans'[i][n] = Nil /\ i = nextNil
           \/ n \in 1..Len(indexChans[i]) /\ indexChans'[i][n] = indexChans[i][n]
  BY <1>1, WorkerGets
<1>3. \A r : Queued(r)' = Queued(r) /\ Served(r)' = Served(r) BY <1>1 DEF Queued, Served
<1>4. \A r \in Requester :
        Queued(r)' \/ Held(r)' \/ Forwarded(r)' \/ Served(r)' => st'[r] = "asked"
  BY <1>1, <1>2, <1>3 DEF OnItsWay
<1>5. \A i \in Chars : \A n \in 1..Len(indexChans'[i]) :
        indexChans'[i][n] \in Requester => char'[indexChans'[i][n]] = i
  BY <1>1, <1>2 DEF OnItsWay
<1> QED BY <1>1, <1>2, <1>4, <1>5 DEF OnItsWay

\* A dispatcher moves one request, or a nil.
LEMMA DispatcherHasPlaces ==
  ASSUME TypeOK, OnePlace, OnItsWay, Hands, NEW p \in Dispatcher, DispatcherStep(p)
  PROVE  OnePlace' /\ OnItsWay'
<1>0. p \in 1..MaxPar BY DEF TypeOK, Dispatcher
<1>1. UNCHANGED <<st, char, served>>
  BY DEF DispatcherStep, DispatcherTakesRequest, DispatcherTakesNil, DispatcherResendsNil,
         DispatcherForwards, Receives, requestVars, workerVars
<1>2. \A r : Served(r)' = Served(r) BY <1>1 DEF Served
<1>3. CASE DispatcherTakesRequest(p) \/ DispatcherTakesNil(p)
  <2>1. /\ disp[p] = "recv" /\ IndexChan # <<>> /\ IndexChan' = Tail(IndexChan)
        /\ UNCHANGED indexChans
    BY <1>3 DEF DispatcherTakesRequest, DispatcherTakesNil, Receives
  <2>2. Head(IndexChan) \in Requester \cup {Nil}
    <3>1. IndexChan \in Seq(Requester \cup {Nil}) BY DEF TypeOK
    <3> QED BY <2>1, <3>1, Taken
  <2>3. \/ Head(IndexChan) \in Requester /\ held' = [held EXCEPT ![p] = Head(IndexChan)]
        \/ Head(IndexChan) = Nil /\ UNCHANGED held
    BY <1>3, <2>2 DEF DispatcherTakesRequest, DispatcherTakesNil
  <2>4. /\ OnePlace'
        /\ \A r \in Requester : Queued(r)' \/ Held(r)' => Queued(r) \/ Held(r)
    BY <1>0, <1>1, <2>1, <2>3, ChanGives
  <2>5. \A r : Forwarded(r)' = Forwarded(r) BY <2>1 DEF Forwarded
  <2>6. OnItsWay' BY <1>1, <1>2, <2>1, <2>4, <2>5 DEF OnItsWay
  <2> QED BY <2>4, <2>6
<1>4. CASE DispatcherResendsNil(p)
  <2>1. IndexChan' = Append(IndexChan, Nil) /\ UNCHANGED <<held, indexChans, served>>
    BY <1>4 DEF DispatcherResendsNil, workerVars
  <2> QED BY <1>1, <2>1, NilIsPlaced
<1>5. CASE DispatcherForwards(p)
  <2>1. held[p] \in Requester /\ WorkerFor(p) \in Chars /\ WorkerFor(p) = char[held[p]]
    BY <1>0, <1>5 DEF DispatcherForwards, Hands, WorkerFor, TypeOK
  <2> DEFINE w == WorkerFor(p)
             x == held[p]
  <2>2. /\ indexChans' = [indexChans EXCEPT ![w] = Append(@, x)]
        /\ held' = [held EXCEPT ![p] = Nil] /\ UNCHANGED <<IndexChan, served>>
    BY <1>5 DEF DispatcherForwards, Sent, workerVars
  <2>3. \E q \in 1..MaxPar : /\ x \in Requester /\ held[q] = x
                             /\ held' = [held EXCEPT ![q] = Nil]
    BY <1>0, <2>1, <2>2
  <2> HIDE DEF w, x
  <2>4. w \in Chars /\ x \in Requester \cup {Nil} /\ x \in Requester /\ char[x] = w
    BY <2>1 DEF w, x
  <2>5. /\ OnePlace'
        /\ \A r \in Requester : Held(r)' \/ Forwarded(r)' => Held(r) \/ Forwarded(r)
        /\ \A i \in Chars : \A n \in 1..Len(indexChans'[i]) :
             \/ indexChans'[i][n] = x /\ i = w
             \/ n \in 1..Len(indexChans[i]) /\ indexChans'[i][n] = indexChans[i][n]
    BY <2>2, <2>3, <2>4, WorkerGets
  <2>6. \A r : Queued(r)' = Queued(r) BY <2>2 DEF Queued
  <2>7. \A r \in Requester :
          Queued(r)' \/ Held(r)' \/ Forwarded(r)' \/ Served(r)' => st'[r] = "asked"
    BY <1>1, <1>2, <2>5, <2>6 DEF OnItsWay
  <2>8. \A i \in Chars : \A n \in 1..Len(indexChans'[i]) :
          indexChans'[i][n] \in Requester => char'[indexChans'[i][n]] = i
    BY <1>1, <2>4, <2>5 DEF OnItsWay
  <2>9. OnItsWay' BY <1>1, <2>7, <2>8 DEF OnItsWay
  <2> QED BY <2>5, <2>9
<1> QED BY <1>3, <1>4, <1>5 DEF DispatcherStep

LEMMA PlacesStay == IndexInv /\ Next => OnePlace' /\ OnItsWay'
<1> SUFFICES ASSUME TypeOK, OnePlace, OnItsWay, Hands, Next PROVE OnePlace' /\ OnItsWay'
  BY DEF IndexInv
<1>1. ASSUME NEW r \in Requester, RequesterStep(r) PROVE OnePlace' /\ OnItsWay'
  <2>1. CASE \E ch \in Chars : IndexQuery(r, ch) BY <2>1, QueryIsPlaced
  <2>2. CASE QueryPanics(r)
    <3>1. UNCHANGED <<IndexChan, held, indexChans, served, char, st>>
      BY <2>2 DEF QueryPanics, requestVars, dispatchVars, workerVars
    <3> QED BY <3>1, PlacesSame
  <2>3. CASE TakeAnswer(r)
    <3>1. /\ UNCHANGED <<IndexChan, held, indexChans, served, char>>
          /\ \A q \in Requester : st[q] = "asked" => st'[q] = "asked"
      BY <2>3 DEF TakeAnswer, dispatchVars, workerVars, TypeOK
    <3> QED BY <3>1, PlacesSame
  <2> QED BY <1>1, <2>1, <2>2, <2>3 DEF RequesterStep
<1>2. CASE WriterSendsNil
  <2>1. /\ IndexChan' = Append(IndexChan, Nil)
        /\ UNCHANGED <<held, indexChans, served, st, char>>
    BY <1>2 DEF WriterSendsNil, requestVars, dispatchVars, workerVars
  <2> QED BY <2>1, NilIsPlaced
<1>3. CASE \E p \in Dispatcher : DispatcherStep(p) BY <1>3, DispatcherHasPlaces
<1>4. CASE DispatchersGone
  <2>1. UNCHANGED <<IndexChan, held, indexChans, served, char, st>>
    BY <1>4 DEF DispatchersGone, requestVars, workerVars
  <2> QED BY <2>1, PlacesSame
<1>5. CASE StopNextWorker BY <1>5, NilToWorker
<1>6. ASSUME NEW i \in Chars, WorkerStep(i) PROVE OnePlace' /\ OnItsWay'
  BY <1>6, WorkerGives, WorkerAnswersOne DEF WorkerStep
<1> QED BY <1>1, <1>2, <1>3, <1>4, <1>5, <1>6 DEF Next, IndexStep
-----------------------------------------------------------------------------
(* The invariant, and what follows from it.                                 *)
LEMMA IndexInit == Init => IndexInv
<1> SUFFICES ASSUME Init PROVE IndexInv OBVIOUS
<1>1. TypeOK
  <2>1. 1 \in Chars /\ 0 \in 0..(NumCacheDBs + 1) BY DEF Chars
  <2>2. IndexChan \in Seq(Requester \cup {Nil}) /\ Len(IndexChan) <= indexCap
    BY DEF Init
  <2>3. char \in [Requester -> Chars] BY <2>1 DEF Init
  <2>4. /\ indexChans \in [Chars -> Seq(Requester \cup {Nil})]
        /\ \A i \in Chars : Len(indexChans[i]) <= WorkerCap
    BY DEF Init
  <2> QED BY <2>1, <2>2, <2>3, <2>4 DEF Init, TypeOK, States
<1>2. IndexChan = <<>> /\ Len(IndexChan) = 0 BY DEF Init
<1>3. \A i \in Chars : indexChans[i] = <<>> /\ Len(indexChans[i]) = 0 BY DEF Init
<1>4. \A r \in Requester : ~Queued(r) /\ ~Held(r) /\ ~Forwarded(r) /\ ~Served(r)
  BY <1>2, <1>3 DEF Init, Queued, Held, Forwarded, Served
<1>5. OnePlace BY <1>2, <1>3, <1>4 DEF OnePlace, Init
<1>6. OnItsWay BY <1>3, <1>4 DEF OnItsWay, Init
<1>7. Hands /\ NilOnce
  <2>1. (\A n : ~NilIn(n)) /\ \A p : ~Resends(p) BY <1>2 DEF Init, NilIn, Resends
  <2> QED BY <2>1 DEF Hands, NilOnce, Init
<1>8. Nils BY <1>3 DEF Nils, Init
<1> QED BY <1>1, <1>5, <1>6, <1>7, <1>8 DEF IndexInv

LEMMA IndexStutters == IndexInv /\ UNCHANGED vars => IndexInv'
<1> SUFFICES ASSUME IndexInv, UNCHANGED vars PROVE IndexInv' OBVIOUS
<1> USE DEF vars, requestVars, dispatchVars, workerVars
<1>1. TypeOK' BY DEF IndexInv, TypeOK
<1>2. OnePlace' /\ OnItsWay' BY PlacesSame DEF IndexInv
<1>3. Hands' BY DEF IndexInv, Hands
<1>4. Nils' BY DEF IndexInv, Nils, AllGone, Dispatcher
<1>5. NilOnce' BY DEF IndexInv, NilOnce, NilIn, Resends
<1> QED BY <1>1, <1>2, <1>3, <1>4, <1>5 DEF IndexInv

\* the inductive invariant of the channels
THEOREM IndexInvariant == Spec => []IndexInv
<1>1. IndexInv /\ [Next]_vars => IndexInv'
  BY StaysTyped, PlacesStay, HandsStay, NilsStay, NilOnceStays, IndexStutters DEF IndexInv
<1> QED BY IndexInit, <1>1, PTL DEF Spec

\* The channels keep their types and their capacities.
THEOREM IndexTyped == Spec => []TypeOK
<1>1. IndexInv => TypeOK BY DEF IndexInv
<1> QED BY <1>1, IndexInvariant, PTL

\* A worker that has stopped has nothing in its channel, and no dispatcher holds a
\* request for it: the nil overtakes nothing, for any number of dispatchers and
\* any capacity of the channels.
THEOREM NilIsLast == Spec => []StoppedWorkerDrained
<1>1. IndexInv => StoppedWorkerDrained
  <2> SUFFICES ASSUME IndexInv, NEW i \in Chars, worker[i] = "stopped"
               PROVE  indexChans[i] = <<>> /\ \A p \in Dispatcher : held[p] = Nil
    BY DEF StoppedWorkerDrained
  <2>1. indexChans[i] = <<>> /\ nextNil > i BY DEF IndexInv, Nils
  <2>2. nextNil > 0 BY <2>1 DEF IndexInv, TypeOK, Chars
  <2>3. \A p \in Dispatcher : p \in 1..MaxPar /\ disp[p] = "stopped"
    BY <2>2 DEF IndexInv, Nils, AllGone, TypeOK, Dispatcher
  <2>4. \A p \in Dispatcher : held[p] \notin Requester BY <2>3 DEF IndexInv, Hands
  <2> QED BY <2>1, <2>3, <2>4 DEF IndexInv, TypeOK
<1> QED BY <1>1, IndexInvariant, PTL

\* A channel that has a place for every goroutine that asks and one more always has
\* room for the nil that a dispatcher puts back: what is in it are requests, of
\* different goroutines, and not another nil.
THEOREM NilFindsRoom == Spec => []NilHasRoom
<1>1. IndexInv => NilHasRoom
  <2> SUFFICES ASSUME IndexInv, Cardinality(Requester) < indexCap,
                      NEW p \in Dispatcher, disp[p] = "resend"
               PROVE  Len(IndexChan) < indexCap
    BY DEF NilHasRoom
  <2>1. /\ IndexChan \in Seq(Requester \cup {Nil}) /\ Resends(p)
    BY DEF IndexInv, TypeOK, Dispatcher, Resends
  <2> DEFINE n == Len(IndexChan)
  <2>2. n \in Nat /\ IndexChan = [k \in 1..n |-> IndexChan[k]] BY <2>1
  <2>3. \A k \in 1..n : IndexChan[k] \in Requester
    BY <2>1 DEF IndexInv, NilOnce, NilIn
  <2>4. \A k, m \in 1..n : IndexChan[k] = IndexChan[m] => k = m
    BY <2>3 DEF IndexInv, OnePlace
  <2>5. IndexChan \in Injection(1..n, Requester) BY <2>2, <2>3, <2>4 DEF Injection, IsInjective
  <2>6. IsFiniteSet(Requester) BY DEF ChannelAssumption
  <2>7. Cardinality(1..n) <= Cardinality(Requester)
    BY <2>5, <2>6, FS_Injection
  <2>8. Cardinality(1..n) = n
    <3>1. n \in Nat BY <2>2
    <3> HIDE DEF n
    <3>2. Cardinality(1..n) = IF 1 > n THEN 0 ELSE n - 1 + 1 BY <3>1, FS_Interval
    <3> QED BY <3>1, <3>2
  <2>9. Cardinality(Requester) \in Nat BY <2>6, FS_CardinalityType
  <2>10. indexCap \in Nat BY DEF IndexInv, TypeOK, ChannelAssumption
  <2> QED BY <2>2, <2>7, <2>8, <2>9, <2>10
<1> QED BY <1>1, IndexInvariant, PTL
-----------------------------------------------------------------------------
(* What the channels promise to IndexQuery.                                 *)
LEMMA StageOf ==
  \A r \in Requester :
    /\ Stage[r] = IF st[r] # "asked" THEN st[r] ELSE IF Served(r) THEN "served" ELSE "queued"
    /\ Stage'[r] = IF st'[r] # "asked" THEN st'[r] ELSE IF Served(r)' THEN "served" ELSE "queued"
<1>1. \A r \in Requester : (Being(r) # {} <=> Served(r)) /\ (Being(r)' # {} <=> Served(r)')
  BY DEF Being, Served
<1> QED BY <1>1 DEF Stage

LEMMA StageIsFunction ==
  /\ Stage = [r \in Requester |-> Stage[r]]
  /\ Stage' = [r \in Requester |-> Stage'[r]]
BY DEF Stage

\* The stage of all but one requester, or of all, stays.
LEMMA StageChanges ==
  ASSUME NEW r \in Requester, NEW v, Stage'[r] = v,
         \A q \in Requester : q # r => Stage'[q] = Stage[q]
  PROVE  Stage' = [Stage EXCEPT ![r] = v]
BY StageIsFunction

LEMMA StageStays ==
  ASSUME \A q \in Requester : Stage'[q] = Stage[q]
  PROVE  Stage' = Stage
BY StageIsFunction

LEMMA StageSame ==
  ASSUME TypeOK, UNCHANGED <<st, char, served>>
  PROVE  UNCHANGED <<Stage, char>>
<1>1. \A r \in Requester : Served(r)' = Served(r) BY DEF Served
<1>2. \A q \in Requester : Stage'[q] = Stage[q] BY <1>1, StageOf
<1> QED BY <1>2, StageStays

LEMMA ServiceStep == IndexInv /\ [Next]_vars => [Service!Next]_<<Stage, char>>
<1> SUFFICES ASSUME IndexInv, [Next]_vars PROVE Service!Next \/ UNCHANGED <<Stage, char>>
  OBVIOUS
<1> USE DEF IndexInv
<1>1. ASSUME NEW r \in Requester, NEW ch \in Chars, IndexQuery(r, ch) PROVE Service!Next
  <2>1. /\ st[r] = "none" /\ st'[r] = "asked" /\ char' = [char EXCEPT ![r] = ch]
        /\ \A q \in Requester : q # r => st'[q] = st[q]
        /\ UNCHANGED served
    BY <1>1 DEF IndexQuery, workerVars, TypeOK
  <2>2. \A q \in Requester : Served(q)' = Served(q) BY <2>1 DEF Served
  <2>3. ~Served(r) BY <2>1 DEF OnItsWay
  <2>4. Stage[r] = "none" /\ Stage'[r] = "queued" BY <2>1, <2>2, <2>3, StageOf
  <2>5. \A q \in Requester : q # r => Stage'[q] = Stage[q] BY <2>1, <2>2, StageOf
  <2>6. Stage' = [Stage EXCEPT ![r] = "queued"] BY <2>4, <2>5, StageChanges
  <2>7. Service!Ask(r, ch) BY <2>1, <2>4, <2>6 DEF Service!Ask
  <2> QED BY <2>7 DEF Service!Next
<1>2. ASSUME NEW r \in Requester, TakeAnswer(r) PROVE Service!Next
  <2>1. /\ st[r] = "done" /\ st'[r] = "none" /\ UNCHANGED <<char, served>>
        /\ \A q \in Requester : q # r => st'[q] = st[q]
    BY <1>2 DEF TakeAnswer, workerVars, TypeOK
  <2>2. \A q \in Requester : Served(q)' = Served(q) BY <2>1 DEF Served
  <2>3. Stage[r] = "done" /\ Stage'[r] = "none" BY <2>1, <2>2, StageOf
  <2>4. \A q \in Requester : q # r => Stage'[q] = Stage[q] BY <2>1, <2>2, StageOf
  <2>5. Stage' = [Stage EXCEPT ![r] = "none"] BY <2>3, <2>4, StageChanges
  <2>6. Service!Take(r) BY <2>1, <2>3, <2>5 DEF Service!Take
  <2> QED BY <2>6 DEF Service!Next
<1>3. ASSUME NEW i \in Chars, WorkerReceives(i)
      PROVE  Service!Next \/ UNCHANGED <<Stage, char>>
  <2> DEFINE x == Head(indexChans[i])
  <2>1. /\ UNCHANGED <<st, char>> /\ worker[i] = "recv" /\ served'[i] = x
        /\ \A j \in Chars : j # i => served'[j] = served[j]
        /\ served[i] \notin Requester
    BY <1>3 DEF WorkerReceives, requestVars, TypeOK, Hands
  <2>2. x \in Requester => char[x] = i /\ ~Served(x) /\ st[x] = "asked"
    BY <1>3, WorkerGives
  <2> HIDE DEF x
  <2>3. \A q \in Requester : Served(q)' <=> Served(q) \/ q = x BY <2>1 DEF Served
  <2>4. CASE x \in Requester
    <3>1. Stage[x] = "queued" /\ Stage'[x] = "served" BY <2>1, <2>2, <2>3, <2>4, StageOf
    <3>2. \A q \in Requester : q # x => Stage'[q] = Stage[q] BY <2>1, <2>3, StageOf
    <3>3. Stage' = [Stage EXCEPT ![x] = "served"] BY <2>4, <3>1, <3>2, StageChanges
    <3>4. \A q \in Requester : Stage[q] = "served" => char[q] # char[x]
      <4> SUFFICES ASSUME NEW q \in Requester, Stage[q] = "served" PROVE char[q] # i
        BY <2>2, <2>4
      <4>1. Served(q) BY StageOf DEF TypeOK, States
      <4>2. PICK j \in Chars : served[j] = q BY <4>1 DEF Served
      <4>3. j # i /\ char[q] = j BY <2>1, <4>2 DEF OnItsWay
      <4> QED BY <4>3
    <3>5. Service!Serve(x) BY <2>1, <3>1, <3>3, <3>4 DEF Service!Serve
    <3> QED BY <2>4, <3>5 DEF Service!Next
  <2>5. CASE x \notin Requester
    <3>1. \A q \in Requester : Stage'[q] = Stage[q] BY <2>1, <2>3, <2>5, StageOf
    <3> QED BY <2>1, <3>1, StageStays
  <2> QED BY <2>4, <2>5
<1>4. ASSUME NEW i \in Chars, WorkerAnswers(i) PROVE Service!Next
  <2> DEFINE x == served[i]
  <2>1. /\ x \in Requester /\ st[x] = "asked" /\ Served(x)
        /\ \A q \in Requester : Served(q)' <=> Served(q) /\ q # x
    BY <1>4, WorkerAnswersOne DEF Served
  <2>2. /\ st'[x] = "done" /\ UNCHANGED char
        /\ \A q \in Requester : q # x => st'[q] = st[q]
    BY <1>4, <2>1 DEF WorkerAnswers, TypeOK
  <2> HIDE DEF x
  <2>3. Stage[x] = "served" /\ Stage'[x] = "done" BY <2>1, <2>2, StageOf
  <2>4. \A q \in Requester : q # x => Stage'[q] = Stage[q] BY <2>1, <2>2, StageOf
  <2>5. Stage' = [Stage EXCEPT ![x] = "done"] BY <2>1, <2>3, <2>4, StageChanges
  <2>6. Service!Answer(x) BY <2>2, <2>3, <2>5 DEF Service!Answer
  <2> QED BY <2>1, <2>6 DEF Service!Next
<1>5. CASE UNCHANGED <<st, char, served>> BY <1>5, StageSame
<1> QED BY <1>1, <1>2, <1>3, <1>4, <1>5
  DEF Next, vars, RequesterStep, QueryPanics, WriterSendsNil, DispatcherStep,
      DispatcherTakesRequest, DispatcherTakesNil, DispatcherResendsNil, DispatcherForwards,
      Receives, IndexStep, DispatchersGone, StopNextWorker, WorkerStep, requestVars,
      dispatchVars, workerVars

LEMMA ServiceInit == Init => Service!Init
<1> SUFFICES ASSUME Init PROVE Service!Init OBVIOUS
<1>1. 1 \in Chars BY DEF Chars
<1>2. char \in [Requester -> Chars] BY <1>1 DEF Init
<1>3. \A r \in Requester : Stage[r] = "none" BY StageOf DEF Init
<1>4. Stage = [r \in Requester |-> "none"] BY <1>3, StageIsFunction
<1> QED BY <1>2, <1>4 DEF Service!Init

\* IndexChan, the dispatchers and the workers' channels implement IndexService:
\* a request is served once, by its worker, and requests for one worker are never
\* served together, for every number of dispatchers, workers and requesters.
THEOREM ChannelsImplementService == Spec => ImplementsService
<1>1. IndexInv /\ [Next]_vars => [Service!Next]_(Service!serviceVars)
  BY ServiceStep DEF Service!serviceVars
<1> QED BY ServiceInit, <1>1, IndexInvariant, PTL
  DEF Spec, ImplementsService, Service!Spec
=============================================================================
