-------------------------- MODULE HistoryServerProofs --------------------------
(***************************************************************************)
(* Objects sent to a remote history, for every set of objects, capacity    *)
(* of TCPchan, network and number of lost connections.  The inductive      *)
(* invariant ServerInv says whose turn it is on the last connection        *)
(* (Turns), which sendings are still to come (Waiting, Numbers), what the  *)
(* sessions have in hand (Counted) and what was forgotten (LostCounted).   *)
(***************************************************************************)
EXTENDS HistoryServer, FiniteSetTheorems, SequenceTheorems, TLAPS

Right(o) == IF o \in Malformed THEN Refused ELSE CaseAdded

\* A connection the client has left is not up, one to come is untouched.
OneUp ==
  /\ \A k \in Conn : up[k] => k = conn /\ rpc \notin {"dial", "over"}
  /\ \A k \in Conn : k > conn => spc[k] = "none" /\ toServer[k] = <<>> /\ toClient[k] = <<>>
  /\ rpc \notin {"dial", "over"} => conn \in Conn

\* A reply under way is the one the client waits for.
Turns ==
  /\ rpc = "banner" =>
       /\ toServer[conn] = <<>>
       /\ toClient[conn] = <<>> \/ (toClient[conn] = <<Banner>> /\ spc[conn] # "greet")
  /\ rpc = "recv" =>
       spc[conn] # "greet" /\ toClient[conn] = <<>> /\ (up[conn] => toServer[conn] = <<>>)
  /\ rpc = "await" =>
       /\ spc[conn] # "greet"
       /\ \/ up[conn] /\ toServer[conn] = <<Sending(robj)>> /\ toClient[conn] = <<>>
          \/ ~up[conn] /\ toClient[conn] = <<>>
          \/ /\ toServer[conn] = <<>> /\ toClient[conn] = <<Right(robj)>>
             /\ Sending(robj) \in received

Waits(o) == put[o] > 0 /\ answer[o] = NoAnswer

\* What is in TCPchan is there once, and its caller waits.
Waiting ==
  /\ robj \in Object <=> rpc = "await"
  /\ robj \in Object => Waits(robj)
  /\ \A i \in 1..Len(TCPchan) :
       TCPchan[i] \in Object => Waits(TCPchan[i]) /\ robj # TCPchan[i]
  /\ \A i, j \in 1..Len(TCPchan) : TCPchan[i] \in Object /\ TCPchan[i] = TCPchan[j] => i = j

\* A sending is in TCPchan, or in one connection, or read by a session, or lost.
Numbers ==
  /\ \A x \in received : x[2] \in 1..put[x[1]]
  /\ \A k \in Conn, x \in Object \X Nat :
       toServer[k] = <<x>> => x[2] \in 1..put[x[1]] /\ x \notin received
  /\ \A j, k \in Conn : toServer[j] # <<>> /\ toServer[j] = toServer[k] => j = k
  /\ \A i \in 1..Len(TCPchan) :
       TCPchan[i] \in Object => /\ Sending(TCPchan[i]) \notin received
                                /\ \A k \in Conn : toServer[k] # <<Sending(TCPchan[i])>>

Busy(o) == {k \in Conn : spc[k] \in {"search", "add"} /\ sobj[k] = o}
ReadOnes(o) == {n \in 1..put[o] : <<o, n>> \in received}

\* Each time a session has an object in hand, or has handed it on, is a sending it read.
Counted ==
  /\ \A k \in Conn : spc[k] \in {"search", "add"} => sobj[k] \in Object
  /\ \A o \in Object : handed[o] + Cardinality(Busy(o)) <= Cardinality(ReadOnes(o))

LostOnes == {o \in Object : Lost(o)}
Left == {k \in 1..conn : ~up[k] /\ (k < conn \/ rpc \in {"dial", "over"})}

\* A connection of which a line was forgotten is not used again.
LostCounted == IsFiniteSet(LostOnes) /\ Cardinality(LostOnes) <= Cardinality(Left)

ServerInv ==
  TypeOK /\ OneUp /\ Turns /\ Waiting /\ Numbers /\ Counted /\ LostCounted /\ AnswerIsOwn

USE ServerAssumption DEF clientVars, netVars, sessionVars
-----------------------------------------------------------------------------
(* Sequences and the channels they stand for.                               *)
LEMMA Short ==
  ASSUME NEW S, NEW s \in AtMostOne(S), s # <<>>
  PROVE  s = <<Head(s)>> /\ Tail(s) = <<>> /\ Head(s) \in S
<1>0. s \in Seq(S) /\ Len(s) <= 1 BY DEF AtMostOne
<1>1. Len(s) = 1
  <2>1. Len(s) \in Nat \ {0} BY <1>0, EmptySeq
  <2>2. Len(s) <= 1 BY <1>0
  <2>3. \A n \in Nat \ {0} : n <= 1 => n = 1 OBVIOUS
  <2> QED BY <2>1, <2>2, <2>3
<1>2. s[1] \in S /\ Head(s) = s[1] BY <1>0, <1>1
<1>3. <<s[1]>> \in Seq(S) /\ Len(<<s[1]>>) = 1 /\ <<s[1]>>[1] = s[1] BY <1>2
<1>4. s = <<s[1]>> BY <1>0, <1>1, <1>3, SeqEqual
<1>5. Tail(s) \in Seq(S) /\ Len(Tail(s)) = 0 BY <1>0, <1>1, HeadTailProperties
<1>6. Tail(s) = <<>> BY <1>5, EmptySeq
<1> QED BY <1>2, <1>4, <1>6


LEMMA NoneOrOne ==
  ASSUME NEW S
  PROVE  <<>> \in AtMostOne(S) /\ \A x \in S : <<x>> \in AtMostOne(S)
BY DEF AtMostOne

\* TCPchan when its first element is taken
LEMMA Taken ==
  ASSUME TypeOK, TCPchan # <<>>, TCPchan' = Tail(TCPchan)
  PROVE  /\ Head(TCPchan) \in Object \cup {NilObject} /\ Head(TCPchan) = TCPchan[1]
         /\ 1 \in 1..Len(TCPchan)
         /\ TCPchan' \in Seq(Object \cup {NilObject}) /\ Len(TCPchan') <= TCPchanQ
         /\ \A i \in 1..Len(TCPchan') : /\ i + 1 \in 1..Len(TCPchan)
                                        /\ TCPchan'[i] = TCPchan[i + 1]
         /\ \A i \in 1..Len(TCPchan) : i # 1 => /\ i - 1 \in 1..Len(TCPchan')
                                                /\ TCPchan'[i - 1] = TCPchan[i]
<1>1. TCPchan \in Seq(Object \cup {NilObject}) /\ Len(TCPchan) <= TCPchanQ
  BY DEF TypeOK, ClientTyped
<1> QED BY <1>1

\* ... and when one is put behind the others
LEMMA PutBehind ==
  ASSUME TypeOK, NEW x \in Object \cup {NilObject}, TCPchan' = Append(TCPchan, x),
         Len(TCPchan) < TCPchanQ
  PROVE  /\ TCPchan' \in Seq(Object \cup {NilObject}) /\ Len(TCPchan') <= TCPchanQ
         /\ Len(TCPchan') = Len(TCPchan) + 1 /\ TCPchan'[Len(TCPchan')] = x
         /\ \A i \in 1..Len(TCPchan) : i \in 1..Len(TCPchan') /\ TCPchan'[i] = TCPchan[i]
         /\ \A i \in 1..Len(TCPchan') : i = Len(TCPchan') \/ i \in 1..Len(TCPchan)
<1>1. TCPchan \in Seq(Object \cup {NilObject}) BY DEF TypeOK, ClientTyped
<1> QED BY <1>1
-----------------------------------------------------------------------------
(* What the steps do to the connections.                                    *)

\* The session only speaks into a live connection when nothing is under way to
\* the client.
LEMMA SilentBefore ==
  ASSUME TypeOK, OneUp, Turns, NEW k \in Conn, up[k],
         spc[k] = "greet" \/ toServer[k] # <<>>
  PROVE  /\ k = conn /\ toClient[k] = <<>>
         /\ spc[k] = "greet" => rpc = "banner"
         /\ toServer[k] # <<>> => rpc = "await" /\ toServer[k] = <<Sending(robj)>>
<1>1. k = conn /\ rpc \in {"banner", "recv", "await"} BY DEF TypeOK, ClientTyped, OneUp
<1>2. <<Banner>> # <<>> OBVIOUS
<1> QED BY <1>1, <1>2 DEF Turns

\* A session that takes its line: no other is behind it, and one word goes back.
LEMMA SessionTakes ==
  ASSUME TypeOK, OneUp, Turns, NEW k \in Conn, toServer[k] # <<>>, NEW x \in Code,
         toServer' = [toServer EXCEPT ![k] = Tail(@)], Said(k, <<x>>)
  PROVE  /\ toServer' = [toServer EXCEPT ![k] = <<>>]
         /\ toServer[k] = <<Head(toServer[k])>> /\ Head(toServer[k]) \in Object \X Nat
         /\ toClient' = [toClient EXCEPT ![k] = IF up[k] THEN <<x>> ELSE @]
<1>1. toServer[k] \in AtMostOne(Object \X Nat) BY DEF TypeOK, NetTyped
<1>2. /\ Tail(toServer[k]) = <<>> /\ toServer[k] = <<Head(toServer[k])>>
      /\ Head(toServer[k]) \in Object \X Nat
  BY <1>1, Short
<1>3. up[k] => toClient[k] = <<>> BY SilentBefore
<1>4. <<>> \o <<x>> = <<x>> OBVIOUS
<1> QED BY <1>2, <1>3, <1>4 DEF Said

LEMMA GreetSays ==
  ASSUME TypeOK, OneUp, Turns, NEW k \in Conn, Greet(k)
  PROVE  toClient' = [toClient EXCEPT ![k] = IF up[k] THEN <<Banner>> ELSE @]
<1>1. up[k] => toClient[k] = <<>> BY SilentBefore DEF Greet
<1>2. <<>> \o <<Banner>> = <<Banner>> OBVIOUS
<1> QED BY <1>1, <1>2 DEF Greet, Said

LEMMA SearchEndsSilently ==
  ASSUME TypeOK, NEW k \in Conn, SearchEnds(k)
  PROVE  UNCHANGED toClient
<1>1. toClient[k] \in Seq(Code \cup {Banner}) BY DEF TypeOK, NetTyped, AtMostOne
<1>2. toClient[k] \o <<>> = toClient[k] BY <1>1
<1>3. toClient' = [toClient EXCEPT ![k] = IF up[k] THEN @ \o <<>> ELSE @]
  BY DEF SearchEnds, Said, SearchReply
<1> QED BY <1>2, <1>3 DEF TypeOK, NetTyped

\* Where the client receives: the connection has a line for it.
LEMMA ClientReceives ==
  ASSUME TypeOK, OneUp, Turns, rpc \in {"banner", "await"}, toClient[conn] # <<>>
  PROVE  /\ conn \in Conn /\ Tail(toClient[conn]) = <<>>
         /\ rpc = "await" => /\ toClient[conn] = <<Right(robj)>> /\ toServer[conn] = <<>>
                             /\ Sending(robj) \in received
         /\ rpc = "banner" => spc[conn] # "greet" /\ toServer[conn] = <<>>
<1>1. conn \in Conn BY DEF OneUp
<1>2. toClient[conn] \in AtMostOne(Code \cup {Banner})
  BY <1>1 DEF TypeOK, NetTyped
<1>3. Tail(toClient[conn]) = <<>> BY <1>2, Short
<1> QED BY <1>1, <1>3 DEF Turns

\* Where the client sends: nothing is under way to the server when it is up.
LEMMA ClientSends ==
  ASSUME TypeOK, OneUp, Turns, SendAdd
  PROVE  /\ Head(TCPchan) \in Object /\ conn \in Conn
         /\ toServer' = [toServer EXCEPT ![conn] =
                           IF up[conn] THEN <<Sending(Head(TCPchan))>> ELSE @]
         /\ Sending(Head(TCPchan)) \in Object \X Nat
<1>1. Head(TCPchan) \in Object BY Taken DEF SendAdd
<1>2. conn \in Conn BY DEF OneUp, SendAdd
<1>3. up[conn] => toServer[conn] = <<>> BY DEF Turns, SendAdd
<1>4. Append(<<>>, Sending(Head(TCPchan))) = <<Sending(Head(TCPchan))>> OBVIOUS
<1>5. Sending(Head(TCPchan)) \in Object \X Nat BY <1>1 DEF Sending, TypeOK, ClientTyped
<1> QED BY <1>1, <1>2, <1>3, <1>4, <1>5 DEF SendAdd
-----------------------------------------------------------------------------
\* The types, and never two lines under way in one direction.
LEMMA ClientStepTyped ==
  ASSUME TypeOK, OneUp, Turns, Waiting, ClientStep
  PROVE  TypeOK'
<1> USE DEF Dial, DialFails, ReadBanner, BannerFails, TakeNil, SendAdd, SendFails, GetReply,
            ReplyFails, Failed, AfterSendError, AfterReplyError
<1>1. NetTyped'
  <2>1. CASE SendAdd
    <3>1. /\ toServer' = [toServer EXCEPT ![conn] =
                            IF up[conn] THEN <<Sending(Head(TCPchan))>> ELSE @]
          /\ Sending(Head(TCPchan)) \in Object \X Nat
      BY <2>1, ClientSends
    <3>2. <<Sending(Head(TCPchan))>> \in AtMostOne(Object \X Nat) BY <3>1, NoneOrOne
    <3>3. toServer' \in [Conn -> AtMostOne(Object \X Nat)]
      BY <3>1, <3>2 DEF TypeOK, NetTyped
    <3> QED BY <2>1, <3>3 DEF TypeOK, NetTyped
  <2>2. CASE ReadBanner \/ GetReply
    <3>1. toClient' = [toClient EXCEPT ![conn] = <<>>] BY <2>2, ClientReceives
    <3> QED BY <2>2, <3>1, NoneOrOne DEF TypeOK, NetTyped
  <2>3. CASE UNCHANGED <<toServer, toClient>> BY <2>3 DEF TypeOK, NetTyped
  <2> QED BY <2>1, <2>2, <2>3 DEF ClientStep
<1>3. SessionTyped'
  <2>1. FirstStep \in {"greet", "read"} BY DEF FirstStep
  <2> QED BY <2>1 DEF ClientStep, TypeOK, SessionTyped
<1>4. ClientTyped'
  <2>1. CASE Dial
    <3>1. conn' \in 0..MaxFault + 1 BY <2>1 DEF Conn
    <3> QED BY <2>1, <3>1 DEF TypeOK, ClientTyped
  <2>2. CASE TakeNil \/ SendAdd \/ SendFails BY <2>2, Taken DEF TypeOK, ClientTyped
  <2>3. CASE GetReply
    <3>1. Head(toClient[conn]) \in Code BY <2>3, ClientReceives DEF Right, Code
    <3> QED BY <2>3, <3>1 DEF TypeOK, ClientTyped
  <2>4. CASE ReplyFails BY <2>4 DEF TypeOK, ClientTyped, Code
  <2>5. CASE DialFails \/ ReadBanner \/ BannerFails BY <2>5 DEF TypeOK, ClientTyped
  <2> QED BY <2>1, <2>2, <2>3, <2>4, <2>5 DEF ClientStep
<1> QED BY <1>1, <1>3, <1>4 DEF TypeOK

LEMMA SessionStepTyped ==
  ASSUME TypeOK, OneUp, Turns, NEW k \in Conn, SessionStep(k)
  PROVE  TypeOK'
<1> USE DEF Greet, Refuse, Accept, ReadFails, SearchEnds, SearchPasses, Add, AddTooEarly
<1>1. CASE Refuse(k) \/ Accept(k)
  <2>1. PICK x \in Code : toServer[k] # <<>> /\ Said(k, <<x>>)
    BY <1>1 DEF RefusedReply, Code
  <2>2. toServer' = [toServer EXCEPT ![k] = Tail(@)] BY <1>1
  <2>3. /\ toServer' = [toServer EXCEPT ![k] = <<>>]
        /\ Head(toServer[k]) \in Object \X Nat
        /\ toClient' = [toClient EXCEPT ![k] = IF up[k] THEN <<x>> ELSE @]
    BY <2>1, <2>2, SessionTakes
  <2>5. NetTyped' BY <2>3, NoneOrOne DEF TypeOK, NetTyped
  <2>6. SessionTyped' BY <1>1, <2>3 DEF TypeOK, SessionTyped
  <2>7. ClientTyped' BY <1>1 DEF TypeOK, ClientTyped
  <2> QED BY <2>5, <2>6, <2>7 DEF TypeOK
<1>2. CASE Greet(k)
  <2>1. NetTyped'
    <3>1. <<Banner>> \in AtMostOne(Code \cup {Banner}) BY NoneOrOne
    <3>2. toClient' = [toClient EXCEPT ![k] = IF up[k] THEN <<Banner>> ELSE @]
      BY <1>2, GreetSays
    <3> QED BY <1>2, <3>1, <3>2 DEF TypeOK, NetTyped
  <2>2. SessionTyped' /\ ClientTyped' BY <1>2 DEF TypeOK, SessionTyped, ClientTyped
  <2> QED BY <2>1, <2>2 DEF TypeOK
<1>3. CASE ReadFails(k) \/ SearchEnds(k) \/ SearchPasses(k) \/ Add(k) \/ AddTooEarly(k)
  <2>1. UNCHANGED <<toServer, toClient>> BY <1>3, SearchEndsSilently
  <2>2. NetTyped' BY <2>1 DEF TypeOK, NetTyped
  <2>3. ClientTyped' BY <1>3 DEF TypeOK, ClientTyped
  <2>4. SessionTyped' BY <1>3 DEF TypeOK, SessionTyped
  <2> QED BY <2>2, <2>3, <2>4 DEF TypeOK
<1> QED BY <1>1, <1>2, <1>3 DEF SessionStep

LEMMA OtherStepTyped ==
  ASSUME TypeOK, (\E o \in Object : Put(o)) \/ BootEnds \/ Fault
  PROVE  TypeOK'
<1> USE DEF Put, PutNil, BootEnds, ServerCrash, NotAllowed, SearchFails, LoseConnection
<1>1. NetTyped'
  <2>0. /\ <<>> \in AtMostOne(Object \X Nat)
        /\ <<>> \in AtMostOne(Code \cup {Banner})
    BY NoneOrOne
  <2>1. CASE ServerCrash BY <2>0, <2>1 DEF TypeOK, NetTyped
  <2>2. ASSUME NEW k \in Conn, LoseConnection(k) PROVE NetTyped'
    <3> PICK t \in {toServer[k], <<>>}, c \in {toClient[k], <<>>} :
               /\ toServer' = [toServer EXCEPT ![k] = t]
               /\ toClient' = [toClient EXCEPT ![k] = c]
      BY <2>2
    <3>1. /\ toServer[k] \in AtMostOne(Object \X Nat)
          /\ toClient[k] \in AtMostOne(Code \cup {Banner})
      BY DEF TypeOK, NetTyped
    <3>2. t \in AtMostOne(Object \X Nat) /\ c \in AtMostOne(Code \cup {Banner})
      BY <2>0, <3>1
    <3> QED BY <3>2 DEF TypeOK, NetTyped
  <2>3. CASE UNCHANGED <<toServer, toClient>> BY <2>3 DEF TypeOK, NetTyped
  <2> QED BY <2>1, <2>2, <2>3 DEF Fault
<1>3. SessionTyped'
  <2>1. CASE ServerCrash BY <2>1 DEF TypeOK, SessionTyped
  <2>2. ASSUME NEW k \in Conn, NotAllowed(k) \/ SearchFails(k) PROVE SessionTyped'
    BY <2>2 DEF TypeOK, SessionTyped
  <2>3. ASSUME NEW k \in Conn, LoseConnection(k) PROVE SessionTyped'
    BY <2>3 DEF TypeOK, SessionTyped
  <2>4. CASE PutNil \/ BootEnds \/ \E o \in Object : Put(o)
    BY <2>4 DEF TypeOK, SessionTyped
  <2> QED BY <2>1, <2>2, <2>3, <2>4 DEF Fault
<1>4. ClientTyped'
  <2>1. ASSUME NEW o \in Object, Put(o) PROVE ClientTyped'
    BY <2>1, PutBehind DEF TypeOK, ClientTyped
  <2>2. CASE PutNil BY <2>2, PutBehind DEF TypeOK, ClientTyped
  <2>3. CASE BootEnds BY <2>3 DEF TypeOK, ClientTyped
  <2>4. CASE ServerCrash BY <2>4 DEF TypeOK, ClientTyped
  <2>5. ASSUME NEW k \in Conn, NotAllowed(k) \/ SearchFails(k) \/ LoseConnection(k)
        PROVE  ClientTyped'
    BY <2>5 DEF TypeOK, ClientTyped
  <2> QED BY <2>1, <2>2, <2>3, <2>4, <2>5 DEF Fault
<1> QED BY <1>1, <1>3, <1>4 DEF TypeOK
-----------------------------------------------------------------------------
(* Whose turn it is.                                                        *)

\* The reply of a session is the one to its line; the client hears it only when it
\* waits for it.
LEMMA ReplyIsRight ==
  ASSUME TypeOK, OneUp, Turns, NEW k \in Conn, Refuse(k) \/ Accept(k)
  PROVE  /\ toServer' = [toServer EXCEPT ![k] = <<>>]
         /\ toClient' = [toClient EXCEPT ![k] =
                           IF up[k] THEN <<Right(Head(toServer[k])[1])>> ELSE @]
         /\ received' = received \cup {Head(toServer[k])}
         /\ toServer[k] = <<Head(toServer[k])>> /\ Head(toServer[k]) \in Object \X Nat
         /\ up[k] => k = conn /\ rpc = "await" /\ Head(toServer[k]) = Sending(robj)
<1> DEFINE x == Right(Head(toServer[k])[1])
<1>1. /\ toServer[k] # <<>> /\ Said(k, <<x>>)
      /\ toServer' = [toServer EXCEPT ![k] = Tail(@)]
      /\ received' = received \cup {Head(toServer[k])}
  BY DEF Refuse, Accept, RefusedReply, Right
<1>2. x \in Code BY DEF Right, Code
<1>3. /\ toServer' = [toServer EXCEPT ![k] = <<>>]
      /\ toServer[k] = <<Head(toServer[k])>> /\ Head(toServer[k]) \in Object \X Nat
      /\ toClient' = [toClient EXCEPT ![k] = IF up[k] THEN <<x>> ELSE @]
  BY <1>1, <1>2, SessionTakes
<1>4. up[k] => k = conn /\ rpc = "await" /\ toServer[k] = <<Sending(robj)>>
  BY <1>1, SilentBefore
<1>5. Head(<<Sending(robj)>>) = Sending(robj) OBVIOUS
<1> QED BY <1>1, <1>3, <1>4, <1>5

LEMMA ClientTurns ==
  ASSUME TypeOK, OneUp, Turns, Waiting, ClientStep
  PROVE  OneUp' /\ Turns'
<1>0. /\ rpc \in {"dial", "banner", "recv", "await", "over"} /\ conn \in Nat
      /\ up \in [Conn -> BOOLEAN]
      /\ \A k \in Conn : k \in Nat
  BY DEF TypeOK, ClientTyped, SessionTyped, Conn
<1>1. CASE Dial
  <2>1. /\ conn' = conn + 1 /\ conn' \in Conn /\ rpc' = "banner"
        /\ up' = [up EXCEPT ![conn + 1] = TRUE]
        /\ spc' = [spc EXCEPT ![conn + 1] = FirstStep]
        /\ UNCHANGED <<toServer, toClient>>
    BY <1>1 DEF Dial
  <2>2. \A k \in Conn : ~up[k] BY <1>1 DEF Dial, OneUp
  <2>3. \A k \in Conn : k > conn' => k > conn /\ k # conn + 1 BY <1>0, <2>1
  <2>4. OneUp' BY <1>0, <2>1, <2>2, <2>3 DEF OneUp, TypeOK, SessionTyped
  <2>5. toServer[conn'] = <<>> /\ toClient[conn'] = <<>> BY <1>0, <2>1 DEF OneUp
  <2>6. rpc' = "banner" /\ toServer'[conn'] = <<>> /\ toClient'[conn'] = <<>>
    BY <2>1, <2>5
  <2> QED BY <2>4, <2>6 DEF Turns
<1>2. CASE DialFails \/ BannerFails
  <2>1. /\ rpc' \in {"dial", "over"} /\ rpc \in {"dial", "banner"}
        /\ rpc = "banner" => ~up[conn]
        /\ UNCHANGED <<conn, up, toServer, toClient, spc>>
    BY <1>2 DEF DialFails, BannerFails, Failed
  <2> QED BY <2>1 DEF OneUp, Turns
<1>3. CASE ReadBanner
  <2>1. /\ conn \in Conn /\ toClient' = [toClient EXCEPT ![conn] = <<>>]
        /\ spc[conn] # "greet" /\ toServer[conn] = <<>>
    BY <1>3, ClientReceives DEF ReadBanner
  <2>2. rpc = "banner" /\ rpc' = "recv" /\ UNCHANGED <<conn, up, spc, toServer, robj, received>>
    BY <1>3 DEF ReadBanner
  <2>3. toClient'[conn] = <<>> BY <2>1 DEF TypeOK, NetTyped
  <2>4. \A k \in Conn : k > conn => toClient'[k] = toClient[k]
    BY <1>0, <2>1 DEF TypeOK, NetTyped
  <2> QED BY <2>1, <2>2, <2>3, <2>4 DEF OneUp, Turns
<1>4. CASE TakeNil
  <2>1. /\ rpc = "recv" /\ rpc' = "dial" /\ up' = [up EXCEPT ![conn] = FALSE]
        /\ UNCHANGED <<conn, spc, toServer, toClient>>
    BY <1>4 DEF TakeNil
  <2>2. \A k \in Conn : ~up'[k] BY <1>0, <2>1 DEF OneUp
  <2> QED BY <2>1, <2>2 DEF OneUp, Turns
<1>5. CASE SendAdd
  <2> DEFINE o == Head(TCPchan)
  <2>1. /\ conn \in Conn
        /\ toServer' = [toServer EXCEPT ![conn] = IF up[conn] THEN <<Sending(o)>> ELSE @]
    BY <1>5, ClientSends
  <2>2. /\ rpc = "recv" /\ rpc' = "await" /\ robj' = o
        /\ UNCHANGED <<put, conn, up, spc, toClient, received>>
    BY <1>5 DEF SendAdd
  <2>3. toServer'[conn] = IF up[conn] THEN <<Sending(o)>> ELSE toServer[conn]
    BY <2>1 DEF TypeOK, NetTyped
  <2>4. Sending(robj)' = Sending(o) BY <2>2 DEF Sending
  <2>5. Turns' BY <2>2, <2>3, <2>4 DEF Turns
  <2>6. \A k \in Conn : k > conn => toServer'[k] = toServer[k]
    BY <1>0, <2>1 DEF TypeOK, NetTyped
  <2> QED BY <2>2, <2>5, <2>6 DEF OneUp
<1>6. CASE SendFails
  <2>1. /\ rpc = "recv" /\ rpc' = "dial" /\ ~up[conn]
        /\ UNCHANGED <<conn, up, spc, toServer, toClient>>
    BY <1>6 DEF SendFails, AfterSendError
  <2> QED BY <2>1 DEF OneUp, Turns
<1>7. CASE GetReply
  <2>1. /\ conn \in Conn /\ toClient' = [toClient EXCEPT ![conn] = <<>>]
        /\ toServer[conn] = <<>> /\ spc[conn] # "greet"
    BY <1>7, ClientReceives DEF GetReply, Turns
  <2>2. rpc = "await" /\ rpc' = "recv" /\ UNCHANGED <<conn, up, spc, toServer>>
    BY <1>7 DEF GetReply
  <2>3. toClient'[conn] = <<>> BY <2>1 DEF TypeOK, NetTyped
  <2>4. \A k \in Conn : k > conn => toClient'[k] = toClient[k]
    BY <1>0, <2>1 DEF TypeOK, NetTyped
  <2> QED BY <2>1, <2>2, <2>3, <2>4 DEF OneUp, Turns
<1>8. CASE ReplyFails
  <2>1. /\ rpc = "await" /\ rpc' = "recv" /\ ~up[conn] /\ toClient[conn] = <<>>
        /\ UNCHANGED <<conn, up, spc, toServer, toClient>>
    BY <1>8 DEF ReplyFails, AfterReplyError
  <2> QED BY <2>1 DEF OneUp, Turns
<1> QED BY <1>1, <1>2, <1>3, <1>4, <1>5, <1>6, <1>7, <1>8 DEF ClientStep

LEMMA SessionTurns ==
  ASSUME TypeOK, OneUp, Turns, NEW k \in Conn, SessionStep(k)
  PROVE  OneUp' /\ Turns'
<1>0. /\ rpc \in {"dial", "banner", "recv", "await", "over"} /\ conn \in Nat
      /\ \A j \in Conn : j \in Nat
  BY DEF TypeOK, ClientTyped, Conn
<1>1. /\ k <= conn /\ UNCHANGED <<rpc, conn, up, robj, put>>
      /\ \A j \in Conn : j # k => spc'[j] = spc[j]
      /\ spc'[k] # "greet"
  <2>1. spc[k] # "none" /\ UNCHANGED <<rpc, conn, up, robj, put>>
    BY DEF SessionStep, Greet, Refuse, Accept, ReadFails, SearchEnds, SearchPasses, Add,
           AddTooEarly
  <2>2. /\ \A j \in Conn : j # k => spc'[j] = spc[j]
        /\ spc'[k] # "greet"
    BY DEF SessionStep, Greet, Refuse, Accept, ReadFails, SearchEnds, SearchPasses, Add,
           AddTooEarly, TypeOK, SessionTyped
  <2> QED BY <1>0, <2>1, <2>2 DEF OneUp
<1>2. \A o : Sending(o)' = Sending(o) BY <1>1 DEF Sending
<1>3. CASE Refuse(k) \/ Accept(k)
  <2>1. /\ toServer' = [toServer EXCEPT ![k] = <<>>]
        /\ toClient' = [toClient EXCEPT ![k] =
                          IF up[k] THEN <<Right(Head(toServer[k])[1])>> ELSE @]
        /\ received' = received \cup {Head(toServer[k])}
        /\ toServer[k] = <<Head(toServer[k])>>
        /\ up[k] => k = conn /\ rpc = "await" /\ Head(toServer[k]) = Sending(robj)
    BY <1>3, ReplyIsRight
  <2>2. /\ toServer'[k] = <<>>
        /\ toClient'[k] = IF up[k] THEN <<Right(Head(toServer[k])[1])>> ELSE toClient[k]
        /\ \A j \in Conn : j # k => toServer'[j] = toServer[j] /\ toClient'[j] = toClient[j]
    BY <2>1 DEF TypeOK, NetTyped
  <2>3. toServer[k] # <<>> BY <1>3 DEF Refuse, Accept
  <2>4. OneUp' BY <1>0, <1>1, <2>2 DEF OneUp
  <2>5. CASE k # conn
    <3>1. rpc \notin {"dial", "over"} => conn \in Conn BY DEF OneUp
    <3> QED BY <1>0, <1>1, <1>2, <2>1, <2>2, <2>4, <2>5, <3>1 DEF Turns
  <2>6. CASE k = conn /\ up[k]
    <3>1. Head(toServer[k])[1] = robj BY <2>1, <2>6 DEF Sending
    <3>2. toClient'[conn] = <<Right(robj)>> /\ Sending(robj) \in received' /\ rpc = "await"
      BY <2>1, <2>2, <2>6, <3>1
    <3> QED BY <1>1, <1>2, <2>2, <2>4, <2>6, <3>2 DEF Turns
  <2>7. CASE k = conn /\ ~up[k]
    BY <1>0, <1>1, <1>2, <2>2, <2>3, <2>4, <2>7 DEF Turns
  <2> QED BY <2>5, <2>6, <2>7
<1>4. CASE Greet(k)
  <2>1. toClient' = [toClient EXCEPT ![k] = IF up[k] THEN <<Banner>> ELSE @]
    BY <1>4, GreetSays
  <2>2. /\ toClient'[k] = IF up[k] THEN <<Banner>> ELSE toClient[k]
        /\ \A j \in Conn : j # k => toClient'[j] = toClient[j]
    BY <2>1 DEF TypeOK, NetTyped
  <2>3. spc[k] = "greet" /\ UNCHANGED <<toServer, received>> BY <1>4 DEF Greet
  <2>4. OneUp' BY <1>0, <1>1, <2>2, <2>3 DEF OneUp
  <2>5. Turns'
    <3>1. rpc \notin {"dial", "over"} => conn \in Conn BY DEF OneUp
    <3>2. CASE k # conn BY <1>0, <1>1, <1>2, <2>2, <2>3, <3>1, <3>2 DEF Turns
    <3>3. CASE k = conn BY <1>0, <1>1, <1>2, <2>2, <2>3, <3>1, <3>3 DEF Turns
    <3> QED BY <3>2, <3>3
  <2> QED BY <2>4, <2>5
<1>5. CASE ReadFails(k) \/ SearchEnds(k) \/ SearchPasses(k) \/ Add(k) \/ AddTooEarly(k)
  <2>1. UNCHANGED <<toServer, toClient, received>>
    BY <1>5, SearchEndsSilently DEF ReadFails, SearchEnds, SearchPasses, Add, AddTooEarly
  <2>2. OneUp' BY <1>0, <1>1, <2>1 DEF OneUp
  <2>3. conn \in Conn /\ spc[conn] # "greet" => spc'[conn] # "greet" BY <1>1
  <2>4. rpc \notin {"dial", "over"} => conn \in Conn BY DEF OneUp
  <2>5. Turns' BY <1>1, <1>2, <2>1, <2>3, <2>4 DEF Turns
  <2> QED BY <2>2, <2>5
<1> QED BY <1>3, <1>4, <1>5 DEF SessionStep

LEMMA OtherTurns ==
  ASSUME TypeOK, OneUp, Turns, Waiting, (\E o \in Object : Put(o)) \/ BootEnds \/ Fault
  PROVE  OneUp' /\ Turns'
<1>0. /\ rpc \in {"dial", "banner", "recv", "await", "over"} /\ conn \in Nat
      /\ \A j \in Conn : j \in Nat
      /\ rpc \notin {"dial", "over"} => conn \in Conn
  BY DEF TypeOK, ClientTyped, Conn, OneUp
<1>1. ASSUME NEW o \in Object, Put(o) PROVE OneUp' /\ Turns'
  <2>1. /\ UNCHANGED <<rpc, robj, conn, netVars, sessionVars>>
        /\ put' = [put EXCEPT ![o] = @ + 1] /\ (put[o] = 0 \/ answer[o] # NoAnswer)
    BY <1>1 DEF Put
  <2>2. rpc = "await" => robj \in Object /\ robj # o
    BY <2>1 DEF Waiting, Waits, TypeOK, ClientTyped
  <2>3. rpc = "await" => Sending(robj)' = Sending(robj)
    BY <2>1, <2>2 DEF Sending, TypeOK, ClientTyped
  <2>4. OneUp' BY <2>1 DEF OneUp
  <2>5. Turns' BY <2>1, <2>3 DEF Turns
  <2> QED BY <2>4, <2>5
<1>2. CASE PutNil \/ BootEnds
  <2>1. UNCHANGED <<put, rpc, robj, conn, netVars, spc, received>>
    BY <1>2 DEF PutNil, BootEnds
  <2> QED BY <2>1 DEF OneUp, Turns, Sending
<1>3. CASE ServerCrash
  <2>1. /\ UNCHANGED <<put, rpc, robj, conn, received>>
        /\ \A k \in Conn : /\ up'[k] = FALSE /\ spc'[k] # "greet" /\ toServer'[k] = <<>>
                           /\ toClient'[k] \in {toClient[k], <<>>}
                           /\ k > conn => spc'[k] = "none"
    BY <1>0, <1>3 DEF ServerCrash
  <2>2. OneUp' BY <1>0, <2>1 DEF OneUp
  <2>3. rpc = "await" => Sending(robj)' = Sending(robj) BY <2>1 DEF Sending
  <2>4. Turns' BY <1>0, <2>1, <2>3 DEF Turns
  <2> QED BY <2>2, <2>4
<1>4. ASSUME NEW k \in Conn, NotAllowed(k) \/ SearchFails(k) PROVE OneUp' /\ Turns'
  <2>1. /\ UNCHANGED <<put, rpc, robj, conn, received, toServer, toClient>>
        /\ spc' = [spc EXCEPT ![k] = "gone"] /\ up' = [up EXCEPT ![k] = FALSE]
        /\ spc[k] # "none"
    BY <1>4 DEF NotAllowed, SearchFails
  <2>2. /\ spc'[k] = "gone" /\ ~up'[k]
        /\ \A j \in Conn : j # k => spc'[j] = spc[j] /\ up'[j] = up[j]
    BY <2>1 DEF TypeOK, SessionTyped
  <2>3. OneUp' BY <1>0, <2>1, <2>2 DEF OneUp
  <2>4. Sending(robj)' = Sending(robj) BY <2>1 DEF Sending
  <2>5. Turns'
    <3>1. CASE spc[k] = "greet" /\ k = conn
      <4>1. rpc \notin {"recv", "await"} BY <3>1 DEF Turns
      <4> QED BY <1>0, <2>1, <2>2, <4>1 DEF Turns
    <3>2. CASE k # conn BY <1>0, <2>1, <2>2, <2>4, <3>2 DEF Turns
    <3>3. CASE spc[k] # "greet" /\ k = conn BY <1>0, <2>1, <2>2, <2>4, <3>3 DEF Turns
    <3> QED BY <3>1, <3>2, <3>3
  <2> QED BY <2>3, <2>5
<1>5. ASSUME NEW k \in Conn, LoseConnection(k) PROVE OneUp' /\ Turns'
  <2>1. /\ UNCHANGED <<put, rpc, robj, conn, received, spc>> /\ up[k]
        /\ up' = [up EXCEPT ![k] = FALSE]
    BY <1>5 DEF LoseConnection
  <2>2. k = conn /\ rpc \in {"banner", "recv", "await"} BY <1>0, <2>1 DEF OneUp
  <2>3. PICK t \in {toServer[k], <<>>}, c \in {toClient[k], <<>>} :
               /\ toServer' = [toServer EXCEPT ![k] = t]
               /\ toClient' = [toClient EXCEPT ![k] = c]
    BY <1>5 DEF LoseConnection
  <2>4. /\ toServer'[k] \in {toServer[k], <<>>} /\ toClient'[k] \in {toClient[k], <<>>}
        /\ ~up'[k]
        /\ \A j \in Conn : j # k => /\ up'[j] = up[j] /\ toServer'[j] = toServer[j]
                                    /\ toClient'[j] = toClient[j]
    BY <2>1, <2>3 DEF TypeOK, NetTyped, SessionTyped
  <2>5. OneUp' BY <1>0, <2>1, <2>2, <2>4 DEF OneUp
  <2>6. Sending(robj)' = Sending(robj) BY <2>1 DEF Sending
  <2>7. Turns' BY <2>1, <2>2, <2>4, <2>6 DEF Turns
  <2> QED BY <2>5, <2>7
<1> QED BY <1>1, <1>2, <1>3, <1>4, <1>5 DEF Fault
-----------------------------------------------------------------------------
(* Who waits, and for which answer.                                         *)

\* Taking an object from TCPchan leaves the others there, which are other objects.
LEMMA TakenWaits ==
  ASSUME TypeOK, Waiting, TCPchan # <<>>, TCPchan' = Tail(TCPchan)
  PROVE  /\ \A i \in 1..Len(TCPchan') : TCPchan'[i] \in Object =>
              /\ Waits(TCPchan'[i]) /\ robj # TCPchan'[i] /\ Head(TCPchan) # TCPchan'[i]
         /\ \A i, j \in 1..Len(TCPchan') :
              TCPchan'[i] \in Object /\ TCPchan'[i] = TCPchan'[j] => i = j
         /\ Head(TCPchan) \in Object => Waits(Head(TCPchan))
<1>1. /\ Head(TCPchan) = TCPchan[1] /\ 1 \in 1..Len(TCPchan)
      /\ \A i \in 1..Len(TCPchan') : /\ i + 1 \in 1..Len(TCPchan)
                                     /\ TCPchan'[i] = TCPchan[i + 1]
  BY Taken
<1>2. \A i \in 1..Len(TCPchan') : i + 1 # 1 /\ i \in Nat OBVIOUS
<1>3. \A i, j \in 1..Len(TCPchan') : i + 1 = j + 1 => i = j OBVIOUS
<1> QED BY <1>1, <1>2, <1>3 DEF Waiting

LEMMA ClientWaits ==
  ASSUME TypeOK, OneUp, Turns, Waiting, ClientStep
  PROVE  Waiting'
<1>1. CASE Dial \/ DialFails \/ ReadBanner \/ BannerFails
  <2>1. /\ UNCHANGED <<put, answer, TCPchan, robj>> /\ rpc # "await" /\ rpc' # "await"
    BY <1>1 DEF Dial, DialFails, ReadBanner, BannerFails, Failed
  <2> QED BY <2>1 DEF Waiting, Waits
<1>2. CASE TakeNil \/ SendFails
  <2>1. /\ TCPchan # <<>> /\ TCPchan' = Tail(TCPchan) /\ UNCHANGED <<put, answer, robj>>
        /\ rpc # "await" /\ rpc' # "await"
    BY <1>2 DEF TakeNil, SendFails, AfterSendError
  <2> QED BY <2>1, TakenWaits DEF Waiting, Waits
<1>3. CASE SendAdd
  <2>1. /\ TCPchan # <<>> /\ TCPchan' = Tail(TCPchan) /\ UNCHANGED <<put, answer>>
        /\ robj' = Head(TCPchan) /\ rpc' = "await"
    BY <1>3 DEF SendAdd
  <2>2. Head(TCPchan) \in Object BY <1>3, ClientSends
  <2> QED BY <2>1, <2>2, TakenWaits DEF Waiting, Waits
<1>4. CASE GetReply \/ ReplyFails
  <2>1. /\ UNCHANGED <<put, TCPchan>> /\ robj' = NoObject /\ rpc' # "await"
        /\ \A o \in Object : o # robj => answer'[o] = answer[o]
    BY <1>4 DEF GetReply, ReplyFails, AfterReplyError, TypeOK, ClientTyped
  <2> QED BY <2>1 DEF Waiting, Waits
<1> QED BY <1>1, <1>2, <1>3, <1>4 DEF ClientStep

LEMMA OtherWaits ==
  ASSUME TypeOK, Waiting,
         (\E o \in Object : Put(o)) \/ BootEnds \/ Fault \/ (\E k \in Conn : SessionStep(k))
  PROVE  Waiting'
<1>1. ASSUME NEW o \in Object, Put(o) PROVE Waiting'
  <2>1. /\ TCPchan' = Append(TCPchan, o) /\ Len(TCPchan) < TCPchanQ
        /\ UNCHANGED <<rpc, robj>> /\ ~Waits(o)
        /\ put' = [put EXCEPT ![o] = @ + 1] /\ answer' = [answer EXCEPT ![o] = NoAnswer]
    BY <1>1 DEF Put, Waits, TypeOK, ClientTyped
  <2>2. Waits(o)' /\ \A p \in Object : p # o => (Waits(p)' <=> Waits(p))
    BY <2>1 DEF Waits, TypeOK, ClientTyped
  <2>3. /\ Len(TCPchan') = Len(TCPchan) + 1 /\ TCPchan'[Len(TCPchan')] = o
        /\ \A i \in 1..Len(TCPchan) : TCPchan'[i] = TCPchan[i]
        /\ \A i \in 1..Len(TCPchan') : i = Len(TCPchan') \/ i \in 1..Len(TCPchan)
    BY <2>1, PutBehind
  <2>4. robj # o /\ \A i \in 1..Len(TCPchan) : TCPchan[i] # o BY <2>1 DEF Waiting
  <2> QED BY <2>1, <2>2, <2>3, <2>4 DEF Waiting
<1>2. CASE PutNil
  <2>1. /\ TCPchan' = Append(TCPchan, NilObject) /\ Len(TCPchan) < TCPchanQ
        /\ UNCHANGED <<put, answer, rpc, robj>>
    BY <1>2 DEF PutNil
  <2>2. /\ Len(TCPchan') = Len(TCPchan) + 1 /\ TCPchan'[Len(TCPchan')] = NilObject
        /\ \A i \in 1..Len(TCPchan) : TCPchan'[i] = TCPchan[i]
        /\ \A i \in 1..Len(TCPchan') : i = Len(TCPchan') \/ i \in 1..Len(TCPchan)
    BY <2>1, PutBehind
  <2> QED BY <2>1, <2>2 DEF Waiting, Waits
<1>3. CASE UNCHANGED clientVars BY <1>3 DEF Waiting, Waits
<1> QED BY <1>1, <1>2, <1>3
  DEF BootEnds, Fault, ServerCrash, NotAllowed, SearchFails, LoseConnection, SessionStep, Greet,
      Refuse, Accept, ReadFails, SearchEnds, SearchPasses, Add, AddTooEarly

\* received only grows.
LEMMA ReceivedGrows ==
  ASSUME TypeOK, Next
  PROVE  received \subseteq received'
BY DEF Next, ClientStep, Dial, DialFails, ReadBanner, BannerFails, TakeNil, SendAdd, SendFails,
       GetReply, ReplyFails, BootEnds, Fault, Put, PutNil, ServerCrash, NotAllowed, SearchFails,
       LoseConnection, SessionStep, Greet, Refuse, Accept, ReadFails, SearchEnds, SearchPasses,
       Add, AddTooEarly

LEMMA AnswerStaysOwn ==
  ASSUME TypeOK, OneUp, Turns, Waiting, AnswerIsOwn, Next
  PROVE  AnswerIsOwn'
<1>1. ASSUME NEW o \in Object, Put(o) PROVE AnswerIsOwn'
  <2>1. /\ answer' = [answer EXCEPT ![o] = NoAnswer] /\ UNCHANGED received
        /\ put' = [put EXCEPT ![o] = @ + 1]
    BY <1>1 DEF Put
  <2> QED BY <2>1 DEF AnswerIsOwn, TypeOK, ClientTyped
<1>2. CASE GetReply
  <2>1. /\ toClient[conn] = <<Right(robj)>> /\ Sending(robj) \in received
        /\ answer' = [answer EXCEPT ![robj] = Head(toClient[conn])]
        /\ UNCHANGED <<put, received>>
    BY <1>2, ClientReceives DEF GetReply
  <2>2. Head(<<Right(robj)>>) = Right(robj) OBVIOUS
  <2>3. \A o \in Object : answer'[o] = IF o = robj THEN Right(robj) ELSE answer[o]
    BY <2>1, <2>2 DEF TypeOK, ClientTyped
  <2> QED BY <2>1, <2>3 DEF AnswerIsOwn, Right, Sending
<1>3. CASE ReplyFails
  <2>1. \A o \in Object : answer'[o] = answer[o] \/ answer'[o] = ReadError
    BY <1>3 DEF ReplyFails, TypeOK, ClientTyped
  <2>2. UNCHANGED <<put, received>> BY <1>3 DEF ReplyFails
  <2> QED BY <2>1, <2>2 DEF AnswerIsOwn
<1>4. CASE UNCHANGED <<put, answer>> BY <1>4, ReceivedGrows DEF AnswerIsOwn
<1> QED BY <1>1, <1>2, <1>3, <1>4
  DEF Next, ClientStep, Dial, DialFails, ReadBanner, BannerFails, TakeNil, SendAdd, SendFails,
      BootEnds, Fault, PutNil, ServerCrash, NotAllowed, SearchFails,
      LoseConnection, SessionStep, Greet, Refuse, Accept, ReadFails, SearchEnds, SearchPasses,
      Add, AddTooEarly
-----------------------------------------------------------------------------
(* Every sending is in one place.                                           *)

LEMMA ClientNumbers ==
  ASSUME TypeOK, OneUp, Turns, Waiting, Numbers, ClientStep
  PROVE  Numbers'
<1>0. UNCHANGED <<put, received>> /\ \A o : Sending(o)' = Sending(o)
  BY DEF ClientStep, Dial, DialFails, ReadBanner, BannerFails, TakeNil, SendAdd, SendFails,
         GetReply, ReplyFails, Sending
<1>1. CASE UNCHANGED <<TCPchan, toServer>> BY <1>0, <1>1 DEF Numbers
<1>2. CASE TakeNil \/ SendFails
  <2>1. TCPchan # <<>> /\ TCPchan' = Tail(TCPchan) /\ UNCHANGED toServer
    BY <1>2 DEF TakeNil, SendFails
  <2>2. \A i \in 1..Len(TCPchan') : \E j \in 1..Len(TCPchan) : TCPchan'[i] = TCPchan[j]
    BY <2>1, Taken
  <2> QED BY <1>0, <2>1, <2>2 DEF Numbers
<1>3. CASE SendAdd
  <2> DEFINE o == Head(TCPchan)
  <2>1. /\ TCPchan # <<>> /\ TCPchan' = Tail(TCPchan)
        /\ o \in Object /\ conn \in Conn /\ Sending(o) \in Object \X Nat
        /\ toServer' = [toServer EXCEPT ![conn] = IF up[conn] THEN <<Sending(o)>> ELSE @]
    BY <1>3, ClientSends DEF SendAdd
  <2>2. /\ o = TCPchan[1] /\ 1 \in 1..Len(TCPchan)
        /\ \A i \in 1..Len(TCPchan') : \E j \in 1..Len(TCPchan) : TCPchan'[i] = TCPchan[j]
    BY <2>1, Taken
  <2>3. Sending(o) \notin received /\ \A k \in Conn : toServer[k] # <<Sending(o)>>
    BY <2>1, <2>2 DEF Numbers
  <2>4. Sending(o)[2] \in 1..put[Sending(o)[1]]
    BY <2>1, TakenWaits DEF Sending, Waits, TypeOK, ClientTyped
  <2>5. \A k \in Conn : toServer'[k] = toServer[k] \/ (k = conn /\ toServer'[k] = <<Sending(o)>>)
    BY <2>1 DEF TypeOK, NetTyped
  <2>6. \A x : <<x>> = <<Sending(o)>> => x = Sending(o) OBVIOUS
  <2>7. \A k \in Conn, x \in Object \X Nat :
          toServer'[k] = <<x>> => x[2] \in 1..put[x[1]] /\ x \notin received
    BY <2>3, <2>4, <2>5, <2>6 DEF Numbers
  <2>8. \A j, k \in Conn : toServer'[j] # <<>> /\ toServer'[j] = toServer'[k] => j = k
    BY <2>3, <2>5 DEF Numbers
  <2>9. \A i \in 1..Len(TCPchan') : TCPchan'[i] \in Object =>
          /\ Sending(TCPchan'[i]) \notin received
          /\ \A k \in Conn : toServer'[k] # <<Sending(TCPchan'[i])>>
    <3> SUFFICES ASSUME NEW i \in 1..Len(TCPchan'), TCPchan'[i] \in Object
                 PROVE  /\ Sending(TCPchan'[i]) \notin received
                        /\ \A k \in Conn : toServer'[k] # <<Sending(TCPchan'[i])>>
      OBVIOUS
    <3>1. TCPchan'[i] # o BY <2>1, TakenWaits
    <3>2. Sending(TCPchan'[i]) # Sending(o) BY <3>1 DEF Sending
    <3>3. /\ Sending(TCPchan'[i]) \notin received
          /\ \A k \in Conn : toServer[k] # <<Sending(TCPchan'[i])>>
      BY <2>2 DEF Numbers
    <3> QED BY <2>5, <2>6, <3>2, <3>3
  <2> QED BY <1>0, <2>7, <2>8, <2>9 DEF Numbers
<1> QED BY <1>1, <1>2, <1>3
  DEF ClientStep, Dial, DialFails, ReadBanner, BannerFails, GetReply, ReplyFails, AfterReplyError

LEMMA SessionNumbers ==
  ASSUME TypeOK, OneUp, Turns, Numbers, NEW k \in Conn, SessionStep(k)
  PROVE  Numbers'
<1>1. UNCHANGED <<put, TCPchan>> /\ \A o : Sending(o)' = Sending(o)
  BY DEF SessionStep, Greet, Refuse, Accept, ReadFails, SearchEnds, SearchPasses, Add,
         AddTooEarly, Sending
<1>2. CASE UNCHANGED <<toServer, received>> BY <1>1, <1>2 DEF Numbers
<1>3. CASE Refuse(k) \/ Accept(k)
  <2> DEFINE y == Head(toServer[k])
  <2>1. /\ toServer' = [toServer EXCEPT ![k] = <<>>] /\ received' = received \cup {y}
        /\ toServer[k] = <<y>> /\ y \in Object \X Nat
    BY <1>3, ReplyIsRight
  <2>2. /\ toServer'[k] = <<>> /\ toServer[k] # <<>>
        /\ \A j \in Conn : j # k => toServer'[j] = toServer[j]
    BY <1>3, <2>1 DEF TypeOK, NetTyped, Refuse, Accept
  <2>3. y[2] \in 1..put[y[1]] BY <2>1 DEF Numbers
  <2>4. \A j \in Conn : j # k => toServer'[j] # <<y>> BY <2>1, <2>2 DEF Numbers
  <2>5. \A x : <<x>> # <<>> OBVIOUS
  <2>6. \A i \in 1..Len(TCPchan) : TCPchan[i] \in Object => Sending(TCPchan[i]) # y
    BY <2>1 DEF Numbers
  <2> HIDE DEF y
  <2>7. \A x \in received' : x[2] \in 1..put[x[1]] BY <2>1, <2>3 DEF Numbers
  <2>8. \A j \in Conn, x \in Object \X Nat :
          toServer'[j] = <<x>> => x[2] \in 1..put[x[1]] /\ x \notin received'
    BY <2>1, <2>2, <2>4, <2>5 DEF Numbers
  <2>9. \A i, j \in Conn : toServer'[i] # <<>> /\ toServer'[i] = toServer'[j] => i = j
    BY <2>2 DEF Numbers
  <2>10. \A i \in 1..Len(TCPchan) : TCPchan[i] \in Object =>
           /\ Sending(TCPchan[i]) \notin received'
           /\ \A j \in Conn : toServer'[j] # <<Sending(TCPchan[i])>>
    BY <2>1, <2>2, <2>5, <2>6 DEF Numbers
  <2> QED BY <1>1, <2>7, <2>8, <2>9, <2>10 DEF Numbers
<1> QED BY <1>2, <1>3
  DEF SessionStep, Greet, ReadFails, SearchEnds, SearchPasses, Add, AddTooEarly

LEMMA OtherNumbers ==
  ASSUME TypeOK, OneUp, Waiting, Numbers, (\E o \in Object : Put(o)) \/ BootEnds \/ Fault
  PROVE  Numbers'
<1>1. ASSUME NEW o \in Object, Put(o) PROVE Numbers'
  <2>1. /\ TCPchan' = Append(TCPchan, o) /\ Len(TCPchan) < TCPchanQ
        /\ UNCHANGED <<toServer, received>> /\ ~Waits(o)
        /\ put' = [put EXCEPT ![o] = @ + 1]
    BY <1>1 DEF Put, Waits, TypeOK, ClientTyped
  <2>2. /\ \A p \in Object : put[p] \in Nat /\ put'[p] = IF p = o THEN put[o] + 1 ELSE put[p]
        /\ received \subseteq Object \X Nat
    BY <2>1 DEF TypeOK, ClientTyped, SessionTyped
  <2>3. \A x \in Object \X Nat : x[2] \in 1..put[x[1]] =>
          x[2] \in 1..put'[x[1]] /\ x # <<o, put'[o]>>
    BY <2>2
  <2>4. <<o, put'[o]>> \in Object \X Nat BY <2>2
  <2>5. <<o, put'[o]>> \notin received BY <2>2, <2>3, <2>4 DEF Numbers
  <2>6. \A k \in Conn : toServer[k] # <<<<o, put'[o]>>>> BY <2>3, <2>4 DEF Numbers
  <2>8. /\ TCPchan'[Len(TCPchan')] = o
        /\ \A i \in 1..Len(TCPchan) : TCPchan'[i] = TCPchan[i]
        /\ \A i \in 1..Len(TCPchan') : i = Len(TCPchan') \/ i \in 1..Len(TCPchan)
    BY <2>1, PutBehind
  <2>9. \A i \in 1..Len(TCPchan) : TCPchan[i] # o BY <2>1 DEF Waiting
  <2>10. \A i \in 1..Len(TCPchan') : TCPchan'[i] \in Object =>
           /\ <<TCPchan'[i], put'[TCPchan'[i]]>> \notin received
           /\ \A k \in Conn : toServer[k] # <<<<TCPchan'[i], put'[TCPchan'[i]]>>>>
    <3> TAKE i \in 1..Len(TCPchan')
    <3> HAVE TCPchan'[i] \in Object
    <3>1. CASE TCPchan'[i] = o BY <2>5, <2>6, <3>1
    <3>2. CASE TCPchan'[i] # o
      <4>1. i \in 1..Len(TCPchan) /\ TCPchan'[i] = TCPchan[i] BY <2>8, <3>2
      <4>2. put'[TCPchan'[i]] = put[TCPchan[i]] BY <2>2, <3>2, <4>1
      <4> QED BY <4>1, <4>2 DEF Numbers, Sending
    <3> QED BY <3>1, <3>2
  <2>11. \A x \in received : x[2] \in 1..put'[x[1]] BY <2>2, <2>3 DEF Numbers
  <2>12. \A k \in Conn, x \in Object \X Nat :
           toServer[k] = <<x>> => x[2] \in 1..put'[x[1]] /\ x \notin received
    BY <2>3 DEF Numbers
  <2> QED BY <2>1, <2>10, <2>11, <2>12 DEF Numbers, Sending
<1>2. CASE PutNil
  <2>1. /\ TCPchan' = Append(TCPchan, NilObject) /\ Len(TCPchan) < TCPchanQ
        /\ UNCHANGED <<put, toServer, received>>
    BY <1>2 DEF PutNil
  <2>2. \A i \in 1..Len(TCPchan') : TCPchan'[i] \in Object =>
          i \in 1..Len(TCPchan) /\ TCPchan'[i] = TCPchan[i]
    BY <2>1, PutBehind
  <2>3. \A o : Sending(o)' = Sending(o) BY <2>1 DEF Sending
  <2> QED BY <2>1, <2>2, <2>3 DEF Numbers
<1>3. CASE ServerCrash \/ \E k \in Conn : LoseConnection(k)
  <2>1. /\ UNCHANGED <<put, TCPchan, received>>
        /\ \A k \in Conn : toServer'[k] \in {toServer[k], <<>>}
    BY <1>3 DEF ServerCrash, LoseConnection, TypeOK, NetTyped
  <2>2. \A o : Sending(o)' = Sending(o) BY <2>1 DEF Sending
  <2>3. \A x : <<x>> # <<>> OBVIOUS
  <2> QED BY <2>1, <2>2, <2>3 DEF Numbers
<1>4. CASE UNCHANGED <<put, TCPchan, toServer, received>> BY <1>4 DEF Numbers, Sending
<1> QED BY <1>1, <1>2, <1>3, <1>4 DEF BootEnds, Fault, NotAllowed, SearchFails
-----------------------------------------------------------------------------
(* What sessions have read and handed on.                                   *)

LEMMA Among ==
  ASSUME NEW n \in Nat, NEW T \in SUBSET (1..n)
  PROVE  IsFiniteSet(T) /\ Cardinality(T) \in Nat /\ Cardinality(T) <= n
<1>1. IsFiniteSet(1..n) BY FS_Interval
<1>2. Cardinality(1..n) = n
  <2>1. Cardinality(1..n) = IF 1 > n THEN 0 ELSE n - 1 + 1 BY FS_Interval
  <2> QED BY <2>1
<1>3. IsFiniteSet(T) /\ Cardinality(T) <= Cardinality(1..n) BY <1>1, FS_Subset
<1>4. Cardinality(T) \in Nat BY <1>3, FS_CardinalityType
<1> QED BY <1>2, <1>3, <1>4

LEMMA Finite ==
  ASSUME TypeOK, NEW o \in Object
  PROVE  /\ IsFiniteSet(Busy(o)) /\ Cardinality(Busy(o)) \in Nat
         /\ IsFiniteSet(ReadOnes(o)) /\ Cardinality(ReadOnes(o)) \in Nat
         /\ Cardinality(ReadOnes(o)) <= put[o]
<1>1. Busy(o) \in SUBSET (1..MaxFault + 1) /\ MaxFault + 1 \in Nat BY DEF Busy, Conn
<1>2. ReadOnes(o) \in SUBSET (1..put[o]) /\ put[o] \in Nat
  BY DEF ReadOnes, TypeOK, ClientTyped
<1>3. IsFiniteSet(Busy(o)) /\ Cardinality(Busy(o)) \in Nat BY <1>1, Among
<1> QED BY <1>2, <1>3, Among

\* put and received only grow, so what was read of an object does.
LEMMA ReadGrows ==
  ASSUME TypeOK, TypeOK', Next, NEW o \in Object
  PROVE  /\ ReadOnes(o) \subseteq ReadOnes(o)'
         /\ Cardinality(ReadOnes(o)) <= Cardinality(ReadOnes(o)')
<1>1. put[o] \in Nat /\ put'[o] \in Nat BY DEF TypeOK, ClientTyped
<1>2. put[o] <= put'[o]
  <2>1. ASSUME NEW p \in Object, Put(p) PROVE put[o] <= put'[o]
    BY <1>1, <2>1 DEF Put, TypeOK, ClientTyped
  <2>2. CASE UNCHANGED put BY <1>1, <2>2
  <2> QED BY <2>1, <2>2
    DEF Next, ClientStep, Dial, DialFails, ReadBanner, BannerFails, TakeNil, SendAdd, SendFails,
        GetReply, ReplyFails, BootEnds, Fault, PutNil, ServerCrash, NotAllowed, SearchFails,
        LoseConnection, SessionStep, Greet, Refuse, Accept, ReadFails, SearchEnds,
        SearchPasses, Add, AddTooEarly
<1>3. ReadOnes(o) \subseteq ReadOnes(o)' BY <1>1, <1>2, ReceivedGrows DEF ReadOnes
<1>4. IsFiniteSet(ReadOnes(o)')
  <2>1. ReadOnes(o)' \in SUBSET (1..put'[o]) BY DEF ReadOnes
  <2> QED BY <1>1, <2>1, Among
<1> QED BY <1>3, <1>4, FS_Subset

\* Nobody has more in hand and nothing was handed on.
LEMMA CountedFewer ==
  ASSUME TypeOK, TypeOK', Counted, Next, UNCHANGED handed,
         \A k \in Conn : spc'[k] \in {"search", "add"} =>
           spc[k] \in {"search", "add"} /\ sobj'[k] = sobj[k]
  PROVE  Counted'
<1>1. \A k \in Conn : spc'[k] \in {"search", "add"} => sobj'[k] \in Object BY DEF Counted
<1>2. ASSUME NEW o \in Object
      PROVE  handed'[o] + Cardinality(Busy(o)') <= Cardinality(ReadOnes(o)')
  <2>1. Busy(o)' \subseteq Busy(o) BY DEF Busy
  <2>2. Cardinality(Busy(o)') <= Cardinality(Busy(o)) /\ IsFiniteSet(Busy(o)')
    BY <2>1, Finite, FS_Subset
  <2>3. Cardinality(Busy(o)') \in Nat BY <2>2, FS_CardinalityType
  <2>4. Cardinality(ReadOnes(o)') >= Cardinality(ReadOnes(o)) BY ReadGrows
  <2>5. Cardinality(ReadOnes(o)') \in Nat
    <3>1. ReadOnes(o)' \in SUBSET (1..put'[o]) /\ put'[o] \in Nat
      BY DEF ReadOnes, TypeOK, ClientTyped
    <3> QED BY <3>1, Among
  <2>6. handed[o] \in Nat /\ handed'[o] = handed[o] BY DEF TypeOK, SessionTyped
  <2>7. handed[o] + Cardinality(Busy(o)) <= Cardinality(ReadOnes(o)) BY DEF Counted
  <2> QED BY <2>2, <2>3, <2>4, <2>5, <2>6, <2>7, Finite
<1> QED BY <1>1, <1>2 DEF Counted

\* A session that accepts a line has one more in hand, and it read one more.
LEMMA AcceptCounts ==
  ASSUME TypeOK, TypeOK', OneUp, Turns, Numbers, Counted, Next, NEW k \in Conn, Accept(k)
  PROVE  Counted'
<1> DEFINE y == Head(toServer[k])
<1>1. received' = received \cup {y} /\ toServer[k] = <<y>> /\ y \in Object \X Nat
  BY ReplyIsRight
<1>2. y[2] \in 1..put[y[1]] /\ y \notin received BY <1>1 DEF Numbers
<1>3. /\ spc[k] = "read" /\ spc' = [spc EXCEPT ![k] = "search"]
      /\ sobj' = [sobj EXCEPT ![k] = y[1]] /\ UNCHANGED <<handed, put>>
  BY DEF Accept
<1> HIDE DEF y
<1>4. /\ spc'[k] = "search" /\ sobj'[k] = y[1]
      /\ \A j \in Conn : j # k => spc'[j] = spc[j] /\ sobj'[j] = sobj[j]
  BY <1>3 DEF TypeOK, SessionTyped
<1>5. y[1] \in Object /\ y = <<y[1], y[2]>> BY <1>1
<1>6. \A j \in Conn : spc'[j] \in {"search", "add"} => sobj'[j] \in Object
  BY <1>4, <1>5 DEF Counted
<1>7. ASSUME NEW o \in Object, o # y[1]
      PROVE  handed'[o] + Cardinality(Busy(o)') <= Cardinality(ReadOnes(o)')
  <2>1. Busy(o)' = Busy(o) BY <1>3, <1>4, <1>7 DEF Busy
  <2>2. ReadOnes(o)' = ReadOnes(o) BY <1>1, <1>3, <1>5, <1>7 DEF ReadOnes
  <2> QED BY <1>3, <2>1, <2>2 DEF Counted
<1>8. ASSUME NEW o \in Object, o = y[1]
      PROVE  handed'[o] + Cardinality(Busy(o)') <= Cardinality(ReadOnes(o)')
  <2>1. Busy(o)' = Busy(o) \cup {k} /\ k \notin Busy(o) BY <1>3, <1>4, <1>8 DEF Busy
  <2>2. ReadOnes(o)' = ReadOnes(o) \cup {y[2]} /\ y[2] \notin ReadOnes(o)
    BY <1>1, <1>2, <1>3, <1>5, <1>8 DEF ReadOnes
  <2>3. Cardinality(Busy(o)') = Cardinality(Busy(o)) + 1 BY <2>1, Finite, FS_AddElement
  <2>4. Cardinality(ReadOnes(o)') = Cardinality(ReadOnes(o)) + 1
    BY <2>2, Finite, FS_AddElement
  <2>5. handed[o] \in Nat /\ handed'[o] = handed[o] BY <1>3 DEF TypeOK, SessionTyped
  <2>6. handed[o] + Cardinality(Busy(o)) <= Cardinality(ReadOnes(o)) BY DEF Counted
  <2> QED BY <2>3, <2>4, <2>5, <2>6, Finite
<1> QED BY <1>6, <1>7, <1>8 DEF Counted

\* What it hands on it has no longer in hand.
LEMMA AddCounts ==
  ASSUME TypeOK, TypeOK', Counted, NEW k \in Conn, Add(k)
  PROVE  Counted'
<1>1. /\ spc[k] = "add" /\ spc' = [spc EXCEPT ![k] = "stuck"]
      /\ handed' = [handed EXCEPT ![sobj[k]] = @ + 1]
      /\ UNCHANGED <<sobj, put, received>> /\ sobj[k] \in Object
  BY DEF Add, Counted
<1>2. spc'[k] = "stuck" /\ \A j \in Conn : j # k => spc'[j] = spc[j]
  BY <1>1 DEF TypeOK, SessionTyped
<1>3. ASSUME NEW o \in Object
      PROVE  handed'[o] + Cardinality(Busy(o)') <= Cardinality(ReadOnes(o)')
  <2>1. ReadOnes(o)' = ReadOnes(o) BY <1>1 DEF ReadOnes
  <2>2. handed[o] \in Nat /\ handed'[o] = IF o = sobj[k] THEN handed[o] + 1 ELSE handed[o]
    BY <1>1 DEF TypeOK, SessionTyped
  <2>3. handed[o] + Cardinality(Busy(o)) <= Cardinality(ReadOnes(o)) BY DEF Counted
  <2>4. CASE o = sobj[k]
    <3>1. Busy(o)' = Busy(o) \ {k} /\ k \in Busy(o) BY <1>1, <1>2, <2>4 DEF Busy
    <3>2. Cardinality(Busy(o)') = Cardinality(Busy(o)) - 1
      BY <3>1, Finite, FS_RemoveElement
    <3> QED BY <2>1, <2>2, <2>3, <2>4, <3>2, Finite
  <2>5. CASE o # sobj[k]
    <3>1. Busy(o)' = Busy(o) BY <1>1, <1>2, <2>5 DEF Busy
    <3> QED BY <2>1, <2>2, <2>3, <2>5, <3>1
  <2> QED BY <2>4, <2>5
<1>4. \A j \in Conn : spc'[j] \in {"search", "add"} => sobj'[j] \in Object
  BY <1>1, <1>2 DEF Counted
<1> QED BY <1>3, <1>4 DEF Counted

LEMMA StaysCounted ==
  ASSUME TypeOK, TypeOK', OneUp, Turns, Numbers, Counted, Next
  PROVE  Counted'
<1>1. ASSUME NEW k \in Conn, Accept(k) PROVE Counted' BY <1>1, AcceptCounts
<1>2. ASSUME NEW k \in Conn, Add(k) PROVE Counted' BY <1>2, AddCounts
<1>3. CASE UNCHANGED <<handed, spc, sobj>> BY <1>3, CountedFewer
<1>4. CASE Dial
  <2>1. spc' = [spc EXCEPT ![conn + 1] = FirstStep] /\ UNCHANGED <<sobj, handed>>
    BY <1>4 DEF Dial
  <2>2. \A k \in Conn : spc'[k] = spc[k] \/ spc'[k] \in {"greet", "read"}
    BY <2>1 DEF TypeOK, SessionTyped, FirstStep
  <2> QED BY <2>1, <2>2, CountedFewer
<1>5. ASSUME NEW k \in Conn,
             \/ Greet(k) \/ NotAllowed(k) \/ ReadFails(k) \/ SearchEnds(k) \/ SearchFails(k)
             \/ AddTooEarly(k)
      PROVE  Counted'
  <2>1. UNCHANGED handed /\ \A j \in Conn : j # k => spc'[j] = spc[j] /\ sobj'[j] = sobj[j]
    BY <1>5 DEF Greet, NotAllowed, ReadFails, SearchEnds, SearchFails, AddTooEarly, TypeOK,
                SessionTyped
  <2>2. spc'[k] \in {"read", "gone"}
    BY <1>5 DEF Greet, NotAllowed, ReadFails, SearchEnds, SearchFails, AddTooEarly, TypeOK,
                SessionTyped
  <2> QED BY <2>1, <2>2, CountedFewer
<1>6. ASSUME NEW k \in Conn, SearchPasses(k) PROVE Counted'
  <2>1. /\ UNCHANGED <<handed, sobj>> /\ spc[k] = "search"
        /\ \A j \in Conn : j # k => spc'[j] = spc[j]
    BY <1>6 DEF SearchPasses, TypeOK, SessionTyped
  <2> QED BY <2>1, CountedFewer
<1>7. CASE ServerCrash
  <2>1. UNCHANGED handed /\ \A k \in Conn : spc'[k] \in {"gone", "none"}
    BY <1>7 DEF ServerCrash
  <2> QED BY <2>1, CountedFewer
<1> QED BY <1>1, <1>2, <1>3, <1>4, <1>5, <1>6, <1>7
  DEF Next, ClientStep, DialFails, ReadBanner, BannerFails, TakeNil, SendAdd, SendFails,
      GetReply, ReplyFails, BootEnds, Fault, Put, PutNil, LoseConnection, SessionStep, Refuse
-----------------------------------------------------------------------------
(* What was forgotten.                                                      *)

\* The client never goes back to a connection it has left.
LEMMA LeftGrows ==
  ASSUME TypeOK, OneUp, Next
  PROVE  Left \subseteq Left'
<1>0. conn \in Nat /\ MaxFault + 1 \in Nat /\ \A k \in 1..conn : k \in Conn /\ k <= conn
  BY DEF TypeOK, ClientTyped, Conn
<1>1. ASSUME NEW k \in Conn, NotAllowed(k) \/ SearchFails(k) \/ LoseConnection(k)
      PROVE  Left \subseteq Left'
  <2>1. UNCHANGED <<conn, rpc>> /\ up' = [up EXCEPT ![k] = FALSE]
    BY <1>1 DEF NotAllowed, SearchFails, LoseConnection
  <2>2. \A j \in Conn : ~up[j] => ~up'[j] BY <2>1 DEF TypeOK, SessionTyped
  <2> QED BY <1>0, <2>1, <2>2 DEF Left
<1>2. CASE ServerCrash
  <2>1. UNCHANGED <<conn, rpc>> /\ \A j \in Conn : ~up'[j] BY <1>2 DEF ServerCrash
  <2> QED BY <1>0, <2>1 DEF Left
<1>3. CASE Dial
  <2>1. /\ conn' = conn + 1 /\ up' = [up EXCEPT ![conn + 1] = TRUE] /\ rpc = "dial"
    BY <1>3 DEF Dial
  <2>2. \A j \in 1..conn : j \in 1..(conn + 1) /\ j < conn + 1 BY <1>0
  <2>3. \A j \in 1..conn : ~up[j] => ~up'[j] BY <1>0, <2>1, <2>2 DEF TypeOK, SessionTyped
  <2> QED BY <2>1, <2>2, <2>3 DEF Left
<1>4. CASE TakeNil
  <2>1. /\ rpc = "recv" /\ rpc' = "dial" /\ up' = [up EXCEPT ![conn] = FALSE]
        /\ UNCHANGED conn
    BY <1>4 DEF TakeNil
  <2>2. \A j \in Conn : ~up[j] => ~up'[j] BY <2>1 DEF TypeOK, SessionTyped
  <2> QED BY <1>0, <2>1, <2>2 DEF Left
<1>5. CASE /\ UNCHANGED <<conn, up>>
           /\ rpc \in {"dial", "over"} => rpc' \in {"dial", "over"}
  BY <1>5 DEF Left
<1> QED BY <1>1, <1>2, <1>3, <1>4, <1>5
  DEF Next, ClientStep, DialFails, Failed, ReadBanner, BannerFails, SendAdd, SendFails,
      GetReply, ReplyFails, BootEnds, Fault, Put, PutNil, SessionStep, Greet, Refuse, Accept,
      ReadFails, SearchEnds, SearchPasses, Add, AddTooEarly

\* Only SendFails forgets an object, its first of TCPchan.
LEMMA WhoIsLost ==
  ASSUME TypeOK, TypeOK', OneUp, Turns, Waiting, Next, NEW o \in Object, Lost(o)', ~Lost(o)
  PROVE  SendFails /\ o = Head(TCPchan)
<1>1. ASSUME NEW p \in Object, Put(p) PROVE FALSE
  <2>1. /\ TCPchan' = Append(TCPchan, p) /\ Len(TCPchan) < TCPchanQ
        /\ put' = [put EXCEPT ![p] = @ + 1] /\ answer' = [answer EXCEPT ![p] = NoAnswer]
        /\ UNCHANGED robj
    BY <1>1 DEF Put
  <2>2. /\ Len(TCPchan') = Len(TCPchan) + 1 /\ TCPchan'[Len(TCPchan')] = p
        /\ \A i \in 1..Len(TCPchan) : i \in 1..Len(TCPchan') /\ TCPchan'[i] = TCPchan[i]
    BY <2>1, PutBehind
  <2>3. Len(TCPchan') \in 1..Len(TCPchan')
    <3>1. Len(TCPchan) \in Nat BY DEF TypeOK, ClientTyped
    <3> QED BY <2>2, <3>1
  <2>4. o # p BY <2>2, <2>3 DEF Lost
  <2>5. put'[o] = put[o] /\ answer'[o] = answer[o] BY <2>1, <2>4 DEF TypeOK, ClientTyped
  <2> QED BY <2>1, <2>2, <2>5 DEF Lost
<1>2. ASSUME PutNil PROVE FALSE
  <2>1. /\ TCPchan' = Append(TCPchan, NilObject) /\ Len(TCPchan) < TCPchanQ
        /\ UNCHANGED <<put, answer, robj>>
    BY <1>2 DEF PutNil
  <2>2. \A i \in 1..Len(TCPchan) : i \in 1..Len(TCPchan') /\ TCPchan'[i] = TCPchan[i]
    BY <2>1, PutBehind
  <2> QED BY <2>1, <2>2 DEF Lost
<1>3. CASE TakeNil \/ SendAdd \/ SendFails
  <2>1. /\ TCPchan # <<>> /\ TCPchan' = Tail(TCPchan) /\ UNCHANGED <<put, answer>>
        /\ TakeNil => Head(TCPchan) = NilObject /\ UNCHANGED robj
        /\ SendAdd => robj' = Head(TCPchan) /\ robj \notin Object
        /\ SendFails => UNCHANGED robj
    BY <1>3 DEF TakeNil, SendAdd, SendFails, Waiting
  <2>2. Head(TCPchan) = o
    <3> SUFFICES ASSUME Head(TCPchan) # o PROVE FALSE OBVIOUS
    <3>1. \A i \in 1..Len(TCPchan) : TCPchan[i] # o
      <4> SUFFICES ASSUME NEW i \in 1..Len(TCPchan), TCPchan[i] = o PROVE FALSE OBVIOUS
      <4>1. i # 1 BY <2>1, Taken
      <4>2. i - 1 \in 1..Len(TCPchan') /\ TCPchan'[i - 1] = o BY <2>1, <4>1, Taken
      <4> QED BY <4>2 DEF Lost
    <3>2. robj # o BY <1>3, <2>1 DEF Lost
    <3> QED BY <2>1, <3>1, <3>2 DEF Lost
  <2>3. ~TakeNil /\ ~SendAdd BY <2>1, <2>2 DEF Lost
  <2> QED BY <1>3, <2>2, <2>3
<1>4. ASSUME GetReply \/ ReplyFails PROVE FALSE
  <2>1. robj \in Object /\ UNCHANGED <<put, TCPchan>>
    BY <1>4 DEF GetReply, ReplyFails, AfterReplyError, Waiting
  <2>2. answer'[robj] \in Code
    <3>1. CASE GetReply
      <4>1. toClient[conn] = <<Right(robj)>> BY <3>1, ClientReceives DEF GetReply
      <4>2. Head(<<Right(robj)>>) = Right(robj) OBVIOUS
      <4> QED BY <2>1, <3>1, <4>1, <4>2 DEF GetReply, TypeOK, ClientTyped, Right, Code
    <3>2. CASE ReplyFails BY <2>1, <3>2 DEF ReplyFails, TypeOK, ClientTyped, Code
    <3> QED BY <1>4, <3>1, <3>2
  <2>3. NoAnswer \notin Code BY DEF Code
  <2>4. o # robj BY <2>2, <2>3 DEF Lost
  <2>5. answer'[o] = answer[o] BY <1>4, <2>4 DEF GetReply, ReplyFails, TypeOK, ClientTyped
  <2> QED BY <2>1, <2>4, <2>5 DEF Lost
<1>5. ASSUME UNCHANGED <<put, answer, robj, TCPchan>> PROVE FALSE BY <1>5 DEF Lost
<1> QED BY <1>1, <1>2, <1>3, <1>4, <1>5
  DEF Next, ClientStep, Dial, DialFails, ReadBanner, BannerFails, BootEnds, Fault, ServerCrash,
      NotAllowed, SearchFails, LoseConnection, SessionStep, Greet, Refuse, Accept,
      ReadFails, SearchEnds, SearchPasses, Add, AddTooEarly

LEMMA StaysLost ==
  ASSUME TypeOK, TypeOK', OneUp, Turns, Waiting, LostCounted, Next
  PROVE  LostCounted'
<1>1. Left \subseteq 1..conn /\ Left' \subseteq 1..conn' /\ conn \in Nat /\ conn' \in Nat
  BY DEF Left, TypeOK, ClientTyped
<1>2. IsFiniteSet(Left) /\ IsFiniteSet(Left') BY <1>1, Among
<1>3. /\ Cardinality(Left) <= Cardinality(Left')
      /\ Cardinality(Left) \in Nat /\ Cardinality(Left') \in Nat
  BY <1>2, LeftGrows, FS_Subset, FS_CardinalityType
<1>4. CASE LostOnes' \subseteq LostOnes
  <2>1. /\ IsFiniteSet(LostOnes') /\ Cardinality(LostOnes') <= Cardinality(LostOnes)
        /\ Cardinality(LostOnes) \in Nat /\ Cardinality(LostOnes') \in Nat
    BY <1>4, FS_Subset, FS_CardinalityType DEF LostCounted
  <2> QED BY <1>3, <2>1 DEF LostCounted
<1>5. CASE ~(LostOnes' \subseteq LostOnes)
  <2>1. SendFails /\ LostOnes' \subseteq LostOnes \cup {Head(TCPchan)}
    BY <1>5, WhoIsLost DEF LostOnes
  <2>2. /\ IsFiniteSet(LostOnes \cup {Head(TCPchan)})
        /\ Cardinality(LostOnes \cup {Head(TCPchan)}) <= Cardinality(LostOnes) + 1
        /\ Cardinality(LostOnes \cup {Head(TCPchan)}) \in Nat
        /\ Cardinality(LostOnes) \in Nat
    <3>1. IsFiniteSet(LostOnes) /\ Cardinality(LostOnes) \in Nat
      BY FS_CardinalityType DEF LostCounted
    <3>2. /\ IsFiniteSet(LostOnes \cup {Head(TCPchan)})
          /\ Cardinality(LostOnes \cup {Head(TCPchan)}) =
               IF Head(TCPchan) \in LostOnes THEN Cardinality(LostOnes)
                                             ELSE Cardinality(LostOnes) + 1
      BY <3>1, FS_AddElement
    <3> QED BY <3>1, <3>2
  <2>3. /\ IsFiniteSet(LostOnes') /\ Cardinality(LostOnes') \in Nat
        /\ Cardinality(LostOnes') <= Cardinality(LostOnes \cup {Head(TCPchan)})
    BY <2>1, <2>2, FS_Subset, FS_CardinalityType
  <2>4. Left' = Left \cup {conn} /\ conn \notin Left
    <3>1. /\ rpc = "recv" /\ rpc' = "dial" /\ ~up[conn] /\ UNCHANGED <<conn, up>>
      BY <2>1 DEF SendFails, AfterSendError
    <3>2. conn \in 1..conn /\ \A k \in 1..conn : k < conn \/ k = conn
      BY <3>1 DEF OneUp, Conn
    <3> QED BY <3>1, <3>2 DEF Left
  <2>5. Cardinality(Left') = Cardinality(Left) + 1 BY <1>2, <2>4, FS_AddElement
  <2>6. Cardinality(LostOnes) <= Cardinality(Left) BY DEF LostCounted
  <2>7. Cardinality(LostOnes') <= Cardinality(Left') BY <1>3, <2>2, <2>3, <2>5, <2>6
  <2> QED BY <2>3, <2>7 DEF LostCounted
<1> QED BY <1>4, <1>5
-----------------------------------------------------------------------------
LEMMA ServerInit == Init => ServerInv
<1> SUFFICES ASSUME Init PROVE ServerInv OBVIOUS
<1> USE DEF Init
<1>1. TypeOK
  <2>1. <<>> \in AtMostOne(Object \X Nat) /\ <<>> \in AtMostOne(Code \cup {Banner})
    BY NoneOrOne
  <2>2. NetTyped BY <2>1 DEF NetTyped
  <2>3. ClientTyped BY DEF ClientTyped
  <2>4. SessionTyped BY DEF SessionTyped
  <2> QED BY <2>2, <2>3, <2>4 DEF TypeOK
<1>2. OneUp /\ Turns /\ Waiting BY DEF OneUp, Turns, Waiting, Conn
<1>3. Numbers
  <2>1. \A x : <<x>> # <<>> OBVIOUS
  <2> QED BY <2>1 DEF Numbers
<1>4. AnswerIsOwn BY DEF AnswerIsOwn
<1>5. Counted
  <2>1. \A o \in Object : Busy(o) = {} /\ handed[o] = 0 BY DEF Busy
  <2>2. \A o \in Object : Cardinality(ReadOnes(o)) \in Nat BY <1>1, Finite
  <2>3. Cardinality({}) = 0 BY FS_EmptySet
  <2>4. \A o \in Object : handed[o] + Cardinality(Busy(o)) <= Cardinality(ReadOnes(o))
    <3> TAKE o \in Object
    <3>1. Busy(o) = {} /\ handed[o] = 0 /\ Cardinality(ReadOnes(o)) \in Nat BY <2>1, <2>2
    <3> QED BY <2>3, <3>1
  <2>5. \A k \in Conn : spc[k] \notin {"search", "add"} OBVIOUS
  <2> QED BY <2>4, <2>5 DEF Counted
<1>6. LostCounted
  <2>1. LostOnes = {} /\ Left = {} BY DEF LostOnes, Lost, Left
  <2> QED BY <2>1, FS_EmptySet DEF LostCounted
<1> QED BY <1>1, <1>2, <1>3, <1>4, <1>5, <1>6 DEF ServerInv

LEMMA ServerNext == ServerInv /\ [Next]_vars => ServerInv'
<1> SUFFICES ASSUME ServerInv, [Next]_vars PROVE ServerInv' OBVIOUS
<1> USE DEF ServerInv
<1>1. CASE UNCHANGED vars
  <2>1. TypeOK' BY <1>1 DEF vars, TypeOK, ClientTyped, NetTyped, SessionTyped
  <2>2. OneUp' /\ Turns' /\ Waiting' BY <1>1 DEF vars, OneUp, Turns, Waiting, Waits, Sending
  <2>3. Numbers' /\ AnswerIsOwn' BY <1>1 DEF vars, Numbers, AnswerIsOwn, Sending
  <2>4. Counted'
    <3>1. \A o : Busy(o)' = Busy(o) /\ ReadOnes(o)' = ReadOnes(o)
      BY <1>1 DEF vars, Busy, ReadOnes
    <3> QED BY <1>1, <3>1 DEF vars, Counted
  <2>5. LostCounted'
    <3>1. LostOnes' = LostOnes /\ Left' = Left BY <1>1 DEF vars, LostOnes, Lost, Left
    <3> QED BY <3>1 DEF LostCounted
  <2> QED BY <2>1, <2>2, <2>3, <2>4, <2>5
<1>2. CASE Next
  <2>1. TypeOK' BY <1>2, ClientStepTyped, SessionStepTyped, OtherStepTyped DEF Next
  <2>2. OneUp' /\ Turns' BY <1>2, ClientTurns, SessionTurns, OtherTurns DEF Next
  <2>3. Waiting' BY <1>2, ClientWaits, OtherWaits DEF Next
  <2>4. Numbers' BY <1>2, ClientNumbers, SessionNumbers, OtherNumbers DEF Next
  <2>5. Counted' BY <1>2, <2>1, StaysCounted
  <2>6. LostCounted' BY <1>2, <2>1, StaysLost
  <2>7. AnswerIsOwn' BY <1>2, AnswerStaysOwn
  <2> QED BY <2>1, <2>2, <2>3, <2>4, <2>5, <2>6, <2>7
<1> QED BY <1>1, <1>2

\* The invariant holds in every reachable state.
THEOREM ServerInvariant == Spec => []ServerInv
<1> QED BY ServerInit, ServerNext, PTL DEF Spec

\* Whoever is told CaseAdded or that his line was refused was told so of this very
\* sending, although the protocol has no numbers and connections come and go.
THEOREM RepliesMatch == Spec => []AnswerIsOwn
<1>1. ServerInv => AnswerIsOwn BY DEF ServerInv
<1> QED BY <1>1, ServerInvariant, PTL

\* Sessions of dead connections go on with what they have read, yet no sending of
\* an object reaches the writer twice.
THEOREM HandedOnOnce == Spec => []HandedAsAsked
<1>1. ServerInv => HandedAsAsked
  <2> SUFFICES ASSUME ServerInv, NEW o \in Object PROVE handed[o] <= put[o]
    BY DEF HandedAsAsked
  <2>1. handed[o] \in Nat /\ put[o] \in Nat
    BY DEF ServerInv, TypeOK, ClientTyped, SessionTyped
  <2>2. handed[o] + Cardinality(Busy(o)) <= Cardinality(ReadOnes(o))
    BY DEF ServerInv, Counted
  <2>3. /\ Cardinality(Busy(o)) \in Nat /\ Cardinality(ReadOnes(o)) \in Nat
        /\ Cardinality(ReadOnes(o)) <= put[o]
    BY Finite DEF ServerInv
  <2> QED BY <2>1, <2>2, <2>3
<1> QED BY <1>1, ServerInvariant, PTL

\* No more objects are forgotten than connections have ended.
THEOREM LossIsBounded == Spec => []LostPerConnection
<1>1. ServerInv => LostPerConnection
  <2> SUFFICES ASSUME ServerInv PROVE LostPerConnection OBVIOUS
  <2>1. conn \in Nat /\ Ended \in SUBSET (1..conn)
    BY DEF ServerInv, TypeOK, ClientTyped, Ended
  <2>2. IsFiniteSet(Ended) BY <2>1, Among
  <2>3. Left \subseteq Ended BY DEF Left, Ended
  <2>4. IsFiniteSet(Left) /\ Cardinality(Left) <= Cardinality(Ended)
    BY <2>2, <2>3, FS_Subset
  <2>5. /\ Cardinality(Left) \in Nat /\ Cardinality(Ended) \in Nat
        /\ Cardinality(LostOnes) \in Nat /\ Cardinality(LostOnes) <= Cardinality(Left)
    BY <2>2, <2>4, FS_CardinalityType DEF ServerInv, LostCounted
  <2>6. Cardinality(LostOnes) <= Cardinality(Ended) BY <2>4, <2>5
  <2> QED BY <2>6 DEF LostPerConnection, LostOnes
<1> QED BY <1>1, ServerInvariant, PTL
=============================================================================
