---------------------------- MODULE HistoryServer ----------------------------
(***************************************************************************)
(* Objects sent to a remote history: BootHistoryClient and its handleRConn *)
(* take objects from TCPchan and send them over one connection at a time   *)
(* to handleSocketConn, a session per connection at the server, which      *)
(* searches the history and adds.  What the index answers is left to       *)
(* HistoryStore: any of its codes may come.                                *)
(*                                                                         *)
(* A connection may be lost with or without what is under way in it, and   *)
(* a lost connection may still swallow what is written into it.            *)
(***************************************************************************)
EXTENDS Integers, Sequences, FiniteSets

CONSTANTS
  Object,
  Malformed,   \* the objects whose ADD line has not eight parts
  TCPchanQ,    \* capacity of TCPchan
  Modes,       \* the networks of the server's address: "tcp", "unix"
  Retries,     \* the settings of DefaultDialRetries; 0 stands for all below 1
  MaxPut,      \* bound: how often a caller sends one object
  MaxFault,    \* bound: ends of connections
  CaseAdded, CaseDupes, Refused, Banner, ReadError, NoAnswer,
  NilObject, NoObject

ASSUME ServerAssumption ==
  /\ Malformed \subseteq Object
  /\ TCPchanQ \in Nat \ {0} /\ MaxPut \in Nat /\ MaxFault \in Nat
  /\ Modes \subseteq {"tcp", "unix"} /\ Retries \subseteq Nat
  /\ NilObject \notin Object /\ NoObject \notin Object
  /\ NoAnswer \notin {CaseAdded, CaseDupes, Refused, ReadError}

\* Dial only replaces a connection that ended
Conn == 1..MaxFault + 1

VARIABLES
  mode, retries,  \* the settings, which never change
  put,       \* put[o]: how often o was put into TCPchan
  TCPchan,
  answer,    \* answer[o]: what ResponseChan gave the caller of o, or NoAnswer
  rpc,       \* where BootHistoryClient and handleRConn are
  robj,      \* the object handleRConn waits for the reply to
  failed,    \* dials that failed since the last connection
  conn,      \* the last connection; 0 before the first
  up,        \* up[k]: are both ends of connection k open?
  toServer, toClient,  \* the lines under way
  spc, sobj, \* where the session of k is, and its object
  ready,     \* has BootHistory made the WriterChan?
  handed,    \* history: handed[o]: how often a session put o in WriterChan
  received,  \* history: <<o, n>> if a session read the n-th ADD of o
  faults

clientVars == <<put, TCPchan, answer, rpc, robj, failed, conn>>
netVars == <<up, toServer, toClient>>
sessionVars == <<spc, sobj, ready, handed, received>>
vars == <<mode, retries, clientVars, netVars, sessionVars, faults>>

Init ==
  /\ mode \in Modes /\ retries \in Retries
  /\ put = [o \in Object |-> 0] /\ answer = [o \in Object |-> NoAnswer]
  /\ TCPchan = <<>> /\ rpc = "dial" /\ robj = NoObject
  /\ failed = 0 /\ conn = 0
  /\ up = [k \in Conn |-> FALSE] /\ spc = [k \in Conn |-> "none"]
  /\ toServer = [k \in Conn |-> <<>>] /\ toClient = [k \in Conn |-> <<>>]
  /\ sobj = [k \in Conn |-> NoObject] /\ ready = FALSE
  /\ handed = [o \in Object |-> 0] /\ received = {} /\ faults = 0
-----------------------------------------------------------------------------
\* Callers wait for their answer before they send the same object again.
Put(o) ==
  /\ put[o] < MaxPut /\ (put[o] = 0 \/ answer[o] # NoAnswer)
  /\ Len(TCPchan) < TCPchanQ
  /\ TCPchan' = Append(TCPchan, o)
  /\ put' = [put EXCEPT ![o] = @ + 1]
  /\ answer' = [answer EXCEPT ![o] = NoAnswer]
  /\ UNCHANGED <<mode, retries, rpc, robj, failed, conn, netVars,
                 sessionVars, faults>>

\* "received nil pointer, closing rconn"
PutNil ==
  /\ faults < MaxFault /\ Len(TCPchan) < TCPchanQ
  /\ TCPchan' = Append(TCPchan, NilObject) /\ faults' = faults + 1
  /\ UNCHANGED <<mode, retries, put, answer, rpc, robj, failed, conn,
                 netVars, sessionVars>>
-----------------------------------------------------------------------------
\* NewRConn and the loop of BootHistoryClient.

\* The server accepts; over tcp it greets.
FirstStep == IF mode = "tcp" THEN "greet" ELSE "read"

Dial ==
  /\ rpc = "dial" /\ conn + 1 \in Conn
  /\ conn' = conn + 1 /\ rpc' = "banner"
  /\ up' = [up EXCEPT ![conn + 1] = TRUE]
  /\ spc' = [spc EXCEPT ![conn + 1] = FirstStep]
  /\ UNCHANGED <<mode, retries, put, TCPchan, answer, robj, failed,
                 toServer, toClient, sobj, ready, handed, received, faults>>

\* NewRConn returned nil: count, when retries are limited, and sleep
Failed ==
  IF retries > 0
  THEN IF failed >= retries
       THEN rpc' = "over" /\ UNCHANGED failed
       ELSE rpc' = "dial" /\ failed' = failed + 1
  ELSE rpc' = "dial" /\ UNCHANGED failed

\* nobody listens: the server is down, or was not started yet
DialFails ==
  /\ rpc = "dial" /\ Failed
  /\ UNCHANGED <<mode, retries, put, TCPchan, answer, robj, conn, netVars,
                 sessionVars, faults>>

ReadBanner ==
  /\ rpc = "banner" /\ toClient[conn] # <<>>
  /\ toClient' = [toClient EXCEPT ![conn] = Tail(@)]
  /\ rpc' = "recv" /\ failed' = 0
  /\ UNCHANGED <<mode, retries, put, TCPchan, answer, robj, conn, up,
                 toServer, sessionVars, faults>>

BannerFails ==
  /\ rpc = "banner" /\ toClient[conn] = <<>> /\ ~up[conn] /\ Failed
  /\ UNCHANGED <<mode, retries, put, TCPchan, answer, robj, conn, netVars,
                 sessionVars, faults>>
-----------------------------------------------------------------------------
\* handleRConn

\* after dead <- struct{}{} the loop of BootHistoryClient dials again
TakeNil ==
  /\ rpc = "recv" /\ TCPchan # <<>> /\ Head(TCPchan) = NilObject
  /\ TCPchan' = Tail(TCPchan)
  /\ up' = [up EXCEPT ![conn] = FALSE] /\ rpc' = "dial"
  /\ UNCHANGED <<mode, retries, put, answer, robj, failed, conn, toServer,
                 toClient, sessionVars, faults>>

\* the line, and for the histories which sending of the object it is
Sending(o) == <<o, put[o]>>

SendAdd ==
  /\ rpc = "recv" /\ TCPchan # <<>> /\ Head(TCPchan) # NilObject
  /\ TCPchan' = Tail(TCPchan)
  /\ robj' = Head(TCPchan) /\ rpc' = "await"
  /\ toServer' = [toServer EXCEPT ![conn] =
                    IF up[conn] THEN Append(@, Sending(Head(TCPchan))) ELSE @]
  /\ UNCHANGED <<mode, retries, put, answer, failed, conn, up, toClient,
                 sessionVars, faults>>

KeepSending == "recv"   \* mutant: continue instead of break
AfterSendError == "dial"

\* The object is gone: it is not in the channel any more and its caller is
\* not answered.
SendFails ==
  /\ rpc = "recv" /\ TCPchan # <<>> /\ Head(TCPchan) # NilObject
  /\ ~up[conn]
  /\ TCPchan' = Tail(TCPchan) /\ rpc' = AfterSendError
  /\ UNCHANGED <<mode, retries, put, answer, robj, failed, conn, netVars,
                 sessionVars, faults>>

\* ReadCodeLine returns the code of the reply also when it calls it invalid
\* (CaseAdded is below 100) or not the expected one.
GetReply ==
  /\ rpc = "await" /\ toClient[conn] # <<>>
  /\ answer' = [answer EXCEPT ![robj] = Head(toClient[conn])]
  /\ toClient' = [toClient EXCEPT ![conn] = Tail(@)]
  /\ rpc' = "recv" /\ robj' = NoObject
  /\ UNCHANGED <<mode, retries, put, TCPchan, failed, conn, up, toServer,
                 sessionVars, faults>>

SendAgain ==   \* mutant: retries what may have arrived
  rpc' = "dial" /\ TCPchan' = <<robj>> \o TCPchan
AfterReplyError == rpc' = "recv" /\ UNCHANGED TCPchan

\* The caller is answered with code 0; the connection is kept.
ReplyFails ==
  /\ rpc = "await" /\ toClient[conn] = <<>> /\ ~up[conn]
  /\ answer' = [answer EXCEPT ![robj] = ReadError]
  /\ AfterReplyError /\ robj' = NoObject
  /\ UNCHANGED <<mode, retries, put, failed, conn, netVars, sessionVars,
                 faults>>
-----------------------------------------------------------------------------
\* handleSocketConn.  PrintfLine into a dead connection says nothing to the
\* session: only the error of the greeting is looked at.
Said(k, reply) ==
  toClient' = [toClient EXCEPT ![k] = IF up[k] THEN @ \o reply ELSE @]

Greet(k) ==
  /\ spc[k] = "greet"
  /\ spc' = [spc EXCEPT ![k] = IF up[k] THEN "read" ELSE "gone"]
  /\ Said(k, <<Banner>>)
  /\ UNCHANGED <<mode, retries, clientVars, up, toServer, sobj, ready,
                 handed, received, faults>>

\* checkACL says no: the connection is closed, without a greeting
NotAllowed(k) ==
  /\ spc[k] = "greet" /\ faults < MaxFault
  /\ faults' = faults + 1
  /\ spc' = [spc EXCEPT ![k] = "gone"] /\ up' = [up EXCEPT ![k] = FALSE]
  /\ UNCHANGED <<mode, retries, clientVars, toServer, toClient, sobj, ready,
                 handed, received>>

\* 401, 402 and 403 are one code here
NoReply == <<>>   \* mutant: continue without PrintfLine
RefusedReply == <<Refused>>

Refuse(k) ==
  /\ spc[k] = "read" /\ toServer[k] # <<>>
  /\ Head(toServer[k])[1] \in Malformed
  /\ received' = received \union {Head(toServer[k])}
  /\ toServer' = [toServer EXCEPT ![k] = Tail(@)]
  /\ Said(k, RefusedReply)
  /\ UNCHANGED <<mode, retries, clientVars, up, spc, sobj, ready, handed,
                 faults>>

\* "AOK" goes out before the history is asked.
Accept(k) ==
  /\ spc[k] = "read" /\ toServer[k] # <<>>
  /\ Head(toServer[k])[1] \notin Malformed
  /\ sobj' = [sobj EXCEPT ![k] = Head(toServer[k])[1]]
  /\ received' = received \union {Head(toServer[k])}
  /\ toServer' = [toServer EXCEPT ![k] = Tail(@)]
  /\ spc' = [spc EXCEPT ![k] = "search"]
  /\ Said(k, <<CaseAdded>>)
  /\ UNCHANGED <<mode, retries, clientVars, up, ready, handed, faults>>

ReadFails(k) ==
  /\ spc[k] = "read" /\ toServer[k] = <<>> /\ ~up[k]
  /\ spc' = [spc EXCEPT ![k] = "gone"]
  /\ UNCHANGED <<mode, retries, clientVars, netVars, sobj, ready, handed,
                 received, faults>>

\* An object that was made from a line has no ResponseChan, so that nobody is
\* told CaseDupes or CaseRetry.
SearchIsReplied == <<CaseDupes>>   \* mutant: a second reply to one ADD
SearchReply == <<>>

SearchEnds(k) ==   \* CaseDupes, CaseRetry
  /\ spc[k] = "search"
  /\ spc' = [spc EXCEPT ![k] = "read"] /\ sobj' = [sobj EXCEPT ![k] = NoObject]
  /\ Said(k, SearchReply)
  /\ UNCHANGED <<mode, retries, clientVars, up, toServer, ready, handed,
                 received, faults>>

SearchPasses(k) ==
  /\ spc[k] = "search" /\ spc' = [spc EXCEPT ![k] = "add"]
  /\ UNCHANGED <<mode, retries, clientVars, netVars, sobj, ready, handed,
                 received, faults>>

SearchFails(k) ==   \* an error, or an unknown code
  /\ spc[k] = "search" /\ faults < MaxFault
  /\ faults' = faults + 1
  /\ spc' = [spc EXCEPT ![k] = "gone"] /\ up' = [up EXCEPT ![k] = FALSE]
  /\ UNCHANGED <<mode, retries, clientVars, toServer, toClient, sobj, ready,
                 handed, received>>

\* AddHistory hands the object to the writer and waits for an answer on
\* hobj.ResponseChan, which is nil: a receive that never ends.
Add(k) ==
  /\ spc[k] = "add" /\ ready
  /\ handed' = [handed EXCEPT ![sobj[k]] = @ + 1]
  /\ spc' = [spc EXCEPT ![k] = "stuck"]
  /\ UNCHANGED <<mode, retries, clientVars, netVars, sobj, ready, received,
                 faults>>

\* The server listens before BootHistory has made the WriterChan: AddHistory
\* returns -999, which nobody looks at.
AddTooEarly(k) ==
  /\ spc[k] = "add" /\ ~ready
  /\ spc' = [spc EXCEPT ![k] = "read"] /\ sobj' = [sobj EXCEPT ![k] = NoObject]
  /\ UNCHANGED <<mode, retries, clientVars, netVars, ready, handed, received,
                 faults>>

BootEnds ==
  /\ ~ready /\ ready' = TRUE
  /\ UNCHANGED <<mode, retries, clientVars, netVars, spc, sobj, handed,
                 received, faults>>
-----------------------------------------------------------------------------
\* The network loses a connection; lines under way may still be read.
LoseConnection(k) ==
  /\ up[k] /\ faults < MaxFault
  /\ faults' = faults + 1
  /\ up' = [up EXCEPT ![k] = FALSE]
  /\ \E s \in {toServer[k], <<>>}, c \in {toClient[k], <<>>} :
       /\ toServer' = [toServer EXCEPT ![k] = s]
       /\ toClient' = [toClient EXCEPT ![k] = c]
  /\ UNCHANGED <<mode, retries, clientVars, sessionVars>>

\* The server dies with its sessions and boots again.
ServerCrash ==
  /\ conn > 0 /\ faults < MaxFault
  /\ faults' = faults + 1
  /\ up' = [k \in Conn |-> FALSE] /\ ready' = FALSE
  /\ spc' = [k \in Conn |-> IF k <= conn THEN "gone" ELSE "none"]
  /\ sobj' = [k \in Conn |-> NoObject]
  /\ toServer' = [k \in Conn |-> <<>>]
  /\ toClient' \in {toClient, [k \in Conn |-> <<>>]}
  /\ UNCHANGED <<mode, retries, clientVars, handed, received>>

ClientStep == \/ Dial \/ DialFails \/ ReadBanner \/ BannerFails \/ TakeNil
              \/ SendAdd \/ SendFails \/ GetReply \/ ReplyFails
SessionStep(k) ==
  \/ Greet(k) \/ Refuse(k) \/ Accept(k) \/ ReadFails(k)
  \/ SearchEnds(k) \/ SearchPasses(k) \/ Add(k) \/ AddTooEarly(k)
Fault == \/ PutNil \/ ServerCrash
         \/ \E k \in Conn : NotAllowed(k) \/ SearchFails(k) \/ LoseConnection(k)

Next == \/ \E o \in Object : Put(o)
        \/ ClientStep \/ BootEnds \/ Fault
        \/ \E k \in Conn : SessionStep(k)

Spec == Init /\ [][Next]_vars

\* Client and sessions are goroutines; the server comes back, and its address
\* answers at last.  Nobody has to send anything and nothing has to fail.
Fairness == /\ WF_vars(ClientStep) /\ WF_vars(Dial) /\ WF_vars(BootEnds)
            /\ \A k \in Conn : WF_vars(SessionStep(k))
FairSpec == Spec /\ Fairness
-----------------------------------------------------------------------------
Code == {CaseAdded, CaseDupes, Refused, ReadError}

\* Everything is of its type, and no connection ever has two lines under way
\* in the same direction: client and session talk in turns, though the session
\* replies before it works.
ClientTyped ==
  /\ mode \in Modes /\ retries \in Retries /\ faults \in 0..MaxFault
  /\ put \in [Object -> 0..MaxPut] /\ answer \in [Object -> Code \union {NoAnswer}]
  /\ TCPchan \in Seq(Object \union {NilObject}) /\ Len(TCPchan) <= TCPchanQ
  /\ rpc \in {"dial", "banner", "recv", "await", "over"}
  /\ robj \in Object \union {NoObject}
  /\ failed \in Nat /\ conn \in 0..MaxFault + 1
AtMostOne(S) == {s \in Seq(S) : Len(s) <= 1}
NetTyped ==
  /\ toServer \in [Conn -> AtMostOne(Object \X Nat)]
  /\ toClient \in [Conn -> AtMostOne(Code \union {Banner})]
SessionTyped ==
  /\ up \in [Conn -> BOOLEAN] /\ ready \in BOOLEAN
  /\ spc \in [Conn -> {"none", "greet", "read", "search", "add", "stuck",
                       "gone"}]
  /\ sobj \in [Conn -> Object \union {NoObject}]
  /\ handed \in [Object -> Nat] /\ received \subseteq Object \X Nat
TypeOK == ClientTyped /\ NetTyped /\ SessionTyped

\* An answer is the one to the caller's own ADD: who is told CaseAdded or that
\* the line was refused knows that a session has read this very sending of the
\* object, and which of both is true of it.  The protocol has no sequence
\* numbers (SOCKET.go:161), so this rests on one reply for each line and on a
\* new connection having no replies of the last one.
AnswerIsOwn ==
  \A o \in Object :
    answer[o] \notin {NoAnswer, ReadError} =>
      /\ <<o, put[o]>> \in received
      /\ answer[o] = IF o \in Malformed THEN Refused ELSE CaseAdded

\* However connections and servers die, a sending of an object reaches the
\* writer at most once: handleRConn never sends by itself what it cannot know
\* to be lost, even while the session of an old connection still works on it.
HandedAsAsked == \A o \in Object : handed[o] <= put[o]

Lost(o) == /\ put[o] > 0 /\ answer[o] = NoAnswer /\ robj # o
           /\ \A i \in 1..Len(TCPchan) : TCPchan[i] # o
Ended == {k \in 1..conn : ~up[k]}

\* handleRConn forgets an object whose line it cannot write (CLIENT.go:109),
\* and its caller is never answered: at most one for each connection that
\* ended.
LostPerConnection ==
  Cardinality({o \in Object : Lost(o)}) <= Cardinality(Ended)

\* Every caller is answered, or its object was lost with a connection, or the
\* client has given up, or the two ends wait for each other: the session hangs
\* in AddHistory, or the client waits for the greeting of a unix socket.
AnsweredUnlessStuck ==
  \A o \in Object :
    put[o] > 0 /\ answer[o] = NoAnswer ~>
      \/ answer[o] # NoAnswer \/ Lost(o) \/ rpc = "over"
      \/ conn > 0 /\ spc[conn] = "stuck"
      \/ rpc = "banner" /\ mode = "unix"

\* Claim: "receives a HistoryObject from another world", "reads reply",
\* "returns reply up to ResponseChan" (CLIENT.go:100, 112, 117): with a server
\* that never fails, every object put into TCPchan is answered.
ServerAnswers ==
  \A o \in Object : put[o] > 0 ~> answer[o] # NoAnswer
=============================================================================
