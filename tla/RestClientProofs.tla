-------------------------- MODULE RestClientProofs --------------------------
(***************************************************************************)
(* Proofs about RestClient for every set of clients and requests.          *)
(*                                                                         *)
(* The argument follows one request: it belongs to one call, is sent only  *)
(* by that call's single successful write, and what the connection holds   *)
(* for the client to read is either of the current call or unreadable.     *)
(***************************************************************************)
EXTENDS RestClient, TLAPS

Busy == {"write", "writeError", "writeReconnect", "read", "readError", "readReconnect"}

\* A pending request belongs to exactly one call under way.
CallInv ==
    /\ \A c \in Client : pc[c] \in Busy => req[c] \in Req /\ verdict[req[c]] = "pending"
    /\ \A c, d \in Client : pc[c] \in Busy /\ pc[d] \in Busy /\ req[c] = req[d] => c = d
    /\ \A c \in Client : pc[c] \notin Busy /\ req[c] # None =>
          verdict[req[c]] \in {"body", "empty", "threw"}
    /\ \A c \in Client : pc[c] = "new" => req[c] = None

\* A request is sent once; one that is not sent has not been received.
SentInv ==
    /\ \A r \in Req : inbox[r] + execs[r] <= 1
    /\ \A r \in Req : verdict[r] = "none" => inbox[r] = 0 /\ execs[r] = 0
    /\ \A c \in Client : pc[c] \in {"write", "writeError", "writeReconnect"} =>
          inbox[req[c]] = 0 /\ execs[req[c]] = 0

\* A response that can be read is that of the call that is reading.
PipeInv == \A c \in Client :
    /\ waits[c] # None => link[c] = "up"
    /\ waits[c] # None /\ reply[c] = None => pc[c] = "read" /\ waits[c] = req[c]
    /\ pc[c] = "read" => waits[c] \in {None, req[c]}
    /\ reply[c] \in Req => pc[c] = "read" /\ reply[c] = req[c] /\ execs[req[c]] = 1

\* A caller's own Error is assigned by its own call only; it is unset as long
\* as a response may come and set before the reconnection.  A new one that
\* holds a write error belongs to a request that was not sent.
ErrorInv == \A c \in Client :
    /\ error[c] \in {c, Dummy}
    /\ error[c] = c /\ pc[c] = "writeReconnect" => code[c] = 2
    /\ error[c] = c /\ pc[c] = "readReconnect" => code[c] = 1
    /\ error[c] = c /\ ~reused[c] /\ code[c] = 2 /\ req[c] # None =>
          inbox[req[c]] = 0 /\ execs[req[c]] = 0
    /\ /\ error[c] = c /\ ~reused[c]
       /\ pc[c] = "write" \/ (pc[c] = "read" /\ (waits[c] # None \/ reply[c] \in Req))
       => code[c] = 0

IInv == TypeOK /\ CallInv /\ SentInv /\ PipeInv /\ ErrorInv /\ ErrorTellsVerdict /\ NothingLeft

-----------------------------------------------------------------------------
(* The inductive invariant. *)

LEMMA InitIInv == Init => IInv
<1> SUFFICES ASSUME Init PROVE IInv
  OBVIOUS
<1> USE RestAssumption DEF Init
<1>1. TypeOK
  BY DEF TypeOK, Errors
<1>2. CallInv /\ SentInv /\ PipeInv
  BY DEF CallInv, Busy, SentInv, PipeInv
<1>3. ErrorInv /\ ErrorTellsVerdict /\ NothingLeft
  BY DEF ErrorInv, ErrorTellsVerdict, NothingLeft, Told
<1> QED BY <1>1, <1>2, <1>3 DEF IInv

\* An execution moves a request from the inbox; what it answers is the call
\* that is reading.
LEMMA NetworkStep ==
    ASSUME IInv,
           (\E r \in Req : Serve(r)) \/ (\E c \in Client : Drop(c))
    PROVE  IInv'
<1> USE RestAssumption DEF IInv, TypeOK, Errors, CallInv, Busy, SentInv, PipeInv, ErrorInv,
            ErrorTellsVerdict, NothingLeft, Told
<1>1. ASSUME NEW r \in Req, Serve(r) PROVE IInv'
  BY <1>1, SMTT(30) DEF Serve
<1>2. ASSUME NEW c \in Client, Drop(c) PROVE IInv'
  BY <1>2, SMTT(30) DEF Drop
<1> QED BY <1>1, <1>2

\* Only WriteOk sends, and it ends the part of the call that may send.
LEMMA WriteStep ==
    ASSUME IInv, NEW c \in Client, WriteOk(c) \/ WriteFail(c) \/ WriteError(c) \/ WriteReconnect(c)
    PROVE  IInv'
<1> USE RestAssumption DEF IInv, TypeOK, Errors, CallInv, Busy, SentInv, PipeInv, ErrorInv,
            ErrorTellsVerdict, NothingLeft, Told
<1>1. CASE WriteOk(c)
  BY <1>1, SMTT(30) DEF WriteOk, Step
<1>2. CASE WriteFail(c)
  BY <1>2, SMTT(30) DEF WriteFail, Step, netVars
<1>3. CASE WriteError(c)
  BY <1>3, SMTT(30) DEF WriteError, Step, netVars
<1>4. CASE WriteReconnect(c)
  BY <1>4, SMTT(30) DEF WriteReconnect, Step, Connected, ConnectThrows, Closed, netVars, Tell
<1> QED BY <1>1, <1>2, <1>3, <1>4

\* A read returns the response of its own request or fails.
LEMMA ReadStep ==
    ASSUME IInv, NEW c \in Client, ReadOk(c) \/ ReadFail(c) \/ ReadError(c) \/ ReadReconnect(c)
    PROVE  IInv'
<1> USE RestAssumption DEF IInv, TypeOK, Errors, CallInv, Busy, SentInv, PipeInv, ErrorInv,
            ErrorTellsVerdict, NothingLeft, Told
<1>1. CASE ReadOk(c)
  <2>1. /\ pc[c] = "read" /\ reply[c] = req[c] /\ req[c] \in Req
        /\ error[c] = c /\ ~reused[c] => code[c] = 0
    BY <1>1 DEF ReadOk, Step
  <2>2. /\ pc' = [pc EXCEPT ![c] = "idle"]
        /\ waits' = [waits EXCEPT ![c] = None]
        /\ reply' = [reply EXCEPT ![c] = None]
        /\ verdict' = [verdict EXCEPT ![req[c]] = "body"]
        /\ UNCHANGED <<req, error, reused, code, link, inbox, execs>>
    BY <1>1, <2>1 DEF ReadOk, Step, Tell
  <2>3. TypeOK' /\ CallInv' /\ SentInv'
    BY <2>1, <2>2
  <2>4. PipeInv' /\ ErrorInv'
    BY <2>1, <2>2
  <2>5. ErrorTellsVerdict' /\ NothingLeft'
    BY <2>1, <2>2
  <2> QED BY <2>3, <2>4, <2>5
<1>2. CASE ReadFail(c)
  BY <1>2, SMTT(30) DEF ReadFail, Step
<1>3. CASE ReadError(c)
  BY <1>3, SMTT(30) DEF ReadError, Step, netVars
<1>4. CASE ReadReconnect(c)
  <2>1. /\ pc[c] = "readReconnect" /\ req[c] \in Req
        /\ pc' = [pc EXCEPT ![c] = "idle"]
        /\ UNCHANGED <<req, error, reused, code, inbox, execs>>
    BY <1>4 DEF ReadReconnect, Step
  <2>2. CASE Connected(c) /\ Tell(c, "empty")
    BY <2>1, <2>2, SMTT(30) DEF Connected, Tell
  <2>3. CASE ConnectThrows(c) /\ Tell(c, "threw")
    BY <2>1, <2>3, SMTT(30) DEF ConnectThrows, Closed, netVars, Tell
  <2> QED BY <1>4, <2>2, <2>3 DEF ReadReconnect
<1> QED BY <1>1, <1>2, <1>3, <1>4

\* A call takes a request that no call has taken.
LEMMA CallStep ==
    ASSUME IInv, NEW c \in Client, NEW r \in Req, NEW e \in {c, Dummy},
           NEW again \in BOOLEAN, Call(c, r, e, again)
    PROVE  IInv'
<1> USE RestAssumption DEF IInv, TypeOK, Errors, CallInv, Busy, SentInv, PipeInv, ErrorInv,
            ErrorTellsVerdict, NothingLeft, Told
<1> USE DEF Call, Step, netVars
<1>1. TypeOK'
  OBVIOUS
<1>2. CallInv'
  OBVIOUS
<1>3. SentInv' /\ PipeInv'
  OBVIOUS
<1>4. ErrorInv'
  OBVIOUS
<1>5. ErrorTellsVerdict' /\ NothingLeft'
  OBVIOUS
<1> QED BY <1>1, <1>2, <1>3, <1>4, <1>5

\* Construction, destruction and a reconnection of its own touch the connection only.
LEMMA LifetimeStep ==
    ASSUME IInv, NEW c \in Client, Construct(c) \/ Reconnect(c) \/ Destroy(c) \/ Destroyed(c)
    PROVE  IInv'
<1> USE RestAssumption DEF IInv, TypeOK, Errors, CallInv, Busy, SentInv, PipeInv, ErrorInv,
            ErrorTellsVerdict, NothingLeft, Told
<1>1. CASE Construct(c)
  <2>1. /\ pc[c] = "new" /\ pc' \in {[pc EXCEPT ![c] = "idle"], [pc EXCEPT ![c] = "failed"]}
        /\ UNCHANGED <<req, error, reused, code, inbox, execs, verdict>>
    BY <1>1 DEF Construct, Step
  <2>2. CASE Connected(c)
    <3>1. TypeOK' /\ CallInv' /\ SentInv'
      BY <2>1, <2>2 DEF Connected
    <3>2. PipeInv' /\ ErrorInv'
      BY <2>1, <2>2 DEF Connected
    <3>3. ErrorTellsVerdict' /\ NothingLeft'
      BY <2>1, <2>2 DEF Connected
    <3> QED BY <3>1, <3>2, <3>3
  <2>3. CASE ConnectThrows(c)
    <3>1. TypeOK' /\ CallInv' /\ SentInv'
      BY <2>1, <2>3 DEF ConnectThrows, Closed, netVars
    <3>2. PipeInv' /\ ErrorInv'
      BY <2>1, <2>3 DEF ConnectThrows, Closed, netVars
    <3>3. ErrorTellsVerdict' /\ NothingLeft'
      BY <2>1, <2>3 DEF ConnectThrows, Closed, netVars
    <3> QED BY <3>1, <3>2, <3>3
  <2> QED BY <1>1, <2>2, <2>3 DEF Construct
<1>2. CASE Reconnect(c)
  <2>1. pc[c] = "idle" /\ UNCHANGED <<pc, req, error, reused, code, inbox, execs, verdict>>
    BY <1>2 DEF Reconnect, Step
  <2>2. CASE Connected(c)
    BY <2>1, <2>2, SMTT(30) DEF Connected
  <2>3. CASE ConnectThrows(c)
    BY <2>1, <2>3, SMTT(30) DEF ConnectThrows, Closed, netVars
  <2> QED BY <1>2, <2>2, <2>3 DEF Reconnect
<1>3. CASE Destroy(c)
  <2>1. pc[c] = "idle" /\ pc' = [pc EXCEPT ![c] = "shutdown"]
        /\ UNCHANGED <<link, waits, reply, req, error, reused, code, inbox, execs, verdict>>
    BY <1>3 DEF Destroy, Step, netVars
  <2>2. TypeOK' /\ CallInv' /\ SentInv'
    BY <2>1
  <2>3. PipeInv' /\ ErrorInv'
    BY <2>1
  <2>4. ErrorTellsVerdict' /\ NothingLeft'
    BY <2>1
  <2> QED BY <2>2, <2>3, <2>4
<1>4. CASE Destroyed(c)
  <2>1. pc[c] = "shutdown" /\ pc' = [pc EXCEPT ![c] = "gone"] /\ Closed(c)
        /\ UNCHANGED <<req, error, reused, code, inbox, execs, verdict>>
    BY <1>4 DEF Destroyed, Step
  <2>2. TypeOK' /\ CallInv' /\ SentInv'
    BY <2>1 DEF Closed
  <2>3. PipeInv' /\ ErrorInv'
    BY <2>1 DEF Closed
  <2>4. ErrorTellsVerdict' /\ NothingLeft'
    BY <2>1 DEF Closed
  <2> QED BY <2>2, <2>3, <2>4
<1> QED BY <1>1, <1>2, <1>3, <1>4

LEMMA NextIInv == IInv /\ [Next]_vars => IInv'
<1> SUFFICES ASSUME IInv, [Next]_vars PROVE IInv'
  OBVIOUS
<1>1. CASE UNCHANGED vars \/ Over
  BY <1>1, SMTT(30) DEF Over, vars, IInv, TypeOK, Errors, CallInv, Busy, SentInv, PipeInv, ErrorInv,
            ErrorTellsVerdict, NothingLeft, Told
<1>2. ASSUME NEW c \in Client, Proceed(c) \/ Use(c) \/ Drop(c) PROVE IInv'
  <2>1. CASE Proceed(c)
    BY <2>1, WriteStep, ReadStep DEF Proceed
  <2>2. CASE Use(c) \/ Drop(c)
    BY <2>2, CallStep, LifetimeStep, NetworkStep DEF Use
  <2> QED BY <1>2, <2>1, <2>2
<1>3. ASSUME NEW r \in Req, Serve(r) PROVE IInv'
  BY <1>3, NetworkStep
<1> QED BY <1>1, <1>2, <1>3 DEF Next

\* The invariant that the theorems below follow from.
THEOREM Invariance == Spec => []IInv
BY InitIInv, NextIInv, PTL DEF Spec

-----------------------------------------------------------------------------
(* The properties. *)

\* Type correctness, with every request received and executed at most once.
THEOREM TypeCorrect == Spec => []TypeOK
<1>1. IInv => TypeOK
  BY DEF IInv
<1> QED BY Invariance, <1>1, PTL

\* A caller's own Error tells the failed calls from the answered ones.
THEOREM ErrorsTell == Spec => []ErrorTellsVerdict
<1>1. IInv => ErrorTellsVerdict
  BY DEF IInv
<1> QED BY Invariance, <1>1, PTL

\* A write error tells the caller that the request was not, and will not be,
\* executed: only the one write of the call could have sent it.
THEOREM WriteErrorsNotSent == Spec => []WriteErrorNotSent
<1>1. IInv => WriteErrorNotSent
  BY DEF IInv, ErrorInv, WriteErrorNotSent, Told
<1> QED BY Invariance, <1>1, PTL

\* A method that returned left nothing of its request on the connection.
THEOREM LeavesNothing == Spec => []NothingLeft
<1>1. IInv => NothingLeft
  BY DEF IInv
<1> QED BY Invariance, <1>1, PTL

\* A connection is up and nothing is under way on it while a call reads only
\* if that call's write failed and its reconnection succeeded.
LEMMA NextHangs ==
    ASSUME IInv, HangsNotSent, [Next]_vars
    PROVE  HangsNotSent'
<1> USE RestAssumption DEF IInv, TypeOK, CallInv, Busy, SentInv, PipeInv, ErrorInv, HangsNotSent
<1>1. CASE UNCHANGED vars \/ Over
  BY <1>1 DEF Over, vars
<1>2. ASSUME NEW r \in Req, Serve(r) PROVE HangsNotSent'
  BY <1>2 DEF Serve
<1>3. ASSUME NEW c \in Client, WriteOk(c) \/ WriteFail(c) \/ WriteError(c) PROVE HangsNotSent'
  BY <1>3 DEF WriteOk, WriteFail, WriteError, Step, netVars, Errors
<1>4. ASSUME NEW c \in Client, WriteReconnect(c) PROVE HangsNotSent'
  BY <1>4 DEF WriteReconnect, Step, Connected, ConnectThrows, Closed, netVars
<1>5. ASSUME NEW c \in Client, ReadOk(c) \/ ReadFail(c) \/ ReadError(c) PROVE HangsNotSent'
  <2>1. CASE ReadOk(c)
    <3>1. /\ pc' = [pc EXCEPT ![c] = "idle"]
          /\ waits' = [waits EXCEPT ![c] = None] /\ reply' = [reply EXCEPT ![c] = None]
          /\ UNCHANGED <<req, error, code, link, inbox, execs>>
      BY <2>1 DEF ReadOk, Step
    <3> QED BY <3>1
  <2>2. CASE ReadFail(c)
    BY <2>2 DEF ReadFail, Step
  <2>3. CASE ReadError(c)
    BY <2>3 DEF ReadError, Step, netVars, Errors
  <2> QED BY <1>5, <2>1, <2>2, <2>3
<1>6. ASSUME NEW c \in Client, ReadReconnect(c) \/ Construct(c) \/ Reconnect(c) PROVE HangsNotSent'
  BY <1>6 DEF ReadReconnect, Construct, Reconnect, Step, Connected, ConnectThrows, Closed, netVars
<1>7. ASSUME NEW c \in Client, Drop(c) \/ Destroy(c) \/ Destroyed(c) PROVE HangsNotSent'
  BY <1>7 DEF Drop, Destroy, Destroyed, Step, Closed, netVars
<1>8. ASSUME NEW c \in Client, NEW r \in Req, NEW e \in {c, Dummy}, NEW again \in BOOLEAN,
             Call(c, r, e, again)
      PROVE  HangsNotSent'
  BY <1>8 DEF Call, Step, netVars, Errors
<1> QED BY <1>1, <1>2, <1>3, <1>4, <1>5, <1>6, <1>7, <1>8 DEF Next, Proceed, Use

\* An order whose call waits for ever on a connection that works was not placed.
THEOREM HangingNotSent == Spec => []HangsNotSent
<1>1. Init => HangsNotSent
  BY DEF Init, HangsNotSent
<1> QED BY <1>1, NextHangs, Invariance, PTL DEF Spec

LEMMA InitRefines == Init => KeepsPromise!Init
BY DEF Init, KeepsPromise!Init

\* Every step of a client, the network or the exchange is a step of RestCall
\* or leaves its variables alone.
LEMMA StepRefines ==
    ASSUME IInv, [Next]_vars
    PROVE  [KeepsPromise!Next]_<<verdict, execs>>
<1> USE DEF IInv, TypeOK, CallInv, SentInv, PipeInv, Busy
<1>1. CASE UNCHANGED vars \/ Over
  BY <1>1 DEF Over, vars
<1>2. ASSUME NEW r \in Req, Serve(r) PROVE KeepsPromise!Execute(r)
  <2>1. inbox[r] = 1 /\ execs[r] = 0 /\ verdict[r] # "none"
    BY <1>2 DEF Serve
  <2>2. execs' = [execs EXCEPT ![r] = 1] /\ UNCHANGED verdict
    BY <1>2, <2>1 DEF Serve
  <2> QED BY <2>1, <2>2 DEF KeepsPromise!Execute
<1>3. ASSUME NEW c \in Client, ReadOk(c) PROVE KeepsPromise!Answer(req[c]) /\ req[c] \in Req
  <2>1. reply[c] = req[c] /\ req[c] \in Req /\ execs[req[c]] = 1 /\ verdict[req[c]] = "pending"
    BY <1>3 DEF ReadOk, Step
  <2> QED BY <1>3, <2>1 DEF ReadOk, Tell, KeepsPromise!Answer
<1>4. ASSUME NEW c \in Client, WriteReconnect(c) \/ ReadReconnect(c)
      PROVE  UNCHANGED <<verdict, execs>> \/ (KeepsPromise!Fail(req[c]) /\ req[c] \in Req)
  <2>1. req[c] \in Req /\ verdict[req[c]] = "pending" /\ UNCHANGED execs
    BY <1>4 DEF WriteReconnect, ReadReconnect, Step
  <2>2. UNCHANGED verdict \/ Tell(c, "empty") \/ Tell(c, "threw")
    BY <1>4 DEF WriteReconnect, ReadReconnect
  <2> QED BY <2>1, <2>2 DEF Tell, KeepsPromise!Fail
<1>5. ASSUME NEW c \in Client, WriteOk(c) \/ WriteFail(c) \/ WriteError(c) \/ ReadFail(c)
                               \/ ReadError(c) \/ Drop(c) \/ Construct(c) \/ Destroy(c)
                               \/ Destroyed(c) \/ Reconnect(c)
      PROVE  UNCHANGED <<verdict, execs>>
  BY <1>5 DEF WriteOk, WriteFail, WriteError, ReadFail, ReadError, Drop, Construct, Destroy, Destroyed,
               Reconnect
<1>6. ASSUME NEW c \in Client, NEW r \in Req, NEW e \in {c, Dummy}, NEW again \in BOOLEAN,
             Call(c, r, e, again)
      PROVE  KeepsPromise!Issue(r)
  BY <1>6 DEF Call, KeepsPromise!Issue
<1>7. ASSUME NEW c \in Client, Proceed(c) \/ Use(c) \/ Drop(c)
      PROVE  [KeepsPromise!Next]_<<verdict, execs>>
  <2>1. CASE Proceed(c)
    BY <1>3, <1>4, <1>5, <2>1 DEF Proceed, KeepsPromise!Next
  <2>2. CASE Use(c)
    BY <1>5, <1>6, <2>2 DEF Use, KeepsPromise!Next
  <2>3. CASE Drop(c)
    BY <1>5, <2>3
  <2> QED BY <1>7, <2>1, <2>2, <2>3
<1> QED BY <1>1, <1>2, <1>7 DEF Next, KeepsPromise!Next

\* Each request is executed at most once and answered with its own response
\* or reported as failed: the connection implements RestCall.
THEOREM Refinement == Spec => Refines
BY InitRefines, StepRefines, Invariance, PTL DEF Spec, Refines, KeepsPromise!Spec

-----------------------------------------------------------------------------
(* What the client inherits from RestCall. *)

CallFacts == INSTANCE RestCallProofs

LEMMA SameCalls ==
    /\ KeepsPromise!Init <=> CallFacts!Init
    /\ [KeepsPromise!Next]_<<verdict, execs>> <=> [CallFacts!Next]_<<verdict, execs>>
    /\ KeepsPromise!AtMostOnce <=> CallFacts!AtMostOnce
BY DEF KeepsPromise!Init, CallFacts!Init, KeepsPromise!AtMostOnce, CallFacts!AtMostOnce,
   KeepsPromise!Next, KeepsPromise!Issue, KeepsPromise!Execute, KeepsPromise!Answer,
   KeepsPromise!Fail, CallFacts!Next, CallFacts!Issue, CallFacts!Execute, CallFacts!Answer,
   CallFacts!Fail

\* A request made with the client is executed at most once and reported on
\* once, however often its connection is replaced, and a body is that of an
\* executed request.
THEOREM PromiseInherited == Spec => []KeepsPromise!AtMostOnce /\ KeepsPromise!VerdictFinal
<1> DEFINE A == \A r \in Req :
                    /\ verdict[r] \in {"body", "empty", "threw"} => verdict'[r] = verdict[r]
                    /\ execs[r] = 1 => execs'[r] = 1
<1>1. CallFacts!Spec => []CallFacts!AtMostOnce
  BY CallFacts!ExecutedAtMostOnce, PTL
<1>2. CallFacts!Spec => [][A]_<<verdict, execs>>
  BY CallFacts!VerdictsFinal DEF CallFacts!VerdictFinal
<1> QED BY <1>1, <1>2, SameCalls, Refinement, PTL
        DEF Refines, KeepsPromise!Spec, CallFacts!Spec, KeepsPromise!VerdictFinal

=============================================================================
