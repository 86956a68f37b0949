----------------------------- MODULE RestClient -----------------------------
(***************************************************************************)
(* The synchronous HTTPS client, src/src/rest/client.{h,cpp}, and the      *)
(* Error objects its methods report to (src/src/types.h).                  *)
(*                                                                         *)
(* Each client is used by a thread of its own.  post, get, put and del     *)
(* differ in what they send, not in what they do: write the request, then  *)
(* read one response, on one connection that is replaced when either       *)
(* fails.  The network (TCP and TLS) and the exchange are external.        *)
(***************************************************************************)
EXTENDS Naturals

CONSTANTS Client,      \* the rest::Client objects, one per thread
          Req,         \* the requests that may be made
          None,
          Dummy        \* dummy_error, the default argument of every method

ASSUME RestAssumption ==
    /\ None \notin Req /\ "junk" \notin Req \cup {None}
    /\ Dummy \notin Client

VARIABLES
    pc,      \* where the thread of each client is
    req,     \* the request of its last or current call
    error,   \* the Error object that call was given
    reused,  \* the Error object held an earlier call's error
    code,    \* Error::code() of every Error object
    link,    \* the state of the client's connection
    waits,   \* the request whose response will come on that connection
    reply,   \* what the connection has for the client to read
    inbox,   \* copies of each request the exchange has received, not executed
    execs,   \* how often the exchange executed each request
    verdict  \* what the caller of each request was told

netVars == <<link, waits, reply>>
vars == <<pc, req, error, reused, code, link, waits, reply, inbox, execs, verdict>>

Errors == Client \cup {Dummy}

Init ==
    /\ pc = [c \in Client |-> "new"]
    /\ req = [c \in Client |-> None]
    /\ error = [c \in Client |-> Dummy]
    /\ reused = [c \in Client |-> FALSE]
    /\ code = [e \in Errors |-> 0]
    /\ link = [c \in Client |-> "down"]
    /\ waits = [c \in Client |-> None]
    /\ reply = [c \in Client |-> None]
    /\ inbox = [r \in Req |-> 0]
    /\ execs = [r \in Req |-> 0]
    /\ verdict = [r \in Req |-> "none"]

-----------------------------------------------------------------------------
(* The network and the exchange. *)

\* The exchange executes a request it received, and answers it if the
\* connection it came on still exists.
Serve(r) ==
    /\ inbox[r] > 0
    /\ inbox' = [inbox EXCEPT ![r] = @ - 1]
    /\ execs' = [execs EXCEPT ![r] = @ + 1]
    /\ reply' = [c \in Client |->
                   IF waits[c] = r /\ reply[c] = None THEN r ELSE reply[c]]
    /\ UNCHANGED <<pc, req, error, reused, code, link, waits, verdict>>

\* The connection dies; what it had delivered may be lost.
Drop(c) ==
    /\ link[c] # "down" /\ link' = [link EXCEPT ![c] = "down"]
    /\ waits' = [waits EXCEPT ![c] = None]
    /\ \E keep \in {reply[c], None} : reply' = [reply EXCEPT ![c] = keep]
    /\ UNCHANGED <<pc, req, error, reused, code, inbox, execs, verdict>>

\* connect(): a new connection takes the place of the old one, or an
\* exception: resolve() leaves the old connection, a later step has closed it.
\* The TLS stream is never renewed: whether its next handshake() starts a new
\* session is up to the library, and without one the peer cannot read what is
\* sent.
Connected(c) ==
    /\ \E l \in IF pc[c] = "new" THEN {"up"} ELSE {"up", "stale"} : link' = [link EXCEPT ![c] = l]
    /\ waits' = [waits EXCEPT ![c] = None]
    /\ reply' = [reply EXCEPT ![c] = None]

Closed(c) ==
    /\ link' = [link EXCEPT ![c] = "down"]
    /\ waits' = [waits EXCEPT ![c] = None]
    /\ reply' = [reply EXCEPT ![c] = None]

ConnectThrows(c) == UNCHANGED netVars \/ Closed(c)

-----------------------------------------------------------------------------
(* The client. *)

Step(c, from, to) == pc[c] = from /\ pc' = [pc EXCEPT ![c] = to]

Construct(c) ==
    /\ \/ Step(c, "new", "idle") /\ Connected(c)
       \/ Step(c, "new", "failed") /\ ConnectThrows(c)
    /\ UNCHANGED <<req, error, reused, code, inbox, execs, verdict>>

\* post, get, put, del, with the default Error, a new one, or one used before.
Call(c, r, e, again) ==
    /\ Step(c, "idle", "write")
    /\ verdict[r] = "none" /\ verdict' = [verdict EXCEPT ![r] = "pending"]
    /\ req' = [req EXCEPT ![c] = r]
    /\ error' = [error EXCEPT ![c] = e]
    /\ reused' = [reused EXCEPT ![c] = e = Dummy \/ again]
    /\ code' = [code EXCEPT ![e] = IF e = Dummy \/ again THEN @ ELSE 0]
    /\ UNCHANGED <<netVars, inbox, execs>>

\* writeToStream.  On a connection the peer has left the write may still
\* succeed, to no effect.
WriteOk(c) ==
    /\ Step(c, "write", "read")
    /\ IF link[c] = "up"
       THEN /\ inbox' = [inbox EXCEPT ![req[c]] = @ + 1]
            /\ waits' = [waits EXCEPT ![c] = req[c]]
       ELSE UNCHANGED <<inbox, waits>>
    /\ UNCHANGED <<req, error, reused, code, link, reply, execs, verdict>>

WriteFail(c) ==
    /\ Step(c, "write", "writeError") /\ link[c] # "up"
    /\ UNCHANGED <<req, error, reused, code, netVars, inbox, execs, verdict>>

\* error = Error(error_message, 2): a string and an int are assigned.
WriteError(c) ==
    /\ Step(c, "writeError", "writeReconnect")
    /\ code' = [code EXCEPT ![error[c]] = 2]
    /\ UNCHANGED <<req, error, reused, netVars, inbox, execs, verdict>>

Tell(c, v) == verdict' = [verdict EXCEPT ![req[c]] = v]

\* Mutant: the request is sent again on the new connection.
WriteRetry(c) ==
    /\ \/ Step(c, "writeReconnect", "write") /\ Connected(c) /\ UNCHANGED verdict
       \/ Step(c, "writeReconnect", "idle") /\ ConnectThrows(c) /\ Tell(c, "threw")
    /\ UNCHANGED <<req, error, reused, code, inbox, execs>>

\* The request is not sent again: the read that follows finds nothing.
WriteReconnect(c) ==
    /\ \/ Step(c, "writeReconnect", "read") /\ Connected(c) /\ UNCHANGED verdict
       \/ Step(c, "writeReconnect", "idle") /\ ConnectThrows(c) /\ Tell(c, "threw")
    /\ UNCHANGED <<req, error, reused, code, inbox, execs>>

\* readFromStream: the next response on the connection is returned.
ReadOk(c) ==
    /\ Step(c, "read", "idle") /\ reply[c] \in Req
    /\ waits' = [waits EXCEPT ![c] = None]
    /\ reply' = [reply EXCEPT ![c] = None]
    /\ Tell(c, IF reply[c] = req[c] THEN "body" ELSE "another's body")
    /\ UNCHANGED <<req, error, reused, code, link, inbox, execs>>

\* Mutant: a deadline ends the read and the connection is kept.
ReadTimeout(c) ==
    /\ Step(c, "read", "idle")
    /\ code' = [code EXCEPT ![error[c]] = 1] /\ Tell(c, "empty")
    /\ UNCHANGED <<req, error, reused, netVars, inbox, execs>>

\* The connection is lost, or the response is refused (malformed, or longer
\* than the parser's limit) and the rest of it stays in the connection.
ReadFail(c) ==
    /\ Step(c, "read", "readError")
    /\ link[c] # "up" \/ reply[c] # None
    /\ reply' = [reply EXCEPT ![c] = IF @ = None THEN None ELSE "junk"]
    /\ UNCHANGED <<req, error, reused, code, link, waits, inbox, execs, verdict>>

\* Mutant: the error is only logged.
ReadErrorLogged(c) ==
    /\ Step(c, "readError", "readReconnect")
    /\ UNCHANGED <<req, error, reused, code, netVars, inbox, execs, verdict>>

ReadError(c) ==
    /\ Step(c, "readError", "readReconnect")
    /\ code' = [code EXCEPT ![error[c]] = 1]
    /\ UNCHANGED <<req, error, reused, netVars, inbox, execs, verdict>>

\* Mutant: the request is sent again once the connection is back.
ReadRetry(c) ==
    /\ \/ Step(c, "readReconnect", "write") /\ Connected(c) /\ UNCHANGED verdict
       \/ Step(c, "readReconnect", "idle") /\ ConnectThrows(c) /\ Tell(c, "threw")
    /\ UNCHANGED <<req, error, reused, code, inbox, execs>>

\* Mutant: the response is awaited on the new connection.
ReadAgain(c) ==
    /\ \/ Step(c, "readReconnect", "read") /\ Connected(c) /\ UNCHANGED verdict
       \/ Step(c, "readReconnect", "idle") /\ ConnectThrows(c) /\ Tell(c, "threw")
    /\ UNCHANGED <<req, error, reused, code, inbox, execs>>

\* Mutant: a refused response returns "" on the same connection.
ReadKeepsConnection(c) ==
    /\ Step(c, "readReconnect", "idle") /\ Tell(c, "empty")
    /\ UNCHANGED <<req, error, reused, code, netVars, inbox, execs>>

\* The caller is told "" once the connection is back; nothing is read from it.
ReadReconnect(c) ==
    /\ \/ Step(c, "readReconnect", "idle") /\ Connected(c) /\ Tell(c, "empty")
       \/ Step(c, "readReconnect", "idle") /\ ConnectThrows(c) /\ Tell(c, "threw")
    /\ UNCHANGED <<req, error, reused, code, inbox, execs>>

\* The public reconnectStream(), called between requests.
Reconnect(c) ==
    /\ Step(c, "idle", "idle")
    /\ Connected(c) \/ ConnectThrows(c)
    /\ UNCHANGED <<req, error, reused, code, inbox, execs, verdict>>

\* ~Client: shutdown() waits for the peer; its errors are only logged.
Destroy(c) ==
    /\ Step(c, "idle", "shutdown")
    /\ UNCHANGED <<req, error, reused, code, netVars, inbox, execs, verdict>>

Destroyed(c) ==
    /\ Step(c, "shutdown", "gone")
    /\ Closed(c)
    /\ UNCHANGED <<req, error, reused, code, inbox, execs, verdict>>

Over == (\A c \in Client : pc[c] \in {"gone", "failed"}) /\ UNCHANGED vars

-----------------------------------------------------------------------------
\* A call under way proceeds.
Proceed(c) ==
    \/ WriteOk(c) \/ WriteFail(c) \/ WriteError(c) \/ WriteReconnect(c)
    \/ ReadOk(c) \/ ReadFail(c) \/ ReadError(c) \/ ReadReconnect(c)

\* The program makes calls, in a thread per client.
Use(c) ==
    \/ Construct(c) \/ Reconnect(c) \/ Destroy(c) \/ Destroyed(c)
    \/ \E r \in Req, again \in BOOLEAN : \E e \in {c, Dummy} : Call(c, r, e, again)

Next ==
    \/ \E c \in Client : Proceed(c) \/ Use(c) \/ Drop(c)
    \/ \E r \in Req : Serve(r)
    \/ Over

Spec == Init /\ [][Next]_vars

\* A read ends when there is something to read, or nothing will come.
Prompt(c) == Proceed(c) /\ (pc[c] = "read" => link[c] = "down" \/ reply[c] # None)

\* Threads are scheduled and the exchange serves what it receives.
FairSpec ==
    /\ Spec
    /\ \A c \in Client : WF_vars(Prompt(c))
    /\ \A r \in Req : WF_vars(Serve(r))

\* Besides, it closes connections on which it has nothing to do.
IdleClose(c) == waits[c] = None /\ reply[c] = None /\ Drop(c)
ClosingSpec == FairSpec /\ \A c \in Client : WF_vars(IdleClose(c))

-----------------------------------------------------------------------------
(* Properties. *)

\* The values the variables range over; nothing is executed more than once.
TypeOK ==
    /\ pc \in [Client -> {"new", "failed", "idle", "write", "writeError", "writeReconnect",
                          "read", "readError", "readReconnect", "shutdown", "gone"}]
    /\ req \in [Client -> Req \cup {None}]
    /\ error \in [Client -> Errors]
    /\ reused \in [Client -> BOOLEAN]
    /\ code \in [Errors -> 0..2]
    /\ link \in [Client -> {"up", "stale", "down"}]
    /\ waits \in [Client -> Req \cup {None}]
    /\ reply \in [Client -> Req \cup {None, "junk"}]
    /\ inbox \in [Req -> 0..1] /\ execs \in [Req -> 0..1]
    /\ verdict \in [Req -> {"none", "pending", "body", "empty", "threw"}]

Told(c, v) == pc[c] = "idle" /\ req[c] # None /\ verdict[req[c]] \in v

\* No failure is silent and no success is blamed, for a call that was given
\* an Error of its own: "" comes with a read error, also when the write had
\* failed before, an exception with either, a response with none.
ErrorTellsVerdict ==
    \A c \in Client : error[c] = c =>
        /\ Told(c, {"empty"}) => code[c] = 1
        /\ Told(c, {"threw"}) => code[c] # 0
        /\ Told(c, {"body"}) /\ ~reused[c] => code[c] = 0

\* A write error in a new Error means that the exchange never received the
\* request and never will, so that the caller can make it again.
WriteErrorNotSent ==
    \A c \in Client : Told(c, {"body", "empty", "threw"}) /\ error[c] = c /\ ~reused[c] /\ code[c] = 2
        => inbox[req[c]] = 0 /\ execs[req[c]] = 0

\* A method that returns leaves nothing of its request on the connection for
\* the next one to read.  One that throws may leave the old connection in
\* place, but only with the unreadable rest of a refused response: no answer
\* that the next call could take for its own is there, or still to come.
NothingLeft ==
    \A c \in Client :
        /\ Told(c, {"body", "empty"}) => waits[c] = None /\ reply[c] = None
        /\ Told(c, {"threw"}) => reply[c] = "junk" \/ (waits[c] = None /\ reply[c] = None)

\* A read for which nothing will ever come on a connection that exists is one
\* whose write failed, or was lost on a TLS stream that was used again: an
\* order whose call hangs there was not placed and will not be.  On a
\* connection that works the call's own Error already holds the write error.
HangsNotSent ==
    \A c \in Client : pc[c] = "read" /\ link[c] # "down" /\ waits[c] = None /\ reply[c] = None =>
        /\ inbox[req[c]] = 0 /\ execs[req[c]] = 0
        /\ error[c] = c /\ link[c] = "up" => code[c] = 2

\* Each request is executed at most once, and the body a caller gets is that
\* of its own, executed request, whatever is lost, refused or reconnected.
KeepsPromise == INSTANCE RestCall
Refines == KeepsPromise!Spec

\* A call returns or throws ("Send HTTP POST request. Returns response
\* body.", rest/client.h).
CallReturns ==
    \A c \in Client : pc[c] \notin {"new", "failed", "idle", "shutdown", "gone"} ~> pc[c] = "idle"

=============================================================================
