------------------------------ MODULE RestCall ------------------------------
(***************************************************************************)
(* What one HTTPS request of src/src/rest/client.h promises its caller,    *)
(* whatever the connection does: the exchange executes it at most once,    *)
(* and only a request it has executed is answered.  A failed request may   *)
(* have been executed, and may still be after the failure was reported.    *)
(***************************************************************************)
EXTENDS Naturals

CONSTANT Req  \* the requests the program makes

VARIABLES
    verdict,  \* what the caller has been told of each request
    execs     \* how often the exchange has executed it

Init ==
    /\ verdict = [r \in Req |-> "none"]
    /\ execs = [r \in Req |-> 0]

Issue(r) ==
    /\ verdict[r] = "none"
    /\ verdict' = [verdict EXCEPT ![r] = "pending"]
    /\ UNCHANGED execs

Execute(r) ==
    /\ verdict[r] # "none" /\ execs[r] = 0
    /\ execs' = [execs EXCEPT ![r] = 1]
    /\ UNCHANGED verdict

\* The response body is returned.
Answer(r) ==
    /\ verdict[r] = "pending" /\ execs[r] = 1
    /\ verdict' = [verdict EXCEPT ![r] = "body"]
    /\ UNCHANGED execs

\* "" is returned, or an exception leaves the method.
Fail(r) ==
    /\ verdict[r] = "pending"
    /\ \E v \in {"empty", "threw"} : verdict' = [verdict EXCEPT ![r] = v]
    /\ UNCHANGED execs

Next == \E r \in Req : Issue(r) \/ Execute(r) \/ Answer(r) \/ Fail(r)

Spec == Init /\ [][Next]_<<verdict, execs>>

-----------------------------------------------------------------------------
(* What it promises. *)

\* A request is executed at most once, not before it is made, and certainly
\* when its body was returned.
AtMostOnce ==
    \A r \in Req : /\ execs[r] \in 0..1
                   /\ verdict[r] = "none" => execs[r] = 0
                   /\ verdict[r] = "body" => execs[r] = 1

\* A request is reported on once, and what was executed stays so: a program
\* that counts the bodies it was given never counts too many.
VerdictFinal ==
    [][\A r \in Req :
            /\ verdict[r] \in {"body", "empty", "threw"} => verdict'[r] = verdict[r]
            /\ execs[r] = 1 => execs'[r] = 1]_<<verdict, execs>>
=============================================================================
