---------------------------- MODULE RestCallProofs ----------------------------
(***************************************************************************)
(* Proofs about RestCall for every set of requests.  They hold of every    *)
(* client that implements it and of every program that is built on it.     *)
(***************************************************************************)
EXTENDS RestCall, TLAPS

\* A verdict other than none and pending never leads to another.
CallInv ==
    /\ verdict \in [Req -> {"none", "pending", "body", "empty", "threw"}]
    /\ execs \in [Req -> 0..1]
    /\ AtMostOnce

LEMMA NextCallInv == CallInv /\ [Next]_<<verdict, execs>> => CallInv'
<1> SUFFICES ASSUME CallInv, [Next]_<<verdict, execs>> PROVE CallInv'
  OBVIOUS
<1> USE DEF CallInv, AtMostOnce
<1>1. CASE UNCHANGED <<verdict, execs>>
  BY <1>1
<1>2. ASSUME NEW r \in Req, Issue(r) \/ Execute(r) \/ Answer(r) \/ Fail(r) PROVE CallInv'
  BY <1>2 DEF Issue, Execute, Answer, Fail
<1> QED BY <1>1, <1>2 DEF Next

\* A request is executed at most once, and an answered one was executed.
THEOREM ExecutedAtMostOnce == Spec => [](CallInv /\ AtMostOnce)
<1>1. Init => CallInv
  BY DEF Init, CallInv, AtMostOnce
<1>2. CallInv => AtMostOnce
  BY DEF CallInv
<1> QED BY <1>1, <1>2, NextCallInv, PTL DEF Spec

\* A verdict is final and an execution is not undone.
THEOREM VerdictsFinal == Spec => VerdictFinal
<1> DEFINE A == \A r \in Req :
                    /\ verdict[r] \in {"body", "empty", "threw"} => verdict'[r] = verdict[r]
                    /\ execs[r] = 1 => execs'[r] = 1
<1>1. CallInv /\ [Next]_<<verdict, execs>> => [A]_<<verdict, execs>>
  BY DEF CallInv, Next, Issue, Execute, Answer, Fail
<1> QED BY ExecutedAtMostOnce, <1>1, PTL DEF Spec, VerdictFinal

=============================================================================
