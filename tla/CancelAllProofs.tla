--------------------------- MODULE CancelAllProofs ---------------------------
(***************************************************************************)
(* Proofs about CancelAll for every set of orders.                         *)
(*                                                                         *)
(* An order of the list is still to do, is the current one, or has a       *)
(* verdict; an order whose cancellation was executed was refused or is no  *)
(* longer open.                                                            *)
(***************************************************************************)
EXTENDS CancelAll, TLAPS

\* The list is known once its request is executed, and not looked at before
\* it is answered.
ListInv ==
    /\ execs[List] = 0 => listed = {}
    /\ pc = "idle" => verdict[List] = "none" /\ execs[List] = 0
    /\ pc \in {"idle", "list"} => todo = {} /\ cur = None
    /\ pc = "list" => verdict[List] = "pending"
    /\ pc \in {"loop", "cancel", "returned"} =>
          verdict[List] = "body" /\ List \notin refused /\ execs[List] = 1

\* How far the loop is.
LoopInv ==
    /\ pc \in {"loop", "cancel", "returned"} =>
          \A o \in listed \ todo : o = cur \/ verdict[o] \in {"body", "empty"}
    /\ pc = "cancel" => cur \in Order /\ cur \notin todo /\ verdict[cur] = "pending"
    /\ pc # "cancel" => cur = None
    /\ pc = "returned" => todo = {}
    /\ \A o \in todo : verdict[o] = "none"
    /\ pc \in {"idle", "list"} => \A o \in Order : verdict[o] = "none"

\* What the exchange has done with the requests it executed.
ExecInv ==
    /\ \A r \in Order \cup {List} : verdict[r] = "none" => execs[r] = 0
    /\ \A r \in Order \cup {List} : verdict[r] = "body" => execs[r] = 1
    /\ \A o \in Order : execs[o] = 1 => o \in refused \/ state[o] \in {"cancelled", "gone"}
    /\ \A o \in listed : state[o] # "future"

IInv == TypeOK /\ ListInv /\ LoopInv /\ ExecInv

-----------------------------------------------------------------------------
LEMMA InitIInv == Init => IInv
BY CancelAssumption DEF Init, Rest!Init, IInv, TypeOK, ListInv, LoopInv, ExecInv

\* The exchange executes a request that was issued, once.
LEMMA ExchangeStep ==
    ASSUME IInv, Exchange
    PROVE  IInv'
<1> USE CancelAssumption DEF IInv, TypeOK, ListInv, LoopInv, ExecInv
<1>1. CASE ServeList
  BY <1>1 DEF ServeList, Rest!Execute, Open
<1>2. ASSUME NEW o \in Order, Place(o) \/ Fill(o) PROVE IInv'
  BY <1>2 DEF Place, Fill, callVars
<1>3. ASSUME NEW o \in Order, ServeCancel(o) PROVE IInv'
  BY <1>3 DEF ServeCancel, Rest!Execute
<1> QED BY <1>1, <1>2, <1>3 DEF Exchange

\* The client moves an order from todo to cur, and from there to a verdict.
LEMMA ClientStep ==
    ASSUME IInv, Start \/ Client
    PROVE  IInv'
<1> USE CancelAssumption DEF IInv, TypeOK, ListInv, LoopInv, ExecInv
<1>1. CASE Start
  BY <1>1 DEF Start, Rest!Issue
<1>2. CASE ListAnswered
  BY <1>2 DEF ListAnswered, Rest!Answer
<1>3. CASE ListFailed
  BY <1>3 DEF ListFailed, Rest!Fail
<1>4. ASSUME NEW o \in Order, CancelNext(o) PROVE IInv'
  BY <1>4 DEF CancelNext, Rest!Issue
<1>5. ASSUME NEW o \in Order, CancelUnknown(o) PROVE IInv'
  BY <1>5 DEF CancelUnknown, callVars
<1>6. CASE CancelAnswered
  BY <1>6 DEF CancelAnswered, Rest!Answer
<1>7. CASE CancelFailed
  BY <1>7 DEF CancelFailed, Rest!Fail
<1>8. CASE Return
  BY <1>8 DEF Return, callVars
<1> QED BY <1>1, <1>2, <1>3, <1>4, <1>5, <1>6, <1>7, <1>8 DEF Client

LEMMA NextIInv == IInv /\ [Next]_vars => IInv'
<1> SUFFICES ASSUME IInv, [Next]_vars PROVE IInv'
  OBVIOUS
<1>1. CASE UNCHANGED vars
  BY <1>1 DEF vars, IInv, TypeOK, ListInv, LoopInv, ExecInv
<1> QED BY <1>1, ExchangeStep, ClientStep DEF Next

\* The invariant that the theorems below follow from.
THEOREM Invariance == Spec => []IInv
BY InitIInv, NextIInv, PTL DEF Spec

-----------------------------------------------------------------------------
\* The variables keep their types.
THEOREM TypeCorrect == Spec => []TypeOK
<1>1. IInv => TypeOK
  BY DEF IInv
<1> QED BY Invariance, <1>1, PTL

\* cancelAllOpenOrders never returns normally without having requested, and
\* waited for, the cancellation of every order in a list it was given.
THEOREM AllTried == Spec => []EveryOrderTried
<1>1. IInv => EveryOrderTried
  BY CancelAssumption DEF IInv, TypeOK, ListInv, LoopInv, EveryOrderTried
<1> QED BY Invariance, <1>1, PTL

\* What survives is what was refused or failed.
THEOREM SurvivorsExplained == Spec => []SurvivorExplained
<1>1. IInv => SurvivorExplained
  BY CancelAssumption DEF IInv, TypeOK, LoopInv, ExecInv, SurvivorExplained
<1> QED BY Invariance, <1>1, PTL

\* An exchange that refuses nothing and a connection that fails nothing leave
\* no order of the list open: the code loses none by itself (a corollary).
THEOREM AllCancelledIfAnswered ==
    Spec => [](refused = {} /\ (\A o \in Order : verdict[o] # "empty") => AllCancelled)
<1>1. IInv => (refused = {} /\ (\A o \in Order : verdict[o] # "empty") => AllCancelled)
  BY CancelAssumption DEF IInv, TypeOK, LoopInv, ExecInv, AllCancelled
<1> QED BY Invariance, <1>1, PTL

-----------------------------------------------------------------------------
(* The requests of the loop are those of the REST client. *)

CallFacts == INSTANCE RestCallProofs WITH Req <- Order \cup {List}

\* The loop, composed with the exchange, makes each of its requests as a
\* caller of RestCall may.
LEMMA StepCalls ==
    ASSUME IInv, [Next]_vars
    PROVE  [CallFacts!Next]_<<verdict, execs>>
<1> USE DEF CallFacts!Next, CallFacts!Issue, CallFacts!Execute, CallFacts!Answer, CallFacts!Fail
<1>1. CASE UNCHANGED vars
  BY <1>1 DEF vars
<1>2. CASE Exchange
  BY <1>2 DEF Exchange, ServeList, Place, Fill, ServeCancel, Rest!Execute, callVars
<1>3. CASE Start \/ ListAnswered \/ ListFailed
  BY <1>3 DEF Start, ListAnswered, ListFailed, Rest!Issue, Rest!Answer, Rest!Fail
<1>4. CASE CancelAnswered \/ CancelFailed
  <2> cur \in Order
    BY <1>4 DEF CancelAnswered, CancelFailed, IInv, LoopInv
  <2> QED BY <1>4 DEF CancelAnswered, CancelFailed, Rest!Answer, Rest!Fail
<1>5. CASE Return \/ \E o \in Order : CancelNext(o) \/ CancelUnknown(o)
  BY <1>5 DEF Return, CancelNext, CancelUnknown, Rest!Issue, callVars
<1> QED BY <1>1, <1>2, <1>3, <1>4, <1>5 DEF Next, Client

\* No order is cancelled twice and no verdict is revised: the list and every
\* cancellation is executed at most once, failures and exceptions included.
THEOREM CallsInherited == Spec => CallFacts!Spec /\ []CallFacts!AtMostOnce /\ CallFacts!VerdictFinal
<1>1. Init => CallFacts!Init
  BY DEF Init, Rest!Init, CallFacts!Init
<1>2. Spec => CallFacts!Spec
  BY <1>1, StepCalls, Invariance, PTL DEF Spec, CallFacts!Spec
<1>3. CallFacts!Spec => []CallFacts!AtMostOnce
  BY CallFacts!ExecutedAtMostOnce, PTL
<1>4. CallFacts!Spec => CallFacts!VerdictFinal
  BY CallFacts!VerdictsFinal
<1> QED BY <1>2, <1>3, <1>4

=============================================================================
