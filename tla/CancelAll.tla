------------------------------ MODULE CancelAll ------------------------------
(***************************************************************************)
(* cancelAllOpenOrders of src/src/policies/binancepolicy.h: the open       *)
(* orders are fetched with one GET and cancelled with one DELETE each,     *)
(* while the exchange goes on filling and accepting orders.                *)
(*                                                                         *)
(* Each request is a call of RestCall, which RestClient implements: it is  *)
(* executed at most once, possibly after its failure was reported.         *)
(***************************************************************************)
EXTENDS Naturals

CONSTANTS Order,  \* the orders of the account
          Known,  \* those whose symbol is in Binance::stringToTokenPair
          List,   \* the GET request for the open orders
          None

ASSUME CancelAssumption ==
    /\ Known \subseteq Order
    /\ List \notin Order /\ None \notin Order

VARIABLES
    verdict, execs,  \* of every request, as in RestCall
    state,    \* of every order at the exchange
    refused,  \* the requests the exchange refused (rate limit, unknown order)
    listed,   \* the orders in the response to List
    todo,     \* those the loop has not reached
    cur,      \* the order being cancelled
    pc

callVars == <<verdict, execs>>
vars == <<verdict, execs, state, refused, listed, todo, cur, pc>>

Rest == INSTANCE RestCall WITH Req <- Order \cup {List}

Open == {o \in Order : state[o] = "open"}

Init ==
    /\ Rest!Init
    /\ state \in [Order -> {"future", "open"}]
    /\ refused = {} /\ listed = {} /\ todo = {} /\ cur = None
    /\ pc = "idle"

-----------------------------------------------------------------------------
(* The exchange. *)

Place(o) ==
    /\ state[o] = "future" /\ state' = [state EXCEPT ![o] = "open"]
    /\ UNCHANGED <<callVars, refused, listed, todo, cur, pc>>

Fill(o) ==
    /\ state[o] = "open" /\ state' = [state EXCEPT ![o] = "gone"]
    /\ UNCHANGED <<callVars, refused, listed, todo, cur, pc>>

\* The list is what is open when the exchange executes the request.
ServeList ==
    /\ Rest!Execute(List)
    /\ \/ listed' = Open /\ UNCHANGED refused
       \/ refused' = refused \cup {List} /\ UNCHANGED listed
    /\ UNCHANGED <<state, todo, cur, pc>>

\* An order that is no longer open cannot be cancelled; any request may be
\* refused.  A refusal is a response like any other to the client.
ServeCancel(o) ==
    /\ Rest!Execute(o)
    /\ \/ /\ state[o] = "open" /\ state' = [state EXCEPT ![o] = "cancelled"]
          /\ UNCHANGED refused
       \/ refused' = refused \cup {o} /\ UNCHANGED state
    /\ UNCHANGED <<listed, todo, cur, pc>>

-----------------------------------------------------------------------------
(* The client. *)

\* getOpenOrders.
Start ==
    /\ pc = "idle" /\ pc' = "list" /\ Rest!Issue(List)
    /\ UNCHANGED <<state, refused, listed, todo, cur>>

\* Mutant: anything but an array of orders is taken for an empty one.
ListAnsweredAnything ==
    /\ pc = "list" /\ Rest!Answer(List)
    /\ todo' = listed /\ pc' = "loop"
    /\ UNCHANGED <<state, refused, listed, cur>>

\* Mutant: the orders are taken from a live view, not from the response.
ListAnsweredLive ==
    /\ pc = "list" /\ Rest!Answer(List)
    /\ IF List \in refused THEN pc' = "threw" /\ UNCHANGED todo
                           ELSE pc' = "loop" /\ todo' = Open
    /\ UNCHANGED <<state, refused, listed, cur>>

\* The response is iterated; a refusal is not an array and throws.
ListAnswered ==
    /\ pc = "list" /\ Rest!Answer(List)
    /\ IF List \in refused THEN pc' = "threw" /\ UNCHANGED todo
                           ELSE pc' = "loop" /\ todo' = listed
    /\ UNCHANGED <<state, refused, listed, cur>>

\* Nor is "" an array; an exception of the connection passes through.
ListFailed ==
    /\ pc = "list" /\ Rest!Fail(List) /\ pc' = "threw"
    /\ UNCHANGED <<state, refused, listed, todo, cur>>

\* cancelOrder of the next element.
CancelNext(o) ==
    /\ pc = "loop" /\ o \in todo /\ o \in Known
    /\ Rest!Issue(o)
    /\ cur' = o /\ todo' = todo \ {o} /\ pc' = "cancel"
    /\ UNCHANGED <<state, refused, listed>>

\* it->second of end(): undefined.
CancelUnknown(o) ==
    /\ pc = "loop" /\ o \in todo \ Known /\ pc' = "undefined"
    /\ UNCHANGED <<callVars, state, refused, listed, todo, cur>>

\* The response is not looked at.
CancelAnswered ==
    /\ pc = "cancel" /\ Rest!Answer(cur) /\ pc' = "loop" /\ cur' = None
    /\ UNCHANGED <<state, refused, listed, todo>>

\* Mutant: the first failure ends the loop.
CancelFailedStops ==
    /\ pc = "cancel" /\ Rest!Fail(cur)
    /\ pc' = "returned" /\ cur' = None
    /\ UNCHANGED <<state, refused, listed, todo>>

\* Mutant: a failed cancellation is awaited again.
CancelFailedWaits ==
    /\ pc = "cancel" /\ Rest!Fail(cur)
    /\ UNCHANGED <<state, refused, listed, todo, cur, pc>>

\* Nor is the error, which is dummy_error; only an exception ends the loop.
CancelFailed ==
    /\ pc = "cancel" /\ Rest!Fail(cur)
    /\ pc' = IF verdict'[cur] = "threw" THEN "threw" ELSE "loop"
    /\ cur' = None
    /\ UNCHANGED <<state, refused, listed, todo>>

Return ==
    /\ pc = "loop" /\ todo = {} /\ pc' = "returned"
    /\ UNCHANGED <<callVars, state, refused, listed, todo, cur>>

-----------------------------------------------------------------------------
Exchange ==
    \/ ServeList
    \/ \E o \in Order : Place(o) \/ Fill(o) \/ ServeCancel(o)

Client ==
    \/ ListAnswered \/ ListFailed \/ CancelAnswered \/ CancelFailed \/ Return
    \/ \E o \in Order : CancelNext(o) \/ CancelUnknown(o)

Next == Start \/ Client \/ Exchange

Spec == Init /\ [][Next]_vars

\* Every request returns, which RestClient shows under its ClosingSpec, and so
\* the loop goes on.
FairSpec == Spec /\ WF_vars(Client)

-----------------------------------------------------------------------------
(* Properties. *)

\* The values the variables range over.
TypeOK ==
    /\ verdict \in [Order \cup {List} -> {"none", "pending", "body", "empty", "threw"}]
    /\ execs \in [Order \cup {List} -> 0..1]
    /\ state \in [Order -> {"future", "open", "gone", "cancelled"}]
    /\ refused \subseteq Order \cup {List}
    /\ listed \subseteq Order /\ todo \subseteq listed
    /\ cur \in Order \cup {None}
    /\ pc \in {"idle", "list", "loop", "cancel", "returned", "threw", "undefined"}

\* A normal return means that the exchange gave the list and that the
\* cancellation of every order in it was requested and reported on.
EveryOrderTried ==
    pc = "returned" =>
        /\ verdict[List] = "body" /\ List \notin refused
        /\ \A o \in listed : verdict[o] \in {"body", "empty"}

\* An order of the list that survives a normal return was in a request that
\* failed or was refused: the code has no other way to leave one.
SurvivorExplained ==
    pc = "returned" =>
        \A o \in listed : state[o] = "open" => o \in refused \/ verdict[o] = "empty"

\* The call ends, however many requests fail.
Ends == pc = "list" ~> pc \in {"returned", "threw", "undefined"}

\* All open orders are cancelled when the call returns ("Cancel all open
\* orders by fetching and iterating them", binancepolicy.h).
AllCancelled == pc = "returned" => \A o \in listed : state[o] # "open"

=============================================================================
