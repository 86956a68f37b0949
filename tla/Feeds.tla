-------------------------------- MODULE Feeds --------------------------------
(***************************************************************************)
(* What the WebSocket client of src/src/websocket/client.h promises about  *)
(* the feeds it manages, whatever its threads do: an endpoint has one      *)
(* registered feed; a feed that runs without being registered is being     *)
(* installed or removed by the one call under way, and nothing new is      *)
(* started before that call is done with it; a feed is destroyed when its  *)
(* callbacks are over.                                                     *)
(***************************************************************************)

CONSTANTS Url, Feed, None

VARIABLES
    registered,  \* the feed of each endpoint
    of,          \* the endpoint of each feed, once it was started
    live,        \* the feeds whose callbacks may run
    destroyed

vars == <<registered, of, live, destroyed>>

Init ==
    /\ registered = [u \in Url |-> None]
    /\ of = [f \in Feed |-> None]
    /\ live = {} /\ destroyed = {}

\* Every feed that runs is the registered one of its endpoint.
Settled == \A f \in live : registered[of[f]] = f

Start(f, u) ==
    /\ of[f] = None /\ Settled
    /\ of' = [of EXCEPT ![f] = u]
    /\ live' = live \cup {f}
    /\ UNCHANGED <<registered, destroyed>>

\* The feed takes its place, and perhaps that of another.  No feed but these
\* two may be out of place.
Register(f) ==
    /\ of[f] \in Url /\ f \notin destroyed /\ registered[of[f]] # f
    /\ \A g \in live \ {f} : registered[of[g]] = g
    /\ registered' = [registered EXCEPT ![of[f]] = f]
    /\ UNCHANGED <<of, live, destroyed>>

Unregister(u) ==
    /\ registered[u] # None /\ Settled
    /\ registered' = [registered EXCEPT ![u] = None]
    /\ UNCHANGED <<of, live, destroyed>>

\* The last callback of the feed is over.
End(f) ==
    /\ f \in live /\ live' = live \ {f}
    /\ UNCHANGED <<registered, of, destroyed>>

Destroy(f) ==
    /\ of[f] \in Url /\ registered[of[f]] # f
    /\ f \notin live /\ destroyed' = destroyed \cup {f}
    /\ UNCHANGED <<registered, of, live>>

\* Several endpoints are dropped together with their feeds.
Remove(S) ==
    /\ \A u \in S : registered[u] \notin live
    /\ registered' = [u \in Url |-> IF u \in S THEN None ELSE registered[u]]
    /\ destroyed' = destroyed \cup {registered[u] : u \in S}
    /\ UNCHANGED <<of, live>>

Next ==
    \/ \E f \in Feed, u \in Url : Start(f, u)
    \/ \E f \in Feed : Register(f) \/ End(f) \/ Destroy(f)
    \/ \E u \in Url : Unregister(u)
    \/ \E S \in SUBSET {u \in Url : registered[u] # None} : Remove(S)

Spec == Init /\ [][Next]_vars

-----------------------------------------------------------------------------
(* What the registry promises. *)

\* No callback of a destroyed feed runs, and none is registered, so that none
\* can be found and used.
DestroyedAtRest ==
    /\ live \cap destroyed = {}
    /\ \A u \in Url : registered[u] # None => registered[u] \notin destroyed

\* At most one feed runs without being the registered one of its endpoint, so
\* that an endpoint has at most two, the old and the new one.
OneOutOfPlace ==
    \A f, g \in live : registered[of[f]] # f /\ registered[of[g]] # g => f = g

\* A feed that has ended never runs again, and never serves another endpoint.
EndsForGood ==
    [][\A f \in Feed : of[f] # None =>
            of'[f] = of[f] /\ (f \notin live => f \notin live')]_vars
=============================================================================
