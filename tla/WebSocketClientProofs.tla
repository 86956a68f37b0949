------------------------ MODULE WebSocketClientProofs ------------------------
(***************************************************************************)
(* Proofs about WebSocketClient for every set of endpoints and objects.    *)
(*                                                                         *)
(* None of the safety properties is inductive.  What makes them so is who  *)
(* owns a running thread: the map entry of its endpoint, or the call the   *)
(* application thread is in the middle of.                                 *)
(***************************************************************************)
EXTENDS WebSocketClient, TLAPS

\* The calls that hold an object of their own, not (or no longer) in the map.
Holding == {"started", "inserting", "replacing", "reaping"}

\* The calls that work on the entry of `cur'.
Visiting == {"stopping", "erasing", "reap", "allJoin"}

\* An object that was never created is nowhere.
FreshInv == \A c \in Conn : thr[c] = "none" =>
    url[c] = None /\ c \notin freed /\ got[c] = {}

CreatedInv == \A c \in Conn : thr[c] # "none" => url[c] \in Url

\* The map holds live objects under their own endpoint.
MapInv == \A u \in Url : connections[u] # None =>
    /\ thr[connections[u]] # "none"
    /\ url[connections[u]] = u
    /\ connections[u] \notin freed

FreedInv == \A c \in freed : thr[c] = "exited"

CurInv ==
    /\ pc \in Holding =>
        /\ cur \in Conn /\ thr[cur] # "none" /\ cur \notin freed
        /\ connections[url[cur]] # cur
    /\ pc \in Visiting =>
        /\ cur \in Conn /\ thr[cur] # "none"
        /\ connections[url[cur]] = cur
    /\ pc = "erasing" => thr[cur] = "exited"
    /\ pc = "reaping" => connections[url[cur]] = None

\* Every running thread has an owner that will join it.
OwnedInv == \A c \in Conn : Running(c) =>
    \/ connections[url[c]] = c
    \/ pc \in Holding /\ cur = c
    \/ pc = "crashed"

\* The loops of disconnectAll and wait visit entries that exist; what
\* disconnectAll has visited has exited.
LoopInv ==
    /\ pc \in {"all", "allJoin", "scan", "reap", "reaping"} =>
        \A u \in todo : connections[u] # None
    /\ pc = "reap" => url[cur] \notin todo
    /\ pc \in {"all", "allJoin"} =>
        \A u \in Keys \ todo :
            \/ thr[connections[u]] = "exited"
            \/ pc = "allJoin" /\ connections[u] = cur
    /\ pc = "destroyed" => Keys = {}

\* What a handler found has the handler's endpoint, if it asked for it.
FoundInv == \A c \in Conn : thr[c] = "sending" =>
    /\ ptr[c] \in Conn /\ thr[ptr[c]] # "none"
    /\ Handler[url[c]] = "endpoint" => url[ptr[c]] = url[c]

IInv ==
    /\ TypeOK /\ FreshInv /\ CreatedInv /\ MapInv /\ FreedInv /\ CurInv
    /\ OwnedInv /\ LoopInv /\ FoundInv /\ SubscribesOwnEndpoint

\* A handler that asks for an endpoint which is not replaced finds its own object.
NoReplaceInv ==
    /\ pc \in {"started", "inserting"} => connections[url[cur]] = None \/ url[cur] \in Replaceable
    /\ pc = "replacing" => url[cur] \in Replaceable
    /\ \A c \in Conn : thr[c] = "lookup" => Handler[url[c]] # "none"
    /\ \A c \in Conn : thr[c] = "sending" => ptr[c] = c

-----------------------------------------------------------------------------
(* The inductive invariant. *)

\* Nothing runs and nothing is registered at first.
LEMMA InitIInv == Init => IInv
<1> SUFFICES ASSUME Init PROVE IInv
  OBVIOUS
<1> USE WsAssumption DEF Init
<1>1. TypeOK
  BY DEF TypeOK
<1>2. FreshInv /\ CreatedInv /\ MapInv /\ FreedInv
  BY DEF FreshInv, CreatedInv, MapInv, FreedInv
<1>3. CurInv /\ LoopInv
  BY DEF CurInv, LoopInv, Holding, Visiting
<1>4. OwnedInv /\ FoundInv /\ SubscribesOwnEndpoint
  BY DEF OwnedInv, Running, FoundInv, SubscribesOwnEndpoint
<1> QED BY <1>1, <1>2, <1>3, <1>4 DEF IInv

\* What the library's thread does on its own: an exit ends the ownership, a
\* dropped session forgets what the server received.
LEMMA LibraryStep ==
    ASSUME IInv, NEW c \in Conn,
           IxConnect(c) \/ IxDrop(c) \/ IxReconnect(c) \/ IxExit(c)
             \/ MessageBegin(c) \/ MessageEnd(c)
    PROVE  IInv'
<1> USE WsAssumption DEF IInv, TypeOK, FreshInv, CreatedInv, MapInv, FreedInv, CurInv,
            OwnedInv, LoopInv, FoundInv, SubscribesOwnEndpoint, Holding, Visiting
<1>1. CASE IxConnect(c)
  BY <1>1 DEF IxConnect, Running, Keys, appVars
<1>2. CASE IxDrop(c)
  BY <1>2 DEF IxDrop, Running, Keys, appVars
<1>3. CASE IxReconnect(c)
  BY <1>3 DEF IxReconnect, Running, Keys, appVars
<1>4. CASE IxExit(c)
  BY <1>4 DEF IxExit, Running, Keys, appVars
<1>5. CASE MessageBegin(c)
  BY <1>5 DEF MessageBegin, Running, Keys, appVars
<1>6. CASE MessageEnd(c)
  BY <1>6 DEF MessageEnd, Running, Keys, appVars
<1> QED BY <1>1, <1>2, <1>3, <1>4, <1>5, <1>6

\* A handler finds an object of its own endpoint, even in a map that changes,
\* because both the old and the new map satisfy MapInv.
LEMMA HandlerStep ==
    ASSUME IInv, NEW c \in Conn,
           OnOpen(c) \/ Lookup(c) \/ RacyLookup(c) \/ SendOn(c) \/ SendOnFreed(c)
             \/ Quit(c) \/ RacyQuit(c) \/ QuitThrows(c)
    PROVE  IInv'
<1> USE WsAssumption DEF IInv, TypeOK, FreshInv, CreatedInv, MapInv, FreedInv, CurInv,
            OwnedInv, LoopInv, FoundInv, SubscribesOwnEndpoint, Holding, Visiting
<1>1. CASE OnOpen(c)
  BY <1>1 DEF OnOpen, Running, Keys, appVars
<1>2. CASE Lookup(c)
  <2>1. PICK p \in Found(connections, c) : LookupResult(c, p)
    BY <1>2 DEF Lookup
  <2>2. /\ UNCHANGED <<connections, url, wasOpen, freed, ready, stopping, got, appVars>>
        /\ raced' \in SUBSET Conn /\ c \in Conn /\ thr[c] = "lookup"
    BY <1>2, <2>1 DEF Lookup, LookupResult, appVars
  <2>3. \/ p = None
        \/ \E u \in Url : p = connections[u] /\ (Handler[url[c]] = "endpoint" => u = url[c])
    BY <2>2 DEF Found, Begin
  <2> QED BY <2>1, <2>2, <2>3 DEF LookupResult, Running, Keys, appVars
<1>3. CASE RacyLookup(c)
  BY <1>3 DEF RacyLookup, LookupResult, Found, Begin, Mutated, Mutating, Running, Keys
<1>4. CASE SendOn(c)
  BY <1>4 DEF SendOn, Running, Keys, appVars
<1>5. CASE SendOnFreed(c)
  BY <1>5 DEF SendOnFreed, Running, Keys
<1>6. CASE Quit(c)
  BY <1>6 DEF Quit, Stop, Running, Keys, appVars
<1>7. CASE RacyQuit(c)
  BY <1>7 DEF RacyQuit, Mutating, Running, Keys, ixVars
<1>8. CASE QuitThrows(c)
  BY <1>8 DEF QuitThrows, Running, Keys, appVars
<1> QED BY <1>1, <1>2, <1>3, <1>4, <1>5, <1>6, <1>7, <1>8

\* A new object is owned by the call that creates it.
LEMMA CallStep ==
    ASSUME IInv, Call
    PROVE  IInv'
<1> USE WsAssumption DEF IInv, TypeOK, FreshInv, CreatedInv, MapInv, FreedInv, CurInv,
            OwnedInv, LoopInv, FoundInv, SubscribesOwnEndpoint, Holding, Visiting
<1>1. CASE \E c \in Conn, u \in Url : ConnectEndpoint(c, u)
  BY <1>1 DEF ConnectEndpoint, Running, Keys
<1>2. CASE \E u \in Url : Disconnect(u)
  BY <1>2 DEF Disconnect, Stop, Running, Keys
<1>3. CASE \E last \in BOOLEAN : DisconnectAll(last)
  BY <1>3 DEF DisconnectAll, Running, Keys, ixVars
<1>4. CASE Wait
  BY <1>4 DEF Wait, Running, Keys, ixVars
<1> QED BY <1>1, <1>2, <1>3, <1>4 DEF Call

\* Ownership passes from a call to the map (EndInsert), from the map to a
\* call (EndInsert of a second feed, ReapUnlink), and ends with a join.
LEMMA ProceedStep ==
    ASSUME IInv, Proceed
    PROVE  IInv'
<1> USE WsAssumption DEF IInv, TypeOK, FreshInv, CreatedInv, MapInv, FreedInv, CurInv,
            OwnedInv, LoopInv, FoundInv, SubscribesOwnEndpoint, Holding, Visiting
<1>1. CASE BeginInsert
  BY <1>1 DEF BeginInsert, Running, Keys, ixVars
<1>2. CASE EndInsert
  BY <1>2 DEF EndInsert, Stop, Running, Keys
<1>3. CASE EndReplace
  BY <1>3 DEF EndReplace, Free, Joined, Running, Keys, ixVars
<1>4. CASE DisconnectStopped
  BY <1>4 DEF DisconnectStopped, Joined, Running, Keys, ixVars
<1>5. CASE DisconnectErase
  BY <1>5 DEF DisconnectErase, Free, Joined, Running, Keys, ixVars
<1>6. CASE StopNextDone
  BY <1>6 DEF StopNextDone, Joined, Running, Keys, ixVars
<1>7. CASE Clear
  BY <1>7 DEF Clear, Running, Keys, ixVars
<1>8. CASE WaitReturn
  BY <1>8 DEF WaitReturn, Running, Keys, ixVars
<1>9. CASE ScanBegin
  BY <1>9 DEF ScanBegin, Running, Keys, ixVars
<1>10. CASE ReapUnlink
  BY <1>10 DEF ReapUnlink, Stop, Running, Keys
<1>11. CASE ReapDestroy
  BY <1>11 DEF ReapDestroy, Free, Joined, Running, Keys, ixVars
<1>12. CASE ScanEnd
  BY <1>12 DEF ScanEnd, Running, Keys, ixVars
<1>13. CASE \E u \in Url : StopNext(u)
  BY <1>13 DEF StopNext, Stop, Running, Keys
<1>14. CASE \E u \in Url : ScanKeep(u)
  BY <1>14 DEF ScanKeep, Running, Keys, ixVars
<1>15. CASE \E u \in Url : ScanReap(u)
  BY <1>15 DEF ScanReap, Running, Keys, ixVars
<1> QED BY <1>1, <1>2, <1>3, <1>4, <1>5, <1>6, <1>7, <1>8, <1>9, <1>10, <1>11, <1>12, <1>13, <1>14, <1>15
     DEF Proceed

\* Every step preserves the invariant.
LEMMA NextIInv == IInv /\ [Next]_vars => IInv'
<1> SUFFICES ASSUME IInv, [Next]_vars PROVE IInv'
  OBVIOUS
<1>1. CASE UNCHANGED vars \/ Over
  BY <1>1, SMTT(20) DEF Over, vars, IInv, TypeOK, FreshInv, CreatedInv, MapInv, FreedInv, CurInv,
     OwnedInv, LoopInv, FoundInv, SubscribesOwnEndpoint, Holding, Visiting, Running, Keys
<1>2. CASE Call \/ Proceed
  BY <1>2, CallStep, ProceedStep
<1>3. CASE \E c \in Conn : Thread(c) \/ Network(c)
  BY <1>3, LibraryStep, HandlerStep DEF Thread, Network
<1> QED BY <1>1, <1>2, <1>3 DEF Next

\* The invariant that the safety properties below follow from holds in every
\* reachable state.
THEOREM Invariance == Spec => []IInv
BY InitIInv, NextIInv, PTL DEF Spec

-----------------------------------------------------------------------------
(* The properties. *)

\* The variables keep their types.
THEOREM TypeCorrect == Spec => []TypeOK
<1>1. IInv => TypeOK
  BY DEF IInv
<1> QED BY Invariance, <1>1, PTL

\* No ConnectionData is destroyed before its background thread has exited:
\* a freed object's thread is exited, and MapInv keeps freed ones out of the
\* map.  Every erase, replacement and clear of client.cpp is covered.
THEOREM ReclaimIsSafe == Spec => []SafeReclaim
<1>1. IInv => SafeReclaim
  BY DEF IInv, FreedInv, MapInv, SafeReclaim, Running, Keys, TypeOK
<1> QED BY Invariance, <1>1, PTL

\* After disconnectAll, ~Client, or a wait that emptied the map, no thread of
\* the client is left: a running thread would have no owner.
THEOREM TeardownIsQuiet == Spec => []QuietAfterTeardown
<1>1. IInv => QuietAfterTeardown
  BY WsAssumption DEF IInv, TypeOK, OwnedInv, CreatedInv, LoopInv, QuietAfterTeardown, Running, Keys, Holding
<1> QED BY Invariance, <1>1, PTL

\* An endpoint is served by one thread at a time: two running threads of one
\* endpoint would both be its entry, or one of them is the call's.
THEOREM OneFeed == Spec => []OneFeedPerEndpoint
<1>1. IInv => OneFeedPerEndpoint
  BY WsAssumption DEF IInv, TypeOK, OwnedInv, CreatedInv, CurInv, OneFeedPerEndpoint, Running, Holding
<1> QED BY Invariance, <1>1, PTL

\* send(endpoint, message) from an on_open handler never subscribes on the
\* session of another endpoint, races included.
THEOREM OwnEndpoint == Spec => []SubscribesOwnEndpoint
<1>1. IInv => SubscribesOwnEndpoint
  BY DEF IInv
<1> QED BY Invariance, <1>1, PTL

-----------------------------------------------------------------------------
(* Without replacement of the endpoints that send. *)

\* The handlers that send name their endpoint, which is not connected twice.
Disciplined == \A u \in Url : Handler[u] # "none" => Handler[u] = "endpoint" /\ u \notin Replaceable

LEMMA InitNoReplace == Init => NoReplaceInv
BY DEF Init, NoReplaceInv

\* A running thread that finds an object under its own endpoint finds its
\* own object, since OwnedInv allows no other.
LEMMA NextNoReplace ==
    ASSUME Disciplined, IInv, NoReplaceInv, [Next]_vars
    PROVE  NoReplaceInv'
<1> USE WsAssumption DEF IInv, TypeOK, NoReplaceInv
<1>1. CASE UNCHANGED vars \/ Over
  BY <1>1 DEF Over, vars
<1>2. CASE Call
  <2>1. CASE \E c \in Conn, u \in Url : ConnectEndpoint(c, u)
    BY <2>1 DEF ConnectEndpoint, Disciplined, FreshInv, FoundInv
  <2>2. CASE \E u \in Url : Disconnect(u)
    BY <2>2 DEF Disconnect
  <2>3. CASE (\E last \in BOOLEAN : DisconnectAll(last)) \/ Wait
    BY <2>3 DEF DisconnectAll, Wait, ixVars
  <2> QED BY <1>2, <2>1, <2>2, <2>3 DEF Call
<1>3. CASE Proceed
  BY <1>3 DEF Proceed, BeginInsert, EndInsert, EndReplace, DisconnectStopped,
     DisconnectErase, StopNextDone, Clear, WaitReturn, ScanBegin, ReapUnlink,
     ReapDestroy, ScanEnd, StopNext, ScanKeep, ScanReap, ixVars, MapInv
<1>4. ASSUME NEW c \in Conn, Thread(c) \/ Network(c) PROVE NoReplaceInv'
  <2> pc # "crashed"
    BY <1>4 DEF Thread, Network
  <2>1. CASE Lookup(c) \/ RacyLookup(c)
    <3>1. Handler[url[c]] = "endpoint" /\ url[c] \notin Replaceable
      BY <2>1 DEF Disciplined, CreatedInv, Lookup, RacyLookup
    <3>2. connections[url[c]] \in {c, None}
      BY <2>1, <3>1 DEF CreatedInv, OwnedInv, CurInv, MapInv, Running, Lookup, RacyLookup, Holding
    <3>3. RacyLookup(c) => Mutated[url[c]] \in {c, None}
      BY <2>1, <3>1, <3>2 DEF CreatedInv, OwnedInv, CurInv, MapInv, Running, RacyLookup, Mutating,
         Mutated, Holding, Visiting
    <3>4. CASE Lookup(c)
      BY <3>1, <3>2, <3>4 DEF Lookup, Found, Begin, LookupResult
    <3>5. CASE RacyLookup(c)
      BY <3>1, <3>2, <3>3, <3>5 DEF RacyLookup, Found, Begin, LookupResult, Mutating
    <3> QED BY <2>1, <3>4, <3>5
  <2>2. CASE ~(Lookup(c) \/ RacyLookup(c))
    BY <1>4, <2>2 DEF Thread, Network, OnOpen, SendOn, SendOnFreed, MessageEnd, Quit,
       RacyQuit, QuitThrows, Stop, IxReconnect, IxExit, IxConnect, IxDrop, MessageBegin,
       appVars, ixVars
  <2> QED BY <2>1, <2>2
<1> QED BY <1>1, <1>2, <1>3, <1>4 DEF Next

\* For an application that is disciplined in this way, the pointer a handler
\* holds while it sends is never to a destroyed object.
THEOREM PointersAlive ==
    ASSUME Disciplined
    PROVE  Spec => []PointerAlive
<1>1. IInv /\ NoReplaceInv => PointerAlive
  BY DEF IInv, NoReplaceInv, FreedInv, PointerAlive
<1>2. Spec => []NoReplaceInv
  BY InitNoReplace, NextNoReplace, Invariance, PTL DEF Spec
<1> QED BY <1>1, <1>2, Invariance, PTL

-----------------------------------------------------------------------------
(* Automatic reconnection subscribes again. *)

\* A handler whose lookup was not raced sends on its own object, which cannot
\* have been destroyed, and its session is subscribed from then on.
AgainInv == \A c \in Conn : Handler[url[c]] # "none" /\ c \notin raced =>
    /\ thr[c] = "sending" => ptr[c] = c
    /\ thr[c] \in {"polling", "callback", "quitting"} /\ ready[c] = "Open" => url[c] \in got[c]

LEMMA InitAgain == Init => AgainInv
BY DEF Init, AgainInv

\* Only OnOpen, the lookup and the send itself touch what AgainInv says; a
\* dropped session and stop() leave the state Open, for which it speaks.
LEMMA NextAgain ==
    ASSUME IInv, AgainInv, [Next]_vars
    PROVE  AgainInv'
<1> USE WsAssumption DEF IInv, TypeOK, AgainInv
<1>1. CASE UNCHANGED vars \/ Over
  BY <1>1 DEF Over, vars
<1>2. CASE Call
  <2>1. CASE \E c \in Conn, u \in Url : ConnectEndpoint(c, u)
    BY <2>1 DEF ConnectEndpoint
  <2>2. CASE \E u \in Url : Disconnect(u)
    BY <2>2 DEF Disconnect, Stop
  <2>3. CASE (\E last \in BOOLEAN : DisconnectAll(last)) \/ Wait
    BY <2>3 DEF DisconnectAll, Wait, ixVars
  <2> QED BY <1>2, <2>1, <2>2, <2>3 DEF Call
<1>3. CASE Proceed
  BY <1>3 DEF Proceed, BeginInsert, EndInsert, EndReplace, DisconnectStopped,
     DisconnectErase, StopNextDone, Clear, WaitReturn, ScanBegin, ReapUnlink,
     ReapDestroy, ScanEnd, StopNext, ScanKeep, ScanReap, Stop, ixVars
<1>4. ASSUME NEW c \in Conn, Thread(c) \/ Network(c) PROVE AgainInv'
  <2>1. CASE OnOpen(c)
    BY <2>1 DEF OnOpen, appVars
  <2>2. CASE Lookup(c)
    BY <2>2 DEF Lookup, LookupResult
  <2>3. CASE RacyLookup(c)
    BY <2>3 DEF RacyLookup, LookupResult
  <2>4. CASE SendOn(c)
    BY <2>4 DEF SendOn, appVars
  <2>5. CASE SendOnFreed(c)
    BY <2>5 DEF SendOnFreed, FreedInv
  <2>6. CASE MessageEnd(c) \/ Quit(c) \/ RacyQuit(c) \/ QuitThrows(c)
    BY <2>6 DEF MessageEnd, Quit, RacyQuit, QuitThrows, Stop, appVars, ixVars
  <2>7. CASE IxReconnect(c) \/ IxExit(c) \/ IxConnect(c) \/ IxDrop(c) \/ MessageBegin(c)
    BY <2>7 DEF IxReconnect, IxExit, IxConnect, IxDrop, MessageBegin, appVars
  <2> QED BY <1>4, <2>1, <2>2, <2>3, <2>4, <2>5, <2>6, <2>7 DEF Thread, Network
<1> QED BY <1>1, <1>2, <1>3, <1>4 DEF Next

\* A session that is settled and whose handler's lookup was not raced is
\* subscribed, the first one and every one after an automatic reconnection.
THEOREM ResubscribesAlways == Spec => []SubscribedAgain
<1>1. AgainInv => SubscribedAgain
  BY DEF AgainInv, SubscribedAgain, SettledSession
<1>2. Spec => []AgainInv
  BY InitAgain, NextAgain, Invariance, PTL DEF Spec
<1> QED BY <1>1, <1>2, PTL

-----------------------------------------------------------------------------
(* What leaves the map, and why. *)

\* A scan takes what was open before; was_open is never reset.
ReapInv == pc = "reap" => cur \in wasOpen

\* A thread told to stop is one whose endpoint's callback may do so, or whose
\* object is out of the map, or the one the call under way will remove.
StopInv == \A c \in stopping :
    /\ thr[c] # "none"
    /\ \/ url[c] \in Quits
       \/ connections[url[c]] # c /\ ~(pc \in {"started", "inserting"} /\ cur = c)
       \/ pc \in {"stopping", "erasing"} /\ cur = c
       \/ pc \in {"all", "allJoin", "crashed"}

LEMMA InitLeave == Init => ReapInv /\ StopInv
BY DEF Init, ReapInv, StopInv

LEMMA NextReap ==
    ASSUME ReapInv, [Next]_vars
    PROVE  ReapInv'
<1> USE DEF ReapInv
<1>1. CASE UNCHANGED vars \/ Over
  BY <1>1 DEF Over, vars
<1>2. CASE Call \/ Proceed
  BY <1>2 DEF Call, ConnectEndpoint, Disconnect, DisconnectAll, Wait, Proceed, BeginInsert,
     EndInsert, EndReplace, DisconnectStopped, DisconnectErase, StopNextDone, Clear, WaitReturn,
     ScanBegin, ReapUnlink, ReapDestroy, ScanEnd, StopNext, ScanKeep, ScanReap, Dead
<1>3. ASSUME NEW c \in Conn, Thread(c) \/ Network(c) PROVE ReapInv'
  BY <1>3 DEF Thread, Network, OnOpen, Lookup, RacyLookup, LookupResult, SendOn, SendOnFreed,
     MessageEnd, Quit, RacyQuit, QuitThrows, IxReconnect, IxExit, IxConnect, IxDrop,
     MessageBegin, appVars
<1> QED BY <1>1, <1>2, <1>3 DEF Next

\* Each call that stops a thread other than by a callback removes its object
\* before it returns.
LEMMA NextStop ==
    ASSUME IInv, StopInv, [Next]_vars
    PROVE  StopInv'
<1> USE WsAssumption DEF IInv, TypeOK, StopInv
<1>1. CASE UNCHANGED vars \/ Over
  BY <1>1 DEF Over, vars
<1>2. CASE Call
  <2>1. CASE \E c \in Conn, u \in Url : ConnectEndpoint(c, u)
    BY <2>1 DEF ConnectEndpoint
  <2>2. CASE \E u \in Url : Disconnect(u)
    BY <2>2 DEF Disconnect, Stop, MapInv
  <2>3. CASE (\E last \in BOOLEAN : DisconnectAll(last)) \/ Wait
    BY <2>3 DEF DisconnectAll, Wait, ixVars
  <2> QED BY <1>2, <2>1, <2>2, <2>3 DEF Call
<1>3. CASE Proceed
  <2>1. CASE BeginInsert \/ EndReplace \/ DisconnectStopped \/ StopNextDone \/ WaitReturn
             \/ ScanBegin \/ ReapDestroy \/ ScanEnd
             \/ \E u \in Url : ScanKeep(u) \/ ScanReap(u)
    BY <2>1 DEF BeginInsert, EndReplace, DisconnectStopped, StopNextDone, WaitReturn,
       ScanBegin, ReapDestroy, ScanEnd, ScanKeep, ScanReap, ixVars
  <2>2. CASE EndInsert
    BY <2>2 DEF EndInsert, Stop, CurInv, Holding, MapInv, CreatedInv
  <2>3. CASE DisconnectErase \/ Clear
    BY <2>3 DEF DisconnectErase, Clear, ixVars, CurInv, Visiting, CreatedInv
  <2>4. CASE ReapUnlink
    BY <2>4 DEF ReapUnlink, Stop, CurInv, Visiting, CreatedInv
  <2>5. CASE \E u \in Url : StopNext(u)
    BY <2>5 DEF StopNext, Stop, LoopInv, MapInv
  <2> QED BY <1>3, <2>1, <2>2, <2>3, <2>4, <2>5 DEF Proceed
<1>4. ASSUME NEW c \in Conn, Thread(c) \/ Network(c) PROVE StopInv'
  BY <1>4 DEF Thread, Network, OnOpen, Lookup, RacyLookup, LookupResult, SendOn, SendOnFreed,
     MessageEnd, Quit, RacyQuit, QuitThrows, Stop, IxReconnect, IxExit, IxConnect, IxDrop,
     MessageBegin, appVars, ixVars
<1> QED BY <1>1, <1>2, <1>3, <1>4 DEF Next

LEMMA LeaveInvariance == Spec => [](IInv /\ ReapInv /\ StopInv)
BY InitLeave, NextReap, NextStop, Invariance, PTL DEF Spec

\* wait never removes an endpoint that has not been connected yet.
THEOREM RemovesOnlyOpened == Spec => RemovedOnlyIfOpened
<1> DEFINE A == \A u \in Url : connections[u] # None /\ connections'[u] = None
                    => pc \in {"erasing", "all"} \/ connections[u] \in wasOpen
<1>1. ASSUME IInv, ReapInv, [Next]_vars PROVE [A]_vars
  <2> USE <1>1, WsAssumption DEF IInv, TypeOK
  <2>1. CASE UNCHANGED vars \/ Over
    BY <2>1 DEF Over, vars
  <2>2. CASE ReapUnlink
    BY <2>2 DEF ReapUnlink, ReapInv, CurInv, Visiting
  <2>3. CASE EndInsert \/ DisconnectErase \/ Clear
    BY <2>3 DEF EndInsert, DisconnectErase, Clear, CurInv, Holding
  <2>4. CASE Call \/ (Proceed /\ ~(ReapUnlink \/ EndInsert \/ DisconnectErase \/ Clear))
             \/ \E c \in Conn : Thread(c) \/ Network(c)
    <3> UNCHANGED connections
      BY <2>4 DEF Call, ConnectEndpoint, Disconnect, DisconnectAll, Wait, Proceed, BeginInsert,
         EndReplace, DisconnectStopped, StopNextDone, WaitReturn, ScanBegin, ReapDestroy, ScanEnd,
         StopNext, ScanKeep, ScanReap, Thread, Network, OnOpen, Lookup, RacyLookup, LookupResult,
         SendOn, SendOnFreed, MessageEnd, Quit, RacyQuit, QuitThrows, IxReconnect, IxExit,
         IxConnect, IxDrop, MessageBegin
    <3> QED OBVIOUS
  <2> QED BY <1>1, <2>1, <2>2, <2>3, <2>4 DEF Next
<1> QED BY LeaveInvariance, <1>1, PTL DEF Spec, RemovedOnlyIfOpened

\* An endpoint that stays registered keeps its reconnection, unless its own
\* callback gave it up.
THEOREM StoppedLeaves == Spec => []StoppedIsLeaving
<1>1. IInv /\ StopInv => StoppedIsLeaving
  BY WsAssumption DEF IInv, TypeOK, MapInv, StopInv, StoppedIsLeaving, Keys
<1> QED BY LeaveInvariance, <1>1, PTL

-----------------------------------------------------------------------------
(* The safety half of CallsReturn. *)

\* The calls that wait for the thread of cur to exit.
Joining == {"replacing", "stopping", "allJoin", "reaping"}

\* Some step of c's thread is possible, or its close handshake is under way:
\* the cases are the guards of OnOpen, Lookup and RacyLookup, SendOn and
\* SendOnFreed, MessageEnd, QuitThrows, CloseCompletes and IxExit.
MayStep(c) ==
    \/ thr[c] \in {"opened", "lookup", "sending", "callback", "quitting"}
    \/ ready[c] = "Closing"
    \/ thr[c] \in {"connecting", "polling"} /\ c \in stopping /\ ready[c] # "Closing"

JoinInv == pc \in Joining => cur \in stopping

LEMMA NextJoin ==
    ASSUME JoinInv, [Next]_vars
    PROVE  JoinInv'
<1> USE DEF JoinInv, Joining
<1>1. CASE UNCHANGED vars \/ Over
  BY <1>1 DEF Over, vars
<1>2. CASE Call \/ Proceed
  BY <1>2 DEF Call, ConnectEndpoint, Disconnect, DisconnectAll, Wait, Proceed, BeginInsert,
     EndInsert, EndReplace, DisconnectStopped, DisconnectErase, StopNextDone, Clear, WaitReturn,
     ScanBegin, ReapUnlink, ReapDestroy, ScanEnd, StopNext, ScanKeep, ScanReap, Stop
<1>3. ASSUME NEW c \in Conn, Thread(c) \/ Network(c) PROVE JoinInv'
  BY <1>3 DEF Thread, Network, OnOpen, Lookup, RacyLookup, LookupResult, SendOn, SendOnFreed,
     MessageEnd, Quit, RacyQuit, QuitThrows, IxReconnect, IxExit, IxConnect, IxDrop,
     MessageBegin, Stop, appVars, ixVars
<1> QED BY <1>1, <1>2, <1>3 DEF Next

\* No call waits for a thread that nobody stopped, or that cannot go on: every
\* joined thread was told to stop, and until it has exited it has a step to
\* take or a close handshake to wait for.
THEOREM NoJoinInVain ==
    Spec => [](pc \in Joining => cur \in stopping /\ (Joined(cur) \/ MayStep(cur)))
<1>1. Init => JoinInv
  BY DEF Init, JoinInv, Joining
<1>2. IInv /\ JoinInv => (pc \in Joining => cur \in stopping /\ (Joined(cur) \/ MayStep(cur)))
  BY DEF IInv, TypeOK, CurInv, Holding, Visiting, Joining, JoinInv, Joined, MayStep
<1> QED BY <1>1, <1>2, NextJoin, Invariance, PTL DEF Spec

-----------------------------------------------------------------------------
(* Feeds that only receive. *)

\* With no on_open handler to look the map up and no callback that calls the
\* client, no thread touches the map but the application's.
QuietInv ==
    /\ pc # "crashed"
    /\ \A c \in Conn : thr[c] \notin {"lookup", "sending", "quitting"}

\* A program that uses market data feeds only, which have no on_open handler,
\* and whose callbacks do not disconnect, is free of the races that make
\* send() undefined.
THEOREM MarketDataNeverCrashes ==
    ASSUME \A u \in Url : Handler[u] = "none", Quits = {}
    PROVE  Spec => []SendReturns
<1>1. Init => QuietInv
  BY DEF Init, QuietInv
<1>2. ASSUME IInv, QuietInv, [Next]_vars PROVE QuietInv'
  <2> USE <1>2 DEF IInv, TypeOK, QuietInv
  <2>1. CASE UNCHANGED vars \/ Over
    BY <2>1 DEF Over, vars
  <2>2. CASE Call \/ Proceed
    BY <2>2 DEF Call, ConnectEndpoint, Disconnect, DisconnectAll, Wait, Proceed, BeginInsert,
       EndInsert, EndReplace, DisconnectStopped, DisconnectErase, StopNextDone, Clear,
       WaitReturn, ScanBegin, ReapUnlink, ReapDestroy, ScanEnd, StopNext, ScanKeep, ScanReap, ixVars
  <2>3. ASSUME NEW c \in Conn, Thread(c) \/ Network(c) PROVE QuietInv'
    <3>1. CASE OnOpen(c)
      BY <3>1 DEF OnOpen, CreatedInv, appVars
    <3>2. CASE MessageEnd(c) \/ IxReconnect(c) \/ IxExit(c) \/ IxConnect(c) \/ IxDrop(c) \/ MessageBegin(c)
      BY <3>2 DEF MessageEnd, IxReconnect, IxExit, IxConnect, IxDrop, MessageBegin, appVars
    <3>3. ~(Lookup(c) \/ RacyLookup(c) \/ SendOn(c) \/ SendOnFreed(c)
              \/ Quit(c) \/ RacyQuit(c) \/ QuitThrows(c))
      BY DEF Lookup, RacyLookup, SendOn, SendOnFreed, Quit, RacyQuit, QuitThrows
    <3> QED BY <2>3, <3>1, <3>2, <3>3 DEF Thread, Network
  <2> QED BY <1>2, <2>1, <2>2, <2>3 DEF Next
<1>3. QuietInv => SendReturns
  BY DEF QuietInv, SendReturns
<1> QED BY <1>1, <1>2, <1>3, Invariance, PTL DEF Spec

-----------------------------------------------------------------------------
(* The client implements the registry of Feeds. *)

\* Nothing is registered at first.
LEMMA InitRegistry == Init => Registry!Init
BY DEF Init, Registry!Init, Running

\* A thread's steps leave the registry alone, but for its exit.
LEMMA ThreadRegistry ==
    ASSUME IInv, NEW c \in Conn, Thread(c) \/ Network(c)
    PROVE  [Registry!Next]_(Registry!vars)
<1> USE DEF IInv, TypeOK, Registry!vars, Running
<1>1. CASE IxExit(c)
  <2> Registry!End(c)
    BY <1>1 DEF IxExit, Registry!End
  <2> QED BY DEF Registry!Next
<1>2. CASE OnOpen(c) \/ MessageEnd(c) \/ Quit(c) \/ RacyQuit(c) \/ QuitThrows(c)
            \/ IxReconnect(c) \/ IxConnect(c) \/ IxDrop(c) \/ MessageBegin(c)
  <2>1. UNCHANGED <<connections, url, freed>>
    BY <1>2 DEF OnOpen, MessageEnd, Quit, RacyQuit, QuitThrows, IxReconnect, IxConnect,
       IxDrop, MessageBegin
  <2>2. \A d \in Conn : Running(d)' <=> Running(d)
    BY <1>2 DEF OnOpen, MessageEnd, Quit, RacyQuit, QuitThrows, IxReconnect, IxConnect,
       IxDrop, MessageBegin, ixVars
  <2> QED BY <2>1, <2>2
<1>3. CASE Lookup(c) \/ RacyLookup(c) \/ SendOn(c) \/ SendOnFreed(c)
  <2>1. UNCHANGED <<connections, url, freed>>
    BY <1>3 DEF Lookup, RacyLookup, LookupResult, SendOn, SendOnFreed
  <2>2. \A d \in Conn : Running(d)' <=> Running(d)
    BY <1>3 DEF Lookup, RacyLookup, LookupResult, SendOn, SendOnFreed
  <2> QED BY <2>1, <2>2
<1> QED BY <1>1, <1>2, <1>3 DEF Thread, Network

\* A call starts a feed when every feed that runs is registered.
LEMMA CallRegistry ==
    ASSUME IInv, Call
    PROVE  [Registry!Next]_(Registry!vars)
<1> USE WsAssumption DEF IInv, TypeOK, Registry!vars, Running
<1>1. ASSUME NEW c \in Conn, NEW u \in Url, ConnectEndpoint(c, u)
      PROVE Registry!Start(c, u)
  BY <1>1 DEF ConnectEndpoint, Registry!Start, Registry!Settled, OwnedInv, FreshInv, Holding
<1>2. CASE (\E u \in Url : Disconnect(u)) \/ (\E last \in BOOLEAN : DisconnectAll(last)) \/ Wait
  BY <1>2 DEF Disconnect, DisconnectAll, Wait, ixVars
<1> QED BY <1>1, <1>2 DEF Call, Registry!Next

\* Ownership, OwnedInv, is what the registry asks of feeds out of place.
LEMMA ProceedRegistry ==
    ASSUME IInv, Proceed
    PROVE  [Registry!Next]_(Registry!vars)
<1> USE WsAssumption DEF IInv, TypeOK, Registry!vars, Running
<1>1. CASE EndInsert
  <2> cur \in Conn /\ url[cur] \in Url /\ Registry!Register(cur)
    BY <1>1 DEF EndInsert, CurInv, CreatedInv, OwnedInv, Holding, Registry!Register
  <2> QED BY DEF Registry!Next
<1>2. CASE EndReplace \/ ReapDestroy
  <2> cur \in Conn /\ Registry!Destroy(cur)
    BY <1>2 DEF EndReplace, ReapDestroy, Free, Joined, ixVars, CurInv, CreatedInv, Holding,
       Registry!Destroy
  <2> QED BY DEF Registry!Next
<1>3. CASE DisconnectErase
  <2> DEFINE S == {url[cur]}
  <2>1. cur \in Conn /\ url[cur] \in Url /\ connections[url[cur]] = cur /\ thr[cur] = "exited"
    BY <1>3 DEF DisconnectErase, CurInv, CreatedInv, Visiting
  <2>2. connections' = [u \in Url |-> IF u \in S THEN None ELSE connections[u]]
    BY <1>3, <2>1 DEF DisconnectErase
  <2>3. freed' = freed \cup {connections[u] : u \in S} /\ UNCHANGED <<url, thr>>
    BY <1>3, <2>1 DEF DisconnectErase, Free, ixVars
  <2>4. Registry!Remove(S)
    BY <2>1, <2>2, <2>3 DEF Registry!Remove
  <2>5. S \in SUBSET {u \in Url : connections[u] # None}
    BY <2>1
  <2> QED BY <2>4, <2>5 DEF Registry!Next
<1>4. CASE Clear
  <2>1. Registry!Remove(Keys)
    BY <1>4 DEF Clear, Keys, LoopInv, ixVars, Registry!Remove
  <2> QED BY <2>1 DEF Registry!Next, Keys
<1>5. CASE ReapUnlink
  <2> cur \in Conn /\ url[cur] \in Url /\ Registry!Unregister(url[cur])
    BY <1>5 DEF ReapUnlink, CurInv, CreatedInv, OwnedInv, Holding, Visiting,
       Registry!Unregister, Registry!Settled
  <2> QED BY DEF Registry!Next
<1>6. CASE BeginInsert \/ DisconnectStopped \/ StopNextDone \/ WaitReturn \/ ScanBegin \/ ScanEnd
            \/ \E u \in Url : StopNext(u) \/ ScanKeep(u) \/ ScanReap(u)
  BY <1>6 DEF BeginInsert, DisconnectStopped, StopNextDone, WaitReturn, ScanBegin, ScanEnd,
     StopNext, ScanKeep, ScanReap, ixVars
<1> QED BY <1>1, <1>2, <1>3, <1>4, <1>5, <1>6 DEF Proceed

\* The detailed client, with its unsynchronised map, its threads and its
\* loops, implements the registry: a feed out of place belongs to the call
\* under way, and no feed is destroyed or dropped while its callbacks may run.
THEOREM ImplementsRegistry == Spec => KeepsRegistry
<1>1. IInv /\ [Next]_vars => [Registry!Next]_(Registry!vars)
  <2> SUFFICES ASSUME IInv, [Next]_vars PROVE [Registry!Next]_(Registry!vars)
    OBVIOUS
  <2>1. CASE UNCHANGED vars \/ Over
    BY <2>1 DEF Over, vars, Registry!vars, Running
  <2>2. CASE Call \/ Proceed \/ \E c \in Conn : Thread(c) \/ Network(c)
    BY <2>2, CallRegistry, ProceedRegistry, ThreadRegistry
  <2> QED BY <2>1, <2>2 DEF Next
<1> QED BY InitRegistry, <1>1, Invariance, PTL DEF Spec, KeepsRegistry, Registry!Spec

-----------------------------------------------------------------------------
(* What the client inherits from the registry. *)

FeedFacts == INSTANCE FeedsProofs WITH
    Feed <- Conn, registered <- connections, of <- url,
    live <- {c \in Conn : Running(c)}, destroyed <- freed

\* The two instances are of one module.
LEMMA SameRegistry ==
    /\ Registry!Init <=> FeedFacts!Init
    /\ [Registry!Next]_(Registry!vars) <=> [FeedFacts!Next]_(FeedFacts!vars)
    /\ Registry!DestroyedAtRest <=> FeedFacts!DestroyedAtRest
    /\ Registry!OneOutOfPlace <=> FeedFacts!OneOutOfPlace
BY DEF Registry!Init, FeedFacts!Init, Registry!vars, FeedFacts!vars,
   Registry!Next, Registry!Start, Registry!Settled, Registry!Register, Registry!Unregister,
   Registry!End, Registry!Destroy, Registry!Remove,
   FeedFacts!Next, FeedFacts!Start, FeedFacts!Settled, FeedFacts!Register, FeedFacts!Unregister,
   FeedFacts!End, FeedFacts!Destroy, FeedFacts!Remove,
   Registry!DestroyedAtRest, FeedFacts!DestroyedAtRest,
   Registry!OneOutOfPlace, FeedFacts!OneOutOfPlace

\* At most one background thread runs for an object that is not the map's, and
\* no destroyed object is in the map or has a thread.
THEOREM RegistryInherited == Spec => [](Registry!DestroyedAtRest /\ Registry!OneOutOfPlace)
<1>1. None \notin Conn \cup Url
  BY WsAssumption
<1>2. FeedFacts!Spec => [](FeedFacts!DestroyedAtRest /\ FeedFacts!OneOutOfPlace)
  BY <1>1, FeedFacts!RegistryKept
<1> QED BY <1>2, SameRegistry, ImplementsRegistry, PTL DEF KeepsRegistry, Registry!Spec, FeedFacts!Spec

\* A background thread that has exited is never started again, and its object
\* never serves another endpoint.
ThreadRunsOnce ==
    [][\A c \in Conn : url[c] # None =>
            url'[c] = url[c] /\ (~Running(c) => ~Running(c)')]_vars

\* It is what EndsForGood says of the registry that the client implements.
THEOREM ThreadsRunOnce == Spec => ThreadRunsOnce
<1> DEFINE A == \A c \in Conn : url[c] # None => url'[c] = url[c] /\ (~Running(c) => ~Running(c)')
           F == \A f \in Conn : url[f] # None =>
                    url'[f] = url[f] /\ (f \notin {c \in Conn : Running(c)}
                                            => f \notin {c \in Conn : Running(c)}')
<1>1. None \notin Conn \cup Url
  BY WsAssumption
<1>2. FeedFacts!Spec => [][F]_(FeedFacts!vars)
  BY <1>1, FeedFacts!EndedForGood DEF FeedFacts!EndsForGood
<1>3. [F]_(FeedFacts!vars) => [A]_vars
  BY DEF FeedFacts!vars
<1> QED BY <1>2, <1>3, SameRegistry, ImplementsRegistry, PTL
        DEF KeepsRegistry, Registry!Spec, FeedFacts!Spec, ThreadRunsOnce

=============================================================================
