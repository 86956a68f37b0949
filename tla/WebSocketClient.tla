--------------------------- MODULE WebSocketClient ---------------------------
(***************************************************************************)
(* The multi-endpoint WebSocket client, src/src/websocket/client.{h,cpp},  *)
(* with the on_open handlers the exchange policies install.                *)
(*                                                                         *)
(* Two kinds of threads run.  The APPLICATION thread (pc, cur, todo) calls *)
(* the client's methods.  Every started ix::WebSocket has a BACKGROUND     *)
(* thread (thr) that connects, reconnects by itself, and runs the          *)
(* callbacks the client installed; it belongs to the IXWebSocket library,  *)
(* which is external and is modelled by what the client relies on.         *)
(* No mutex protects `connections': an operation of the application thread *)
(* that modifies it has a window, Mutating, and a lookup in that window is *)
(* undefined behaviour.                                                    *)
(***************************************************************************)

CONSTANTS Url,          \* the endpoints, "wss://" + host + path
          Conn,         \* the ConnectionData objects that may be created
          None,         \* the null pointer / end() iterator
          Handler,      \* what the on_open of an endpoint does
          Replaceable,  \* those the application may connect again while it has them
          Quits         \* those whose message callback may disconnect them

\* The on_open handlers: none; send(endpoint, msg), as BinancePolicy's; or
\* send(msg), to whatever endpoint comes first, as KrakenPolicy's.
HandlerKind == {"none", "endpoint", "first"}

ASSUME WsAssumption ==
    /\ None \notin Conn \cup Url
    /\ Handler \in [Url -> HandlerKind]
    /\ Replaceable \subseteq Url
    /\ Quits \subseteq Url \ Replaceable

VARIABLES
    connections,  \* the map from endpoint to ConnectionData
    url,          \* ConnectionData::endpoint
    wasOpen,      \* the objects whose was_open is set
    freed,        \* the objects already destroyed
    ready,        \* ix::WebSocket: its ReadyState
    stopping,     \* ix::WebSocket: stop() was called on these
    thr,          \* ix::WebSocket: where its background thread is
    ptr,          \* what the send() of a handler found in `connections'
    got,          \* subscriptions the server received in the current session
    raced,        \* objects whose last lookup could find another object or none:
                  \* it ran too early, or while the map was changing, or asked
                  \* for any endpoint while there were others
    pc, cur, todo, final \* the application thread

appVars == <<pc, cur, todo, final>>
ixVars  == <<ready, stopping, thr>>
vars == <<connections, url, wasOpen, freed, ready, stopping, thr, ptr, got,
          raced, pc, cur, todo, final>>

Running(c) == thr[c] \notin {"none", "exited"}
Keys == {u \in Url : connections[u] # None}

\* The application thread is inside an operation that modifies the map.
Mutating == pc \in {"inserting", "erasing", "reap"}

Init ==
    /\ connections = [u \in Url |-> None]
    /\ url = [c \in Conn |-> None]
    /\ wasOpen = {} /\ freed = {} /\ stopping = {} /\ raced = {}
    /\ ready = [c \in Conn |-> "Closed"]
    /\ thr = [c \in Conn |-> "none"]
    /\ ptr = [c \in Conn |-> None]
    /\ got = [c \in Conn |-> {}]
    /\ pc = "idle" /\ cur = None /\ todo = {} /\ final = FALSE

-----------------------------------------------------------------------------
(* ix::WebSocket, as the client uses it. *)

\* The part of stop() that does not wait: close() and the request to stop.
\* The wait for the background thread to exit, join(), is Joined.
Stop(c) ==
    /\ stopping' = stopping \cup {c}
    /\ ready' = [ready EXCEPT ![c] = IF @ = "Open" THEN "Closing" ELSE @]

Joined(c) == thr[c] = "exited"

\* A connection attempt succeeds, even one begun just before stop().
IxConnect(c) ==
    /\ thr[c] = "connecting"
    /\ ready' = [ready EXCEPT ![c] = "Open"]
    /\ thr' = [thr EXCEPT ![c] = "opened"]
    /\ UNCHANGED <<connections, url, wasOpen, freed, stopping, ptr, got, raced, appVars>>

\* The session ends: the peer closes it, the network or a send() fails, or
\* the close that stop() began completes.
IxDrop(c) ==
    /\ Running(c) /\ ready[c] \in {"Open", "Closing"}
    /\ ready' = [ready EXCEPT ![c] = "Closed"]
    /\ got' = [got EXCEPT ![c] = {}]
    /\ UNCHANGED <<connections, url, wasOpen, freed, stopping, thr, ptr, raced, appVars>>

\* Automatic reconnection, the library's default, which the client keeps.
IxReconnect(c) ==
    /\ thr[c] = "polling" /\ ready[c] = "Closed" /\ c \notin stopping
    /\ thr' = [thr EXCEPT ![c] = "connecting"]
    /\ UNCHANGED <<connections, url, wasOpen, freed, ready, stopping, ptr, got, raced, appVars>>

IxExit(c) ==
    /\ thr[c] \in {"connecting", "polling"}
    /\ c \in stopping /\ ready[c] # "Closing"
    /\ thr' = [thr EXCEPT ![c] = "exited"]
    /\ UNCHANGED <<connections, url, wasOpen, freed, ready, stopping, ptr, got, raced, appVars>>

-----------------------------------------------------------------------------
(* The message callback of addConnection, run by the background thread. *)

\* case Message: the user's callback runs; what it throws is caught.
MessageBegin(c) ==
    /\ thr[c] = "polling"
    /\ ready[c] = "Closing" \/ (ready[c] = "Open" /\ c \notin stopping)
    /\ thr' = [thr EXCEPT ![c] = "callback"]
    /\ UNCHANGED <<connections, url, wasOpen, freed, ready, stopping, ptr, got, raced, appVars>>

MessageEnd(c) ==
    /\ thr[c] = "callback"
    /\ thr' = [thr EXCEPT ![c] = "polling"]
    /\ UNCHANGED <<connections, url, wasOpen, freed, ready, stopping, ptr, got, raced, appVars>>

\* The callback calls disconnect(url) for its own endpoint, which stops its
\* own object if it finds it.  While the map changes, find() is undefined.
Quit(c) ==
    /\ thr[c] = "callback" /\ url[c] \in Quits
    /\ connections[url[c]] = c \/ Mutating
    /\ Stop(c)
    /\ thr' = [thr EXCEPT ![c] = "quitting"]
    /\ UNCHANGED <<connections, url, wasOpen, freed, ptr, got, raced, appVars>>

RacyQuit(c) ==
    /\ thr[c] = "callback" /\ url[c] \in Quits /\ Mutating
    /\ pc' = "crashed"
    /\ UNCHANGED <<connections, url, wasOpen, freed, ixVars, ptr, got, raced, cur, todo, final>>

\* Mutant: the thread waits for its own exit, which never comes.
QuitWaits(c) ==
    /\ thr[c] = "quitting"
    /\ UNCHANGED vars

\* That stop() cannot join the thread it runs on: std::thread::join throws,
\* addConnection's lambda catches and logs, and erase() is not reached.
QuitThrows(c) ==
    /\ thr[c] = "quitting"
    /\ thr' = [thr EXCEPT ![c] = "polling"]
    /\ UNCHANGED <<connections, url, wasOpen, freed, ready, stopping, ptr, got, raced, appVars>>

\* Mutant: the handler runs for the first session only.
OnOpenOnce(c) ==
    /\ thr[c] = "opened"
    /\ wasOpen' = wasOpen \cup {c}
    /\ thr' = [thr EXCEPT ![c] = IF Handler[url[c]] = "none" \/ c \in wasOpen
                                 THEN "polling" ELSE "lookup"]
    /\ UNCHANGED <<connections, url, freed, ready, stopping, ptr, got, raced, appVars>>

\* case Open: was_open is set, then the endpoint's on_open handler is called.
OnOpen(c) ==
    /\ thr[c] = "opened"
    /\ wasOpen' = wasOpen \cup {c}
    /\ thr' = [thr EXCEPT ![c] = IF Handler[url[c]] = "none" THEN "polling" ELSE "lookup"]
    /\ UNCHANGED <<connections, url, freed, ready, stopping, ptr, got, raced, appVars>>

\* connections.begin() of an unordered_map: any of the entries, if there is one.
Begin(m) == IF \A u \in Url : m[u] = None THEN {None} ELSE {m[u] : u \in Url} \ {None}

\* Mutant: every handler uses send(msg).
FoundBegin(m, c) == Begin(m)

\* What a lookup by c's handler may find in the map m: send(url, msg) asks
\* for its own endpoint, send(msg) takes the first.
Found(m, c) == IF Handler[url[c]] = "endpoint" THEN {m[url[c]]} ELSE Begin(m)

\* The lookup of send(): a missing endpoint is logged and the handler ends.
LookupResult(c, p) ==
    /\ ptr' = [ptr EXCEPT ![c] = p]
    /\ thr' = [thr EXCEPT ![c] = IF p = None THEN "polling" ELSE "sending"]
    /\ UNCHANGED <<connections, url, wasOpen, freed, ready, stopping, got, cur, todo, final>>

Lookup(c) ==
    /\ thr[c] = "lookup" /\ ~Mutating
    /\ raced' = IF Found(connections, c) = {c} THEN raced \ {c} ELSE raced \cup {c}
    /\ UNCHANGED pc
    /\ \E p \in Found(connections, c) : LookupResult(c, p)

\* The map as the operation under way will leave it.
Mutated == [connections EXCEPT ![url[cur]] = IF pc = "inserting" THEN cur ELSE None]

\* A lookup while the map changes is undefined: it finds the old or the new
\* entry, misses an entry that is there, or reads a pointer not yet set.
RacyLookup(c) ==
    /\ thr[c] = "lookup" /\ Mutating
    /\ raced' = raced \cup {c}
    /\ \/ /\ UNCHANGED pc
          /\ \E p \in {None} \cup Found(connections, c) \cup Found(Mutated, c) :
                LookupResult(c, p)
       \/ /\ pc' = "crashed"
          /\ LookupResult(c, None)

\* ws->send(message): succeeds only on an open session.
SendOn(c) ==
    /\ thr[c] = "sending" /\ ptr[c] \notin freed
    /\ got' = IF ready[ptr[c]] = "Open"
              THEN [got EXCEPT ![ptr[c]] = @ \cup {url[c]}] ELSE got
    /\ thr' = [thr EXCEPT ![c] = "polling"]
    /\ ptr' = [ptr EXCEPT ![c] = None]
    /\ UNCHANGED <<connections, url, wasOpen, freed, ready, stopping, raced, appVars>>

\* Undefined: the object was destroyed since it was found.
SendOnFreed(c) ==
    /\ thr[c] = "sending" /\ ptr[c] \in freed
    /\ pc' \in {pc, "crashed"}
    /\ thr' = [thr EXCEPT ![c] = "polling"]
    /\ ptr' = [ptr EXCEPT ![c] = None]
    /\ UNCHANGED <<connections, url, wasOpen, freed, ready, stopping, got, raced,
                   cur, todo, final>>

-----------------------------------------------------------------------------
(* The application thread. *)

\* Mutant: the background thread is detached, not joined.
FreeDetached(c) == freed' = freed \cup {c}

\* ~ConnectionData, once ~WebSocket has joined the background thread.
Free(c) == /\ Joined(c)
           /\ freed' = freed \cup {c}

\* addConnection: configure the object and start() its thread ...
ConnectEndpoint(c, u) ==
    /\ pc = "idle" /\ thr[c] = "none"
    /\ u \in Replaceable \/ connections[u] = None
    /\ url' = [url EXCEPT ![c] = u]
    /\ thr' = [thr EXCEPT ![c] = "connecting"]
    /\ cur' = c /\ pc' = "started"
    /\ UNCHANGED <<connections, wasOpen, freed, ready, stopping, ptr, got, raced, todo, final>>

\* ... and only then enter it in the map.
BeginInsert ==
    /\ pc = "started" /\ pc' = "inserting"
    /\ UNCHANGED <<connections, url, wasOpen, freed, ixVars, ptr, got, raced, cur, todo, final>>

\* Mutant: the replaced object is left running.
EndInsertKeepsOld ==
    /\ pc = "inserting" /\ pc' = "idle" /\ cur' = None
    /\ connections' = [connections EXCEPT ![url[cur]] = cur]
    /\ UNCHANGED <<url, wasOpen, freed, ixVars, ptr, got, raced, todo, final>>

\* connections[url] = std::move(conn_data): the object it replaces, if any,
\* is destroyed, which stops its thread first.
EndInsert ==
    LET old == connections[url[cur]] IN
    /\ pc = "inserting"
    /\ connections' = [connections EXCEPT ![url[cur]] = cur]
    /\ \/ /\ old = None
          /\ pc' = "idle" /\ cur' = None
          /\ UNCHANGED <<ready, stopping>>
       \/ /\ old # None
          /\ pc' = "replacing" /\ cur' = old
          /\ Stop(old)
    /\ UNCHANGED <<url, wasOpen, freed, thr, ptr, got, raced, todo, final>>

EndReplace ==
    /\ pc = "replacing" /\ Free(cur)
    /\ pc' = "idle" /\ cur' = None
    /\ UNCHANGED <<connections, url, wasOpen, ixVars, ptr, got, raced, todo, final>>

\* Mutants: the endpoint is not looked up first; the thread is not stopped.
DisconnectUnknown(u) ==
    /\ pc = "idle" /\ Stop(connections[u])
    /\ cur' = connections[u] /\ pc' = "stopping"
    /\ UNCHANGED <<connections, url, wasOpen, freed, thr, ptr, got, raced, todo, final>>

DisconnectNoStop(u) ==
    /\ pc = "idle" /\ connections[u] # None
    /\ cur' = connections[u] /\ pc' = "stopping"
    /\ UNCHANGED <<connections, url, wasOpen, freed, ixVars, ptr, got, raced, todo, final>>

\* disconnect: stop() returns when the thread has exited; then erase.
Disconnect(u) ==
    /\ pc = "idle" /\ connections[u] # None
    /\ Stop(connections[u])
    /\ cur' = connections[u] /\ pc' = "stopping"
    /\ UNCHANGED <<connections, url, wasOpen, freed, thr, ptr, got, raced, todo, final>>

\* Mutant: the entry is left in the map.
DisconnectKeeps ==
    /\ pc = "stopping" /\ Joined(cur) /\ pc' = "idle" /\ cur' = None
    /\ UNCHANGED <<connections, url, wasOpen, freed, ixVars, ptr, got, raced, todo, final>>

DisconnectStopped ==
    /\ pc = "stopping" /\ Joined(cur) /\ pc' = "erasing"
    /\ UNCHANGED <<connections, url, wasOpen, freed, ixVars, ptr, got, raced, cur, todo, final>>

DisconnectErase ==
    /\ pc = "erasing" /\ Free(cur)
    /\ connections' = [connections EXCEPT ![url[cur]] = None]
    /\ pc' = "idle" /\ cur' = None
    /\ UNCHANGED <<url, wasOpen, ixVars, ptr, got, raced, todo, final>>

\* disconnectAll, and ~Client which calls it (last): stop one after another ...
DisconnectAll(last) ==
    /\ pc = "idle" /\ pc' = "all"
    /\ todo' = Keys /\ final' = last
    /\ UNCHANGED <<connections, url, wasOpen, freed, ixVars, ptr, got, raced, cur>>

StopNext(u) ==
    /\ pc = "all" /\ u \in todo
    /\ Stop(connections[u])
    /\ cur' = connections[u] /\ todo' = todo \ {u} /\ pc' = "allJoin"
    /\ UNCHANGED <<connections, url, wasOpen, freed, thr, ptr, got, raced, final>>

StopNextDone ==
    /\ pc = "allJoin" /\ Joined(cur)
    /\ pc' = "all" /\ cur' = None
    /\ UNCHANGED <<connections, url, wasOpen, freed, ixVars, ptr, got, raced, todo, final>>

\* ... then clear(), where every ~WebSocket stops and joins once more: the loop
\* has stopped them all, so none has anything left to wait for.
Clear ==
    /\ pc = "all" /\ todo = {}
    /\ \A u \in Keys : Joined(connections[u])
    /\ connections' = [u \in Url |-> None]
    /\ freed' = freed \cup {connections[u] : u \in Keys}
    /\ pc' = IF final THEN "destroyed" ELSE "idle"
    /\ UNCHANGED <<url, wasOpen, ixVars, ptr, got, raced, cur, todo, final>>

\* wait: sleep, then scan the map; return once it is empty.
Wait ==
    /\ pc = "idle" /\ pc' = "waiting"
    /\ UNCHANGED <<connections, url, wasOpen, freed, ixVars, ptr, got, raced, cur, todo, final>>

WaitReturn ==
    /\ pc = "waiting" /\ Keys = {} /\ pc' = "idle"
    /\ UNCHANGED <<connections, url, wasOpen, freed, ixVars, ptr, got, raced, cur, todo, final>>

ScanBegin ==
    /\ pc = "waiting" /\ Keys # {}
    /\ pc' = "scan" /\ todo' = Keys
    /\ UNCHANGED <<connections, url, wasOpen, freed, ixVars, ptr, got, raced, cur, final>>

\* Mutant: one that is still connecting is taken for dead too.
DeadClosed(c) == ready[c] = "Closed"

\* Only a connection that was open before is taken for dead.
Dead(c) == c \in wasOpen /\ ready[c] = "Closed"

ScanKeep(u) ==
    /\ pc = "scan" /\ u \in todo /\ ~Dead(connections[u])
    /\ todo' = todo \ {u}
    /\ UNCHANGED <<connections, url, wasOpen, freed, ixVars, ptr, got, raced, pc, cur, final>>

\* Mutant: the dead connection is logged and left in the map.
ScanReapKeeps(u) ==
    /\ pc = "scan" /\ u \in todo /\ Dead(connections[u])
    /\ todo' = todo \ {u}
    /\ UNCHANGED <<connections, url, wasOpen, freed, ixVars, ptr, got, raced, pc, cur, final>>

ScanReap(u) ==
    /\ pc = "scan" /\ u \in todo /\ Dead(connections[u])
    /\ todo' = todo \ {u}
    /\ cur' = connections[u] /\ pc' = "reap"
    /\ UNCHANGED <<connections, url, wasOpen, freed, ixVars, ptr, got, raced, final>>

\* Mutant: the callback shares the ownership of its object, which therefore
\* outlives its entry, and its thread with it.
ReapUnlinkLeaks ==
    /\ pc = "reap" /\ pc' = "scan" /\ cur' = None
    /\ connections' = [connections EXCEPT ![url[cur]] = None]
    /\ UNCHANGED <<url, wasOpen, freed, ixVars, ptr, got, raced, todo, final>>

\* connections.erase(it): the entry goes first, then the object, which by
\* now may have reconnected, is destroyed.
ReapUnlink ==
    /\ pc = "reap" /\ pc' = "reaping"
    /\ connections' = [connections EXCEPT ![url[cur]] = None]
    /\ Stop(cur)
    /\ UNCHANGED <<url, wasOpen, freed, thr, ptr, got, raced, cur, todo, final>>

ReapDestroy ==
    /\ pc = "reaping" /\ Free(cur)
    /\ pc' = "scan" /\ cur' = None
    /\ UNCHANGED <<connections, url, wasOpen, ixVars, ptr, got, raced, todo, final>>

ScanEnd ==
    /\ pc = "scan" /\ todo = {} /\ pc' = "waiting"
    /\ UNCHANGED <<connections, url, wasOpen, freed, ixVars, ptr, got, raced, cur, todo, final>>

\* The process has crashed or the client is gone.
Over ==
    /\ pc \in {"destroyed", "crashed"}
    /\ UNCHANGED vars

-----------------------------------------------------------------------------
\* The calls the application chooses to make.
Call ==
    \/ \E c \in Conn, u \in Url : ConnectEndpoint(c, u)
    \/ \E u \in Url : Disconnect(u)
    \/ \E last \in BOOLEAN : DisconnectAll(last)
    \/ Wait

\* A call under way proceeds.
Proceed ==
    \/ BeginInsert \/ EndInsert \/ EndReplace
    \/ DisconnectStopped \/ DisconnectErase
    \/ StopNextDone \/ Clear
    \/ WaitReturn \/ ScanBegin \/ ReapUnlink \/ ReapDestroy \/ ScanEnd
    \/ \E u \in Url : StopNext(u) \/ ScanKeep(u) \/ ScanReap(u)

\* What a background thread does without waiting for the network.
Thread(c) ==
    /\ pc # "crashed"
    /\ \/ OnOpen(c) \/ Lookup(c) \/ RacyLookup(c) \/ SendOn(c) \/ SendOnFreed(c)
       \/ MessageEnd(c) \/ Quit(c) \/ RacyQuit(c) \/ QuitThrows(c)
       \/ IxReconnect(c) \/ IxExit(c)

\* What the network and the exchange may do.
Network(c) ==
    /\ pc # "crashed"
    /\ IxConnect(c) \/ IxDrop(c) \/ MessageBegin(c)

Next ==
    \/ Call \/ Proceed \/ Over
    \/ \E c \in Conn : Thread(c) \/ Network(c)

Spec == Init /\ [][Next]_vars

\* Threads are scheduled, user callbacks return, and a close handshake ends
\* (the library gives up on it after a timeout).  Nothing is assumed of the
\* application's calls, of the host being reachable, or of messages.
CloseCompletes(c) == pc # "crashed" /\ ready[c] = "Closing" /\ IxDrop(c)

FairSpec ==
    /\ Spec
    /\ WF_vars(Proceed)
    /\ \A c \in Conn : WF_vars(Thread(c)) /\ WF_vars(CloseCompletes(c))

-----------------------------------------------------------------------------
(* Properties. *)

\* The values the variables range over.
TypeOK ==
    /\ connections \in [Url -> Conn \cup {None}]
    /\ url \in [Conn -> Url \cup {None}]
    /\ wasOpen \subseteq Conn /\ freed \subseteq Conn
    /\ stopping \subseteq Conn /\ raced \subseteq Conn
    /\ ready \in [Conn -> {"Closed", "Open", "Closing"}]
    /\ thr \in [Conn -> {"none", "connecting", "opened", "lookup", "sending",
                         "polling", "callback", "quitting", "exited"}]
    /\ ptr \in [Conn -> Conn \cup {None}]
    /\ got \in [Conn -> SUBSET Url]
    /\ pc \in {"idle", "started", "inserting", "replacing", "stopping", "erasing",
               "all", "allJoin", "waiting", "scan", "reap", "reaping",
               "destroyed", "crashed"}
    /\ cur \in Conn \cup {None}
    /\ todo \subseteq Url /\ final \in BOOLEAN

\* A ConnectionData is destroyed only when its background thread, whose
\* callback holds a raw pointer to it, has exited, and the map never holds a
\* destroyed one: every way to lose an entry (replace, disconnect,
\* disconnectAll, wait) joins first.
SafeReclaim ==
    /\ \A c \in freed : ~Running(c)
    /\ \A u \in Keys : connections[u] \notin freed

\* No background thread is forgotten: once a method that empties the map has
\* returned, or the destructor has, no callback runs any more.
QuietAfterTeardown ==
    pc = "destroyed" \/ (pc = "idle" /\ Keys = {}) => \A c \in Conn : ~Running(c)

\* Callbacks are per endpoint: except while connectEndpoint is replacing an
\* entry, at most one live thread serves an endpoint, so the callback of a
\* replaced or disconnected feed is never called after the call returned.
OneFeedPerEndpoint ==
    pc \notin {"started", "inserting", "replacing", "crashed"} =>
        \A c, d \in Conn : Running(c) /\ Running(d) /\ url[c] = url[d] => c = d

\* A subscription sent with send(endpoint, message) reaches a session of that
\* endpoint, whatever replacement or reconnection happens meanwhile.
SubscribesOwnEndpoint ==
    \A c \in Conn : \A u \in got[c] : Handler[u] = "endpoint" => u = url[c]

\* Without replacement, the object a handler found is alive when it sends.
PointerAlive ==
    \A c \in Conn : thr[c] = "sending" => ptr[c] \notin freed

\* Every session of a registered endpoint whose on_open sends is subscribed
\* when that handler is done: an automatic reconnection subscribes again.  The
\* exceptions are `raced': a handler that ran before its entry was in the map
\* or while the map changed, and a send(message) beside other endpoints.
SettledSession(c) ==
    /\ thr[c] \in {"polling", "callback", "quitting"} /\ ready[c] = "Open"
    /\ Handler[url[c]] # "none"
    /\ connections[url[c]] = c /\ ~Mutating /\ pc # "crashed"

SubscribedAgain ==
    \A c \in Conn : SettledSession(c) /\ c \notin raced => url[c] \in got[c]

\* The same without the exception: connecting a feed subscribes it
\* ("Subscribe to authenticated user data feed", clients/baseclient.h).
SubscribedOnOpen ==
    \A c \in Conn : SettledSession(c) => url[c] \in got[c]

\* send() returns, true or false, whatever the application thread is doing
\* ("Returns false on failure", websocket/client.h): no handler crashes.
SendReturns == pc # "crashed"

\* A connection reconnects until the application removes it ("automatic
\* reconnection", websocket/client.h): only disconnecting empties an entry.
KeptForReconnection ==
    [][\A u \in Url : connections[u] # None /\ connections'[u] = None
            => pc \in {"erasing", "all"}]_vars

\* wait removes connections that are closed, "only those that were previously
\* open" (websocket/client.cpp): an endpoint that is still connecting for the
\* first time leaves the map by disconnect or disconnectAll.
RemovedOnlyIfOpened ==
    [][\A u \in Url : connections[u] # None /\ connections'[u] = None
            => pc \in {"erasing", "all"} \/ connections[u] \in wasOpen]_vars

\* A registered endpoint reconnects: its thread was told to stop only by the
\* call that is about to remove it, or by its own callback, whose disconnect()
\* throws before the erase and leaves an entry that will never reconnect.
StoppedIsLeaving ==
    pc \notin {"stopping", "erasing", "all", "allJoin", "crashed"} =>
        \A u \in Keys : connections[u] \in stopping => u \in Quits

\* Every method but wait returns: no join waits for ever.
CallsReturn ==
    pc \in {"started", "inserting", "replacing", "stopping", "erasing", "all", "allJoin"}
        ~> pc \in {"idle", "destroyed", "crashed"}

\* wait returns once every connection left was open and its network is gone
\* for good, or has been disconnected by its own callback, whose exception did
\* not remove it.
WaitReturns ==
    <>[](\A u \in Keys : Dead(connections[u]) \/ connections[u] \in stopping)
        => (pc = "waiting" ~> pc \in {"idle", "crashed"})

\* A thread that was told to stop ends, also one that told itself to.
StoppedExits == \A c \in Conn : c \in stopping ~> ~Running(c) \/ pc = "crashed"

\* The registry of feeds that the client implements.
Registry == INSTANCE Feeds WITH
    Feed <- Conn, registered <- connections, of <- url,
    live <- {c \in Conn : Running(c)}, destroyed <- freed
KeepsRegistry == Registry!Spec

=============================================================================
