------------------------------ MODULE BaseClient ------------------------------
(***************************************************************************)
(* The client object an application owns, src/src/clients/baseclient.h and *)
(* syncclient.h, with the feeds of src/src/policies/binancepolicy.h.       *)
(*                                                                         *)
(* It holds the WebSocket client of WebSocketClient, whose background      *)
(* threads run on_open handlers, which use the object, and the callbacks   *)
(* of the application, which may use its mixins and anything else of it.   *)
(* The module adds which feed an endpoint belongs to and the destruction   *)
(* of the object, one part after another, while those threads run.         *)
(***************************************************************************)
EXTENDS WebSocketClient, Naturals, Sequences

CONSTANTS Token,  \* the token pairs
          Feed,   \* the feeds the application may connect
          Uses    \* the parts of the object its message callbacks use

\* Mutant: ws_client is declared first, so it goes last.
PartsClientFirst ==
    <<"mixin", "config", "rest_client", "api_key", "secret_key", "logger", "ws_client">>

\* The parts in the order of their destruction: the bases of SyncClient from
\* the last to the first, then BaseClient's members likewise.
Parts == <<"mixin", "config", "rest_client", "ws_client", "api_key", "secret_key", "logger">>

\* The handler of a feed: only the user data feed has one, which names its
\* endpoint, and does nothing if the client has no keys.
HandlerOf(f) == IF f.kind = "userData" THEN {"endpoint", "none"} ELSE {"none"}

\* Mutant: the streams are named by their token alone.
UrlOfTokens(f) ==
    CASE f.kind = "userData" -> <<"BINANCE_WS_USER_HOST", "/ws-api/v3", <<>> >>
      [] OTHER -> <<"BINANCE_WS_HOST", "/stream?streams=", f.tokens>>

\* The host and path of a feed.  One stream has a path of its own, any other
\* number is combined.
Streams(f) == [i \in DOMAIN f.tokens |-> <<f.tokens[i], f.kind>>]

UrlOf(f) ==
    CASE f.kind = "userData" -> <<"BINANCE_WS_USER_HOST", "/ws-api/v3", <<>> >>
      [] f.kind # "userData" /\ Len(f.tokens) = 1 -> <<"BINANCE_WS_HOST", "/ws/", Streams(f)>>
      [] OTHER -> <<"BINANCE_WS_HOST", "/stream?streams=", Streams(f)>>

ASSUME BaseAssumption ==
    /\ \A f \in Feed :
        /\ \/ f = [kind |-> "userData", tokens |-> <<>>]
           \/ /\ f \in [kind : {"aggTrade", "depth"}, tokens : Seq(Token)]
              /\ f.tokens # <<>>
        /\ UrlOf(f) \in Url
        /\ Handler[UrlOf(f)] \in HandlerOf(f)
    /\ Uses \subseteq {Parts[i] : i \in 1..7}

VARIABLES
    dead,    \* how many of Parts have been destroyed
    feedOf,  \* the feed an object was connected for
    left     \* the endpoints in the map when the destruction began

baseVars == <<dead, feedOf, left>>
allVars == <<vars, baseVars>>

Alive == {Parts[i] : i \in (dead + 1) .. 7}

BaseInit ==
    /\ Init
    /\ dead = 0 /\ left = {}
    /\ feedOf = [c \in Conn |-> None]

-----------------------------------------------------------------------------
\* connectUserDataFeed, connectTradeFeed, connectDepthFeed: the policy names
\* the endpoint and passes the callback on.
ConnectFeed(c, f) ==
    /\ ConnectEndpoint(c, UrlOf(f))
    /\ feedOf' = [feedOf EXCEPT ![c] = f]
    /\ UNCHANGED <<dead, left>>

\* What the application may call while it has the object.
BaseCall ==
    /\ dead = 0
    /\ \/ \E c \in Conn, f \in Feed : ConnectFeed(c, f)
       \/ /\ (\E u \in Url : Disconnect(u)) \/ DisconnectAll(FALSE) \/ Wait
          /\ UNCHANGED baseVars

\* Between two calls the object goes out of scope: the mixin is the first part.
BeginDestruction ==
    /\ dead = 0 /\ pc = "idle"
    /\ dead' = 1 /\ left' = Keys
    /\ UNCHANGED <<vars, feedOf>>

\* The next part to go, while there is one.
NextPart == Parts[dead + 1]

\* Mutant: the last part is destroyed twice.
DestroyMemberTwice ==
    /\ dead \in 1..7 /\ (dead < 7 => NextPart # "ws_client")
    /\ pc \in {"idle", "destroyed"}
    /\ dead' = dead + 1
    /\ UNCHANGED <<vars, feedOf, left>>

\* Members that only free memory.
DestroyMember ==
    /\ dead \in 1..6 /\ NextPart # "ws_client"
    /\ pc \in {"idle", "destroyed"}
    /\ dead' = dead + 1
    /\ UNCHANGED <<vars, feedOf, left>>

\* ~websocket::Client disconnects every endpoint before the member is gone.
DestroyClient ==
    /\ dead \in 1..6 /\ NextPart = "ws_client" /\ DisconnectAll(TRUE)
    /\ UNCHANGED baseVars

ClientDestroyed ==
    /\ dead \in 1..6 /\ NextPart = "ws_client" /\ pc = "destroyed"
    /\ dead' = dead + 1
    /\ UNCHANGED <<vars, feedOf, left>>

Destruction == DestroyMember \/ DestroyClient \/ ClientDestroyed

BaseNext ==
    \/ BaseCall \/ BeginDestruction \/ Destruction
    \/ /\ Proceed \/ Over \/ \E c \in Conn : Thread(c) \/ Network(c)
       /\ UNCHANGED baseVars

BaseSpec == BaseInit /\ [][BaseNext]_allVars

\* The fairness of FairSpec, and a destruction that has begun goes on.
FairBaseSpec ==
    /\ BaseSpec
    /\ WF_allVars(Proceed /\ UNCHANGED baseVars)
    /\ WF_allVars(Destruction)
    /\ \A c \in Conn : /\ WF_allVars(Thread(c) /\ UNCHANGED baseVars)
                       /\ WF_allVars(CloseCompletes(c) /\ UNCHANGED baseVars)

-----------------------------------------------------------------------------
(* Properties. *)

\* The variables of this module keep their types, those of the client theirs.
BaseTypeOK ==
    /\ TypeOK
    /\ dead \in 0..7 /\ left \subseteq Url
    /\ feedOf \in [Conn -> Feed \cup {None}]

\* An on_open handler signs with the keys, sends on the WebSocket client and
\* logs: it never runs after one of them was destroyed, also when the object
\* is destroyed with feeds connected, because the client, which joins the
\* threads, is destroyed before the members declared ahead of it.
HandlerPartsAlive ==
    \A c \in Conn : thr[c] \in {"opened", "lookup", "sending"} =>
        {"ws_client", "api_key", "secret_key", "logger"} \subseteq Alive

\* An application that disconnects its endpoints, or waits until they are
\* gone, before the object goes out of scope, as the examples do, is never
\* called back on a part that no longer exists, whatever the callbacks use.
CalledBackOnlyIfLeft ==
    \A c \in Conn : thr[c] = "callback" /\ url[c] \notin left => Uses \subseteq Alive

\* No callback uses a part of the object that was destroyed: "Disconnects all
\* endpoints on destruction" (websocket/client.h), and a mixin's callback is
\* part of the object (examples/binance_trade_feed_mixin.cpp).
CallbackPartsAlive ==
    \A c \in Conn : thr[c] = "callback" => Uses \subseteq Alive

\* Connecting one feed never takes the place of another: an entry is only
\* replaced by a newer connection of the same kind for the same tokens.
FeedKept ==
    [][\A u \in Url : connections[u] # None /\ connections'[u] \notin {None, connections[u]}
            => feedOf[connections[u]] = feedOf[connections'[u]]]_allVars

\* The destructor returns, whatever the network and the callbacks of the
\* feeds that are left do, and no thread of the object survives it.
DestructionEnds == dead > 0 ~> (dead = 7 /\ \A c \in Conn : ~Running(c)) \/ pc = "crashed"

=============================================================================
