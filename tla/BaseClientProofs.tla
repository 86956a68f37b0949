--------------------------- MODULE BaseClientProofs ---------------------------
(***************************************************************************)
(* Proofs about BaseClient.  The object only adds to what its WebSocket    *)
(* client does, so everything proved of that client carries over; what is  *)
(* new relates the threads to the destruction of the object.               *)
(***************************************************************************)
EXTENDS BaseClient, WebSocketClientProofs

\* Every step of the object is a step of its client, or leaves the client alone.
LEMMA StepRefines == [BaseNext]_allVars => [Next]_vars
<1> USE DEF vars, allVars, appVars, ixVars, baseVars
<1>1. ASSUME NEW c \in Conn, NEW f \in Feed, ConnectFeed(c, f) PROVE Next
  BY <1>1, BaseAssumption DEF ConnectFeed, Next, Call
<1>2. BaseCall => Next
  BY <1>1 DEF BaseCall, Next, Call
<1>3. BeginDestruction \/ DestroyMember \/ ClientDestroyed => UNCHANGED vars
  BY DEF BeginDestruction, DestroyMember, ClientDestroyed
<1>4. DestroyClient => Next
  BY DEF DestroyClient, Next, Call
<1> QED BY <1>2, <1>3, <1>4 DEF BaseNext, Destruction, Next

\* The object refines its WebSocket client.
THEOREM ClientRefined == BaseSpec => Spec
BY StepRefines, PTL DEF BaseSpec, BaseInit, Spec

\* What the WebSocket client guarantees, the object does.
THEOREM ObjectInherits ==
    BaseSpec => [](SafeReclaim /\ QuietAfterTeardown /\ OneFeedPerEndpoint /\ SubscribedAgain
                     /\ StoppedIsLeaving)
BY ClientRefined, ReclaimIsSafe, TeardownIsQuiet, OneFeed, ResubscribesAlways, StoppedLeaves, PTL

\* The user data feed, the only one with a handler, finds its own live object
\* as long as the application does not connect it twice.
THEOREM UserDataPointerAlive ==
    ASSUME \A f \in Feed : f.kind = "userData" => UrlOf(f) \notin Replaceable,
           \A u \in Url : Handler[u] # "none" => \E f \in Feed : u = UrlOf(f)
    PROVE  BaseSpec => []PointerAlive
<1>1. Disciplined
  BY BaseAssumption DEF Disciplined, HandlerOf
<1> QED BY <1>1, PointersAlive, ClientRefined, PTL

\* An object with market data feeds only, whose callbacks do not disconnect,
\* never meets the races of the unsynchronised map.
THEOREM MarketDataObject ==
    ASSUME \A f \in Feed : f.kind # "userData", \A u \in Url : \E f \in Feed : u = UrlOf(f), Quits = {}
    PROVE  BaseSpec => []SendReturns
<1>1. \A u \in Url : Handler[u] = "none"
  BY BaseAssumption DEF HandlerOf
<1> QED BY <1>1, MarketDataNeverCrashes, ClientRefined, PTL

-----------------------------------------------------------------------------
\* Once the WebSocket client is gone its state is final; a thread that still
\* runs in a destruction serves an endpoint that was connected at its start.
LifeInv ==
    /\ dead \in 0..7 /\ left \subseteq Url
    /\ dead > 3 => pc = "destroyed"
    /\ dead > 0 => \A c \in Conn : Running(c) => url[c] \in left

\* An object's endpoint is that of its feed.
FeedInv ==
    /\ feedOf \in [Conn -> Feed \cup {None}]
    /\ \A c \in Conn : url[c] # None => feedOf[c] \in Feed /\ url[c] = UrlOf(feedOf[c])

LEMMA InitLife == BaseInit => LifeInv /\ FeedInv
BY DEF BaseInit, Init, LifeInv, FeedInv, Running

\* Only ConnectEndpoint starts a thread or names an endpoint.
LEMMA OldThreads ==
    ASSUME IInv, (Proceed \/ Over \/ \E c \in Conn : Thread(c) \/ Network(c))
                 \/ (\E u \in Url : Disconnect(u)) \/ (\E last \in BOOLEAN : DisconnectAll(last)) \/ Wait
    PROVE  UNCHANGED url /\ \A c \in Conn : Running(c)' => Running(c)
<1> USE DEF IInv, TypeOK, Running
<1>1. CASE Proceed
  BY <1>1 DEF Proceed, BeginInsert, EndInsert, EndReplace, DisconnectStopped,
     DisconnectErase, StopNextDone, Clear, WaitReturn, ScanBegin, ReapUnlink,
     ReapDestroy, ScanEnd, StopNext, ScanKeep, ScanReap, ixVars
<1>2. CASE Over \/ (\E u \in Url : Disconnect(u)) \/ (\E last \in BOOLEAN : DisconnectAll(last)) \/ Wait
  BY <1>2 DEF Over, vars, Disconnect, DisconnectAll, Wait, ixVars
<1>3. ASSUME NEW c \in Conn, Thread(c) \/ Network(c)
      PROVE UNCHANGED url /\ \A d \in Conn : Running(d)' => Running(d)
  BY <1>3 DEF Thread, Network, OnOpen, Lookup, RacyLookup, LookupResult, SendOn, SendOnFreed,
     MessageEnd, Quit, RacyQuit, QuitThrows, IxReconnect, IxExit, IxConnect, IxDrop,
     MessageBegin, ixVars
<1> QED BY <1>1, <1>2, <1>3

\* No thread runs on behalf of a destroyed client, so nothing moves it.
LEMMA DestroyedStays ==
    ASSUME IInv, pc = "destroyed", [Next]_vars
    PROVE  pc' = "destroyed"
<1>1. \A c \in Conn : ~Running(c)
  BY WsAssumption DEF IInv, TypeOK, OwnedInv, CreatedInv, LoopInv, Running, Keys, Holding
<1>2. \A c \in Conn : ~(Thread(c) \/ Network(c))
  BY <1>1 DEF Thread, Network, OnOpen, Lookup, RacyLookup, SendOn, SendOnFreed, MessageEnd,
     Quit, RacyQuit, QuitThrows, IxReconnect, IxExit, IxConnect, IxDrop, MessageBegin, Running
<1>3. ~Proceed /\ ~Call
  BY DEF Proceed, BeginInsert, EndInsert, EndReplace, DisconnectStopped, DisconnectErase,
     StopNextDone, Clear, WaitReturn, ScanBegin, ReapUnlink, ReapDestroy, ScanEnd, StopNext,
     ScanKeep, ScanReap, Call, ConnectEndpoint, Disconnect, DisconnectAll, Wait
<1> QED BY <1>2, <1>3 DEF Next, Over, vars

\* The WebSocket client is the fourth part.
LEMMA ClientPart == \A i \in 0..6 : Parts[i + 1] = "ws_client" <=> i = 3
BY DEF Parts

LEMMA NextLife ==
    ASSUME IInv, LifeInv, [BaseNext]_allVars
    PROVE  LifeInv'
<1>0. /\ ClientDestroyed \/ DestroyClient => dead = 3
      /\ DestroyMember => dead # 3
  <2>1. dead \in 1..6 => (NextPart = "ws_client" <=> dead = 3)
    BY ClientPart DEF NextPart
  <2> QED BY <2>1 DEF ClientDestroyed, DestroyClient, DestroyMember
<1> USE WsAssumption DEF LifeInv, baseVars
<1>1. CASE UNCHANGED allVars
  BY <1>1 DEF allVars, vars, Running
<1>2. CASE BaseCall
  <2>1. dead = 0 /\ dead' = dead /\ left' = left
    BY <1>2 DEF BaseCall, ConnectFeed
  <2> QED BY <2>1
<1>3. CASE BeginDestruction
  <2>1. \A c \in Conn : Running(c) => url[c] \in Keys
    BY <1>3 DEF BeginDestruction, IInv, TypeOK, OwnedInv, CreatedInv, Keys, Holding, Running
  <2> QED BY <1>3, <2>1 DEF BeginDestruction, vars, Keys, Running
<1>4. CASE DestroyMember \/ ClientDestroyed
  BY <1>0, <1>4 DEF DestroyMember, ClientDestroyed, vars, Running
<1>5. CASE DestroyClient
  <2>1. dead = 3 /\ UNCHANGED <<dead, left, url>> /\ \A c \in Conn : Running(c)' => Running(c)
    BY <1>0, <1>5, OldThreads DEF DestroyClient
  <2> QED BY <2>1
<1>6. CASE (Proceed \/ Over \/ \E c \in Conn : Thread(c) \/ Network(c)) /\ UNCHANGED baseVars
  BY <1>6, OldThreads, DestroyedStays DEF Next
<1> QED BY <1>1, <1>2, <1>3, <1>4, <1>5, <1>6 DEF BaseNext, Destruction

LEMMA NextFeed ==
    ASSUME IInv, FeedInv, [BaseNext]_allVars
    PROVE  FeedInv'
<1> USE WsAssumption DEF FeedInv, baseVars
<1>1. CASE UNCHANGED allVars \/ BeginDestruction \/ DestroyMember \/ ClientDestroyed
  BY <1>1 DEF allVars, vars, BeginDestruction, DestroyMember, ClientDestroyed
<1>2. ASSUME NEW c \in Conn, NEW f \in Feed, ConnectFeed(c, f) PROVE FeedInv'
  BY <1>2 DEF ConnectFeed, ConnectEndpoint, IInv, TypeOK
<1>3. CASE UNCHANGED baseVars /\ ((Proceed \/ Over \/ \E c \in Conn : Thread(c) \/ Network(c))
              \/ (\E u \in Url : Disconnect(u)) \/ (\E last \in BOOLEAN : DisconnectAll(last)) \/ Wait)
  BY <1>3, OldThreads
<1> QED BY <1>1, <1>2, <1>3 DEF BaseNext, BaseCall, Destruction, DestroyClient

\* Everything proved of the client, and the two parts of this module, hold in
\* every reachable state of the object.
THEOREM LifeInvariance == BaseSpec => [](IInv /\ LifeInv /\ FeedInv)
<1>1. IInv /\ LifeInv /\ FeedInv /\ [BaseNext]_allVars => (LifeInv /\ FeedInv)'
  BY NextLife, NextFeed
<1>2. BaseSpec => []IInv
  BY ClientRefined, Invariance, PTL
<1> QED BY InitLife, <1>1, <1>2, PTL DEF BaseSpec

-----------------------------------------------------------------------------
\* The variables keep their types.
THEOREM BaseTypeCorrect == BaseSpec => []BaseTypeOK
<1>1. IInv /\ LifeInv /\ FeedInv => BaseTypeOK
  BY DEF IInv, LifeInv, FeedInv, BaseTypeOK
<1> QED BY LifeInvariance, <1>1, PTL

\* The parts that outlive every thread: the WebSocket client joins them, and
\* the members declared ahead of it are destroyed after it.
Outliving == {"ws_client", "api_key", "secret_key", "logger"}

LEMMA OutlivingAlive ==
    ASSUME IInv, LifeInv, NEW c \in Conn, Running(c)
    PROVE  Outliving \subseteq Alive
<1>1. dead \in 0..3
  BY WsAssumption DEF IInv, TypeOK, OwnedInv, CreatedInv, LoopInv, LifeInv, Running, Keys, Holding
<1>2. \A i \in 4..7 : Parts[i] \in Alive
  BY <1>1 DEF Alive
<1>3. /\ Parts[4] = "ws_client" /\ Parts[5] = "api_key"
      /\ Parts[6] = "secret_key" /\ Parts[7] = "logger"
  BY DEF Parts
<1> QED BY <1>2, <1>3 DEF Outliving

\* An on_open handler finds the keys, the logger and the WebSocket client
\* alive, also in the middle of the destruction.
THEOREM HandlersAlive == BaseSpec => []HandlerPartsAlive
<1>1. ASSUME IInv, LifeInv PROVE HandlerPartsAlive
  <2>1. \A c \in Conn : thr[c] \in {"opened", "lookup", "sending"} => Running(c)
    BY DEF Running
  <2> QED BY <1>1, <2>1, OutlivingAlive DEF HandlerPartsAlive, Outliving
<1> QED BY LifeInvariance, <1>1, PTL

\* So does a callback, as long as it uses nothing else of the object: not the
\* mixin, the configuration and the REST client, which are destroyed first.
\* No discipline in disconnecting is needed then.
THEOREM CallbacksAlive ==
    ASSUME Uses \subseteq Outliving
    PROVE  BaseSpec => []CallbackPartsAlive
<1>1. ASSUME IInv, LifeInv PROVE CallbackPartsAlive
  <2>1. \A c \in Conn : thr[c] = "callback" => Running(c)
    BY DEF Running
  <2> QED BY <1>1, <2>1, OutlivingAlive DEF CallbackPartsAlive
<1> QED BY LifeInvariance, <1>1, PTL

\* A callback meets a destroyed part only if its endpoint was connected when
\* the destruction began.
THEOREM CallbacksOnlyIfLeft == BaseSpec => []CalledBackOnlyIfLeft
<1>1. LifeInv => CalledBackOnlyIfLeft
  <2> SUFFICES ASSUME LifeInv, NEW c \in Conn, thr[c] = "callback", url[c] \notin left
               PROVE Uses \subseteq Alive
    BY DEF CalledBackOnlyIfLeft
  <2>1. dead = 0
    BY DEF LifeInv, Running
  <2>2. Alive = {Parts[i] : i \in 1..7}
    BY <2>1 DEF Alive
  <2> QED BY <2>2, BaseAssumption
<1> QED BY LifeInvariance, <1>1, PTL

\* Two feeds of the same endpoint are the same feed: the host tells the user
\* data feed, the streams tell the tokens and the kind.
LEMMA UrlsDiffer ==
    ASSUME NEW f \in Feed, NEW g \in Feed, UrlOf(f) = UrlOf(g)
    PROVE  f = g
<1>1. CASE f.kind = "userData" \/ g.kind = "userData"
  <2>1. f.kind = "userData" /\ g.kind = "userData"
    BY <1>1, BaseAssumption DEF UrlOf
  <2> QED BY <2>1, BaseAssumption
<1>2. CASE f.kind # "userData" /\ g.kind # "userData"
  <2>1. /\ f \in [kind : {"aggTrade", "depth"}, tokens : Seq(Token)] /\ f.tokens # <<>>
        /\ g \in [kind : {"aggTrade", "depth"}, tokens : Seq(Token)] /\ g.tokens # <<>>
    BY <1>2, BaseAssumption
  <2>2. Streams(f) = Streams(g)
    BY <1>2 DEF UrlOf
  <2>3. DOMAIN f.tokens = DOMAIN g.tokens
    BY <2>2 DEF Streams
  <2>4. \A i \in DOMAIN f.tokens : f.tokens[i] = g.tokens[i] /\ f.kind = g.kind
    BY <2>2, <2>3 DEF Streams
  <2>5. f.tokens = g.tokens
    BY <2>1, <2>3, <2>4
  <2>6. 1 \in DOMAIN f.tokens
    BY <2>1
  <2> QED BY <2>1, <2>4, <2>5, <2>6
<1> QED BY <1>1, <1>2

\* Connecting one feed never takes the place of another.
THEOREM FeedsKept == BaseSpec => FeedKept
<1> DEFINE A == \A u \in Url : connections[u] # None /\ connections'[u] \notin {None, connections[u]}
                    => feedOf[connections[u]] = feedOf[connections'[u]]
<1>1. ASSUME IInv, FeedInv, [BaseNext]_allVars PROVE [A]_allVars
  <2> SUFFICES ASSUME NEW u \in Url, connections[u] # None, connections'[u] \notin {None, connections[u]}
               PROVE feedOf[connections[u]] = feedOf[connections'[u]]
    OBVIOUS
  <2>1. EndInsert
    <3>1. CASE BaseCall \/ BeginDestruction \/ Destruction \/ UNCHANGED allVars
      BY <1>1, <3>1 DEF allVars, vars, BaseCall, ConnectFeed, ConnectEndpoint, Disconnect,
         DisconnectAll, Wait, BeginDestruction, Destruction, DestroyMember, DestroyClient,
         ClientDestroyed
    <3>2. CASE Over \/ \E c \in Conn : Thread(c) \/ Network(c)
      BY <1>1, <3>2 DEF Over, vars, Thread, Network, OnOpen, Lookup, RacyLookup, LookupResult,
         SendOn, SendOnFreed, MessageEnd, Quit, RacyQuit, QuitThrows, IxReconnect, IxExit,
         IxConnect, IxDrop, MessageBegin
    <3>3. CASE Proceed
      BY <1>1, <3>3 DEF IInv, TypeOK, Proceed, BeginInsert, EndReplace, DisconnectStopped,
         DisconnectErase, StopNextDone, Clear, WaitReturn, ScanBegin, ReapUnlink, ReapDestroy,
         ScanEnd, StopNext, ScanKeep, ScanReap
    <3> QED BY <1>1, <3>1, <3>2, <3>3 DEF BaseNext
  <2>2. connections'[u] = cur /\ url[cur] = u /\ cur \in Conn
    BY <1>1, <2>1 DEF EndInsert, IInv, TypeOK, CurInv, Holding
  <2>3. connections[u] \in Conn /\ url[connections[u]] = u
    BY <1>1 DEF IInv, TypeOK, MapInv
  <2>4. UNCHANGED feedOf
    <3>1. ~\E c \in Conn, f \in Feed : ConnectFeed(c, f)
      BY <2>1 DEF EndInsert, ConnectFeed, ConnectEndpoint
    <3> QED BY <1>1, <3>1 DEF BaseNext, BaseCall, allVars, baseVars, BeginDestruction,
               Destruction, DestroyMember, DestroyClient, ClientDestroyed
  <2>5. u # None
    BY WsAssumption
  <2>6. /\ feedOf[cur] \in Feed /\ u = UrlOf(feedOf[cur])
        /\ feedOf[connections[u]] \in Feed /\ u = UrlOf(feedOf[connections[u]])
    BY <1>1, <2>2, <2>3, <2>5 DEF FeedInv
  <2> QED BY <2>2, <2>4, <2>6, UrlsDiffer
<1> QED BY LifeInvariance, <1>1, PTL DEF BaseSpec, FeedKept

=============================================================================
