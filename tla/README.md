# A verification project for CryptoCon (trade_connector)

CryptoCon is a header-heavy C++20 library that connects a trading program to
crypto exchanges: signed HTTPS requests for orders and accounts, and WebSocket
feeds for market and user data. This directory holds TLA+ models of the parts
where its difficulty lies, the TLC configurations that check them on small
instances, and TLAPS proofs of the main safety properties for instances of any
size. Paths such as `websocket/client.cpp` are relative to `src/src/`.

## 1. Inventory

| component | state it keeps | operations | correct when |
|---|---|---|---|
| **WebSocket client** `websocket/client.{h,cpp}` | map endpoint → `ConnectionData` (ix::WebSocket, `was_open`) | connectEndpoint, send ×2, disconnect, disconnectAll, wait, destructor; message callback on one library thread per connection | objects outlive their threads; callbacks are per endpoint; every session is subscribed; every method returns |
| **REST client** `rest/client.{h,cpp}` | one TCP/TLS stream | post, get, put, del, reconnectStream, readFromStream, constructor, destructor | a request runs at most once and gets its own answer; failures are reported |
| **Error** `types.h` | code, message; a global `dummy_error` | assigned by the REST client | tells failed calls from others |
| **Binance policy** `policies/binancepolicy.h` | none | buildQuery ×2, sendOrder, cancelOrder, getOpenOrders, cancelAllOpenOrders, getters, listen keys, leverage; connectUserDataFeed, connectTradeFeed, connectDepthFeed | what the caller set is what the exchange is sent; cancelling all cancels all or says so |
| **Kraken policy** `policies/krakenpolicy.h` | none | connectTradeFeed, connectDepthFeed | the feed it connects is the one it subscribes |
| **Order builder** `orderbuilder.h`, `types.h` | an `OrderParams<M>` | setters, reset, build | no value of one order reaches the next |
| **BaseClient**, SyncClient, AsyncClient `clients/` | credentials, both clients, the policy | forwards to the policy | its parts live as long as the threads that use them |
| **Utilities, signing, configs** | symbol and enumeration tables | appendNumber, HMAC, compile-time selection | numbers survive formatting |

How they interact: a program calls `BaseClient`, which forwards to the policy
with itself as `host`; the policy calls `host.restClient()` or
`host.websocketClient()`. In the other direction the library thread of each
connection calls the user's message callback and the policy's `on_open`, and
`on_open` calls `send` on the same WebSocket client while the application
thread may be in any of its methods. Nothing in the library takes a lock.

The hard behaviours are those crossings: an `on_open` that runs before its
connection is registered, lookups in a map that is changing, objects replaced
or destroyed while a handler holds a pointer to them, `wait()` polling against
automatic reconnection, a callback that disconnects its own endpoint, and the
destruction of the client object under callbacks that use it; for REST, requests whose outcome is unknown after a
failure, a failure inside the handling of a failure, and calls that never
return; for `cancelAllOpenOrders`, a sequence of requests of which some fail.
`PROJECT.json` lists them one by one, each at its line.

## 2. Modules

| module | what it is |
|---|---|
| `Feeds`, `FeedsProofs` | abstract: the registry of feeds the WebSocket client promises; what follows from it |
| `WebSocketClient` | the WebSocket client, its library threads, handlers and callbacks; `KeepsRegistry` states that it implements `Feeds` |
| `MCWebSocketClient` | its handlers and symmetry for TLC |
| `WebSocketClientProofs` | its inductive invariants and theorems, the refinement, and what it inherits from `Feeds` |
| `BaseClient` | the client object: the Binance feeds, and its destruction part by part, over `WebSocketClient` |
| `MCBaseClient`, `BaseClientProofs` | feeds for TLC; proofs |
| `RestCall`, `RestCallProofs` | abstract: what one request promises its caller; what follows from it |
| `RestClient` | the REST client; `Refines` states that it implements `RestCall` |
| `MCRestClient`, `RestClientProofs` | instances; proofs, with the refinement |
| `CancelAll` | cancelAllOpenOrders, whose requests are steps of `RestCall` (INSTANCE) |
| `MCCancelAll`, `CancelAllProofs` | instances; proofs |
| `OrderQuery` | order builder to query string |
| `MCOrderQuery`, `OrderQueryProofs` | amounts for TLC; proofs |

### WebSocketClient

Two kinds of threads. The application thread is `pc`, `cur` (the object it is
working on), `todo` (what a loop has left to visit) and `final` (whether the
disconnectAll is the destructor's). Each connection object `c` has a library
thread at `thr[c]`: `connecting`, `opened` (about to report Open), `lookup` and
`sending` (inside an on_open that sends), `polling`, `callback` (inside the
user's message callback), `exited`.

Each method is split where another thread can get in: connectEndpoint is
`ConnectEndpoint` (up to and including `start()`), `BeginInsert`, `EndInsert`
(and `EndReplace`, the destruction of a replaced object); disconnect is
`Disconnect`, `DisconnectStopped`, `DisconnectErase`; disconnectAll and the
destructor are `DisconnectAll`, `StopNext`, `StopNextDone`, `Clear` (which,
destroying the objects, asks for their threads once more); wait is
`Wait`, `ScanBegin`, `ScanKeep` or `ScanReap` per entry, `ReapUnlink`,
`ReapDestroy`, `ScanEnd`, `WaitReturn`. While the map is being modified
(`Mutating`), a lookup by a handler is `RacyLookup`: undefined behaviour, so it
may find the old or the new entry, find none, or crash. A send through a
pointer to a destroyed object (`SendOnFreed`) may crash too.

`Handler[u]` says what the on_open of endpoint `u` does (`HandlerKind`): `"endpoint"` is
`send(url, ...)`, as connectUserDataFeed does; `"first"` is `send(message)`,
which takes `connections.begin()`, as Kraken's connectTradeFeed does; `"none"`
is the default, also that of a user data feed without credentials, whose
handler logs and returns. The order of an unordered_map is any order.

The library (IXWebSocket) is external and modelled by what the client relies
on: reconnection by default, `stop()` closing the session and joining the
thread, callbacks run one at a time per connection. `got`, the subscriptions a
server has in the current session, and `raced`, the objects whose last lookup
was early or racy, are there for the properties.

The application's own `send` only reads the map; a failing send ends the
session, which `IxDrop` does at any time. Methods are called from one thread,
as in the examples, with one exception: the message callbacks of the endpoints
in `Quits` may disconnect their own endpoint. `Quit` is the `stop()` in that
`disconnect`, on the very thread it wants to join; `std::thread::join` throws
(`QuitThrows`), the lambda of `addConnection` catches and logs, and the `erase`
is not reached: the thread ends, the entry stays, never reconnecting, until
somebody removes it.
Endpoints in `Quits` are not connected again meanwhile (`WsAssumption`), since
two threads would then be stopping one object. `wait` has its own way of losing
entries: `RemovedOnlyIfOpened` says it takes only endpoints that were open, and
`StoppedIsLeaving` that nothing else gives up the reconnection of an endpoint
that stays in the map, except its own callback.

`Feeds` is what all this amounts to for a user of the client: an endpoint has
one registered feed; a feed that runs without being registered belongs to the
one call under way, and nothing new starts before that call is done with it;
no feed is destroyed, and no set of feeds removed, while one of its callbacks
may run. The refinement maps the map entries to `registered`, the running
threads to `live`, and `freed` to `destroyed`. From these steps alone follow
`DestroyedAtRest` (a destroyed feed neither runs nor is registered),
`OneOutOfPlace` (at most one feed runs that is not its endpoint's) and
`EndsForGood` (a feed runs once, for one endpoint).

### BaseClient

The object an application owns. `ConnectFeed` is connectEndpoint with the
endpoint that the policy makes of a feed (`UrlOf`: one path for the user data
feed, `/ws/` for one token, `/stream?streams=` for more). `Parts` are the bases
and members in the order of their destruction, the reverse of their
declaration: mixins, `config`, `rest_client`, `ws_client`, then the keys and
the logger. `BeginDestruction` may come between any two calls; each
`DestroyMember` removes one part, and when it is the turn of `ws_client` the
whole of the WebSocket client's destructor runs (`DestroyClient`, the steps of
`DisconnectAll`, `ClientDestroyed`), with the background threads still running.
That order is all that `HandlerPartsAlive` hangs on: with `ws_client` declared
before the keys it is false. `Uses` is what the application's callbacks use of
the object, and `left` the endpoints that were connected when the destruction
began. `HandlerOf` says which feeds have an on_open handler.

### RestCall and RestClient

post, get, put and del differ in what they send, not in what they do, and are
one `Call`, followed by `WriteOk` or `WriteFail`, `WriteError`,
`WriteReconnect`, then `ReadOk` or `ReadFail`, `ReadError`, `ReadReconnect`.
A failed write reconnects and then reads all the same, as the code does.
`ConnectThrows` is every exception out of `connect()`: from resolving, which
leaves the old connection as it was, or from a later step, after the old
connection was closed. The TLS stream object is reused and never renewed, and
whether its second handshake starts a session is up to OpenSSL: `Connected`
allows both, and `"stale"` is a connection whose peer understands nothing.
The caller chooses the Error of each call: the shared `Dummy`, a new one, or
one that still holds an earlier code (`reused`).

`RestCall` has four steps, `Issue`, `Execute`, `Answer` and `Fail`. It says
that a request runs at most once, possibly after its failure was reported, and
that only a request that ran is answered. `RestClient` implements it with the
identity on `verdict` and `execs`; what is to be shown is that retries that are
not there, reconnections and leftovers on the connection never break it. Its
promises are `AtMostOnce` and `VerdictFinal`.

`HangsNotSent` is what the client guarantees when a read never ends. On a
connection that exists, with nothing of the call under way, the write had
failed, or was lost on a stale TLS stream: the order is not placed, and in the
first case the caller's own Error already says so. `NothingLeft` is about what a
call leaves to the next one: nothing if it returned; if it threw, with the old
connection still in place, at most the unreadable rest of a refused response.

### CancelAll

The GET for the open orders and one DELETE per order are requests of
`RestCall`. The exchange meanwhile fills, places and refuses. `List \in refused`
and an empty body both make the parser throw; an exception of the connection
passes through; a failed or refused cancellation is not looked at. An order
whose symbol is not in `Binance::stringToTokenPair` leads to the dereference
of `end()`, after which nothing is defined and the model stops.

### OrderQuery

The builder of either market with every setter, reset and sendOrder. A setter
may be called with the value that stands for an absent one: an amount of 0, an
empty string, `false`, GTC, no position side, or the timestamp 0 that
`orderbuilder.h:105` documents as "auto-generate". Such a call takes back what
was set before (`Withdraws`), and the field is no longer one of `chosen`. A query
is the set of its name, value, notation triples. A builder created with `()`
or `{}` is value-initialised, so `side` and `type` are `BUY` and `MARKET` in it
and after reset; in one that is only declared (`clean` is FALSE) they are
indeterminate: any of the listed values, or `"garbage"`, for which
`operator[]` of the tables of `types.h` enters and returns an empty string.
`Notation` is what `std::to_chars` does without a format: the shorter of fixed
and exponent notation, fixed if they are equally long. An amount is its
number of digits and the power of ten they are followed by; `PlainInRange` is
about those of 0.001 or more with fewer than five trailing zeros.
`ValuesChosen` asks for a clean builder, or for one on which side and type have
been set. `SpotTimestampedOnce` says that a spot query has one timestamp: the one
this order was given, or the time of sending if it was given none, or 0 last.

## 3. Runs

| run | bounds | question |
|---|---|---|
| `ws_feeds` | 3 objects, 2 endpoints, one handler of each sending kind, both replaceable | safety of objects, threads, callbacks, subscriptions, removals; refinement of Feeds |
| `base_live` | 2 objects, 4 feeds: user data, a stream whose callback may quit, two replaceable combined streams | destruction, feeds, reconnection, no use after free; methods, wait, threads and destructor end |
| `ws_early_open`, `ws_send_race`, `ws_wait_reconnect` | 2 objects; replacement in `ws_send_race` only | what the documentation promises and races break |
| `life_mixin` | 2 objects, 2 feeds, callbacks that use the mixin | destruction with a feed connected |
| `rest_calls` | 2 clients, 2 requests, shared dummy_error | refinement of RestCall, Errors, leftovers, what a hanging call sent, return |
| `cancel_all` | 3 orders, one of them with an unknown symbol | what a normal return means; it ends |
| `cancel_partial` | 3 orders, all known | are all orders cancelled? |
| `order_query` | 1 amount, 2 time-in-force values, both markets | builder reuse, absent values, timestamps, notation |
| `order_timestamp`, `order_declared` | the same | what the comments on buildQuery and OrderBuilder promise |

Why the bounds are enough. For one endpoint the interesting case is a
replacement while another thread is sending: two objects, plus a third so that
a handler of another endpoint can hold a pointer to either. Objects are used
once, so a run ends with all of them exited; the client itself goes on. Two
requests on one client are what it takes for the answer to one to meet the
other, and two clients for the shared Error. In CancelAll, three orders give a
first, a middle and a last, of which each can be filled, refused or unknown.
In base_live two objects are enough for every
pair of feeds, one of them being replaced, quitting or dropped while the other
is in a handler or callback; the safety of a third is in the proofs. In
OrderQuery one amount is enough since each field is tied to its own setter;
TLC takes 10000, where the two notations are equally long, and the proof takes
all the others. All state spaces are finite without state constraints: objects
and requests are used up.

`CHECK_DEADLOCK FALSE` is set for CancelAll only: the call ends and the
exchange settles. Elsewhere the end of the program is an action (`Over`).

What the violations show (`findings` in `PROJECT.json` quotes the lines):

- `SubscribedOnOpen`: `start()` comes before the map insertion; a fast
  connection runs `on_open`, finds nothing, logs, and stays unsubscribed until
  the next reconnection.
- `SendReturns`: `send` from `on_open` reads the map while the application
  thread modifies it; the shortest trace needs one feed only, whose connection
  is up before `connectEndpoint` has finished inserting it. A connection that
  is replaced while a handler holds a pointer to it is another way.
- `KeptForReconnection`: `wait()` destroys a connection in the interval in
  which the library would have reconnected it. The comment on `wait` itself,
  "Cleans up dead connections periodically", does not tell the two apart.
- `CallbackPartsAlive`: an object that goes out of scope with a feed connected
  may be called back in its mixin after the mixin was destroyed, since the
  WebSocket client, which ends the threads, is destroyed later.
  `CalledBackOnlyIfLeft` is the counterpart that holds: to disconnect, or to
  wait as the examples do, is enough.
- `AllCancelled`: failures of single cancellations are swallowed.
- `Timestamped`: no timestamp in futures queries by default.
- `StartsEmpty`: a builder that is only declared does not start empty.

## 4. Fairness

`BaseClient!FairBaseSpec`: weak fairness of the application thread once it is
in a method (`Proceed`) and of a destruction that has begun, of each library
thread (both are scheduled, and user callbacks return), and of a close that has
begun, which the library abandons after a timeout. Nothing is assumed of the
application's calls, of the network, or of messages. `WaitReturns` has a
premise, that from some point on every registered connection was open before
and stays closed, or was told to stop by its own callback: an endpoint that
never opened is never removed by wait, and one that keeps reconnecting keeps
wait waiting. `StoppedExits` has none.

`RestClient!ClosingSpec`: threads are scheduled, a read ends when there is
something to read or the connection is gone, the exchange serves what it
receives, and closes a connection on which it has nothing to do. The last is
about the servers, not the code: the client sets no deadline on reads, so
after a failed write it reads from a new connection on which no answer will
come, and without that assumption the call never returns (`CallReturns` is
false under `FairSpec`).

`CancelAll!FairSpec`: every request returns, which is `CallReturns` above.

## 5. Proofs

All theorems hold for every set of endpoints, objects, feeds, clients, requests,
orders and amounts; the assumptions are those named in the modules
(`WsAssumption`, `BaseAssumption`, `RestAssumption`, `CancelAssumption`,
`OrderAssumption`), which keep the null values apart from the others, type the
handlers and amounts, and say which endpoints may be connected again, which
callbacks may disconnect, and that a stream has at least one token. Theorems
that need more of the application say so in their ASSUME. Every invariant and
every action property that a passing run checks is also a theorem.

| run that finds a violation | the theorem that says when the property holds |
|---|---|
| `ws_early_open`, `SubscribedOnOpen` | `ResubscribesAlways`: unless the lookup was early, racy, or beside another endpoint |
| `ws_send_race`, `SendReturns` | `MarketDataNeverCrashes`, `MarketDataObject`: without on_open handlers, and callbacks that do not disconnect |
| `ws_wait_reconnect`, `KeptForReconnection` | `RemovesOnlyOpened`, `StoppedLeaves`: all it can lose is an endpoint that was open, to wait |
| `life_mixin`, `CallbackPartsAlive` | `CallbacksAlive`: if the callbacks use only what outlives the threads; `CallbacksOnlyIfLeft`: if the endpoint was disconnected |
| `cancel_partial`, `AllCancelled` | `SurvivorsExplained`, with the corollary `AllCancelledIfAnswered`: if nothing is refused and no request fails |
| `order_timestamp`, `Timestamped` | `SpotTimestamps`: in the spot market |
| `order_declared`, `StartsEmpty` | `OnlyChosenSent`: once side and type are set |

**FeedsProofs, RestCallProofs.** The abstract specifications have theorems of
their own: `RegistryKept` and `EndedForGood`, `ExecutedAtMostOnce` and
`VerdictsFinal`. `FInv` is inductive because `Start`, `Register` and
`Unregister` ask for all the other feeds to be in place; `CallInv` because
an answer needs an execution. Whatever implements the two inherits the results: the
proof modules of the clients instantiate these modules with their refinement
mapping and, since an INSTANCE is a copy of each definition, show first that
the two copies agree (`SameRegistry`, `SameCalls`).

**WebSocketClientProofs.** The safety properties are not inductive: that an
object is destroyed after its thread says nothing of who will join a thread
that is still running. `OwnedInv` does: a running thread is that of its
endpoint's map entry or of the object the application thread holds. With
`MapInv` (entries are live and under their own endpoint), `CurInv` (what `cur`
is in each phase), `LoopInv` (loops visit entries that exist; what
disconnectAll has visited has exited) and `FoundInv` (what a handler found has
its endpoint) this is `IInv`. From it follow `TypeCorrect`, `ReclaimIsSafe`,
`TeardownIsQuiet`, `OneFeed` and `OwnEndpoint`. `PointersAlive` needs a
discipline of the application, `Disciplined`: handlers that send name their
endpoint, and such an endpoint is not connected a second time. Then a handler
can only find its own object, which lives as long as the thread. Without it
the property is false. `ResubscribesAlways` adds `AgainInv`: an object whose
handler is past its lookup, without a race, has found itself, so what it sends
goes to its own session. `ImplementsRegistry` follows from the same `IInv`: each
guard of `Feeds` that asks for the others to be in place is `OwnedInv` at the
step that needs it. `RegistryInherited` and `ThreadsRunOnce` are what `Feeds`
then gives: a thread that has exited is never started again.

What leaves the map, and which threads are told to stop, is not in `IInv`.
`ReapInv` says that `wait` is about to take an object that was open, a fact
that stays true between its test and its erase although `Closed` does not;
`StopInv` that an object told to stop is one whose callback may quit, or is out
of the map, or is the one the call under way will take out. They give
`RemovesOnlyOpened` and `StoppedLeaves`. `NoJoinInVain` is the safety half of
`CallsReturn`: the thread a call joins was told to stop, and as long as it has
not exited the guard of one of its steps holds, or a close handshake is under
way. What is left to the fairness is that these steps are taken, and that
there are finitely many of them. `MarketDataNeverCrashes` shows that the data
race needs a handler or a callback that calls the client.

**BaseClientProofs.** `ClientRefined` shows that every step of the object is a
step of its WebSocket client or leaves it alone, so the client's theorems carry
over (`ObjectInherits`, `UserDataPointerAlive`, `MarketDataObject`); the two
that need a discipline become statements about the feeds an application
connects. `LifeInv` ties the progress of the destruction to the client's (`dead`
passes 3 only when `pc` is `destroyed`) and keeps the running threads within
the endpoints of `left` once it has begun, from which `CallbacksOnlyIfLeft`
follows. With `IInv`, whose threads all have an owner, it gives
`OutlivingAlive`: while a thread runs, the WebSocket client, the
keys and the logger are alive. `HandlersAlive` and `CallbacksAlive` are its two
uses. `FeedInv` says that an object has the endpoint of its feed, and a lemma
that `UrlOf` is injective on the feeds; `FeedsKept` follows.

**RestClientProofs.** `CallInv`: a pending request belongs to one call under
way. `SentInv`: a request is sent by one successful write, and what has not
been sent has not been received. `PipeInv`: a readable response is of the call
that is reading. `ErrorInv`: a caller's own Error is set before a
reconnection. The theorems are `TypeCorrect`, `ErrorsTell`,
`WriteErrorsNotSent` (code 2 means that the request never ran), `LeavesNothing`
and `Refinement` (each step is a step of `RestCall` or changes nothing of it).
`HangingNotSent` is inductive on top of these: a successful write puts the
request on the connection, and it leaves it only for the exchange, as a
response, or with the connection. `PromiseInherited` is what `RestCall` gives.

**CancelAllProofs.** `LoopInv`: every listed order is still to do, being
cancelled, or reported on; `AllTried` and `SurvivorsExplained` follow.
`CallsInherited` shows that the loop and the exchange
only take steps of `RestCall`, so a cancellation that failed is never repeated.

**OrderQueryProofs.** `ParamsOK`: a clean builder differs from the empty
parameters only where a setter ran, one that is only declared perhaps also in
`side` and `type`, and no setter stores garbage. The lemmas
`SpotRead` and `FuturesRead` show that every parameter of a query is read from
its own field, and `ReadOK` that such a parameter is in order; `OrderTypeCorrect`
and `OnlyChosenSent` follow. `StampInv` follows the one field whose absence
the spot query makes up for; `SpotTimestamps` needs that reset and a timestamp
of 0 clear it, that no other setter touches it, and that only one of the two branches appends it.
`PlainNumbers` rests on the arithmetic of `PlainNotation`: with n digits before
the k-th power of ten, k at most 4, and an exponent n - 1 + k of at least -3, the
fixed notation is never the longer one.

Only model-checked: the liveness properties (`CallsReturn`, `WaitReturns`,
`StoppedExits`, `DestructionEnds`, `CallReturns`, `Ends`), since the prover
handles neither fairness nor ENABLED. `NoJoinInVain` and `HangingNotSent` are
the parts of them that are safety. That an INSTANCE of a proof module shows the
same thing as the instance a run checks is itself proved, not assumed.

## 6. Not modelled, and why

- Callbacks that connect an endpoint, or disconnect another one. Their methods
  would run on several threads over a map without a lock; two callbacks that
  disconnect each other's endpoints wait for ever. The library does not say
  which threads may call it, so no property separates use from misuse.
- Two threads on one REST client, for the same reason.
- `readFromStream` called by itself, which nothing does.
- Listen keys, leverage, margin type and the getters: one request each, which
  is one call of `RestClient`.
- A user data feed on a path other than the default, and feeds without tokens.
- The Kraken policy as a client of its own: its handler is in WebSocketClient,
  its endpoint is always the bare host, so `FeedKept` does not apply to it.
- `configs.h`, signing, time and logging: no state. The policies do not even
  use `configs.h`: their hosts and paths are constants of their own.
- Headers, bodies, signatures, JSON text, the texts of paths and messages.
- Code that does not compile when instantiated: AsyncClient's constructor,
  `createListenKey` (`host.post`), `setMarginType` (`sign`),
  `OrderBuilder::leverage`, Kraken's `connectDepthFeed` (ambiguous overload).

Observations that no run states:

- A price of 100000 is written `1e+05`, and the plus sign goes into the query
  as it is (`utils/utils.h:26`); `PlainInRange` leaves such amounts out.
- A read error after a write error replaces code 2 by code 1
  (`rest/client.cpp:108`), so code 1 does not say whether the request ran.
- A successful call does not clear the Error it was given (`rest/client.cpp:119`);
  `ErrorTellsVerdict` is about Errors no earlier call has set.
- Neither read nor write has a deadline: a peer that stays connected and does
  not answer blocks its caller (`CallReturns` assumes an exchange that does not).
- A callback that disconnects its own endpoint leaves the entry in the map
  (`websocket/client.cpp:142` is not reached); only `disconnect`,
  `disconnectAll`, `wait` or a replacement removes it.
- The futures query ignores new_client_order_id, leaves out timeInForce for a
  LIMIT order with the default GTC (`binancepolicy.h:378`), and a futures order
  goes to the spot path (`binancepolicy.h:195`; `configs.h:47` has the other).
- `getOpenPositions` requests `/api/v3/openOrders` (`binancepolicy.h:105`).
- stop_limit_price is documented for STOP_LOSS_LIMIT orders (`types.h:211`) and
  sent for OCO only.
- `sendOrder` of a policy without one returns "" and leaves the Error unset
  (`baseclient.h:82`); Kraken's handler logs "Subscribed" whatever happened.

## 7. Plan

Done, in this order: WebSocketClient and its proofs; RestCall, RestClient and
the refinement; CancelAll and its proofs; OrderQuery; callbacks that disconnect
their own endpoint; Feeds and its refinement; BaseClient with the lifetime of
the object, and its proofs; the proofs of OrderQuery; the theorems of the
abstract specifications and what the clients inherit from them; when the
properties that the violation runs break do hold.

Left to prove: that CancelAll implements one abstract step, a list of orders
cancelled but for the refused and failed ones, so that a program above it need
not look at its loop.

Left to model:

1. Callbacks that disconnect another endpoint, with the cycles of joins, once
   the library says which threads may call it.
2. CancelAll over RestClient itself, in place of RestCall.
3. The Kraken policy as a configuration of BaseClient.
