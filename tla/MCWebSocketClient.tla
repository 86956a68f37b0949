-------------------------- MODULE MCWebSocketClient --------------------------
(* Instances of WebSocketClient for TLC. *)
EXTENDS WebSocketClient, TLC

CONSTANTS c1, c2, c3, userData, trades, kraken

\* A Binance client: the user data feed subscribes in on_open, the trade
\* feed is selected by its path and has the default on_open.
BinanceHandler == (userData :> "endpoint") @@ (trades :> "none")

\* The user data feed beside an endpoint whose on_open uses send(message), as
\* the Kraken trade feed's does.
MixedHandler == (userData :> "endpoint") @@ (kraken :> "first")

ConnSymmetry == Permutations(Conn)

=============================================================================
