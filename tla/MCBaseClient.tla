----------------------------- MODULE MCBaseClient -----------------------------
(* Instances of BaseClient for TLC. *)
EXTENDS BaseClient

CONSTANTS c1, c2, c3, btc, eth

UserData == [kind |-> "userData", tokens |-> <<>>]
Trades   == [kind |-> "aggTrade", tokens |-> <<btc>>]
AllTrades == [kind |-> "aggTrade", tokens |-> <<btc, eth>>]
AllDepths == [kind |-> "depth", tokens |-> <<btc, eth>>]

\* A bot's feeds: its orders, one stream, two combined ones.
BotFeeds == {UserData, Trades, AllTrades, AllDepths}
\* What the example with a mixin connects, beside the user's orders.
MixinFeeds == {UserData, AllTrades}

FeedUrls == {UrlOf(f) : f \in Feed}
FeedHandler == [u \in FeedUrls |-> IF u = UrlOf(UserData) THEN "endpoint" ELSE "none"]

\* The combined feeds may be connected again; the callback of the single one
\* may disconnect it.
CombinedUrls == {UrlOf(AllTrades), UrlOf(AllDepths)}
SingleUrl == {UrlOf(Trades)}

=============================================================================
