SPECIFICATION Spec
CONSTANTS
    c1 = c1  c2 = c2  c3 = c3
    userData = userData  trades = trades  kraken = kraken
    None = None
    Conn = {c1, c2}
    Url = {userData, trades}
    Handler <- BinanceHandler
    Replaceable = {}
    Quits = {}
INVARIANT SubscribedOnOpen
