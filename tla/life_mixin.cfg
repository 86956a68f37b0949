SPECIFICATION BaseSpec
CONSTANTS
    c1 = c1  c2 = c2  c3 = c3  btc = btc  eth = eth
    None = None  Token = {btc, eth}
    Conn = {c1, c2}
    Feed <- MixinFeeds
    Url <- FeedUrls
    Handler <- FeedHandler
    Replaceable = {}
    Quits = {}
    Uses = {"mixin"}
INVARIANT CallbackPartsAlive
