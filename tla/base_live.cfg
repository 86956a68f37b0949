SPECIFICATION FairBaseSpec
CONSTANTS
    c1 = c1  c2 = c2  c3 = c3  btc = btc  eth = eth
    None = None  Token = {btc, eth}
    Conn = {c1, c2}
    Feed <- BotFeeds
    Url <- FeedUrls
    Handler <- FeedHandler
    Replaceable <- CombinedUrls
    Quits <- SingleUrl
    Uses = {"mixin"}
INVARIANTS BaseTypeOK StoppedIsLeaving PointerAlive HandlerPartsAlive CalledBackOnlyIfLeft
PROPERTIES FeedKept CallsReturn WaitReturns StoppedExits DestructionEnds
