SPECIFICATION Spec
CONSTANTS
    c1 = c1  c2 = c2  c3 = c3
    userData = userData  trades = trades  kraken = kraken
    None = None
    Conn = {c1, c2, c3}
    Url = {userData, kraken}
    Handler <- MixedHandler
    Replaceable = {userData, kraken}
    Quits = {}
SYMMETRY ConnSymmetry
INVARIANTS TypeOK SafeReclaim QuietAfterTeardown OneFeedPerEndpoint SubscribesOwnEndpoint SubscribedAgain
PROPERTIES KeepsRegistry RemovedOnlyIfOpened
