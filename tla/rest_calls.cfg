SPECIFICATION ClosingSpec
CONSTANTS
    k1 = k1  k2 = k2  r1 = r1  r2 = r2  r3 = r3
    None = None  Dummy = Dummy
    Client = {k1, k2}
    Req = {r1, r2}
INVARIANTS TypeOK ErrorTellsVerdict WriteErrorNotSent  HangsNotSent
PROPERTIES  CallReturns
