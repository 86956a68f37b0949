SPECIFICATION Spec
CONSTANTS
    Amount <- MCAmount
    TimeInForce = {"IOC"}
INVARIANT StartsEmpty
