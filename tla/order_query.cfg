SPECIFICATION Spec
CONSTANTS
    Amount <- MCAmount
    TimeInForce = {"IOC"}
INVARIANTS TypeOK ValuesChosen PlainInRange SpotTimestampedOnce
