SPECIFICATION Spec
CONSTANTS
    o1 = o1  o2 = o2  o3 = o3
    List = List  None = None
    Order = {o1, o2, o3}
    Known = {o1, o2, o3}
CHECK_DEADLOCK FALSE
INVARIANT AllCancelled
