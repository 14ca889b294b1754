SPECIFICATION Spec
CONSTANTS
    Texts <- TextsHere
    Numbers <- NumbersHere
    Spread = 2
INVARIANT RoundTrip
INVARIANT RouterSeesToken
CHECK_DEADLOCK FALSE
