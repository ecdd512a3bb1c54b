SPECIFICATION Spec
CONSTANTS
    Calls = {c1}
    Users = {u1, u2}
    Fallbacks <- SmsThenEmail
SYMMETRY Symmetry
INVARIANTS
    ChannelsAsPromised
    PushedIsTrue
PROPERTIES
    ImplementsLifecycle
\* A call ends, and its recipients may leave everything as it is.
CHECK_DEADLOCK FALSE
