SPECIFICATION Spec
CONSTANTS
    Users = {u1}
    Checks = {c1, c2}
    Writers = {w1, w2}
    TTL = 2
    MaxVersion = 2
    EditsUsers = TRUE
INVARIANTS TypeInv StaleBounded StaleExplained
PROPERTIES StaleEnds
