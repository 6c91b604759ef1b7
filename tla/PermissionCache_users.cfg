SPECIFICATION Spec
CONSTANTS
    Users = {u1}
    Checks = {c1}
    Writers = {w1}
    TTL = 1
    MaxVersion = 1
    EditsUsers = TRUE
INVARIANTS RoleChangeSeen
