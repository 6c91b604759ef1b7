--------------------------- MODULE PermissionCache ---------------------------
(***************************************************************************)
(* The permission cache (services/permission.go) and the writes it has to  *)
(* follow.                                                                 *)
(*                                                                         *)
(* A check looks into permCache; when it finds nothing that is still valid *)
(* it takes permCacheMu, looks again and loads the user's permissions with *)
(* several statements that share no transaction: the row of the user, then *)
(* the rules, then the lines the user administers.  A write commits and    *)
(* then deletes entries, without the mutex and one key after the other.    *)
(* The values read are version numbers; what permissions follow from them  *)
(* is the business of the resolution, not of the cache.                    *)
(***************************************************************************)
EXTENDS Naturals, FiniteSets

CONSTANTS
    Users,          \* users whose permissions are checked
    Checks,         \* requests that check a permission
    Writers,        \* requests of administrators
    TTL,            \* permCacheTTL, in ticks
    MaxVersion,     \* bound: changes of one item
    EditsUsers      \* whether users are edited as well

ASSUME ConstantsAssumption ==
    /\ TTL \in Nat \ {0} /\ MaxVersion \in Nat /\ EditsUsers \in BOOLEAN
    /\ Users # {}

VARIABLES
    account,    \* version of the row of each user: role, department
    rules,      \* version of the permission rules and role permissions
    managed,    \* version of the line assignments of each user
    outdated,   \* ticks since version v of the rules was replaced
    cache,      \* permCache; an entry carries the ticks it is still valid for
    checks,     \* the checking requests, the one that loads with what it read
    lock,       \* holder of permCacheMu
    todo        \* keys each writer has still to delete

vars == <<account, rules, managed, outdated, cache, checks, lock, todo>>
database == <<account, rules, managed, outdated>>

Free == "free"
NoEntry == [account |-> 0, rules |-> 0, managed |-> 0, left |-> 0, late |-> FALSE]

\* As it would be if an entry were valid for as long as it is there.
Present(u) == cache[u] # NoEntry

\* time.Now().Before(cached.ExpiresAt); an absent entry is one that ran out.
Valid(u) == cache[u].left > 0

Init ==
    /\ account = [u \in Users |-> 0] /\ managed = [u \in Users |-> 0]
    /\ rules = 0 /\ outdated = [v \in 0..MaxVersion |-> 0]
    /\ cache = [u \in Users |-> NoEntry]
    /\ checks = [c \in Checks |-> [pc |-> "idle", user |-> CHOOSE u \in Users : TRUE,
                                   entry |-> NoEntry]]
    /\ lock = Free
    /\ todo = [w \in Writers |-> {}]

Less(n) == IF n = 0 THEN 0 ELSE n - 1
Age(e) == [e EXCEPT !.left = Less(@)]

\* One tick passes for the entries, for the one being loaded and for the
\* replaced versions, whose age is not counted beyond TTL + 1.
Tick ==
    /\ cache' = [u \in Users |-> Age(cache[u])]
    /\ checks' = [c \in Checks |-> [checks[c] EXCEPT !.entry = Age(@)]]
    /\ outdated' = [v \in 0..MaxVersion |->
                      IF v < rules /\ outdated[v] <= TTL THEN outdated[v] + 1
                                                         ELSE outdated[v]]
    /\ UNCHANGED <<account, rules, managed, lock, todo>>

-----------------------------------------------------------------------------
(* GetUserPermissions and loadUserPermissions.                             *)

\* The lookup without the mutex: an entry that is valid is the answer.
Lookup(c, u) ==
    /\ checks[c].pc = "idle"
    /\ ~Valid(u)
    /\ checks' = [checks EXCEPT ![c].pc = "waiting", ![c].user = u]
    /\ UNCHANGED <<database, cache, lock, todo>>

\* The mutex is free and the second lookup finds what another check loaded.
FoundLoaded(c) ==
    /\ checks[c].pc = "waiting" /\ lock = Free
    /\ Valid(checks[c].user)
    /\ checks' = [checks EXCEPT ![c].pc = "idle"]
    /\ UNCHANGED <<database, cache, lock, todo>>

ReadAccount(c) ==
    /\ checks[c].pc = "waiting" /\ lock = Free
    /\ ~Valid(checks[c].user)
    /\ lock' = c
    /\ checks' = [checks EXCEPT ![c].pc = "stamp",
                    ![c].entry = [NoEntry EXCEPT !.account = account[checks[c].user]]]
    /\ UNCHANGED <<database, cache, todo>>

\* As it would be with an expiry a tick too late.
StampLonger(c) ==
    /\ checks[c].pc = "stamp"
    /\ checks' = [checks EXCEPT ![c].pc = "rules", ![c].entry.left = TTL + 1]
    /\ UNCHANGED <<database, cache, lock, todo>>

\* ExpiresAt is fixed before the rest is read.
Stamp(c) ==
    /\ checks[c].pc = "stamp"
    /\ checks' = [checks EXCEPT ![c].pc = "rules", ![c].entry.left = TTL]
    /\ UNCHANGED <<database, cache, lock, todo>>

ReadRules(c) ==
    /\ checks[c].pc = "rules"
    /\ checks' = [checks EXCEPT ![c].pc = "managed", ![c].entry.rules = rules]
    /\ UNCHANGED <<database, cache, lock, todo>>

ReadManaged(c) ==
    /\ checks[c].pc = "managed"
    /\ checks' = [checks EXCEPT ![c].pc = "store",
                                ![c].entry.managed = managed[checks[c].user]]
    /\ UNCHANGED <<database, cache, lock, todo>>

\* As it would be if ExpiresAt were computed when the entry is stored.
StoreStamped(c) ==
    /\ checks[c].pc = "store"
    /\ cache' = [cache EXCEPT ![checks[c].user] = [checks[c].entry EXCEPT !.left = TTL]]
    /\ lock' = Free
    /\ checks' = [checks EXCEPT ![c].pc = "idle", ![c].entry = NoEntry]
    /\ UNCHANGED <<database, todo>>

\* permCache.Store and the deferred Unlock.
Store(c) ==
    /\ checks[c].pc = "store"
    /\ cache' = [cache EXCEPT ![checks[c].user] = checks[c].entry]
    /\ lock' = Free
    /\ checks' = [checks EXCEPT ![c].pc = "idle", ![c].entry = NoEntry]
    /\ UNCHANGED <<database, todo>>

\* The user is gone or a statement fails: nothing is stored.
LoadFails(c) ==
    /\ checks[c].pc \in {"stamp", "rules", "managed"}
    /\ lock' = Free
    /\ checks' = [checks EXCEPT ![c].pc = "idle", ![c].entry = NoEntry]
    /\ UNCHANGED <<database, cache, todo>>

-----------------------------------------------------------------------------
(* The writes.                                                             *)

\* As it would be if a handler forgot InvalidateAllCache.
SaveRulesSilently(w) ==
    /\ todo[w] = {} /\ rules < MaxVersion
    /\ rules' = rules + 1
    /\ UNCHANGED <<account, managed, outdated, cache, checks, lock, todo>>

\* A change of rules or of role permissions: commit, then InvalidateAllCache.
SaveRules(w) ==
    /\ todo[w] = {} /\ rules < MaxVersion
    /\ rules' = rules + 1
    /\ todo' = [todo EXCEPT ![w] = Users]
    /\ UNCHANGED <<account, managed, outdated, cache, checks, lock>>

\* CreateLineAdminAssignment and DeleteLineAdminAssignment: commit, then
\* InvalidateUserCache.
SaveAssignment(w, u) ==
    /\ todo[w] = {} /\ managed[u] < MaxVersion
    /\ managed' = [managed EXCEPT ![u] = @ + 1]
    /\ todo' = [todo EXCEPT ![w] = {u}]
    /\ UNCHANGED <<account, rules, outdated, cache, checks, lock>>

\* UpdateUser changes role and department and deletes no entry.
UpdateUser(w, u) ==
    /\ EditsUsers
    /\ todo[w] = {} /\ account[u] < MaxVersion
    /\ account' = [account EXCEPT ![u] = @ + 1]
    /\ UNCHANGED <<rules, managed, outdated, cache, checks, lock, todo>>

\* permCache.Delete.  A load in flight that has read already is too late for
\* it: its entry is marked, a mark the program does not have.
Delete(w, u) ==
    /\ u \in todo[w]
    /\ todo' = [todo EXCEPT ![w] = @ \ {u}]
    /\ cache' = [cache EXCEPT ![u] = NoEntry]
    /\ checks' = [c \in Checks |->
                    IF checks[c].user = u /\ checks[c].pc \in {"managed", "store"}
                    THEN [checks[c] EXCEPT !.entry.late = TRUE] ELSE checks[c]]
    /\ UNCHANGED <<database, lock>>

-----------------------------------------------------------------------------
CheckStep(c) ==
    \/ FoundLoaded(c) \/ ReadAccount(c) \/ Stamp(c)
    \/ ReadRules(c) \/ ReadManaged(c) \/ Store(c) \/ LoadFails(c)

Next ==
    \/ Tick
    \/ \E c \in Checks : CheckStep(c) \/ \E u \in Users : Lookup(c, u)
    \/ \E w \in Writers :
          SaveRules(w) \/ \E u \in Users : \/ SaveAssignment(w, u) \/ UpdateUser(w, u)
                                           \/ Delete(w, u)

\* Time passes; a request that was let in goes on.
Fairness ==
    /\ WF_vars(Tick)
    /\ \A w \in Writers : WF_vars(\E u \in Users : Delete(w, u))

Spec == Init /\ [][Next]_vars /\ Fairness

-----------------------------------------------------------------------------
Versions == 0..MaxVersion
EntryType == [account : Versions, rules : Versions, managed : Versions,
              left : 0..TTL, late : BOOLEAN]

TypeInv ==
    /\ account \in [Users -> Versions] /\ managed \in [Users -> Versions]
    /\ rules \in Versions /\ outdated \in [Versions -> 0..(TTL + 1)]
    /\ cache \in [Users -> EntryType]
    /\ checks \in [Checks -> [pc : {"idle", "waiting", "stamp", "rules", "managed", "store"},
                              user : Users, entry : EntryType]]
    /\ lock \in Checks \cup {Free}
    /\ todo \in [Writers -> SUBSET Users]

\* A permission that was taken away is honoured for less than TTL: the rules of
\* an answer were in force at some moment of the last TTL ticks, whatever the
\* order of loads and invalidations and however long a load took
\* (ExpiresAt is computed before the rules are read).
StaleBounded ==
    \A u \in Users :
        Valid(u) /\ cache[u].rules # rules =>
            outdated[cache[u].rules] <= TTL - cache[u].left

\* Why StaleBounded holds: the age of a version starts with its replacement, and
\* an entry being loaded is bounded like one that is stored.
Bounded(e) == e.left > 0 /\ e.rules # rules => outdated[e.rules] <= TTL - e.left
LoadBounded ==
    /\ \A v \in Versions : v >= rules => outdated[v] = 0
    /\ \A c \in Checks : checks[c].pc \in {"managed", "store"} => Bounded(checks[c].entry)
    /\ \A u \in Users : Bounded(cache[u])

\* After a write has deleted the entries, a check answers from before the write
\* only if its entry was being loaded while they were deleted.
StaleExplained ==
    \A u \in Users :
        Valid(u) /\ ~cache[u].late
        => \/ cache[u].rules = rules /\ cache[u].managed = managed[u]
           \/ \E w \in Writers : u \in todo[w]

\* Whatever became stale is fresh again or gone some day.
Stale(u) == /\ Valid(u)
            /\ \/ cache[u].rules # rules \/ cache[u].managed # managed[u]
               \/ cache[u].account # account[u]
StaleEnds == \A u \in Users : Stale(u) ~> ~Stale(u)

\* "Any write path that affects effective permissions must invalidate permission
\* caches": with no writer and no load under way, no entry in use is older than
\* the row of its user.
RoleChangeSeen ==
    \A u \in Users :
        Valid(u) /\ ~cache[u].late /\ lock = Free /\ (\A w \in Writers : todo[w] = {})
        => cache[u].account = account[u]

=============================================================================
