------------------------ MODULE PermissionCacheProofs ------------------------
(***************************************************************************)
(* Proofs about PermissionCache: type correctness, the bound on how long a *)
(* permission that was taken away is honoured, and why it is honoured.     *)
(*                                                                         *)
(* StaleBounded alone says nothing of an entry that is still being loaded; *)
(* LoadBounded adds that, and that a version in force has no age yet.      *)
(* ExplainInv does the same for StaleExplained.                            *)
(***************************************************************************)
EXTENDS PermissionCache, TLAPS

CheckType == [pc : {"idle", "waiting", "stamp", "rules", "managed", "store"},
              user : Users, entry : EntryType]

\* The age of an entry one tick later is an entry.
LEMMA AgeType ==
    ASSUME NEW e \in EntryType
    PROVE  /\ Age(e) \in EntryType
           /\ Age(e).rules = e.rules
           /\ Age(e).left = (IF e.left = 0 THEN 0 ELSE e.left - 1)
<1>1. (IF e.left = 0 THEN 0 ELSE e.left - 1) \in 0..TTL
  BY ConstantsAssumption DEF EntryType
<1> QED BY <1>1 DEF Age, Less, EntryType

\* The absent entry is an entry.
LEMMA NoEntryType == NoEntry \in EntryType
  BY ConstantsAssumption DEF NoEntry, EntryType, Versions

\* The cache starts empty.
LEMMA InitType == Init => TypeInv
<1> SUFFICES ASSUME Init PROVE TypeInv
  OBVIOUS
<1>1. checks \in [Checks -> CheckType]
  <2>1. (CHOOSE u \in Users : TRUE) \in Users
    BY ConstantsAssumption
  <2> QED BY <2>1, NoEntryType DEF Init, CheckType
<1>2. cache \in [Users -> EntryType]
  BY NoEntryType DEF Init
<1> QED BY <1>1, <1>2, ConstantsAssumption DEF Init, TypeInv, CheckType, Versions

\* Every step keeps the types.
LEMMA TypeStep == TypeInv /\ [Next]_vars => TypeInv'
<1> SUFFICES ASSUME TypeInv, [Next]_vars PROVE TypeInv'
  OBVIOUS
<1> USE ConstantsAssumption
<1>0. /\ checks \in [Checks -> CheckType] /\ cache \in [Users -> EntryType]
      /\ rules \in Versions /\ outdated \in [Versions -> 0..(TTL + 1)]
      /\ account \in [Users -> Versions] /\ managed \in [Users -> Versions]
      /\ lock \in Checks \cup {Free} /\ todo \in [Writers -> SUBSET Users]
  BY DEF TypeInv, CheckType
<1>q. ASSUME checks' \in [Checks -> CheckType], cache' \in [Users -> EntryType],
             rules' \in Versions, outdated' \in [Versions -> 0..(TTL + 1)],
             account' \in [Users -> Versions], managed' \in [Users -> Versions],
             lock' \in Checks \cup {Free}, todo' \in [Writers -> SUBSET Users]
      PROVE  TypeInv'
  BY <1>q DEF TypeInv, CheckType
<1>c. ASSUME NEW c \in Checks, NEW rec \in CheckType, checks' = [checks EXCEPT ![c] = rec]
      PROVE  checks' \in [Checks -> CheckType]
  BY <1>c, <1>0
<1>1. CASE UNCHANGED vars
  BY <1>1, <1>0, <1>q DEF vars
<1>2. CASE Tick
  <2>1. cache' \in [Users -> EntryType]
    BY <1>2, <1>0, AgeType DEF Tick
  <2>2. checks' \in [Checks -> CheckType]
    <3>1. \A c \in Checks : [checks[c] EXCEPT !.entry = Age(@)] \in CheckType
      BY <1>0, AgeType DEF CheckType
    <3> QED BY <3>1, <1>2 DEF Tick
  <2>3. outdated' \in [Versions -> 0..(TTL + 1)]
    BY <1>2, <1>0 DEF Tick, Versions
  <2> QED BY <1>2, <2>1, <2>2, <2>3, <1>0, <1>q DEF Tick
<1>3. ASSUME NEW c \in Checks, CheckStep(c) PROVE TypeInv'
  <2>0. checks[c] \in CheckType /\ checks[c].user \in Users /\ checks[c].entry \in EntryType
    BY <1>0 DEF CheckType
  <2>1. CASE FoundLoaded(c)
    <3>1. [checks[c] EXCEPT !.pc = "idle"] \in CheckType
      BY <2>0 DEF CheckType
    <3> QED BY <2>1, <3>1, <1>0, <1>c, <1>q DEF FoundLoaded, database
  <2>2. CASE ReadAccount(c)
    <3> DEFINE e == [NoEntry EXCEPT !.account = account[checks[c].user]]
               rec == [checks[c] EXCEPT !.pc = "stamp", !.entry = e]
    <3>1. e \in EntryType
      BY <1>0, <2>0, NoEntryType DEF EntryType
    <3>2. rec \in CheckType
      BY <3>1, <2>0 DEF CheckType
    <3>3. checks' = [checks EXCEPT ![c] = rec]
      BY <2>2, <1>0 DEF ReadAccount
    <3> QED BY <2>2, <3>2, <3>3, <1>0, <1>c, <1>q DEF ReadAccount, database
  <2>3. CASE Stamp(c)
    <3> DEFINE rec == [checks[c] EXCEPT !.pc = "rules", !.entry.left = TTL]
    <3>1. [checks[c].entry EXCEPT !.left = TTL] \in EntryType
      BY <2>0 DEF EntryType
    <3>2. rec \in CheckType
      BY <3>1, <2>0 DEF CheckType
    <3>3. checks' = [checks EXCEPT ![c] = rec]
      BY <2>3, <1>0 DEF Stamp
    <3> QED BY <2>3, <3>2, <3>3, <1>0, <1>c, <1>q DEF Stamp, database
  <2>4. CASE ReadRules(c)
    <3> DEFINE rec == [checks[c] EXCEPT !.pc = "managed", !.entry.rules = rules]
    <3>1. [checks[c].entry EXCEPT !.rules = rules] \in EntryType
      BY <2>0, <1>0 DEF EntryType
    <3>2. rec \in CheckType
      BY <3>1, <2>0 DEF CheckType
    <3>3. checks' = [checks EXCEPT ![c] = rec]
      BY <2>4, <1>0 DEF ReadRules
    <3> QED BY <2>4, <3>2, <3>3, <1>0, <1>c, <1>q DEF ReadRules, database
  <2>5. CASE ReadManaged(c)
    <3> DEFINE m == managed[checks[c].user]
               rec == [checks[c] EXCEPT !.pc = "store", !.entry.managed = m]
    <3>1. [checks[c].entry EXCEPT !.managed = m] \in EntryType
      BY <2>0, <1>0 DEF EntryType
    <3>2. rec \in CheckType
      BY <3>1, <2>0 DEF CheckType
    <3>3. checks' = [checks EXCEPT ![c] = rec]
      BY <2>5, <1>0 DEF ReadManaged
    <3> QED BY <2>5, <3>2, <3>3, <1>0, <1>c, <1>q DEF ReadManaged, database
  <2>6. ASSUME Store(c) \/ LoadFails(c) PROVE TypeInv'
    <3> DEFINE rec == [checks[c] EXCEPT !.pc = "idle", !.entry = NoEntry]
    <3>1. rec \in CheckType
      BY <2>0, NoEntryType DEF CheckType
    <3>2. checks' = [checks EXCEPT ![c] = rec]
      BY <2>6, <1>0 DEF Store, LoadFails
    <3>3. cache' \in [Users -> EntryType]
      BY <2>6, <2>0, <1>0 DEF Store, LoadFails
    <3> QED BY <2>6, <3>1, <3>2, <3>3, <1>0, <1>c, <1>q DEF Store, LoadFails, database
  <2> QED BY <1>3, <2>1, <2>2, <2>3, <2>4, <2>5, <2>6 DEF CheckStep
<1>4. ASSUME NEW c \in Checks, NEW u \in Users, Lookup(c, u) PROVE TypeInv'
  <2>1. [checks[c] EXCEPT !.pc = "waiting", !.user = u] \in CheckType
    BY <1>0 DEF CheckType
  <2>2. checks' = [checks EXCEPT ![c] = [checks[c] EXCEPT !.pc = "waiting", !.user = u]]
    BY <1>4, <1>0 DEF Lookup
  <2> QED BY <1>4, <2>1, <2>2, <1>0, <1>c, <1>q DEF Lookup, database
<1>5. ASSUME NEW w \in Writers, SaveRules(w) PROVE TypeInv'
  <2>1. rules' \in Versions
    BY <1>5, <1>0 DEF SaveRules, Versions
  <2> QED BY <1>5, <2>1, <1>0, <1>q DEF SaveRules
<1>6. ASSUME NEW w \in Writers, NEW u \in Users, SaveAssignment(w, u) PROVE TypeInv'
  <2>1. managed' \in [Users -> Versions]
    BY <1>6, <1>0 DEF SaveAssignment, Versions
  <2> QED BY <1>6, <2>1, <1>0, <1>q DEF SaveAssignment
<1>7. ASSUME NEW w \in Writers, NEW u \in Users, UpdateUser(w, u) PROVE TypeInv'
  <2>1. account' \in [Users -> Versions]
    BY <1>7, <1>0 DEF UpdateUser, Versions
  <2> QED BY <1>7, <2>1, <1>0, <1>q DEF UpdateUser
<1>8. ASSUME NEW w \in Writers, NEW u \in Users, Delete(w, u) PROVE TypeInv'
  <2>1. checks' \in [Checks -> CheckType]
    <3>1. \A c \in Checks : [checks[c] EXCEPT !.entry.late = TRUE] \in CheckType
      <4> SUFFICES ASSUME NEW c \in Checks
                   PROVE  [checks[c] EXCEPT !.entry.late = TRUE] \in CheckType
        OBVIOUS
      <4>1. checks[c] \in CheckType /\ checks[c].entry \in EntryType
        BY <1>0 DEF CheckType
      <4>2. [checks[c].entry EXCEPT !.late = TRUE] \in EntryType
        BY <4>1 DEF EntryType
      <4> QED BY <4>1, <4>2 DEF CheckType
    <3> QED BY <1>8, <3>1, <1>0 DEF Delete
  <2>2. cache' \in [Users -> EntryType]
    BY <1>8, <1>0, NoEntryType DEF Delete
  <2> QED BY <1>8, <2>1, <2>2, <1>0, <1>q DEF Delete, database
<1> QED BY <1>1, <1>2, <1>3, <1>4, <1>5, <1>6, <1>7, <1>8 DEF Next

\* Every variable of PermissionCache has its type in every reachable state.
THEOREM TypeCorrect == Spec => []TypeInv
<1>1. Init => TypeInv
  BY InitType
<1> QED BY <1>1, TypeStep, PTL DEF Spec

-----------------------------------------------------------------------------
(* The bound on stale permissions.                                         *)

\* Nothing is outdated at the start.
LEMMA InitBounded == Init => LoadBounded
<1> SUFFICES ASSUME Init PROVE LoadBounded
  OBVIOUS
<1> QED BY ConstantsAssumption DEF Init, LoadBounded, Bounded, NoEntry, Versions

\* A tick ages an entry and the version it was loaded from alike.
LEMMA TickBounded ==
    ASSUME TypeInv, LoadBounded, Tick, NEW e \in EntryType, Bounded(e)
    PROVE  Age(e).left > 0 /\ Age(e).rules # rules =>
              outdated'[Age(e).rules] <= TTL - Age(e).left
<1> SUFFICES ASSUME Age(e).left > 0, Age(e).rules # rules
             PROVE  outdated'[Age(e).rules] <= TTL - Age(e).left
  OBVIOUS
<1>1. /\ e.left \in 0..TTL /\ e.rules \in Versions /\ rules \in Versions
      /\ outdated \in [Versions -> 0..(TTL + 1)]
  BY DEF TypeInv, EntryType
<1>2. Age(e).rules = e.rules /\ Age(e).left = e.left - 1 /\ e.left > 0
  BY <1>1, AgeType, ConstantsAssumption
<1>3. outdated[e.rules] <= TTL - e.left
  BY <1>2 DEF Bounded
<1>4. outdated'[e.rules] <= outdated[e.rules] + 1
  BY <1>1 DEF Tick, Versions
<1>5. outdated'[e.rules] \in Nat
  BY <1>1, ConstantsAssumption DEF Tick, Versions
<1> QED BY <1>1, <1>2, <1>3, <1>4, <1>5, ConstantsAssumption

\* Every step keeps the bound.
LEMMA BoundedStep == TypeInv /\ TypeInv' /\ LoadBounded /\ [Next]_vars => LoadBounded'
<1> SUFFICES ASSUME TypeInv, TypeInv', LoadBounded, [Next]_vars PROVE LoadBounded'
  OBVIOUS
<1> USE ConstantsAssumption
<1>0. /\ checks \in [Checks -> CheckType] /\ cache \in [Users -> EntryType]
      /\ rules \in Versions /\ outdated \in [Versions -> 0..(TTL + 1)]
  BY DEF TypeInv, CheckType
<1>u. ASSUME UNCHANGED <<rules, outdated>>,
             \A c \in Checks : checks'[c].pc \in {"managed", "store"} =>
                  \/ /\ checks[c].pc \in {"managed", "store"}
                     /\ checks'[c].entry.left = checks[c].entry.left
                     /\ checks'[c].entry.rules = checks[c].entry.rules
                  \/ checks'[c].entry.rules = rules,
             \A u \in Users :
                  \/ cache'[u] = cache[u] \/ cache'[u].left = 0
                  \/ \E c \in Checks : /\ checks[c].pc = "store"
                                       /\ cache'[u] = checks[c].entry
      PROVE  LoadBounded'
  <2>1. \A v \in Versions : v >= rules' => outdated'[v] = 0
    BY <1>u DEF LoadBounded
  <2>2. ASSUME NEW c \in Checks, checks'[c].pc \in {"managed", "store"}
        PROVE  Bounded(checks[c].entry)'
    BY <1>u, <2>2 DEF LoadBounded, Bounded
  <2>3. ASSUME NEW u \in Users PROVE Bounded(cache[u])'
    BY <1>u DEF LoadBounded, Bounded
  <2> QED BY <2>1, <2>2, <2>3 DEF LoadBounded
<1>1. CASE UNCHANGED vars
  BY <1>1, <1>u DEF vars
<1>2. CASE Tick
  <2>1. \A v \in Versions : v >= rules' => outdated'[v] = 0
    BY <1>2, <1>0 DEF Tick, LoadBounded, Versions
  <2>2. ASSUME NEW c \in Checks, checks'[c].pc \in {"managed", "store"}
        PROVE  Bounded(checks[c].entry)'
    <3>1. checks'[c].pc = checks[c].pc /\ checks'[c].entry = Age(checks[c].entry)
          /\ checks[c].entry \in EntryType
      BY <1>2, <1>0 DEF Tick, CheckType
    <3>2. Bounded(checks[c].entry)
      BY <2>2, <3>1 DEF LoadBounded
    <3>3. PICK e \in EntryType : e = checks[c].entry
      BY <3>1
    <3>4. Age(e).left > 0 /\ Age(e).rules # rules =>
             outdated'[Age(e).rules] <= TTL - Age(e).left
      BY <1>2, <3>2, <3>3, TickBounded DEF Bounded
    <3>5. checks'[c].entry = Age(e) /\ rules' = rules
      BY <1>2, <3>1, <3>3 DEF Tick
    <3> QED BY <3>4, <3>5 DEF Bounded
  <2>3. ASSUME NEW u \in Users PROVE Bounded(cache[u])'
    <3>1. cache'[u] = Age(cache[u]) /\ cache[u] \in EntryType
      BY <1>2, <1>0 DEF Tick
    <3>2. Bounded(cache[u])
      BY DEF LoadBounded
    <3>3. PICK e \in EntryType : e = cache[u]
      BY <3>1
    <3>4. Age(e).left > 0 /\ Age(e).rules # rules =>
             outdated'[Age(e).rules] <= TTL - Age(e).left
      BY <1>2, <3>2, <3>3, TickBounded DEF Bounded
    <3>5. cache'[u] = Age(e) /\ rules' = rules
      BY <1>2, <3>1, <3>3 DEF Tick
    <3> QED BY <3>4, <3>5 DEF Bounded
  <2> QED BY <2>1, <2>2, <2>3 DEF LoadBounded
<1>3. ASSUME NEW c \in Checks, CheckStep(c) PROVE LoadBounded'
  <2>1. CASE FoundLoaded(c)
    BY <2>1, <1>0, <1>u DEF FoundLoaded, database, CheckType
  <2>2. CASE ReadAccount(c)
    BY <2>2, <1>0, <1>u DEF ReadAccount, database, CheckType
  <2>3. CASE Stamp(c)
    BY <2>3, <1>0, <1>u DEF Stamp, database, CheckType
  <2>4. CASE ReadRules(c)
    <3>1. /\ checks'[c].entry.rules = rules
          /\ \A d \in Checks \ {c} : checks'[d] = checks[d]
      BY <2>4, <1>0 DEF ReadRules, CheckType, EntryType
    <3> QED BY <2>4, <3>1, <1>u DEF ReadRules, database
  <2>5. CASE ReadManaged(c)
    <3>1. /\ checks[c].pc = "managed"
          /\ checks'[c].entry.left = checks[c].entry.left
          /\ checks'[c].entry.rules = checks[c].entry.rules
          /\ \A d \in Checks \ {c} : checks'[d] = checks[d]
      BY <2>5, <1>0 DEF ReadManaged, CheckType, EntryType
    <3> QED BY <2>5, <3>1, <1>u DEF ReadManaged, database
  <2>6. CASE Store(c)
    <3>1. /\ checks[c].pc = "store" /\ checks'[c].pc = "idle"
          /\ \A d \in Checks \ {c} : checks'[d] = checks[d]
          /\ \A u \in Users : cache'[u] = cache[u] \/ cache'[u] = checks[c].entry
      BY <2>6, <1>0 DEF Store, CheckType
    <3> QED BY <2>6, <3>1, <1>u DEF Store, database
  <2>7. CASE LoadFails(c)
    BY <2>7, <1>0, <1>u DEF LoadFails, database, CheckType
  <2> QED BY <1>3, <2>1, <2>2, <2>3, <2>4, <2>5, <2>6, <2>7 DEF CheckStep
<1>4. ASSUME NEW c \in Checks, NEW u \in Users, Lookup(c, u) PROVE LoadBounded'
  BY <1>4, <1>0, <1>u DEF Lookup, database, CheckType
<1>5. ASSUME NEW w \in Writers, SaveRules(w) PROVE LoadBounded'
  <2>1. /\ rules' = rules + 1 /\ rules \in Nat
        /\ UNCHANGED <<outdated, cache, checks>>
    BY <1>5, <1>0 DEF SaveRules, Versions
  <2>2. outdated[rules] = 0
    BY <1>0 DEF LoadBounded, Versions
  <2>3. ASSUME NEW e \in EntryType, Bounded(e)
        PROVE  e.left > 0 /\ e.rules # rules' => outdated'[e.rules] <= TTL - e.left
    BY <2>1, <2>2, <2>3 DEF Bounded, EntryType
  <2>4. \A v \in Versions : v >= rules' => outdated'[v] = 0
    BY <2>1 DEF LoadBounded, Versions
  <2>5. ASSUME NEW c \in Checks, checks'[c].pc \in {"managed", "store"}
        PROVE  Bounded(checks[c].entry)'
    BY <2>1, <2>3, <2>5, <1>0 DEF LoadBounded, Bounded, CheckType
  <2>6. ASSUME NEW u \in Users PROVE Bounded(cache[u])'
    BY <2>1, <2>3, <1>0 DEF LoadBounded, Bounded
  <2> QED BY <2>4, <2>5, <2>6 DEF LoadBounded
<1>6. ASSUME NEW w \in Writers, NEW u \in Users, SaveAssignment(w, u) \/ UpdateUser(w, u)
      PROVE  LoadBounded'
  BY <1>6, <1>u DEF SaveAssignment, UpdateUser
<1>7. ASSUME NEW w \in Writers, NEW u \in Users, Delete(w, u) PROVE LoadBounded'
  <2>1. /\ \A v \in Users : cache'[v] = cache[v] \/ cache'[v].left = 0
        /\ UNCHANGED <<rules, outdated>>
    BY <1>7, <1>0 DEF Delete, NoEntry, database
  <2>2. \A c \in Checks : /\ checks'[c].pc = checks[c].pc
                          /\ checks'[c].entry.left = checks[c].entry.left
                          /\ checks'[c].entry.rules = checks[c].entry.rules
    BY <1>7, <1>0 DEF Delete, CheckType, EntryType
  <2> QED BY <2>1, <2>2, <1>u
<1> QED BY <1>1, <1>2, <1>3, <1>4, <1>5, <1>6, <1>7 DEF Next

\* For any number of users, requests and writes: rules that were replaced are
\* honoured for less than TTL.
THEOREM StaleRulesExpire == Spec => []StaleBounded
<1>1. Init => LoadBounded
  BY InitBounded
<1>2. LoadBounded => StaleBounded
  BY DEF LoadBounded, StaleBounded, Bounded, Valid
<1> QED BY <1>1, <1>2, BoundedStep, TypeCorrect, PTL DEF Spec

-----------------------------------------------------------------------------
(* Why a check answers from before a write.                                *)

\* What an entry of user u says is what is stored, or a writer that committed
\* has still to delete the entry.
Explained(e, u, assigned) ==
    \/ e.rules = rules /\ (assigned => e.managed = managed[u])
    \/ \E w \in Writers : u \in todo[w]

\* The same holds of an entry while it is being loaded, of what it has read.
ExplainInv ==
    /\ \A c \in Checks :
          checks[c].pc \in {"managed", "store"} /\ ~checks[c].entry.late =>
             Explained(checks[c].entry, checks[c].user, checks[c].pc = "store")
    /\ \A u \in Users : Valid(u) /\ ~cache[u].late => Explained(cache[u], u, TRUE)

\* A step that stores nothing new, in the database or in entries, and leaves to
\* the writers what they have to delete.
LEMMA ExplainStutter ==
    ASSUME TypeInv, ExplainInv, UNCHANGED <<rules, managed, todo>>,
           \A c \in Checks : checks'[c].pc \in {"managed", "store"} =>
              /\ checks'[c].pc = checks[c].pc /\ checks'[c].user = checks[c].user
              /\ checks'[c].entry.late = checks[c].entry.late
              /\ checks'[c].entry.rules = checks[c].entry.rules
              /\ checks'[c].entry.managed = checks[c].entry.managed,
           \A u \in Users :
              \/ /\ cache'[u].left > 0 => cache[u].left > 0
                 /\ cache'[u].late = cache[u].late /\ cache'[u].rules = cache[u].rules
                 /\ cache'[u].managed = cache[u].managed
              \/ \E c \in Checks : /\ checks[c].pc = "store" /\ checks[c].user = u
                                   /\ cache'[u] = checks[c].entry
    PROVE  ExplainInv'
<1>1. ASSUME NEW c \in Checks, checks'[c].pc \in {"managed", "store"}, ~checks'[c].entry.late
      PROVE  Explained(checks[c].entry, checks[c].user, checks[c].pc = "store")'
  BY <1>1 DEF ExplainInv, Explained
<1>2. ASSUME NEW u \in Users, Valid(u)', ~cache'[u].late
      PROVE  Explained(cache[u], u, TRUE)'
  BY <1>2 DEF ExplainInv, Explained, Valid
<1> QED BY <1>1, <1>2 DEF ExplainInv

\* Every step keeps the explanation.
LEMMA ExplainStep == TypeInv /\ ExplainInv /\ [Next]_vars => ExplainInv'
<1> SUFFICES ASSUME TypeInv, ExplainInv, [Next]_vars PROVE ExplainInv'
  OBVIOUS
<1>0. /\ checks \in [Checks -> CheckType] /\ cache \in [Users -> EntryType]
      /\ todo \in [Writers -> SUBSET Users] /\ rules \in Versions
      /\ managed \in [Users -> Versions]
  BY DEF TypeInv, CheckType
<1>1. CASE UNCHANGED vars
  BY <1>1, ExplainStutter DEF vars
<1>2. CASE Tick
  <2>1. \A e \in EntryType : /\ Age(e).left > 0 => e.left > 0
                             /\ Age(e).late = e.late /\ Age(e).rules = e.rules
                             /\ Age(e).managed = e.managed
    BY DEF Age, Less, EntryType
  <2>2. /\ \A u \in Users : cache'[u] = Age(cache[u])
        /\ \A c \in Checks : /\ checks'[c].pc = checks[c].pc
                             /\ checks'[c].user = checks[c].user
                             /\ checks'[c].entry = Age(checks[c].entry)
                             /\ checks[c].entry \in EntryType
        /\ UNCHANGED <<rules, managed, todo>>
    BY <1>2, <1>0 DEF Tick, CheckType
  <2> QED BY <2>1, <2>2, <1>0, ExplainStutter
<1>3. ASSUME NEW c \in Checks, CheckStep(c) PROVE ExplainInv'
  <2>o. \A u \in Users : cache'[u] = cache[u] =>
            /\ cache'[u].left > 0 => cache[u].left > 0
            /\ cache'[u].late = cache[u].late /\ cache'[u].rules = cache[u].rules
            /\ cache'[u].managed = cache[u].managed
    OBVIOUS
  <2>1. CASE FoundLoaded(c)
    BY <2>1, <1>0, ExplainStutter DEF FoundLoaded, database, CheckType
  <2>2. CASE ReadAccount(c)
    BY <2>2, <1>0, ExplainStutter DEF ReadAccount, database, CheckType
  <2>3. CASE Stamp(c)
    BY <2>3, <1>0, ExplainStutter DEF Stamp, database, CheckType
  <2>4. CASE ReadRules(c)
    <3>1. /\ checks'[c].entry.rules = rules /\ checks'[c].pc = "managed"
          /\ \A d \in Checks \ {c} : checks'[d] = checks[d]
          /\ UNCHANGED <<rules, managed, todo, cache>>
      BY <2>4, <1>0 DEF ReadRules, CheckType, EntryType, database
    <3> QED BY <3>1 DEF ExplainInv, Explained, Valid
  <2>5. CASE ReadManaged(c)
    <3>1. /\ checks[c].pc = "managed" /\ checks'[c].user = checks[c].user
          /\ checks'[c].entry.late = checks[c].entry.late
          /\ checks'[c].entry.rules = checks[c].entry.rules
          /\ checks'[c].entry.managed = managed[checks[c].user]
          /\ \A d \in Checks \ {c} : checks'[d] = checks[d]
          /\ UNCHANGED <<rules, managed, todo, cache>>
      BY <2>5, <1>0 DEF ReadManaged, CheckType, EntryType, database
    <3> QED BY <3>1 DEF ExplainInv, Explained, Valid
  <2>6. CASE Store(c)
    <3>1. /\ checks[c].pc = "store" /\ checks'[c].pc = "idle"
          /\ \A d \in Checks \ {c} : checks'[d] = checks[d]
          /\ cache'[checks[c].user] = checks[c].entry
          /\ \A u \in Users \ {checks[c].user} : cache'[u] = cache[u]
          /\ UNCHANGED <<rules, managed, todo>>
      BY <2>6, <1>0 DEF Store, CheckType, database
    <3> QED BY <3>1, <2>o, ExplainStutter
  <2>7. CASE LoadFails(c)
    BY <2>7, <1>0, ExplainStutter DEF LoadFails, database, CheckType
  <2> QED BY <1>3, <2>1, <2>2, <2>3, <2>4, <2>5, <2>6, <2>7 DEF CheckStep
<1>4. ASSUME NEW c \in Checks, NEW u \in Users, Lookup(c, u) PROVE ExplainInv'
  BY <1>4, <1>0, ExplainStutter DEF Lookup, database, CheckType
\* A write of something else than the account tells every entry it concerns.
<1>w. ASSUME NEW w \in Writers, NEW U \in SUBSET Users, todo[w] = {},
             todo' = [todo EXCEPT ![w] = U], UNCHANGED <<cache, checks>>,
             \A u \in Users \ U : rules' = rules /\ managed'[u] = managed[u]
      PROVE  ExplainInv'
  <2>1. \A v \in Writers : \A u \in todo[v] : u \in todo'[v]
    BY <1>w, <1>0
  <2>2. ASSUME NEW u \in Users, NEW e, NEW b \in BOOLEAN, Explained(e, u, b)
        PROVE  \/ e.rules = rules' /\ (b => e.managed = managed'[u])
               \/ \E v \in Writers : u \in todo'[v]
    <3>1. CASE u \in U
      BY <3>1, <1>w, <1>0
    <3>2. CASE u \notin U
      BY <3>2, <2>1, <2>2, <1>w DEF Explained
    <3> QED BY <3>1, <3>2
  <2>3. \A c \in Checks : checks[c].user \in Users
    BY <1>0 DEF CheckType
  <2>4. ASSUME NEW c \in Checks, checks[c].pc \in {"managed", "store"}, ~checks[c].entry.late
        PROVE  Explained(checks[c].entry, checks[c].user, checks[c].pc = "store")'
    <3>1. Explained(checks[c].entry, checks[c].user, checks[c].pc = "store")
      BY <2>4 DEF ExplainInv
    <3>2. \/ checks[c].entry.rules = rules'
             /\ (checks[c].pc = "store" => checks[c].entry.managed = managed'[checks[c].user])
          \/ \E v \in Writers : checks[c].user \in todo'[v]
      BY <3>1, <2>2, <2>3
    <3> QED BY <3>2, <1>w DEF Explained
  <2>5. ASSUME NEW u \in Users, Valid(u), ~cache[u].late
        PROVE  Explained(cache[u], u, TRUE)'
    BY <2>2, <2>5, <1>w DEF ExplainInv, Explained
  <2> QED BY <2>4, <2>5, <1>w DEF ExplainInv, Valid
<1>5. ASSUME NEW w \in Writers, SaveRules(w) PROVE ExplainInv'
  BY <1>5, <1>w DEF SaveRules
<1>6. ASSUME NEW w \in Writers, NEW u \in Users, SaveAssignment(w, u) PROVE ExplainInv'
  <2>1. \A v \in Users \ {u} : managed'[v] = managed[v]
    BY <1>6, <1>0 DEF SaveAssignment
  <2> DEFINE U == {u}
  <2>2. U \in SUBSET Users /\ \A v \in Users \ U : v \in Users \ {u}
    OBVIOUS
  <2>3. todo[w] = {} /\ todo' = [todo EXCEPT ![w] = U] /\ UNCHANGED <<cache, checks, rules>>
    BY <1>6 DEF SaveAssignment
  <2> HIDE DEF U
  <2> QED BY <2>1, <2>2, <2>3, <1>w
<1>7. ASSUME NEW w \in Writers, NEW u \in Users, UpdateUser(w, u) PROVE ExplainInv'
  BY <1>7, <1>0, ExplainStutter DEF UpdateUser
<1>8. ASSUME NEW w \in Writers, NEW u \in Users, Delete(w, u) PROVE ExplainInv'
  <2>1. /\ cache'[u].left = 0 /\ \A v \in Users \ {u} : cache'[v] = cache[v]
        /\ \A v \in Users \ {u} : \A x \in Writers : v \in todo[x] => v \in todo'[x]
        /\ UNCHANGED <<rules, managed>>
    BY <1>8, <1>0 DEF Delete, NoEntry, database
  <2>2. \A c \in Checks :
          /\ checks'[c].pc = checks[c].pc /\ checks'[c].user = checks[c].user
          /\ checks[c].user \in Users
          /\ IF checks[c].user = u /\ checks[c].pc \in {"managed", "store"}
             THEN checks'[c].entry.late ELSE checks'[c].entry = checks[c].entry
    BY <1>8, <1>0 DEF Delete, CheckType, EntryType
  <2>3. ASSUME NEW c \in Checks, checks'[c].pc \in {"managed", "store"}, ~checks'[c].entry.late
        PROVE  Explained(checks[c].entry, checks[c].user, checks[c].pc = "store")'
    BY <2>1, <2>2, <2>3 DEF ExplainInv, Explained
  <2>4. ASSUME NEW v \in Users, Valid(v)', ~cache'[v].late
        PROVE  Explained(cache[v], v, TRUE)'
    BY <2>1, <2>4 DEF ExplainInv, Explained, Valid
  <2> QED BY <2>3, <2>4 DEF ExplainInv
<1> QED BY <1>1, <1>2, <1>3, <1>4, <1>5, <1>6, <1>7, <1>8 DEF Next

\* For any number of users, requests and writes: an answer from before a write
\* comes from a load that was under way when the entries were deleted, or before
\* they were.
THEOREM StalenessIsExplained == Spec => []StaleExplained
<1>1. Init => ExplainInv
  <2> SUFFICES ASSUME Init PROVE ExplainInv
    OBVIOUS
  <2>1. \A c \in Checks : checks[c].pc \notin {"managed", "store"}
    BY DEF Init
  <2>2. \A u \in Users : ~ Valid(u)
    BY DEF Init, NoEntry, Valid
  <2>3. \A c \in Checks : checks[c].pc \in {"managed", "store"} /\ ~checks[c].entry.late
          => Explained(checks[c].entry, checks[c].user, checks[c].pc = "store")
    BY <2>1
  <2>4. \A u \in Users : Valid(u) /\ ~cache[u].late => Explained(cache[u], u, TRUE)
    BY <2>2
  <2> QED BY <2>3, <2>4 DEF ExplainInv
<1>2. ExplainInv => StaleExplained
  BY DEF ExplainInv, StaleExplained, Explained, Valid
<1> QED BY <1>1, <1>2, ExplainStep, TypeCorrect, PTL DEF Spec

=============================================================================
