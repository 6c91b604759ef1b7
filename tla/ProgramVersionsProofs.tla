----------------------- MODULE ProgramVersionsProofs -----------------------
(***************************************************************************)
(* Theorems about ProgramVersions, for every number of request slots,      *)
(* version names, files and crashes.                                       *)
(***************************************************************************)
EXTENDS ProgramVersions, FiniteSetTheorems, WellFoundedInduction, TLAPS

-----------------------------------------------------------------------------
(***************************************************************************)
(* The newest row of a set.                                                *)
(***************************************************************************)
(* A nonempty set of naturals has a least element. *)
LEMMA NatMin ==
  ASSUME NEW T \in SUBSET Nat, T # {}
  PROVE  \E m \in T : \A k \in T : m <= k
<1>1. PICK x \in T : \A y \in T : ~ (<<y, x>> \in OpToRel(<, Nat))
  BY NatLessThanWellFounded, WFMin, Zenon
<1>2. ASSUME NEW y \in T PROVE x <= y
  <2>1. x \in Nat /\ y \in Nat OBVIOUS
  <2>2. y < x => <<y, x>> \in OpToRel(<, Nat)
    BY <2>1 DEF OpToRel
  <2>3. ~(y < x) BY <2>2, <1>1, Zenon
  <2> QED BY <2>1, <2>3
<1> QED BY <1>2

(* A bounded nonempty set of naturals has a greatest element. *)
LEMMA NatMax ==
  ASSUME NEW S \in SUBSET Nat, S # {}, NEW b \in Nat, \A s \in S : s <= b
  PROVE  \E m \in S : \A k \in S : k <= m
<1> DEFINE U == {n \in Nat : \A s \in S : s <= n}
<1>1. PICK m \in U : \A k \in U : m <= k
  <2>1. b \in U OBVIOUS
  <2>2. U \in SUBSET Nat OBVIOUS
  <2> HIDE DEF U
  <2> QED BY <2>1, <2>2, NatMin
<1>2. m \in S
  <2> SUFFICES ASSUME m \notin S PROVE FALSE OBVIOUS
  <2>1. \A s \in S : s < m BY <1>1
  <2>2. PICK s \in S : TRUE OBVIOUS
  <2>3. m \in Nat /\ s \in Nat /\ s < m BY <2>1
  <2>4. m - 1 \in Nat BY <2>3
  <2>5. \A t \in S : t <= m - 1 BY <2>1, <2>3
  <2>6. m - 1 \in U BY <2>4, <2>5
  <2>7. m <= m - 1 BY <2>6, <1>1
  <2> QED BY <2>7, <2>3
<1> QED BY <1>1, <1>2

(* Rows whose ids are bounded: what every table of the program is. *)
Bounded(S, b) == \A x \in S : x.id \in Nat /\ x.id < b

(* ORDER BY id DESC LIMIT 1 returns a row of the table, the latest one. *)
LEMMA NewestIsLatest ==
  ASSUME NEW S, NEW b \in Nat, S # {}, Bounded(S, b)
  PROVE  /\ Newest(S) \in S
         /\ \A y \in S : y.id <= Newest(S).id
<1> DEFINE T == {x.id : x \in S}
<1>1. T \in SUBSET Nat /\ T # {} /\ \A t \in T : t <= b BY DEF Bounded
<1>2. PICK m \in T : \A k \in T : k <= m
  <2> HIDE DEF T
  <2> QED BY <1>1, NatMax
<1>3. PICK x \in S : x.id = m OBVIOUS
<1>4. \A y \in S : y.id <= x.id BY <1>2, <1>3
<1> QED BY <1>4 DEF Newest

-----------------------------------------------------------------------------
(***************************************************************************)
(* Type correctness.  TypeOK is not inductive: that Newest and Cardinality *)
(* return a row and a number rests on the ids being below the              *)
(* AUTO_INCREMENT counters and on the file rows being finitely many.       *)
(***************************************************************************)
WellFormed(q, nf, nv) ==
  /\ q \in RequestState
  /\ IsFiniteSet(q.rows)
  /\ Bounded(q.rows, nf)
  /\ Bounded(q.seen, nv)
  /\ q.op \in {"upload", "createVersion"} => q.want \in Version
  /\ q.op = "createVersion" => q.rows # {}

TypeInv ==
  /\ TypeOK
  /\ IsFiniteSet(files)
  /\ Bounded(files, nextFile)
  /\ Bounded(versions, nextVersion)
  /\ \A r \in Request : WellFormed(req[r], nextFile, nextVersion)

(* An idle slot is well formed whatever the counters are. *)
LEMMA IdleRequest == \A nf, nv : WellFormed(Idle, nf, nv)
<1>1. IsFiniteSet({}) BY FS_EmptySet
<1> QED BY <1>1 DEF WellFormed, Idle, RequestState, Step, Bounded

(* The rows an upload leaves behind are version rows with ids in range.     *)
LEMMA PublishedType ==
  ASSUME versions \subseteq ProgramVersion, nextVersion \in Nat,
         Bounded(versions, nextVersion),
         NEW v \in Version, NEW id \in Nat
  PROVE  /\ Published(v, id) \subseteq ProgramVersion
         /\ Bounded(Published(v, id), nextVersion + 1)
         /\ (\E w \in versions : w.version = v) => Bounded(Published(v, id), nextVersion)
<1> DEFINE existing == {w \in versions : w.version = v}
<1> DEFINE own == IF existing = {}
             THEN [id |-> nextVersion, version |-> v, file |-> id, current |-> TRUE]
             ELSE [Newest(existing) EXCEPT !.file = id, !.current = TRUE]
<1> DEFINE others == {[w EXCEPT !.current = FALSE] : w \in {u \in versions : u.id # own.id}}
<1>1. existing # {} => Newest(existing) \in versions
  <2> SUFFICES ASSUME existing # {} PROVE Newest(existing) \in existing OBVIOUS
  <2>1. Bounded(existing, nextVersion) BY DEF Bounded
  <2> HIDE DEF existing
  <2> QED BY <2>1, NewestIsLatest
<1>2. /\ own \in ProgramVersion
      /\ own.id < nextVersion + 1
      /\ existing # {} => own.id < nextVersion
  <2>1. CASE existing = {} BY <2>1 DEF ProgramVersion
  <2>2. CASE existing # {}
    <3>1. own = [Newest(existing) EXCEPT !.file = id, !.current = TRUE] BY <2>2
    <3>2. PICK x \in versions : x = Newest(existing) BY <1>1, <2>2
    <3>3. x \in ProgramVersion /\ x.id < nextVersion BY <3>2 DEF Bounded
    <3>4. own = [x EXCEPT !.file = id, !.current = TRUE] BY <3>1, <3>2
    <3> HIDE DEF existing, own, others
    <3>5. own \in ProgramVersion /\ own.id = x.id BY <3>3, <3>4 DEF ProgramVersion
    <3> QED BY <3>3, <3>5 DEF ProgramVersion
  <2> QED BY <2>1, <2>2
<1>3. others \subseteq ProgramVersion /\ \A x \in others : x.id < nextVersion
  <2> HIDE DEF own
  <2> QED BY DEF ProgramVersion, Bounded
<1>4. Published(v, id) = others \cup {own} BY DEF Published
<1>5. (\E w \in versions : w.version = v) => existing # {} OBVIOUS
<1>6. \A x \in others \cup {own} : x.id \in Nat /\ x.id < nextVersion + 1
  <2> HIDE DEF own, others
  <2> QED BY <1>2, <1>3 DEF ProgramVersion
<1>7. existing # {} => \A x \in others \cup {own} : x.id \in Nat /\ x.id < nextVersion
  <2> HIDE DEF own, others, existing
  <2> QED BY <1>2, <1>3 DEF ProgramVersion
<1> HIDE DEF own, others, existing
<1> QED BY <1>2, <1>3, <1>4, <1>5, <1>6, <1>7 DEF Bounded

(* Version names in use are finitely many. *)
LEMMA NamesFinite ==
  ASSUME NEW fs \in SUBSET ProgramFile, IsFiniteSet(fs)
  PROVE  /\ IsFiniteSet({f.version : f \in fs})
         /\ {f.version : f \in fs} \subseteq Version
<1>1. {f.version : f \in fs} \subseteq Version BY DEF ProgramFile
<1> DEFINE g == [f \in fs |-> f.version]
<1>2. g \in Surjection(fs, {f.version : f \in fs}) BY DEF Surjection
<1> QED BY <1>1, <1>2, FS_Surjection

(* The newest file of a version that has files is one of its files. *)
LEMMA NewestOfVersion ==
  ASSUME NEW fs \in SUBSET ProgramFile, NEW b \in Nat, Bounded(fs, b),
         NEW v \in {f.version : f \in fs}
  PROVE  /\ Newest(FilesOf(fs, v)) \in FilesOf(fs, v)
         /\ Newest(FilesOf(fs, v)).id \in Nat
         /\ \A g \in FilesOf(fs, v) : g.id <= Newest(FilesOf(fs, v)).id
<1>1. FilesOf(fs, v) # {} BY DEF FilesOf
<1>2. Bounded(FilesOf(fs, v), b) BY DEF FilesOf, Bounded
<1>3. \A g \in FilesOf(fs, v) : g.id \in Nat BY DEF FilesOf, ProgramFile
<1> QED BY <1>1, <1>2, <1>3, NewestIsLatest

(* The version rows a reconciliation creates get ids of their own range.    *)
LEMMA CreatedType ==
  ASSUME NEW fs \in SUBSET ProgramFile, NEW b \in Nat, Bounded(fs, b), IsFiniteSet(fs),
         NEW missing \in SUBSET {f.version : f \in fs}, nextVersion \in Nat
  PROVE  /\ Created(fs, missing) \subseteq ProgramVersion
         /\ Cardinality(missing) \in Nat
         /\ Bounded(Created(fs, missing), nextVersion + Cardinality(missing))
<1> DEFINE Latest(n) == Newest(FilesOf(fs, n)).id
<1> DEFINE newer(n) == {m \in missing : Latest(m) > Latest(n)}
<1>1. IsFiniteSet(missing) BY NamesFinite, FS_Subset
<1>2. Cardinality(missing) \in Nat BY <1>1, FS_CardinalityType
<1>3. ASSUME NEW n \in missing
      PROVE  /\ Latest(n) \in Nat
             /\ Cardinality(newer(n)) \in Nat
             /\ Cardinality(newer(n)) < Cardinality(missing)
  <2>1. Latest(n) \in Nat BY NewestOfVersion
  <2>2. n \notin newer(n) BY <2>1
  <2>3. newer(n) \subseteq missing \ {n} BY <2>2
  <2> HIDE DEF newer
  <2>4. /\ IsFiniteSet(missing \ {n})
        /\ Cardinality(missing \ {n}) = Cardinality(missing) - 1
    BY <1>1, FS_RemoveElement
  <2>5. /\ Cardinality(newer(n)) \in Nat
        /\ Cardinality(newer(n)) <= Cardinality(missing \ {n})
    BY <2>3, <2>4, FS_Subset, FS_CardinalityType
  <2> QED BY <2>1, <2>4, <2>5, <1>2
<1>4. missing \subseteq Version BY NamesFinite
<1>5. Created(fs, missing) =
        {[id |-> nextVersion + Cardinality(newer(n)), version |-> n,
          file |-> Latest(n), current |-> FALSE] : n \in missing}
  BY DEF Created
<1> HIDE DEF Latest, newer
<1>6. ASSUME NEW x \in Created(fs, missing)
      PROVE  /\ x \in ProgramVersion
             /\ x.id < nextVersion + Cardinality(missing)
  <2>1. PICK n \in missing :
          x = [id |-> nextVersion + Cardinality(newer(n)), version |-> n,
               file |-> Latest(n), current |-> FALSE]
    BY <1>5
  <2> QED BY <2>1, <1>2, <1>3, <1>4 DEF ProgramVersion
<1> QED BY <1>2, <1>6 DEF Bounded, ProgramVersion

(* A reconciliation leaves well-typed rows. *)
LEMMA ReconcileType ==
  ASSUME TypeInv, NEW fs \in SUBSET files, NEW seen \in SUBSET ProgramVersion,
         Bounded(seen, nextVersion), Reconcile(fs, seen)
  PROVE  /\ versions' \subseteq ProgramVersion
         /\ nextVersion' \in Nat /\ nextVersion <= nextVersion'
         /\ Bounded(versions', nextVersion')
         /\ program' \in Program
         /\ program'.live = program.live
<1> DEFINE names == {f.version : f \in fs}
           kept == {v \in seen : v.version \in names}
           missing == names \ {v.version : v \in kept}
           relinked == {[v EXCEPT !.file = Newest(FilesOf(fs, v.version)).id] : v \in kept}
           known == relinked \cup Created(fs, missing)
           unseen == {v \in versions : \A w \in seen : w.id # v.id}
<1>0. /\ fs \in SUBSET ProgramFile /\ IsFiniteSet(fs) /\ Bounded(fs, nextFile)
      /\ nextFile \in Nat /\ nextVersion \in Nat /\ program \in Program
      /\ versions \subseteq ProgramVersion /\ Bounded(versions, nextVersion)
      /\ missing \in SUBSET names
  BY FS_Subset DEF TypeInv, TypeOK, Bounded
<1>1. names \subseteq Version BY <1>0, NamesFinite
<1>2. ASSUME NEW x \in relinked PROVE x \in ProgramVersion /\ x.id < nextVersion
  <2>1. PICK v \in kept : x = [v EXCEPT !.file = Newest(FilesOf(fs, v.version)).id]
    OBVIOUS
  <2>2. v \in ProgramVersion /\ v.id < nextVersion /\ v.version \in names BY DEF Bounded
  <2>3. Newest(FilesOf(fs, v.version)).id \in Nat BY <1>0, <2>2, NewestOfVersion
  <2> QED BY <2>1, <2>2, <2>3 DEF ProgramVersion
<1>3. /\ Created(fs, missing) \subseteq ProgramVersion
      /\ Cardinality(missing) \in Nat
      /\ Bounded(Created(fs, missing), nextVersion + Cardinality(missing))
  <2> HIDE DEF missing
  <2> QED BY <1>0, CreatedType
<1>4. PICK p \in Preferred(fs, kept) :
        /\ versions' = {[v EXCEPT !.current =
                           /\ v \in known /\ v.version = p
                           /\ \A w \in known : w.version = p => w.id <= v.id]
                        : v \in known \cup unseen}
        /\ nextVersion' = nextVersion + Cardinality(missing)
        /\ program' = [program EXCEPT !.version = p]
  BY Zenon DEF Reconcile
<1>5. p \in Version \cup {NoVersion}
  <2>1. Newest(fs).version \in Version \/ fs = {}
    <3>1. fs # {} => Newest(fs) \in fs BY <1>0, NewestIsLatest
    <3> QED BY <3>1, <1>0 DEF ProgramFile
  <2>2. kept \subseteq ProgramVersion OBVIOUS
  <2>3. {v.version : v \in {u \in kept : u.current}} \subseteq Version
    BY <2>2 DEF ProgramVersion
  <2> HIDE DEF kept, names
  <2>4. Preferred(fs, kept) \subseteq Version \cup {NoVersion}
    BY <1>0, <2>1, <2>3 DEF Preferred, Program
  <2> QED BY <1>4, <2>4
<1>6. ASSUME NEW x \in known \cup unseen
      PROVE  x \in ProgramVersion /\ x.id < nextVersion + Cardinality(missing)
  <2> HIDE DEF relinked, missing
  <2> QED BY <1>0, <1>2, <1>3 DEF Bounded, ProgramVersion
<1>7. ASSUME NEW y \in versions'
      PROVE  y \in ProgramVersion /\ y.id < nextVersion'
  <2> DEFINE Mark(v) == /\ v \in known /\ v.version = p
                        /\ \A w \in known : w.version = p => w.id <= v.id
  <2>1. PICK v \in known \cup unseen : y = [v EXCEPT !.current = Mark(v)]
    BY <1>4
  <2>2. Mark(v) \in BOOLEAN OBVIOUS
  <2>3. v \in ProgramVersion /\ v.id < nextVersion + Cardinality(missing) BY <1>6
  <2> HIDE DEF Mark, known, unseen, missing
  <2> QED BY <2>1, <2>2, <2>3, <1>4 DEF ProgramVersion
<1> HIDE DEF known, unseen, missing
<1>8. program' \in Program /\ program'.live = program.live
  BY <1>0, <1>4, <1>5 DEF Program
<1>9. nextVersion' \in Nat /\ nextVersion <= nextVersion' BY <1>0, <1>3, <1>4
<1>10. \A y \in versions' : y.id \in Nat BY <1>7 DEF ProgramVersion
<1> QED BY <1>7, <1>8, <1>9, <1>10 DEF Bounded

-----------------------------------------------------------------------------
(* The initial history is well typed. *)
LEMMA InitFiles ==
  ASSUME Init
  PROVE  /\ files \in SUBSET ProgramFile
         /\ IsFiniteSet(files)
         /\ nextFile \in Nat
         /\ Bounded(files, nextFile)
         /\ \A f, g \in files : f.id = g.id => f = g
         /\ disk \in SUBSET Stored
<1>0. PICK k \in 0 .. MaxInit :
        \E v \in [1 .. k -> Version], n \in [1 .. k -> FileName] :
        LET Earlier(i) == \E j \in 1 .. i - 1 : v[j] = v[i] /\ n[j] = n[i]
            path(i) == [version |-> v[i], name |-> n[i],
                        salt |-> IF Earlier(i) THEN i ELSE 0]
        IN  /\ files = {[id |-> i, version |-> v[i], path |-> path(i)] : i \in 1 .. k}
            /\ disk = {[path |-> path(i), file |-> i] : i \in 1 .. k}
            /\ nextFile = k + 1
  BY Zenon DEF Init
<1>1. PICK v \in [1 .. k -> Version], n \in [1 .. k -> FileName] :
        LET Earlier(i) == \E j \in 1 .. i - 1 : v[j] = v[i] /\ n[j] = n[i]
            path(i) == [version |-> v[i], name |-> n[i],
                        salt |-> IF Earlier(i) THEN i ELSE 0]
        IN  /\ files = {[id |-> i, version |-> v[i], path |-> path(i)] : i \in 1 .. k}
            /\ disk = {[path |-> path(i), file |-> i] : i \in 1 .. k}
            /\ nextFile = k + 1
  BY <1>0, Zenon
<1> DEFINE Earlier(i) == \E j \in 1 .. i - 1 : v[j] = v[i] /\ n[j] = n[i]
           path(i) == [version |-> v[i], name |-> n[i],
                       salt |-> IF Earlier(i) THEN i ELSE 0]
           row(i) == [id |-> i, version |-> v[i], path |-> path(i)]
<1>2. /\ files = {row(i) : i \in 1 .. k}
      /\ disk = {[path |-> path(i), file |-> i] : i \in 1 .. k}
      /\ nextFile = k + 1
  BY <1>1
<1>3. k \in Nat /\ nextFile \in Nat BY <1>2, BoundsAssumption
<1>4. ASSUME NEW i \in 1 .. k
      PROVE  /\ path(i) \in Path
             /\ i \in Nat /\ i < nextFile
             /\ v[i] \in Version
  <2>1. i \in Nat /\ i < nextFile /\ v[i] \in Version /\ n[i] \in FileName BY <1>2, <1>3
  <2>2. (IF Earlier(i) THEN i ELSE 0) \in Nat BY <2>1
  <2> HIDE DEF Earlier
  <2> QED BY <2>1, <2>2 DEF Path
<1> HIDE DEF path
<1>5. files \in SUBSET ProgramFile /\ Bounded(files, nextFile)
  BY <1>2, <1>4 DEF ProgramFile, Bounded
<1>6. disk \in SUBSET Stored BY <1>2, <1>4 DEF Stored
<1>7. IsFiniteSet(files)
  <2> DEFINE g == [i \in 1 .. k |-> row(i)]
  <2>1. g \in Surjection(1 .. k, files) BY <1>2 DEF Surjection
  <2>2. IsFiniteSet(1 .. k) BY <1>3, FS_Interval
  <2> HIDE DEF g
  <2> QED BY <2>1, <2>2, FS_Surjection
<1>8. \A f, g \in files : f.id = g.id => f = g BY <1>2
<1> QED BY <1>3, <1>5, <1>6, <1>7, <1>8

LEMMA InitTypeInv == Init => TypeInv
<1> SUFFICES ASSUME Init PROVE TypeInv OBVIOUS
<1>1. /\ files \in SUBSET ProgramFile /\ IsFiniteSet(files) /\ nextFile \in Nat
      /\ Bounded(files, nextFile) /\ disk \in SUBSET Stored
  BY InitFiles
<1>2. nextVersion = nextFile BY Zenon DEF Init
<1>3. /\ versions \subseteq ProgramVersion
      /\ Bounded(versions, nextVersion)
      /\ program \in Program
  <2> DEFINE names == {f.version : f \in files}
  <2>1. names \subseteq Version BY <1>1, NamesFinite
  <2>2. CASE \E c \in names :
          /\ versions = {[id |-> Newest(FilesOf(files, w)).id, version |-> w,
                          file |-> Newest(FilesOf(files, w)).id,
                          current |-> w = c] : w \in names}
          /\ program = [live |-> TRUE, version |-> c]
    <3>1. PICK c \in names :
          /\ versions = {[id |-> Newest(FilesOf(files, w)).id, version |-> w,
                          file |-> Newest(FilesOf(files, w)).id,
                          current |-> w = c] : w \in names}
          /\ program = [live |-> TRUE, version |-> c]
      BY <2>2
    <3>2. ASSUME NEW w \in names
          PROVE  /\ Newest(FilesOf(files, w)).id \in Nat
                 /\ Newest(FilesOf(files, w)).id < nextFile
      <4>1. /\ Newest(FilesOf(files, w)) \in FilesOf(files, w)
            /\ Newest(FilesOf(files, w)).id \in Nat
        BY <1>1, NewestOfVersion
      <4>2. Newest(FilesOf(files, w)) \in files BY <4>1 DEF FilesOf
      <4> QED BY <1>1, <4>1, <4>2 DEF Bounded
    <3>3. ASSUME NEW x \in versions PROVE x \in ProgramVersion /\ x.id < nextVersion
      <4>1. PICK w \in names :
              x = [id |-> Newest(FilesOf(files, w)).id, version |-> w,
                   file |-> Newest(FilesOf(files, w)).id, current |-> w = c]
        BY <3>1
      <4>2. (w = c) \in BOOLEAN OBVIOUS
      <4>3. w \in Version BY <2>1
      <4> HIDE DEF names
      <4> QED BY <4>1, <4>2, <4>3, <3>2, <1>2 DEF ProgramVersion
    <3>4. program \in Program BY <3>1, <2>1 DEF Program
    <3> QED BY <3>3, <3>4 DEF Bounded, ProgramVersion
  <2>3. CASE versions = {} /\ program = [live |-> TRUE, version |-> NoVersion]
    BY <2>3 DEF Bounded, Program
  <2>4. CASE versions = {} /\ program \in [live : {TRUE}, version : names \cup {NoVersion}]
    BY <2>1, <2>4 DEF Bounded, Program
  <2> QED BY <2>2, <2>3, <2>4, Zenon DEF Init
<1>4. /\ lock \in [Resource -> Request \cup {NoRequest}]
      /\ crashes \in Nat
      /\ \A r \in Request : req[r] = Idle
      /\ req \in [Request -> RequestState]
  <2>1. /\ lock = [what \in Resource |-> NoRequest]
        /\ req = [r \in Request |-> Idle]
        /\ crashes = 0
    BY Zenon DEF Init
  <2>2. Idle \in RequestState BY IdleRequest DEF WellFormed
  <2> QED BY <2>1, <2>2
<1>5. \A r \in Request : WellFormed(req[r], nextFile, nextVersion)
  BY <1>4, IdleRequest
<1> QED BY <1>1, <1>2, <1>3, <1>4, <1>5 DEF TypeInv, TypeOK

-----------------------------------------------------------------------------
(***************************************************************************)
(* Every step preserves it.                                                *)
(***************************************************************************)
(* A step that changes one slot and lowers no counter keeps every slot well *)
(* formed, if the new state of that slot is.                                *)
LEMMA OneSlotChanges ==
  ASSUME TypeInv, NEW r \in Request, NEW x,
         req' = [req EXCEPT ![r] = x],
         WellFormed(x, nextFile', nextVersion'),
         nextFile' \in Nat, nextFile <= nextFile',
         nextVersion' \in Nat, nextVersion <= nextVersion'
  PROVE  /\ req' \in [Request -> RequestState]
         /\ \A s \in Request : WellFormed(req'[s], nextFile', nextVersion')
<1>1. req \in [Request -> RequestState] /\ nextFile \in Nat /\ nextVersion \in Nat
  BY DEF TypeInv, TypeOK
<1>2. \A S : (Bounded(S, nextFile) => Bounded(S, nextFile'))
             /\ (Bounded(S, nextVersion) => Bounded(S, nextVersion'))
  BY <1>1 DEF Bounded
<1>3. ASSUME NEW s \in Request PROVE WellFormed(req'[s], nextFile', nextVersion')
  <2>1. CASE s = r BY <2>1, <1>1
  <2>2. CASE s # r
    <3>1. req'[s] = req[s] BY <2>2, <1>1
    <3>2. WellFormed(req[s], nextFile, nextVersion) BY DEF TypeInv
    <3> QED BY <3>1, <3>2, <1>2 DEF WellFormed
  <2> QED BY <2>1, <2>2
<1>4. x \in RequestState BY DEF WellFormed
<1> QED BY <1>1, <1>3, <1>4

(* Locks stay held by slots or by nobody. *)
LEMMA LockType ==
  ASSUME TypeInv, NEW r \in Request
  PROVE  /\ Released(r) \in [Resource -> Request \cup {NoRequest}]
         /\ \A what : Acquire(what, r) => lock' \in [Resource -> Request \cup {NoRequest}]
BY DEF TypeInv, TypeOK, Released, Acquire

(* Steps of the first group read, lock and start: no row changes. *)
RowsUnchanged == UNCHANGED <<program, files, versions, disk, nextFile, nextVersion>>

LEMMA QuietStep ==
  ASSUME TypeInv, NEW r \in Request, NEW x,
         RowsUnchanged,
         req' = [req EXCEPT ![r] = x],
         WellFormed(x, nextFile, nextVersion),
         lock' \in [Resource -> Request \cup {NoRequest}],
         crashes' = crashes
  PROVE  TypeInv'
<1>1. /\ program' = program /\ files' = files /\ versions' = versions /\ disk' = disk
      /\ nextFile' = nextFile /\ nextVersion' = nextVersion
  BY DEF RowsUnchanged
<1>2. nextFile \in Nat /\ nextVersion \in Nat BY DEF TypeInv, TypeOK
<1>3. /\ req' \in [Request -> RequestState]
      /\ \A s \in Request : WellFormed(req'[s], nextFile', nextVersion')
  <2>1. WellFormed(x, nextFile', nextVersion') BY <1>1
  <2>2. /\ nextFile' \in Nat /\ nextFile <= nextFile'
        /\ nextVersion' \in Nat /\ nextVersion <= nextVersion'
    BY <1>1, <1>2
  <2> QED BY <2>1, <2>2, OneSlotChanges, Zenon
<1>4. TypeOK' BY <1>1, <1>3 DEF TypeInv, TypeOK
<1>5. IsFiniteSet(files') /\ Bounded(files', nextFile') /\ Bounded(versions', nextVersion')
  BY <1>1 DEF TypeInv
<1> QED BY <1>3, <1>4, <1>5 DEF TypeInv

LEMMA StartTypeInv ==
  ASSUME TypeInv, NEW r \in Request, StartStep(r)
  PROVE  TypeInv'
<1>1. ASSUME NEW op \in Op, NEW q, Start(r, op, q),
             WellFormed([q EXCEPT !.op = op], nextFile, nextVersion)
      PROVE  TypeInv'
  <2>1. RowsUnchanged /\ lock' = lock /\ crashes' = crashes
        /\ req' = [req EXCEPT ![r] = [q EXCEPT !.op = op]]
    BY <1>1 DEF Start, RowsUnchanged
  <2>2. lock' \in [Resource -> Request \cup {NoRequest}] BY <2>1 DEF TypeInv, TypeOK
  <2> QED BY <2>1, <2>2, <1>1, QuietStep
<1>2. /\ IsFiniteSet({}) /\ \A f : IsFiniteSet({f})
      /\ \A n : Bounded({}, n)
      /\ {} \subseteq ProgramFile /\ {} \subseteq ProgramVersion /\ 0 \in Nat
  BY FS_EmptySet, FS_Singleton DEF Bounded
<1>3. /\ files \subseteq ProgramFile /\ Bounded(files, nextFile) /\ IsFiniteSet(files)
      /\ versions \subseteq ProgramVersion
  BY DEF TypeInv, TypeOK
<1>4. ASSUME StartUpload(r) PROVE TypeInv'
  <2>1. PICK v \in Version : Start(r, "upload", [Idle EXCEPT !.at = "program", !.want = v])
    BY <1>4 DEF StartUpload
  <2>2. WellFormed([[Idle EXCEPT !.at = "program", !.want = v] EXCEPT !.op = "upload"],
                   nextFile, nextVersion)
    BY <1>2 DEF WellFormed, Idle, RequestState, Op, Step
  <2>3. "upload" \in Op BY DEF Op
  <2> QED BY <2>1, <2>2, <2>3, <1>1
<1>5. ASSUME StartDeleteFile(r) PROVE TypeInv'
  <2>1. PICK f \in files :
          Start(r, "deleteFile", [Idle EXCEPT !.at = "program", !.rows = {f}])
    BY <1>5 DEF StartDeleteFile
  <2>2. f \in ProgramFile /\ Bounded({f}, nextFile) /\ IsFiniteSet({f})
    BY <1>2, <1>3 DEF Bounded
  <2>3. WellFormed([[Idle EXCEPT !.at = "program", !.rows = {f}] EXCEPT !.op = "deleteFile"],
                   nextFile, nextVersion)
    BY <1>2, <2>2 DEF WellFormed, Idle, RequestState, Op, Step
  <2>4. "deleteFile" \in Op BY DEF Op
  <2> QED BY <2>1, <2>3, <2>4, <1>1
<1>6. ASSUME StartActivate(r) PROVE TypeInv'
  <2>1. PICK v \in versions :
          Start(r, "activate", [Idle EXCEPT !.at = "versions", !.vid = v.id])
    BY <1>6 DEF StartActivate
  <2>2. v.id \in Nat BY <1>3 DEF ProgramVersion
  <2>3. WellFormed([[Idle EXCEPT !.at = "versions", !.vid = v.id] EXCEPT !.op = "activate"],
                   nextFile, nextVersion)
    BY <1>2, <2>2 DEF WellFormed, Idle, RequestState, Op, Step
  <2>4. "activate" \in Op BY DEF Op
  <2> QED BY <2>1, <2>3, <2>4, <1>1
<1>7. ASSUME StartCreateVersion(r) PROVE TypeInv'
  <2>1. PICK f \in files :
          Start(r, "createVersion",
                [Idle EXCEPT !.at = "check", !.want = f.version, !.rows = {f}])
    BY <1>7 DEF StartCreateVersion
  <2>2. /\ f \in ProgramFile /\ f.version \in Version
        /\ Bounded({f}, nextFile) /\ IsFiniteSet({f}) /\ {f} # {}
    BY <1>2, <1>3 DEF Bounded, ProgramFile
  <2>3. WellFormed([[Idle EXCEPT !.at = "check", !.want = f.version, !.rows = {f}]
                      EXCEPT !.op = "createVersion"], nextFile, nextVersion)
    BY <1>2, <2>2 DEF WellFormed, Idle, RequestState, Op, Step
  <2>4. "createVersion" \in Op BY DEF Op
  <2> QED BY <2>1, <2>3, <2>4, <1>1
<1>8. ASSUME StartDeleteProgram(r) PROVE TypeInv'
  <2>1. WellFormed([[Idle EXCEPT !.at = "versions", !.rows = files]
                      EXCEPT !.op = "deleteProgram"], nextFile, nextVersion)
    BY <1>2, <1>3 DEF WellFormed, Idle, RequestState, Op, Step
  <2>2. "deleteProgram" \in Op BY DEF Op
  <2> QED BY <1>8, <2>1, <2>2, <1>1 DEF StartDeleteProgram
<1> QED BY <1>4, <1>5, <1>6, <1>7, <1>8 DEF StartStep

(* Steps that end, begin to wait, or take a lock. *)
LEMMA LockingTypeInv ==
  ASSUME TypeInv, NEW r \in Request,
         \/ ProgramGone(r) \/ ActivateVersionGone(r) \/ Rollback(r)
         \/ UploadLockProgram(r) \/ UploadLockVersions(r)
         \/ DeleteFileLockProgram(r) \/ ActivateLockVersion(r)
         \/ CreateCheck(r) \/ CreateInsertFirst(r) \/ DeleteProgramLockVersions(r)
  PROVE  TypeInv'
<1>1. WellFormed(Idle, nextFile, nextVersion) BY IdleRequest
<1>2. ASSUME NEW at \in Step PROVE WellFormed([req[r] EXCEPT !.at = at], nextFile, nextVersion)
  BY DEF TypeInv, WellFormed, RequestState
<1>3. ASSUME NEW at \in Step
      PROVE  WellFormed([req[r] EXCEPT !.at = at, !.seen = versions], nextFile, nextVersion)
  BY DEF TypeInv, TypeOK, WellFormed, RequestState
<1>4. /\ lock \in [Resource -> Request \cup {NoRequest}]
      /\ Released(r) \in [Resource -> Request \cup {NoRequest}]
      /\ \A what : Acquire(what, r) => lock' \in [Resource -> Request \cup {NoRequest}]
  BY LockType DEF TypeInv, TypeOK
<1>5. req \in [Request -> RequestState] BY DEF TypeInv, TypeOK
<1>6. /\ "versions" \in Step /\ "program" \in Step /\ "write" \in Step /\ "clean" \in Step
  BY DEF Step
<1>7. CASE ProgramGone(r) \/ ActivateVersionGone(r)
  <2>1. RowsUnchanged /\ lock' = lock /\ crashes' = crashes
        /\ req' = [req EXCEPT ![r] = Idle]
    BY <1>7 DEF ProgramGone, ActivateVersionGone, RowsUnchanged
  <2> QED BY <2>1, <1>1, <1>4, QuietStep
<1>8. CASE Rollback(r)
  <2>1. /\ RowsUnchanged /\ lock' = Released(r) /\ crashes' = crashes
        /\ \/ req' = [req EXCEPT ![r] = [req[r] EXCEPT !.at = "clean"]]
           \/ req' = [req EXCEPT ![r] = Idle]
    BY <1>8, <1>5 DEF Rollback, RowsUnchanged
  <2> QED BY <2>1, <1>1, <1>2, <1>4, <1>6, QuietStep
<1>9. CASE \/ UploadLockProgram(r) \/ UploadLockVersions(r)
           \/ ActivateLockVersion(r) \/ CreateInsertFirst(r) \/ DeleteProgramLockVersions(r)
  <2>1. /\ RowsUnchanged /\ crashes' = crashes
        /\ \E what : Acquire(what, r)
        /\ \E at \in Step : req' = [req EXCEPT ![r] = [req[r] EXCEPT !.at = at]]
    BY <1>9, <1>5, <1>6 DEF UploadLockProgram, UploadLockVersions, ActivateLockVersion,
       CreateInsertFirst, DeleteProgramLockVersions, RowsUnchanged
  <2>2. lock' \in [Resource -> Request \cup {NoRequest}] BY <2>1, <1>4
  <2> QED BY <2>1, <2>2, <1>2, QuietStep
<1>10. CASE DeleteFileLockProgram(r)
  <2>1. /\ RowsUnchanged /\ crashes' = crashes
        /\ Acquire("program", r)
        /\ req' = [req EXCEPT ![r] = [req[r] EXCEPT !.at = "versions", !.seen = versions]]
    BY <1>10, <1>5 DEF DeleteFileLockProgram, RowsUnchanged
  <2>2. lock' \in [Resource -> Request \cup {NoRequest}] BY <2>1, <1>4
  <2> QED BY <2>1, <2>2, <1>3, <1>6, QuietStep
<1>11. CASE CreateCheck(r)
  <2>1. /\ RowsUnchanged /\ crashes' = crashes /\ lock' = lock
        /\ \/ req' = [req EXCEPT ![r] = Idle]
           \/ req' = [req EXCEPT ![r] = [req[r] EXCEPT !.at = "versions", !.seen = versions]]
    BY <1>11, <1>5 DEF CreateCheck, RowsUnchanged
  <2> QED BY <2>1, <1>1, <1>3, <1>4, <1>6, QuietStep
<1> QED BY <1>7, <1>8, <1>9, <1>10, <1>11

(* Removing files from disk changes nothing else. *)
LEMMA RemovalTypeInv ==
  ASSUME TypeInv, NEW r \in Request, UploadClean(r) \/ RemoveFromDisk(r)
  PROVE  TypeInv'
<1>1. /\ disk' = {d \in disk : d.path \notin PathsOf(req[r].rows)}
      /\ req' = [req EXCEPT ![r] = Idle]
      /\ UNCHANGED <<program, files, versions, nextFile, nextVersion, lock, crashes>>
  BY DEF UploadClean, RemoveFromDisk
<1>2. nextFile \in Nat /\ nextVersion \in Nat /\ disk \subseteq Stored BY DEF TypeInv, TypeOK
<1>3. WellFormed(Idle, nextFile', nextVersion') BY IdleRequest
<1>4. /\ req' \in [Request -> RequestState]
      /\ \A s \in Request : WellFormed(req'[s], nextFile', nextVersion')
  <2>1. /\ nextFile' \in Nat /\ nextFile <= nextFile'
        /\ nextVersion' \in Nat /\ nextVersion <= nextVersion'
    BY <1>1, <1>2
  <2> QED BY <1>1, <1>3, <2>1, OneSlotChanges
<1>5. disk' \subseteq Stored BY <1>1, <1>2
<1> QED BY <1>1, <1>4, <1>5 DEF TypeInv, TypeOK

(* What a step that writes rows has to establish. *)
LEMMA WritingStep ==
  ASSUME TypeInv, NEW r \in Request, NEW x,
         req' = [req EXCEPT ![r] = x],
         WellFormed(x, nextFile', nextVersion'),
         nextFile' \in Nat, nextFile <= nextFile',
         nextVersion' \in Nat, nextVersion <= nextVersion',
         program' \in Program, disk' \subseteq Stored,
         files' \subseteq ProgramFile, IsFiniteSet(files'), Bounded(files', nextFile'),
         versions' \subseteq ProgramVersion, Bounded(versions', nextVersion'),
         lock' \in [Resource -> Request \cup {NoRequest}],
         crashes' \in Nat
  PROVE  TypeInv'
<1>1. /\ req' \in [Request -> RequestState]
      /\ \A s \in Request : WellFormed(req'[s], nextFile', nextVersion')
  BY OneSlotChanges
<1> QED BY <1>1 DEF TypeInv, TypeOK

LEMMA UploadWriteTypeInv ==
  ASSUME TypeInv, NEW r \in Request, NEW n \in FileName, UploadWrite(r, n)
  PROVE  TypeInv'
<1> DEFINE p == StorePath(req[r].want, n, nextFile)
           f == [id |-> nextFile, version |-> req[r].want, path |-> p]
           x == [req[r] EXCEPT !.rows = @ \cup {f}]
<1>1. /\ req \in [Request -> RequestState] /\ nextFile \in Nat /\ nextVersion \in Nat
      /\ req[r].op = "upload" /\ req[r].want \in Version
      /\ WellFormed(req[r], nextFile, nextVersion)
      /\ lock \in [Resource -> Request \cup {NoRequest}] /\ crashes \in Nat
      /\ program \in Program /\ disk \subseteq Stored
  BY DEF UploadWrite, TypeInv, TypeOK, WellFormed
<1>2. p \in Path BY <1>1 DEF StorePath, Path
<1>3. /\ req' = [req EXCEPT ![r] = x]
      /\ nextFile' = nextFile + 1
      /\ disk' = disk \cup {[path |-> p, file |-> nextFile]}
      /\ UNCHANGED <<program, files, versions, nextVersion, lock, crashes>>
  BY <1>1 DEF UploadWrite
<1> HIDE DEF p
<1>4. f \in ProgramFile BY <1>1, <1>2 DEF ProgramFile
<1>5. disk' \subseteq Stored BY <1>1, <1>2, <1>3 DEF Stored
<1>6. /\ IsFiniteSet(req[r].rows \cup {f})
      /\ req[r].rows \cup {f} \subseteq ProgramFile
      /\ Bounded(req[r].rows \cup {f}, nextFile')
  <2>1. /\ IsFiniteSet(req[r].rows) /\ req[r].rows \subseteq ProgramFile
        /\ Bounded(req[r].rows, nextFile)
    BY <1>1 DEF WellFormed, RequestState
  <2>2. f.id = nextFile OBVIOUS
  <2> HIDE DEF f
  <2> QED BY <2>1, <2>2, <1>1, <1>3, <1>4, FS_AddElement DEF Bounded
<1>7. WellFormed(x, nextFile', nextVersion')
  <2>1. req[r] \in RequestState BY <1>1
  <2> HIDE DEF f
  <2>2. /\ x.rows = req[r].rows \cup {f} /\ x.op = req[r].op /\ x.want = req[r].want
        /\ x.seen = req[r].seen /\ x.at = req[r].at /\ x.vid = req[r].vid
        /\ x \in RequestState
    BY <2>1, <1>6 DEF RequestState
  <2> QED BY <2>2, <1>1, <1>3, <1>6 DEF WellFormed
<1>8. /\ files' \subseteq ProgramFile /\ IsFiniteSet(files') /\ Bounded(files', nextFile')
      /\ versions' \subseteq ProgramVersion /\ Bounded(versions', nextVersion')
  BY <1>1, <1>3 DEF TypeInv, TypeOK, Bounded
<1>9. /\ nextFile' \in Nat /\ nextFile <= nextFile'
      /\ nextVersion' \in Nat /\ nextVersion <= nextVersion'
  BY <1>1, <1>3
<1> HIDE DEF x
<1>10. /\ program' \in Program /\ crashes' \in Nat
       /\ lock' \in [Resource -> Request \cup {NoRequest}]
  BY <1>1, <1>3
<1> QED BY <1>3, <1>5, <1>7, <1>8, <1>9, <1>10, WritingStep

LEMMA UploadWriteFailsTypeInv ==
  ASSUME TypeInv, NEW r \in Request, NEW n \in FileName, UploadWriteFails(r, n)
  PROVE  TypeInv'
<1> DEFINE p == StorePath(req[r].want, n, nextFile)
           x == IF req[r].rows = {} THEN Idle ELSE [req[r] EXCEPT !.at = "clean"]
<1>1. /\ req \in [Request -> RequestState] /\ nextFile \in Nat /\ nextVersion \in Nat
      /\ req[r].op = "upload" /\ req[r].want \in Version
      /\ WellFormed(req[r], nextFile, nextVersion)
      /\ crashes \in Nat /\ program \in Program /\ disk \subseteq Stored
  BY DEF UploadWriteFails, TypeInv, TypeOK, WellFormed
<1>2. p \in Path BY <1>1 DEF StorePath, Path
<1>3. /\ req' = [req EXCEPT ![r] = x]
      /\ nextFile' = nextFile + 1
      /\ disk' = disk \cup {[path |-> p, file |-> 0]}
      /\ lock' = Released(r)
      /\ UNCHANGED <<program, files, versions, nextVersion, crashes>>
  BY <1>1 DEF UploadWriteFails
<1> HIDE DEF p
<1>4. WellFormed(x, nextFile', nextVersion')
  <2>1. WellFormed(Idle, nextFile', nextVersion') BY IdleRequest
  <2>2. WellFormed([req[r] EXCEPT !.at = "clean"], nextFile', nextVersion')
    BY <1>1, <1>3 DEF WellFormed, RequestState, Step, Bounded
  <2> QED BY <2>1, <2>2
<1>5. disk' \subseteq Stored BY <1>1, <1>2, <1>3 DEF Stored
<1>6. /\ files' \subseteq ProgramFile /\ IsFiniteSet(files') /\ Bounded(files', nextFile')
      /\ versions' \subseteq ProgramVersion /\ Bounded(versions', nextVersion')
  BY <1>1, <1>3 DEF TypeInv, TypeOK, Bounded
<1>7. lock' \in [Resource -> Request \cup {NoRequest}] BY <1>3, LockType
<1>8. /\ nextFile' \in Nat /\ nextFile <= nextFile' /\ program' \in Program
      /\ nextVersion' \in Nat /\ nextVersion <= nextVersion' /\ crashes' \in Nat
  BY <1>1, <1>3
<1> HIDE DEF x
<1> QED BY <1>3, <1>4, <1>5, <1>6, <1>7, <1>8, WritingStep

LEMMA UploadCommitTypeInv ==
  ASSUME TypeInv, NEW r \in Request, UploadCommit(r)
  PROVE  TypeInv'
<1> DEFINE rows == req[r].rows
<1>1. /\ rows # {} /\ rows \subseteq ProgramFile /\ IsFiniteSet(rows) /\ Bounded(rows, nextFile)
      /\ req[r].want \in Version
      /\ nextFile \in Nat /\ nextVersion \in Nat /\ crashes \in Nat /\ program \in Program
      /\ files \subseteq ProgramFile /\ IsFiniteSet(files) /\ Bounded(files, nextFile)
      /\ versions \subseteq ProgramVersion /\ Bounded(versions, nextVersion)
  BY DEF UploadCommit, TypeInv, TypeOK, WellFormed, RequestState
<1>2. Newest(rows).id \in Nat
  <2>1. Newest(rows) \in rows BY <1>1, NewestIsLatest
  <2> QED BY <1>1, <2>1 DEF ProgramFile
<1>3. /\ files' = files \cup rows
      /\ versions' = Published(req[r].want, Newest(rows).id)
      /\ nextVersion' = IF \E w \in versions : w.version = req[r].want
                        THEN nextVersion ELSE nextVersion + 1
      /\ program' = [program EXCEPT !.version = req[r].want]
      /\ lock' = Released(r)
      /\ req' = [req EXCEPT ![r] = Idle]
      /\ disk' = disk /\ nextFile' = nextFile /\ crashes' = crashes
  BY DEF UploadCommit
<1>4. versions' \subseteq ProgramVersion /\ Bounded(versions', nextVersion')
  BY <1>1, <1>2, <1>3, PublishedType
<1>5. files' \subseteq ProgramFile /\ IsFiniteSet(files') /\ Bounded(files', nextFile')
  BY <1>1, <1>3, FS_Union DEF Bounded
<1>6. /\ nextFile' \in Nat /\ nextFile <= nextFile'
      /\ nextVersion' \in Nat /\ nextVersion <= nextVersion'
  BY <1>1, <1>3
<1>7. /\ program' \in Program /\ crashes' \in Nat /\ disk' \subseteq Stored
      /\ lock' \in [Resource -> Request \cup {NoRequest}]
  BY <1>1, <1>3, LockType DEF Program, TypeInv, TypeOK
<1> QED BY <1>3, <1>4, <1>5, <1>6, <1>7, IdleRequest, WritingStep

LEMMA DeleteFileCommitTypeInv ==
  ASSUME TypeInv, NEW r \in Request, DeleteFileCommit(r)
  PROVE  TypeInv'
<1> DEFINE fs == files \ req[r].rows
           x == [req[r] EXCEPT !.at = "remove", !.seen = {}]
<1>1. /\ nextFile \in Nat /\ crashes \in Nat
      /\ files \subseteq ProgramFile /\ IsFiniteSet(files) /\ Bounded(files, nextFile)
      /\ req \in [Request -> RequestState]
      /\ WellFormed(req[r], nextFile, nextVersion)
      /\ req[r].op = "deleteFile"
  BY DEF DeleteFileCommit, TypeInv, TypeOK
<1>2. /\ Reconcile(fs, req[r].seen)
      /\ files' = fs
      /\ lock' = Released(r)
      /\ req' = [req EXCEPT ![r] = x]
      /\ disk' = disk /\ nextFile' = nextFile /\ crashes' = crashes
  BY <1>1 DEF DeleteFileCommit
<1>3. /\ versions' \subseteq ProgramVersion
      /\ nextVersion' \in Nat /\ nextVersion <= nextVersion'
      /\ Bounded(versions', nextVersion')
      /\ program' \in Program
  <2>1. fs \in SUBSET files OBVIOUS
  <2>2. req[r].seen \in SUBSET ProgramVersion /\ Bounded(req[r].seen, nextVersion)
    BY <1>1 DEF WellFormed, RequestState
  <2> HIDE DEF fs
  <2> QED BY <2>1, <2>2, <1>2, ReconcileType
<1>4. WellFormed(x, nextFile', nextVersion')
  <2>1. req[r] \in RequestState BY <1>1
  <2>2. /\ x \in RequestState /\ x.rows = req[r].rows /\ x.seen = {} /\ x.op = "deleteFile"
    BY <1>1, <2>1 DEF RequestState, Step
  <2> QED BY <2>2, <1>1, <1>2 DEF WellFormed, Bounded
<1>5. files' \subseteq ProgramFile /\ IsFiniteSet(files') /\ Bounded(files', nextFile')
  BY <1>1, <1>2, FS_Subset DEF Bounded
<1>6. /\ nextFile' \in Nat /\ nextFile <= nextFile' /\ crashes' \in Nat
      /\ disk' \subseteq Stored /\ lock' \in [Resource -> Request \cup {NoRequest}]
  BY <1>1, <1>2, LockType DEF TypeInv, TypeOK
<1> HIDE DEF x
<1> QED BY <1>2, <1>3, <1>4, <1>5, <1>6, WritingStep

LEMMA ActivateCommitTypeInv ==
  ASSUME TypeInv, NEW r \in Request, ActivateCommit(r)
  PROVE  TypeInv'
<1>1. /\ nextFile \in Nat /\ nextVersion \in Nat /\ crashes \in Nat /\ program \in Program
      /\ versions \subseteq ProgramVersion /\ Bounded(versions, nextVersion)
  BY DEF TypeInv, TypeOK
<1>2. PICK v \in versions :
        /\ versions' = {[w EXCEPT !.current = w.id = v.id] : w \in versions}
        /\ program' = IF program.live THEN [program EXCEPT !.version = v.version] ELSE program
  BY DEF ActivateCommit
<1>3. /\ lock' = Released(r) /\ req' = [req EXCEPT ![r] = Idle]
      /\ UNCHANGED <<files, disk, nextFile, nextVersion, crashes>>
  BY DEF ActivateCommit
<1>4. ASSUME NEW x \in versions' PROVE x \in ProgramVersion /\ x.id < nextVersion
  <2>1. PICK w \in versions : x = [w EXCEPT !.current = w.id = v.id] BY <1>2
  <2>2. w \in ProgramVersion /\ w.id < nextVersion BY <1>1 DEF Bounded
  <2>3. (w.id = v.id) \in BOOLEAN OBVIOUS
  <2> QED BY <2>1, <2>2, <2>3 DEF ProgramVersion
<1>5. versions' \subseteq ProgramVersion /\ Bounded(versions', nextVersion')
  BY <1>3, <1>4 DEF Bounded, ProgramVersion
<1>6. program' \in Program
  <2>1. v.version \in Version BY <1>1 DEF ProgramVersion
  <2> QED BY <1>1, <1>2, <2>1 DEF Program
<1>7. /\ files' \subseteq ProgramFile /\ IsFiniteSet(files') /\ Bounded(files', nextFile')
      /\ disk' \subseteq Stored /\ lock' \in [Resource -> Request \cup {NoRequest}]
      /\ nextFile' \in Nat /\ nextFile <= nextFile'
      /\ nextVersion' \in Nat /\ nextVersion <= nextVersion' /\ crashes' \in Nat
  BY <1>1, <1>3, LockType DEF TypeInv, TypeOK
<1> QED BY <1>3, <1>5, <1>6, <1>7, IdleRequest, WritingStep

LEMMA CreateTypeInv ==
  ASSUME TypeInv, NEW r \in Request, CreateInsert(r) \/ CreateCommit(r)
  PROVE  TypeInv'
<1>1. /\ nextFile \in Nat /\ nextVersion \in Nat /\ crashes \in Nat /\ program \in Program
      /\ versions \subseteq ProgramVersion /\ Bounded(versions, nextVersion)
      /\ req[r].want \in Version
      /\ req[r].rows # {} /\ req[r].rows \subseteq ProgramFile
  BY DEF CreateInsert, CreateCommit, TypeInv, TypeOK, WellFormed, RequestState
<1>2. NewVersionRow(r) \in ProgramVersion /\ NewVersionRow(r).id = nextVersion
  <2>1. (CHOOSE f \in req[r].rows : TRUE).id \in Nat BY <1>1 DEF ProgramFile
  <2>2. (req[r].seen = {}) \in BOOLEAN OBVIOUS
  <2> QED BY <1>1, <2>1, <2>2 DEF NewVersionRow, ProgramVersion
<1>3. /\ versions' = versions \cup {NewVersionRow(r)}
      /\ nextVersion' = nextVersion + 1
      /\ lock' = lock \/ lock' = Released(r)
      /\ program' = program \/ program' = [program EXCEPT !.version = req[r].want]
      /\ req' = [req EXCEPT ![r] = Idle]
      /\ UNCHANGED <<files, disk, nextFile, crashes>>
  BY DEF CreateInsert, CreateCommit
<1>4. versions' \subseteq ProgramVersion /\ Bounded(versions', nextVersion')
  BY <1>1, <1>2, <1>3 DEF Bounded
<1>5. program' \in Program BY <1>1, <1>3 DEF Program
<1>6. /\ files' \subseteq ProgramFile /\ IsFiniteSet(files') /\ Bounded(files', nextFile')
      /\ disk' \subseteq Stored /\ lock' \in [Resource -> Request \cup {NoRequest}]
      /\ nextFile' \in Nat /\ nextFile <= nextFile'
      /\ nextVersion' \in Nat /\ nextVersion <= nextVersion' /\ crashes' \in Nat
  BY <1>1, <1>3, LockType DEF TypeInv, TypeOK
<1> QED BY <1>3, <1>4, <1>5, <1>6, IdleRequest, WritingStep

LEMMA DeleteProgramCommitTypeInv ==
  ASSUME TypeInv, NEW r \in Request, DeleteProgramCommit(r)
  PROVE  TypeInv'
<1> DEFINE x == [req[r] EXCEPT !.at = "remove"]
<1>1. /\ nextFile \in Nat /\ nextVersion \in Nat /\ crashes \in Nat /\ program \in Program
      /\ req \in [Request -> RequestState]
  BY DEF TypeInv, TypeOK
<1>2. /\ files' = {} /\ versions' = {} /\ program' = [program EXCEPT !.live = FALSE]
      /\ lock' = Released(r) /\ req' = [req EXCEPT ![r] = x]
      /\ UNCHANGED <<disk, nextFile, nextVersion, crashes>>
  BY <1>1 DEF DeleteProgramCommit
<1>3. WellFormed(x, nextFile', nextVersion')
  BY <1>2 DEF TypeInv, WellFormed, RequestState, Step
<1>4. /\ files' \subseteq ProgramFile /\ IsFiniteSet(files') /\ Bounded(files', nextFile')
      /\ versions' \subseteq ProgramVersion /\ Bounded(versions', nextVersion')
  BY <1>2, FS_EmptySet DEF Bounded
<1>5. /\ disk' \subseteq Stored /\ lock' \in [Resource -> Request \cup {NoRequest}]
      /\ nextFile' \in Nat /\ nextFile <= nextFile' /\ program' \in Program
      /\ nextVersion' \in Nat /\ nextVersion <= nextVersion' /\ crashes' \in Nat
  <2>1. disk' \subseteq Stored /\ crashes' \in Nat BY <1>1, <1>2 DEF TypeInv, TypeOK
  <2>2. lock' \in [Resource -> Request \cup {NoRequest}] BY <1>2, LockType
  <2>3. program' \in Program BY <1>1, <1>2 DEF Program
  <2> QED BY <1>1, <1>2, <2>1, <2>2, <2>3
<1> HIDE DEF x
<1> QED BY <1>2, <1>3, <1>4, <1>5, WritingStep

LEMMA CrashTypeInv ==
  ASSUME TypeInv, Crash
  PROVE  TypeInv'
<1>1. /\ crashes' = crashes + 1
      /\ lock' = [what \in Resource |-> NoRequest]
      /\ req' = [r \in Request |-> Idle]
      /\ UNCHANGED <<program, files, versions, disk, nextFile, nextVersion>>
  BY DEF Crash
<1>2. \A r \in Request : WellFormed(req'[r], nextFile', nextVersion')
  BY <1>1, IdleRequest
<1>3. req' \in [Request -> RequestState]
  <2>1. Idle \in RequestState BY IdleRequest DEF WellFormed
  <2> QED BY <1>1, <2>1
<1>4. /\ IsFiniteSet(files') /\ Bounded(files', nextFile') /\ Bounded(versions', nextVersion')
  BY <1>1 DEF TypeInv
<1>5. TypeOK' BY <1>1, <1>3 DEF TypeInv, TypeOK
<1> QED BY <1>2, <1>4, <1>5 DEF TypeInv

LEMMA StepTypeInv == TypeInv /\ [Next]_vars => TypeInv'
<1> SUFFICES ASSUME TypeInv, [Next]_vars PROVE TypeInv' OBVIOUS
<1>1. ASSUME NEW r \in Request, UploadStep(r) PROVE TypeInv'
  BY <1>1, LockingTypeInv, RemovalTypeInv, UploadWriteTypeInv, UploadWriteFailsTypeInv,
     UploadCommitTypeInv, Zenon
     DEF UploadStep
<1>2. ASSUME NEW r \in Request, DeleteStep(r) PROVE TypeInv'
  BY <1>2, LockingTypeInv, RemovalTypeInv, DeleteFileCommitTypeInv,
     DeleteProgramCommitTypeInv, Zenon DEF DeleteStep
<1>3. ASSUME NEW r \in Request, ActivateStep(r) PROVE TypeInv'
  BY <1>3, LockingTypeInv, ActivateCommitTypeInv, Zenon DEF ActivateStep
<1>4. ASSUME NEW r \in Request, CreateStep(r) PROVE TypeInv'
  BY <1>4, LockingTypeInv, CreateTypeInv, Zenon DEF CreateStep
<1>5. CASE UNCHANGED vars
  <2>1. /\ program' = program /\ files' = files /\ versions' = versions /\ disk' = disk
        /\ nextFile' = nextFile /\ nextVersion' = nextVersion
        /\ lock' = lock /\ req' = req /\ crashes' = crashes
    BY <1>5 DEF vars
  <2>2. TypeOK' BY <2>1 DEF TypeInv, TypeOK
  <2>3. /\ IsFiniteSet(files') /\ Bounded(files', nextFile') /\ Bounded(versions', nextVersion')
        /\ \A r \in Request : WellFormed(req'[r], nextFile', nextVersion')
    BY <2>1 DEF TypeInv
  <2> QED BY <2>2, <2>3 DEF TypeInv
<1>6. CASE Next
  BY <1>1, <1>2, <1>3, <1>4, <1>5, <1>6, LockingTypeInv, StartTypeInv, CrashTypeInv, Zenon
     DEF Next, Continue, Stopped
<1> QED BY <1>5, <1>6

(* Every variable keeps its type through every handler, crash and rollback  *)
(* of models/program.go's tables.                                           *)
THEOREM TypeCorrect == Spec => []TypeOK
<1>1. TypeInv => TypeOK BY DEF TypeInv
<1> QED BY <1>1, InitTypeInv, StepTypeInv, PTL DEF Spec

-----------------------------------------------------------------------------
(***************************************************************************)
(* Uploads, deletions, activations and the deletion of the program keep    *)
(* version rows, file rows and programs.version consistent, for every      *)
(* number of slots, names, files and crashes, as long as no version row is *)
(* created by hand (CreateVersion; TLC shows that one breaks it) and the   *)
(* program does not start without version rows.                            *)
(***************************************************************************)
RowsConsistent ==
  OneRowPerId /\ SingleCurrent /\ CurrentIsPrograms /\ VersionsMatchFiles

Restricted == ~LegacyStart /\ \A r \in Request : "createVersion" \notin May[r]

-----------------------------------------------------------------------------
(***************************************************************************)
(* Locks and requests.                                                     *)
(***************************************************************************)
(* What the slot's new state x may claim to hold and to have read. *)
Justified(r, x) ==
  /\ x.op # "createVersion"
  /\ x.op = "upload" /\ x.at \in {"versions", "write"} => lock'["program"] = r
  /\ x.op = "deleteFile" /\ x.at = "versions" =>
       lock'["program"] = r /\ x.seen = versions
  /\ x.op = "upload" /\ x.at = "write" => lock'["versions"] = r
  /\ x.op \in {"activate", "deleteProgram"} /\ x.at = "program" => lock'["versions"] = r
  /\ x.op = "upload" /\ x.at \in {"program", "versions"} => x.rows = {}
  /\ x.op = "upload" /\ x.at = "write" =>
       \A f \in x.rows : f.version = x.want /\ \A g \in files : g.id < f.id

(* No lock of another slot is taken away. *)
OthersKeep(r) ==
  \A s \in Request \ {r}, what \in Resource : lock[what] = s => lock'[what] = s

LEMMA LocksOfOthers ==
  ASSUME TypeInv, NEW r \in Request
  PROVE  /\ lock' = lock => OthersKeep(r)
         /\ lock' = Released(r) => OthersKeep(r)
         /\ \A what \in Resource : Acquire(what, r) => OthersKeep(r) /\ lock'[what] = r
<1>1. lock \in [Resource -> Request \cup {NoRequest}] BY DEF TypeInv, TypeOK
<1>2. lock' = lock => OthersKeep(r) BY DEF OthersKeep
<1>3. lock' = Released(r) => OthersKeep(r) BY <1>1 DEF OthersKeep, Released
<1>4. ASSUME NEW what \in Resource, Acquire(what, r)
      PROVE  OthersKeep(r) /\ lock'[what] = r
  BY <1>1, <1>4, RequestAssumption DEF OthersKeep, Acquire, Available
<1> QED BY <1>2, <1>3, <1>4

(* A step of slot r that writes none of the program's rows. *)
LEMMA FrameStep ==
  ASSUME TypeInv, ConsistencyInv, NEW r \in Request, NEW x,
         req' = [req EXCEPT ![r] = x],
         UNCHANGED <<program, files, versions>>,
         OthersKeep(r), Justified(r, x)
  PROVE  ConsistencyInv'
<1>1. req \in [Request -> RequestState] BY DEF TypeInv, TypeOK
<1>2. req'[r] = x /\ \A s \in Request \ {r} : req'[s] = req[s] BY <1>1
<1>3. \A s \in Request : req'[s].op # "createVersion"
  BY <1>2 DEF ConsistencyInv, Justified
<1>4. LocksKept'
  <2> SUFFICES ASSUME NEW s \in Request
               PROVE  /\ HoldsProgram(s)' => lock'["program"] = s
                      /\ HoldsVersions(s)' => lock'["versions"] = s
    BY DEF LocksKept
  <2>1. CASE s = r
    BY <2>1, <1>2 DEF Justified, HoldsProgram, HoldsVersions
  <2>2. CASE s # r
    <3>1. req'[s] = req[s] BY <2>2, <1>2
    <3>2. /\ HoldsProgram(s) => lock["program"] = s
          /\ HoldsVersions(s) => lock["versions"] = s
      BY DEF ConsistencyInv, LocksKept
    <3>3. /\ lock["program"] = s => lock'["program"] = s
          /\ lock["versions"] = s => lock'["versions"] = s
      BY <2>2 DEF OthersKeep, Resource
    <3> QED BY <3>1, <3>2, <3>3 DEF HoldsProgram, HoldsVersions
  <2> QED BY <2>1, <2>2
<1>5. SeenIsCurrent'
  BY <1>2 DEF SeenIsCurrent, ConsistencyInv, Justified
<1>6. StagedAbove'
  <2> SUFFICES ASSUME NEW s \in Request, req'[s].op = "upload"
               PROVE  /\ req'[s].at \in {"program", "versions"} => req'[s].rows = {}
                      /\ req'[s].at = "write" =>
                           \A f \in req'[s].rows :
                             f.version = req'[s].want /\ \A g \in files' : g.id < f.id
    BY DEF StagedAbove
  <2>1. CASE s = r BY <2>1, <1>2 DEF Justified
  <2>2. CASE s # r
    BY <2>2, <1>2 DEF ConsistencyInv, StagedAbove
  <2> QED BY <2>1, <2>2
<1>7. OneRowPerId' /\ SingleCurrent' /\ CurrentIsPrograms' /\ VersionsMatchFiles'
  BY DEF ConsistencyInv, OneRowPerId, SingleCurrent, CurrentIsPrograms,
         VersionsMatchFiles, FilesOf
<1> QED BY <1>3, <1>4, <1>5, <1>6, <1>7 DEF ConsistencyInv

(* A commit of slot r: nobody else holds the program row, so nobody else    *)
(* relies on what it read of the rows.                                      *)
LEMMA CommitStep ==
  ASSUME TypeInv, ConsistencyInv, NEW r \in Request, NEW x,
         req' = [req EXCEPT ![r] = x],
         x.op # "createVersion", x.at \in {"idle", "remove"},
         Available("program", r),
         lock' = Released(r),
         RowsConsistent'
  PROVE  ConsistencyInv'
<1>1. req \in [Request -> RequestState] BY DEF TypeInv, TypeOK
<1>2. req'[r] = x /\ \A s \in Request \ {r} : req'[s] = req[s] BY <1>1
<1>3. OthersKeep(r) BY LocksOfOthers
<1>4. \A s \in Request \ {r} : ~HoldsProgram(s)
  BY RequestAssumption DEF ConsistencyInv, LocksKept, Available
<1>5. ~HoldsProgram(r)' /\ ~HoldsVersions(r)'
  BY <1>2 DEF HoldsProgram, HoldsVersions
<1>6. \A s \in Request : req'[s].op # "createVersion" BY <1>2 DEF ConsistencyInv
<1>7. LocksKept'
  <2> SUFFICES ASSUME NEW s \in Request
               PROVE  /\ HoldsProgram(s)' => lock'["program"] = s
                      /\ HoldsVersions(s)' => lock'["versions"] = s
    BY DEF LocksKept
  <2>1. CASE s = r BY <2>1, <1>5
  <2>2. CASE s # r
    <3>1. req'[s] = req[s] BY <2>2, <1>2
    <3>2. HoldsVersions(s) => lock["versions"] = s BY DEF ConsistencyInv, LocksKept
    <3>3. lock["versions"] = s => lock'["versions"] = s
      BY <2>2, <1>3 DEF OthersKeep, Resource
    <3>4. ~HoldsProgram(s) BY <2>2, <1>4
    <3> QED BY <3>1, <3>2, <3>3, <3>4 DEF HoldsProgram, HoldsVersions
  <2> QED BY <2>1, <2>2
<1>8. SeenIsCurrent' BY <1>2, <1>4 DEF SeenIsCurrent, HoldsProgram
<1>9. StagedAbove'
  BY <1>2, <1>4 DEF ConsistencyInv, StagedAbove, HoldsProgram
<1> QED BY <1>6, <1>7, <1>8, <1>9 DEF ConsistencyInv, RowsConsistent

-----------------------------------------------------------------------------
(***************************************************************************)
(* Steps that write no row.                                                *)
(***************************************************************************)
LEMMA StartConsistent ==
  ASSUME Restricted, TypeInv, ConsistencyInv, NEW r \in Request, StartStep(r)
  PROVE  ConsistencyInv'
<1>1. ASSUME NEW op \in Op \ {"createVersion"}, NEW q,
             Start(r, op, q), Justified(r, [q EXCEPT !.op = op])
      PROVE  ConsistencyInv'
  <2>1. /\ req' = [req EXCEPT ![r] = [q EXCEPT !.op = op]]
        /\ UNCHANGED <<program, files, versions>> /\ lock' = lock
    BY <1>1 DEF Start
  <2> QED BY <1>1, <2>1, LocksOfOthers, FrameStep
<1>2. CASE StartUpload(r)
  <2>1. PICK v \in Version : Start(r, "upload", [Idle EXCEPT !.at = "program", !.want = v])
    BY <1>2 DEF StartUpload
  <2> QED BY <2>1, <1>1 DEF Idle, Justified, Op
<1>3. CASE StartDeleteFile(r)
  <2>1. PICK f \in files : Start(r, "deleteFile", [Idle EXCEPT !.at = "program", !.rows = {f}])
    BY <1>3 DEF StartDeleteFile
  <2> QED BY <2>1, <1>1 DEF Idle, Justified, Op
<1>4. CASE StartActivate(r)
  <2>1. PICK v \in versions : Start(r, "activate", [Idle EXCEPT !.at = "versions", !.vid = v.id])
    BY <1>4 DEF StartActivate
  <2> QED BY <2>1, <1>1 DEF Idle, Justified, Op
<1>5. CASE StartCreateVersion(r)
  BY <1>5 DEF StartCreateVersion, Start, Restricted
<1>6. CASE StartDeleteProgram(r)
  BY <1>6, <1>1 DEF StartDeleteProgram, Idle, Justified, Op
<1> QED BY <1>2, <1>3, <1>4, <1>5, <1>6 DEF StartStep

LEMMA LockingConsistent ==
  ASSUME TypeInv, ConsistencyInv, NEW r \in Request,
         \/ UploadLockProgram(r) \/ UploadLockVersions(r)
         \/ DeleteFileLockProgram(r)
         \/ ActivateLockVersion(r) \/ DeleteProgramLockVersions(r)
  PROVE  ConsistencyInv'
<1>1. req \in [Request -> RequestState] BY DEF TypeInv, TypeOK
<1>2. "program" \in Resource /\ "versions" \in Resource BY DEF Resource
<1>3. CASE UploadLockProgram(r)
  <2> DEFINE x == [req[r] EXCEPT !.at = "versions"]
  <2>1. /\ req' = [req EXCEPT ![r] = x] /\ UNCHANGED <<program, files, versions>>
        /\ Acquire("program", r)
    BY <1>1, <1>3 DEF UploadLockProgram
  <2>2. OthersKeep(r) /\ lock'["program"] = r BY <1>2, <2>1, LocksOfOthers
  <2>3. req[r].op = "upload" /\ req[r].rows = {}
    BY <1>3 DEF UploadLockProgram, ConsistencyInv, StagedAbove
  <2>4. Justified(r, x) BY <1>1, <2>2, <2>3 DEF Justified, RequestState
  <2> HIDE DEF x
  <2> QED BY <2>1, <2>2, <2>4, FrameStep
<1>4. CASE UploadLockVersions(r)
  <2> DEFINE x == [req[r] EXCEPT !.at = "write"]
  <2>1. /\ req' = [req EXCEPT ![r] = x] /\ UNCHANGED <<program, files, versions>>
        /\ Acquire("versions", r)
    BY <1>1, <1>4 DEF UploadLockVersions
  <2>2. OthersKeep(r) /\ lock'["versions"] = r BY <1>2, <2>1, LocksOfOthers
  <2>3. req[r].op = "upload" /\ req[r].rows = {} /\ lock["program"] = r
    BY <1>4 DEF UploadLockVersions, ConsistencyInv, StagedAbove, LocksKept, HoldsProgram
  <2>4. lock'["program"] = r
    BY <2>1, <2>3, <1>2 DEF Acquire, Available, TypeInv, TypeOK
  <2>5. Justified(r, x) BY <1>1, <2>2, <2>3, <2>4 DEF Justified, RequestState
  <2> HIDE DEF x
  <2> QED BY <2>1, <2>2, <2>5, FrameStep
<1>5. CASE DeleteFileLockProgram(r)
  <2> DEFINE x == [req[r] EXCEPT !.at = "versions", !.seen = versions]
  <2>1. /\ req' = [req EXCEPT ![r] = x] /\ UNCHANGED <<program, files, versions>>
        /\ Acquire("program", r) /\ req[r].op = "deleteFile"
    BY <1>1, <1>5 DEF DeleteFileLockProgram
  <2>2. OthersKeep(r) /\ lock'["program"] = r BY <1>2, <2>1, LocksOfOthers
  <2>3. Justified(r, x) BY <1>1, <2>1, <2>2 DEF Justified, RequestState
  <2> HIDE DEF x
  <2> QED BY <2>1, <2>2, <2>3, FrameStep
<1>6. CASE ActivateLockVersion(r) \/ DeleteProgramLockVersions(r)
  <2> DEFINE x == [req[r] EXCEPT !.at = "program"]
  <2>1. /\ req' = [req EXCEPT ![r] = x] /\ UNCHANGED <<program, files, versions>>
        /\ Acquire("versions", r) /\ req[r].op \in {"activate", "deleteProgram"}
    BY <1>1, <1>6 DEF ActivateLockVersion, DeleteProgramLockVersions
  <2>2. OthersKeep(r) /\ lock'["versions"] = r BY <1>2, <2>1, LocksOfOthers
  <2>3. Justified(r, x) BY <1>1, <2>1, <2>2 DEF Justified, RequestState
  <2> HIDE DEF x
  <2> QED BY <2>1, <2>2, <2>3, FrameStep
<1> QED BY <1>3, <1>4, <1>5, <1>6

(* Requests that end without a commit, and the removals from disk. *)
LEMMA EndingConsistent ==
  ASSUME TypeInv, ConsistencyInv, NEW r \in Request,
         \/ ProgramGone(r) \/ ActivateVersionGone(r) \/ UploadClean(r)
         \/ RemoveFromDisk(r) \/ Rollback(r) \/ \E n \in FileName : UploadWriteFails(r, n)
  PROVE  ConsistencyInv'
<1>1. req \in [Request -> RequestState] BY DEF TypeInv, TypeOK
<1>2. /\ UNCHANGED <<program, files, versions>>
      /\ lock' = lock \/ lock' = Released(r)
      /\ \/ req' = [req EXCEPT ![r] = Idle]
         \/ req' = [req EXCEPT ![r] = [req[r] EXCEPT !.at = "clean"]]
  BY <1>1 DEF ProgramGone, ActivateVersionGone, UploadClean, RemoveFromDisk, Rollback,
              UploadWriteFails
<1>3. OthersKeep(r) BY <1>2, LocksOfOthers
<1>4. Justified(r, Idle) BY DEF Justified, Idle
<1>5. Justified(r, [req[r] EXCEPT !.at = "clean"])
  BY <1>1 DEF Justified, RequestState, ConsistencyInv
<1> DEFINE y == [req[r] EXCEPT !.at = "clean"]
<1>6. CASE req' = [req EXCEPT ![r] = Idle]
  BY <1>2, <1>3, <1>4, <1>6, FrameStep
<1>7. CASE req' = [req EXCEPT ![r] = y]
  <2>1. Justified(r, y) BY <1>5
  <2> HIDE DEF y
  <2> QED BY <1>2, <1>3, <2>1, <1>7, FrameStep
<1> QED BY <1>2, <1>6, <1>7

LEMMA UploadWriteConsistent ==
  ASSUME TypeInv, ConsistencyInv, NEW r \in Request, NEW n \in FileName, UploadWrite(r, n)
  PROVE  ConsistencyInv'
<1> DEFINE f == [id |-> nextFile, version |-> req[r].want,
                 path |-> StorePath(req[r].want, n, nextFile)]
           x == [req[r] EXCEPT !.rows = @ \cup {f}]
<1>1. req \in [Request -> RequestState] BY DEF TypeInv, TypeOK
<1>2. /\ req' = [req EXCEPT ![r] = x] /\ lock' = lock
      /\ UNCHANGED <<program, files, versions>>
      /\ req[r].op = "upload" /\ req[r].at = "write"
  BY <1>1 DEF UploadWrite
<1>3. /\ lock["program"] = r /\ lock["versions"] = r
      /\ \A g \in req[r].rows : g.version = req[r].want /\ \A h \in files : h.id < g.id
  BY <1>2 DEF ConsistencyInv, LocksKept, HoldsProgram, HoldsVersions, StagedAbove
<1>4. f.version = req[r].want /\ \A h \in files : h.id < f.id
  BY DEF TypeInv, Bounded
<1> HIDE DEF f
<1>5. /\ x.op = "upload" /\ x.at = "write" /\ x.want = req[r].want
      /\ x.rows = req[r].rows \cup {f}
  BY <1>1, <1>2 DEF RequestState
<1>6. Justified(r, x)
  <2> HIDE DEF x
  <2> QED BY <1>2, <1>3, <1>4, <1>5 DEF Justified
<1> HIDE DEF x
<1> QED BY <1>2, <1>6, LocksOfOthers, FrameStep

-----------------------------------------------------------------------------
(***************************************************************************)
(* Commits.                                                                *)
(***************************************************************************)
(* Every row set the invariant speaks of has a newest row. *)
LEMMA NewestFile ==
  ASSUME TypeInv, NEW fs \in SUBSET files, NEW v, FilesOf(fs, v) # {}
  PROVE  /\ Newest(FilesOf(fs, v)) \in FilesOf(fs, v)
         /\ \A g \in FilesOf(fs, v) : g.id <= Newest(FilesOf(fs, v)).id
<1>1. Bounded(FilesOf(fs, v), nextFile) /\ nextFile \in Nat
  BY DEF TypeInv, TypeOK, Bounded, FilesOf
<1> QED BY <1>1, NewestIsLatest

LEMMA ActivateCommitConsistent ==
  ASSUME TypeInv, ConsistencyInv, NEW r \in Request, ActivateCommit(r)
  PROVE  ConsistencyInv'
<1>1. PICK v \in versions :
        /\ v.id = req[r].vid
        /\ versions' = {[w EXCEPT !.current = w.id = v.id] : w \in versions}
        /\ program' = IF program.live THEN [program EXCEPT !.version = v.version] ELSE program
  BY DEF ActivateCommit
<1>2. /\ versions \subseteq ProgramVersion /\ program \in Program BY DEF TypeInv, TypeOK
<1>3. files' = files BY DEF ActivateCommit
<1> DEFINE act(w) == [w EXCEPT !.current = w.id = v.id]
<1>4. \A w \in versions :
        /\ act(w).id = w.id /\ act(w).version = w.version /\ act(w).file = w.file
        /\ act(w).current = (w.id = v.id)
  BY <1>2 DEF ProgramVersion
<1>5. versions' = {act(w) : w \in versions} BY <1>1
<1>6. OneRowPerId /\ VersionsMatchFiles BY DEF ConsistencyInv
<1> HIDE DEF act
<1>7. OneRowPerId'
  <2> SUFFICES ASSUME NEW x \in versions', NEW y \in versions', x.id = y.id PROVE x = y
    BY DEF OneRowPerId
  <2>1. PICK w \in versions : x = act(w) BY <1>5
  <2>2. PICK u \in versions : y = act(u) BY <1>5
  <2> QED BY <2>1, <2>2, <1>4, <1>6 DEF OneRowPerId
<1>8. SingleCurrent'
  <2> SUFFICES ASSUME NEW x \in versions', NEW y \in versions', x.current, y.current
               PROVE  x = y
    BY DEF SingleCurrent
  <2>1. PICK w \in versions : x = act(w) BY <1>5
  <2>2. PICK u \in versions : y = act(u) BY <1>5
  <2>3. w.id = v.id /\ u.id = v.id BY <2>1, <2>2, <1>4
  <2> QED BY <2>1, <2>2, <2>3, <1>6 DEF OneRowPerId
<1>9. CurrentIsPrograms'
  <2>1. act(v) \in versions' /\ act(v).current /\ act(v).version = v.version
    BY <1>4, <1>5
  <2>2. program'.live => program'.version = v.version BY <1>1, <1>2 DEF Program
  <2> QED BY <2>1, <2>2 DEF CurrentIsPrograms
<1>10. VersionsMatchFiles'
  <2>1. ASSUME NEW f \in files' PROVE \E x \in versions' : x.version = f.version
    <3>1. PICK w \in versions : w.version = f.version
      BY <1>3, <1>6, <2>1 DEF VersionsMatchFiles
    <3> QED BY <3>1, <1>4, <1>5
  <2>2. ASSUME NEW x \in versions', NEW y \in versions', x.version = y.version PROVE x = y
    <3>1. PICK w \in versions : x = act(w) BY <1>5
    <3>2. PICK u \in versions : y = act(u) BY <1>5
    <3> QED BY <3>1, <3>2, <2>2, <1>4, <1>6 DEF VersionsMatchFiles
  <2>3. ASSUME NEW x \in versions'
        PROVE  \E f \in FilesOf(files', x.version) :
                 x.file = f.id /\ \A g \in FilesOf(files', x.version) : g.id <= f.id
    <3>1. PICK w \in versions : x = act(w) BY <1>5
    <3>2. x.version = w.version /\ x.file = w.file BY <3>1, <1>4
    <3>3. \E f \in FilesOf(files, w.version) :
            w.file = f.id /\ \A g \in FilesOf(files, w.version) : g.id <= f.id
      BY <1>6 DEF VersionsMatchFiles
    <3> QED BY <3>2, <3>3, <1>3
  <2> QED BY <2>1, <2>2, <2>3 DEF VersionsMatchFiles
<1>11. RowsConsistent' BY <1>7, <1>8, <1>9, <1>10 DEF RowsConsistent
<1>12. /\ req' = [req EXCEPT ![r] = Idle] /\ lock' = Released(r)
       /\ Available("program", r) /\ Idle.at = "idle" /\ Idle.op # "createVersion"
  BY DEF ActivateCommit, Idle
<1> QED BY <1>11, <1>12, CommitStep

LEMMA DeleteProgramCommitConsistent ==
  ASSUME TypeInv, ConsistencyInv, NEW r \in Request, DeleteProgramCommit(r)
  PROVE  ConsistencyInv'
<1> DEFINE x == [req[r] EXCEPT !.at = "remove"]
<1>1. /\ req \in [Request -> RequestState] /\ program \in Program BY DEF TypeInv, TypeOK
<1>2. /\ files' = {} /\ versions' = {} /\ ~program'.live
      /\ req' = [req EXCEPT ![r] = x] /\ lock' = Released(r) /\ Available("program", r)
      /\ x.op # "createVersion" /\ x.at = "remove"
  BY <1>1 DEF DeleteProgramCommit, Program, RequestState
<1>3. RowsConsistent'
  BY <1>2 DEF RowsConsistent, OneRowPerId, SingleCurrent, CurrentIsPrograms,
              VersionsMatchFiles, FilesOf
<1> HIDE DEF x
<1> QED BY <1>2, <1>3, CommitStep

(* What Published leaves: its own row, and every row of another version, no *)
(* longer current.                                                          *)
LEMMA PublishedRows ==
  ASSUME TypeInv, ConsistencyInv, NEW v \in Version, NEW id \in Nat
  PROVE  \E own \in ProgramVersion :
           /\ own.version = v /\ own.file = id /\ own.current
           /\ \A w \in versions : w.version # v => w.id # own.id
           /\ Published(v, id) =
                {[w EXCEPT !.current = FALSE] : w \in {u \in versions : u.version # v}} \cup {own}
<1> DEFINE existing == {w \in versions : w.version = v}
           new == [id |-> nextVersion, version |-> v, file |-> id, current |-> TRUE]
           old == [Newest(existing) EXCEPT !.file = id, !.current = TRUE]
           own == IF existing = {} THEN new ELSE old
<1>1. /\ versions \subseteq ProgramVersion /\ Bounded(versions, nextVersion)
      /\ nextVersion \in Nat /\ OneRowPerId
      /\ \A w, u \in versions : w.version = u.version => w = u
  BY DEF TypeInv, TypeOK, ConsistencyInv, VersionsMatchFiles
<1>2. Published(v, id) =
        {[w EXCEPT !.current = FALSE] : w \in {u \in versions : u.id # own.id}} \cup {own}
  BY DEF Published
<1>3. existing # {} => Newest(existing) \in existing
  <2>1. Bounded(existing, nextVersion) BY <1>1 DEF Bounded
  <2> HIDE DEF existing
  <2> QED BY <2>1, <1>1, NewestIsLatest
<1>4. /\ own \in ProgramVersion /\ own.version = v /\ own.file = id /\ own.current
  <2>1. CASE existing = {}
    <3>1. own = new BY <2>1
    <3> HIDE DEF own
    <3> QED BY <3>1, <1>1 DEF ProgramVersion
  <2>2. CASE existing # {}
    <3>1. own = old BY <2>2
    <3>2. Newest(existing) \in ProgramVersion /\ Newest(existing).version = v
      BY <2>2, <1>1, <1>3
    <3> HIDE DEF own, existing
    <3> QED BY <3>1, <3>2 DEF ProgramVersion
  <2> QED BY <2>1, <2>2
<1>5. \A w \in versions : w.id # own.id <=> w.version # v
  <2>1. CASE existing = {}
    <3>1. own = new BY <2>1
    <3>2. \A w \in versions : w.version # v BY <2>1
    <3>3. \A w \in versions : w.id # nextVersion BY <1>1 DEF Bounded
    <3> HIDE DEF own, existing
    <3> QED BY <3>1, <3>2, <3>3
  <2>2. CASE existing # {}
    <3>1. own = old BY <2>2
    <3>2. Newest(existing) \in versions /\ Newest(existing).version = v
      BY <2>2, <1>3
    <3>3. own.id = Newest(existing).id
      <4>1. Newest(existing) \in ProgramVersion BY <3>2, <1>1
      <4> HIDE DEF own, existing
      <4> QED BY <3>1, <4>1 DEF ProgramVersion
    <3> HIDE DEF own, existing
    <3> QED BY <3>2, <3>3, <1>1 DEF OneRowPerId
  <2> QED BY <2>1, <2>2
<1> HIDE DEF own
<1>6. {u \in versions : u.id # own.id} = {u \in versions : u.version # v} BY <1>5
<1> QED BY <1>2, <1>4, <1>5, <1>6

LEMMA UploadCommitConsistent ==
  ASSUME TypeInv, ConsistencyInv, NEW r \in Request, UploadCommit(r)
  PROVE  ConsistencyInv'
<1> DEFINE v == req[r].want
           top == Newest(req[r].rows)
           off(w) == [w EXCEPT !.current = FALSE]
           others == {u \in versions : u.version # v}
<1>1. /\ req \in [Request -> RequestState] /\ program \in Program
      /\ versions \subseteq ProgramVersion /\ files \subseteq ProgramFile
  BY DEF TypeInv, TypeOK
<1>2. /\ req[r].op = "upload" /\ req[r].at = "write" /\ req[r].rows # {}
      /\ files' = files \cup req[r].rows
      /\ versions' = Published(v, top.id)
      /\ program' = [program EXCEPT !.version = v]
      /\ lock' = Released(r) /\ req' = [req EXCEPT ![r] = Idle]
  BY DEF UploadCommit
<1>3. /\ WellFormed(req[r], nextFile, nextVersion) /\ nextFile \in Nat
  BY DEF TypeInv, TypeOK
<1>4. v \in Version /\ req[r].rows \subseteq ProgramFile /\ Bounded(req[r].rows, nextFile)
  BY <1>2, <1>3 DEF WellFormed, RequestState
<1>5. top \in req[r].rows /\ \A f \in req[r].rows : f.id <= top.id
  BY <1>2, <1>3, <1>4, NewestIsLatest
<1>6. \A f \in req[r].rows : f.version = v /\ \A g \in files : g.id < f.id
  BY <1>2 DEF ConsistencyInv, StagedAbove
<1>7. top.id \in Nat /\ top.version = v BY <1>4, <1>5, <1>6 DEF ProgramFile
<1> HIDE DEF v, top, off, others
<1>8. PICK own \in ProgramVersion :
        /\ own.version = v /\ own.file = top.id /\ own.current
        /\ \A w \in versions : w.version # v => w.id # own.id
        /\ versions' = {off(w) : w \in others} \cup {own}
  BY <1>2, <1>4, <1>7, PublishedRows DEF off, others
<1>9. \A w \in others :
        /\ off(w).id = w.id /\ off(w).version = w.version /\ off(w).file = w.file
        /\ ~off(w).current /\ w \in versions /\ w.version # v
  BY <1>1 DEF off, others, ProgramVersion
<1>10. OneRowPerId /\ VersionsMatchFiles BY DEF ConsistencyInv
<1>11. OneRowPerId'
  BY <1>8, <1>9, <1>10 DEF OneRowPerId
<1>12. SingleCurrent' BY <1>8, <1>9 DEF SingleCurrent
<1>13. CurrentIsPrograms' BY <1>1, <1>2, <1>8 DEF CurrentIsPrograms, Program
<1>14. VersionsMatchFiles'
  <2>1. ASSUME NEW f \in files' PROVE \E x \in versions' : x.version = f.version
    <3>1. CASE f.version = v BY <3>1, <1>8
    <3>2. CASE f.version # v
      <4>1. f \in files BY <3>2, <2>1, <1>2, <1>6
      <4>2. PICK w \in versions : w.version = f.version
        BY <4>1, <1>10 DEF VersionsMatchFiles
      <4>3. w \in others BY <4>2, <3>2 DEF others
      <4> QED BY <4>2, <4>3, <1>8, <1>9
    <3> QED BY <3>1, <3>2
  <2>2. ASSUME NEW x \in versions', NEW y \in versions', x.version = y.version PROVE x = y
    BY <2>2, <1>8, <1>9, <1>10 DEF VersionsMatchFiles
  <2>3. ASSUME NEW x \in versions'
        PROVE  \E f \in FilesOf(files', x.version) :
                 x.file = f.id /\ \A g \in FilesOf(files', x.version) : g.id <= f.id
    <3>1. CASE x = own
      <4>1. top \in FilesOf(files', v) BY <1>2, <1>5, <1>7 DEF FilesOf
      <4>2. ASSUME NEW g \in FilesOf(files', v) PROVE g.id <= top.id
        <5>1. CASE g \in req[r].rows BY <5>1, <1>5
        <5>2. CASE g \in files
          <6>1. g.id \in Nat BY <5>2, <1>1 DEF ProgramFile
          <6>2. g.id < top.id BY <5>2, <1>5, <1>6
          <6> QED BY <6>1, <6>2, <1>7
        <5> QED BY <5>1, <5>2, <4>2, <1>2 DEF FilesOf
      <4> QED BY <3>1, <4>1, <4>2, <1>8
    <3>2. CASE x # own
      <4>1. PICK w \in others : x = off(w) BY <3>2, <2>3, <1>8
      <4>2. FilesOf(files', w.version) = FilesOf(files, w.version)
        BY <4>1, <1>2, <1>6, <1>9 DEF FilesOf
      <4>3. \E f \in FilesOf(files, w.version) :
              w.file = f.id /\ \A g \in FilesOf(files, w.version) : g.id <= f.id
        BY <4>1, <1>9, <1>10 DEF VersionsMatchFiles
      <4> QED BY <4>1, <4>2, <4>3, <1>9
    <3> QED BY <3>1, <3>2
  <2> QED BY <2>1, <2>2, <2>3 DEF VersionsMatchFiles
<1>15. RowsConsistent' BY <1>11, <1>12, <1>13, <1>14 DEF RowsConsistent
<1>16. Available("program", r)
  BY <1>2 DEF ConsistencyInv, LocksKept, HoldsProgram, Available
<1>17. Idle.at = "idle" /\ Idle.op # "createVersion" BY DEF Idle
<1> QED BY <1>2, <1>15, <1>16, <1>17, CommitStep

(* A reconciliation that decides on the rows as they are keeps the row of   *)
(* each version that still has files, links it to the newest of them and    *)
(* makes the preferred one current; no row is missing and none is unseen.   *)
LEMMA ReconciledRows ==
  ASSUME TypeInv, ConsistencyInv, NEW fs \in SUBSET files, Reconcile(fs, versions)
  PROVE  LET names == {f.version : f \in fs}
             kept == {w \in versions : w.version \in names}
         IN  \E p \in Preferred(fs, kept) :
               /\ program' = [program EXCEPT !.version = p]
               /\ versions' = {[w EXCEPT !.file = Newest(FilesOf(fs, w.version)).id,
                                         !.current = w.version = p] : w \in kept}
               /\ names = {w.version : w \in kept}
<1> DEFINE names == {f.version : f \in fs}
           kept == {w \in versions : w.version \in names}
           missing == names \ {w.version : w \in kept}
           link(w) == [w EXCEPT !.file = Newest(FilesOf(fs, w.version)).id]
           relinked == {link(w) : w \in kept}
           known == relinked \cup Created(fs, missing)
           unseen == {w \in versions : \A u \in versions : u.id # w.id}
           full(w, p) == [w EXCEPT !.file = Newest(FilesOf(fs, w.version)).id,
                                   !.current = w.version = p]
<1>1. PICK p \in Preferred(fs, kept) :
        /\ versions' = {[w EXCEPT !.current =
                           /\ w \in known /\ w.version = p
                           /\ \A u \in known : u.version = p => u.id <= w.id]
                        : w \in known \cup unseen}
        /\ program' = [program EXCEPT !.version = p]
  BY Zenon DEF Reconcile
<1>2. /\ versions \subseteq ProgramVersion
      /\ \A f \in files : \E w \in versions : w.version = f.version
      /\ \A w, u \in versions : w.version = u.version => w = u
  BY DEF TypeInv, TypeOK, ConsistencyInv, VersionsMatchFiles
<1>3. names = {w.version : w \in kept} BY <1>2
<1>4. unseen = {} OBVIOUS
<1>5. known = relinked
  <2>1. missing = {} BY <1>3
  <2>2. Created(fs, {}) = {} BY DEF Created
  <2> QED BY <2>1, <2>2
<1> DEFINE mark(x) == [x EXCEPT !.current =
                          /\ x \in known /\ x.version = p
                          /\ \A u \in known : u.version = p => u.id <= x.id]
<1>6. versions' = {mark(x) : x \in relinked} BY <1>1, <1>4, <1>5
<1>7. \A w \in kept :
        /\ link(w).id = w.id /\ link(w).version = w.version /\ w.id \in Nat
        /\ link(w) \in relinked
  BY <1>2 DEF ProgramVersion
<1>8. ASSUME NEW w \in kept PROVE mark(link(w)) = full(w, p)
  <2>1. w \in ProgramVersion BY <1>2
  <2>2. ASSUME NEW u \in relinked, u.version = p, w.version = p PROVE u.id <= link(w).id
    <3>1. PICK t \in kept : u = link(t) OBVIOUS
    <3>2. t.version = w.version BY <3>1, <2>2, <1>7
    <3>3. t = w BY <3>2, <1>2
    <3> HIDE DEF link, relinked, kept
    <3> QED BY <3>1, <3>3, <1>7
  <2> DEFINE cur == /\ link(w) \in known /\ link(w).version = p
                    /\ \A u \in known : u.version = p => u.id <= link(w).id
  <2>3. cur = (w.version = p)
    <3> HIDE DEF link, relinked, kept, known
    <3> QED BY <2>2, <1>5, <1>7
  <2>4. mark(link(w)) = [link(w) EXCEPT !.current = cur] OBVIOUS
  <2> HIDE DEF cur
  <2>5. [link(w) EXCEPT !.current = (w.version = p)] = full(w, p) BY <2>1 DEF ProgramVersion
  <2> QED BY <2>3, <2>4, <2>5
<1>9. versions' = {full(w, p) : w \in kept}
  <2> HIDE DEF mark, full, link, kept
  <2> QED BY <1>6, <1>8
<1> QED BY <1>1, <1>3, <1>9

LEMMA DeleteFileCommitConsistent ==
  ASSUME TypeInv, ConsistencyInv, NEW r \in Request, DeleteFileCommit(r)
  PROVE  ConsistencyInv'
<1> DEFINE fs == files \ req[r].rows
           names == {f.version : f \in fs}
           kept == {w \in versions : w.version \in names}
           x == [req[r] EXCEPT !.at = "remove", !.seen = {}]
<1>1. /\ req \in [Request -> RequestState] /\ program \in Program
      /\ versions \subseteq ProgramVersion /\ files \subseteq ProgramFile
  BY DEF TypeInv, TypeOK
<1>2. /\ req[r].op = "deleteFile" /\ req[r].at = "versions"
      /\ files' = fs /\ Reconcile(fs, req[r].seen)
      /\ lock' = Released(r) /\ req' = [req EXCEPT ![r] = x]
  BY <1>1 DEF DeleteFileCommit
<1>3. req[r].seen = versions /\ Available("program", r)
  BY <1>2 DEF ConsistencyInv, SeenIsCurrent, LocksKept, HoldsProgram, Available
<1>4. fs \in SUBSET files OBVIOUS
<1> HIDE DEF fs
<1>5. PICK p \in Preferred(fs, kept) :
        /\ program' = [program EXCEPT !.version = p]
        /\ versions' = {[w EXCEPT !.file = Newest(FilesOf(fs, w.version)).id,
                                  !.current = w.version = p] : w \in kept}
        /\ names = {w.version : w \in kept}
  BY <1>2, <1>3, <1>4, ReconciledRows, Zenon
<1> DEFINE full(w) == [w EXCEPT !.file = Newest(FilesOf(fs, w.version)).id,
                                !.current = w.version = p]
<1>6. versions' = {full(w) : w \in kept} BY <1>5
<1>7. \A w \in kept :
        /\ full(w).id = w.id /\ full(w).version = w.version
        /\ full(w).file = Newest(FilesOf(fs, w.version)).id
        /\ full(w).current = (w.version = p)
        /\ w \in versions
  BY <1>1 DEF ProgramVersion
<1>8. /\ \A w, u \in versions : w.version = u.version => w = u
      /\ \A w, u \in versions : w.id = u.id => w = u
  BY DEF ConsistencyInv, VersionsMatchFiles, OneRowPerId
<1> HIDE DEF full
<1>9. OneRowPerId'
  <2> SUFFICES ASSUME NEW y \in versions', NEW z \in versions', y.id = z.id PROVE y = z
    BY DEF OneRowPerId
  <2>1. PICK w \in kept : y = full(w) BY <1>6
  <2>2. PICK u \in kept : z = full(u) BY <1>6
  <2> QED BY <2>1, <2>2, <1>7, <1>8
<1>10. SingleCurrent'
  <2> SUFFICES ASSUME NEW y \in versions', NEW z \in versions', y.current, z.current
               PROVE  y = z
    BY DEF SingleCurrent
  <2>1. PICK w \in kept : y = full(w) BY <1>6
  <2>2. PICK u \in kept : z = full(u) BY <1>6
  <2>3. w.version = p /\ u.version = p BY <2>1, <2>2, <1>7
  <2> QED BY <2>1, <2>2, <2>3, <1>7, <1>8
<1>11. CurrentIsPrograms'
  <2>1. program'.version = p BY <1>1, <1>5 DEF Program
  <2>2. CASE fs = {}
    <3>1. kept = {} BY <2>2
    <3>2. p = NoVersion BY <3>1, <2>2, <1>5 DEF Preferred
    <3> QED BY <3>1, <3>2, <2>1, <1>6 DEF CurrentIsPrograms
  <2>3. CASE fs # {}
    <3>1. p \in names
      <4>1. CASE \E v \in kept : v.current
        <5>1. Preferred(fs, kept) = {v.version : v \in {u \in kept : u.current}}
          BY <4>1 DEF Preferred
        <5> QED BY <5>1, <1>5
      <4>2. CASE (~ \E v \in kept : v.current) /\ program.version \in names
        <5>1. Preferred(fs, kept) = {program.version} BY <4>2 DEF Preferred
        <5> QED BY <5>1, <4>2, <1>5
      <4>3. CASE (~ \E v \in kept : v.current) /\ program.version \notin names
        <5>1. Preferred(fs, kept) = {Newest(fs).version} BY <4>3, <2>3 DEF Preferred
        <5>2. Bounded(fs, nextFile) /\ nextFile \in Nat
          BY <1>4 DEF TypeInv, TypeOK, Bounded
        <5>3. Newest(fs) \in fs BY <5>2, <2>3, NewestIsLatest
        <5> QED BY <5>1, <5>3, <1>5
      <4> QED BY <4>1, <4>2, <4>3
    <3>2. PICK w \in kept : w.version = p BY <3>1, <1>5
    <3>3. full(w) \in versions' /\ full(w).current /\ full(w).version = p
      BY <3>2, <1>6, <1>7
    <3> QED BY <3>3, <2>1 DEF CurrentIsPrograms
  <2> QED BY <2>2, <2>3
<1>12. VersionsMatchFiles'
  <2>1. ASSUME NEW f \in files' PROVE \E y \in versions' : y.version = f.version
    <3>1. f.version \in names BY <1>2, <2>1
    <3>2. PICK w \in kept : w.version = f.version BY <3>1, <1>5
    <3> QED BY <3>2, <1>6, <1>7
  <2>2. ASSUME NEW y \in versions', NEW z \in versions', y.version = z.version PROVE y = z
    <3>1. PICK w \in kept : y = full(w) BY <1>6
    <3>2. PICK u \in kept : z = full(u) BY <1>6
    <3> QED BY <3>1, <3>2, <2>2, <1>7, <1>8
  <2>3. ASSUME NEW y \in versions'
        PROVE  \E f \in FilesOf(files', y.version) :
                 y.file = f.id /\ \A g \in FilesOf(files', y.version) : g.id <= f.id
    <3>1. PICK w \in kept : y = full(w) BY <1>6
    <3>2. FilesOf(fs, w.version) # {} BY <3>1 DEF FilesOf
    <3>3. /\ Newest(FilesOf(fs, w.version)) \in FilesOf(fs, w.version)
          /\ \A g \in FilesOf(fs, w.version) : g.id <= Newest(FilesOf(fs, w.version)).id
      BY <3>2, <1>4, NewestFile
    <3>4. y.version = w.version /\ y.file = Newest(FilesOf(fs, w.version)).id
      BY <3>1, <1>7
    <3> QED BY <3>3, <3>4, <1>2
  <2> QED BY <2>1, <2>2, <2>3 DEF VersionsMatchFiles
<1>13. RowsConsistent' BY <1>9, <1>10, <1>11, <1>12 DEF RowsConsistent
<1>14. x.at = "remove" /\ x.op # "createVersion" BY <1>1, <1>2 DEF RequestState
<1> HIDE DEF x
<1> QED BY <1>2, <1>3, <1>13, <1>14, CommitStep

-----------------------------------------------------------------------------
(***************************************************************************)
(* The initial history, and the invariant.                                 *)
(***************************************************************************)
LEMMA InitConsistent ==
  ASSUME Restricted, Init
  PROVE  ConsistencyInv
<1> DEFINE names == {f.version : f \in files}
           latest(w) == Newest(FilesOf(files, w)).id
           row(w, c) == [id |-> latest(w), version |-> w, file |-> latest(w),
                         current |-> w = c]
<1>1. TypeInv BY InitTypeInv
<1>2. \A f, g \in files : f.id = g.id => f = g BY InitFiles
<1>3. \A r \in Request : req[r] = Idle BY Zenon DEF Init
<1>4. RowsConsistent
  <2>1. CASE files = {} /\ versions = {} /\ program = [live |-> TRUE, version |-> NoVersion]
    BY <2>1 DEF RowsConsistent, OneRowPerId, SingleCurrent, CurrentIsPrograms,
                VersionsMatchFiles, FilesOf
  <2>2. ASSUME NEW c \in names,
               versions = {row(w, c) : w \in names},
               program = [live |-> TRUE, version |-> c]
        PROVE  RowsConsistent
    <3>1. ASSUME NEW w \in names
          PROVE  /\ Newest(FilesOf(files, w)) \in FilesOf(files, w)
                 /\ \A g \in FilesOf(files, w) : g.id <= Newest(FilesOf(files, w)).id
      <4>1. FilesOf(files, w) # {} BY DEF FilesOf
      <4>2. files \in SUBSET files OBVIOUS
      <4> QED BY <1>1, <4>1, <4>2, NewestFile, Zenon
    <3>2. ASSUME NEW w \in names, NEW u \in names, latest(w) = latest(u) PROVE w = u
      <4>1. Newest(FilesOf(files, w)) \in files /\ Newest(FilesOf(files, w)).version = w
        BY <3>1 DEF FilesOf
      <4>2. Newest(FilesOf(files, u)) \in files /\ Newest(FilesOf(files, u)).version = u
        BY <3>1 DEF FilesOf
      <4> QED BY <3>2, <4>1, <4>2, <1>2
    <3>3. \A w \in names :
            /\ row(w, c).id = latest(w) /\ row(w, c).version = w
            /\ row(w, c).file = latest(w) /\ row(w, c).current = (w = c)
      OBVIOUS
    <3> HIDE DEF row
    <3>4. OneRowPerId BY <2>2, <3>2, <3>3 DEF OneRowPerId
    <3>5. SingleCurrent
      <4> SUFFICES ASSUME NEW x \in versions, NEW y \in versions, x.current, y.current
                   PROVE  x = y
        BY DEF SingleCurrent
      <4>1. PICK w \in names : x = row(w, c) BY <2>2
      <4>2. PICK u \in names : y = row(u, c) BY <2>2
      <4> HIDE DEF names
      <4>3. w = c /\ u = c BY <4>1, <4>2, <3>3
      <4> QED BY <4>1, <4>2, <4>3
    <3>6. CurrentIsPrograms BY <2>2, <3>3 DEF CurrentIsPrograms
    <3>7. VersionsMatchFiles
      <4>1. \A f \in files : \E v \in versions : v.version = f.version
        BY <2>2, <3>3
      <4>2. \A v, w \in versions : v.version = w.version => v = w
        BY <2>2, <3>3
      <4>3. ASSUME NEW v \in versions
            PROVE  \E f \in FilesOf(files, v.version) :
                     v.file = f.id /\ \A g \in FilesOf(files, v.version) : g.id <= f.id
        <5>1. PICK w \in names : v = row(w, c) BY <2>2
        <5>2. v.version = w /\ v.file = latest(w) BY <5>1, <3>3
        <5> QED BY <5>2, <3>1
      <4> QED BY <4>1, <4>2, <4>3 DEF VersionsMatchFiles
    <3> QED BY <3>4, <3>5, <3>6, <3>7 DEF RowsConsistent
  <2>3. \/ files = {} /\ versions = {} /\ program = [live |-> TRUE, version |-> NoVersion]
        \/ \E c \in names : /\ versions = {row(w, c) : w \in names}
                            /\ program = [live |-> TRUE, version |-> c]
    BY Zenon DEF Init, Restricted
  <2> HIDE DEF names, row
  <2> QED BY <2>1, <2>2, <2>3
<1>5. Idle.op = "none" BY DEF Idle
<1> QED BY <1>3, <1>4, <1>5
        DEF ConsistencyInv, RowsConsistent, LocksKept, HoldsProgram, HoldsVersions,
            SeenIsCurrent, StagedAbove

LEMMA CrashConsistent ==
  ASSUME ConsistencyInv, Crash
  PROVE  ConsistencyInv'
<1>1. \A r \in Request : req'[r] = Idle BY DEF Crash
<1>2. Idle.op = "none" BY DEF Idle
<1>3. RowsConsistent'
  BY DEF Crash, ConsistencyInv, RowsConsistent, OneRowPerId, SingleCurrent,
         CurrentIsPrograms, VersionsMatchFiles, FilesOf
<1> QED BY <1>1, <1>2, <1>3
        DEF ConsistencyInv, RowsConsistent, LocksKept, HoldsProgram, HoldsVersions,
            SeenIsCurrent, StagedAbove

LEMMA StepConsistent ==
  Restricted /\ TypeInv /\ ConsistencyInv /\ [Next]_vars => ConsistencyInv'
<1> SUFFICES ASSUME Restricted, TypeInv, ConsistencyInv, [Next]_vars PROVE ConsistencyInv'
  OBVIOUS
<1>1. ASSUME NEW r \in Request, UploadStep(r) PROVE ConsistencyInv'
  BY <1>1, LockingConsistent, EndingConsistent, UploadWriteConsistent,
     UploadCommitConsistent, Zenon DEF UploadStep
<1>2. ASSUME NEW r \in Request, DeleteStep(r) PROVE ConsistencyInv'
  BY <1>2, LockingConsistent, EndingConsistent, DeleteFileCommitConsistent,
     DeleteProgramCommitConsistent, Zenon DEF DeleteStep
<1>3. ASSUME NEW r \in Request, ActivateStep(r) PROVE ConsistencyInv'
  BY <1>3, LockingConsistent, EndingConsistent, ActivateCommitConsistent, Zenon
     DEF ActivateStep
<1>4. ASSUME NEW r \in Request, CreateStep(r) PROVE FALSE
  BY <1>4 DEF CreateStep, CreateCheck, CreateInsert, CreateInsertFirst, CreateCommit,
              ConsistencyInv
<1>5. CASE UNCHANGED vars
  <2>1. /\ program' = program /\ files' = files /\ versions' = versions
        /\ lock' = lock /\ req' = req
    BY <1>5 DEF vars
  <2> QED BY <2>1 DEF ConsistencyInv, LocksKept, HoldsProgram, HoldsVersions, SeenIsCurrent,
                      StagedAbove, OneRowPerId, SingleCurrent, CurrentIsPrograms,
                      VersionsMatchFiles, FilesOf
<1>6. CASE Next
  BY <1>1, <1>2, <1>3, <1>4, <1>5, <1>6, EndingConsistent, StartConsistent,
     CrashConsistent, Zenon DEF Next, Continue, Stopped
<1> QED BY <1>5, <1>6

(* Without CreateVersion and with recorded versions, the locks make every   *)
(* commit see the rows as they are (UploadFile, DeleteFile, ActivateVersion,*)
(* DeleteProgram, in any number and any order).                             *)
THEOREM Consistent ==
  ASSUME Restricted
  PROVE  Spec => []ConsistencyInv
<1>1. Init => TypeInv /\ ConsistencyInv BY InitTypeInv, InitConsistent
<1>2. (TypeInv /\ ConsistencyInv) /\ [Next]_vars => (TypeInv /\ ConsistencyInv)'
  BY StepTypeInv, StepConsistent
<1> QED BY <1>1, <1>2, PTL DEF Spec

(* A program never has two current version rows (models/program.go:66).     *)
THEOREM OneCurrentVersion ==
  ASSUME Restricted
  PROVE  Spec => []SingleCurrent
<1>1. ConsistencyInv => SingleCurrent BY DEF ConsistencyInv
<1> QED BY <1>1, Consistent, PTL

(* programs.version names the current row (UploadFile, ActivateVersion and  *)
(* reconcileProgramVersionState write both copies in one transaction).      *)
THEOREM CurrentVersionIsPrograms ==
  ASSUME Restricted
  PROVE  Spec => []CurrentIsPrograms
<1>1. ConsistencyInv => CurrentIsPrograms BY DEF ConsistencyInv
<1> QED BY <1>1, Consistent, PTL

(* Version rows and files match: one row per name in use, linked to the     *)
(* newest file of the name (reconcileProgramVersionState).                  *)
THEOREM VersionRowsMatchFiles ==
  ASSUME Restricted
  PROVE  Spec => []VersionsMatchFiles
<1>1. ConsistencyInv => VersionsMatchFiles BY DEF ConsistencyInv
<1> QED BY <1>1, Consistent, PTL
=============================================================================
