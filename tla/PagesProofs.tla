----------------------------- MODULE PagesProofs -----------------------------
(***************************************************************************)
(* The pages of the client show what they should, for any number of        *)
(* programs, targets, openings, intervals and requests in flight.  Each    *)
(* page has an inductive invariant of its own, which says what the         *)
(* requests still in flight are going to bring; the last theorems carry    *)
(* the results over to the client, where the pages live side by side.      *)
(***************************************************************************)
EXTENDS Client, SessionProofs, FiniteSetTheorems, SequenceTheorems

-----------------------------------------------------------------------------
(***************************************************************************)
(* Requests and answers in sequences.                                      *)
(***************************************************************************)
\* What is removed leaves the elements that were there.
LEMMA RemovedElement ==
  ASSUME NEW S, NEW s \in Seq(S), NEW k \in DOMAIN s
  PROVE  /\ RemoveAt(s, k) \in Seq(S)
         /\ Len(RemoveAt(s, k)) = Len(s) - 1
         /\ \A i \in 1 .. Len(s) - 1 :
              RemoveAt(s, k)[i] = IF i < k THEN s[i] ELSE s[i + 1]
<1>1. Len(s) \in Nat /\ k \in 1 .. Len(s) /\ \A i \in 1 .. Len(s) : s[i] \in S
  BY LenProperties, ElementOfSeq
<1> DEFINE before == SubSeq(s, 1, k - 1)
           after == SubSeq(s, k + 1, Len(s))
<1>2. /\ before \in Seq(S) /\ Len(before) = k - 1
      /\ \A i \in 1 .. k - 1 : before[i] = s[i]
  <2>1. /\ k - 1 \in Int /\ k - 1 - 1 + 1 = k - 1 /\ 1 \in Int
        /\ \A i \in 1 .. k - 1 : s[i] \in S /\ 1 + i - 1 = i
        /\ 1 <= k - 1 \/ k - 1 = 0
    BY <1>1
  <2>2. /\ SubSeq(s, 1, k - 1) \in Seq(S)
        /\ Len(SubSeq(s, 1, k - 1)) = IF 1 <= k - 1 THEN k - 1 - 1 + 1 ELSE 0
        /\ \A i \in 1 .. k - 1 - 1 + 1 : SubSeq(s, 1, k - 1)[i] = s[1 + i - 1]
    <3> DEFINE n == k - 1
    <3>1. n \in Int /\ \A i \in 1 .. n : s[i] \in S BY <2>1
    <3> HIDE DEF n
    <3>2. /\ SubSeq(s, 1, n) \in Seq(S)
          /\ Len(SubSeq(s, 1, n)) = IF 1 <= n THEN n - 1 + 1 ELSE 0
          /\ \A i \in 1 .. n - 1 + 1 : SubSeq(s, 1, n)[i] = s[1 + i - 1]
      BY <3>1, SubSeqProperties
    <3> QED BY <3>2 DEF n
  <2> HIDE DEF before
  <2>3. Len(SubSeq(s, 1, k - 1)) = k - 1 BY <2>1, <2>2
  <2>4. \A i \in 1 .. k - 1 : SubSeq(s, 1, k - 1)[i] = s[i] BY <2>1, <2>2
  <2> QED BY <2>2, <2>3, <2>4 DEF before
<1>3. /\ after \in Seq(S) /\ Len(after) = Len(s) - k
      /\ \A i \in 1 .. Len(s) - k : after[i] = s[k + i]
  <2>1. /\ k + 1 \in Int /\ Len(s) \in Int /\ Len(s) - (k + 1) + 1 = Len(s) - k
        /\ \A i \in k + 1 .. Len(s) : s[i] \in S
        /\ \A i \in 1 .. Len(s) - k : k + 1 + i - 1 = k + i
        /\ k + 1 <= Len(s) \/ Len(s) - k = 0
    <3> DEFINE n == Len(s)
    <3>1. n \in Nat /\ k \in 1 .. n /\ \A i \in 1 .. n : s[i] \in S BY <1>1
    <3> HIDE DEF n
    <3>2. k + 1 \in Int /\ n \in Int /\ n - (k + 1) + 1 = n - k BY <3>1
    <3>3. \A i \in k + 1 .. n : i \in 1 .. n BY <3>1
    <3>4. \A i \in 1 .. n - k : k + 1 + i - 1 = k + i BY <3>1
    <3>5. k + 1 <= n \/ n - k = 0 BY <3>1
    <3> QED BY <3>1, <3>2, <3>3, <3>4, <3>5 DEF n
  <2>2. /\ SubSeq(s, k + 1, Len(s)) \in Seq(S)
        /\ Len(SubSeq(s, k + 1, Len(s))) = IF k + 1 <= Len(s) THEN Len(s) - (k + 1) + 1 ELSE 0
        /\ \A i \in 1 .. Len(s) - (k + 1) + 1 :
             SubSeq(s, k + 1, Len(s))[i] = s[k + 1 + i - 1]
    <3> DEFINE m == k + 1
               n == Len(s)
    <3>1. m \in Int /\ n \in Int /\ \A i \in m .. n : s[i] \in S BY <2>1
    <3> HIDE DEF m, n
    <3>2. /\ SubSeq(s, m, n) \in Seq(S)
          /\ Len(SubSeq(s, m, n)) = IF m <= n THEN n - m + 1 ELSE 0
          /\ \A i \in 1 .. n - m + 1 : SubSeq(s, m, n)[i] = s[m + i - 1]
      BY <3>1, SubSeqProperties
    <3> QED BY <3>2 DEF m, n
  <2>3. Len(SubSeq(s, k + 1, Len(s))) = Len(s) - k BY <1>1, <2>1, <2>2
  <2>4. \A i \in 1 .. Len(s) - k : SubSeq(s, k + 1, Len(s))[i] = s[k + i] BY <2>1, <2>2
  <2> QED BY <2>2, <2>3, <2>4
<1> HIDE DEF before, after
<1>4. /\ before \o after \in Seq(S)
      /\ Len(before \o after) = Len(s) - 1
      /\ \A i \in 1 .. Len(s) - 1 :
           (before \o after)[i] = IF i <= k - 1 THEN before[i] ELSE after[i - (k - 1)]
  <2>1. Len(before) + Len(after) = Len(s) - 1 BY <1>1, <1>2, <1>3
  <2>2. /\ before \o after \in Seq(S)
        /\ Len(before \o after) = Len(before) + Len(after)
        /\ \A i \in 1 .. Len(before) + Len(after) :
             (before \o after)[i] = IF i <= Len(before) THEN before[i] ELSE after[i - Len(before)]
    BY <1>2, <1>3, ConcatProperties
  <2>3. Len(before) = k - 1 BY <1>2
  <2> QED BY <2>1, <2>2, <2>3, Zenon
<1>5. ASSUME NEW i \in 1 .. Len(s) - 1
      PROVE  (before \o after)[i] = IF i < k THEN s[i] ELSE s[i + 1]
  <2>1. CASE i < k
    <3>1. i <= k - 1 /\ i \in 1 .. k - 1 BY <1>1, <2>1
    <3> QED BY <1>2, <1>4, <2>1, <3>1
  <2>2. CASE ~(i < k)
    <3>1. ~(i <= k - 1) /\ i - (k - 1) \in 1 .. Len(s) - k /\ k + (i - (k - 1)) = i + 1
      BY <1>1, <2>2
    <3>2. after[i - (k - 1)] = s[k + (i - (k - 1))] BY <1>3, <3>1
    <3> QED BY <1>4, <2>2, <3>1, <3>2
  <2> QED BY <2>1, <2>2
<1>6. RemoveAt(s, k) = before \o after BY DEF RemoveAt, before, after
<1> QED BY <1>4, <1>5, <1>6

-----------------------------------------------------------------------------
(***************************************************************************)
(* Loads that overtake each other.                                         *)
(***************************************************************************)
\* The last load that was not passed is a good one, and what is shown fits
\* once there is none.
Follows(sent, Good, fits) ==
    /\ \A k \in DOMAIN sent :
         (~sent[k].passed /\ \A j \in DOMAIN sent : k < j => sent[j].passed)
           => sent[k] \in Good
    /\ (\A k \in DOMAIN sent : sent[k].passed) => fits

\* Records that tell whether they were passed.
Passable(S) ==
    \A r \in S : /\ r.passed \in BOOLEAN /\ [r EXCEPT !.passed = r.passed] = r
                 /\ \A b \in BOOLEAN : /\ [r EXCEPT !.passed = b] \in S
                                       /\ [r EXCEPT !.passed = b].passed = b

\* What remains once the i-th answer has come.
Remaining(sent, i) ==
    [j \in 1 .. Len(sent) - 1 |->
       IF j >= i THEN sent[j + 1] ELSE [sent[j] EXCEPT !.passed = @ \/ ~sent[i].passed]]

\* A load is sent: a good one, or one that is known to be passed.
LEMMA LoadSent ==
  ASSUME NEW S, NEW sent \in Seq(S), NEW new \in S, NEW Good, NEW fits,
         \/ ~new.passed /\ new \in Good
         \/ new.passed /\ Follows(sent, Good, fits)
  PROVE  Append(sent, new) \in Seq(S) /\ Follows(Append(sent, new), Good, fits)
<1> DEFINE all == Append(sent, new)
           n == Len(sent)
<1>1. n \in Nat /\ DOMAIN sent = 1 .. n /\ \A k \in 1 .. n : sent[k] \in S
  BY LenProperties, ElementOfSeq
<1>2. all \in Seq(S) /\ DOMAIN all = 1 .. n + 1 /\ all[n + 1] = new
      /\ \A k \in 1 .. n : all[k] = sent[k]
  BY AppendProperties, LenProperties
<1> HIDE DEF all, n
<1>3. n + 1 \in DOMAIN all /\ \A k \in DOMAIN all : k \in 1 .. n \/ k = n + 1
  BY <1>1, <1>2
<1>4. ASSUME NEW k \in DOMAIN all, ~all[k].passed, \A j \in DOMAIN all : k < j => all[j].passed
      PROVE  all[k] \in Good
  <2>1. CASE k = n + 1 BY <1>2, <1>4, <2>1
  <2>2. CASE k \in 1 .. n
    <3>1. k < n + 1 /\ new.passed BY <1>1, <1>2, <1>3, <1>4, <2>2
    <3>2. Follows(sent, Good, fits) BY <3>1
    <3>3. \A j \in DOMAIN sent : k < j => sent[j].passed BY <1>1, <1>2, <1>3, <1>4
    <3> QED BY <1>1, <1>2, <1>4, <2>2, <3>2, <3>3 DEF Follows
  <2> QED BY <1>3, <2>1, <2>2
<1>5. ASSUME \A k \in DOMAIN all : all[k].passed PROVE fits
  <2>1. new.passed BY <1>2, <1>3, <1>5
  <2>2. \A k \in DOMAIN sent : sent[k].passed BY <1>1, <1>2, <1>3, <1>5
  <2> QED BY <2>1, <2>2 DEF Follows
<1>6. Follows(all, Good, fits) BY <1>4, <1>5 DEF Follows
<1> QED BY <1>2, <1>6 DEF all

\* The i-th answer comes, and passes the sent before it if it was not passed.
LEMMA LoadAnswered ==
  ASSUME NEW S, Passable(S), NEW sent \in Seq(S), NEW i \in DOMAIN sent, NEW Good,
         NEW fits \in BOOLEAN, NEW fitsThen \in BOOLEAN, Follows(sent, Good, fits),
         (sent[i].passed /\ fits) => fitsThen,
         (~sent[i].passed /\ sent[i] \in Good) => fitsThen
  PROVE  Remaining(sent, i) \in Seq(S) /\ Follows(Remaining(sent, i), Good, fitsThen)
<1> DEFINE n == Len(sent)
           rest == Remaining(sent, i)
<1>1. n \in Nat /\ DOMAIN sent = 1 .. n /\ i \in 1 .. n /\ \A k \in 1 .. n : sent[k] \in S
  BY LenProperties, ElementOfSeq
<1> HIDE DEF n
<1>2. \A j \in 1 .. n - 1 : j \in 1 .. n /\ j + 1 \in 1 .. n /\ (j >= i \/ j < i)
  BY <1>1
<1> DEFINE marked(j) == [sent[j] EXCEPT !.passed = sent[j].passed \/ ~sent[i].passed]
<1>3. \A j \in 1 .. n : /\ marked(j) \in S
                        /\ marked(j).passed = (sent[j].passed \/ ~sent[i].passed)
                        /\ sent[i].passed => marked(j) = sent[j]
  <2>1. ASSUME NEW j \in 1 .. n
        PROVE  /\ marked(j) \in S /\ marked(j).passed = (sent[j].passed \/ ~sent[i].passed)
    <3> DEFINE b == sent[j].passed \/ ~sent[i].passed
    <3>1. b \in BOOLEAN OBVIOUS
    <3> HIDE DEF b
    <3>2. [sent[j] EXCEPT !.passed = b] \in S /\ [sent[j] EXCEPT !.passed = b].passed = b
      BY <1>1, <3>1 DEF Passable
    <3> QED BY <3>2 DEF b
  <2>2. ASSUME NEW j \in 1 .. n, sent[i].passed PROVE marked(j) = sent[j]
    <3>1. sent[j] \in S /\ sent[j].passed \in BOOLEAN BY <1>1 DEF Passable
    <3>2. (sent[j].passed \/ ~sent[i].passed) = sent[j].passed BY <3>1, <2>2
    <3>3. marked(j) = [sent[j] EXCEPT !.passed = sent[j].passed] BY <3>2
    <3> QED BY <3>1, <3>3 DEF Passable
  <2> QED BY <2>1, <2>2
<1>4. /\ DOMAIN rest = 1 .. n - 1
      /\ \A j \in 1 .. n - 1 : rest[j] = IF j >= i THEN sent[j + 1] ELSE marked(j)
  BY DEF n, Remaining
<1> HIDE DEF marked, rest
<1>5. rest \in Seq(S)
  <2>1. rest \in [1 .. n - 1 -> S]
    <3>1. \A j \in 1 .. n - 1 : rest[j] \in S BY <1>1, <1>2, <1>3, <1>4
    <3>2. rest = [j \in 1 .. n - 1 |-> rest[j]]
      BY <1>4 DEF n, rest, Remaining
    <3> QED BY <3>1, <3>2
  <2>2. n - 1 \in Nat BY <1>1
  <2> QED BY <2>1, <2>2, SeqDef
<1>6. ASSUME NEW k \in DOMAIN rest, ~rest[k].passed, \A j \in DOMAIN rest : k < j => rest[j].passed
      PROVE  rest[k] \in Good
  <2> DEFINE e == IF k >= i THEN k + 1 ELSE k
  <2>1. k \in 1 .. n - 1 /\ e \in 1 .. n BY <1>2, <1>4, <1>6
  <2>2. rest[k] = sent[e]
    <3>1. CASE k >= i BY <1>4, <2>1, <3>1
    <3>2. CASE ~(k >= i)
      <4>1. rest[k] = marked(k) /\ k \in 1 .. n BY <1>2, <1>4, <2>1, <3>2
      <4>2. sent[i].passed BY <1>3, <1>6, <4>1
      <4> QED BY <1>3, <3>2, <4>1, <4>2
    <3> QED BY <3>1, <3>2
  <2>3. ASSUME NEW m \in 1 .. n, e < m PROVE sent[m].passed
    <3>1. CASE m = i
      <4>1. ~(k >= i) BY <1>1, <2>1, <2>3, <3>1
      <4>2. rest[k] = marked(k) /\ k \in 1 .. n BY <1>2, <1>4, <2>1, <4>1
      <4> QED BY <1>3, <1>6, <3>1, <4>2
    <3>2. CASE m > i
      <4>1. m - 1 \in 1 .. n - 1 /\ m - 1 >= i /\ m - 1 + 1 = m /\ k < m - 1
        BY <1>1, <2>1, <2>3, <3>2
      <4>2. rest[m - 1] = sent[m] BY <1>4, <4>1
      <4> QED BY <1>4, <1>6, <4>1, <4>2
    <3>3. CASE m < i
      <4>1. m \in 1 .. n - 1 /\ ~(m >= i) /\ k < m /\ ~(k >= i)
        BY <1>1, <2>1, <2>3, <3>3
      <4>2. rest[m] = marked(m) /\ rest[m].passed BY <1>4, <1>6, <4>1
      <4>3. rest[k] = marked(k) /\ k \in 1 .. n BY <1>2, <1>4, <2>1, <4>1
      <4>4. sent[i].passed BY <1>3, <1>6, <4>3
      <4> QED BY <1>3, <2>3, <4>2, <4>4
    <3> QED BY <1>1, <3>1, <3>2, <3>3
  <2>4. ~sent[e].passed BY <1>6, <2>2
  <2> HIDE DEF e
  <2> QED BY <1>1, <2>1, <2>2, <2>3, <2>4 DEF Follows
<1>7. ASSUME \A k \in DOMAIN rest : rest[k].passed PROVE fitsThen
  <2>1. \A m \in 1 .. n : i < m => sent[m].passed
    <3>1. ASSUME NEW m \in 1 .. n, i < m PROVE sent[m].passed
      <4>1. m - 1 \in 1 .. n - 1 /\ m - 1 >= i /\ m - 1 + 1 = m BY <1>1, <3>1
      <4>2. rest[m - 1] = sent[m] BY <1>4, <4>1
      <4> QED BY <1>4, <1>7, <4>1, <4>2
    <3> QED BY <3>1
  <2>2. CASE ~sent[i].passed
    <3>1. sent[i] \in Good BY <1>1, <2>1, <2>2 DEF Follows
    <3> QED BY <2>2, <3>1
  <2>3. CASE sent[i].passed
    <3>1. ASSUME NEW m \in 1 .. n, m < i PROVE sent[m].passed
      <4>1. m \in 1 .. n - 1 /\ ~(m >= i) BY <1>1, <3>1
      <4>2. rest[m] = marked(m) /\ rest[m].passed BY <1>4, <1>7, <4>1
      <4> QED BY <1>3, <2>3, <3>1, <4>2
    <3>2. \A m \in 1 .. n : m < i \/ m = i \/ i < m BY <1>1
    <3>3. \A m \in DOMAIN sent : sent[m].passed BY <1>1, <2>1, <2>3, <3>1, <3>2
    <3> QED BY <2>3, <3>3 DEF Follows
  <2> QED BY <2>2, <2>3
<1> QED BY <1>5, <1>6, <1>7 DEF Follows, rest

\* Of one load, a good one that is not passed.
LEMMA FirstLoad ==
  ASSUME NEW S, NEW new \in S, NEW Good, new \in Good, ~new.passed, NEW fits
  PROVE  <<new>> \in Seq(S) /\ Follows(<<new>>, Good, fits)
<1>1. DOMAIN <<new>> = {1} /\ <<new>>[1] = new
  OBVIOUS
<1> QED BY <1>1 DEF Follows

\* Answers leave loads.
LEMMA LoadsRemain ==
  ASSUME NEW S, Passable(S), NEW sent \in Seq(S), NEW i \in DOMAIN sent
  PROVE  Remaining(sent, i) \in Seq(S)
<1>1. Follows(sent, S, TRUE)
  BY LenProperties, ElementOfSeq DEF Follows
<1> QED BY <1>1, LoadAnswered

-----------------------------------------------------------------------------
(***************************************************************************)
(* The drawer of mappings.                                                 *)
(***************************************************************************)
DrawerState ==
    [current : Relatives \cup {Nothing}, open : BOOLEAN,
     related : [of : Relatives \cup {Nothing}, children : SUBSET Relatives],
     adding : BOOLEAN, typed : Searches, search : Searches,
     candidates : [search : Searches \cup {Nothing}, programs : SUBSET Relatives],
     loading : BOOLEAN]

LoadOfMappings == [kind : {"view", "refresh"}, of : Relatives, served : BOOLEAN,
                   children : SUBSET Relatives, passed : BOOLEAN]
RowOfMapping == [parent : Relatives, child : Relatives, deleted : BOOLEAN]
NewRow == [parent : Relatives, child : Relatives, deleted : {FALSE}]
ChangeOfMapping == [kind : {"delete", "add"}, of : Relatives, row : NewRow, found : BOOLEAN,
                    served : BOOLEAN]

\* A drawer, and a request about mappings, is for a program.
RelationsTypes ==
    /\ drawer \in DrawerState
    /\ candidateLoads \subseteq [search : Searches, cancelled : BOOLEAN]
    /\ mapped \subseteq RowOfMapping
    /\ disturbed \in BOOLEAN
    /\ mappingLoads \in Seq(LoadOfMappings) /\ remapping \in Seq(ChangeOfMapping)
    /\ (drawer.open \/ drawer.adding \/ mappingLoads # <<>> \/ remapping # <<>>) =>
          drawer.current \in Relatives
    /\ drawer.related.children # {} => drawer.related.of \in Relatives

\* What comes for the dialog is what it searches; for a closed one nothing does.
DialogInv ==
    /\ \A c \in candidateLoads : ~c.cancelled => drawer.adding /\ c.search = drawer.search
    /\ ~Awaited => drawer.candidates.search \in {drawer.search, Nothing}
    /\ ~drawer.adding => drawer.candidates = NoCandidates

\* A change that the server has made, and its load is still to be sent.
Remapped == \E j \in DOMAIN remapping : remapping[j].served

\* A load that shows the mappings of now, or will read them.
UpToDate == {l \in LoadOfMappings : ~l.served \/ l.children = Children(l.of)}

RelatedFits == (drawer.open /\ ~disturbed) => drawer.related = Mappings(drawer.current)

\* The last load not passed is up to date, or a change is about to send another.
DrawerInv == ~Remapped => Follows(mappingLoads, UpToDate, RelatedFits)

RelationsInv == RelationsTypes /\ DialogInv /\ DrawerInv

\* A row is made for two programs, and may be deleted.
LEMMA RowMade ==
  ASSUME NEW p \in Relatives, NEW c \in Relatives
  PROVE  Mapping(p, c) \in RowOfMapping /\ Mapping(p, c) \in NewRow
BY DEF Mapping, RowOfMapping, NewRow

LEMMA RowDeleted ==
  ASSUME NEW r \in NewRow
  PROVE  r \in RowOfMapping /\ [r EXCEPT !.deleted = TRUE] \in RowOfMapping
BY DEF RowOfMapping, NewRow

LEMMA RelationsStart == RelationsInit => RelationsInv
<1> SUFFICES ASSUME RelationsInit PROVE RelationsInv
  OBVIOUS
<1>1. RelationsTypes
  <2>1. /\ drawer \in DrawerState /\ ~drawer.open /\ ~drawer.adding
        /\ drawer.related.children = {}
    BY RelationsAssumption DEF RelationsInit, DrawerState, NoMappings, NoCandidates
  <2>2. /\ mappingLoads = <<>> /\ remapping = <<>> /\ candidateLoads = {}
        /\ disturbed = FALSE /\ mapped \subseteq {Mapping(p, c) : p, c \in Relatives}
    BY DEF RelationsInit
  <2>3. <<>> \in Seq(LoadOfMappings) /\ <<>> \in Seq(ChangeOfMapping) OBVIOUS
  <2>4. mapped \subseteq RowOfMapping BY <2>2, RowMade
  <2> QED BY <2>1, <2>2, <2>3, <2>4 DEF RelationsTypes
<1>2. DialogInv
  BY DEF RelationsInit, DialogInv, NoCandidates, Awaited
<1>3. DrawerInv
  BY DEF RelationsInit, DrawerInv, Follows, RelatedFits
<1> QED BY <1>1, <1>2, <1>3 DEF RelationsInv

\* The effect keeps the dialog and its loads together, whatever else changes.
LEMMA EffectOfDialog ==
  ASSUME RelationsInv, NEW new \in DrawerState, CandidatesOf(new),
         new.candidates = drawer.candidates
  PROVE  /\ drawer' \in DrawerState
         /\ candidateLoads' \subseteq [search : Searches, cancelled : BOOLEAN]
         /\ \A d \in {"current", "open", "related", "adding", "search"} : drawer'[d] = new[d]
         /\ DialogInv'
<1> DEFINE dropped == {[c EXCEPT !.cancelled = TRUE] : c \in candidateLoads}
           own == [search |-> new.search, cancelled |-> FALSE]
<1>1. /\ drawer \in DrawerState /\ DialogInv
      /\ candidateLoads \subseteq [search : Searches, cancelled : BOOLEAN]
  BY DEF RelationsInv, RelationsTypes
<1>2. /\ dropped \subseteq [search : Searches, cancelled : BOOLEAN]
      /\ \A c \in dropped : c.cancelled
  BY <1>1
<1>3. CASE /\ <<new.adding, new.current, new.search>>
                = <<drawer.adding, drawer.current, drawer.search>>
           /\ drawer' = new /\ UNCHANGED candidateLoads
  <2>1. new.adding = drawer.adding /\ new.search = drawer.search BY <1>3
  <2>2. DialogInv' BY <1>1, <1>3, <2>1 DEF DialogInv, Awaited
  <2> QED BY <1>1, <1>3, <2>2
<1>4. CASE /\ ~new.adding \/ new.current = Nothing
           /\ drawer' = [new EXCEPT !.candidates = NoCandidates] /\ candidateLoads' = dropped
  <2>1. /\ drawer' \in DrawerState /\ drawer'.candidates = NoCandidates
        /\ \A d \in {"current", "open", "related", "adding", "search"} : drawer'[d] = new[d]
    BY <1>4 DEF DrawerState, NoCandidates
  <2> HIDE DEF dropped
  <2>2. DialogInv' BY <1>2, <1>4, <2>1 DEF DialogInv, NoCandidates
  <2> QED BY <1>2, <1>4, <2>1, <2>2
<1>5. CASE /\ new.adding
           /\ drawer' = new /\ candidateLoads' = dropped \cup {own}
  <2>1. own \in [search : Searches, cancelled : BOOLEAN] BY DEF DrawerState
  <2>2. ~own.cancelled /\ own.search = new.search OBVIOUS
  <2> HIDE DEF dropped, own
  <2>3. Awaited' BY <1>5, <2>2 DEF Awaited
  <2>4. DialogInv' BY <1>2, <1>5, <2>2, <2>3 DEF DialogInv
  <2> QED BY <1>2, <1>5, <2>1, <2>4
<1> QED BY <1>3, <1>4, <1>5 DEF CandidatesOf

-----------------------------------------------------------------------------
\* The loads of the drawer tell whether they were passed,
LEMMA MappingsPassable == Passable(LoadOfMappings)
<1> SUFFICES ASSUME NEW r \in LoadOfMappings
             PROVE  /\ r.passed \in BOOLEAN /\ [r EXCEPT !.passed = r.passed] = r
                    /\ \A b \in BOOLEAN : /\ [r EXCEPT !.passed = b] \in LoadOfMappings
                                          /\ [r EXCEPT !.passed = b].passed = b
  BY DEF Passable
<1> QED BY DEF LoadOfMappings

\* to mark one as passed leaves the rest of it,
LEMMA MarkedLoad ==
  ASSUME NEW r \in LoadOfMappings, NEW b \in BOOLEAN
  PROVE  /\ [r EXCEPT !.passed = b] \in LoadOfMappings /\ [r EXCEPT !.passed = b].passed = b
         /\ [r EXCEPT !.passed = b].served = r.served
BY DEF LoadOfMappings

\* a new one has nothing yet,
LEMMA MappingLoadMade ==
  ASSUME NEW kind \in {"view", "refresh"}, NEW p \in Relatives
  PROVE  /\ MappingLoad(kind, p) \in LoadOfMappings
         /\ ~MappingLoad(kind, p).served /\ ~MappingLoad(kind, p).passed
BY DEF MappingLoad, LoadOfMappings

\* and reading makes it up to date.
LEMMA MappingsRead ==
  ASSUME RelationsTypes, NEW l \in LoadOfMappings
  PROVE  LET r == [l EXCEPT !.served = TRUE, !.children = Children(l.of)] IN
         r \in UpToDate /\ r \in LoadOfMappings /\ r.passed = l.passed
<1> DEFINE r == [l EXCEPT !.served = TRUE, !.children = Children(l.of)]
<1>1. Children(l.of) \subseteq Relatives
  BY DEF RelationsTypes, Children, RowOfMapping
<1> DEFINE read == Children(l.of)
<1> HIDE DEF read
<1>2. [l EXCEPT !.served = TRUE, !.children = read] \in LoadOfMappings
  BY <1>1 DEF LoadOfMappings, read
<1>3. /\ [l EXCEPT !.served = TRUE, !.children = read].passed = l.passed
      /\ [l EXCEPT !.served = TRUE, !.children = read].of = l.of
      /\ [l EXCEPT !.served = TRUE, !.children = read].children = read
  BY DEF LoadOfMappings
<1> QED BY <1>2, <1>3 DEF UpToDate, read

\* What is up to date changes with the mappings only.
LEMMA UpToDateRemains ==
  UNCHANGED mapped => UpToDate' = UpToDate /\ \A p : Mappings(p)' = Mappings(p)
BY DEF UpToDate, Mappings, Children

\* A step that sends and answers no load, and changes no mapping and not what the
\* drawer shows.
LEMMA DrawerRemains ==
  ASSUME RelationsInv, UNCHANGED <<mappingLoads, mapped>>, Remapped => Remapped',
         RelatedFits => RelatedFits'
  PROVE  DrawerInv'
<1>1. UpToDate' = UpToDate BY UpToDateRemains
<1> QED BY <1>1 DEF RelationsInv, DrawerInv, Follows

\* A load that is sent is the last one.
LEMMA MappingsSent ==
  ASSUME RelationsTypes, NEW kind \in {"view", "refresh"}, NEW p \in Relatives,
         LoadMappings(kind, p)
  PROVE  mappingLoads' \in Seq(LoadOfMappings) /\ DrawerInv'
<1> DEFINE new == MappingLoad(kind, p)
<1>1. new \in LoadOfMappings /\ ~new.served /\ ~new.passed BY MappingLoadMade
<1>2. mappingLoads' = Append(mappingLoads, new) BY DEF LoadMappings
<1> HIDE DEF new
<1>3. new \in UpToDate' BY <1>1 DEF UpToDate
<1>4. mappingLoads \in Seq(LoadOfMappings) BY DEF RelationsTypes
<1>5. /\ Append(mappingLoads, new) \in Seq(LoadOfMappings)
      /\ Follows(Append(mappingLoads, new), UpToDate', RelatedFits')
  <2> DEFINE good == UpToDate'
             fit == RelatedFits'
  <2>1. new \in good BY <1>3
  <2> HIDE DEF good, fit
  <2>2. /\ Append(mappingLoads, new) \in Seq(LoadOfMappings)
        /\ Follows(Append(mappingLoads, new), good, fit)
    BY <1>1, <1>4, <2>1, LoadSent
  <2> QED BY <2>2 DEF good, fit
<1> QED BY <1>2, <1>5 DEF DrawerInv, Follows

\* A load that ends leaves those sent after it, and passes those sent before.
LEMMA MappingsEnd ==
  ASSUME RelationsInv, NEW i \in DOMAIN mappingLoads, mappingLoads' = MappingsEnded(i),
         UNCHANGED <<remapping, mapped>>, RelatedFits' \in BOOLEAN,
         mappingLoads[i].passed /\ RelatedFits => RelatedFits',
         ~mappingLoads[i].passed /\ mappingLoads[i] \in UpToDate => RelatedFits'
  PROVE  mappingLoads' \in Seq(LoadOfMappings) /\ DrawerInv'
<1>1. mappingLoads \in Seq(LoadOfMappings) BY DEF RelationsInv, RelationsTypes
<1>2. MappingsEnded(i) = Remaining(mappingLoads, i) BY DEF MappingsEnded, Remaining
<1>3. mappingLoads' \in Seq(LoadOfMappings) BY <1>1, <1>2, MappingsPassable, LoadsRemain
<1>4. Remapped' = Remapped BY DEF Remapped
<1>5. ASSUME ~Remapped PROVE Follows(mappingLoads', UpToDate, RelatedFits')
  <2>1. Follows(mappingLoads, UpToDate, RelatedFits) BY <1>5 DEF RelationsInv, DrawerInv
  <2>2. RelatedFits \in BOOLEAN BY DEF RelatedFits
  <2> DEFINE fit == RelatedFits
             fitThen == RelatedFits'
  <2>3. /\ fit \in BOOLEAN /\ fitThen \in BOOLEAN /\ Follows(mappingLoads, UpToDate, fit)
        /\ (mappingLoads[i].passed /\ fit) => fitThen
        /\ (~mappingLoads[i].passed /\ mappingLoads[i] \in UpToDate) => fitThen
    BY <2>1, <2>2
  <2> HIDE DEF fit, fitThen
  <2>4. Follows(Remaining(mappingLoads, i), UpToDate, fitThen)
    BY <1>1, <2>3, MappingsPassable, LoadAnswered
  <2> QED BY <1>2, <2>4 DEF fitThen
<1>6. UpToDate' = UpToDate BY UpToDateRemains
<1> QED BY <1>3, <1>4, <1>5, <1>6 DEF DrawerInv, Follows

\* A request for a change that ends leaves the others.
LEMMA RemappingEnds ==
  ASSUME RelationsTypes, NEW i \in DOMAIN remapping, remapping' = RemoveAt(remapping, i)
  PROVE  /\ remapping' \in Seq(ChangeOfMapping)
         /\ remapping[i] \in ChangeOfMapping
         /\ Remapped /\ ~remapping[i].served => Remapped'
<1>1. remapping \in Seq(ChangeOfMapping) BY DEF RelationsTypes
<1>2. /\ Len(remapping) \in Nat /\ DOMAIN remapping = 1 .. Len(remapping)
      /\ \A j \in DOMAIN remapping : remapping[j] \in ChangeOfMapping
  BY <1>1, LenProperties, ElementOfSeq
<1>3. /\ remapping' \in Seq(ChangeOfMapping) /\ Len(remapping') = Len(remapping) - 1
      /\ \A j \in 1 .. Len(remapping) - 1 :
           remapping'[j] = IF j < i THEN remapping[j] ELSE remapping[j + 1]
  BY <1>1, RemovedElement
<1>4. DOMAIN remapping' = 1 .. Len(remapping) - 1 BY <1>3, LenProperties
<1>5. ASSUME NEW j \in DOMAIN remapping, remapping[j].served, ~remapping[i].served
      PROVE  Remapped'
  <2>1. j # i BY <1>5
  <2>2. CASE j < i
    <3>1. j \in 1 .. Len(remapping) - 1 BY <1>2, <2>2
    <3> QED BY <1>3, <1>4, <1>5, <2>2, <3>1 DEF Remapped
  <2>3. CASE j > i
    <3>1. j - 1 \in 1 .. Len(remapping) - 1 /\ ~(j - 1 < i) /\ j - 1 + 1 = j BY <1>2, <2>3
    <3>2. remapping'[j - 1] = remapping[j] BY <1>3, <3>1
    <3> QED BY <1>4, <1>5, <3>1, <3>2 DEF Remapped
  <2> QED BY <1>2, <2>1, <2>2, <2>3
<1> QED BY <1>2, <1>3, <1>5 DEF Remapped

-----------------------------------------------------------------------------
\* Steps of the dialog leave the drawer and its requests.
LEMMA DialogStep ==
  ASSUME RelationsInv, NEW new \in DrawerState, CandidatesOf(new),
         new.candidates = drawer.candidates, new.open = drawer.open,
         new.current = drawer.current, new.related = drawer.related,
         new.adding => drawer.open \/ drawer.adding,
         UNCHANGED mappingVars
  PROVE  RelationsInv'
<1>1. /\ drawer' \in DrawerState /\ DialogInv'
      /\ candidateLoads' \subseteq [search : Searches, cancelled : BOOLEAN]
      /\ \A d \in {"current", "open", "related", "adding", "search"} : drawer'[d] = new[d]
  BY EffectOfDialog
<1>2. /\ drawer'.open = drawer.open /\ drawer'.current = drawer.current
      /\ drawer'.related = drawer.related /\ drawer'.adding = new.adding
  BY <1>1
<1>3. UNCHANGED <<remapping, mappingLoads, mapped, disturbed>> BY DEF mappingVars
<1>4. RelationsTypes' BY <1>1, <1>2, <1>3 DEF RelationsInv, RelationsTypes
<1>5. RelatedFits => RelatedFits' BY <1>2, <1>3, UpToDateRemains DEF RelatedFits, Mappings, Children
<1>6. Remapped => Remapped' BY <1>3 DEF Remapped
<1>7. DrawerInv' BY <1>3, <1>5, <1>6, DrawerRemains
<1> QED BY <1>1, <1>4, <1>7 DEF RelationsInv

\* One inductive step of the drawer and its dialog.
LEMMA RelationsStep == RelationsInv /\ [RelationsNext]_relationVars => RelationsInv'
<1> SUFFICES ASSUME RelationsInv, [RelationsNext]_relationVars PROVE RelationsInv'
  OBVIOUS
<1>0. /\ RelationsTypes /\ DialogInv /\ DrawerInv
      /\ drawer \in DrawerState
      /\ candidateLoads \subseteq [search : Searches, cancelled : BOOLEAN]
      /\ mapped \subseteq RowOfMapping
      /\ disturbed \in BOOLEAN
      /\ mappingLoads \in Seq(LoadOfMappings) /\ remapping \in Seq(ChangeOfMapping)
      /\ (drawer.open \/ drawer.adding \/ mappingLoads # <<>> \/ remapping # <<>>) =>
            drawer.current \in Relatives
      /\ drawer.related.children # {} => drawer.related.of \in Relatives
  BY DEF RelationsInv, RelationsTypes
<1>m. /\ \A i \in DOMAIN mappingLoads : mappingLoads[i] \in LoadOfMappings
      /\ DOMAIN mappingLoads # {} => mappingLoads # <<>>
  BY <1>0, ElementOfSeq, LenProperties
<1>t. ASSUME drawer' \in DrawerState, UNCHANGED candidateLoads,
             drawer'.current = drawer.current, drawer'.adding = drawer.adding,
             drawer'.search = drawer.search, drawer'.candidates = drawer.candidates
      PROVE  DialogInv'
  BY <1>0, <1>t DEF DialogInv, Awaited
<1>1. ASSUME NEW p \in Relatives, OpenElsewhere(p) PROVE RelationsInv'
  <2> DEFINE new == [drawer EXCEPT !.current = p]
  <2>1. /\ new \in DrawerState /\ new.candidates = drawer.candidates
        /\ new.open = drawer.open /\ new.current = p /\ new.related = drawer.related
    BY <1>0 DEF DrawerState
  <2>2. /\ ~drawer.open /\ CandidatesOf(new)
        /\ UNCHANGED <<remapping, mappingLoads, mapped, disturbed>>
    BY <1>1 DEF OpenElsewhere, mappingVars
  <2> HIDE DEF new
  <2>3. /\ drawer' \in DrawerState /\ DialogInv'
        /\ candidateLoads' \subseteq [search : Searches, cancelled : BOOLEAN]
        /\ \A d \in {"current", "open", "related", "adding", "search"} : drawer'[d] = new[d]
    BY <2>1, <2>2, EffectOfDialog
  <2>4. /\ ~drawer'.open /\ drawer'.current \in Relatives /\ drawer'.related = drawer.related
    BY <2>1, <2>2, <2>3
  <2>5. RelationsTypes' BY <1>0, <2>2, <2>3, <2>4 DEF RelationsTypes
  <2>6. RelatedFits' BY <2>4 DEF RelatedFits
  <2>7. Remapped => Remapped' BY <2>2 DEF Remapped
  <2> QED BY <2>2, <2>3, <2>5, <2>6, <2>7, DrawerRemains DEF RelationsInv
<1>2. ASSUME NEW p \in Relatives, HandleViewRelations(p) PROVE RelationsInv'
  <2> DEFINE new == [drawer EXCEPT !.current = p, !.loading = TRUE]
  <2>1. /\ new \in DrawerState /\ new.candidates = drawer.candidates
        /\ new.current = p /\ new.related = drawer.related
    BY <1>0 DEF DrawerState
  <2>2. /\ CandidatesOf(new) /\ UNCHANGED <<remapping, mapped, disturbed>>
        /\ LoadMappings("view", p)
    BY <1>2 DEF HandleViewRelations
  <2> HIDE DEF new
  <2>3. /\ drawer' \in DrawerState /\ DialogInv'
        /\ candidateLoads' \subseteq [search : Searches, cancelled : BOOLEAN]
        /\ \A d \in {"current", "open", "related", "adding", "search"} : drawer'[d] = new[d]
    BY <2>1, <2>2, EffectOfDialog
  <2>4. drawer'.current \in Relatives /\ drawer'.related = drawer.related BY <2>1, <2>3
  <2>5. mappingLoads' \in Seq(LoadOfMappings) /\ DrawerInv' BY <1>0, <2>2, MappingsSent
  <2>6. RelationsTypes' BY <1>0, <2>2, <2>3, <2>4, <2>5 DEF RelationsTypes
  <2> QED BY <2>3, <2>5, <2>6 DEF RelationsInv
<1>3. ASSUME NEW i, ServeMappings(i) PROVE RelationsInv'
  <2> DEFINE l == mappingLoads[i]
             read == [l EXCEPT !.served = TRUE, !.children = Children(l.of)]
  <2>1. /\ i \in DOMAIN mappingLoads /\ mappingLoads' = [mappingLoads EXCEPT ![i] = read]
        /\ UNCHANGED <<drawer, candidateLoads, remapping, mapped, disturbed>>
    BY <1>3 DEF ServeMappings
  <2>2. l \in LoadOfMappings BY <1>m, <2>1
  <2>3. read \in UpToDate /\ read \in LoadOfMappings /\ read.passed = l.passed
    BY <1>0, <2>2, MappingsRead
  <2> HIDE DEF read
  <2>4. /\ mappingLoads' \in Seq(LoadOfMappings) /\ DOMAIN mappingLoads' = DOMAIN mappingLoads
        /\ \A k \in DOMAIN mappingLoads :
             /\ mappingLoads'[k].passed = mappingLoads[k].passed
             /\ mappingLoads'[k] = mappingLoads[k] \/ mappingLoads'[k] \in UpToDate
    <3>1. /\ DOMAIN mappingLoads' = DOMAIN mappingLoads
          /\ \A k \in DOMAIN mappingLoads :
               mappingLoads'[k] = IF k = i THEN read ELSE mappingLoads[k]
      BY <2>1
    <3>2. mappingLoads' \in Seq(LoadOfMappings) BY <1>0, <2>1, <2>3, ExceptSeq
    <3> QED BY <2>1, <2>3, <3>1, <3>2
  <2>5. UpToDate' = UpToDate BY <2>1, UpToDateRemains
  <2>6. RelatedFits' = RelatedFits BY <2>1 DEF RelatedFits, Mappings, Children
  <2>7. Remapped' = Remapped BY <2>1 DEF Remapped
  <2>8. DrawerInv'
    <3>1. ASSUME Follows(mappingLoads, UpToDate, RelatedFits)
          PROVE  Follows(mappingLoads', UpToDate, RelatedFits)
      BY <2>4, <3>1 DEF Follows
    <3> QED BY <1>0, <2>5, <2>6, <2>7, <3>1 DEF DrawerInv, Follows
  <2>9. RelationsTypes' BY <1>0, <1>m, <2>1, <2>4 DEF RelationsTypes
  <2> QED BY <1>0, <1>t, <2>1, <2>8, <2>9 DEF RelationsInv
<1>4. ASSUME NEW i, MappingsAnswered(i) PROVE RelationsInv'
  <2> DEFINE l == mappingLoads[i]
             related == Read(l)
  <2>1. /\ i \in DOMAIN mappingLoads /\ l.served /\ mappingLoads' = MappingsEnded(i)
        /\ disturbed' = (l.passed \/ l.of # drawer.current)
        /\ UNCHANGED <<candidateLoads, remapping, mapped>>
    BY <1>4 DEF MappingsAnswered
  <2>2. /\ l \in LoadOfMappings /\ mappingLoads # <<>> /\ l.passed \in BOOLEAN
        /\ related \in [of : Relatives, children : SUBSET Relatives]
    BY <1>m, <2>1 DEF LoadOfMappings, Read
  <2>3. \/ drawer' = [drawer EXCEPT !.related = related]
        \/ drawer' = [drawer EXCEPT !.related = related, !.open = TRUE, !.loading = FALSE]
    BY <1>4, Zenon DEF MappingsAnswered
  <2>4. /\ drawer' \in DrawerState /\ drawer'.related = related
        /\ drawer'.current = drawer.current /\ drawer'.adding = drawer.adding
        /\ drawer'.search = drawer.search /\ drawer'.candidates = drawer.candidates
    <3> HIDE DEF related
    <3> QED BY <1>0, <2>2, <2>3 DEF DrawerState
  <2>5. RelatedFits' \in BOOLEAN BY DEF RelatedFits
  <2>6. l.passed => RelatedFits' BY <2>1 DEF RelatedFits
  <2>7. ~l.passed /\ l \in UpToDate => RelatedFits'
    <3> SUFFICES ASSUME l \in UpToDate, ~disturbed'
                 PROVE  (drawer.related = Mappings(drawer.current))'
      BY DEF RelatedFits
    <3>1. l.children = Children(l.of) /\ l.of = drawer.current BY <2>1 DEF UpToDate
    <3>2. related = Mappings(drawer.current) BY <3>1 DEF Read, Mappings
    <3> QED BY <2>1, <2>4, <3>2 DEF Mappings, Children
  <2>8. mappingLoads' \in Seq(LoadOfMappings) /\ DrawerInv'
    BY <2>1, <2>5, <2>6, <2>7, MappingsEnd
  <2>9. RelationsTypes' BY <1>0, <2>1, <2>2, <2>4, <2>8 DEF RelationsTypes
  <2> QED BY <1>t, <2>1, <2>4, <2>8, <2>9 DEF RelationsInv
<1>5. ASSUME NEW i, MappingsFailed(i) PROVE RelationsInv'
  <2> DEFINE l == mappingLoads[i]
  <2>1. /\ i \in DOMAIN mappingLoads /\ mappingLoads' = MappingsEnded(i)
        /\ UNCHANGED <<candidateLoads, remapping, mapped>>
        /\ disturbed' = (disturbed \/ l.kind = "view" \/ ~l.passed)
    BY <1>5 DEF MappingsFailed
  <2>2. l \in LoadOfMappings /\ mappingLoads # <<>> BY <1>m, <2>1
  <2>3. \/ drawer' = [drawer EXCEPT !.related = NoMappings, !.loading = FALSE] /\ disturbed'
        \/ drawer' = drawer /\ disturbed' = (disturbed \/ ~l.passed)
    BY <1>5, <2>1 DEF MappingsFailed
  <2>4. /\ drawer' \in DrawerState /\ drawer'.open = drawer.open
        /\ drawer'.related.children # {} => drawer'.related.of \in Relatives
        /\ drawer'.current = drawer.current /\ drawer'.adding = drawer.adding
        /\ drawer'.search = drawer.search /\ drawer'.candidates = drawer.candidates
    <3>1. CASE drawer' = [drawer EXCEPT !.related = NoMappings, !.loading = FALSE]
      <4>1. NoMappings \in [of : Relatives \cup {Nothing}, children : SUBSET Relatives]
        BY DEF NoMappings
      <4>2. /\ drawer' \in DrawerState /\ drawer'.open = drawer.open
            /\ drawer'.current = drawer.current /\ drawer'.adding = drawer.adding
            /\ drawer'.search = drawer.search /\ drawer'.candidates = drawer.candidates
            /\ drawer'.related = NoMappings
        BY <1>0, <3>1, <4>1 DEF DrawerState
      <4>3. NoMappings.children = {} BY DEF NoMappings
      <4> QED BY <4>2, <4>3
    <3>2. CASE drawer' = drawer BY <1>0, <3>2
    <3> QED BY <2>3, <3>1, <3>2
  <2>5. RelatedFits' \in BOOLEAN BY DEF RelatedFits
  <2>6. (l.passed /\ RelatedFits) \/ (~l.passed /\ l \in UpToDate) => RelatedFits'
    BY <2>1, <2>3, <2>4 DEF RelatedFits, Mappings, Children
  <2>7. mappingLoads' \in Seq(LoadOfMappings) /\ DrawerInv'
    BY <2>1, <2>5, <2>6, MappingsEnd
  <2>8. disturbed' \in BOOLEAN BY <1>0, <2>1
  <2>9. RelationsTypes' BY <1>0, <2>1, <2>2, <2>4, <2>7, <2>8 DEF RelationsTypes
  <2> QED BY <1>t, <2>1, <2>4, <2>7, <2>9 DEF RelationsInv
<1>6. CASE CloseDrawer
  <2>1. /\ drawer' \in DrawerState /\ ~drawer'.open /\ drawer'.related = drawer.related
        /\ drawer'.current = drawer.current /\ drawer'.adding = drawer.adding
        /\ drawer'.search = drawer.search /\ drawer'.candidates = drawer.candidates
    BY <1>0, <1>6 DEF CloseDrawer, DrawerState
  <2>2. UNCHANGED <<candidateLoads, remapping, mappingLoads, mapped, disturbed>>
    BY <1>6 DEF CloseDrawer, mappingVars
  <2>3. RelatedFits' BY <2>1 DEF RelatedFits
  <2>4. Remapped => Remapped' BY <2>2 DEF Remapped
  <2>5. RelationsTypes' BY <1>0, <2>1, <2>2 DEF RelationsTypes
  <2> QED BY <1>t, <2>1, <2>2, <2>3, <2>4, <2>5, DrawerRemains DEF RelationsInv
<1>7. ASSUME NEW p \in Relatives, HandleDeleteRelation(p) \/ HandleAddRelation(p)
      PROVE  RelationsInv'
  <2>1. PICK new \in ChangeOfMapping : remapping' = Append(remapping, new)
    <3>1. CASE HandleDeleteRelation(p)
      <4>1. /\ drawer.open /\ p \in drawer.related.children
            /\ remapping' = Append(remapping, [kind |-> "delete", of |-> drawer.current,
                 row |-> Mapping(drawer.related.of, p), found |-> FALSE, served |-> FALSE])
        BY <3>1 DEF HandleDeleteRelation, Remap
      <4>2. Mapping(drawer.related.of, p) \in NewRow BY <1>0, <4>1, RowMade
      <4> QED BY <1>0, <4>1, <4>2 DEF ChangeOfMapping
    <3>2. CASE HandleAddRelation(p)
      <4>1. /\ drawer.adding
            /\ remapping' = Append(remapping, [kind |-> "add", of |-> drawer.current,
                 row |-> Mapping(drawer.current, p), found |-> FALSE, served |-> FALSE])
        BY <3>2 DEF HandleAddRelation, Remap
      <4>2. Mapping(drawer.current, p) \in NewRow BY <1>0, <4>1, RowMade
      <4> QED BY <1>0, <4>1, <4>2 DEF ChangeOfMapping
    <3> QED BY <1>7, <3>1, <3>2
  <2>2. /\ UNCHANGED <<drawer, candidateLoads, mappingLoads, mapped, disturbed>>
        /\ drawer.open \/ drawer.adding
    BY <1>7 DEF HandleDeleteRelation, HandleAddRelation
  <2>3. /\ remapping' \in Seq(ChangeOfMapping)
        /\ \A j \in DOMAIN remapping : j \in DOMAIN remapping' /\ remapping'[j] = remapping[j]
    BY <1>0, <2>1, AppendProperties, LenProperties
  <2>4. Remapped => Remapped' BY <2>3 DEF Remapped
  <2>5. RelatedFits => RelatedFits' BY <2>2 DEF RelatedFits, Mappings, Children
  <2>6. RelationsTypes' BY <1>0, <2>2, <2>3 DEF RelationsTypes
  <2> QED BY <1>0, <1>t, <2>2, <2>4, <2>5, <2>6, DrawerRemains DEF RelationsInv
<1>f. ASSUME NEW i, FindMapping(i) PROVE RelationsInv'
  <2> DEFINE r == remapping[i]
             seen == [r EXCEPT !.found = TRUE]
  <2>1. /\ i \in DOMAIN remapping /\ remapping' = [remapping EXCEPT ![i] = seen]
        /\ UNCHANGED <<drawer, candidateLoads, mappingLoads, mapped, disturbed>>
    BY <1>f DEF FindMapping
  <2>2. r \in ChangeOfMapping /\ remapping # <<>> BY <1>0, <2>1, ElementOfSeq, LenProperties
  <2>3. seen \in ChangeOfMapping /\ seen.served = r.served BY <2>2 DEF ChangeOfMapping
  <2> HIDE DEF seen
  <2>4. remapping' \in Seq(ChangeOfMapping) BY <1>0, <2>1, <2>3, ExceptSeq
  <2>5. /\ DOMAIN remapping' = DOMAIN remapping
        /\ \A j \in DOMAIN remapping : remapping'[j].served = remapping[j].served
    BY <2>1, <2>3
  <2>6. Remapped => Remapped' BY <2>5 DEF Remapped
  <2>7. RelatedFits => RelatedFits' BY <2>1 DEF RelatedFits, Mappings, Children
  <2>8. RelationsTypes' BY <1>0, <2>1, <2>2, <2>4 DEF RelationsTypes
  <2> QED BY <1>0, <1>t, <2>1, <2>6, <2>7, <2>8, DrawerRemains DEF RelationsInv
<1>8. ASSUME NEW i, ServeRemapping(i) PROVE RelationsInv'
  <2> DEFINE r == remapping[i]
             done == [r EXCEPT !.served = TRUE]
             gone == [r.row EXCEPT !.deleted = TRUE]
  <2>1. /\ i \in DOMAIN remapping /\ remapping' = [remapping EXCEPT ![i] = done]
        /\ UNCHANGED <<drawer, candidateLoads, mappingLoads, disturbed>>
        /\ mapped' \subseteq mapped \cup {r.row, gone}
    BY <1>8 DEF ServeRemapping, DeletedRow
  <2>2. r \in ChangeOfMapping /\ remapping # <<>> BY <1>0, <2>1, ElementOfSeq, LenProperties
  <2>3. r.row \in NewRow /\ done \in ChangeOfMapping /\ done.served
    BY <2>2 DEF ChangeOfMapping
  <2>4. r.row \in RowOfMapping /\ gone \in RowOfMapping BY <2>3, RowDeleted
  <2> HIDE DEF done, gone
  <2>5. remapping' \in Seq(ChangeOfMapping) BY <1>0, <2>1, <2>3, ExceptSeq
  <2>6. i \in DOMAIN remapping' /\ remapping'[i] = done BY <2>1
  <2>7. DrawerInv' BY <2>3, <2>6 DEF DrawerInv, Remapped
  <2>8. mapped' \subseteq RowOfMapping BY <1>0, <2>1, <2>4
  <2>9. RelationsTypes' BY <1>0, <2>1, <2>2, <2>5, <2>8 DEF RelationsTypes
  <2> QED BY <1>0, <1>t, <2>1, <2>7, <2>9 DEF RelationsInv
<1>9. ASSUME NEW i, RelationDeleted(i) PROVE RelationsInv'
  <2>1. /\ i \in DOMAIN remapping /\ remapping' = RemoveAt(remapping, i)
        /\ LoadMappings("refresh", remapping[i].of)
        /\ UNCHANGED <<drawer, candidateLoads, mapped, disturbed>>
    BY <1>9 DEF RelationDeleted
  <2>2. /\ remapping' \in Seq(ChangeOfMapping) /\ remapping[i] \in ChangeOfMapping
        /\ remapping # <<>>
    BY <1>0, <2>1, RemappingEnds
  <2>3. remapping[i].of \in Relatives BY <2>2 DEF ChangeOfMapping
  <2>4. mappingLoads' \in Seq(LoadOfMappings) /\ DrawerInv' BY <1>0, <2>1, <2>3, MappingsSent
  <2>5. RelationsTypes' BY <1>0, <2>1, <2>2, <2>4 DEF RelationsTypes
  <2> QED BY <1>0, <1>t, <2>1, <2>4, <2>5 DEF RelationsInv
<1>10. ASSUME NEW i, RemappingFailed(i) PROVE RelationsInv'
  <2> DEFINE served == remapping[i].served
             mark(j) == mappingLoads[j].passed \/ mappingLoads[j].served
  <2>1. /\ i \in DOMAIN remapping /\ remapping' = RemoveAt(remapping, i)
        /\ disturbed' = (disturbed \/ served) /\ UNCHANGED <<drawer, candidateLoads, mapped>>
    BY <1>10 DEF RemappingFailed
  <2>2. /\ remapping' \in Seq(ChangeOfMapping) /\ remapping[i] \in ChangeOfMapping
        /\ Remapped /\ ~served => Remapped' /\ remapping # <<>>
    BY <1>0, <2>1, RemappingEnds
  <2>3. served \in BOOLEAN /\ disturbed' \in BOOLEAN BY <1>0, <2>1, <2>2 DEF ChangeOfMapping
  <2>4. CASE ~served
    <3>1. UNCHANGED mappingLoads BY <1>10, <2>4 DEF RemappingFailed
    <3>2. RelatedFits => RelatedFits'
      BY <2>1, <2>3, <2>4 DEF RelatedFits, Mappings, Children
    <3>3. DrawerInv' BY <2>1, <2>2, <2>4, <3>1, <3>2, DrawerRemains
    <3>4. RelationsTypes' BY <1>0, <2>1, <2>2, <2>3, <3>1 DEF RelationsTypes
    <3> QED BY <1>0, <1>t, <2>1, <3>3, <3>4 DEF RelationsInv
  <2>5. CASE served
    <3>1. mappingLoads'
            = [j \in DOMAIN mappingLoads |-> [mappingLoads[j] EXCEPT !.passed = mark(j)]]
      BY <1>10, <2>5 DEF RemappingFailed
    <3>2. \A j \in DOMAIN mappingLoads : mark(j) \in BOOLEAN BY <1>m DEF LoadOfMappings
    <3>3. \A j \in DOMAIN mappingLoads :
            /\ mappingLoads'[j] \in LoadOfMappings /\ mappingLoads'[j].passed = mark(j)
            /\ mappingLoads'[j].served = mappingLoads[j].served
      <4> HIDE DEF mark
      <4> QED BY <1>m, <3>1, <3>2, MarkedLoad
    <3>4. DOMAIN mappingLoads' = DOMAIN mappingLoads BY <3>1
    <3>5. mappingLoads' \in Seq(LoadOfMappings)
      <4>1. Len(mappingLoads) \in Nat /\ DOMAIN mappingLoads = 1 .. Len(mappingLoads)
        BY <1>0, LenProperties
      <4>2. mappingLoads' = [j \in 1 .. Len(mappingLoads) |-> mappingLoads'[j]]
        BY <3>1, <4>1
      <4>3. mappingLoads' \in [1 .. Len(mappingLoads) -> LoadOfMappings]
        BY <3>3, <4>1, <4>2
      <4> QED BY <4>1, <4>3, SeqDef
    <3>6. RelatedFits' BY <2>1, <2>5 DEF RelatedFits
    <3>7. \A j \in DOMAIN mappingLoads' : ~mappingLoads'[j].passed => mappingLoads'[j] \in UpToDate'
      BY <3>3, <3>4 DEF UpToDate
    <3>8. DrawerInv' BY <3>6, <3>7 DEF DrawerInv, Follows
    <3>9. RelationsTypes' BY <1>0, <2>1, <2>2, <2>3, <3>5 DEF RelationsTypes
    <3> QED BY <1>0, <1>t, <2>1, <3>8, <3>9 DEF RelationsInv
  <2> QED BY <2>3, <2>4, <2>5
<1>11. CASE StartAdding
  <2> DEFINE new == [drawer EXCEPT !.adding = TRUE]
  <2>1. /\ new \in DrawerState /\ new.candidates = drawer.candidates
        /\ new.open = drawer.open /\ new.current = drawer.current
        /\ new.related = drawer.related
    BY <1>0 DEF DrawerState
  <2>2. drawer.open /\ CandidatesOf(new) /\ UNCHANGED mappingVars BY <1>11 DEF StartAdding
  <2> HIDE DEF new
  <2> QED BY <2>1, <2>2, DialogStep
<1>12. ASSUME NEW s \in Searches, TypeSearch(s) PROVE RelationsInv'
  <2>1. drawer' = [drawer EXCEPT !.typed = s] BY <1>12 DEF TypeSearch
  <2>2. /\ drawer' \in DrawerState /\ drawer'.open = drawer.open
        /\ drawer'.current = drawer.current /\ drawer'.adding = drawer.adding
        /\ drawer'.search = drawer.search /\ drawer'.candidates = drawer.candidates
        /\ drawer'.related = drawer.related
    BY <1>0, <2>1 DEF DrawerState
  <2>3. UNCHANGED <<candidateLoads, remapping, mappingLoads, mapped, disturbed>>
    BY <1>12 DEF TypeSearch, mappingVars
  <2>4. RelatedFits => RelatedFits' BY <2>2, <2>3 DEF RelatedFits, Mappings, Children
  <2>5. Remapped => Remapped' BY <2>3 DEF Remapped
  <2>6. RelationsTypes' BY <1>0, <2>2, <2>3 DEF RelationsTypes
  <2> QED BY <1>t, <2>2, <2>3, <2>4, <2>5, <2>6, DrawerRemains DEF RelationsInv
<1>13. CASE SearchApplied
  <2> DEFINE new == [drawer EXCEPT !.search = drawer.typed]
  <2>1. /\ new \in DrawerState /\ new.candidates = drawer.candidates
        /\ new.open = drawer.open /\ new.current = drawer.current
        /\ new.related = drawer.related /\ new.adding = drawer.adding
    BY <1>0 DEF DrawerState
  <2>2. CandidatesOf(new) /\ UNCHANGED mappingVars BY <1>13 DEF SearchApplied
  <2> HIDE DEF new
  <2> QED BY <2>1, <2>2, DialogStep
<1> DEFINE without == WithoutDialog(drawer)
<1>w. /\ without \in DrawerState /\ without.candidates = drawer.candidates
      /\ without.open = drawer.open /\ without.current = drawer.current
      /\ without.related = drawer.related /\ ~without.adding
  BY <1>0, RelationsAssumption DEF DrawerState, WithoutDialog
<1> HIDE DEF without
<1>14. CASE CloseAddRelationModal
  <2>1. CandidatesOf(without) /\ UNCHANGED mappingVars
    BY <1>14 DEF CloseAddRelationModal, without
  <2> QED BY <1>w, <2>1, DialogStep
<1>15. ASSUME NEW i, RelationAdded(i) PROVE RelationsInv'
  <2>1. /\ CandidatesOf(without) /\ UNCHANGED <<mapped, disturbed>>
        /\ i \in DOMAIN remapping /\ remapping' = RemoveAt(remapping, i)
        /\ LoadMappings("refresh", remapping[i].of)
    BY <1>15 DEF RelationAdded, without
  <2>2. /\ remapping' \in Seq(ChangeOfMapping) /\ remapping[i] \in ChangeOfMapping
        /\ remapping # <<>>
    BY <1>0, <2>1, RemappingEnds
  <2>3. remapping[i].of \in Relatives BY <2>2 DEF ChangeOfMapping
  <2>4. mappingLoads' \in Seq(LoadOfMappings) /\ DrawerInv' BY <1>0, <2>1, <2>3, MappingsSent
  <2>5. /\ drawer' \in DrawerState /\ DialogInv'
        /\ candidateLoads' \subseteq [search : Searches, cancelled : BOOLEAN]
        /\ \A d \in {"current", "open", "related", "adding", "search"} : drawer'[d] = without[d]
    BY <1>w, <2>1, EffectOfDialog
  <2>6. drawer'.current = drawer.current /\ drawer'.related = drawer.related BY <1>w, <2>5
  <2>7. RelationsTypes' BY <1>0, <2>1, <2>2, <2>4, <2>5, <2>6 DEF RelationsTypes
  <2> QED BY <2>4, <2>5, <2>7 DEF RelationsInv
<1>16. ASSUME NEW c \in candidateLoads, NEW ps \in SUBSET Relatives,
              CandidatesAnswered(c, ps) \/ CandidatesFailed(c)
       PROVE  RelationsInv'
  <2>1. /\ candidateLoads' = candidateLoads \ {c}
        /\ UNCHANGED <<remapping, mappingLoads, mapped, disturbed>>
        /\ \/ c.cancelled /\ drawer' = drawer
           \/ /\ ~c.cancelled
              /\ \/ drawer' = [drawer EXCEPT !.candidates = [search |-> c.search, programs |-> ps]]
                 \/ drawer' = [drawer EXCEPT !.candidates = [search |-> Nothing, programs |-> {}]]
    BY <1>16 DEF CandidatesAnswered, CandidatesFailed, NoCandidates, mappingVars
  <2>2. Remapped => Remapped' BY <2>1 DEF Remapped
  <2>3. CASE c.cancelled /\ drawer' = drawer
    <3>1. Awaited' = Awaited BY <2>1, <2>3 DEF Awaited
    <3>2. DialogInv' BY <1>0, <2>1, <2>3, <3>1 DEF DialogInv
    <3>3. RelatedFits => RelatedFits' BY <2>1, <2>3 DEF RelatedFits, Mappings, Children
    <3>4. RelationsTypes' BY <1>0, <2>1, <2>3 DEF RelationsTypes
    <3> QED BY <2>1, <2>2, <3>2, <3>3, <3>4, DrawerRemains DEF RelationsInv
  <2>4. ASSUME NEW s \in {c.search, Nothing}, NEW qs \in {ps, {}}, ~c.cancelled,
               drawer' = [drawer EXCEPT !.candidates = [search |-> s, programs |-> qs]]
        PROVE  RelationsInv'
    <3>1. [search |-> s, programs |-> qs]
            \in [search : Searches \cup {Nothing}, programs : SUBSET Relatives]
      BY <1>0
    <3>2. /\ drawer' \in DrawerState /\ drawer'.open = drawer.open
          /\ drawer'.current = drawer.current /\ drawer'.adding = drawer.adding
          /\ drawer'.search = drawer.search /\ drawer'.related = drawer.related
          /\ drawer'.candidates.search = s
      BY <1>0, <2>4, <3>1 DEF DrawerState
    <3>3. drawer.adding /\ c.search = drawer.search BY <1>0, <2>4 DEF DialogInv
    <3>4. DialogInv' BY <1>0, <2>1, <2>4, <3>2, <3>3 DEF DialogInv
    <3>5. RelatedFits => RelatedFits' BY <2>1, <3>2 DEF RelatedFits, Mappings, Children
    <3>6. RelationsTypes' BY <1>0, <2>1, <3>2 DEF RelationsTypes
    <3> QED BY <2>1, <2>2, <3>4, <3>5, <3>6, DrawerRemains DEF RelationsInv
  <2> QED BY <2>1, <2>3, <2>4
<1>17. CASE UNCHANGED relationVars
  <2>1. UNCHANGED <<drawer, candidateLoads, remapping, mappingLoads, mapped, disturbed>>
    BY <1>17 DEF relationVars, mappingVars
  <2>2. (Remapped => Remapped') /\ (RelatedFits => RelatedFits')
    BY <2>1 DEF Remapped, RelatedFits, Mappings, Children
  <2>3. RelationsTypes' BY <1>0, <2>1 DEF RelationsTypes
  <2> QED BY <1>0, <1>t, <2>1, <2>2, <2>3, DrawerRemains DEF RelationsInv
<1> QED
  BY <1>1, <1>2, <1>3, <1>4, <1>5, <1>6, <1>7, <1>f, <1>8, <1>9, <1>10, <1>11, <1>12,
     <1>13, <1>14, <1>15, <1>16, <1>17
     DEF RelationsNext, MappingAnswers, RemappingAnswers, CandidateAnswers

\* With no request in flight, the drawer shows what there is.
LEMMA RelationsInvShows == RelationsInv => RelationsShown
<1> SUFFICES ASSUME RelationsInv PROVE RelationsShown OBVIOUS
<1>1. ASSUME remapping = <<>>, mappingLoads = <<>> PROVE RelatedFits
  BY <1>1 DEF RelationsInv, DrawerInv, Remapped, Follows
<1> QED BY <1>1 DEF RelationsInv, DialogInv, RelatedFits, RelationsShown

-----------------------------------------------------------------------------
(***************************************************************************)
(* A tab of the permission page.                                           *)
(***************************************************************************)
Rows == Settings \cup {Unanswered}
Tabbed == [rows : Rows, changes : PartSettings, of : Targets \cup {NoTarget}]
MatrixLoad == [target : Targets, rows : Rows]
MatrixSave == [target : Targets, changes : PartSettings, rows : Rows]

MatrixTypes ==
    /\ target \in Targets \cup {NoTarget}
    /\ matrix \in Tabbed
    /\ loads \in Seq(MatrixLoad)
    /\ saving \subseteq MatrixSave
    /\ savedRules \in [Targets -> Settings]
    /\ crossed \in BOOLEAN

\* Unless something went wrong the rows of the chosen target are shown or on
\* their way, and what waits to be saved was changed on the rows it is beside.
ChangesInv ==
    /\ \A c \in DOMAIN matrix.changes :
          /\ c \in DOMAIN matrix.rows /\ matrix.changes[c] # matrix.rows[c]
          /\ <<matrix.of, c>> \in edited
    /\ (target # NoTarget /\ ~crossed) =>
          matrix.of = target \/ \E k \in DOMAIN loads : loads[k].target = target

MatrixInv == MatrixTypes /\ ChangesInv /\ SubmitsOnlyChanged

LEMMA UnansweredIsEmpty == DOMAIN Unanswered = {} /\ Unanswered \in PartSettings
<1>1. Unanswered = [c \in {} |-> c] /\ DOMAIN Unanswered = {} BY DEF Unanswered
<1>2. Unanswered \in [{} -> Decisions] BY <1>1
<1> QED BY <1>1, <1>2 DEF PartSettings

LEMMA MatrixStart == MatrixInit => MatrixInv
<1> SUFFICES ASSUME MatrixInit PROVE MatrixInv
  OBVIOUS
<1>1. /\ target = NoTarget /\ loads = <<>> /\ saving = {} /\ crossed = FALSE
      /\ matrix = [rows |-> Unanswered, changes |-> Unanswered, of |-> NoTarget]
      /\ savedRules = [t \in Targets |-> [c \in Cells |-> "unset"]]
  BY DEF MatrixInit
<1>2. savedRules \in [Targets -> Settings]
  BY <1>1, MatrixAssumption DEF Settings
<1>3. /\ matrix \in Tabbed /\ DOMAIN matrix.changes = {}
  <2>1. Unanswered \in Rows BY DEF Rows
  <2>2. Unanswered \in PartSettings /\ DOMAIN Unanswered = {} BY UnansweredIsEmpty
  <2> HIDE DEF Unanswered
  <2> QED BY <1>1, <2>1, <2>2 DEF Tabbed
<1>4. MatrixTypes
  <2>1. loads \in Seq(MatrixLoad) BY <1>1
  <2>2. saving \subseteq MatrixSave /\ target \in Targets \cup {NoTarget} /\ crossed \in BOOLEAN
    BY <1>1
  <2> QED BY <1>2, <1>3, <2>1, <2>2 DEF MatrixTypes
<1>5. ChangesInv BY <1>1, <1>3 DEF ChangesInv
<1>6. SubmitsOnlyChanged BY <1>1 DEF SubmitsOnlyChanged
<1> QED BY <1>4, <1>5, <1>6 DEF MatrixInv

\* Rows that replace others come without changes.
LEMMA RowsReplaced ==
  ASSUME MatrixInv, NEW rows \in Rows, NEW t \in Targets,
         matrix' = [rows |-> rows, changes |-> Unanswered, of |-> t],
         crossed' = (crossed \/ t # target),
         UNCHANGED <<target, savedRules, edited>>,
         loads' \in Seq(MatrixLoad), saving' \subseteq saving
  PROVE  MatrixInv'
<1>1. MatrixTypes /\ ChangesInv /\ SubmitsOnlyChanged BY DEF MatrixInv
<1>2. matrix' \in Tabbed /\ DOMAIN matrix'.changes = {} /\ matrix'.of = t
  BY UnansweredIsEmpty DEF Tabbed
<1> QED BY <1>1, <1>2 DEF MatrixInv, MatrixTypes, ChangesInv, SubmitsOnlyChanged

\* Loading adds a load of the target.
LEMMA MatrixLoading ==
  ASSUME MatrixInv, NEW t \in Targets, LoadMatrix(t), target' = t,
         UNCHANGED <<matrix, saving, savedRules, edited, crossed>>
  PROVE  MatrixInv'
<1> DEFINE l == [target |-> t, rows |-> Unanswered]
<1>1. /\ MatrixTypes /\ ChangesInv /\ SubmitsOnlyChanged
      /\ loads \in Seq(MatrixLoad) /\ loads' = Append(loads, l)
  BY DEF MatrixInv, MatrixTypes, LoadMatrix
<1>2. l \in MatrixLoad /\ l.target = t BY DEF MatrixLoad, Rows
<1> HIDE DEF l
<1>3. /\ loads' \in Seq(MatrixLoad) /\ Len(loads) + 1 \in DOMAIN loads'
      /\ loads'[Len(loads) + 1] = l
  BY <1>1, <1>2, AppendProperties
<1> QED BY <1>1, <1>2, <1>3 DEF MatrixInv, MatrixTypes, ChangesInv, SubmitsOnlyChanged

LEMMA MatrixStep == MatrixInv /\ [MatrixNext]_matrixVars => MatrixInv'
<1> SUFFICES ASSUME MatrixInv, [MatrixNext]_matrixVars PROVE MatrixInv'
  OBVIOUS
<1>0. /\ MatrixTypes /\ ChangesInv /\ SubmitsOnlyChanged
      /\ target \in Targets \cup {NoTarget} /\ matrix \in Tabbed
      /\ loads \in Seq(MatrixLoad) /\ saving \subseteq MatrixSave
      /\ savedRules \in [Targets -> Settings] /\ crossed \in BOOLEAN
  BY DEF MatrixInv, MatrixTypes
<1>1. ASSUME NEW t \in Targets, TargetsArrived(t) \/ ChooseTarget(t) PROVE MatrixInv'
  BY <1>1, MatrixLoading DEF TargetsArrived, ChooseTarget
<1>2. CASE Reload
  BY <1>0, <1>2, MatrixLoading DEF Reload
<1>3. ASSUME NEW c \in Cells, NEW d \in Decisions, ChangeDecision(c, d) PROVE MatrixInv'
  <2> DEFINE left == (DOMAIN matrix.changes \ {c})
                       \cup (IF d = matrix.rows[c] THEN {} ELSE {c})
             new == [x \in left |-> IF x = c THEN d ELSE matrix.changes[x]]
  <2>1. /\ matrix' = [matrix EXCEPT !.changes = new] /\ c \in DOMAIN matrix.rows
        /\ edited' = edited \cup {<<matrix.of, c>>}
        /\ UNCHANGED <<target, loads, saving, savedRules, crossed>>
    BY <1>3 DEF ChangeDecision, Changed
  <2>2. PICK D \in SUBSET Cells : matrix.changes \in [D -> Decisions]
    BY <1>0 DEF Tabbed, PartSettings
  <2>3. left \subseteq Cells BY <2>2
  <2>4. \A x \in left : (IF x = c THEN d ELSE matrix.changes[x]) \in Decisions BY <2>2
  <2>5. new \in [left -> Decisions] BY <2>4
  <2>6. new \in PartSettings BY <2>3, <2>5 DEF PartSettings
  <2>7. ASSUME NEW x \in left
        PROVE  /\ x \in DOMAIN matrix.rows /\ new[x] # matrix.rows[x]
               /\ <<matrix.of, x>> \in edited'
    BY <1>0, <2>1 DEF ChangesInv
  <2>8. DOMAIN new = left OBVIOUS
  <2> HIDE DEF left, new
  <2>9. /\ matrix' \in Tabbed /\ matrix'.changes = new
        /\ matrix'.rows = matrix.rows /\ matrix'.of = matrix.of
    BY <1>0, <2>1, <2>6 DEF Tabbed
  <2> QED BY <1>0, <2>1, <2>7, <2>8, <2>9
          DEF MatrixInv, MatrixTypes, ChangesInv, SubmitsOnlyChanged
<1>4. CASE Save
  <2> DEFINE s == [target |-> target, changes |-> Payload, rows |-> Unanswered]
  <2>1. /\ target # NoTarget /\ saving' = saving \cup {s}
        /\ crossed' = (crossed \/ loads # <<>>)
        /\ UNCHANGED <<target, matrix, loads, savedRules, edited>>
    BY <1>4 DEF Save
  <2>2. PICK D \in SUBSET Cells : matrix.changes \in [D -> Decisions]
    BY <1>0 DEF Tabbed, PartSettings
  <2>3. Payload \in [DOMAIN matrix.rows \cap D -> Decisions] /\ DOMAIN Payload \subseteq D
    BY <2>2 DEF Payload
  <2>4. Payload \in PartSettings BY <2>3 DEF PartSettings
  <2>5. /\ s \in MatrixSave /\ s.target = target /\ s.changes = Payload
    BY <1>0, <2>1, <2>4 DEF MatrixSave, Rows
  <2> HIDE DEF s
  <2>6. ~crossed' => \A c \in DOMAIN s.changes : <<s.target, c>> \in edited'
    <3> SUFFICES ASSUME ~crossed', NEW c \in DOMAIN Payload
                 PROVE  <<target, c>> \in edited
      BY <2>1, <2>5
    <3>1. matrix.of = target
      <4>1. loads = <<>> /\ ~crossed BY <1>0, <2>1
      <4>2. DOMAIN loads = {} BY <4>1
      <4> QED BY <1>0, <2>1, <4>1, <4>2 DEF ChangesInv
    <3>2. c \in DOMAIN matrix.changes BY DEF Payload
    <3> QED BY <1>0, <3>1, <3>2 DEF ChangesInv
  <2>7. ChangesInv' BY <1>0, <2>1 DEF ChangesInv
  <2> QED BY <1>0, <2>1, <2>5, <2>6, <2>7 DEF MatrixInv, MatrixTypes, SubmitsOnlyChanged
<1>5. ASSUME NEW s \in saving, SaveAnswered(s) PROVE MatrixInv'
  <2>1. s.rows \in Rows /\ s.target \in Targets BY <1>0 DEF MatrixSave
  <2> QED BY <1>0, <1>5, <2>1, RowsReplaced DEF SaveAnswered
<1>6. ASSUME NEW s \in saving, SaveFailed(s) PROVE MatrixInv'
  BY <1>0, <1>6 DEF SaveFailed, MatrixInv, MatrixTypes, ChangesInv, SubmitsOnlyChanged
<1>7. ASSUME NEW k \in DOMAIN loads, MatrixLoaded(k) PROVE MatrixInv'
  <2>1. loads[k] \in MatrixLoad BY <1>0, ElementOfSeq
  <2>2. loads[k].rows \in Rows /\ loads[k].target \in Targets BY <2>1 DEF MatrixLoad
  <2>3. loads' \in Seq(MatrixLoad) BY <1>0, <1>7, RemovedElement DEF MatrixLoaded
  <2> QED BY <1>0, <1>7, <2>2, <2>3, RowsReplaced DEF MatrixLoaded
<1>8. ASSUME NEW k \in DOMAIN loads, LoadFailed(k) PROVE MatrixInv'
  <2>1. loads' \in Seq(MatrixLoad) BY <1>0, <1>8, RemovedElement DEF LoadFailed
  <2> QED BY <1>0, <1>8, <2>1
          DEF LoadFailed, MatrixInv, MatrixTypes, ChangesInv, SubmitsOnlyChanged
<1>9. ASSUME NEW k \in DOMAIN loads, ServeMatrix(k) PROVE MatrixInv'
  <2> DEFINE l == [loads[k] EXCEPT !.rows = savedRules[loads[k].target]]
  <2>1. loads[k] \in MatrixLoad BY <1>0, ElementOfSeq
  <2>2. l \in MatrixLoad /\ l.target = loads[k].target
    BY <1>0, <2>1 DEF MatrixLoad, Rows
  <2>3. /\ loads' = [loads EXCEPT ![k] = l]
        /\ UNCHANGED <<target, matrix, saving, savedRules, edited, crossed>>
    BY <1>9 DEF ServeMatrix
  <2> HIDE DEF l
  <2>4. loads' \in Seq(MatrixLoad) /\ DOMAIN loads' = DOMAIN loads
        /\ \A j \in DOMAIN loads : loads'[j].target = loads[j].target
    BY <1>0, <2>2, <2>3, ExceptSeq
  <2> QED BY <1>0, <2>3, <2>4
          DEF MatrixInv, MatrixTypes, ChangesInv, SubmitsOnlyChanged
<1>10. ASSUME NEW s \in saving, ServeSave(s) PROVE MatrixInv'
  <2> DEFINE rules == Applied(savedRules[s.target], s.changes)
             done == [s EXCEPT !.rows = rules]
  <2>1. /\ savedRules' = [savedRules EXCEPT ![s.target] = rules]
        /\ saving' = (saving \ {s}) \cup {done}
        /\ UNCHANGED <<target, matrix, loads, edited, crossed>>
    BY <1>10 DEF ServeSave
  <2>2. s \in MatrixSave /\ s.target \in Targets /\ s.changes \in PartSettings
    BY <1>0 DEF MatrixSave
  <2>3. rules \in Settings
    <3>1. PICK D \in SUBSET Cells : s.changes \in [D -> Decisions]
      BY <2>2 DEF PartSettings
    <3>2. savedRules[s.target] \in [Cells -> Decisions] BY <1>0, <2>2 DEF Settings
    <3> QED BY <3>1, <3>2 DEF Applied, Settings
  <2> HIDE DEF rules
  <2>4. done \in MatrixSave /\ done.target = s.target /\ done.changes = s.changes
    BY <2>2, <2>3 DEF MatrixSave, Rows
  <2>5. savedRules' \in [Targets -> Settings] BY <1>0, <2>1, <2>3
  <2> HIDE DEF done
  <2> QED BY <1>0, <2>1, <2>4, <2>5
          DEF MatrixInv, MatrixTypes, ChangesInv, SubmitsOnlyChanged
<1>11. ASSUME NEW t \in Targets, NEW c \in Cells, NEW d \in Decisions, ChangeElsewhere(t, c, d)
       PROVE  MatrixInv'
  <2>1. /\ savedRules' = [savedRules EXCEPT ![t] = [savedRules[t] EXCEPT ![c] = d]]
        /\ UNCHANGED <<target, matrix, loads, saving, edited, crossed>>
    BY <1>11 DEF ChangeElsewhere
  <2>2. savedRules[t] \in [Cells -> Decisions] BY <1>0 DEF Settings
  <2>3. savedRules' \in [Targets -> Settings] BY <1>0, <2>1, <2>2 DEF Settings
  <2> QED BY <1>0, <2>1, <2>3
          DEF MatrixInv, MatrixTypes, ChangesInv, SubmitsOnlyChanged
<1>12. CASE UNCHANGED matrixVars
  BY <1>0, <1>12 DEF matrixVars, MatrixInv, MatrixTypes, ChangesInv, SubmitsOnlyChanged
<1> QED
  BY <1>1, <1>2, <1>3, <1>4, <1>5, <1>6, <1>7, <1>8, <1>9, <1>10, <1>11, <1>12
  DEF MatrixNext, LoadAnswers, SaveAnswers

LEMMA MatrixInvShows == MatrixInv => RowsOfTarget /\ SubmitsOnlyChanged
<1>1. loads = <<>> => DOMAIN loads = {} OBVIOUS
<1> QED BY <1>1 DEF MatrixInv, ChangesInv, RowsOfTarget

-----------------------------------------------------------------------------
(***************************************************************************)
(* The system page and its intervals.                                      *)
(***************************************************************************)
SystemState == [visit : Nat, open : BOOLEAN, shown : MigrationStatus, handle : Nat, made : Nat]
StatusCalls == [by : {"open", "start", "rollback", "poll"}, sees : Nat, visit : Nat,
                state : MigrationStatus \cup {"posted", "sent"}]
MigrationState == [status : MigrationStatus, begun : Nat, asked : Nat, restarts : Nat]

MigrationTypes ==
    /\ system \in SystemState
    /\ pollers \subseteq [id : Nat \ {0}, visit : Nat]
    /\ statusAsked \subseteq StatusCalls
    /\ migration \in MigrationState
    /\ pollMissed \in BOOLEAN

\* Intervals are numbered as they are made, and who asks sees one that was
\* made for the same opening of the page, or one that is gone.
IntervalsInv ==
    /\ \A p \in pollers : p.id <= system.made
    /\ \A p, q \in pollers : p.id = q.id => p = q
    /\ \A r \in statusAsked : /\ r.sees <= system.made
                              /\ \A p \in pollers : p.id = r.sees => p.visit = r.visit

MigrationInv == MigrationTypes /\ IntervalsInv /\ FollowsMigration

LEMMA MigrationStart == MigrationInit => MigrationInv
<1> SUFFICES ASSUME MigrationInit PROVE MigrationInv
  OBVIOUS
<1>1. system \in SystemState
  BY DEF MigrationInit, SystemState, MigrationStatus, NoPoller
<1>2. migration \in MigrationState
  BY DEF MigrationInit, MigrationState, MigrationStatus
<1>3. ~system.open /\ pollers = {} /\ statusAsked = {} /\ pollMissed = FALSE
  BY DEF MigrationInit
<1> QED BY <1>1, <1>2, <1>3
        DEF MigrationInv, MigrationTypes, IntervalsInv, FollowsMigration

\* A handler may replace the interval that it sees, for the page it was made in.
LEMMA PollingStarted ==
  ASSUME MigrationInv, NEW r \in statusAsked, NEW n \in Nat, NEW shown \in MigrationStatus,
         Here(r) /\ n = 0 => shown \in {system.shown} \cup (MigrationStatus \ {Running}),
         statusAsked' = statusAsked \ {r}, StartMigrationPolling(r, n, shown),
         UNCHANGED migration
  PROVE  MigrationInv'
<1> DEFINE kept == {p \in pollers : n = 0 \/ p.id # r.sees}
           made == {[id |-> system.made + i, visit |-> r.visit] : i \in 1..n}
<1>1. /\ MigrationTypes /\ IntervalsInv /\ FollowsMigration /\ r \in StatusCalls
      /\ system \in SystemState /\ pollers \subseteq [id : Nat \ {0}, visit : Nat]
  BY DEF MigrationInv, MigrationTypes
<1>2. /\ pollers' = kept \cup made
      /\ system' = [system EXCEPT !.made = @ + n,
                                  !.shown = IF Here(r) THEN shown ELSE @,
                                  !.handle = IF Here(r) /\ n > 0 THEN system.made + n ELSE @]
      /\ pollMissed' = (pollMissed /\ ~(Here(r) /\ n > 0))
  BY DEF StartMigrationPolling
<1>3. /\ system.made \in Nat /\ r.visit \in Nat /\ r.sees \in Nat
      /\ system.visit \in Nat /\ system.handle \in Nat
  BY <1>1 DEF SystemState, StatusCalls
<1>4. /\ system'.visit = system.visit /\ system'.open = system.open
      /\ system'.made = system.made + n
      /\ system'.shown = (IF Here(r) THEN shown ELSE system.shown)
      /\ system'.handle = (IF Here(r) /\ n > 0 THEN system.made + n ELSE system.handle)
      /\ system' \in SystemState
  <2> DEFINE to == IF Here(r) THEN shown ELSE system.shown
             held == IF Here(r) /\ n > 0 THEN system.made + n ELSE system.handle
  <2>1. to \in MigrationStatus /\ held \in Nat BY <1>1, <1>3 DEF SystemState
  <2>2. system' = [system EXCEPT !.made = system.made + n, !.shown = to, !.handle = held]
    BY <1>2
  <2>3. system.made + n \in Nat BY <1>3
  <2> HIDE DEF to, held
  <2>4. /\ system'.visit = system.visit /\ system'.open = system.open
        /\ system'.made = system.made + n /\ system'.shown = to /\ system'.handle = held
        /\ system' \in SystemState
    BY <1>1, <2>1, <2>2, <2>3 DEF SystemState
  <2> QED BY <2>4 DEF to, held
<1>5. \A q \in made : /\ q \in [id : Nat \ {0}, visit : Nat]
                      /\ q.id > system.made /\ q.id <= system.made + n /\ q.visit = r.visit
  BY <1>3
<1>6. \A p, q \in made : p.id = q.id => p = q
  BY <1>3
<1>7. n > 0 => [id |-> system.made + n, visit |-> r.visit] \in made
  BY <1>3
<1>8. \A p \in kept : p \in pollers /\ (n > 0 => p.id # r.sees) OBVIOUS
<1>9. \A p \in pollers : n = 0 \/ p.id # r.sees => p \in kept OBVIOUS
<1> HIDE DEF kept, made
<1>10. MigrationTypes' BY <1>1, <1>2, <1>4, <1>5, <1>8 DEF MigrationTypes
<1>11. IntervalsInv'
  <2>1. \A p \in pollers' : p \in pollers \/ p \in made BY <1>2, <1>8
  <2>2. \A p \in pollers : p.id \in Nat /\ p.id <= system.made
    BY <1>1 DEF IntervalsInv
  <2>3. \A s \in statusAsked' : s \in statusAsked /\ s.sees \in Nat
    BY <1>1 DEF MigrationTypes, StatusCalls
  <2> QED BY <1>1, <1>3, <1>4, <1>5, <1>6, <2>1, <2>2, <2>3 DEF IntervalsInv
<1>12. FollowsMigration'
  <2>1. CASE Here(r) /\ n > 0
    <3>1. [id |-> system'.handle, visit |-> system'.visit] \in pollers'
      BY <1>2, <1>4, <1>7, <2>1 DEF Here
    <3>2. [id |-> system'.handle, visit |-> system'.visit].visit = system'.visit
      OBVIOUS
    <3> QED BY <3>1, <3>2 DEF FollowsMigration
  <2>2. CASE n = 0
    <3>1. pollers \subseteq pollers' BY <1>2, <1>9, <2>2
    <3>2. /\ pollMissed' = pollMissed /\ system'.handle = system.handle
          /\ system'.shown = Running => system.shown = Running
      BY <1>1, <1>2, <1>4, <2>2 DEF MigrationTypes
    <3> QED BY <1>1, <1>4, <3>1, <3>2 DEF FollowsMigration
  <2>3. CASE ~Here(r) /\ n > 0
    <3>1. \A p \in pollers : p.visit = system.visit /\ system.open => p \in pollers'
      BY <1>1, <1>2, <1>9, <2>3 DEF IntervalsInv, Here
    <3> QED BY <1>1, <1>2, <1>4, <2>3, <3>1 DEF FollowsMigration
  <2> QED BY <1>3, <2>1, <2>2, <2>3
<1> QED BY <1>10, <1>11, <1>12 DEF MigrationInv

\* An interval that ends itself is one of the page it belongs to.
LEMMA PollingEnded ==
  ASSUME MigrationInv, NEW r \in statusAsked, NEW shown \in MigrationStatus,
         statusAsked' = statusAsked \ {r}, IntervalCleared(r, shown),
         pollMissed' \in BOOLEAN, pollMissed => pollMissed',
         Here(r) => shown # Running \/ pollMissed',
         UNCHANGED migration
  PROVE  MigrationInv'
<1>1. /\ MigrationTypes /\ IntervalsInv /\ FollowsMigration
      /\ system \in SystemState
  BY DEF MigrationInv, MigrationTypes
<1>2. /\ pollers' = {p \in pollers : p.id # r.sees}
      /\ Here(r) => /\ system'.shown = shown /\ system'.handle = NoPoller
                    /\ system'.visit = system.visit /\ system'.open = system.open
                    /\ system'.made = system.made /\ system' \in SystemState
      /\ ~Here(r) => system' = system
  BY <1>1 DEF IntervalCleared, SystemState, NoPoller
<1>3. MigrationTypes' BY <1>1, <1>2 DEF MigrationTypes
<1>4. IntervalsInv' BY <1>1, <1>2 DEF IntervalsInv
<1>5. FollowsMigration'
  <2>1. CASE Here(r) BY <1>2, <2>1 DEF FollowsMigration
  <2>2. CASE ~Here(r)
    <3>1. \A p \in pollers : p.visit = system.visit /\ system.open => p \in pollers'
      BY <1>1, <1>2, <2>2 DEF IntervalsInv, Here
    <3> QED BY <1>1, <1>2, <2>2, <3>1 DEF FollowsMigration
  <2> QED BY <2>1, <2>2
<1> QED BY <1>3, <1>4, <1>5 DEF MigrationInv

LEMMA MigrationStep == MigrationInv /\ [MigrationNext]_migrationVars => MigrationInv'
<1> SUFFICES ASSUME MigrationInv, [MigrationNext]_migrationVars PROVE MigrationInv'
  OBVIOUS
<1>0. /\ MigrationTypes /\ IntervalsInv /\ FollowsMigration
      /\ system \in SystemState /\ pollers \subseteq [id : Nat \ {0}, visit : Nat]
      /\ statusAsked \subseteq StatusCalls /\ migration \in MigrationState
      /\ pollMissed \in BOOLEAN
  BY DEF MigrationInv, MigrationTypes
<1>1. ASSUME UNCHANGED <<system, pollers, pollMissed>>, migration' \in MigrationState,
             statusAsked' \subseteq StatusCalls,
             \A s \in statusAsked' : \/ \E r \in statusAsked : s.sees = r.sees /\ s.visit = r.visit
                                     \/ \E p \in pollers : s.sees = p.id /\ s.visit = p.visit
                                     \/ s.sees = 0
      PROVE  MigrationInv'
  <2>1. MigrationTypes' BY <1>0, <1>1 DEF MigrationTypes
  <2>2. IntervalsInv'
    <3>1. system.made \in Nat /\ \A p \in pollers : p.id \in Nat \ {0} BY <1>0 DEF SystemState
    <3>2. ASSUME NEW s \in statusAsked'
          PROVE  /\ s.sees <= system.made
                 /\ \A p \in pollers : p.id = s.sees => p.visit = s.visit
      <4>1. CASE \E r \in statusAsked : s.sees = r.sees /\ s.visit = r.visit
        BY <4>1, <1>0 DEF IntervalsInv
      <4>2. CASE \E p \in pollers : s.sees = p.id /\ s.visit = p.visit
        BY <4>2, <1>0 DEF IntervalsInv
      <4>3. CASE s.sees = 0 BY <4>3, <3>1
      <4> QED BY <1>1, <4>1, <4>2, <4>3
    <3> QED BY <1>0, <1>1, <3>2 DEF IntervalsInv
  <2>3. FollowsMigration' BY <1>0, <1>1 DEF FollowsMigration
  <2> QED BY <2>1, <2>2, <2>3 DEF MigrationInv
<1>2. CASE OpenSystem
  <2> DEFINE s == StatusRequest("open", NoPoller, system.visit + 1, "sent")
  <2>1. /\ system' = [system EXCEPT !.visit = @ + 1, !.open = TRUE, !.shown = "not_started",
                                    !.handle = NoPoller]
        /\ statusAsked' = statusAsked \cup {s} /\ pollMissed' = FALSE
        /\ UNCHANGED <<pollers, migration>>
    BY <1>2 DEF OpenSystem, AskStatus
  <2>2. /\ system' \in SystemState /\ system'.made = system.made /\ system'.made \in Nat
        /\ system'.shown = "not_started" /\ system'.handle = NoPoller
    <3>1. system.visit + 1 \in Nat /\ "not_started" \in MigrationStatus /\ NoPoller \in Nat
      BY <1>0 DEF SystemState, MigrationStatus, NoPoller
    <3> QED BY <1>0, <2>1, <3>1 DEF SystemState
  <2>3. s \in StatusCalls /\ s.sees = 0
    BY <1>0 DEF SystemState, StatusCalls, StatusRequest, NoPoller
  <2> HIDE DEF s
  <2>4. \A p \in pollers : p.id # 0 BY <1>0
  <2>5. IntervalsInv' BY <1>0, <2>1, <2>2, <2>3, <2>4 DEF IntervalsInv
  <2> QED BY <1>0, <2>1, <2>2, <2>3, <2>5
        DEF MigrationInv, MigrationTypes, FollowsMigration, Running, NoPoller
<1>3. CASE LeaveSystem
  <2>1. /\ system' \in SystemState /\ system'.made = system.made /\ ~system'.open
        /\ UNCHANGED <<pollers, statusAsked, migration, pollMissed>>
    BY <1>0, <1>3 DEF LeaveSystem, SystemState
  <2> QED BY <1>0, <2>1 DEF MigrationInv, MigrationTypes, IntervalsInv, FollowsMigration
<1>4. CASE ServerRestarts \/ MigrationBegins \/ \E s \in {"completed", "failed"} : MigrationEnds(s)
  <2>1. UNCHANGED <<system, pollers, statusAsked, pollMissed>>
    BY <1>4 DEF ServerRestarts, MigrationBegins, MigrationEnds
  <2>2. migration' \in MigrationState
    <3>1. {"not_started", "completed", "failed", Running} \subseteq MigrationStatus
      BY DEF MigrationStatus
    <3>2. CASE ServerRestarts
      <4>1. migration.restarts + 1 \in Nat BY <1>0 DEF MigrationState
      <4> QED BY <1>0, <3>1, <3>2, <4>1 DEF ServerRestarts, MigrationState
    <3>3. CASE MigrationBegins
      <4>1. migration.begun - 1 \in Nat BY <1>0, <3>3 DEF MigrationBegins, MigrationState
      <4> QED BY <1>0, <3>1, <3>3, <4>1 DEF MigrationBegins, MigrationState
    <3>4. ASSUME NEW s \in {"completed", "failed"}, MigrationEnds(s)
          PROVE  migration' \in MigrationState
      BY <1>0, <3>1, <3>4 DEF MigrationEnds, MigrationState
    <3> QED BY <1>4, <3>2, <3>3, <3>4
  <2> QED BY <1>0, <1>1, <2>1, <2>2
<1>5. ASSUME NEW by \in {"start", "rollback"}, AskMigration(by) PROVE MigrationInv'
  <2> DEFINE s == StatusRequest(by, system.handle, system.visit, "posted")
  <2>1. /\ system.open /\ statusAsked' = statusAsked \cup {s}
        /\ UNCHANGED <<system, pollers, pollMissed>>
        /\ migration' = [migration EXCEPT !.asked = @ + 1]
    BY <1>5 DEF AskMigration, AskStatus
  <2>2. migration' \in MigrationState BY <1>0, <2>1 DEF MigrationState
  <2>3. s \in StatusCalls /\ s.sees = system.handle /\ s.visit = system.visit
    BY <1>0 DEF SystemState, StatusCalls, StatusRequest
  <2> HIDE DEF s
  <2>4. s.sees = 0 \/ \E p \in pollers : s.sees = p.id /\ s.visit = p.visit
    BY <1>0, <2>1, <2>3 DEF FollowsMigration, NoPoller
  <2> QED BY <1>0, <1>1, <2>1, <2>2, <2>3, <2>4
<1>6. ASSUME NEW p \in pollers, PollStatus(p) PROVE MigrationInv'
  <2> DEFINE s == StatusRequest("poll", p.id, p.visit, "sent")
  <2>1. statusAsked' = statusAsked \cup {s} /\ UNCHANGED <<system, pollers, migration, pollMissed>>
    BY <1>6 DEF PollStatus, AskStatus
  <2>2. s \in StatusCalls /\ s.sees = p.id /\ s.visit = p.visit
    BY <1>0 DEF StatusCalls, StatusRequest
  <2> HIDE DEF s
  <2> QED BY <1>0, <1>1, <2>1, <2>2
<1>7. ASSUME NEW r \in statusAsked, MigrationAccepted(r) \/ ServeStatus(r) PROVE MigrationInv'
  <2>1. PICK state \in MigrationStatus \cup {"sent"} :
          statusAsked' = (statusAsked \ {r}) \cup {[r EXCEPT !.state = state]}
    BY <1>0, <1>7 DEF MigrationAccepted, ServeStatus, MigrationState
  <2> DEFINE s == [r EXCEPT !.state = state]
  <2>2. s \in StatusCalls /\ s.sees = r.sees /\ s.visit = r.visit
    BY <1>0 DEF StatusCalls
  <2>3. UNCHANGED <<system, pollers, pollMissed>> /\ migration' \in MigrationState
    BY <1>0, <1>7 DEF MigrationAccepted, ServeStatus, MigrationState
  <2>4. statusAsked' = (statusAsked \ {r}) \cup {s} BY <2>1
  <2> HIDE DEF s
  <2> QED BY <1>0, <1>1, <2>2, <2>3, <2>4
<1>8. ASSUME NEW r \in statusAsked, MigrationRefused(r) PROVE MigrationInv'
  <2>1. statusAsked' = statusAsked \ {r} /\ UNCHANGED <<system, pollers, pollMissed>>
    BY <1>8 DEF MigrationRefused
  <2>2. migration' \in MigrationState
    BY <1>0, <1>8 DEF MigrationRefused, MigrationState
  <2> QED BY <1>0, <1>1, <2>1, <2>2
<1>9. ASSUME NEW r \in statusAsked, StatusLoaded(r) PROVE MigrationInv'
  <2> DEFINE n == Pollings(r, r.state)
  <2>1. /\ r.state \in MigrationStatus /\ statusAsked' = statusAsked \ {r}
        /\ StartMigrationPolling(r, n, r.state) /\ UNCHANGED migration
    BY <1>9 DEF StatusLoaded
  <2>2. n \in Nat /\ (n = 0 => r.state # Running) BY DEF Pollings
  <2> HIDE DEF n
  <2> QED BY <2>1, <2>2, PollingStarted
<1>10. ASSUME NEW r \in statusAsked, StatusNotLoaded(r) PROVE MigrationInv'
  <2> DEFINE n == Pollings(r, "unknown")
  <2>1. /\ statusAsked' = statusAsked \ {r}
        /\ StartMigrationPolling(r, n, system.shown) /\ UNCHANGED migration
    BY <1>10 DEF StatusNotLoaded
  <2>2. n \in Nat /\ system.shown \in MigrationStatus
    BY <1>0 DEF Pollings, SystemState, Running
  <2> HIDE DEF n
  <2> QED BY <2>1, <2>2, PollingStarted
<1>11. ASSUME NEW r \in statusAsked, StatusPolled(r) PROVE MigrationInv'
  <2>1. r.state \in MigrationStatus /\ statusAsked' = statusAsked \ {r} /\ UNCHANGED migration
    BY <1>11 DEF StatusPolled
  <2>2. CASE EndsPolling(r.state)
    <3>1. IntervalCleared(r, r.state) /\ UNCHANGED pollMissed /\ r.state # Running
      BY <1>11, <2>2 DEF StatusPolled, EndsPolling
    <3> QED BY <1>0, <2>1, <3>1, PollingEnded
  <2>3. CASE ~EndsPolling(r.state)
    <3>1. /\ system' = IF Here(r) THEN [system EXCEPT !.shown = r.state] ELSE system
          /\ pollMissed' = (pollMissed \/ (Here(r) /\ \A p \in pollers : p.id # r.sees))
          /\ UNCHANGED pollers
      BY <1>11, <2>3 DEF StatusPolled
    <3>2. /\ system' \in SystemState /\ system'.made = system.made
          /\ system'.visit = system.visit /\ system'.open = system.open
          /\ system'.handle = system.handle
          /\ ~Here(r) => system' = system
      BY <1>0, <2>1, <3>1 DEF SystemState
    <3>3. FollowsMigration'
      <4>1. CASE ~Here(r) BY <4>1, <1>0, <3>1, <3>2 DEF FollowsMigration
      <4>2. CASE Here(r) /\ \A p \in pollers : p.id # r.sees
        <5>1. pollMissed' = TRUE BY <4>2, <3>1
        <5> QED BY <5>1, <1>0, <3>1, <3>2 DEF FollowsMigration
      <4>3. CASE Here(r) /\ \E p \in pollers : p.id = r.sees
        <5>1. \E p \in pollers : p.visit = system.visit
          BY <4>3, <1>0 DEF IntervalsInv, Here
        <5> QED BY <5>1, <1>0, <3>1, <3>2 DEF FollowsMigration
      <4> QED BY <4>1, <4>2, <4>3
    <3> QED BY <1>0, <2>1, <3>1, <3>2, <3>3 DEF MigrationInv, MigrationTypes, IntervalsInv
  <2> QED BY <2>2, <2>3
<1>12. ASSUME NEW r \in statusAsked, StatusNotPolled(r) PROVE MigrationInv'
  <2>1. /\ statusAsked' = statusAsked \ {r} /\ IntervalCleared(r, system.shown)
        /\ pollMissed' = (pollMissed \/ Here(r)) /\ UNCHANGED migration
    BY <1>12 DEF StatusNotPolled
  <2>2. system.shown \in MigrationStatus /\ Here(r) \in BOOLEAN
    BY <1>0 DEF SystemState, Here
  <2> QED BY <1>0, <2>1, <2>2, PollingEnded
<1>13. CASE UNCHANGED migrationVars
  BY <1>0, <1>13 DEF migrationVars, MigrationInv, MigrationTypes, IntervalsInv, FollowsMigration
<1> QED
  BY <1>2, <1>3, <1>4, <1>5, <1>6, <1>7, <1>8, <1>9, <1>10, <1>11, <1>12, <1>13
  DEF MigrationNext, StatusAnswers, MigrationGoesOn

-----------------------------------------------------------------------------
(***************************************************************************)
(* The import dialog.                                                      *)
(***************************************************************************)
DialogIntervals == [no : Nat \ {0}, task : Nat \ {0}]
Handles == DialogIntervals \cup {NoInterval}
TaskStatuses == [import : Nat, state : {"none", "processing", "completed", "failed", "unknown"}]
DialogState == [supported : BOOLEAN, visible : BOOLEAN, step : 0..2,
                preview : SUBSET Workstations, mappings : SUBSET Workstations,
                lined : SUBSET Workstations, status : TaskStatuses,
                polling : Handles, uploading : BOOLEAN]
UploadCalls == [kind : {"upload"}, opening : Nat, archive : SUBSET Workstations,
                task : Nat, polling : Handles]
StartCalls == [kind : {"start"}, opening : Nat, archive : SUBSET Workstations,
               lined : SUBSET Workstations, task : Nat, polling : Handles]
DialogPolls == [interval : DialogIntervals, opening : Nat, status : TaskStatuses,
                passed : BOOLEAN]
ImportTasks == [import : Nat \ {0}, state : {"processing", "completed", "failed"}]

DialogTypes ==
    /\ dialog \in DialogState /\ mounted \in BOOLEAN
    /\ alive \subseteq DialogIntervals
    /\ calls \subseteq UploadCalls \cup StartCalls
    /\ polls \in Seq(DialogPolls)
    /\ imports \in Seq([unlined : SUBSET Workstations, opening : Nat])
    /\ taskTable \in Seq(ImportTasks)
    /\ {intervals, opening, restarts} \subseteq Nat
    /\ past \in [stray : BOOLEAN, overtaken : BOOLEAN]

\* Every line was chosen for what is started, and nothing is shown without a page.
LinesChosen ==
    /\ mounted \/ dialog = Closed
    /\ dialog.preview \subseteq dialog.mappings
    /\ \A c \in calls : c.kind = "start" => c.archive \subseteq c.lined
    /\ \A n \in DOMAIN imports : imports[n].unlined = {}

Unspoilt == restarts = 0 /\ ~past.stray

\* x is of a task whose import was started in that opening.
StartedIn(x, of) == x.task \in DOMAIN imports /\ imports[x.task].opening = of

\* All there is of an import belongs to the opening it was started in.
TasksOfImports ==
    /\ Len(taskTable) = Len(imports)
    /\ \A t \in DOMAIN taskTable : taskTable[t].import = t
CallsOfOpening ==
    \A c \in calls :
       c.opening <= opening /\ (c.kind = "start" /\ c.task # 0 => StartedIn(c, c.opening))
IntervalsOfOpening == \A i \in alive : dialog.visible /\ StartedIn(i, opening)
PollsOfOpening ==
    \A k \in DOMAIN polls :
       /\ polls[k].opening <= opening /\ StartedIn(polls[k].interval, polls[k].opening)
       /\ \/ polls[k].status = NoStatus
          \/ /\ polls[k].status.import = polls[k].interval.task
             /\ polls[k].status.state \in {"processing", "completed", "failed"}
StatusOfOpening ==
    dialog.status.import # 0 =>
        /\ dialog.visible /\ dialog.status.import \in DOMAIN imports
        /\ imports[dialog.status.import].opening = opening
OfTheirOpening ==
    /\ TasksOfImports /\ CallsOfOpening /\ IntervalsOfOpening
    /\ PollsOfOpening /\ StatusOfOpening

Ours(x) == x.opening = opening
Unpolled == alive = {} /\ \A k \in DOMAIN polls : ~Ours(polls[k])
TaskEnded(i) == Ended(taskTable[i.task].state)

\* A call holds the dialog in its step, and what polls, or what the polls
\* in flight are going to answer, ends with the task.
OneCall ==
    /\ \A c, d \in calls : Ours(c) /\ Ours(d) => c = d
    /\ \A c \in calls : Ours(c) =>
         \/ c.kind = "upload" /\ dialog.step = 0 /\ dialog.uploading
         \/ c.kind = "start" /\ dialog.step = 2 /\ Unpolled
    /\ dialog.step # 2 => Unpolled
OneTask ==
    /\ \A j, k \in DOMAIN polls :
         Ours(polls[j]) /\ Ours(polls[k]) => polls[j].interval = polls[k].interval
    /\ \A k \in DOMAIN polls : Ours(polls[k]) => alive \subseteq {polls[k].interval}
PollsEnd ==
    /\ \A k \in DOMAIN polls : Ours(polls[k]) =>
         /\ Ended(polls[k].status.state) => TaskEnded(polls[k].interval)
         /\ \/ polls[k].passed \/ alive # {} \/ Ended(polls[k].status.state)
            \/ polls[k].status = NoStatus /\ TaskEnded(polls[k].interval)
    /\ \A j, k \in DOMAIN polls :
         (j < k /\ Ours(polls[j]) /\ Ours(polls[k])
            /\ Ended(polls[j].status.state) /\ polls[k].status # NoStatus)
           => Ended(polls[k].status.state)
DialogWaits ==
    (dialog.step = 2 /\ dialog.supported /\ ~past.overtaken) =>
        \/ alive # {} \/ Ended(dialog.status.state)
        \/ \E c \in calls : c.kind = "start" /\ Ours(c)
Watched == OneCall /\ OneTask /\ PollsEnd /\ DialogWaits

ImportInv ==
    /\ DialogTypes /\ OneInterval /\ LinesChosen
    /\ Unspoilt => OfTheirOpening
    /\ (Unspoilt /\ dialog.visible) => Watched

LEMMA ImportStart == ImportInit => ImportInv
<1> SUFFICES ASSUME ImportInit PROVE ImportInv
  OBVIOUS
<1>1. dialog = Closed /\ mounted = TRUE /\ alive = {} /\ calls = {} /\ polls = <<>>
      /\ intervals = 0 /\ opening = 0 /\ imports = <<>> /\ taskTable = <<>> /\ restarts = 0
      /\ past = [stray |-> FALSE, overtaken |-> FALSE]
  BY DEF ImportInit
<1>2. Closed \in DialogState /\ ~Closed.visible /\ Closed.preview = {} /\ Closed.mappings = {}
      /\ Closed.status.import = 0
  BY DEF Closed, DialogState, TaskStatuses, Handles, NoArchive, NoStatus
<1>3. DialogTypes BY <1>1, <1>2 DEF DialogTypes
<1>4. OneInterval /\ LinesChosen BY <1>1, <1>2 DEF OneInterval, LinesChosen
<1>5. OfTheirOpening
  BY <1>1, <1>2 DEF OfTheirOpening, TasksOfImports, CallsOfOpening, IntervalsOfOpening,
     PollsOfOpening, StatusOfOpening
<1> QED BY <1>1, <1>2, <1>3, <1>4, <1>5 DEF ImportInv

\* The j-th poll was here before the k-th answer came.
Earlier(k, j) == IF j < k THEN j ELSE j + 1

\* One answer comes, or is lost, and the other polls stay in their order.
LEMMA PollsRemoved ==
  ASSUME DialogTypes, NEW k \in DOMAIN polls, Removed(k) \/ polls' = RemoveAt(polls, k)
  PROVE  /\ polls' \in Seq(DialogPolls)
         /\ DOMAIN polls' = 1 .. Len(polls) - 1
         /\ \A j \in DOMAIN polls' :
              LET before == polls[Earlier(k, j)] IN
              /\ Earlier(k, j) \in DOMAIN polls
              /\ polls'[j].interval = before.interval /\ polls'[j].opening = before.opening
              /\ polls'[j].status = before.status /\ (before.passed => polls'[j].passed)
              /\ Removed(k) /\ j < k /\ before.status # NoStatus => polls'[j].passed
<1>1. /\ polls \in Seq(DialogPolls) /\ Len(polls) \in Nat /\ DOMAIN polls = 1 .. Len(polls)
      /\ \A j \in 1 .. Len(polls) : polls[j] \in DialogPolls
  BY LenProperties, ElementOfSeq DEF DialogTypes
<1>2. CASE polls' = RemoveAt(polls, k) /\ ~Removed(k)
  <2>1. /\ polls' \in Seq(DialogPolls) /\ Len(polls') = Len(polls) - 1
        /\ \A j \in 1 .. Len(polls) - 1 : polls'[j] = IF j < k THEN polls[j] ELSE polls[j + 1]
    BY <1>1, <1>2, RemovedElement
  <2>2. DOMAIN polls' = 1 .. Len(polls) - 1 BY <2>1, LenProperties
  <2> QED BY <1>1, <1>2, <2>1, <2>2 DEF Earlier
<1>3. CASE Removed(k)
  <2> DEFINE marked(j) == [polls[j] EXCEPT !.passed = @ \/ (j < k /\ polls[j].status # NoStatus)]
             all == [j \in DOMAIN polls |-> marked(j)]
  <2>1. \A j \in DOMAIN polls :
          /\ marked(j) \in DialogPolls /\ marked(j).interval = polls[j].interval
          /\ marked(j).opening = polls[j].opening /\ marked(j).status = polls[j].status
          /\ (polls[j].passed => marked(j).passed)
          /\ j < k /\ polls[j].status # NoStatus => marked(j).passed
    BY <1>1 DEF DialogPolls
  <2>2. polls' = RemoveAt(all, k) BY <1>3 DEF Removed
  <2>3. \A j \in DOMAIN polls : all[j] = marked(j) OBVIOUS
  <2>4. all \in Seq(DialogPolls) /\ Len(all) = Len(polls) /\ DOMAIN all = DOMAIN polls
    <3>1. all \in [1 .. Len(polls) -> DialogPolls] BY <1>1, <2>1, <2>3
    <3> HIDE DEF all
    <3> QED BY <1>1, <3>1, SeqDef, LenProperties
  <2> HIDE DEF marked, all
  <2>5. /\ polls' \in Seq(DialogPolls) /\ Len(polls') = Len(polls) - 1
        /\ \A j \in 1 .. Len(polls) - 1 : polls'[j] = IF j < k THEN all[j] ELSE all[j + 1]
    <3> DEFINE rest == RemoveAt(all, k)
    <3>1. k \in DOMAIN all BY <2>4
    <3>2. /\ rest \in Seq(DialogPolls) /\ Len(rest) = Len(all) - 1
          /\ \A j \in 1 .. Len(all) - 1 : rest[j] = IF j < k THEN all[j] ELSE all[j + 1]
      BY <2>4, <3>1, RemovedElement
    <3> HIDE DEF rest
    <3>3. polls' = rest BY <2>2 DEF rest
    <3>4. Len(all) = Len(polls) BY <2>4
    <3> QED BY <3>2, <3>3, <3>4
  <2>6. DOMAIN polls' = 1 .. Len(polls) - 1 BY <2>5, LenProperties
  <2> QED BY <1>1, <1>3, <2>1, <2>3, <2>5, <2>6 DEF Earlier
<1> QED BY <1>2, <1>3

\* What a dialog that is there is set to.
LEMMA SetDialog ==
  ASSUME DialogTypes, NEW d \in DialogState, Set(d)
  PROVE  dialog' \in DialogState
<1>1. dialog \in DialogState BY DEF DialogTypes
<1> QED BY <1>1 DEF Set

LEMMA MarkedPast ==
  ASSUME DialogTypes, NEW stray \in BOOLEAN, NEW overtaken \in BOOLEAN, Mark(stray, overtaken)
  PROVE  past' \in [stray : BOOLEAN, overtaken : BOOLEAN]
BY DEF Mark, DialogTypes

LEMMA ReplacedIntervals ==
  ASSUME NEW S, NEW i
  PROVE  Replaced(S, i) \subseteq S
BY DEF Replaced

\* What Reset leaves and an archive that was parsed brings, field by field.
LEMMA ResetFields ==
  ASSUME NEW d \in DialogState
  PROVE  /\ Reset(d) \in DialogState
         /\ Reset(d).step = 0 /\ Reset(d).preview = {} /\ Reset(d).mappings = {}
         /\ Reset(d).status = NoStatus /\ Reset(d).polling = d.polling
<1> DEFINE a == [d EXCEPT !.step = 0]
           b == [a EXCEPT !.preview = NoArchive]
           e == [b EXCEPT !.mappings = {}]
           f == [e EXCEPT !.lined = {}]
           g == [f EXCEPT !.status = NoStatus]
<1>1. Reset(d) = g BY DEF Reset
<1>2. 0 \in 0..2 /\ NoArchive = {} /\ NoStatus \in TaskStatuses
  BY DEF NoArchive, NoStatus, TaskStatuses
<1>3. a \in DialogState /\ a.step = 0 /\ a.polling = d.polling BY <1>2 DEF DialogState
<1> HIDE DEF a
<1>4. b \in DialogState /\ b.preview = {} /\ b.step = 0 /\ b.polling = d.polling
  BY <1>2, <1>3 DEF DialogState
<1> HIDE DEF b
<1>5. e \in DialogState /\ e.preview = {} /\ e.mappings = {} /\ e.step = 0 /\ e.polling = d.polling
  BY <1>4 DEF DialogState
<1> HIDE DEF e
<1>6. f \in DialogState /\ f.preview = {} /\ f.mappings = {} /\ f.step = 0 /\ f.polling = d.polling
  BY <1>5 DEF DialogState
<1> HIDE DEF f
<1>7. g \in DialogState /\ g.preview = {} /\ g.mappings = {} /\ g.step = 0
      /\ g.status = NoStatus /\ g.polling = d.polling
  BY <1>2, <1>6 DEF DialogState
<1> QED BY <1>1, <1>7

\* The dialog once the archive it uploaded is read.
Parsed(d, archive) == [d EXCEPT !.uploading = FALSE, !.step = 1, !.preview = archive,
                                !.mappings = archive, !.lined = {}]

LEMMA ParsedFields ==
  ASSUME NEW d \in DialogState, NEW archive \in SUBSET Workstations, NEW p,
         p = Parsed(d, archive)
  PROVE  /\ p \in DialogState /\ p.step = 1 /\ p.preview = archive /\ p.mappings = archive
         /\ p.visible = d.visible /\ p.supported = d.supported
         /\ p.status = d.status /\ p.polling = d.polling
<1> DEFINE
           a == [d EXCEPT !.uploading = FALSE]
           b == [a EXCEPT !.step = 1]
           e == [b EXCEPT !.preview = archive]
           f == [e EXCEPT !.mappings = archive]
           g == [f EXCEPT !.lined = {}]
           kept(r) == /\ r.visible = d.visible /\ r.supported = d.supported
                      /\ r.status = d.status /\ r.polling = d.polling
<1>1. p = g BY DEF Parsed
<1>2. a \in DialogState /\ kept(a) BY DEF DialogState
<1> HIDE DEF a
<1>3. b \in DialogState /\ kept(b) /\ b.step = 1 
  <2>1. 1 \in 0..2 OBVIOUS
  <2> QED BY <1>2, <2>1 DEF DialogState
<1> HIDE DEF b
<1>4. e \in DialogState /\ kept(e) /\ e.step = 1 /\ e.preview = archive
  BY <1>3 DEF DialogState
<1> HIDE DEF e
<1>5. f \in DialogState /\ kept(f) /\ f.step = 1 /\ f.preview = archive /\ f.mappings = archive
  BY <1>4 DEF DialogState
<1> HIDE DEF f
<1>6. g \in DialogState /\ kept(g) /\ g.step = 1 /\ g.preview = archive /\ g.mappings = archive
  BY <1>5 DEF DialogState
<1> HIDE DEF g
<1> QED BY <1>1, <1>6

LEMMA DialogTypesStep == DialogTypes /\ [ImportNext]_importVars => DialogTypes'
<1> SUFFICES ASSUME DialogTypes, [ImportNext]_importVars PROVE DialogTypes'
  OBVIOUS
<1>0. /\ dialog \in DialogState /\ mounted \in BOOLEAN
      /\ alive \subseteq DialogIntervals
      /\ calls \subseteq UploadCalls \cup StartCalls
      /\ polls \in Seq(DialogPolls)
      /\ imports \in Seq([unlined : SUBSET Workstations, opening : Nat])
      /\ taskTable \in Seq(ImportTasks)
      /\ {intervals, opening, restarts} \subseteq Nat
      /\ past \in [stray : BOOLEAN, overtaken : BOOLEAN]
  BY DEF DialogTypes
<1>1. /\ NoStatus \in TaskStatuses /\ NoInterval \in Handles /\ DialogIntervals \subseteq Handles
      /\ NoArchive = {} /\ Closed \in DialogState /\ {0, 1, 2} \subseteq 0..2
  BY DEF Closed, DialogState, NoStatus, TaskStatuses, Handles, NoArchive
<1>2. Reset(dialog) \in DialogState BY <1>0, ResetFields
<1>3. \A c \in calls : (c.kind = "upload" => c \in UploadCalls) /\ (c.kind = "start" => c \in StartCalls)
  BY <1>0 DEF UploadCalls, StartCalls
<1>4. CASE Open
  <2>1. [Reset(dialog) EXCEPT !.visible = TRUE] \in DialogState BY <1>2 DEF DialogState
  <2>2. opening + 1 \in Nat BY <1>0
  <2> QED BY <1>0, <1>4, <2>1, <2>2 DEF Open, DialogTypes, server
<1>5. CASE BackToUpload
  <2>1. dialog' \in DialogState BY <1>0, <1>1, <1>5 DEF BackToUpload, DialogState
  <2> QED BY <1>0, <1>5, <2>1 DEF BackToUpload, DialogTypes, server
<1>6. CASE Confirm
  <2>1. dialog' \in DialogState
    <3>1. dialog' = [dialog EXCEPT !.step = 2] BY <1>6 DEF Confirm
    <3>2. 2 \in 0..2 OBVIOUS
    <3> QED BY <1>0, <3>1, <3>2 DEF DialogState
  <2>2. [kind |-> "start", opening |-> opening, archive |-> dialog.preview,
         lined |-> dialog.lined, task |-> 0, polling |-> dialog.polling] \in StartCalls
    BY <1>0 DEF StartCalls, DialogState
  <2> QED BY <1>0, <1>6, <2>1, <2>2 DEF Confirm, DialogTypes, server
<1>7. CASE Close
  <2>1. [Reset(dialog) EXCEPT !.visible = FALSE] \in DialogState BY <1>2 DEF DialogState
  <2> QED BY <1>0, <1>7, <2>1 DEF Close, DialogTypes, server
<1>8. CASE Leave
  BY <1>0, <1>1, <1>8 DEF Leave, DialogTypes, server
<1>9. ASSUME NEW a \in Archives, Upload(a) PROVE DialogTypes'
  <2>1. dialog' \in DialogState BY <1>0, <1>9 DEF Upload, DialogState
  <2>2. [kind |-> "upload", opening |-> opening, archive |-> a,
         task |-> 0, polling |-> NoInterval] \in UploadCalls
    BY <1>0, <1>1 DEF UploadCalls, Archives
  <2> QED BY <1>0, <1>9, <2>1, <2>2 DEF Upload, DialogTypes, server
<1>10. ASSUME NEW w \in Workstations, MapLine(w) PROVE DialogTypes'
  <2>1. dialog' \in DialogState BY <1>0, <1>10 DEF MapLine, DialogState
  <2> QED BY <1>0, <1>10, <2>1 DEF MapLine, DialogTypes, server
<1>11. ASSUME NEW c \in calls, ServeStart(c) PROVE DialogTypes'
  <2>1. c \in StartCalls /\ Len(taskTable) + 1 \in Nat /\ Len(imports) + 1 \in Nat \ {0}
    <3>1. Len(taskTable) \in Nat /\ Len(imports) \in Nat BY <1>0, LenProperties
    <3> QED BY <1>3, <1>11, <3>1 DEF ServeStart
  <2>2. [c EXCEPT !.task = Len(taskTable) + 1] \in StartCalls BY <2>1 DEF StartCalls
  <2>3. /\ [unlined |-> c.archive \ c.lined, opening |-> c.opening]
             \in [unlined : SUBSET Workstations, opening : Nat]
        /\ [import |-> Len(imports) + 1, state |-> "processing"] \in ImportTasks
    BY <2>1 DEF StartCalls, ImportTasks
  <2>4. /\ imports' \in Seq([unlined : SUBSET Workstations, opening : Nat])
        /\ taskTable' \in Seq(ImportTasks)
    BY <1>0, <1>11, <2>3, AppendProperties DEF ServeStart, CreateTask
  <2> QED BY <1>0, <1>11, <2>2, <2>4 DEF ServeStart, DialogTypes
<1>12. ASSUME NEW c \in calls, UploadParsed(c) PROVE DialogTypes'
  <2> DEFINE d == Parsed(dialog, c.archive)
  <2>1. c.archive \subseteq Workstations BY <1>3, <1>12 DEF UploadParsed, UploadCalls
  <2>3. Set(d) BY <1>12 DEF UploadParsed, Parsed
  <2>2. d \in DialogState BY <1>0, <2>1, ParsedFields
  <2> HIDE DEF d
  <2>4. dialog' \in DialogState BY <2>2, <2>3, SetDialog
  <2>5. Stray(c) \in BOOLEAN BY DEF Stray
  <2>6. past' \in [stray : BOOLEAN, overtaken : BOOLEAN]
    BY <1>12, <2>5, MarkedPast DEF UploadParsed
  <2> QED BY <1>0, <1>12, <2>4, <2>6 DEF UploadParsed, Answered, DialogTypes, server
<1>13. ASSUME NEW c \in calls, NEW missing \in BOOLEAN, UploadFailed(c, missing)
       PROVE  DialogTypes'
  <2> DEFINE d == [dialog EXCEPT !.uploading = FALSE, !.supported = @ /\ ~missing]
  <2>1. d \in DialogState BY <1>0 DEF DialogState
  <2>2. Set(d) BY <1>13 DEF UploadFailed
  <2> HIDE DEF d
  <2>3. dialog' \in DialogState BY <2>1, <2>2, SetDialog
  <2>4. Stray(c) \in BOOLEAN BY DEF Stray
  <2>5. past' \in [stray : BOOLEAN, overtaken : BOOLEAN]
    BY <1>13, <2>4, MarkedPast DEF UploadFailed
  <2> QED BY <1>0, <1>13, <2>3, <2>5 DEF UploadFailed, Answered, DialogTypes, server
<1>14. ASSUME NEW c \in calls, StartAnswered(c) PROVE DialogTypes'
  <2> DEFINE i == [no |-> intervals + 1, task |-> c.task]
             d == [dialog EXCEPT !.polling = i]
             rest == Replaced(alive \ {c.polling}, i)
  <2>1. c.task \in Nat \ {0} /\ intervals + 1 \in Nat \ {0}
    BY <1>0, <1>3, <1>14 DEF StartAnswered, StartCalls
  <2>2. i \in DialogIntervals BY <2>1 DEF DialogIntervals
  <2>3. d \in DialogState BY <1>0, <1>1, <2>2 DEF DialogState
  <2>4. Set(d) /\ alive' = rest \cup {i} BY <1>14 DEF StartAnswered
  <2>5. rest \subseteq alive BY ReplacedIntervals
  <2> HIDE DEF d, i, rest
  <2>6. dialog' \in DialogState BY <2>3, <2>4, SetDialog
  <2>7. Stray(c) \in BOOLEAN BY DEF Stray
  <2>8. past' \in [stray : BOOLEAN, overtaken : BOOLEAN]
    BY <1>14, <2>7, MarkedPast DEF StartAnswered
  <2>9. alive' \subseteq DialogIntervals BY <1>0, <2>2, <2>4, <2>5
  <2> QED BY <1>0, <1>14, <2>1, <2>6, <2>8, <2>9 DEF StartAnswered, Answered, DialogTypes, server
<1>15. ASSUME NEW c \in calls, NEW missing \in BOOLEAN, StartFailed(c, missing)
       PROVE  DialogTypes'
  <2> DEFINE d == [dialog EXCEPT !.supported = @ /\ ~missing, !.step = IF missing THEN 0 ELSE 1]
  <2>1. d \in DialogState
    <3>1. (dialog.supported /\ ~missing) \in BOOLEAN /\ (IF missing THEN 0 ELSE 1) \in 0..2
      BY <1>1
    <3> QED BY <1>0, <3>1 DEF DialogState
  <2>2. Set(d) BY <1>15 DEF StartFailed
  <2> HIDE DEF d
  <2>3. dialog' \in DialogState BY <2>1, <2>2, SetDialog
  <2>4. Stray(c) \in BOOLEAN BY DEF Stray
  <2>5. past' \in [stray : BOOLEAN, overtaken : BOOLEAN]
    BY <1>15, <2>4, MarkedPast DEF StartFailed
  <2> QED BY <1>0, <1>15, <2>3, <2>5 DEF StartFailed, Answered, DialogTypes, server
<1>16. ASSUME NEW i \in alive, Poll(i) PROVE DialogTypes'
  <2>1. [interval |-> i, opening |-> opening, status |-> NoStatus, passed |-> FALSE] \in DialogPolls
    BY <1>0, <1>1 DEF DialogPolls
  <2>2. polls' \in Seq(DialogPolls) BY <1>0, <1>16, <2>1, AppendProperties DEF Poll
  <2> QED BY <1>0, <1>16, <2>2 DEF Poll, DialogTypes, server
<1>17. ASSUME NEW k \in DOMAIN polls, ServePoll(k) PROVE DialogTypes'
  <2> DEFINE task == polls[k].interval.task
             status == IF task \in DOMAIN taskTable THEN taskTable[task]
                                                    ELSE [import |-> 0, state |-> "unknown"]
  <2>1. polls[k] \in DialogPolls BY <1>0, LenProperties, ElementOfSeq
  <2>2. status \in TaskStatuses
    <3>1. CASE task \in DOMAIN taskTable
      <4>1. taskTable[task] \in ImportTasks BY <1>0, <3>1, LenProperties, ElementOfSeq
      <4> QED BY <3>1, <4>1 DEF ImportTasks, TaskStatuses
    <3>2. CASE task \notin DOMAIN taskTable BY <3>2 DEF TaskStatuses
    <3> QED BY <3>1, <3>2
  <2>3. polls' = Append(RemoveAt(polls, k), [polls[k] EXCEPT !.status = status])
    BY <1>17 DEF ServePoll
  <2> HIDE DEF status
  <2>4. [polls[k] EXCEPT !.status = status] \in DialogPolls BY <2>1, <2>2 DEF DialogPolls
  <2>5. RemoveAt(polls, k) \in Seq(DialogPolls) BY <1>0, RemovedElement
  <2>6. polls' \in Seq(DialogPolls) BY <2>3, <2>4, <2>5, AppendProperties
  <2> QED BY <1>0, <1>17, <2>6 DEF ServePoll, DialogTypes, server
<1>18. ASSUME NEW k \in DOMAIN polls, PollAnswered(k) PROVE DialogTypes'
  <2> DEFINE stops == Ended(polls[k].status.state)
             handle == IF stops THEN NoInterval ELSE dialog.polling
             d == [dialog EXCEPT !.status = polls[k].status, !.polling = handle]
             rest == Replaced(alive \ {polls[k].interval}, NoInterval)
  <2>1. polls[k] \in DialogPolls BY <1>0, LenProperties, ElementOfSeq
  <2>2. d \in DialogState BY <1>0, <1>1, <2>1 DEF DialogState, DialogPolls
  <2>3. Set(d) /\ alive' = IF stops THEN rest ELSE alive BY <1>18 DEF PollAnswered
  <2>4. rest \subseteq alive BY ReplacedIntervals
  <2> HIDE DEF d, rest, stops
  <2>5. dialog' \in DialogState BY <2>2, <2>3, SetDialog
  <2>6. Stray(polls[k]) \in BOOLEAN /\ polls[k].passed \in BOOLEAN
    BY <2>1 DEF Stray, DialogPolls
  <2>7. past' \in [stray : BOOLEAN, overtaken : BOOLEAN]
    BY <1>18, <2>6, MarkedPast DEF PollAnswered
  <2>8. polls' \in Seq(DialogPolls) BY <1>18, PollsRemoved DEF PollAnswered
  <2>9. alive' \subseteq DialogIntervals BY <1>0, <2>3, <2>4
  <2> QED BY <1>0, <1>18, <2>5, <2>7, <2>8, <2>9 DEF PollAnswered, DialogTypes, server
<1>19. ASSUME NEW k \in DOMAIN polls, PollUnknown(k) PROVE DialogTypes'
  <2> DEFINE d == [dialog EXCEPT !.polling = NoInterval, !.supported = FALSE]
             rest == Replaced(alive \ {polls[k].interval}, NoInterval)
  <2>1. polls[k] \in DialogPolls BY <1>0, LenProperties, ElementOfSeq
  <2>2. d \in DialogState BY <1>0, <1>1 DEF DialogState
  <2>3. Set(d) /\ alive' = rest BY <1>19 DEF PollUnknown
  <2>4. rest \subseteq alive BY ReplacedIntervals
  <2> HIDE DEF d, rest
  <2>5. dialog' \in DialogState BY <2>2, <2>3, SetDialog
  <2>6. Stray(polls[k]) \in BOOLEAN /\ polls[k].passed \in BOOLEAN
    BY <2>1 DEF Stray, DialogPolls
  <2>7. past' \in [stray : BOOLEAN, overtaken : BOOLEAN]
    BY <1>19, <2>6, MarkedPast DEF PollUnknown
  <2>8. polls' \in Seq(DialogPolls) BY <1>19, PollsRemoved DEF PollUnknown
  <2>9. alive' \subseteq DialogIntervals BY <1>0, <2>3, <2>4
  <2> QED BY <1>0, <1>19, <2>5, <2>7, <2>8, <2>9 DEF PollUnknown, DialogTypes, server
<1>20. ASSUME NEW k \in DOMAIN polls, PollLost(k) PROVE DialogTypes'
  <2>1. polls' \in Seq(DialogPolls) BY <1>20, PollsRemoved DEF PollLost
  <2> QED BY <1>0, <1>20, <2>1 DEF PollLost, DialogTypes, server
<1>21. ASSUME NEW t \in DOMAIN taskTable, NEW s \in {"completed", "failed"}, RunTask(t, s)
       PROVE  DialogTypes'
  <2>1. taskTable[t] \in ImportTasks BY <1>0, LenProperties, ElementOfSeq
  <2>2. [taskTable[t] EXCEPT !.state = s] \in ImportTasks BY <2>1 DEF ImportTasks
  <2>3. taskTable' = [taskTable EXCEPT ![t] = [taskTable[t] EXCEPT !.state = s]]
    BY <1>21 DEF RunTask
  <2>4. taskTable' \in Seq(ImportTasks)
    <3> DEFINE task == [taskTable[t] EXCEPT !.state = s]
    <3>1. taskTable' = [taskTable EXCEPT ![t] = task] /\ task \in ImportTasks BY <2>2, <2>3
    <3> HIDE DEF task
    <3>2. t \in 1 .. Len(taskTable) BY <1>0, LenProperties
    <3> QED BY <1>0, <3>1, <3>2, ExceptSeq
  <2> QED BY <1>0, <1>21, <2>4 DEF RunTask, DialogTypes
<1>22. CASE StartElsewhere
  <2>1. Len(imports) + 1 \in Nat \ {0}
    <3>1. Len(imports) \in Nat BY <1>0, LenProperties
    <3> QED BY <3>1
  <2>2. /\ [unlined |-> {}, opening |-> 0] \in [unlined : SUBSET Workstations, opening : Nat]
        /\ [import |-> Len(imports) + 1, state |-> "processing"] \in ImportTasks
    BY <2>1 DEF ImportTasks
  <2>3. /\ imports' \in Seq([unlined : SUBSET Workstations, opening : Nat])
        /\ taskTable' \in Seq(ImportTasks)
    BY <1>0, <1>22, <2>2, AppendProperties DEF StartElsewhere, CreateTask
  <2> QED BY <1>0, <1>22, <2>3 DEF StartElsewhere, DialogTypes
<1>23. CASE Restart
  <2>1. restarts + 1 \in Nat BY <1>0
  <2> QED BY <1>0, <1>23, <2>1 DEF Restart, DialogTypes
<1>24. CASE UNCHANGED importVars
  BY <1>0, <1>24 DEF importVars, DialogTypes
<1> QED
  BY <1>4, <1>5, <1>6, <1>7, <1>8, <1>9, <1>10, <1>11, <1>12, <1>13, <1>14, <1>15, <1>16,
     <1>17, <1>18, <1>19, <1>20, <1>21, <1>22, <1>23, <1>24
  DEF ImportNext, ImportUser, UploadAnswers, StartAnswers, ServeTasks

\* An interval takes the place of the one that the dialog holds.
LEMMA OneIntervalStep ==
  DialogTypes /\ OneInterval /\ [ImportNext]_importVars => OneInterval'
<1> SUFFICES ASSUME DialogTypes, OneInterval, [ImportNext]_importVars, mounted'
             PROVE  alive' \subseteq {dialog'.polling}
  BY DEF OneInterval
<1>0. dialog \in DialogState /\ mounted \in BOOLEAN BY DEF DialogTypes
<1>1. mounted /\ alive \subseteq {dialog.polling}
  BY DEF OneInterval, ImportNext, ImportUser, Open, BackToUpload, Confirm, Close, Leave, Upload,
     MapLine, ServeStart, UploadAnswers, StartAnswers, UploadParsed, UploadFailed,
     StartAnswered, StartFailed, Poll,
     ServePoll, PollAnswered, PollUnknown, PollLost, ServeTasks, RunTask, StartElsewhere,
     Restart, importVars
\* What replaces the interval the dialog holds leaves none but itself.
<1>2. ASSUME NEW S \in SUBSET alive, NEW i PROVE Replaced(S, i) \subseteq {i}
  BY <1>1 DEF Replaced
<1>3. CASE Open \/ Close
  <2>1. Reset(dialog) \in DialogState /\ Reset(dialog).polling = dialog.polling
    BY <1>0, ResetFields
  <2>2. dialog'.polling = dialog.polling BY <1>3, <2>1 DEF Open, Close, DialogState
  <2>3. alive' \subseteq alive BY <1>3 DEF Open, Close
  <2> QED BY <1>1, <2>2, <2>3
<1>4. CASE BackToUpload \/ Confirm \/ (\E a \in Archives : Upload(a)) \/ (\E w \in Workstations : MapLine(w))
  BY <1>0, <1>1, <1>4 DEF BackToUpload, Confirm, Upload, MapLine, DialogState
<1>5. ASSUME NEW c \in calls, UploadParsed(c) PROVE alive' \subseteq {dialog'.polling}
  <2>1. c.archive \in SUBSET Workstations
    BY <1>5 DEF DialogTypes, UploadParsed, UploadCalls, StartCalls
  <2>2. dialog'.polling = dialog.polling
    <3> DEFINE p == Parsed(dialog, c.archive)
    <3>1. Set(p) BY <1>5 DEF UploadParsed, Parsed
    <3>2. p.polling = dialog.polling BY <1>0, <2>1, ParsedFields
    <3> HIDE DEF p
    <3> QED BY <3>1, <3>2 DEF Set
  <2> QED BY <1>1, <1>5, <2>2 DEF UploadParsed
<1>6. ASSUME NEW c \in calls, NEW missing \in BOOLEAN,
             UploadFailed(c, missing) \/ StartFailed(c, missing)
      PROVE  alive' \subseteq {dialog'.polling}
  BY <1>0, <1>1, <1>6 DEF UploadFailed, StartFailed, Set, DialogState
<1>7. ASSUME NEW c \in calls, StartAnswered(c) PROVE alive' \subseteq {dialog'.polling}
  <2> DEFINE i == [no |-> intervals + 1, task |-> c.task]
  <2>1. /\ alive' = Replaced(alive \ {c.polling}, i) \cup {i}
        /\ dialog' = [dialog EXCEPT !.polling = i]
    BY <1>1, <1>7 DEF StartAnswered, Set
  <2> HIDE DEF i
  <2>2. dialog'.polling = i BY <1>0, <2>1 DEF DialogState
  <2>3. Replaced(alive \ {c.polling}, i) \subseteq {i} BY <1>2
  <2> QED BY <2>1, <2>2, <2>3
<1>8. ASSUME NEW k \in DOMAIN polls, PollAnswered(k) \/ PollUnknown(k)
      PROVE  alive' \subseteq {dialog'.polling}
  <2>1. \/ alive' = alive /\ dialog'.polling = dialog.polling
        \/ /\ alive' = Replaced(alive \ {polls[k].interval}, NoInterval)
           /\ dialog'.polling = NoInterval
    BY <1>0, <1>1, <1>8 DEF PollAnswered, PollUnknown, Set, DialogState
  <2>2. Replaced(alive \ {polls[k].interval}, NoInterval) \subseteq {NoInterval} BY <1>2
  <2> QED BY <1>1, <2>1, <2>2
<1>9. CASE Leave
  BY <1>9 DEF Leave
<1>10. CASE UNCHANGED <<dialog, alive>>
  BY <1>1, <1>10
<1> QED
  BY <1>3, <1>4, <1>5, <1>6, <1>7, <1>8, <1>9, <1>10
  DEF ImportNext, ImportUser, UploadAnswers, StartAnswers, ServeTasks, ServeStart,
  Poll, ServePoll, PollLost,
      RunTask, StartElsewhere, Restart, importVars

LEMMA LinesChosenStep ==
  DialogTypes /\ LinesChosen /\ [ImportNext]_importVars => LinesChosen'
<1> SUFFICES ASSUME DialogTypes, LinesChosen, [ImportNext]_importVars PROVE LinesChosen'
  OBVIOUS
<1>0. /\ dialog \in DialogState /\ mounted \in BOOLEAN
      /\ mounted \/ dialog = Closed
      /\ dialog.preview \subseteq dialog.mappings
      /\ \A c \in calls : c.kind = "start" => c.archive \subseteq c.lined
      /\ \A n \in DOMAIN imports : imports[n].unlined = {}
      /\ imports \in Seq([unlined : SUBSET Workstations, opening : Nat])
      /\ \A c \in calls : (c.kind = "upload" => c \in UploadCalls) /\ (c.kind = "start" => c \in StartCalls)
  BY DEF DialogTypes, LinesChosen, UploadCalls, StartCalls
\* An import without a line missing is added.
<1>1. ASSUME NEW of, CreateTask({}, of) PROVE \A n \in DOMAIN imports' : imports'[n].unlined = {}
  <2> DEFINE e == [unlined |-> {}, opening |-> of]
  <2>1. imports' = Append(imports, e) /\ e.unlined = {} BY <1>1 DEF CreateTask
  <2> HIDE DEF e
  <2>2. /\ DOMAIN imports' = 1 .. Len(imports) + 1 /\ imports'[Len(imports) + 1] = e
        /\ \A n \in 1 .. Len(imports) : imports'[n] = imports[n]
        /\ Len(imports) \in Nat /\ DOMAIN imports = 1 .. Len(imports)
    BY <1>0, <2>1
  <2>3. \A n \in 1 .. Len(imports) + 1 : n \in 1 .. Len(imports) \/ n = Len(imports) + 1
    BY <2>2
  <2> QED BY <1>0, <2>1, <2>2, <2>3
<1>2. CASE Open \/ Close
  <2>1. Reset(dialog) \in DialogState /\ Reset(dialog).preview = {} BY <1>0, ResetFields
  <2>2. dialog'.preview = {} BY <1>2, <2>1 DEF Open, Close, DialogState
  <2> QED BY <1>0, <1>2, <2>2 DEF Open, Close, LinesChosen, server
<1>3. CASE BackToUpload \/ Confirm \/ (\E a \in Archives : Upload(a)) \/ (\E w \in Workstations : MapLine(w))
  <2>1. mounted /\ mounted' = mounted /\ imports' = imports
    BY <1>3 DEF BackToUpload, Confirm, Upload, MapLine, OffersMapping, OffersUpload, server
  <2>2. dialog'.preview = dialog.preview /\ dialog'.mappings = dialog.mappings
    <3>1. \/ \E n \in {0, 2} : dialog' = [dialog EXCEPT !.step = n]
          \/ dialog' = [dialog EXCEPT !.uploading = TRUE]
          \/ \E l : dialog' = [dialog EXCEPT !.lined = l]
      BY <1>3 DEF BackToUpload, Confirm, Upload, MapLine
    <3>2. CASE \E n \in {0, 2} : dialog' = [dialog EXCEPT !.step = n]
      BY <1>0, <3>2 DEF DialogState
    <3>3. CASE dialog' = [dialog EXCEPT !.uploading = TRUE]
      BY <1>0, <3>3 DEF DialogState
    <3>4. CASE \E l : dialog' = [dialog EXCEPT !.lined = l]
      BY <1>0, <3>4 DEF DialogState
    <3> QED BY <3>1, <3>2, <3>3, <3>4
  <2>3. \A c \in calls' : c.kind = "start" => c.archive \subseteq c.lined
    BY <1>0, <1>3 DEF BackToUpload, Confirm, Upload, MapLine
  <2> QED BY <1>0, <2>1, <2>2, <2>3 DEF LinesChosen
<1>4. CASE Leave
  BY <1>0, <1>4 DEF Leave, LinesChosen, server, Closed, NoArchive
<1>5. ASSUME NEW c \in calls, UploadParsed(c) PROVE LinesChosen'
  <2>1. c.archive \in SUBSET Workstations BY <1>0, <1>5 DEF UploadParsed, UploadCalls
  <2> DEFINE p == Parsed(dialog, c.archive)
  <2>2. mounted => dialog'.preview \subseteq dialog'.mappings
    <3>1. p.preview = c.archive /\ p.mappings = c.archive
      <4>1. dialog \in DialogState BY <1>0
      <4> QED BY <4>1, <2>1, ParsedFields
    <3>2. mounted => dialog' = p BY <1>5 DEF UploadParsed, Set, Parsed
    <3> HIDE DEF p
    <3> QED BY <3>1, <3>2
  <2>3. ~mounted => dialog' = dialog BY <1>5 DEF UploadParsed, Set
  <2> QED BY <1>0, <1>5, <2>2, <2>3 DEF UploadParsed, Answered, LinesChosen, server
<1>6. ASSUME NEW d, Set(d), mounted' = mounted, imports' = imports, calls' \subseteq calls,
             d.preview = dialog.preview, d.mappings = dialog.mappings
      PROVE  LinesChosen'
  BY <1>0, <1>6 DEF Set, LinesChosen
<1>7. ASSUME NEW c \in calls, NEW missing \in BOOLEAN, UploadFailed(c, missing)
      PROVE  LinesChosen'
  <2> DEFINE d == [dialog EXCEPT !.uploading = FALSE, !.supported = @ /\ ~missing]
  <2>1. d.preview = dialog.preview /\ d.mappings = dialog.mappings BY <1>0 DEF DialogState
  <2>2. Set(d) /\ mounted' = mounted /\ imports' = imports /\ calls' \subseteq calls
    BY <1>7 DEF UploadFailed, Answered, server
  <2> HIDE DEF d
  <2> QED BY <1>6, <2>1, <2>2
<1>8. ASSUME NEW c \in calls, NEW missing \in BOOLEAN, StartFailed(c, missing)
      PROVE  LinesChosen'
  <2> DEFINE d == [dialog EXCEPT !.supported = @ /\ ~missing, !.step = IF missing THEN 0 ELSE 1]
  <2>1. d.preview = dialog.preview /\ d.mappings = dialog.mappings BY <1>0 DEF DialogState
  <2>2. Set(d) /\ mounted' = mounted /\ imports' = imports /\ calls' \subseteq calls
    BY <1>8 DEF StartFailed, Answered, server
  <2> HIDE DEF d
  <2> QED BY <1>6, <2>1, <2>2
<1>9. ASSUME NEW c \in calls, StartAnswered(c) PROVE LinesChosen'
  <2> DEFINE d == [dialog EXCEPT !.polling = [no |-> intervals + 1, task |-> c.task]]
  <2>1. d.preview = dialog.preview /\ d.mappings = dialog.mappings BY <1>0 DEF DialogState
  <2>2. Set(d) /\ mounted' = mounted /\ imports' = imports /\ calls' \subseteq calls
    BY <1>9 DEF StartAnswered, Answered, server
  <2> HIDE DEF d
  <2> QED BY <1>6, <2>1, <2>2
<1>10. ASSUME NEW k \in DOMAIN polls, PollAnswered(k) PROVE LinesChosen'
  <2> DEFINE handle == IF Ended(polls[k].status.state) THEN NoInterval ELSE dialog.polling
             d == [dialog EXCEPT !.status = polls[k].status, !.polling = handle]
  <2>1. d.preview = dialog.preview /\ d.mappings = dialog.mappings BY <1>0 DEF DialogState
  <2>2. Set(d) /\ mounted' = mounted /\ imports' = imports /\ calls' \subseteq calls
    BY <1>10 DEF PollAnswered, server
  <2> HIDE DEF d
  <2> QED BY <1>6, <2>1, <2>2
<1>11. ASSUME NEW k \in DOMAIN polls, PollUnknown(k) PROVE LinesChosen'
  <2> DEFINE d == [dialog EXCEPT !.polling = NoInterval, !.supported = FALSE]
  <2>1. d.preview = dialog.preview /\ d.mappings = dialog.mappings BY <1>0 DEF DialogState
  <2>2. Set(d) /\ mounted' = mounted /\ imports' = imports /\ calls' \subseteq calls
    BY <1>11 DEF PollUnknown, server
  <2> HIDE DEF d
  <2> QED BY <1>6, <2>1, <2>2
<1>12. ASSUME NEW c \in calls, ServeStart(c) PROVE LinesChosen'
  <2>1. c \in StartCalls /\ c.archive \ c.lined = {} BY <1>0, <1>12 DEF ServeStart
  <2>2. CreateTask({}, c.opening) BY <1>12, <2>1 DEF ServeStart
  <2>3. LET e == [c EXCEPT !.task = Len(taskTable) + 1] IN
          e.kind = "start" /\ e.archive = c.archive /\ e.lined = c.lined
    BY <2>1 DEF StartCalls
  <2>4. \A e \in calls' : e.kind = "start" => e.archive \subseteq e.lined
    BY <1>0, <1>12, <2>1, <2>3 DEF ServeStart
  <2>5. \A n \in DOMAIN imports' : imports'[n].unlined = {} BY <1>1, <2>2
  <2> QED BY <1>0, <1>12, <2>4, <2>5 DEF ServeStart, LinesChosen
<1>13. CASE StartElsewhere
  <2>1. \A n \in DOMAIN imports' : imports'[n].unlined = {} BY <1>1, <1>13 DEF StartElsewhere
  <2> QED BY <1>0, <1>13, <2>1 DEF StartElsewhere, LinesChosen
<1>14. CASE UNCHANGED <<dialog, mounted, calls, imports>>
  BY <1>0, <1>14 DEF LinesChosen
<1> QED
  BY <1>2, <1>3, <1>4, <1>5, <1>7, <1>8, <1>9, <1>10, <1>11, <1>12, <1>13, <1>14
  DEF ImportNext, ImportUser, UploadAnswers, StartAnswers, ServeTasks, Poll, ServePoll, PollLost,
      RunTask, Restart, importVars, server

\* What is undisturbed was so before, and an answer that disturbs nothing
\* is one to the opening of the dialog that is there.
LEMMA UnspoiltBefore ==
  ASSUME DialogTypes, [ImportNext]_importVars, Unspoilt'
  PROVE  Unspoilt /\ restarts' = restarts
<1>1. restarts \in Nat /\ restarts' = 0 /\ past'.stray = FALSE
      /\ past \in [stray : BOOLEAN, overtaken : BOOLEAN]
  <2>1. past' \in [stray : BOOLEAN, overtaken : BOOLEAN]
    BY DialogTypesStep DEF DialogTypes
  <2> QED BY <2>1 DEF DialogTypes, Unspoilt
<1>2. CASE Restart
  BY <1>1, <1>2 DEF Restart
<1>3. CASE \E stray, overtaken : Mark(stray, overtaken) /\ restarts' = restarts
  BY <1>1, <1>3 DEF Mark, Unspoilt
<1>4. CASE past' = past /\ restarts' = restarts
  BY <1>1, <1>4 DEF Unspoilt
<1> QED
  BY <1>2, <1>3, <1>4
  DEF ImportNext, ImportUser, Open, BackToUpload, Confirm, Close, Leave, Upload,
     MapLine, ServeStart, UploadAnswers, StartAnswers, UploadParsed, UploadFailed,
     StartAnswered, StartFailed, Poll,
     ServePoll, PollAnswered, PollUnknown, PollLost, ServeTasks, RunTask, StartElsewhere,
     importVars, server

LEMMA NotStray ==
  ASSUME DialogTypes, NEW c, NEW overtaken, Mark(Stray(c), overtaken), Unspoilt'
  PROVE  mounted /\ dialog.visible /\ Ours(c)
<1>1. past' = [stray |-> past.stray \/ Stray(c), overtaken |-> past.overtaken \/ overtaken]
  BY DEF Mark
<1>2. past'.stray = (past.stray \/ Stray(c)) /\ ~past'.stray
  BY <1>1 DEF Unspoilt
<1>3. mounted \in BOOLEAN /\ dialog.visible \in BOOLEAN BY DEF DialogTypes, DialogState
<1> QED BY <1>2, <1>3 DEF Stray, Ours

\* An import is added, and the task of it.
LEMMA ImportAdded ==
  ASSUME DialogTypes, TasksOfImports, NEW unlined, NEW of, CreateTask(unlined, of)
  PROVE  /\ TasksOfImports'
         /\ Len(taskTable) + 1 \in DOMAIN imports' /\ imports'[Len(taskTable) + 1].opening = of
         /\ \A t \in DOMAIN imports : t \in DOMAIN imports' /\ imports'[t] = imports[t]
         /\ \A t \in DOMAIN taskTable : taskTable'[t] = taskTable[t]
<1> DEFINE e == [unlined |-> unlined, opening |-> of]
           task == [import |-> Len(imports) + 1, state |-> "processing"]
<1>1. /\ imports' = Append(imports, e) /\ taskTable' = Append(taskTable, task)
      /\ e.opening = of /\ task.import = Len(imports) + 1
  BY DEF CreateTask
<1> HIDE DEF e, task
<1>2. /\ imports \in Seq([unlined : SUBSET Workstations, opening : Nat])
      /\ taskTable \in Seq(ImportTasks) /\ Len(imports) \in Nat /\ Len(taskTable) = Len(imports)
      /\ \A t \in DOMAIN taskTable : taskTable[t].import = t
  BY LenProperties DEF DialogTypes, TasksOfImports
<1>3. /\ DOMAIN imports = 1 .. Len(imports) /\ DOMAIN imports' = 1 .. Len(imports) + 1
      /\ imports'[Len(imports) + 1] = e
      /\ \A t \in 1 .. Len(imports) : imports'[t] = imports[t]
  BY <1>1, <1>2
<1>4. /\ DOMAIN taskTable = 1 .. Len(imports) /\ DOMAIN taskTable' = 1 .. Len(imports) + 1
      /\ Len(taskTable') = Len(imports) + 1 /\ Len(imports') = Len(imports) + 1
      /\ taskTable'[Len(imports) + 1] = task
      /\ \A t \in 1 .. Len(imports) : taskTable'[t] = taskTable[t]
  BY <1>1, <1>2
<1>5. \A t \in 1 .. Len(imports) + 1 : t \in 1 .. Len(imports) \/ t = Len(imports) + 1
  BY <1>2
<1>6. TasksOfImports' BY <1>1, <1>2, <1>4, <1>5 DEF TasksOfImports
<1> QED BY <1>1, <1>2, <1>3, <1>4, <1>6

\* The fields of the dialog after an answer to the opening that is there.
LEMMA DialogAfterAnswer ==
  ASSUME DialogTypes, mounted
  PROVE  /\ \A c \in calls : UploadParsed(c) =>
              /\ dialog'.visible = dialog.visible /\ dialog'.supported = dialog.supported
              /\ dialog'.status = dialog.status /\ dialog'.step = 1
         /\ \A c \in calls, missing \in BOOLEAN : UploadFailed(c, missing) =>
              /\ dialog'.visible = dialog.visible /\ dialog'.step = dialog.step
              /\ dialog'.status = dialog.status /\ (dialog'.supported => dialog.supported)
         /\ \A c \in calls, missing \in BOOLEAN : StartFailed(c, missing) =>
              /\ dialog'.visible = dialog.visible /\ dialog'.step # 2
              /\ dialog'.status = dialog.status
         /\ \A c \in calls : StartAnswered(c) =>
              /\ dialog'.visible = dialog.visible /\ dialog'.step = dialog.step
              /\ dialog'.status = dialog.status
         /\ \A k \in DOMAIN polls : PollAnswered(k) =>
              /\ dialog'.visible = dialog.visible /\ dialog'.step = dialog.step
              /\ dialog'.status = polls[k].status /\ dialog'.supported = dialog.supported
<1>0. dialog \in DialogState BY DEF DialogTypes
<1>1. ASSUME NEW c \in calls, UploadParsed(c)
      PROVE  /\ dialog'.visible = dialog.visible /\ dialog'.supported = dialog.supported
             /\ dialog'.status = dialog.status /\ dialog'.step = 1
  <2> DEFINE p == Parsed(dialog, c.archive)
  <2>1. c.archive \in SUBSET Workstations
    BY <1>1 DEF DialogTypes, UploadParsed, UploadCalls, StartCalls
  <2>2. /\ p.visible = dialog.visible /\ p.supported = dialog.supported
        /\ p.status = dialog.status /\ p.step = 1
    BY <1>0, <2>1, ParsedFields
  <2>3. dialog' = p BY <1>1 DEF UploadParsed, Set, Parsed
  <2> HIDE DEF p
  <2> QED BY <2>2, <2>3
<1>2. ASSUME NEW c \in calls, NEW missing \in BOOLEAN, UploadFailed(c, missing)
      PROVE  /\ dialog'.visible = dialog.visible /\ dialog'.step = dialog.step
             /\ dialog'.status = dialog.status /\ (dialog'.supported => dialog.supported)
  BY <1>0, <1>2 DEF UploadFailed, Set, DialogState
<1>3. ASSUME NEW c \in calls, NEW missing \in BOOLEAN, StartFailed(c, missing)
      PROVE  /\ dialog'.visible = dialog.visible /\ dialog'.step # 2
             /\ dialog'.status = dialog.status
  BY <1>0, <1>3 DEF StartFailed, Set, DialogState
<1>4. ASSUME NEW c \in calls, StartAnswered(c)
      PROVE  /\ dialog'.visible = dialog.visible /\ dialog'.step = dialog.step
             /\ dialog'.status = dialog.status
  BY <1>0, <1>4 DEF StartAnswered, Set, DialogState
<1>5. ASSUME NEW k \in DOMAIN polls, PollAnswered(k)
      PROVE  /\ dialog'.visible = dialog.visible /\ dialog'.step = dialog.step
             /\ dialog'.status = polls[k].status /\ dialog'.supported = dialog.supported
  BY <1>0, <1>5 DEF PollAnswered, Set, DialogState
<1> QED BY <1>1, <1>2, <1>3, <1>4, <1>5

\* And after what the user does.
LEMMA DialogAfterUser ==
  ASSUME DialogTypes
  PROVE  /\ Open => dialog'.visible /\ dialog'.status = NoStatus /\ dialog'.step = 0
         /\ Close \/ Leave => ~dialog'.visible /\ dialog'.status = NoStatus
         /\ \A a \in Archives : Upload(a) =>
              /\ dialog'.visible = dialog.visible /\ dialog'.supported = dialog.supported
              /\ dialog'.status = dialog.status /\ dialog'.step = dialog.step /\ dialog'.uploading
         /\ \A w \in Workstations : MapLine(w) =>
              /\ dialog'.visible = dialog.visible /\ dialog'.supported = dialog.supported
              /\ dialog'.status = dialog.status /\ dialog'.step = dialog.step
         /\ BackToUpload =>
              /\ dialog'.visible = dialog.visible /\ dialog'.status = dialog.status
              /\ dialog'.step = 0
         /\ Confirm =>
              /\ dialog'.visible = dialog.visible /\ dialog'.status = dialog.status
              /\ dialog'.step = 2
<1>0. dialog \in DialogState BY DEF DialogTypes
<1>1. ASSUME Open PROVE dialog'.visible /\ dialog'.status = NoStatus /\ dialog'.step = 0
  <2>1. Reset(dialog) \in DialogState /\ Reset(dialog).status = NoStatus /\ Reset(dialog).step = 0
    BY <1>0, ResetFields
  <2> QED BY <1>1, <2>1 DEF Open, DialogState
<1>2. ASSUME Close \/ Leave PROVE ~dialog'.visible /\ dialog'.status = NoStatus
  <2>1. Reset(dialog) \in DialogState /\ Reset(dialog).status = NoStatus
    BY <1>0, ResetFields
  <2>2. CASE Close BY <2>1, <2>2 DEF Close, DialogState
  <2>3. CASE Leave BY <2>3 DEF Leave, Closed
  <2> QED BY <1>2, <2>2, <2>3
<1>3. ASSUME NEW a \in Archives, Upload(a)
      PROVE  /\ dialog'.visible = dialog.visible /\ dialog'.supported = dialog.supported
             /\ dialog'.status = dialog.status /\ dialog'.step = dialog.step /\ dialog'.uploading
  BY <1>0, <1>3 DEF Upload, DialogState
<1>4. ASSUME NEW w \in Workstations, MapLine(w)
      PROVE  /\ dialog'.visible = dialog.visible /\ dialog'.supported = dialog.supported
             /\ dialog'.status = dialog.status /\ dialog'.step = dialog.step
  <2>1. PICK l : dialog' = [dialog EXCEPT !.lined = l] BY <1>4 DEF MapLine
  <2> QED BY <1>0, <2>1 DEF DialogState
<1>5. ASSUME BackToUpload
      PROVE  /\ dialog'.visible = dialog.visible /\ dialog'.status = dialog.status
             /\ dialog'.step = 0
  BY <1>0, <1>5 DEF BackToUpload, DialogState
<1>6. ASSUME Confirm
      PROVE  /\ dialog'.visible = dialog.visible /\ dialog'.status = dialog.status
             /\ dialog'.step = 2
  BY <1>0, <1>6 DEF Confirm, DialogState
<1> QED BY <1>1, <1>2, <1>3, <1>4, <1>5, <1>6

\* The k-th poll is answered by the server, and comes behind the others.
LEMMA PollServedLast ==
  ASSUME DialogTypes, NEW k \in DOMAIN polls, ServePoll(k),
         polls[k].interval.task \in DOMAIN taskTable
  PROVE  /\ DOMAIN polls' = 1 .. Len(polls) /\ Len(polls) \in DOMAIN polls
         /\ LET last == polls'[Len(polls)] IN
              /\ last.interval = polls[k].interval /\ last.opening = polls[k].opening
              /\ last.status = taskTable[polls[k].interval.task] /\ last.passed = polls[k].passed
         /\ \A j \in 1 .. Len(polls) - 1 :
              Earlier(k, j) \in DOMAIN polls /\ polls'[j] = polls[Earlier(k, j)]
<1>0. /\ polls \in Seq(DialogPolls) /\ Len(polls) \in Nat /\ DOMAIN polls = 1 .. Len(polls)
      /\ polls[k] \in DialogPolls
  BY LenProperties, ElementOfSeq DEF DialogTypes
<1> DEFINE task == polls[k].interval.task
           status == IF task \in DOMAIN taskTable THEN taskTable[task]
                                                  ELSE [import |-> 0, state |-> "unknown"]
           new == [polls[k] EXCEPT !.status = status]
<1>1. polls' = Append(RemoveAt(polls, k), new) BY DEF ServePoll
<1>2. /\ new.interval = polls[k].interval /\ new.opening = polls[k].opening
      /\ new.status = taskTable[task] /\ new.passed = polls[k].passed
  BY <1>0 DEF DialogPolls
<1>3. new \in DialogPolls
  <2>1. status \in TaskStatuses
    <3>1. taskTable[task] \in ImportTasks BY LenProperties, ElementOfSeq DEF DialogTypes
    <3> QED BY <3>1 DEF ImportTasks, TaskStatuses
  <2> HIDE DEF status
  <2> QED BY <1>0, <2>1 DEF DialogPolls
<1> DEFINE rest == RemoveAt(polls, k)
<1>4. /\ rest \in Seq(DialogPolls) /\ Len(rest) = Len(polls) - 1
      /\ \A i \in 1 .. Len(polls) - 1 : rest[i] = IF i < k THEN polls[i] ELSE polls[i + 1]
  BY <1>0, RemovedElement
<1>5. polls' = Append(rest, new) BY <1>1
<1> HIDE DEF rest, new
<1>6. /\ Len(polls') = Len(rest) + 1 /\ polls'[Len(rest) + 1] = new
      /\ \A i \in 1 .. Len(rest) : polls'[i] = rest[i]
      /\ polls' \in Seq(DialogPolls)
  BY <1>3, <1>4, <1>5, AppendProperties
<1>7. Len(rest) + 1 = Len(polls) /\ DOMAIN polls' = 1 .. Len(polls) /\ Len(polls) \in 1 .. Len(polls)
  <2>1. Len(rest) + 1 = Len(polls) BY <1>0, <1>4
  <2>2. DOMAIN polls' = 1 .. Len(polls') BY <1>6, LenProperties
  <2>3. Len(polls') = Len(polls) BY <1>6, <2>1
  <2>4. Len(polls) \in 1 .. Len(polls)
    <3> DEFINE n == Len(polls)
    <3>1. n \in Nat /\ k \in 1 .. n BY <1>0
    <3> HIDE DEF n
    <3>2. n \in 1 .. n BY <3>1
    <3> QED BY <3>2 DEF n
  <2> QED BY <2>1, <2>2, <2>3, <2>4
<1>8. \A j \in 1 .. Len(polls) - 1 :
        Earlier(k, j) \in DOMAIN polls /\ polls'[j] = polls[Earlier(k, j)]
  BY <1>0, <1>4, <1>6 DEF Earlier
<1> QED BY <1>0, <1>2, <1>6, <1>7, <1>8

LEMMA OfTheirOpeningStep ==
  ASSUME ImportInv, [ImportNext]_importVars, Unspoilt'
  PROVE  OfTheirOpening'
<1>0. /\ DialogTypes /\ OneInterval /\ LinesChosen /\ Unspoilt /\ restarts' = restarts
      /\ TasksOfImports /\ CallsOfOpening /\ IntervalsOfOpening
      /\ PollsOfOpening /\ StatusOfOpening
      /\ dialog \in DialogState /\ mounted \in BOOLEAN /\ opening \in Nat /\ intervals \in Nat
  BY UnspoiltBefore DEF ImportInv, OfTheirOpening, DialogTypes
<1>1. NoStatus.import = 0 BY DEF NoStatus
\* What is the same, or fewer, stays of its opening.
<1>2. ASSUME UNCHANGED <<opening, imports, taskTable>>, calls' \subseteq calls,
             polls' = polls \/ \E k \in DOMAIN polls : Removed(k) \/ polls' = RemoveAt(polls, k)
      PROVE  TasksOfImports' /\ CallsOfOpening' /\ PollsOfOpening'
  <2>1. TasksOfImports' /\ CallsOfOpening'
    BY <1>0, <1>2 DEF TasksOfImports, CallsOfOpening, StartedIn
  <2>2. PollsOfOpening'
    <3>1. CASE polls' = polls BY <1>0, <1>2, <3>1 DEF PollsOfOpening, StartedIn
    <3>2. ASSUME NEW k \in DOMAIN polls, Removed(k) \/ polls' = RemoveAt(polls, k)
          PROVE  PollsOfOpening'
      <4>1. \A j \in DOMAIN polls' :
              LET before == polls[Earlier(k, j)] IN
              /\ Earlier(k, j) \in DOMAIN polls
              /\ polls'[j].interval = before.interval /\ polls'[j].opening = before.opening
              /\ polls'[j].status = before.status
        BY <1>0, <3>2, PollsRemoved
      <4> QED BY <1>0, <1>2, <4>1 DEF PollsOfOpening, StartedIn
    <3> QED BY <1>2, <3>1, <3>2
  <2> QED BY <2>1, <2>2
<1>3. ASSUME UNCHANGED <<opening, imports>>, alive' \subseteq alive,
             dialog'.visible = dialog.visible, dialog'.status = dialog.status
      PROVE  IntervalsOfOpening' /\ StatusOfOpening'
  BY <1>0, <1>3 DEF IntervalsOfOpening, StatusOfOpening, StartedIn
<1>4. ASSUME alive' = {}, dialog'.status = NoStatus
      PROVE  IntervalsOfOpening' /\ StatusOfOpening'
  BY <1>1, <1>4 DEF IntervalsOfOpening, StatusOfOpening
<1>5. CASE Open
  <2>1. alive' = {} /\ dialog'.status = NoStatus
    BY <1>0, <1>5, DialogAfterUser DEF Open, IntervalsOfOpening
  <2>2. opening' = opening + 1 /\ UNCHANGED <<calls, polls, imports, taskTable>>
    BY <1>5 DEF Open, server
  <2>3. \A n \in Nat : n <= opening => n <= opening' BY <1>0, <2>2
  <2>4. /\ \A c \in calls : c.opening \in Nat
        /\ \A k \in DOMAIN polls : polls[k].opening \in Nat
    <3>1. \A k \in DOMAIN polls : polls[k] \in DialogPolls
      BY LenProperties, ElementOfSeq, <1>0 DEF DialogTypes
    <3> QED BY <1>0, <3>1 DEF DialogTypes, UploadCalls, StartCalls, DialogPolls
  <2>5. TasksOfImports' BY <1>0, <2>2 DEF TasksOfImports
  <2>6. CallsOfOpening' BY <1>0, <2>2, <2>3, <2>4 DEF CallsOfOpening, StartedIn
  <2>7. PollsOfOpening' BY <1>0, <2>2, <2>3, <2>4 DEF PollsOfOpening, StartedIn
  <2> QED BY <1>4, <2>1, <2>5, <2>6, <2>7 DEF OfTheirOpening
<1>6. CASE Close \/ Leave
  <2>1. alive' = {} BY <1>0, <1>6 DEF Close, Leave, OneInterval
  <2>2. dialog'.status = NoStatus BY <1>0, <1>6, DialogAfterUser
  <2>3. UNCHANGED <<opening, imports, taskTable, calls, polls>> BY <1>6 DEF Close, Leave, server
  <2> QED BY <1>2, <1>4, <2>1, <2>2, <2>3 DEF OfTheirOpening
<1>7. CASE BackToUpload \/ \E w \in Workstations : MapLine(w)
  <2>1. dialog'.visible = dialog.visible /\ dialog'.status = dialog.status
    <3>1. CASE BackToUpload BY <1>0, <3>1, DialogAfterUser
    <3>2. CASE \E w \in Workstations : MapLine(w) BY <1>0, <3>2, DialogAfterUser, Zenon
    <3> QED BY <1>7, <3>1, <3>2
  <2>2. UNCHANGED <<opening, imports, taskTable, calls, polls, alive>>
    BY <1>7 DEF BackToUpload, MapLine, server
  <2> QED BY <1>2, <1>3, <2>1, <2>2 DEF OfTheirOpening
<1>8. CASE Confirm \/ \E a \in Archives : Upload(a)
  <2>1. dialog'.visible = dialog.visible /\ dialog'.status = dialog.status
    <3>1. CASE Confirm BY <1>0, <3>1, DialogAfterUser
    <3>2. CASE \E a \in Archives : Upload(a) BY <1>0, <3>2, DialogAfterUser, Zenon
    <3> QED BY <1>8, <3>1, <3>2
  <2>2. UNCHANGED <<opening, imports, taskTable, polls, alive>>
    BY <1>8 DEF Confirm, Upload, server
  <2>3. PICK c : calls' = calls \cup {c} /\ c.opening = opening /\ c.task = 0
    <3> DEFINE start == [kind |-> "start", opening |-> opening, archive |-> dialog.preview,
                         lined |-> dialog.lined, task |-> 0, polling |-> dialog.polling]
               upload(a) == [kind |-> "upload", opening |-> opening, archive |-> a,
                             task |-> 0, polling |-> NoInterval]
    <3>1. CASE Confirm
      <4>1. calls' = calls \cup {start} /\ start.opening = opening /\ start.task = 0
        BY <3>1 DEF Confirm
      <4> QED BY <4>1
    <3>2. ASSUME NEW a \in Archives, Upload(a)
          PROVE  \E c : calls' = calls \cup {c} /\ c.opening = opening /\ c.task = 0
      <4>1. calls' = calls \cup {upload(a)} /\ upload(a).opening = opening /\ upload(a).task = 0
        BY <3>2 DEF Upload
      <4> HIDE DEF upload
      <4> QED BY <4>1
    <3> QED BY <1>8, <3>1, <3>2
  <2>4. CallsOfOpening' BY <1>0, <2>2, <2>3 DEF CallsOfOpening, StartedIn
  <2>5. TasksOfImports' BY <1>0, <2>2 DEF TasksOfImports
  <2>6. PollsOfOpening' BY <1>0, <2>2 DEF PollsOfOpening, StartedIn
  <2> QED BY <1>3, <2>1, <2>2, <2>4, <2>5, <2>6 DEF OfTheirOpening
<1>9. ASSUME NEW c \in calls, NEW missing \in BOOLEAN,
             UploadParsed(c) \/ UploadFailed(c, missing) \/ StartFailed(c, missing)
      PROVE  OfTheirOpening'
  <2>1. Mark(Stray(c), FALSE) BY <1>9 DEF UploadParsed, UploadFailed, StartFailed
  <2>2. mounted BY <1>0, <2>1, NotStray
  <2>3. dialog'.visible = dialog.visible /\ dialog'.status = dialog.status
    BY <1>0, <1>9, <2>2, DialogAfterAnswer
  <2>4. UNCHANGED <<opening, imports, taskTable, polls, alive>> /\ calls' \subseteq calls
    BY <1>9 DEF UploadParsed, UploadFailed, StartFailed, Answered, server
  <2> QED BY <1>2, <1>3, <2>3, <2>4 DEF OfTheirOpening
<1>10. ASSUME NEW c \in calls, StartAnswered(c) PROVE OfTheirOpening'
  <2> DEFINE i == [no |-> intervals + 1, task |-> c.task]
  <2>1. Mark(Stray(c), FALSE) BY <1>10 DEF StartAnswered
  <2>2. mounted /\ dialog.visible /\ c.opening = opening BY <1>0, <2>1, NotStray DEF Ours
  <2>3. dialog'.visible = dialog.visible /\ dialog'.status = dialog.status
    BY <1>0, <1>10, <2>2, DialogAfterAnswer
  <2>4. UNCHANGED <<opening, imports, taskTable, polls>> /\ calls' \subseteq calls
    BY <1>10 DEF StartAnswered, Answered, server
  <2>5. StartedIn(c, opening) BY <1>0, <1>10, <2>2 DEF StartAnswered, CallsOfOpening
  <2>6. alive' \subseteq alive \cup {i} /\ i.task = c.task
    BY <1>10, ReplacedIntervals DEF StartAnswered
  <2> HIDE DEF i
  <2>7. IntervalsOfOpening'
    BY <1>0, <2>2, <2>3, <2>4, <2>5, <2>6 DEF IntervalsOfOpening, StartedIn
  <2>8. StatusOfOpening' BY <1>0, <2>3, <2>4 DEF StatusOfOpening
  <2> QED BY <1>2, <2>4, <2>7, <2>8 DEF OfTheirOpening
<1>11. ASSUME NEW i \in alive, Poll(i) PROVE OfTheirOpening'
  <2> DEFINE p == [interval |-> i, opening |-> opening, status |-> NoStatus, passed |-> FALSE]
  <2>1. /\ polls' = Append(polls, p)
        /\ UNCHANGED <<dialog, mounted, alive, calls, opening, imports, taskTable>>
    BY <1>11 DEF Poll, server
  <2>2. StartedIn(p.interval, opening) /\ p.opening = opening /\ p.status = NoStatus
    BY <1>0, <1>11 DEF IntervalsOfOpening
  <2> HIDE DEF p
  <2>3. polls \in Seq(DialogPolls) /\ Len(polls) \in Nat /\ DOMAIN polls = 1 .. Len(polls)
    BY <1>0, LenProperties DEF DialogTypes
  <2>4. \A k \in DOMAIN polls' : (k \in DOMAIN polls /\ polls'[k] = polls[k]) \/ polls'[k] = p
    <3>1. DOMAIN polls' = 1 .. Len(polls) + 1 BY <2>1, <2>3
    <3>2. polls'[Len(polls) + 1] = p /\ \A k \in 1 .. Len(polls) : polls'[k] = polls[k]
      BY <2>1, <2>3
    <3> QED BY <2>3, <3>1, <3>2
  <2>5. PollsOfOpening' BY <1>0, <2>1, <2>2, <2>4 DEF PollsOfOpening, StartedIn
  <2>6. TasksOfImports' /\ CallsOfOpening'
    BY <1>0, <2>1 DEF TasksOfImports, CallsOfOpening, StartedIn
  <2> QED BY <1>3, <2>1, <2>5, <2>6 DEF OfTheirOpening
<1>12. ASSUME NEW k \in DOMAIN polls, ServePoll(k) PROVE OfTheirOpening'
  <2> DEFINE t == polls[k].interval.task
  <2>1. t \in DOMAIN taskTable /\ taskTable[t].import = t
    <3>1. t \in DOMAIN imports BY <1>0 DEF PollsOfOpening, StartedIn
    <3>2. DOMAIN taskTable = DOMAIN imports
      BY <1>0, LenProperties DEF TasksOfImports, DialogTypes
    <3> QED BY <1>0, <3>1, <3>2 DEF TasksOfImports
  <2>2. taskTable[t].state \in {"processing", "completed", "failed"}
    <3>1. taskTable[t] \in ImportTasks
      BY <1>0, <2>1, LenProperties, ElementOfSeq DEF DialogTypes
    <3> QED BY <3>1 DEF ImportTasks
  <2>3. /\ DOMAIN polls' = 1 .. Len(polls) /\ Len(polls) \in DOMAIN polls
        /\ LET last == polls'[Len(polls)] IN
             /\ last.interval = polls[k].interval /\ last.opening = polls[k].opening
             /\ last.status = taskTable[t]
        /\ \A j \in 1 .. Len(polls) - 1 :
             Earlier(k, j) \in DOMAIN polls /\ polls'[j] = polls[Earlier(k, j)]
    BY <1>0, <1>12, <2>1, PollServedLast
  <2>4. UNCHANGED <<dialog, mounted, alive, calls, opening, imports, taskTable>>
    BY <1>12 DEF ServePoll, server
  <2>5. PollsOfOpening'
    <3>1. Len(polls) \in Nat BY <1>0, LenProperties DEF DialogTypes
    <3>2. \A j \in 1 .. Len(polls) : j \in 1 .. Len(polls) - 1 \/ j = Len(polls) BY <3>1
    <3>3. ASSUME NEW j \in DOMAIN polls'
          PROVE  /\ polls'[j].opening <= opening /\ StartedIn(polls'[j].interval, polls'[j].opening)
                 /\ \/ polls'[j].status = NoStatus
                    \/ /\ polls'[j].status.import = polls'[j].interval.task
                       /\ polls'[j].status.state \in {"processing", "completed", "failed"}
      <4>1. CASE j = Len(polls)
        BY <1>0, <2>1, <2>2, <2>3, <4>1 DEF PollsOfOpening
      <4>2. CASE j \in 1 .. Len(polls) - 1
        BY <1>0, <2>3, <4>2 DEF PollsOfOpening
      <4> QED BY <2>3, <3>2, <4>1, <4>2
    <3> QED BY <2>4, <3>3 DEF PollsOfOpening, StartedIn
  <2>6. TasksOfImports' /\ CallsOfOpening'
    BY <1>0, <2>4 DEF TasksOfImports, CallsOfOpening, StartedIn
  <2> QED BY <1>3, <2>4, <2>5, <2>6 DEF OfTheirOpening
<1>13. ASSUME NEW k \in DOMAIN polls, PollAnswered(k) PROVE OfTheirOpening'
  <2>1. Mark(Stray(polls[k]), polls[k].passed) BY <1>13 DEF PollAnswered
  <2>2. mounted /\ dialog.visible /\ polls[k].opening = opening BY <1>0, <2>1, NotStray DEF Ours
  <2>3. dialog'.visible = dialog.visible /\ dialog'.status = polls[k].status
    BY <1>0, <1>13, <2>2, DialogAfterAnswer
  <2>4. UNCHANGED <<opening, imports, taskTable, calls>> /\ Removed(k) /\ alive' \subseteq alive
    BY <1>13, ReplacedIntervals DEF PollAnswered, server
  <2>5. /\ StartedIn(polls[k].interval, opening)
        /\ polls[k].status = NoStatus \/ polls[k].status.import = polls[k].interval.task
    BY <1>0, <2>2 DEF PollsOfOpening
  <2>6. StatusOfOpening'
    BY <1>1, <2>2, <2>3, <2>4, <2>5 DEF StatusOfOpening, StartedIn
  <2>7. IntervalsOfOpening' BY <1>0, <2>3, <2>4 DEF IntervalsOfOpening, StartedIn
  <2> QED BY <1>2, <2>4, <2>6, <2>7 DEF OfTheirOpening
<1>14. ASSUME NEW k \in DOMAIN polls, PollUnknown(k) PROVE OfTheirOpening'
  BY <1>0, <1>14 DEF PollUnknown, PollsOfOpening, NoStatus
<1>15. ASSUME NEW k \in DOMAIN polls, PollLost(k) PROVE OfTheirOpening'
  <2>1. /\ polls' = RemoveAt(polls, k)
        /\ UNCHANGED <<dialog, alive, calls, opening, imports, taskTable>>
    BY <1>15 DEF PollLost, server
  <2> QED BY <1>2, <1>3, <2>1 DEF OfTheirOpening
<1>16. ASSUME NEW c \in calls, ServeStart(c) PROVE OfTheirOpening'
  <2> DEFINE e == [c EXCEPT !.task = Len(taskTable) + 1]
  <2>1. /\ CreateTask(c.archive \ c.lined, c.opening) /\ calls' = (calls \ {c}) \cup {e}
        /\ UNCHANGED <<dialog, alive, polls, opening>>
    BY <1>16 DEF ServeStart
  <2>2. e.task = Len(taskTable) + 1 /\ e.opening = c.opening
    BY <1>0, <1>16 DEF ServeStart, DialogTypes, StartCalls, UploadCalls
  <2> HIDE DEF e
  <2>3. /\ TasksOfImports'
        /\ Len(taskTable) + 1 \in DOMAIN imports' /\ imports'[Len(taskTable) + 1].opening = c.opening
        /\ \A t \in DOMAIN imports : t \in DOMAIN imports' /\ imports'[t] = imports[t]
    BY <1>0, <2>1, ImportAdded
  <2>4. CallsOfOpening'
    BY <1>0, <2>1, <2>2, <2>3 DEF CallsOfOpening, StartedIn
  <2>5. IntervalsOfOpening' /\ StatusOfOpening'
    BY <1>0, <2>1, <2>3 DEF IntervalsOfOpening, StatusOfOpening, StartedIn
  <2>6. PollsOfOpening'
    BY <1>0, <2>1, <2>3 DEF PollsOfOpening, StartedIn
  <2> QED BY <2>3, <2>4, <2>5, <2>6 DEF OfTheirOpening
<1>17. ASSUME NEW t \in DOMAIN taskTable, NEW s, RunTask(t, s) PROVE OfTheirOpening'
  <2>1. /\ taskTable' = [taskTable EXCEPT ![t].state = s]
        /\ UNCHANGED <<dialog, alive, calls, polls, opening, imports>>
    BY <1>17 DEF RunTask
  <2>2. /\ DOMAIN taskTable' = DOMAIN taskTable /\ Len(taskTable') = Len(taskTable)
        /\ \A u \in DOMAIN taskTable : taskTable'[u].import = taskTable[u].import
    <3>1. taskTable \in Seq(ImportTasks) /\ \A u \in DOMAIN taskTable : taskTable[u] \in ImportTasks
      BY <1>0, LenProperties, ElementOfSeq DEF DialogTypes
    <3>2. taskTable' \in Seq(ImportTasks)
      BY <1>0, DialogTypesStep DEF DialogTypes
    <3>3. DOMAIN taskTable' = DOMAIN taskTable BY <2>1
    <3>4. Len(taskTable') = Len(taskTable)
      BY <3>1, <3>2, <3>3, LenProperties
    <3>5. ASSUME NEW u \in DOMAIN taskTable PROVE taskTable'[u].import = taskTable[u].import
      <4>1. CASE u # t BY <2>1, <4>1
      <4>2. CASE u = t
        <5>1. taskTable'[t] = [taskTable[t] EXCEPT !.state = s] BY <2>1
        <5>2. taskTable[t] \in ImportTasks BY <3>1
        <5> QED BY <4>2, <5>1, <5>2 DEF ImportTasks
      <4> QED BY <4>1, <4>2
    <3> QED BY <3>3, <3>4, <3>5
  <2>3. TasksOfImports' BY <1>0, <2>1, <2>2 DEF TasksOfImports
  <2>4. CallsOfOpening' /\ PollsOfOpening'
    BY <1>0, <2>1 DEF CallsOfOpening, PollsOfOpening, StartedIn
  <2> QED BY <1>3, <2>1, <2>3, <2>4 DEF OfTheirOpening
<1>18. CASE StartElsewhere
  BY <1>0, <1>18 DEF StartElsewhere, Unspoilt
<1>19. CASE Restart
  BY <1>0, <1>19, UnspoiltBefore DEF Restart, DialogTypes
<1>20. CASE UNCHANGED importVars
  <2>1. UNCHANGED <<dialog, alive, calls, polls, opening, imports, taskTable>>
    BY <1>20 DEF importVars
  <2> QED BY <1>2, <1>3, <2>1 DEF OfTheirOpening
<1> QED
  BY <1>5, <1>6, <1>7, <1>8, <1>9, <1>10, <1>11, <1>12, <1>13, <1>14, <1>15, <1>16,
     <1>17, <1>18, <1>19, <1>20
  DEF ImportNext, ImportUser, UploadAnswers, StartAnswers, ServeTasks

LEMMA WatchedStep ==
  ASSUME ImportInv, [ImportNext]_importVars, Unspoilt', dialog'.visible
  PROVE  Watched'
<1>0. /\ DialogTypes /\ OneInterval /\ LinesChosen /\ Unspoilt /\ restarts' = restarts
      /\ TasksOfImports /\ CallsOfOpening /\ IntervalsOfOpening
      /\ PollsOfOpening /\ StatusOfOpening
      /\ dialog.visible => OneCall /\ OneTask /\ PollsEnd /\ DialogWaits
      /\ dialog \in DialogState /\ mounted \in BOOLEAN /\ opening \in Nat
  BY UnspoiltBefore DEF ImportInv, OfTheirOpening, DialogTypes, Watched
<1>1. ~Ended(NoStatus.state) /\ NoStatus.import = 0 BY DEF NoStatus, Ended
<1>2. /\ polls \in Seq(DialogPolls) /\ Len(polls) \in Nat /\ DOMAIN polls = 1 .. Len(polls)
      /\ \A k \in DOMAIN polls : polls[k] \in DialogPolls
      /\ \A c \in calls : c.opening \in Nat
      /\ \A k \in DOMAIN polls : polls[k].opening \in Nat
  <2>1. /\ polls \in Seq(DialogPolls) /\ Len(polls) \in Nat /\ DOMAIN polls = 1 .. Len(polls)
        /\ \A k \in DOMAIN polls : polls[k] \in DialogPolls
    BY <1>0, LenProperties, ElementOfSeq DEF DialogTypes
  <2>2. \A c \in calls : c.opening \in Nat
    BY <1>0 DEF DialogTypes, UploadCalls, StartCalls
  <2>3. \A k \in DOMAIN polls : polls[k].opening \in Nat BY <2>1 DEF DialogPolls
  <2> QED BY <2>1, <2>2, <2>3
<1>3. \A k \in DOMAIN polls : polls[k].interval.task \in DOMAIN taskTable
  <2>1. DOMAIN taskTable = DOMAIN imports
    BY <1>0, LenProperties DEF TasksOfImports, DialogTypes
  <2> QED BY <1>0, <2>1 DEF PollsOfOpening, StartedIn
\* Without a call or a poll of this opening, nothing waits and nothing can go wrong.
<1>4. ASSUME opening' = opening, \A c \in calls' : ~Ours(c), Unpolled', dialog'.step # 2
      PROVE  Watched'
  BY <1>4 DEF Watched, OneCall, OneTask, PollsEnd, DialogWaits, Ours, Unpolled
\* The polls that remain are of one task.
<1>5. ASSUME opening' = opening, alive' \subseteq alive, dialog.visible,
             NEW k \in DOMAIN polls, Removed(k) \/ polls' = RemoveAt(polls, k)
      PROVE  /\ OneTask'
             /\ \A j \in DOMAIN polls' :
                  LET before == polls[Earlier(k, j)] IN
                  /\ Earlier(k, j) \in DOMAIN polls
                  /\ polls'[j].interval = before.interval /\ polls'[j].opening = before.opening
                  /\ polls'[j].status = before.status /\ (before.passed => polls'[j].passed)
                  /\ Removed(k) /\ j < k /\ before.status # NoStatus => polls'[j].passed
             /\ \A i, j \in DOMAIN polls' : i < j => Earlier(k, i) < Earlier(k, j)
             /\ \A j \in DOMAIN polls' : ~(j < k) => k < Earlier(k, j)
             /\ Unpolled => Unpolled'
             /\ \A i, j \in DOMAIN polls' :
                  (i < j /\ Ours(polls'[i]) /\ Ours(polls'[j])
                     /\ Ended(polls'[i].status.state) /\ polls'[j].status # NoStatus)
                    => Ended(polls'[j].status.state)
  <2>1. /\ DOMAIN polls' = 1 .. Len(polls) - 1
        /\ \A j \in DOMAIN polls' :
             LET before == polls[Earlier(k, j)] IN
             /\ Earlier(k, j) \in DOMAIN polls
             /\ polls'[j].interval = before.interval /\ polls'[j].opening = before.opening
             /\ polls'[j].status = before.status /\ (before.passed => polls'[j].passed)
             /\ Removed(k) /\ j < k /\ before.status # NoStatus => polls'[j].passed
    BY <1>0, <1>5, PollsRemoved
  <2>2. /\ \A i, j \in DOMAIN polls' : i < j => Earlier(k, i) < Earlier(k, j)
        /\ \A j \in DOMAIN polls' : ~(j < k) => k < Earlier(k, j)
    BY <1>2, <2>1 DEF Earlier
  <2>3. OneTask' BY <1>0, <1>5, <2>1 DEF OneTask, Ours
  <2>4. Unpolled => Unpolled' BY <1>5, <2>1 DEF Unpolled, Ours
  <2>5. \A i, j \in DOMAIN polls' :
          (i < j /\ Ours(polls'[i]) /\ Ours(polls'[j])
             /\ Ended(polls'[i].status.state) /\ polls'[j].status # NoStatus)
            => Ended(polls'[j].status.state)
    BY <1>0, <1>5, <2>1, <2>2 DEF PollsEnd, Ours
  <2> QED BY <2>1, <2>2, <2>3, <2>4, <2>5
<1>6. CASE Open
  <2>1. opening' = opening + 1 /\ calls' = calls /\ polls' = polls /\ dialog'.step # 2
    BY <1>0, <1>6, DialogAfterUser DEF Open
  <2>2. alive' = {} BY <1>0, <1>6 DEF Open, IntervalsOfOpening
  <2>3. /\ \A c \in calls : c.opening # opening'
        /\ \A k \in DOMAIN polls : polls[k].opening # opening'
    BY <1>0, <1>2, <2>1 DEF CallsOfOpening, PollsOfOpening
  <2> QED BY <2>1, <2>2, <2>3
          DEF Watched, OneCall, OneTask, PollsEnd, DialogWaits, Ours, Unpolled
<1>7. CASE Close \/ Leave
  BY <1>0, <1>7, DialogAfterUser
\* In the second step there is no call.
<1>8. ASSUME OffersMapping, dialog.visible PROVE Unpolled /\ \A c \in calls : ~Ours(c)
  BY <1>0, <1>8 DEF OffersMapping, OneCall
<1>9. CASE BackToUpload
  <2>1. dialog.visible /\ dialog'.step = 0 BY <1>0, <1>9, DialogAfterUser
  <2>2. UNCHANGED <<opening, calls, polls, alive>> BY <1>9 DEF BackToUpload
  <2> QED BY <1>4, <1>8, <1>9, <2>1, <2>2 DEF BackToUpload, Unpolled, Ours
<1>10. ASSUME NEW w \in Workstations, MapLine(w) PROVE Watched'
  <2>1. dialog.visible /\ dialog'.step = 1
    BY <1>0, <1>10, DialogAfterUser DEF MapLine, OffersMapping
  <2>2. UNCHANGED <<opening, calls, polls, alive>> BY <1>10 DEF MapLine
  <2> QED BY <1>4, <1>8, <1>10, <2>1, <2>2 DEF MapLine, Unpolled, Ours
<1>11. CASE Confirm
  <2> DEFINE c == [kind |-> "start", opening |-> opening, archive |-> dialog.preview,
                   lined |-> dialog.lined, task |-> 0, polling |-> dialog.polling]
  <2>1. dialog.visible /\ dialog'.step = 2 BY <1>0, <1>11, DialogAfterUser
  <2>2. UNCHANGED <<opening, polls, alive>> /\ calls' = calls \cup {c} BY <1>11 DEF Confirm
  <2>3. c.kind = "start" /\ c.opening = opening OBVIOUS
  <2> HIDE DEF c
  <2>4. Unpolled /\ \A d \in calls : ~Ours(d) BY <1>8, <1>11, <2>1 DEF Confirm
  <2>5. Unpolled' BY <2>2, <2>4 DEF Unpolled, Ours
  <2>6. OneCall' BY <2>1, <2>2, <2>3, <2>4, <2>5 DEF OneCall, Ours
  <2>7. OneTask' /\ PollsEnd' BY <2>5 DEF OneTask, PollsEnd, Unpolled
  <2>8. DialogWaits' BY <2>2, <2>3 DEF DialogWaits, Ours
  <2> QED BY <2>6, <2>7, <2>8 DEF Watched
<1>12. ASSUME NEW a \in Archives, Upload(a) PROVE Watched'
  <2> DEFINE c == [kind |-> "upload", opening |-> opening, archive |-> a,
                   task |-> 0, polling |-> NoInterval]
  <2>1. dialog.visible /\ dialog.step = 0 /\ ~dialog.uploading
        /\ dialog'.step = 0 /\ dialog'.uploading
    BY <1>0, <1>12, DialogAfterUser DEF Upload, OffersUpload
  <2>2. UNCHANGED <<opening, polls, alive>> /\ calls' = calls \cup {c} BY <1>12 DEF Upload
  <2>3. c.kind = "upload" /\ c.opening = opening OBVIOUS
  <2> HIDE DEF c
  <2>4. Unpolled /\ \A d \in calls : ~Ours(d) BY <1>0, <2>1 DEF OneCall
  <2>5. Unpolled' BY <2>2, <2>4 DEF Unpolled, Ours
  <2>6. OneCall' BY <2>1, <2>2, <2>3, <2>4, <2>5 DEF OneCall, Ours
  <2>7. OneTask' /\ PollsEnd' BY <2>5 DEF OneTask, PollsEnd, Unpolled
  <2>8. DialogWaits' BY <2>1 DEF DialogWaits
  <2> QED BY <2>6, <2>7, <2>8 DEF Watched
\* A call of this opening is the only one, and nothing is polled yet.
<1>13. ASSUME NEW c \in calls, Ours(c), dialog.visible
       PROVE  /\ Unpolled /\ \A d \in calls \ {c} : ~Ours(d)
              /\ c.kind = "upload" => dialog.step = 0
              /\ c.kind = "start" => dialog.step = 2
  BY <1>0, <1>13 DEF OneCall
<1>14. ASSUME NEW c \in calls, NEW missing \in BOOLEAN,
              UploadParsed(c) \/ UploadFailed(c, missing) \/ StartFailed(c, missing)
       PROVE  Watched'
  <2>1. Mark(Stray(c), FALSE) BY <1>14 DEF UploadParsed, UploadFailed, StartFailed
  <2>2. mounted /\ dialog.visible /\ Ours(c) BY <1>0, <2>1, NotStray
  <2>3. dialog'.step # 2
    <3>1. CASE UploadParsed(c) BY <1>0, <2>2, <3>1, DialogAfterAnswer
    <3>2. CASE UploadFailed(c, missing)
      <4>1. dialog'.step = dialog.step BY <1>0, <2>2, <3>2, DialogAfterAnswer
      <4> QED BY <1>13, <2>2, <3>2, <4>1 DEF UploadFailed
    <3>3. CASE StartFailed(c, missing) BY <1>0, <2>2, <3>3, DialogAfterAnswer
    <3> QED BY <1>14, <3>1, <3>2, <3>3
  <2>4. UNCHANGED <<opening, polls, alive>> /\ calls' = calls \ {c}
    BY <1>14 DEF UploadParsed, UploadFailed, StartFailed, Answered
  <2>5. Unpolled' /\ \A d \in calls' : ~Ours(d)
    BY <1>13, <2>2, <2>4 DEF Unpolled, Ours
  <2> QED BY <1>4, <2>3, <2>4, <2>5
<1>15. ASSUME NEW c \in calls, StartAnswered(c) PROVE Watched'
  <2> DEFINE i == [no |-> intervals + 1, task |-> c.task]
  <2>1. Mark(Stray(c), FALSE) BY <1>15 DEF StartAnswered
  <2>2. mounted /\ dialog.visible /\ Ours(c) BY <1>0, <2>1, NotStray
  <2>3. dialog'.step = 2 BY <1>0, <1>13, <1>15, <2>2, DialogAfterAnswer DEF StartAnswered
  <2>4. /\ UNCHANGED <<opening, polls>> /\ calls' = calls \ {c}
        /\ i \in alive'
    BY <1>15 DEF StartAnswered, Answered
  <2> HIDE DEF i
  <2>5. Unpolled /\ \A d \in calls' : ~Ours(d) BY <1>13, <2>2, <2>4
  <2>6. OneCall' BY <2>3, <2>4, <2>5 DEF OneCall, Ours
  <2>7. OneTask' /\ PollsEnd' BY <2>4, <2>5 DEF OneTask, PollsEnd, Unpolled, Ours
  <2>8. DialogWaits' BY <2>4 DEF DialogWaits
  <2> QED BY <2>6, <2>7, <2>8 DEF Watched
<1>16. ASSUME NEW c \in calls, ServeStart(c) PROVE Watched'
  <2> DEFINE e == [c EXCEPT !.task = Len(taskTable) + 1]
  <2>1. /\ CreateTask(c.archive \ c.lined, c.opening) /\ calls' = (calls \ {c}) \cup {e}
        /\ UNCHANGED <<dialog, alive, polls, opening, past>>
    BY <1>16 DEF ServeStart
  <2>2. e.kind = c.kind /\ e.opening = c.opening
    BY <1>0, <1>16 DEF ServeStart, DialogTypes, StartCalls, UploadCalls
  <2> HIDE DEF e
  <2>3. dialog.visible BY <2>1
  <2>4. \A t \in DOMAIN taskTable : taskTable'[t] = taskTable[t]
    BY <1>0, <2>1, ImportAdded
  <2>5. OneCall'
    <3>1. Unpolled' <=> Unpolled BY <2>1 DEF Unpolled, Ours
    <3> QED BY <1>0, <1>16, <2>1, <2>2, <2>3, <3>1 DEF OneCall, Ours
  <2>6. OneTask' BY <1>0, <2>1, <2>3 DEF OneTask, Ours
  <2>7. \A k \in DOMAIN polls : TaskEnded(polls[k].interval) => TaskEnded(polls[k].interval)'
    BY <1>3, <2>1, <2>4 DEF TaskEnded
  <2>8. PollsEnd' BY <1>0, <2>1, <2>3, <2>7 DEF PollsEnd, Ours, TaskEnded
  <2>9. DialogWaits' BY <1>0, <1>16, <2>1, <2>2, <2>3 DEF DialogWaits, Ours
  <2> QED BY <2>5, <2>6, <2>8, <2>9 DEF Watched
<1>17. ASSUME NEW i \in alive, Poll(i) PROVE Watched'
  <2> DEFINE p == [interval |-> i, opening |-> opening, status |-> NoStatus, passed |-> FALSE]
  <2>1. /\ polls' = Append(polls, p)
        /\ UNCHANGED <<dialog, alive, calls, opening, taskTable, past>>
    BY <1>17 DEF Poll, server
  <2>2. p.interval = i /\ p.status = NoStatus OBVIOUS
  <2> HIDE DEF p
  <2>3. dialog.visible /\ mounted
    <3>1. dialog.visible BY <2>1
    <3> QED BY <1>0, <3>1 DEF LinesChosen, Closed
  <2>4. alive = {i} BY <1>0, <1>17, <2>3 DEF OneInterval
  <2>5. dialog.step = 2 /\ \A c \in calls : ~Ours(c)
    BY <1>0, <2>3, <2>4 DEF OneCall, Unpolled
  <2>6. \A k \in DOMAIN polls' :
          \/ k \in DOMAIN polls /\ polls'[k] = polls[k]
          \/ k = Len(polls) + 1 /\ polls'[k] = p
    <3>1. DOMAIN polls' = 1 .. Len(polls) + 1 BY <1>2, <2>1
    <3>2. polls'[Len(polls) + 1] = p /\ \A k \in 1 .. Len(polls) : polls'[k] = polls[k]
      BY <1>2, <2>1
    <3> QED BY <1>2, <3>1, <3>2
  <2>7. OneCall' BY <2>1, <2>5 DEF OneCall, Ours
  <2>8. OneTask' BY <1>0, <2>1, <2>2, <2>3, <2>4, <2>6 DEF OneTask, Ours
  <2>9. PollsEnd'
    <3>1. \A k \in DOMAIN polls' : Ours(polls'[k]) =>
            /\ Ended(polls'[k].status.state) => TaskEnded(polls'[k].interval)
            /\ \/ polls'[k].passed \/ alive # {} \/ Ended(polls'[k].status.state)
               \/ polls'[k].status = NoStatus /\ TaskEnded(polls'[k].interval)
      BY <1>0, <1>1, <2>2, <2>3, <2>4, <2>6 DEF PollsEnd
    <3>2. \A j, k \in DOMAIN polls' :
            (j < k /\ Ours(polls'[j]) /\ Ours(polls'[k])
               /\ Ended(polls'[j].status.state) /\ polls'[k].status # NoStatus)
              => Ended(polls'[k].status.state)
      BY <1>0, <1>1, <2>2, <2>3, <2>6 DEF PollsEnd
    <3> QED BY <2>1, <3>1, <3>2 DEF PollsEnd, Ours, TaskEnded
  <2>10. DialogWaits' BY <2>1, <2>4 DEF DialogWaits
  <2> QED BY <2>7, <2>8, <2>9, <2>10 DEF Watched
<1>18. ASSUME NEW k \in DOMAIN polls, ServePoll(k) PROVE Watched'
  <2> DEFINE t == polls[k].interval.task
             n == Len(polls)
  <2>1. t \in DOMAIN taskTable BY <1>3
  <2>2. /\ DOMAIN polls' = 1 .. n /\ n \in DOMAIN polls
        /\ polls'[n].interval = polls[k].interval /\ polls'[n].opening = polls[k].opening
        /\ polls'[n].status = taskTable[t] /\ polls'[n].passed = polls[k].passed
        /\ \A j \in 1 .. n - 1 :
             Earlier(k, j) \in DOMAIN polls /\ polls'[j] = polls[Earlier(k, j)]
    BY <1>0, <1>18, <2>1, PollServedLast
  <2>3. UNCHANGED <<dialog, alive, calls, opening, taskTable, past>> /\ polls[k].status = NoStatus
    BY <1>18 DEF ServePoll, server
  <2>4. dialog.visible BY <2>3
  <2>5. \A j \in DOMAIN polls' : j \in 1 .. n - 1 \/ j = n BY <1>2, <2>2
  <2>6. \A i, j \in 1 .. n - 1 : i < j => Earlier(k, i) < Earlier(k, j)
    BY <1>2 DEF Earlier
  <2>7. Unpolled => Unpolled' BY <2>2, <2>3, <2>5 DEF Unpolled, Ours
  <2>8. OneCall' BY <1>0, <2>3, <2>4, <2>7 DEF OneCall, Ours
  \* Each poll is one that was there, of the same interval and opening.
  <2>9. \A j \in DOMAIN polls' : \E e \in DOMAIN polls :
          polls'[j].interval = polls[e].interval /\ polls'[j].opening = polls[e].opening
    BY <2>2, <2>5
  <2>10. OneTask' BY <1>0, <2>3, <2>4, <2>9 DEF OneTask, Ours
  <2>11. ASSUME NEW j \in DOMAIN polls', Ours(polls'[j])
         PROVE  /\ Ended(polls'[j].status.state) => TaskEnded(polls'[j].interval)
                /\ \/ polls'[j].passed \/ alive # {} \/ Ended(polls'[j].status.state)
                   \/ polls'[j].status = NoStatus /\ TaskEnded(polls'[j].interval)
    <3>1. CASE j \in 1 .. n - 1
      BY <1>0, <2>2, <2>4, <2>11, <3>1 DEF PollsEnd
    <3>2. CASE j = n
      <4>1. Ours(polls[k]) BY <2>2, <2>11, <3>2 DEF Ours
      <4>2. polls[k].passed \/ alive # {} \/ TaskEnded(polls[k].interval)
        BY <1>0, <1>1, <2>3, <2>4, <4>1 DEF PollsEnd
      <4> QED BY <2>2, <3>2, <4>2 DEF TaskEnded
    <3> QED BY <2>5, <3>1, <3>2
  <2>12. ASSUME NEW i \in DOMAIN polls', NEW j \in DOMAIN polls', i < j, Ours(polls'[i]),
                Ours(polls'[j]), Ended(polls'[i].status.state), polls'[j].status # NoStatus
         PROVE  Ended(polls'[j].status.state)
    <3>1. i \in 1 .. n - 1 BY <1>2, <2>2, <2>12
    <3>2. CASE j \in 1 .. n - 1
      BY <1>0, <2>2, <2>4, <2>6, <2>12, <3>1, <3>2 DEF PollsEnd
    <3>3. CASE j = n
      <4>1. TaskEnded(polls'[i].interval) BY <2>11, <2>12
      <4>2. polls'[i].interval = polls[k].interval
        BY <1>0, <2>2, <2>4, <2>12, <3>1, <3>3 DEF OneTask, Ours
      <4> QED BY <2>2, <3>3, <4>1, <4>2 DEF TaskEnded
    <3> QED BY <2>5, <3>2, <3>3
  <2>13. PollsEnd' BY <2>3, <2>11, <2>12 DEF PollsEnd, Ours, TaskEnded
  <2>14. DialogWaits' BY <1>0, <2>3, <2>4 DEF DialogWaits, Ours
  <2> QED BY <2>8, <2>10, <2>13, <2>14 DEF Watched
<1>19. ASSUME NEW k \in DOMAIN polls, PollAnswered(k) PROVE Watched'
  <2> DEFINE p == polls[k]
             rest == Replaced(alive \ {p.interval}, NoInterval)
  <2>1. Mark(Stray(p), p.passed) BY <1>19 DEF PollAnswered
  <2>2. mounted /\ dialog.visible /\ Ours(p) BY <1>0, <2>1, NotStray
  <2>3. /\ dialog'.step = dialog.step /\ dialog'.status = p.status
        /\ dialog'.supported = dialog.supported
    BY <1>0, <1>19, <2>2, DialogAfterAnswer
  <2>4. /\ UNCHANGED <<opening, calls, taskTable>> /\ Removed(k) /\ p.status.import # 0
        /\ alive' = IF Ended(p.status.state) THEN rest ELSE alive
    BY <1>19 DEF PollAnswered, server
  <2>5. rest \subseteq alive \ {p.interval} BY ReplacedIntervals
  <2> HIDE DEF rest
  <2>6. alive \subseteq {p.interval} BY <1>0, <2>2 DEF OneTask
  <2>7. alive' \subseteq alive /\ (Ended(p.status.state) => alive' = {})
        /\ (~Ended(p.status.state) => alive' = alive)
    BY <2>4, <2>5, <2>6
  <2>8. dialog.step = 2 /\ \A c \in calls : ~Ours(c)
    BY <1>0, <2>2 DEF OneCall, Unpolled
  <2>9. OneCall' BY <2>3, <2>4, <2>8 DEF OneCall, Ours
  <2>10. /\ OneTask'
         /\ \A j \in DOMAIN polls' :
              LET before == polls[Earlier(k, j)] IN
              /\ Earlier(k, j) \in DOMAIN polls
              /\ polls'[j].interval = before.interval /\ polls'[j].opening = before.opening
              /\ polls'[j].status = before.status /\ (before.passed => polls'[j].passed)
              /\ j < k /\ before.status # NoStatus => polls'[j].passed
         /\ \A j \in DOMAIN polls' : ~(j < k) => k < Earlier(k, j)
         /\ \A i, j \in DOMAIN polls' :
              (i < j /\ Ours(polls'[i]) /\ Ours(polls'[j])
                 /\ Ended(polls'[i].status.state) /\ polls'[j].status # NoStatus)
                => Ended(polls'[j].status.state)
    BY <1>5, <2>2, <2>4, <2>7
  <2>11. ASSUME NEW j \in DOMAIN polls', Ours(polls'[j])
         PROVE  /\ Ended(polls'[j].status.state) => TaskEnded(polls'[j].interval)
                /\ \/ polls'[j].passed \/ alive' # {} \/ Ended(polls'[j].status.state)
                   \/ polls'[j].status = NoStatus /\ TaskEnded(polls'[j].interval)
    <3> DEFINE e == Earlier(k, j)
    <3>1. /\ e \in DOMAIN polls /\ Ours(polls[e])
          /\ polls'[j].interval = polls[e].interval /\ polls'[j].status = polls[e].status
          /\ (polls[e].passed => polls'[j].passed)
          /\ (j < k /\ polls[e].status # NoStatus => polls'[j].passed)
          /\ (~(j < k) => k < e)
      BY <2>10, <2>11 DEF Ours
    <3> HIDE DEF e
    <3>2. Ended(polls[e].status.state) => TaskEnded(polls[e].interval)
      BY <1>0, <2>2, <3>1 DEF PollsEnd
    <3>3. CASE ~Ended(p.status.state)
      BY <1>0, <2>2, <2>7, <3>1, <3>2, <3>3 DEF PollsEnd
    <3>4. CASE Ended(p.status.state)
      <4>1. TaskEnded(p.interval) /\ polls[e].interval = p.interval
        BY <1>0, <2>2, <3>1, <3>4 DEF PollsEnd, OneTask
      <4>2. CASE polls[e].status = NoStatus BY <3>1, <3>2, <4>1, <4>2
      <4>3. CASE polls[e].status # NoStatus /\ j < k BY <3>1, <3>2, <4>3
      <4>4. CASE polls[e].status # NoStatus /\ ~(j < k)
        <5>1. Ended(polls[e].status.state)
          BY <1>0, <2>2, <3>1, <3>4, <4>4 DEF PollsEnd
        <5> QED BY <3>1, <3>2, <5>1
      <4> QED BY <4>2, <4>3, <4>4
    <3> QED BY <3>3, <3>4
  <2>12. PollsEnd' BY <2>4, <2>10, <2>11 DEF PollsEnd, Ours, TaskEnded
  <2>13. DialogWaits'
    <3>1. CASE Ended(p.status.state) BY <2>3, <3>1 DEF DialogWaits
    <3>2. CASE ~Ended(p.status.state) /\ ~past'.overtaken
      <4>1. past'.overtaken = (past.overtaken \/ p.passed)
        BY <2>1 DEF Mark
      <4>2. ~p.passed BY <3>2, <4>1
      <4>3. alive # {} BY <1>0, <1>1, <2>2, <2>4, <3>2, <4>2 DEF PollsEnd
      <4> QED BY <2>7, <3>2, <4>3 DEF DialogWaits
    <3>3. CASE past'.overtaken BY <3>3 DEF DialogWaits
    <3> QED BY <3>1, <3>2, <3>3
  <2> QED BY <2>9, <2>10, <2>12, <2>13 DEF Watched
<1>20. ASSUME NEW k \in DOMAIN polls, PollUnknown(k) PROVE Watched'
  BY <1>0, <1>20 DEF PollUnknown, PollsOfOpening, NoStatus
<1>21. ASSUME NEW k \in DOMAIN polls, PollLost(k) PROVE Watched'
  <2>1. /\ polls' = RemoveAt(polls, k)
        /\ UNCHANGED <<dialog, alive, calls, opening, taskTable, past>>
    BY <1>21 DEF PollLost, server
  <2>2. dialog.visible BY <2>1
  <2>3. /\ OneTask' /\ (Unpolled => Unpolled')
        /\ \A j \in DOMAIN polls' :
             LET before == polls[Earlier(k, j)] IN
             /\ Earlier(k, j) \in DOMAIN polls
             /\ polls'[j].interval = before.interval /\ polls'[j].opening = before.opening
             /\ polls'[j].status = before.status /\ (before.passed => polls'[j].passed)
        /\ \A i, j \in DOMAIN polls' :
             (i < j /\ Ours(polls'[i]) /\ Ours(polls'[j])
                /\ Ended(polls'[i].status.state) /\ polls'[j].status # NoStatus)
               => Ended(polls'[j].status.state)
    BY <1>5, <2>1, <2>2
  <2>4. OneCall' BY <1>0, <2>1, <2>2, <2>3 DEF OneCall, Ours
  <2>5. PollsEnd' BY <1>0, <2>1, <2>2, <2>3 DEF PollsEnd, Ours, TaskEnded
  <2>6. DialogWaits' BY <1>0, <2>1, <2>2 DEF DialogWaits, Ours
  <2> QED BY <2>3, <2>4, <2>5, <2>6 DEF Watched
<1>22. ASSUME NEW t \in DOMAIN taskTable, NEW s \in {"completed", "failed"}, RunTask(t, s)
       PROVE  Watched'
  <2>1. /\ taskTable' = [taskTable EXCEPT ![t].state = s]
        /\ UNCHANGED <<dialog, alive, calls, polls, opening, past>>
    BY <1>22 DEF RunTask
  <2>2. dialog.visible BY <2>1
  <2>3. Ended(taskTable'[t].state)
    <3>1. taskTable[t] \in ImportTasks BY <1>0, LenProperties, ElementOfSeq DEF DialogTypes
    <3>2. taskTable'[t] = [taskTable[t] EXCEPT !.state = s] BY <2>1
    <3> QED BY <3>1, <3>2 DEF ImportTasks, Ended
  <2>4. \A u \in DOMAIN taskTable : Ended(taskTable[u].state) => Ended(taskTable'[u].state)
    <3>1. \A u \in DOMAIN taskTable : u # t => taskTable'[u] = taskTable[u] BY <2>1
    <3> QED BY <2>3, <3>1
  <2>5. \A k \in DOMAIN polls : TaskEnded(polls[k].interval) => TaskEnded(polls[k].interval)'
    BY <1>3, <2>1, <2>4 DEF TaskEnded
  <2>6. PollsEnd' BY <1>0, <2>1, <2>2, <2>5 DEF PollsEnd, Ours, TaskEnded
  <2>7. OneCall' BY <1>0, <2>1, <2>2 DEF OneCall, Unpolled, Ours
  <2>8. OneTask' BY <1>0, <2>1, <2>2 DEF OneTask, Ours
  <2>9. DialogWaits' BY <1>0, <2>1, <2>2 DEF DialogWaits, Ours
  <2> QED BY <2>6, <2>7, <2>8, <2>9 DEF Watched
<1>23. CASE StartElsewhere
  BY <1>0, <1>23 DEF StartElsewhere, Unspoilt
<1>24. CASE Restart
  BY <1>0, <1>24, UnspoiltBefore DEF Restart, DialogTypes
<1>25. CASE UNCHANGED importVars
  <2>1. UNCHANGED <<dialog, alive, calls, polls, opening, taskTable, past>> /\ dialog.visible
    BY <1>25 DEF importVars
  <2>2. OneCall' /\ OneTask' BY <1>0, <2>1 DEF OneCall, OneTask, Unpolled, Ours
  <2>3. PollsEnd' BY <1>0, <2>1 DEF PollsEnd, Ours, TaskEnded
  <2>4. DialogWaits' BY <1>0, <2>1 DEF DialogWaits, Ours
  <2> QED BY <2>2, <2>3, <2>4 DEF Watched
<1> QED
  BY <1>6, <1>7, <1>9, <1>10, <1>11, <1>12, <1>14, <1>15, <1>16,
     <1>17, <1>18, <1>19, <1>20, <1>21, <1>22, <1>23, <1>24, <1>25
  DEF ImportNext, ImportUser, UploadAnswers, StartAnswers, ServeTasks

LEMMA ImportStep == ImportInv /\ [ImportNext]_importVars => ImportInv'
<1> SUFFICES ASSUME ImportInv, [ImportNext]_importVars PROVE ImportInv'
  OBVIOUS
<1>1. DialogTypes' /\ OneInterval' /\ LinesChosen'
  BY DialogTypesStep, OneIntervalStep, LinesChosenStep DEF ImportInv
<1>2. Unspoilt' => OfTheirOpening'
  BY OfTheirOpeningStep
<1>3. (Unspoilt' /\ dialog'.visible) => Watched'
  BY WatchedStep
<1> QED BY <1>1, <1>2, <1>3 DEF ImportInv

LEMMA ImportInvShows == ImportInv => OneInterval /\ ShowsItsImport /\ NoStall
<1> SUFFICES ASSUME ImportInv PROVE OneInterval /\ ShowsItsImport /\ NoStall
  OBVIOUS
<1>0. dialog \in DialogState /\ mounted \in BOOLEAN BY DEF ImportInv, DialogTypes
<1>1. OneInterval BY DEF ImportInv
<1>2. ShowsItsImport
  <2>1. \A n \in DOMAIN imports : imports[n].unlined = {} BY DEF ImportInv, LinesChosen
  <2>2. ASSUME ShownStatus.import # 0, ~past.stray, restarts = 0
        PROVE  imports[ShownStatus.import].opening = opening
    <3>1. StatusOfOpening BY <2>2 DEF ImportInv, Unspoilt, OfTheirOpening
    <3>2. ShownStatus = dialog.status BY <2>2 DEF ShownStatus, NoStatus
    <3> QED BY <2>2, <3>1, <3>2 DEF StatusOfOpening
  <2> QED BY <2>1, <2>2 DEF ShowsItsImport
<1>3. ASSUME dialog.visible, dialog.step = 2, dialog.supported, restarts = 0,
             ~past.stray, ~past.overtaken
      PROVE  WatchedToTheEnd
  <2>1. DialogWaits BY <1>3 DEF ImportInv, Unspoilt, Watched
  <2>2. CASE alive # {}
    <3>1. mounted BY <1>0, <1>3 DEF ImportInv, LinesChosen, Closed
    <3>2. dialog.polling \in alive BY <1>1, <2>2, <3>1 DEF OneInterval
    <3> QED BY <3>2 DEF WatchedToTheEnd
  <2>3. CASE Ended(dialog.status.state)
    BY <1>3, <2>3 DEF WatchedToTheEnd, ShownStatus, Ended
  <2>4. CASE \E c \in calls : c.kind = "start" /\ Ours(c)
    BY <2>4 DEF WatchedToTheEnd, Ours
  <2> QED BY <1>3, <2>1, <2>2, <2>3, <2>4 DEF DialogWaits
<1> QED BY <1>1, <1>2, <1>3 DEF NoStall

-----------------------------------------------------------------------------
(***************************************************************************)
(* The table of programs.                                                  *)
(***************************************************************************)
LineChoices == FilterLines \cup {AnyLine}
TableState == [page : Pages, keyword : Keywords, input : Keywords, line : LineChoices,
               values : SUBSET FilterLines, fields : LineChoices, typed : BOOLEAN,
               rows : Queries \cup {NoQuery}, loading : BOOLEAN]
RowLoads == [query : Queries, passed : BOOLEAN]
OutdatedState == [rows : BOOLEAN, fields : BOOLEAN, values : BOOLEAN]

TableTypes ==
    /\ table \in TableState
    /\ rowLoads \in Seq(RowLoads)
    /\ fieldLoads \subseteq [line : FilterLines, old : BOOLEAN]
    /\ changing \in Queries \cup {NoQuery}
    /\ outdated \in OutdatedState

\* The last load of its own time asks for what the table is to show.
RowsFollow ==
    Follows(rowLoads, [query : {Query(table)}, passed : BOOLEAN],
            ~outdated.rows => table.rows = Query(table))

\* The fields that are offered, or those that are to come, are of the line.
FieldsFollow ==
    /\ \A f \in fieldLoads : ~f.old => f.line = table.line
    /\ ~outdated.fields =>
         table.fields \in {table.line, AnyLine} \/ \E f \in fieldLoads : ~f.old

\* The values are given for fields of the line.
ValuesFollow == ~outdated.values => table.values \subseteq {table.line}

TableInv == TableTypes /\ RowsFollow /\ FieldsFollow /\ ValuesFollow

LEMMA TableStart == TableInit => TableInv
<1> SUFFICES ASSUME TableInit PROVE TableInv
  OBVIOUS
<1>1. table = [page |-> 1, keyword |-> "", input |-> "", line |-> AnyLine, values |-> {},
               fields |-> AnyLine, typed |-> TRUE, rows |-> NoQuery, loading |-> TRUE]
  BY DEF TableInit
<1>2. table \in TableState
  <2>1. 1 \in Pages /\ "" \in Keywords BY TableAssumption
  <2> QED BY <1>1, <2>1 DEF TableState, LineChoices
<1> DEFINE first == [query |-> Query(table), passed |-> FALSE]
<1>3. Query(table) \in Queries BY <1>2 DEF TableState, Query, Queries, LineChoices
<1>4. first \in RowLoads BY <1>3 DEF RowLoads
<1>5. rowLoads = <<first>> /\ fieldLoads = {} /\ changing = NoQuery
      /\ outdated = [rows |-> FALSE, fields |-> FALSE, values |-> FALSE]
  BY DEF TableInit
<1>6. TableTypes BY <1>2, <1>4, <1>5 DEF TableTypes, OutdatedState
<1>7. RowsFollow
  <2>1. first.passed = FALSE /\ first \in [query : {Query(table)}, passed : BOOLEAN]
    OBVIOUS
  <2> HIDE DEF first
  <2>2. DOMAIN rowLoads = {1} /\ rowLoads[1] = first BY <1>5
  <2> QED BY <2>1, <2>2 DEF RowsFollow, Follows
<1>8. FieldsFollow /\ ValuesFollow BY <1>1, <1>5 DEF FieldsFollow, ValuesFollow
<1> QED BY <1>6, <1>7, <1>8 DEF TableInv

LEMMA QueryOfTable ==
  ASSUME NEW t \in TableState
  PROVE  Query(t) \in Queries
BY DEF TableState, Query, Queries, LineChoices

\* What is rendered is loaded when it is not what was.
LEMMA TableRendered ==
  ASSUME TableTypes, RowsFollow, NEW new \in TableState, NEW anew \in BOOLEAN,
         Show(new, anew), new.rows = table.rows,
         outdated' \in OutdatedState, outdated'.rows = outdated.rows
  PROVE  /\ table' \in TableState /\ rowLoads' \in Seq(RowLoads) /\ RowsFollow'
         /\ table'.line = new.line /\ table'.fields = new.fields
         /\ table'.values = new.values
<1> DEFINE again == anew \/ Query(new) # Query(table)
           l == new.loading \/ again
           t == new.typed \/ new.input # table.input
           sending == [query |-> Query(new), passed |-> FALSE]
<1>1. /\ rowLoads' = IF again THEN Append(rowLoads, sending) ELSE rowLoads
      /\ table' = [[new EXCEPT !.loading = l] EXCEPT !.typed = t]
  BY DEF Show
<1>2. /\ table' \in TableState /\ Query(table') = Query(new) /\ table'.rows = table.rows
      /\ table'.line = new.line /\ table'.fields = new.fields /\ table'.values = new.values
  <2>1. l \in BOOLEAN /\ t \in BOOLEAN BY DEF TableState
  <2> HIDE DEF l, t
  <2> DEFINE mid == [new EXCEPT !.loading = l]
  <2>2. mid \in TableState /\ Query(mid) = Query(new) /\ mid.rows = new.rows
        /\ mid.line = new.line /\ mid.fields = new.fields /\ mid.values = new.values
    BY <2>1 DEF TableState, Query
  <2>3. table' = [mid EXCEPT !.typed = t] BY <1>1
  <2> HIDE DEF mid
  <2> QED BY <2>1, <2>2, <2>3 DEF TableState, Query
<1> DEFINE Good == [query : {Query(new)}, passed : BOOLEAN]
           fits == ~outdated.rows => table.rows = Query(new)
<1>3. sending \in RowLoads /\ sending \in Good /\ ~sending.passed
  BY QueryOfTable DEF RowLoads
<1>4. rowLoads \in Seq(RowLoads) BY DEF TableTypes
<1> HIDE DEF sending
<1>5. CASE again
  <2>1. rowLoads' = Append(rowLoads, sending) BY <1>1, <1>5
  <2>2. rowLoads' \in Seq(RowLoads) /\ Follows(rowLoads', Good, fits)
    <3> HIDE DEF Good, fits, again
    <3> QED BY <1>3, <1>4, <2>1, LoadSent
  <2> QED BY <1>2, <2>2 DEF RowsFollow
<1>6. CASE ~again
  <2>1. rowLoads' = rowLoads /\ Query(new) = Query(table) BY <1>1, <1>6
  <2> QED BY <1>2, <1>4, <2>1 DEF RowsFollow
<1> QED BY <1>2, <1>5, <1>6

LEMMA RowLoadsPassable == Passable(RowLoads)
BY DEF Passable, RowLoads

LEMMA TableStep == TableInv /\ [TableNext]_tableVars => TableInv'
<1> SUFFICES ASSUME TableInv, [TableNext]_tableVars PROVE TableInv'
  OBVIOUS
<1>0. /\ TableTypes /\ RowsFollow /\ FieldsFollow /\ ValuesFollow
      /\ table \in TableState /\ rowLoads \in Seq(RowLoads)
      /\ fieldLoads \subseteq [line : FilterLines, old : BOOLEAN]
      /\ changing \in Queries \cup {NoQuery}
      /\ outdated \in OutdatedState
      /\ Query(table) \in Queries
  BY QueryOfTable DEF TableInv, TableTypes
<1>1. 1 \in Pages /\ "" \in Keywords /\ AnyLine \in LineChoices /\ FilterLines \subseteq LineChoices
  BY TableAssumption DEF LineChoices
\* The line is the same, and so are its fields.
<1>2. ASSUME NEW new \in TableState, NEW anew \in BOOLEAN, Show(new, anew),
             new.rows = table.rows, new.line = table.line, new.fields = table.fields,
             new.values = table.values,
             UNCHANGED <<fieldLoads, changing, outdated>>
      PROVE  TableInv'
  <2>1. /\ table' \in TableState /\ rowLoads' \in Seq(RowLoads) /\ RowsFollow'
        /\ table'.line = new.line /\ table'.fields = new.fields /\ table'.values = new.values
    BY <1>0, <1>2, TableRendered DEF TableTypes
  <2> QED BY <1>0, <1>2, <2>1 DEF TableInv, TableTypes, FieldsFollow, ValuesFollow
\* The line or its fields may be others.
<1>3. ASSUME NEW new \in TableState, NEW anew \in BOOLEAN, Show(new, anew),
             new.rows = table.rows, outdated' \in OutdatedState,
             outdated'.rows = outdated.rows, UNCHANGED changing,
             fieldLoads' \subseteq [line : FilterLines, old : BOOLEAN],
             \A f \in fieldLoads' : ~f.old => f.line = new.line,
             ~outdated'.fields =>
               new.fields \in {new.line, AnyLine} \/ \E f \in fieldLoads' : ~f.old,
             ~outdated'.values => new.values \subseteq {new.line}
      PROVE  TableInv'
  <2>1. /\ table' \in TableState /\ rowLoads' \in Seq(RowLoads) /\ RowsFollow'
        /\ table'.line = new.line /\ table'.fields = new.fields /\ table'.values = new.values
    BY <1>0, <1>3, TableRendered
  <2> QED BY <1>0, <1>3, <2>1 DEF TableInv, TableTypes, FieldsFollow, ValuesFollow
\* The fields asked for until now are not those of the line chosen next.
<1>4. /\ Superseded \subseteq [line : FilterLines, old : BOOLEAN]
      /\ \A f \in Superseded : f.old
  BY <1>0 DEF Superseded
<1>5. ASSUME NEW k \in Keywords, TypeKeyword(k) PROVE TableInv'
  <2> DEFINE a == [table EXCEPT !.page = 1]
             new == [a EXCEPT !.input = k]
  <2>1. Show(new, FALSE) /\ UNCHANGED <<fieldLoads, changing, outdated>>
    BY <1>5 DEF TypeKeyword
  <2>2. a \in TableState /\ a.rows = table.rows /\ a.line = table.line /\ a.fields = table.fields
        /\ a.values = table.values
    BY <1>0, <1>1 DEF TableState
  <2> HIDE DEF a
  <2>3. new \in TableState /\ new.rows = a.rows /\ new.line = a.line /\ new.fields = a.fields
        /\ new.values = a.values
    BY <2>2 DEF TableState
  <2> HIDE DEF new
  <2> QED BY <1>2, <2>1, <2>2, <2>3
<1>6. ASSUME NEW k \in Keywords, KeywordFromAddress(k) PROVE TableInv'
  <2> DEFINE a == [table EXCEPT !.input = k]
             new == [a EXCEPT !.keyword = k]
  <2>1. Show(new, FALSE) /\ UNCHANGED <<fieldLoads, changing, outdated>>
    BY <1>6 DEF KeywordFromAddress
  <2>2. a \in TableState /\ a.rows = table.rows /\ a.line = table.line /\ a.fields = table.fields
        /\ a.values = table.values
    BY <1>0 DEF TableState
  <2> HIDE DEF a
  <2>3. new \in TableState /\ new.rows = a.rows /\ new.line = a.line /\ new.fields = a.fields
        /\ new.values = a.values
    BY <2>2 DEF TableState
  <2> HIDE DEF new
  <2> QED BY <1>2, <2>1, <2>2, <2>3
<1>7. CASE ApplySearchKeyword \/ DebounceFires
  <2> DEFINE a == [table EXCEPT !.page = 1]
             b == [a EXCEPT !.keyword = table.input]
             c == [b EXCEPT !.typed = FALSE]
  <2>1. \E new \in {b, c} : Show(new, FALSE) /\ UNCHANGED <<fieldLoads, changing, outdated>>
    BY <1>7 DEF ApplySearchKeyword, DebounceFires
  <2>2. a \in TableState /\ a.rows = table.rows /\ a.line = table.line /\ a.fields = table.fields
        /\ a.values = table.values
    BY <1>0, <1>1 DEF TableState
  <2>3. table.input \in Keywords BY <1>0 DEF TableState
  <2> HIDE DEF a
  <2>4. b \in TableState /\ b.rows = a.rows /\ b.line = a.line /\ b.fields = a.fields
        /\ b.values = a.values
    BY <2>2, <2>3 DEF TableState
  <2> HIDE DEF b
  <2>5. c \in TableState /\ c.rows = b.rows /\ c.line = b.line /\ c.fields = b.fields
        /\ c.values = b.values
    BY <2>4 DEF TableState
  <2> HIDE DEF c
  <2> QED BY <1>2, <2>1, <2>2, <2>4, <2>5
<1>8. ASSUME NEW p \in Pages, TurnPage(p) PROVE TableInv'
  <2> DEFINE new == [table EXCEPT !.page = p]
  <2>1. Show(new, FALSE) /\ UNCHANGED <<fieldLoads, changing, outdated>>
    BY <1>8 DEF TurnPage
  <2>2. new \in TableState /\ new.rows = table.rows /\ new.line = table.line
        /\ new.fields = table.fields /\ new.values = table.values
    BY <1>0 DEF TableState
  <2> HIDE DEF new
  <2> QED BY <1>2, <2>1, <2>2
<1>9. ASSUME NEW given \in BOOLEAN, FilterByField(given) PROVE TableInv'
  <2> DEFINE a == [table EXCEPT !.page = 1]
             v == IF given THEN table.values \cup {table.fields} ELSE table.values \ {table.fields}
             new == [a EXCEPT !.values = v]
             o == outdated.values \/ (given /\ table.fields # table.line)
  <2>1. /\ Show(new, TRUE) /\ UNCHANGED <<fieldLoads, changing>> /\ table.fields # AnyLine
        /\ outdated' = [outdated EXCEPT !.values = o]
    BY <1>9 DEF FilterByField
  <2>2. a \in TableState /\ a.rows = table.rows /\ a.line = table.line /\ a.fields = table.fields
    BY <1>0, <1>1 DEF TableState
  <2>3. v \in SUBSET FilterLines BY <1>0, <2>1 DEF TableState, LineChoices
  <2>4. ~o => v \subseteq {table.line} BY <1>0 DEF ValuesFollow
  <2>5. o \in BOOLEAN BY <1>0 DEF OutdatedState
  <2> HIDE DEF a, v, o
  <2>6. /\ new \in TableState /\ new.rows = a.rows /\ new.line = a.line /\ new.fields = a.fields
        /\ new.values = v
    BY <2>2, <2>3 DEF TableState
  <2> HIDE DEF new
  <2>7. /\ outdated' \in OutdatedState /\ outdated'.rows = outdated.rows
        /\ outdated'.fields = outdated.fields /\ outdated'.values = o
    BY <1>0, <2>1, <2>5 DEF OutdatedState
  <2>8. /\ \A f \in fieldLoads' : ~f.old => f.line = new.line
        /\ ~outdated'.fields =>
             new.fields \in {new.line, AnyLine} \/ \E f \in fieldLoads' : ~f.old
    BY <1>0, <2>1, <2>2, <2>6, <2>7 DEF FieldsFollow
  <2> QED BY <1>0, <1>3, <2>1, <2>2, <2>4, <2>6, <2>7, <2>8
<1>10. ASSUME NEW l \in LineChoices, FilterByLine(l) PROVE TableInv'
  <2> DEFINE f == IF l = AnyLine THEN AnyLine ELSE table.fields
             a == [table EXCEPT !.page = 1]
             b == [a EXCEPT !.line = l]
             c == [b EXCEPT !.values = {}]
             new == [c EXCEPT !.fields = f]
             o == l # AnyLine /\ outdated.fields
             load == [line |-> l, old |-> FALSE]
  <2>1. /\ Show(new, TRUE) /\ UNCHANGED changing
        /\ outdated' = [outdated EXCEPT !.fields = o, !.values = FALSE]
        /\ fieldLoads' = IF l = AnyLine THEN Superseded ELSE Superseded \cup {load}
    BY <1>10 DEF FilterByLine
  <2>2. f \in LineChoices /\ o \in BOOLEAN /\ (l = AnyLine => f = AnyLine)
    BY <1>0, <1>1 DEF TableState, OutdatedState
  <2>3. l # AnyLine => load \in [line : FilterLines, old : BOOLEAN] BY DEF LineChoices
  <2>4. load.line = l /\ load.old = FALSE OBVIOUS
  <2> HIDE DEF f, o, load
  <2>5. a \in TableState /\ a.rows = table.rows BY <1>0, <1>1 DEF TableState
  <2> HIDE DEF a
  <2>6. b \in TableState /\ b.rows = table.rows /\ b.line = l BY <2>5 DEF TableState
  <2> HIDE DEF b
  <2>7. c \in TableState /\ c.rows = table.rows /\ c.line = l /\ c.values = {}
    BY <2>6 DEF TableState
  <2> HIDE DEF c
  <2>8. new \in TableState /\ new.rows = table.rows /\ new.line = l /\ new.fields = f
        /\ new.values = {}
    BY <2>2, <2>7 DEF TableState
  <2> HIDE DEF new
  <2>9. outdated' \in OutdatedState /\ outdated'.rows = outdated.rows
    BY <1>0, <2>1, <2>2 DEF OutdatedState
  <2>10. /\ fieldLoads' \subseteq [line : FilterLines, old : BOOLEAN]
         /\ \A g \in fieldLoads' : ~g.old => g.line = new.line
         /\ new.fields \in {new.line, AnyLine} \/ \E g \in fieldLoads' : ~g.old
    BY <1>4, <2>1, <2>2, <2>3, <2>4, <2>8
  <2> QED BY <1>3, <2>1, <2>8, <2>9, <2>10
<1>11. CASE HandleResetFilter
  <2> DEFINE a == [table EXCEPT !.page = 1]
             b == [a EXCEPT !.keyword = ""]
             c == [b EXCEPT !.input = ""]
             d == [c EXCEPT !.line = AnyLine]
             e == [d EXCEPT !.values = {}]
             new == [e EXCEPT !.fields = AnyLine]
  <2>1. /\ Show(new, TRUE) /\ UNCHANGED changing /\ fieldLoads' = Superseded
        /\ outdated' = [outdated EXCEPT !.fields = FALSE, !.values = FALSE]
    BY <1>11 DEF HandleResetFilter
  <2>2. a \in TableState /\ a.rows = table.rows BY <1>0, <1>1 DEF TableState
  <2> HIDE DEF a
  <2>3. b \in TableState /\ b.rows = table.rows BY <1>1, <2>2 DEF TableState
  <2> HIDE DEF b
  <2>4. c \in TableState /\ c.rows = table.rows BY <1>1, <2>3 DEF TableState
  <2> HIDE DEF c
  <2>5. d \in TableState /\ d.rows = table.rows BY <1>1, <2>4 DEF TableState
  <2> HIDE DEF d
  <2>6. e \in TableState /\ e.rows = table.rows /\ e.values = {} BY <2>5 DEF TableState
  <2> HIDE DEF e
  <2>7. new \in TableState /\ new.rows = table.rows /\ new.fields = AnyLine
        /\ new.values = {}
    BY <1>1, <2>6 DEF TableState
  <2> HIDE DEF new
  <2>8. outdated' \in OutdatedState /\ outdated'.rows = outdated.rows
    BY <1>0, <2>1 DEF OutdatedState
  <2>9. \A f \in fieldLoads' : f.old BY <1>4, <2>1
  <2> QED BY <1>3, <1>4, <2>1, <2>7, <2>8, <2>9
<1>12. ASSUME NEW f \in fieldLoads, FilterFieldsAnswered(f) \/ FilterFieldsFailed(f)
       PROVE  TableInv'
  <2> DEFINE answered == [table EXCEPT !.fields = f.line]
             failed == [table EXCEPT !.fields = AnyLine]
  <2>1. f.line \in FilterLines /\ f.old \in BOOLEAN BY <1>0
  <2>2. /\ answered \in TableState /\ answered.rows = table.rows
        /\ answered.line = table.line /\ answered.fields = f.line
        /\ answered.values = table.values
    BY <1>0, <1>1, <2>1 DEF TableState
  <2>3. /\ failed \in TableState /\ failed.rows = table.rows
        /\ failed.line = table.line /\ failed.fields = AnyLine
        /\ failed.values = table.values
    BY <1>0, <1>1 DEF TableState
  <2>4. /\ fieldLoads' = fieldLoads \ {f} /\ UNCHANGED changing
        /\ \A g \in fieldLoads : ~g.old => g.line = table.line
    BY <1>0, <1>12 DEF FilterFieldsAnswered, FilterFieldsFailed, FieldsFollow
  <2>5. CASE FilterFieldsAnswered(f)
    <3>1. Show(answered, FALSE) /\ outdated' = [outdated EXCEPT !.fields = f.old]
      BY <2>5 DEF FilterFieldsAnswered
    <3> HIDE DEF answered
    <3>2. /\ outdated' \in OutdatedState /\ outdated'.rows = outdated.rows
          /\ outdated'.fields = f.old /\ outdated'.values = outdated.values
      BY <1>0, <2>1, <3>1 DEF OutdatedState
    <3>3. ~outdated'.values => answered.values \subseteq {answered.line}
      BY <1>0, <2>2, <3>2 DEF ValuesFollow
    <3> QED BY <1>0, <1>3, <2>2, <2>4, <3>1, <3>2, <3>3
  <2>6. CASE FilterFieldsFailed(f)
    <3>1. Show(failed, FALSE) /\ outdated' = [outdated EXCEPT !.fields = FALSE]
      BY <2>6 DEF FilterFieldsFailed
    <3> HIDE DEF failed
    <3>2. /\ outdated' \in OutdatedState /\ outdated'.rows = outdated.rows
          /\ outdated'.values = outdated.values
      BY <1>0, <3>1 DEF OutdatedState
    <3>3. ~outdated'.values => failed.values \subseteq {failed.line}
      BY <1>0, <2>3, <3>2 DEF ValuesFollow
    <3> QED BY <1>0, <1>3, <2>3, <2>4, <3>1, <3>2, <3>3
  <2> QED BY <1>12, <2>5, <2>6
\* The i-th answer: rows, or none.
<1>13. ASSUME NEW i, RowsAnswered(i) \/ RowsFailed(i) PROVE TableInv'
  <2> DEFINE Good == [query : {Query(table)}, passed : BOOLEAN]
             fits == ~outdated.rows => table.rows = Query(table)
             fitsThen == ~outdated'.rows => table'.rows = Query(table)
             passed == rowLoads[i].passed
  <2>1. /\ i \in DOMAIN rowLoads /\ rowLoads' = Without(i) /\ UNCHANGED <<fieldLoads, changing>>
    BY <1>13 DEF RowsAnswered, RowsFailed
  <2>2. rowLoads[i] \in RowLoads BY <1>0, <2>1, LenProperties, ElementOfSeq
  <2>3. rowLoads[i].query \in Queries /\ passed \in BOOLEAN BY <2>2 DEF RowLoads
  <2>4. /\ table' \in TableState /\ Query(table') = Query(table)
        /\ table'.line = table.line /\ table'.fields = table.fields
        /\ outdated' \in OutdatedState /\ outdated'.fields = outdated.fields
        /\ table'.values = table.values /\ outdated'.values = outdated.values
        /\ \/ table'.rows = rowLoads[i].query /\ outdated'.rows = passed
           \/ table'.rows = table.rows /\ outdated'.rows = (outdated.rows \/ ~passed)
    <3>1. CASE RowsFailed(i)
      <4>1. /\ table' = [table EXCEPT !.loading = FALSE]
            /\ outdated' = [outdated EXCEPT !.rows = outdated.rows \/ ~passed]
        BY <3>1 DEF RowsFailed
      <4>2. /\ table' \in TableState /\ Query(table') = Query(table) /\ table'.rows = table.rows
            /\ table'.line = table.line /\ table'.fields = table.fields
            /\ table'.values = table.values
        BY <1>0, <4>1 DEF TableState, Query
      <4>3. (outdated.rows \/ ~passed) \in BOOLEAN OBVIOUS
      <4> QED BY <1>0, <4>1, <4>2, <4>3 DEF OutdatedState
    <3>2. CASE RowsAnswered(i)
      <4> DEFINE q == rowLoads[i].query
                 a == [table EXCEPT !.rows = q]
      <4>1. /\ table' = [a EXCEPT !.loading = FALSE]
            /\ outdated' = [outdated EXCEPT !.rows = passed]
        BY <3>2 DEF RowsAnswered
      <4>2. q \in Queries \cup {NoQuery} BY <2>3
      <4> HIDE DEF q
      <4>3. a \in TableState /\ Query(a) = Query(table) /\ a.line = table.line
            /\ a.fields = table.fields /\ a.rows = q /\ a.values = table.values
        BY <1>0, <4>2 DEF TableState, Query
      <4> HIDE DEF a
      <4>4. table' \in TableState /\ Query(table') = Query(a) /\ table'.line = a.line
            /\ table'.fields = a.fields /\ table'.rows = a.rows /\ table'.values = a.values
        BY <4>1, <4>3 DEF TableState, Query
      <4> QED BY <1>0, <2>3, <4>1, <4>3, <4>4 DEF q, OutdatedState
    <3> QED BY <1>13, <3>1, <3>2
  <2>6. (passed /\ fits) => fitsThen BY <2>4
  <2>7. (~passed /\ rowLoads[i] \in Good) => fitsThen BY <2>4
  <2>8. Follows(rowLoads, Good, fits) BY <1>0 DEF RowsFollow
  <2>9. fits \in BOOLEAN /\ fitsThen \in BOOLEAN OBVIOUS
  <2>10. rowLoads' \in Seq(RowLoads) /\ Follows(rowLoads', Good, fitsThen)
    <3>1. rowLoads' = Remaining(rowLoads, i) BY <2>1 DEF Without, Remaining
    <3> HIDE DEF Good, fits, fitsThen
    <3> QED BY <1>0, <2>1, <2>6, <2>7, <2>8, <2>9, <3>1, RowLoadsPassable, LoadAnswered
  <2>11. RowsFollow' BY <2>4, <2>10 DEF RowsFollow
  <2>12. FieldsFollow' /\ ValuesFollow' BY <1>0, <2>1, <2>4 DEF FieldsFollow, ValuesFollow
  <2> QED BY <1>0, <2>1, <2>4, <2>10, <2>11, <2>12 DEF TableInv, TableTypes
<1>14. CASE ChangePrograms \/ ProgramsNotChanged
  <2>1. UNCHANGED <<table, rowLoads, fieldLoads, outdated>> /\ changing' \in Queries \cup {NoQuery}
    BY <1>0, <1>14 DEF ChangePrograms, ProgramsNotChanged
  <2> QED BY <1>0, <2>1 DEF TableInv, TableTypes, RowsFollow, FieldsFollow, ValuesFollow
<1>15. CASE ProgramsChanged
  <2> DEFINE new == [query |-> changing, passed |-> changing # Query(table)]
             Good == [query : {Query(table)}, passed : BOOLEAN]
             fits == ~outdated.rows => table.rows = Query(table)
  <2>1. /\ changing \in Queries /\ changing' = NoQuery /\ rowLoads' = Append(rowLoads, new)
        /\ table' = [table EXCEPT !.loading = TRUE] /\ UNCHANGED <<fieldLoads, outdated>>
    BY <1>0, <1>15 DEF ProgramsChanged
  <2>2. new \in RowLoads /\ (~new.passed => new \in Good) BY <2>1 DEF RowLoads
  <2>3. Follows(rowLoads, Good, fits) BY <1>0 DEF RowsFollow
  <2>4. rowLoads' \in Seq(RowLoads) /\ Follows(rowLoads', Good, fits)
    <3> HIDE DEF new, Good, fits
    <3> QED BY <1>0, <2>1, <2>2, <2>3, LoadSent
  <2>5. /\ table' \in TableState /\ Query(table') = Query(table) /\ table'.rows = table.rows
        /\ table'.line = table.line /\ table'.fields = table.fields
        /\ table'.values = table.values
    BY <1>0, <2>1 DEF TableState, Query
  <2>6. RowsFollow' BY <2>1, <2>4, <2>5 DEF RowsFollow
  <2> QED BY <1>0, <2>1, <2>4, <2>5, <2>6 DEF TableInv, TableTypes, FieldsFollow, ValuesFollow
<1>16. CASE UNCHANGED tableVars
  BY <1>0, <1>16 DEF tableVars, TableInv, TableTypes, RowsFollow, FieldsFollow, ValuesFollow
<1> QED
  BY <1>5, <1>6, <1>7, <1>8, <1>9, <1>10, <1>11, <1>12, <1>13, <1>14, <1>15, <1>16
  DEF TableNext, TableSteps, RowAnswers, LineChoices

LEMMA TableInvShows == TableInv => TableShowsQuery
<1> SUFFICES ASSUME TableInv PROVE TableShowsQuery
  OBVIOUS
<1>1. ASSUME rowLoads = <<>>, ~outdated.rows PROVE table.rows = Query(table)
  <2>1. DOMAIN rowLoads = {} BY <1>1
  <2> QED BY <1>1, <2>1 DEF TableInv, RowsFollow, Follows
<1>2. ASSUME fieldLoads = {}, ~outdated.fields PROVE table.fields \in {table.line, AnyLine}
  BY <1>2 DEF TableInv, FieldsFollow
<1> QED BY <1>1, <1>2 DEF TableInv, ValuesFollow, TableShowsQuery

-----------------------------------------------------------------------------
(***************************************************************************)
(* The export page.                                                        *)
(***************************************************************************)
CenterState ==
    [offered : SUBSET Columns, columnsLoading : BOOLEAN, selected : SUBSET Columns,
     typed : CenterKeywords, keyword : CenterKeywords, filter : CenterFilters,
     page : CenterPages, preview : AllPreviews \cup {NoPreview}, loading : BOOLEAN,
     figures : AllWanted \cup {NoFigures}, counting : BOOLEAN, exporting : BOOLEAN,
     turned : AllWanted \cup {NoFigures}]
PreviewLoads == [query : AllPreviews, passed : BOOLEAN]
FigureLoads == [query : AllWanted, passed : BOOLEAN]

CenterTypes ==
    /\ center \in CenterState
    /\ previewLoads \in Seq(PreviewLoads) /\ figureLoads \in Seq(FigureLoads)
    /\ savedColumns \subseteq Columns
    /\ superseded \in [preview : BOOLEAN, figures : BOOLEAN, page : BOOLEAN]

\* The last preview asked for in time is the one wanted; without a column
\* none is asked for.
PreviewFollows ==
    center.selected # {} =>
      Follows(previewLoads, [query : {PreviewOf(center)}, passed : BOOLEAN],
              ~superseded.preview => center.preview = PreviewOf(center))

FiguresFollow ==
    Follows(figureLoads, [query : {Wanted(center)}, passed : BOOLEAN],
            ~superseded.figures => center.figures = Wanted(center))

PageOfItsFilters == (center.page # 1 /\ ~superseded.page) => center.turned = Wanted(center)

CenterInv == CenterTypes /\ PreviewFollows /\ FiguresFollow /\ PageOfItsFilters

LEMMA WantedOf ==
  ASSUME NEW c \in CenterState
  PROVE  Wanted(c) \in AllWanted /\ PreviewOf(c) \in AllPreviews
BY DEF CenterState, Wanted, PreviewOf, AllWanted, AllPreviews

\* The page as it opens.
LEMMA CenterOpened ==
  /\ Opened \in CenterState /\ Opened.selected = {} /\ Opened.page = 1
  /\ <<CenterLoad(Wanted(Opened))>> \in Seq(FigureLoads)
  /\ \A fits : Follows(<<CenterLoad(Wanted(Opened))>>,
                       [query : {Wanted(Opened)}, passed : BOOLEAN], fits)
<1>1. Opened \in CenterState /\ Opened.selected = {} /\ Opened.page = 1
  <2>1. NoFilter \in CenterFilters /\ "" \in CenterKeywords /\ 1 \in CenterPages
    BY CenterAssumption
  <2>2. {} \in SUBSET Columns OBVIOUS
  <2> QED BY <2>1, <2>2 DEF Opened, CenterState
<1> DEFINE load == CenterLoad(Wanted(Opened))
           Good == [query : {Wanted(Opened)}, passed : BOOLEAN]
<1>2. load \in FigureLoads /\ load \in Good /\ ~load.passed
  <2>1. Wanted(Opened) \in AllWanted BY <1>1, WantedOf
  <2> QED BY <2>1 DEF CenterLoad, FigureLoads
<1>3. <<load>> \in Seq(FigureLoads) /\ \A fits : Follows(<<load>>, Good, fits)
  <2> HIDE DEF load, Good
  <2> QED BY <1>2, FirstLoad
<1> QED BY <1>1, <1>3

LEMMA CenterStart == CenterInit => CenterInv
<1> SUFFICES ASSUME CenterInit PROVE CenterInv
  OBVIOUS
<1>1. CenterTypes BY CenterOpened, EmptySeq DEF CenterTypes, CenterInit
<1>2. FiguresFollow BY CenterOpened DEF FiguresFollow, CenterInit
<1>3. PreviewFollows /\ PageOfItsFilters
  BY CenterOpened DEF PreviewFollows, PageOfItsFilters, CenterInit
<1> QED BY <1>1, <1>2, <1>3 DEF CenterInv

LEMMA CenterLoadsPassable == Passable(PreviewLoads) /\ Passable(FigureLoads)
BY DEF Passable, PreviewLoads, FigureLoads

\* What is rendered is loaded when it is not what was.
LEMMA CenterRendered ==
  ASSUME CenterInv, NEW new \in CenterState, NEW anew \in BOOLEAN, ShowCenter(new, anew),
         new.preview = center.preview, new.figures = center.figures,
         savedColumns' \subseteq Columns,
         superseded' \in [preview : BOOLEAN, figures : BOOLEAN, page : BOOLEAN],
         superseded'.preview = superseded.preview, superseded'.figures = superseded.figures,
         (new.page # 1 /\ ~superseded'.page) => new.turned = Wanted(new)
  PROVE  CenterInv'
<1> DEFINE again == new.selected # {} /\ (anew \/ PreviewOf(new) # PreviewOf(center))
           recount == Wanted(new) # Wanted(center)
           l == new.loading \/ again
           k == new.counting \/ recount
           t == IF new.page = 1 THEN NoFigures ELSE new.turned
           shown == CenterLoad(PreviewOf(new))
           counted == CenterLoad(Wanted(new))
           a == [new EXCEPT !.loading = l]
           b == [a EXCEPT !.counting = k]
<1>0. /\ CenterTypes /\ PreviewFollows /\ FiguresFollow
      /\ previewLoads \in Seq(PreviewLoads) /\ figureLoads \in Seq(FigureLoads)
  BY DEF CenterInv, CenterTypes
<1>1. /\ previewLoads' = IF again THEN Append(previewLoads, shown) ELSE previewLoads
      /\ figureLoads' = IF recount THEN Append(figureLoads, counted) ELSE figureLoads
      /\ center' = [b EXCEPT !.turned = t]
  BY DEF ShowCenter
<1>2. /\ center' \in CenterState /\ PreviewOf(center') = PreviewOf(new)
      /\ Wanted(center') = Wanted(new) /\ center'.selected = new.selected
      /\ center'.page = new.page /\ center'.turned = t
      /\ center'.preview = center.preview /\ center'.figures = center.figures
  <2>1. l \in BOOLEAN /\ k \in BOOLEAN BY DEF CenterState
  <2>2. t \in AllWanted \cup {NoFigures} BY DEF CenterState
  <2> HIDE DEF l, k, t
  <2>3. /\ a \in CenterState /\ PreviewOf(a) = PreviewOf(new) /\ Wanted(a) = Wanted(new)
        /\ a.selected = new.selected /\ a.page = new.page
        /\ a.preview = new.preview /\ a.figures = new.figures
    BY <2>1 DEF CenterState, PreviewOf, Wanted
  <2> HIDE DEF a
  <2>4. /\ b \in CenterState /\ PreviewOf(b) = PreviewOf(a) /\ Wanted(b) = Wanted(a)
        /\ b.selected = a.selected /\ b.page = a.page
        /\ b.preview = a.preview /\ b.figures = a.figures
    BY <2>1, <2>3 DEF CenterState, PreviewOf, Wanted
  <2> HIDE DEF b
  <2>5. /\ center' \in CenterState /\ PreviewOf(center') = PreviewOf(b)
        /\ Wanted(center') = Wanted(b) /\ center'.selected = b.selected
        /\ center'.page = b.page /\ center'.turned = t
        /\ center'.preview = b.preview /\ center'.figures = b.figures
    BY <1>1, <2>2, <2>4 DEF CenterState, PreviewOf, Wanted
  <2> QED BY <2>3, <2>4, <2>5
<1> HIDE DEF a, b
<1>3. previewLoads' \in Seq(PreviewLoads) /\ PreviewFollows'
  <2> DEFINE Good == [query : {PreviewOf(new)}, passed : BOOLEAN]
             fits == ~superseded.preview => center.preview = PreviewOf(new)
  <2>1. shown \in PreviewLoads /\ shown \in Good /\ ~shown.passed
    <3>1. PreviewOf(new) \in AllPreviews BY WantedOf
    <3> QED BY <3>1 DEF CenterLoad, PreviewLoads
  <2>2. CASE again
    <3>1. previewLoads' = Append(previewLoads, shown) BY <1>1, <2>2
    <3>2. previewLoads' \in Seq(PreviewLoads) /\ Follows(previewLoads', Good, fits)
      <4> HIDE DEF Good, fits, again, shown
      <4> QED BY <1>0, <2>1, <3>1, LoadSent
    <3> QED BY <1>2, <3>2 DEF PreviewFollows
  <2>3. CASE ~again
    <3>1. previewLoads' = previewLoads BY <1>1, <2>3
    <3>2. CASE new.selected = {} BY <1>0, <1>2, <3>1, <3>2 DEF PreviewFollows
    <3>3. CASE new.selected # {}
      <4>1. PreviewOf(new) = PreviewOf(center) BY <2>3, <3>3
      <4>2. center.selected = new.selected
        <5>1. PreviewOf(new).columns = PreviewOf(center).columns BY <4>1
        <5> QED BY <5>1 DEF PreviewOf
      <4> QED BY <1>0, <1>2, <3>1, <3>3, <4>1, <4>2 DEF PreviewFollows
    <3> QED BY <3>2, <3>3
  <2> QED BY <2>2, <2>3
<1>4. figureLoads' \in Seq(FigureLoads) /\ FiguresFollow'
  <2> DEFINE Good == [query : {Wanted(new)}, passed : BOOLEAN]
             fits == ~superseded.figures => center.figures = Wanted(new)
  <2>1. counted \in FigureLoads /\ counted \in Good /\ ~counted.passed
    <3>1. Wanted(new) \in AllWanted BY WantedOf
    <3> QED BY <3>1 DEF CenterLoad, FigureLoads
  <2>2. CASE recount
    <3>1. figureLoads' = Append(figureLoads, counted) BY <1>1, <2>2
    <3>2. figureLoads' \in Seq(FigureLoads) /\ Follows(figureLoads', Good, fits)
      <4> HIDE DEF Good, fits, recount, counted
      <4> QED BY <1>0, <2>1, <3>1, LoadSent
    <3> QED BY <1>2, <3>2 DEF FiguresFollow
  <2>3. CASE ~recount
    <3>1. figureLoads' = figureLoads /\ Wanted(new) = Wanted(center) BY <1>1, <2>3
    <3> QED BY <1>0, <1>2, <3>1 DEF FiguresFollow
  <2> QED BY <2>2, <2>3
<1>5. PageOfItsFilters' BY <1>2 DEF PageOfItsFilters
<1>6. CenterTypes' BY <1>2, <1>3, <1>4 DEF CenterTypes
<1> QED BY <1>3, <1>4, <1>5, <1>6 DEF CenterInv

\* The i-th preview comes, or fails to.
LEMMA PreviewEnded ==
  ASSUME CenterInv, NEW i, PreviewAnswered(i) \/ PreviewFailed(i)
  PROVE  CenterInv'
<1>0. /\ CenterTypes /\ PreviewFollows /\ FiguresFollow /\ PageOfItsFilters
      /\ center \in CenterState /\ previewLoads \in Seq(PreviewLoads)
      /\ superseded \in [preview : BOOLEAN, figures : BOOLEAN, page : BOOLEAN]
  BY DEF CenterInv, CenterTypes
<1> DEFINE Good == [query : {PreviewOf(center)}, passed : BOOLEAN]
           fits == ~superseded.preview => center.preview = PreviewOf(center)
           fitsThen == ~superseded'.preview => center'.preview = PreviewOf(center)
           passed == previewLoads[i].passed
           q == previewLoads[i].query
<1>1. /\ i \in DOMAIN previewLoads /\ previewLoads' = Remaining(previewLoads, i)
      /\ UNCHANGED <<figureLoads, savedColumns>>
  BY DEF PreviewAnswered, PreviewFailed, AnsweredOf, Remaining
<1>2. previewLoads[i] \in PreviewLoads BY <1>0, <1>1, LenProperties, ElementOfSeq
<1>3. q \in AllPreviews \cup {NoPreview} /\ passed \in BOOLEAN BY <1>2 DEF PreviewLoads
<1>4. /\ center' \in CenterState /\ PreviewOf(center') = PreviewOf(center)
      /\ Wanted(center') = Wanted(center) /\ center'.selected = center.selected
      /\ center'.page = center.page /\ center'.turned = center.turned
      /\ center'.figures = center.figures
      /\ superseded' \in [preview : BOOLEAN, figures : BOOLEAN, page : BOOLEAN]
      /\ superseded'.figures = superseded.figures /\ superseded'.page = superseded.page
      /\ \/ center'.preview = q /\ superseded'.preview = passed
         \/ center'.preview = center.preview /\ superseded'.preview = (superseded.preview \/ ~passed)
  <2>1. CASE PreviewFailed(i)
    <3>1. /\ center' = [center EXCEPT !.loading = FALSE]
          /\ superseded' = [superseded EXCEPT !.preview = superseded.preview \/ ~passed]
      BY <2>1 DEF PreviewFailed
    <3>2. /\ center' \in CenterState /\ PreviewOf(center') = PreviewOf(center)
          /\ Wanted(center') = Wanted(center) /\ center'.selected = center.selected
          /\ center'.page = center.page /\ center'.turned = center.turned
          /\ center'.figures = center.figures /\ center'.preview = center.preview
      BY <1>0, <3>1 DEF CenterState, PreviewOf, Wanted
    <3>3. (superseded.preview \/ ~passed) \in BOOLEAN OBVIOUS
    <3> QED BY <1>0, <3>1, <3>2, <3>3
  <2>2. CASE PreviewAnswered(i)
    <3> DEFINE a == [center EXCEPT !.preview = q]
    <3>1. /\ center' = [a EXCEPT !.loading = FALSE]
          /\ superseded' = [superseded EXCEPT !.preview = passed]
      BY <2>2 DEF PreviewAnswered
    <3> HIDE DEF q
    <3>2. /\ a \in CenterState /\ PreviewOf(a) = PreviewOf(center)
          /\ Wanted(a) = Wanted(center) /\ a.selected = center.selected
          /\ a.page = center.page /\ a.turned = center.turned
          /\ a.figures = center.figures /\ a.preview = q
      BY <1>0, <1>3 DEF CenterState, PreviewOf, Wanted
    <3> HIDE DEF a
    <3>3. /\ center' \in CenterState /\ PreviewOf(center') = PreviewOf(a)
          /\ Wanted(center') = Wanted(a) /\ center'.selected = a.selected
          /\ center'.page = a.page /\ center'.turned = a.turned
          /\ center'.figures = a.figures /\ center'.preview = a.preview
      BY <3>1, <3>2 DEF CenterState, PreviewOf, Wanted
    <3> QED BY <1>0, <1>3, <3>1, <3>2, <3>3
  <2> QED BY <2>1, <2>2
<1>5. previewLoads' \in Seq(PreviewLoads)
  BY <1>0, <1>1, CenterLoadsPassable, LoadsRemain
<1>6. PreviewFollows'
  <2> SUFFICES ASSUME center.selected # {} PROVE Follows(previewLoads', Good, fitsThen)
    BY <1>4 DEF PreviewFollows
  <2>1. Follows(previewLoads, Good, fits) BY <1>0 DEF PreviewFollows
  <2>2. (passed /\ fits) => fitsThen BY <1>4
  <2>3. (~passed /\ previewLoads[i] \in Good) => fitsThen BY <1>4
  <2>4. fits \in BOOLEAN /\ fitsThen \in BOOLEAN OBVIOUS
  <2> HIDE DEF Good, fits, fitsThen
  <2> QED BY <1>0, <1>1, <2>1, <2>2, <2>3, <2>4, CenterLoadsPassable, LoadAnswered
<1>7. CenterTypes' BY <1>0, <1>1, <1>4, <1>5 DEF CenterTypes
<1>8. FiguresFollow' /\ PageOfItsFilters'
  BY <1>0, <1>1, <1>4 DEF FiguresFollow, PageOfItsFilters
<1> QED BY <1>6, <1>7, <1>8 DEF CenterInv

\* The same for figures.
LEMMA FiguresEnded ==
  ASSUME CenterInv, NEW i, FiguresAnswered(i) \/ FiguresFailed(i)
  PROVE  CenterInv'
<1>0. /\ CenterTypes /\ PreviewFollows /\ FiguresFollow /\ PageOfItsFilters
      /\ center \in CenterState /\ figureLoads \in Seq(FigureLoads)
      /\ superseded \in [preview : BOOLEAN, figures : BOOLEAN, page : BOOLEAN]
  BY DEF CenterInv, CenterTypes
<1> DEFINE Good == [query : {Wanted(center)}, passed : BOOLEAN]
           fits == ~superseded.figures => center.figures = Wanted(center)
           fitsThen == ~superseded'.figures => center'.figures = Wanted(center)
           passed == figureLoads[i].passed
           q == figureLoads[i].query
<1>1. /\ i \in DOMAIN figureLoads /\ figureLoads' = Remaining(figureLoads, i)
      /\ UNCHANGED <<previewLoads, savedColumns>>
  BY DEF FiguresAnswered, FiguresFailed, AnsweredOf, Remaining
<1>2. figureLoads[i] \in FigureLoads BY <1>0, <1>1, LenProperties, ElementOfSeq
<1>3. q \in AllWanted \cup {NoFigures} /\ passed \in BOOLEAN BY <1>2 DEF FigureLoads
<1>4. /\ center' \in CenterState /\ PreviewOf(center') = PreviewOf(center)
      /\ Wanted(center') = Wanted(center) /\ center'.selected = center.selected
      /\ center'.page = center.page /\ center'.turned = center.turned
      /\ center'.preview = center.preview
      /\ superseded' \in [preview : BOOLEAN, figures : BOOLEAN, page : BOOLEAN]
      /\ superseded'.preview = superseded.preview /\ superseded'.page = superseded.page
      /\ \/ center'.figures = q /\ superseded'.figures = passed
         \/ center'.figures = center.figures /\ superseded'.figures = (superseded.figures \/ ~passed)
  <2>1. CASE FiguresFailed(i)
    <3>1. /\ center' = [center EXCEPT !.counting = FALSE]
          /\ superseded' = [superseded EXCEPT !.figures = superseded.figures \/ ~passed]
      BY <2>1 DEF FiguresFailed
    <3>2. /\ center' \in CenterState /\ PreviewOf(center') = PreviewOf(center)
          /\ Wanted(center') = Wanted(center) /\ center'.selected = center.selected
          /\ center'.page = center.page /\ center'.turned = center.turned
          /\ center'.figures = center.figures /\ center'.preview = center.preview
      BY <1>0, <3>1 DEF CenterState, PreviewOf, Wanted
    <3>3. (superseded.figures \/ ~passed) \in BOOLEAN OBVIOUS
    <3> QED BY <1>0, <3>1, <3>2, <3>3
  <2>2. CASE FiguresAnswered(i)
    <3> DEFINE a == [center EXCEPT !.figures = q]
    <3>1. /\ center' = [a EXCEPT !.counting = FALSE]
          /\ superseded' = [superseded EXCEPT !.figures = passed]
      BY <2>2 DEF FiguresAnswered
    <3> HIDE DEF q
    <3>2. /\ a \in CenterState /\ PreviewOf(a) = PreviewOf(center)
          /\ Wanted(a) = Wanted(center) /\ a.selected = center.selected
          /\ a.page = center.page /\ a.turned = center.turned
          /\ a.preview = center.preview /\ a.figures = q
      BY <1>0, <1>3 DEF CenterState, PreviewOf, Wanted
    <3> HIDE DEF a
    <3>3. /\ center' \in CenterState /\ PreviewOf(center') = PreviewOf(a)
          /\ Wanted(center') = Wanted(a) /\ center'.selected = a.selected
          /\ center'.page = a.page /\ center'.turned = a.turned
          /\ center'.figures = a.figures /\ center'.preview = a.preview
      BY <3>1, <3>2 DEF CenterState, PreviewOf, Wanted
    <3> QED BY <1>0, <1>3, <3>1, <3>2, <3>3
  <2> QED BY <2>1, <2>2
<1>5. figureLoads' \in Seq(FigureLoads) /\ Follows(figureLoads', Good, fitsThen)
  <2>1. Follows(figureLoads, Good, fits) BY <1>0 DEF FiguresFollow
  <2>2. (passed /\ fits) => fitsThen BY <1>4
  <2>3. (~passed /\ figureLoads[i] \in Good) => fitsThen BY <1>4
  <2>4. fits \in BOOLEAN /\ fitsThen \in BOOLEAN OBVIOUS
  <2> HIDE DEF Good, fits, fitsThen
  <2> QED BY <1>0, <1>1, <2>1, <2>2, <2>3, <2>4, CenterLoadsPassable, LoadAnswered
<1>6. FiguresFollow' BY <1>4, <1>5 DEF FiguresFollow
<1>7. CenterTypes' BY <1>0, <1>1, <1>4, <1>5 DEF CenterTypes
<1>8. PreviewFollows' /\ PageOfItsFilters'
  BY <1>0, <1>1, <1>4 DEF PreviewFollows, PageOfItsFilters
<1> QED BY <1>6, <1>7, <1>8 DEF CenterInv

LEMMA CenterStep == CenterInv /\ [CenterNext]_centerVars => CenterInv'
<1> SUFFICES ASSUME CenterInv, [CenterNext]_centerVars PROVE CenterInv'
  OBVIOUS
<1>0. /\ CenterTypes /\ PreviewFollows /\ FiguresFollow /\ PageOfItsFilters
      /\ center \in CenterState /\ savedColumns \subseteq Columns
      /\ previewLoads \in Seq(PreviewLoads) /\ figureLoads \in Seq(FigureLoads)
      /\ superseded \in [preview : BOOLEAN, figures : BOOLEAN, page : BOOLEAN]
  BY DEF CenterInv, CenterTypes
<1>1. 1 \in CenterPages /\ BuiltinColumns \subseteq Columns /\ CustomColumns \subseteq Columns
  BY CenterAssumption DEF Columns
<1>2. ASSUME NEW custom \in SUBSET CustomColumns, ColumnsAnswered(custom) PROVE CenterInv'
  <2> DEFINE o == BuiltinColumns \cup custom
             s == IF savedColumns # {} THEN savedColumns ELSE BuiltinColumns
             a == [center EXCEPT !.columnsLoading = FALSE]
             b == [a EXCEPT !.offered = o]
             new == [b EXCEPT !.selected = s]
  <2>1. ShowCenter(new, TRUE) /\ UNCHANGED <<savedColumns, superseded>>
    BY <1>2 DEF ColumnsAnswered
  <2>2. o \in SUBSET Columns /\ s \in SUBSET Columns BY <1>0, <1>1
  <2> HIDE DEF o, s
  <2>3. /\ a \in CenterState /\ a.preview = center.preview /\ a.figures = center.figures
        /\ a.page = center.page /\ a.turned = center.turned /\ Wanted(a) = Wanted(center)
    BY <1>0 DEF CenterState, Wanted
  <2> HIDE DEF a
  <2>4. /\ b \in CenterState /\ b.preview = a.preview /\ b.figures = a.figures
        /\ b.page = a.page /\ b.turned = a.turned /\ Wanted(b) = Wanted(a)
    BY <2>2, <2>3 DEF CenterState, Wanted
  <2> HIDE DEF b
  <2>5. /\ new \in CenterState /\ new.preview = b.preview /\ new.figures = b.figures
        /\ new.page = b.page /\ new.turned = b.turned /\ Wanted(new) = Wanted(b)
    BY <2>2, <2>4 DEF CenterState, Wanted
  <2> HIDE DEF new
  <2>6. (new.page # 1 /\ ~superseded'.page) => new.turned = Wanted(new)
    BY <1>0, <2>1, <2>3, <2>4, <2>5 DEF PageOfItsFilters
  <2> QED BY <1>0, <2>1, <2>3, <2>4, <2>5, <2>6, CenterRendered
<1>3. CASE ColumnsFailed
  <2> DEFINE new == [center EXCEPT !.columnsLoading = FALSE]
  <2>1. ShowCenter(new, FALSE) /\ UNCHANGED <<savedColumns, superseded>>
    BY <1>3 DEF ColumnsFailed
  <2>2. /\ new \in CenterState /\ new.preview = center.preview /\ new.figures = center.figures
        /\ new.page = center.page /\ new.turned = center.turned /\ Wanted(new) = Wanted(center)
    BY <1>0 DEF CenterState, Wanted
  <2> HIDE DEF new
  <2>3. (new.page # 1 /\ ~superseded'.page) => new.turned = Wanted(new)
    BY <1>0, <2>1, <2>2 DEF PageOfItsFilters
  <2> QED BY <1>0, <2>1, <2>2, <2>3, CenterRendered
<1>4. ASSUME NEW keys \in SUBSET Columns, SelectColumns(keys) PROVE CenterInv'
  <2> DEFINE a == [center EXCEPT !.selected = keys]
             new == [a EXCEPT !.page = 1]
  <2>1. ShowCenter(new, TRUE) /\ savedColumns' = keys /\ UNCHANGED superseded
    BY <1>4 DEF SelectColumns
  <2>2. a \in CenterState /\ a.preview = center.preview /\ a.figures = center.figures
    BY <1>0 DEF CenterState
  <2> HIDE DEF a
  <2>3. /\ new \in CenterState /\ new.preview = a.preview /\ new.figures = a.figures
        /\ new.page = 1
    BY <1>1, <2>2 DEF CenterState
  <2> HIDE DEF new
  <2> QED BY <1>0, <2>1, <2>2, <2>3, CenterRendered
<1>5. ASSUME NEW k \in CenterKeywords, TypeCenterKeyword(k) PROVE CenterInv'
  <2> DEFINE a == [center EXCEPT !.typed = k]
             new == [a EXCEPT !.page = 1]
  <2>1. ShowCenter(new, FALSE) /\ UNCHANGED <<savedColumns, superseded>>
    BY <1>5 DEF TypeCenterKeyword
  <2>2. a \in CenterState /\ a.preview = center.preview /\ a.figures = center.figures
    BY <1>0 DEF CenterState
  <2> HIDE DEF a
  <2>3. /\ new \in CenterState /\ new.preview = a.preview /\ new.figures = a.figures
        /\ new.page = 1
    BY <1>1, <2>2 DEF CenterState
  <2> HIDE DEF new
  <2> QED BY <1>0, <2>1, <2>2, <2>3, CenterRendered
<1>6. CASE KeywordCounts
  <2> DEFINE k == center.typed
             new == [center EXCEPT !.keyword = k]
             turned == center.page # 1
  <2>1. /\ ShowCenter(new, FALSE) /\ superseded' = [superseded EXCEPT !.page = turned]
        /\ UNCHANGED savedColumns
    BY <1>6 DEF KeywordCounts
  <2>2. k \in CenterKeywords BY <1>0 DEF CenterState
  <2> HIDE DEF k
  <2>3. /\ new \in CenterState /\ new.preview = center.preview /\ new.figures = center.figures
        /\ new.page = center.page
    BY <1>0, <2>2 DEF CenterState
  <2> HIDE DEF new
  <2>4. /\ superseded' \in [preview : BOOLEAN, figures : BOOLEAN, page : BOOLEAN]
        /\ superseded'.preview = superseded.preview /\ superseded'.figures = superseded.figures
        /\ superseded'.page = (center.page # 1)
    BY <1>0, <2>1
  <2>5. (new.page # 1 /\ ~superseded'.page) => new.turned = Wanted(new) BY <2>3, <2>4
  <2> QED BY <1>0, <2>1, <2>3, <2>4, <2>5, CenterRendered
<1>7. ASSUME NEW f \in CenterFilters, FilterCenter(f) PROVE CenterInv'
  <2> DEFINE a == [center EXCEPT !.filter = f]
             new == [a EXCEPT !.page = 1]
  <2>1. ShowCenter(new, FALSE) /\ UNCHANGED <<savedColumns, superseded>>
    BY <1>7 DEF FilterCenter
  <2>2. a \in CenterState /\ a.preview = center.preview /\ a.figures = center.figures
    BY <1>0 DEF CenterState
  <2> HIDE DEF a
  <2>3. /\ new \in CenterState /\ new.preview = a.preview /\ new.figures = a.figures
        /\ new.page = 1
    BY <1>1, <2>2 DEF CenterState
  <2> HIDE DEF new
  <2> QED BY <1>0, <2>1, <2>2, <2>3, CenterRendered
<1>8. ASSUME NEW p \in CenterPages, TurnPreviewPage(p) PROVE CenterInv'
  <2> DEFINE w == Wanted(center)
             a == [center EXCEPT !.page = p]
             new == [a EXCEPT !.turned = w]
  <2>1. /\ ShowCenter(new, FALSE) /\ superseded' = [superseded EXCEPT !.page = FALSE]
        /\ UNCHANGED savedColumns
    BY <1>8 DEF TurnPreviewPage
  <2>2. w \in AllWanted BY <1>0, WantedOf
  <2>3. /\ a \in CenterState /\ a.preview = center.preview /\ a.figures = center.figures
        /\ Wanted(a) = w
    BY <1>0 DEF CenterState, Wanted
  <2> HIDE DEF a, w
  <2>4. /\ new \in CenterState /\ new.preview = a.preview /\ new.figures = a.figures
        /\ Wanted(new) = Wanted(a) /\ new.turned = w
    BY <2>2, <2>3 DEF CenterState, Wanted
  <2> HIDE DEF new
  <2>5. /\ superseded' \in [preview : BOOLEAN, figures : BOOLEAN, page : BOOLEAN]
        /\ superseded'.preview = superseded.preview /\ superseded'.figures = superseded.figures
    BY <1>0, <2>1
  <2> QED BY <1>0, <2>1, <2>3, <2>4, <2>5, CenterRendered
<1>9. CASE RefreshCenter
  <2> DEFINE shown == CenterLoad(PreviewOf(center))
             counted == CenterLoad(Wanted(center))
             GoodPreview == [query : {PreviewOf(center)}, passed : BOOLEAN]
             GoodFigures == [query : {Wanted(center)}, passed : BOOLEAN]
             fitsPreview == ~superseded.preview => center.preview = PreviewOf(center)
             fitsFigures == ~superseded.figures => center.figures = Wanted(center)
             a == [center EXCEPT !.loading = TRUE]
  <2>1. /\ previewLoads' = Append(previewLoads, shown) /\ figureLoads' = Append(figureLoads, counted)
        /\ center' = [a EXCEPT !.counting = TRUE] /\ UNCHANGED <<savedColumns, superseded>>
    BY <1>9 DEF RefreshCenter
  <2>2. shown \in PreviewLoads /\ shown \in GoodPreview /\ ~shown.passed
    <3>1. PreviewOf(center) \in AllPreviews BY <1>0, WantedOf
    <3> QED BY <3>1 DEF CenterLoad, PreviewLoads
  <2>3. counted \in FigureLoads /\ counted \in GoodFigures /\ ~counted.passed
    <3>1. Wanted(center) \in AllWanted BY <1>0, WantedOf
    <3> QED BY <3>1 DEF CenterLoad, FigureLoads
  <2>4. /\ a \in CenterState /\ a.preview = center.preview /\ a.figures = center.figures
        /\ a.page = center.page /\ a.turned = center.turned /\ Wanted(a) = Wanted(center)
        /\ PreviewOf(a) = PreviewOf(center) /\ a.selected = center.selected
    BY <1>0 DEF CenterState, Wanted, PreviewOf
  <2> HIDE DEF a
  <2>5. /\ center' \in CenterState /\ center'.preview = a.preview /\ center'.figures = a.figures
        /\ center'.page = a.page /\ center'.turned = a.turned /\ Wanted(center') = Wanted(a)
        /\ PreviewOf(center') = PreviewOf(a) /\ center'.selected = a.selected
    BY <2>1, <2>4 DEF CenterState, Wanted, PreviewOf
  <2>6. /\ previewLoads' \in Seq(PreviewLoads) /\ Follows(previewLoads', GoodPreview, fitsPreview)
        /\ figureLoads' \in Seq(FigureLoads) /\ Follows(figureLoads', GoodFigures, fitsFigures)
    <3> HIDE DEF shown, counted, GoodPreview, GoodFigures, fitsPreview, fitsFigures
    <3> QED BY <1>0, <2>1, <2>2, <2>3, LoadSent
  <2>7. CenterTypes' BY <1>0, <2>1, <2>5, <2>6 DEF CenterTypes
  <2>8. PreviewFollows' BY <2>1, <2>4, <2>5, <2>6 DEF PreviewFollows
  <2>9. FiguresFollow' BY <2>1, <2>4, <2>5, <2>6 DEF FiguresFollow
  <2>10. PageOfItsFilters' BY <1>0, <2>1, <2>4, <2>5 DEF PageOfItsFilters
  <2> QED BY <2>7, <2>8, <2>9, <2>10 DEF CenterInv
<1>10. CASE HandleExport \/ ExportEnds
  <2>1. /\ center' = [center EXCEPT !.exporting = TRUE] \/ center' = [center EXCEPT !.exporting = FALSE]
        /\ UNCHANGED <<previewLoads, figureLoads, savedColumns, superseded>>
    BY <1>10 DEF HandleExport, ExportEnds
  <2>2. /\ center' \in CenterState /\ center'.preview = center.preview
        /\ center'.figures = center.figures
        /\ center'.page = center.page /\ center'.turned = center.turned
        /\ Wanted(center') = Wanted(center)
        /\ PreviewOf(center') = PreviewOf(center) /\ center'.selected = center.selected
    BY <1>0, <2>1 DEF CenterState, Wanted, PreviewOf
  <2>3. CenterTypes' BY <1>0, <2>1, <2>2 DEF CenterTypes
  <2>4. PreviewFollows' /\ FiguresFollow' /\ PageOfItsFilters'
    BY <1>0, <2>1, <2>2 DEF PreviewFollows, FiguresFollow, PageOfItsFilters
  <2> QED BY <2>3, <2>4 DEF CenterInv
<1>11. CASE ReopenCenter
  <2>1. CenterTypes' BY <1>0, <1>11, CenterOpened, EmptySeq DEF CenterTypes, ReopenCenter
  <2>2. FiguresFollow' BY <1>11, CenterOpened DEF FiguresFollow, ReopenCenter
  <2>3. PreviewFollows' /\ PageOfItsFilters'
    BY <1>11, CenterOpened DEF PreviewFollows, PageOfItsFilters, ReopenCenter
  <2> QED BY <2>1, <2>2, <2>3 DEF CenterInv
<1>12. CASE UNCHANGED centerVars
  BY <1>0, <1>12
  DEF centerVars, CenterInv, CenterTypes, PreviewFollows, FiguresFollow, PageOfItsFilters
<1>13. ASSUME NEW group, ToggleColumns(group) PROVE CenterInv'
  <2>1. group \subseteq Columns /\ center.selected \subseteq Columns
    BY <1>0, <1>13 DEF ToggleColumns, CenterState
  <2>2. \E keys \in SUBSET Columns : SelectColumns(keys)
    BY <1>13, <2>1 DEF ToggleColumns
  <2> QED BY <1>4, <2>2
<1>14. CASE SelectAllColumns \/ DeselectAllColumns
  <2>1. center.offered \in SUBSET Columns BY <1>0 DEF CenterState
  <2>2. \E keys \in SUBSET Columns : SelectColumns(keys)
    BY <1>14, <2>1 DEF SelectAllColumns, DeselectAllColumns
  <2> QED BY <1>4, <2>2
<1> QED
  BY <1>2, <1>3, <1>5, <1>6, <1>7, <1>8, <1>9, <1>10, <1>11, <1>12, <1>13, <1>14,
     PreviewEnded, FiguresEnded
  DEF CenterNext, CenterSteps, PreviewAnswers, FigureAnswers, ColumnAnswers

LEMMA CenterInvShows == CenterInv => ExportShown
<1> SUFFICES ASSUME CenterInv PROVE ExportShown
  OBVIOUS
<1>1. ASSUME previewLoads = <<>>, ~superseded.preview, center.selected # {}
      PROVE  center.preview = PreviewOf(center)
  <2>1. DOMAIN previewLoads = {} BY <1>1
  <2> QED BY <1>1, <2>1 DEF CenterInv, PreviewFollows, Follows
<1>2. ASSUME figureLoads = <<>>, ~superseded.figures PROVE center.figures = Wanted(center)
  <2>1. DOMAIN figureLoads = {} BY <1>2
  <2> QED BY <1>2, <2>1 DEF CenterInv, FiguresFollow, Follows
<1> QED BY <1>1, <1>2 DEF ExportShown, CenterInv, PageOfItsFilters

-----------------------------------------------------------------------------
(***************************************************************************)
(* The backups of the system page.                                         *)
(***************************************************************************)
\* A function on the first numbers is a sequence of that length.
LEMMA AsSequence ==
  ASSUME NEW S, NEW n \in Nat, NEW f \in [1 .. n -> S]
  PROVE  f \in Seq(S) /\ Len(f) = n
<1>1. f \in Seq(S) BY SeqDef
<1> DEFINE m == Len(f)
<1>2. m \in Nat /\ 1 .. m = 1 .. n BY <1>1, LenProperties
<1> HIDE DEF m
<1>3. (m = 0 \/ m \in 1 .. n) /\ (n = 0 \/ n \in 1 .. m) BY <1>2
<1>4. m = n BY <1>2, <1>3
<1> QED BY <1>1, <1>4 DEF m

BackupState == [listed : SUBSET Backups, loading : BOOLEAN,
                working : BackupKinds \cup {"", "restore"}, confirming : BOOLEAN,
                operation : Backups \cup {NoBackup}]
BackupTasks == [does : {"make"}, of : BackupKinds, lost : BOOLEAN]
                 \cup [does : {"delete", "restore"}, of : Backups, lost : BOOLEAN]
Waited == {t \in BackupTasks : ~t.lost} \cup {NoTask}
ListingsOfBackups == [found : {Unread} \cup SUBSET Backups, task : Waited, passed : BOOLEAN]

BackupTypes ==
    /\ backupTab \in BackupState /\ stored \subseteq Backups
    /\ listings \in Seq(ListingsOfBackups) /\ tasks \subseteq BackupTasks
    /\ mixedUp \in [tasks : BOOLEAN, list : BOOLEAN]

\* A list of its own time is still to come.
ListToCome == listings # <<>> /\ ~listings[Len(listings)].passed

\* The last list that comes is that of the server, whatever was sent before.
ListingsFollow ==
    /\ ListToCome => listings[Len(listings)].found \in {Unread, stored}
    /\ \A k \in DOMAIN listings :
         ~listings[k].passed => listings[k].found \in {Unread, stored} \/ ListToCome
    /\ ~mixedUp.list => backupTab.listed = stored \/ ListToCome

Restores == {t \in tasks : t.does = "restore" /\ ~t.lost}
ListsForRestore(k) == listings[k].task.does = "restore"

\* The page knows of the one restore there is, under way or listing.
OneRestore ==
    ~mixedUp.tasks =>
      /\ \A t, u \in Restores : t = u
      /\ \A k, m \in DOMAIN listings : (ListsForRestore(k) /\ ListsForRestore(m)) => k = m
      /\ \A k \in DOMAIN listings :
           ListsForRestore(k) => Restores = {} /\ backupTab.working = "restore"
      /\ Restores # {} => backupTab.working = "restore"

BackupInv == BackupTypes /\ ListingsFollow /\ OneRestore

LEMMA BackupStart == BackupInit => BackupInv
<1> SUFFICES ASSUME BackupInit PROVE BackupInv
  OBVIOUS
<1> DEFINE first == Listing(NoTask)
<1>1. first \in ListingsOfBackups /\ ~first.passed /\ first.found = Unread
      /\ first.task = NoTask
  BY DEF Listing, ListingsOfBackups, Waited
<1>2. listings = <<first>> /\ tasks = {} /\ stored \subseteq Backups
      /\ mixedUp = [tasks |-> FALSE, list |-> FALSE]
  BY DEF BackupInit
<1> HIDE DEF first
<1>3. DOMAIN listings = {1} /\ listings[1] = first /\ Len(listings) = 1
      /\ listings \in Seq(ListingsOfBackups) /\ listings # <<>>
  BY <1>1, <1>2
<1>4. BackupTypes
  <2>1. backupTab \in BackupState BY DEF BackupInit, BackupState
  <2> QED BY <1>2, <1>3, <2>1 DEF BackupTypes
<1>5. ListingsFollow BY <1>1, <1>3 DEF ListingsFollow, ListToCome
<1>6. OneRestore
  <2>1. ~ListsForRestore(1) BY <1>1, <1>3 DEF ListsForRestore, NoTask
  <2>2. Restores = {} BY <1>2 DEF Restores
  <2> QED BY <1>3, <2>1, <2>2 DEF OneRestore
<1> QED BY <1>4, <1>5, <1>6 DEF BackupInv

LEMMA ListingsAre ==
  ASSUME BackupTypes
  PROVE  /\ Len(listings) \in Nat /\ DOMAIN listings = 1 .. Len(listings)
         /\ \A k \in DOMAIN listings :
              /\ listings[k] \in ListingsOfBackups /\ listings[k].passed \in BOOLEAN
              /\ listings[k].task \in Waited /\ listings[k].task.lost = FALSE
         /\ listings # <<>> <=> Len(listings) # 0
<1>1. listings \in Seq(ListingsOfBackups) BY DEF BackupTypes
<1>2. Len(listings) \in Nat /\ DOMAIN listings = 1 .. Len(listings)
      /\ \A k \in DOMAIN listings : listings[k] \in ListingsOfBackups
  BY <1>1, LenProperties, ElementOfSeq
<1>3. \A w \in Waited : w.lost = FALSE
  BY DEF Waited, NoTask, BackupTasks
<1>4. listings # <<>> <=> Len(listings) # 0
  BY <1>1, <1>2, EmptySeq
<1> QED BY <1>2, <1>3, <1>4 DEF ListingsOfBackups

\* Nothing restores as far as the page waits.
LEMMA NothingRestores ==
  ASSUME BackupTypes
  PROVE  Restoring = {} <=> /\ Restores = {}
                            /\ \A k \in DOMAIN listings : ~ListsForRestore(k)
<1>1. \A k \in DOMAIN listings : listings[k].task.lost = FALSE
  BY ListingsAre
<1>2. \A k \in DOMAIN listings : ListsForRestore(k) => listings[k].task \in Restoring
  BY <1>1 DEF Restoring, ListsForRestore
<1>3. Restores \subseteq Restoring
  BY DEF Restores, Restoring
<1>4. \A t \in Restoring : t \in Restores \/ \E k \in DOMAIN listings : ListsForRestore(k)
  BY DEF Restores, Restoring, ListsForRestore
<1> QED BY <1>2, <1>3, <1>4

\* What Finally leaves of the tab.
LEMMA FinallyLeaves ==
  ASSUME NEW tab \in BackupState, NEW t \in BackupTasks \cup {NoTask}
  PROVE  /\ Finally(tab, t) \in BackupState /\ Finally(tab, t).listed = tab.listed
         /\ t.does \notin {"make", "restore"} => Finally(tab, t) = tab
         /\ t.does \in {"make", "restore"} => Finally(tab, t).working = ""
<1>1. CASE t.does = "make"
  <2>1. Finally(tab, t) = [tab EXCEPT !.working = ""] BY <1>1 DEF Finally
  <2> QED BY <1>1, <2>1 DEF BackupState
<1>2. CASE t.does = "restore"
  <2> DEFINE a == [tab EXCEPT !.working = ""]
  <2>1. Finally(tab, t) = [a EXCEPT !.operation = NoBackup] BY <1>2 DEF Finally
  <2>2. a \in BackupState /\ a.listed = tab.listed /\ a.working = "" BY DEF BackupState
  <2> HIDE DEF a
  <2> QED BY <1>2, <2>1, <2>2 DEF BackupState
<1>3. CASE t.does \notin {"make", "restore"}
  <2>1. Finally(tab, t) = tab BY <1>3 DEF Finally
  <2> QED BY <1>3, <2>1
<1> QED BY <1>1, <1>2, <1>3

\* The list is loaded once more.
LEMMA BackupsLoaded ==
  ASSUME BackupTypes, NEW new \in BackupState, NEW t \in Waited, LoadBackups(new, t)
  PROVE  /\ listings' \in Seq(ListingsOfBackups) /\ ListToCome'
         /\ listings'[Len(listings')].found = Unread
         /\ DOMAIN listings' = 1 .. Len(listings) + 1
         /\ \A k \in 1 .. Len(listings) : listings'[k] = listings[k]
         /\ listings'[Len(listings) + 1].task = t
         /\ backupTab' \in BackupState /\ backupTab'.listed = new.listed
         /\ backupTab'.working = new.working
<1> DEFINE last == Listing(t)
           n == Len(listings)
<1>1. last \in ListingsOfBackups /\ ~last.passed /\ last.found = Unread /\ last.task = t
  BY DEF Listing, ListingsOfBackups
<1>2. listings' = Append(listings, last) /\ backupTab' = [new EXCEPT !.loading = TRUE]
  BY DEF LoadBackups
<1>3. listings \in Seq(ListingsOfBackups) /\ n \in Nat BY LenProperties DEF BackupTypes
<1> HIDE DEF last
<1>4. /\ listings' \in Seq(ListingsOfBackups) /\ Len(listings') = n + 1
      /\ listings'[n + 1] = last /\ \A k \in 1 .. n : listings'[k] = listings[k]
      /\ DOMAIN listings' = 1 .. n + 1
  BY <1>1, <1>2, <1>3, AppendProperties, LenProperties
<1>5. listings' # <<>>
  BY <1>3, <1>4, EmptySeq
<1>6. backupTab' \in BackupState /\ backupTab'.listed = new.listed
      /\ backupTab'.working = new.working
  BY <1>2 DEF BackupState
<1> QED BY <1>1, <1>4, <1>5, <1>6 DEF ListToCome

\* The i-th list comes, or fails to; those sent before it are passed.
LEMMA BackupListingEnds ==
  ASSUME BackupTypes, NEW i \in DOMAIN listings, listings' = ListingEnded(i)
  PROVE  /\ listings' \in Seq(ListingsOfBackups) /\ DOMAIN listings' = 1 .. Len(listings) - 1
         /\ Len(listings') = Len(listings) - 1
         /\ \A k \in 1 .. Len(listings) - 1 :
              \/ k >= i /\ k + 1 \in DOMAIN listings /\ listings'[k] = listings[k + 1]
              \/ k < i /\ k \in DOMAIN listings /\ listings'[k].task = listings[k].task
                       /\ listings'[k].passed
<1> DEFINE n == Len(listings)
           passed(k) == [listings[k] EXCEPT !.passed = TRUE]
<1>1. n \in Nat /\ DOMAIN listings = 1 .. n /\ i \in 1 .. n
      /\ \A k \in 1 .. n : listings[k] \in ListingsOfBackups
  BY ListingsAre
<1>2. \A k \in 1 .. n : /\ passed(k) \in ListingsOfBackups /\ passed(k).task = listings[k].task
                        /\ passed(k).passed
  BY <1>1 DEF ListingsOfBackups
<1>3. /\ listings' = [k \in 1 .. n - 1 |-> IF k >= i THEN listings[k + 1] ELSE passed(k)]
      /\ DOMAIN listings' = 1 .. n - 1
  BY DEF ListingEnded
<1> HIDE DEF passed
<1>4. \A k \in 1 .. n - 1 : k \in 1 .. n /\ k + 1 \in 1 .. n /\ (k >= i \/ k < i) /\ ~(k >= i /\ k < i)
  BY <1>1
<1>5. \A k \in 1 .. n - 1 : listings'[k] \in ListingsOfBackups
  BY <1>1, <1>2, <1>3, <1>4
<1>6. listings' \in Seq(ListingsOfBackups) /\ Len(listings') = n - 1
  <2>1. listings' \in [1 .. n - 1 -> ListingsOfBackups]
    <3>1. listings' = [k \in 1 .. n - 1 |-> listings'[k]] BY <1>3
    <3> QED BY <1>5, <3>1
  <2>2. n - 1 \in Nat BY <1>1
  <2> QED BY <2>1, <2>2, AsSequence
<1> QED BY <1>1, <1>2, <1>3, <1>4, <1>6

\* The server changes something, or not, and the page is not told.
LEMMA UntoldLeaves ==
  ASSUME BackupTypes, Untold, stored' # stored
  PROVE  /\ listings' \in Seq(ListingsOfBackups) /\ DOMAIN listings' = DOMAIN listings
         /\ Len(listings') = Len(listings)
         /\ \A k \in DOMAIN listings : /\ listings'[k].task = listings[k].task
                                       /\ ~listings'[k].passed => listings'[k].found = Unread
<1> DEFINE n == Len(listings)
           b(k) == listings[k].passed \/ listings[k].found # Unread
           marked(k) == [listings[k] EXCEPT !.passed = b(k)]
<1>1. n \in Nat /\ DOMAIN listings = 1 .. n
      /\ \A k \in 1 .. n : listings[k] \in ListingsOfBackups /\ listings[k].passed \in BOOLEAN
  BY ListingsAre
<1>2. \A k \in 1 .. n : /\ marked(k) \in ListingsOfBackups /\ marked(k).task = listings[k].task
                        /\ marked(k).passed = b(k) /\ marked(k).found = listings[k].found
  <2> TAKE k \in 1 .. n
  <2>1. b(k) \in BOOLEAN BY <1>1
  <2> HIDE DEF b
  <2> QED BY <1>1, <2>1 DEF ListingsOfBackups
<1>3. listings' = [k \in 1 .. n |-> marked(k)] /\ DOMAIN listings' = 1 .. n
  BY <1>1 DEF Untold
<1> HIDE DEF marked
<1>4. listings' \in Seq(ListingsOfBackups) /\ Len(listings') = n
  <2>1. listings' \in [1 .. n -> ListingsOfBackups] BY <1>2, <1>3
  <2> QED BY <1>1, <2>1, AsSequence
<1> QED BY <1>1, <1>2, <1>3, <1>4

\* What was stored and what is listed stay, and so does what is to come.
LEMMA ListingsStillFollow ==
  ASSUME BackupTypes, ListingsFollow, UNCHANGED <<listings, stored>>,
         backupTab'.listed = backupTab.listed, mixedUp'.list = mixedUp.list
  PROVE  ListingsFollow'
BY DEF ListingsFollow, ListToCome

\* Nothing is stored, listed or passed that the page is not told of.
LEMMA UntoldFollows ==
  ASSUME BackupTypes, ListingsFollow, Untold, backupTab'.listed = backupTab.listed,
         mixedUp'.list = (mixedUp.list \/ stored' # stored)
  PROVE  listings' \in Seq(ListingsOfBackups) /\ ListingsFollow'
<1>1. CASE stored' = stored
  <2>1. listings' = listings BY <1>1 DEF Untold
  <2>2. mixedUp'.list = mixedUp.list BY <1>1 DEF BackupTypes
  <2>3. listings' \in Seq(ListingsOfBackups) BY <2>1 DEF BackupTypes
  <2> QED BY <1>1, <2>1, <2>2, <2>3, ListingsStillFollow
<1>2. CASE stored' # stored
  <2>1. /\ listings' \in Seq(ListingsOfBackups)
        /\ \A k \in DOMAIN listings' : ~listings'[k].passed => listings'[k].found = Unread
    BY <1>2, UntoldLeaves
  <2>2. listings' # <<>> => Len(listings') \in DOMAIN listings'
    BY <2>1, EmptySeq, LenProperties
  <2> QED BY <1>2, <2>1, <2>2 DEF ListingsFollow, ListToCome
<1> QED BY <1>1, <1>2

\* What restores stays, and waits as it did.
LEMMA RestoreStays ==
  ASSUME OneRestore, Restores' = Restores, backupTab'.working = backupTab.working,
         mixedUp'.tasks = mixedUp.tasks, DOMAIN listings' = DOMAIN listings,
         \A k \in DOMAIN listings : listings'[k].task = listings[k].task
  PROVE  OneRestore'
BY DEF OneRestore, ListsForRestore

\* A task is given up: when it restores, it was the only one.
LEMMA RestoreGivenUp ==
  ASSUME BackupTypes, OneRestore, NEW t \in tasks, ~t.lost, Restores' = Restores \ {t},
         mixedUp'.tasks = Overlaps(t), backupTab' = Finally(backupTab, t),
         DOMAIN listings' = DOMAIN listings,
         \A k \in DOMAIN listings : listings'[k].task = listings[k].task
  PROVE  OneRestore'
<1> SUFFICES ASSUME ~mixedUp'.tasks PROVE OneRestore'
  BY DEF OneRestore
<1>1. ~mixedUp.tasks /\ (t.does = "make" => Restoring = {})
  BY DEF Overlaps
<1>2. t \in BackupTasks /\ backupTab \in BackupState
  BY DEF BackupTypes
<1>3. CASE t.does \in {"make", "restore"}
  <2>1. Restores' = {} /\ \A k \in DOMAIN listings : ~ListsForRestore(k)
    <3>1. CASE t.does = "make" BY <1>1, <3>1, NothingRestores
    <3>2. CASE t.does = "restore"
      <4>1. t \in Restores BY <3>2 DEF Restores
      <4> QED BY <1>1, <4>1 DEF OneRestore
    <3> QED BY <1>3, <3>1, <3>2
  <2>2. \A k \in DOMAIN listings' : ~ListsForRestore(k)' BY <2>1 DEF ListsForRestore
  <2> QED BY <2>1, <2>2 DEF OneRestore
<1>4. CASE t.does \notin {"make", "restore"}
  <2>1. backupTab' = backupTab BY <1>2, <1>4, FinallyLeaves
  <2>2. Restores' = Restores BY <1>4 DEF Restores
  <2>3. mixedUp'.tasks = mixedUp.tasks BY <1>1, <1>4 DEF Overlaps, BackupTypes
  <2> QED BY <2>1, <2>2, <2>3, RestoreStays
<1> QED BY <1>3, <1>4

LEMMA PerformedKeeps ==
  ASSUME NEW t \in BackupTasks, NEW b, stored \subseteq Backups,
         Performed(t, b) \/ UNCHANGED stored \/ NewBackup(b)
  PROVE  stored' \subseteq Backups
<1>1. t.does = "make" \/ t.does = "delete" \/ t.does = "restore"
  BY DEF BackupTasks
<1>2. NewBackup(b) => stored' \subseteq Backups
  BY DEF NewBackup
<1>3. ASSUME Performed(t, b) PROVE stored' \subseteq Backups
  <2>1. CASE t.does = "make" BY <1>2, <1>3, <2>1 DEF Performed
  <2>2. CASE t.does = "delete" BY <1>3, <2>2 DEF Performed
  <2>3. CASE t.does = "restore" BY <1>2, <1>3, <2>3 DEF Performed
  <2> QED BY <1>1, <2>1, <2>2, <2>3
<1> QED BY <1>2, <1>3

LEMMA BackupStep == BackupInv /\ [BackupNext]_backupVars => BackupInv'
<1> SUFFICES ASSUME BackupInv, [BackupNext]_backupVars PROVE BackupInv'
  OBVIOUS
<1>0. /\ BackupTypes /\ ListingsFollow /\ OneRestore
      /\ backupTab \in BackupState /\ stored \subseteq Backups
      /\ listings \in Seq(ListingsOfBackups) /\ tasks \subseteq BackupTasks
      /\ mixedUp \in [tasks : BOOLEAN, list : BOOLEAN]
  BY DEF BackupInv, BackupTypes
<1>1. \A t : Overlaps(t) \in BOOLEAN
  BY <1>0 DEF Overlaps
<1>2. CASE RefreshBackups
  <2>1. LoadBackups(backupTab, NoTask) /\ NoTask \in Waited /\ UNCHANGED <<tasks, stored, mixedUp>>
    BY <1>2 DEF RefreshBackups, Waited
  <2> DEFINE n == Len(listings)
  <2>2. /\ listings' \in Seq(ListingsOfBackups) /\ ListToCome'
        /\ listings'[Len(listings')].found = Unread
        /\ DOMAIN listings' = 1 .. n + 1
        /\ \A k \in 1 .. n : listings'[k] = listings[k]
        /\ listings'[n + 1].task = NoTask
        /\ backupTab' \in BackupState /\ backupTab'.listed = backupTab.listed
        /\ backupTab'.working = backupTab.working
    BY <1>0, <2>1, BackupsLoaded
  <2>3. n \in Nat /\ DOMAIN listings = 1 .. n BY <1>0, ListingsAre
  <2> HIDE DEF n
  <2>4. BackupTypes' BY <1>0, <2>1, <2>2 DEF BackupTypes
  <2>5. ListingsFollow' BY <2>2 DEF ListingsFollow
  <2>6. Restores' = Restores BY <2>1 DEF Restores
  <2>7. \A k \in DOMAIN listings' :
          ListsForRestore(k)' => k \in DOMAIN listings /\ ListsForRestore(k)
    <3> TAKE k \in DOMAIN listings'
    <3>1. k \in 1 .. n \/ k = n + 1 BY <2>2, <2>3
    <3> QED BY <2>2, <2>3, <3>1 DEF ListsForRestore, NoTask
  <2>8. OneRestore' BY <1>0, <2>1, <2>2, <2>6, <2>7 DEF OneRestore
  <2> QED BY <2>4, <2>5, <2>8 DEF BackupInv
<1>3. CASE (\E b \in Backups : ConfirmRestore(b)) \/ CancelRestore
  <2>1. /\ backupTab' \in BackupState /\ backupTab'.listed = backupTab.listed
        /\ backupTab'.working = backupTab.working
    <3>1. \E o \in Backups \cup {NoBackup} : \E c \in BOOLEAN :
            backupTab' = [backupTab EXCEPT !.operation = o, !.confirming = c]
      <4>1. ASSUME NEW b \in Backups, ConfirmRestore(b)
            PROVE  \E o \in Backups \cup {NoBackup} : \E c \in BOOLEAN :
                     backupTab' = [backupTab EXCEPT !.operation = o, !.confirming = c]
        <5>1. backupTab' = [backupTab EXCEPT !.operation = b, !.confirming = TRUE]
          BY <4>1 DEF ConfirmRestore
        <5> QED BY <5>1
      <4>2. CASE CancelRestore
        <5>1. backupTab' = [backupTab EXCEPT !.operation = NoBackup, !.confirming = FALSE]
          BY <4>2 DEF CancelRestore
        <5> QED BY <5>1
      <4> QED BY <1>3, <4>1, <4>2
    <3>2. PICK o \in Backups \cup {NoBackup}, c \in BOOLEAN :
            backupTab' = [backupTab EXCEPT !.operation = o, !.confirming = c]
      BY <3>1
    <3> DEFINE a == [backupTab EXCEPT !.operation = o]
    <3>3. backupTab' = [a EXCEPT !.confirming = c] BY <3>2
    <3>4. a \in BackupState /\ a.listed = backupTab.listed /\ a.working = backupTab.working
      BY <1>0 DEF BackupState
    <3> HIDE DEF a
    <3> QED BY <3>3, <3>4 DEF BackupState
  <2>2. UNCHANGED <<listings, tasks, stored, mixedUp>> BY <1>3 DEF ConfirmRestore, CancelRestore
  <2>3. BackupTypes' BY <1>0, <2>1, <2>2 DEF BackupTypes
  <2>4. ListingsFollow' BY <1>0, <2>1, <2>2, ListingsStillFollow
  <2>5. Restores' = Restores BY <2>2 DEF Restores
  <2>6. OneRestore' BY <1>0, <2>1, <2>2, <2>5, RestoreStays
  <2> QED BY <2>3, <2>4, <2>6 DEF BackupInv
\* A task begins.
<1>4. ASSUME NEW t \in BackupTasks, Begin(t), backupTab' \in BackupState,
             backupTab'.listed = backupTab.listed
      PROVE  /\ BackupTypes' /\ ListingsFollow' /\ mixedUp'.tasks = Overlaps(t)
             /\ tasks' = tasks \cup {t} /\ UNCHANGED listings
  <2>1. /\ tasks' = tasks \cup {t} /\ UNCHANGED <<listings, stored>>
        /\ mixedUp' = [mixedUp EXCEPT !.tasks = Overlaps(t)]
    BY <1>4 DEF Begin
  <2>2. /\ mixedUp' \in [tasks : BOOLEAN, list : BOOLEAN] /\ mixedUp'.list = mixedUp.list
        /\ mixedUp'.tasks = Overlaps(t)
    BY <1>0, <1>1, <2>1
  <2>3. BackupTypes' BY <1>0, <1>4, <2>1, <2>2 DEF BackupTypes
  <2>4. ListingsFollow' BY <1>0, <1>4, <2>1, <2>2, ListingsStillFollow
  <2> QED BY <2>1, <2>2, <2>3, <2>4
<1>5. ASSUME NEW kind \in BackupKinds, CreateBackup(kind) PROVE BackupInv'
  <2> DEFINE t == Task("make", kind)
  <2>1. t \in BackupTasks /\ t.does = "make" BY DEF Task, BackupTasks
  <2>2. backupTab' = [backupTab EXCEPT !.working = kind] /\ Begin(t)
    BY <1>5 DEF CreateBackup
  <2> HIDE DEF t
  <2>3. backupTab' \in BackupState /\ backupTab'.listed = backupTab.listed
    BY <1>0, <2>2 DEF BackupState
  <2>4. /\ BackupTypes' /\ ListingsFollow' /\ mixedUp'.tasks = Overlaps(t)
        /\ tasks' = tasks \cup {t} /\ UNCHANGED listings
    BY <1>4, <2>1, <2>2, <2>3
  <2>5. ASSUME ~mixedUp'.tasks
        PROVE  Restores' = {} /\ \A k \in DOMAIN listings' : ~ListsForRestore(k)'
    <3>1. Restoring = {} BY <2>1, <2>4, <2>5 DEF Overlaps
    <3>2. Restores = {} /\ \A k \in DOMAIN listings : ~ListsForRestore(k)
      BY <1>0, <3>1, NothingRestores
    <3>3. Restores' = Restores BY <2>1, <2>4 DEF Restores
    <3> QED BY <2>4, <3>2, <3>3 DEF ListsForRestore
  <2>6. OneRestore' BY <2>5 DEF OneRestore
  <2> QED BY <2>4, <2>6 DEF BackupInv
<1>6. ASSUME NEW b \in Backups, DeleteBackup(b) PROVE BackupInv'
  <2> DEFINE t == Task("delete", b)
  <2>1. t \in BackupTasks /\ t.does = "delete" BY DEF Task, BackupTasks
  <2>2. backupTab' = backupTab /\ Begin(t) BY <1>6 DEF DeleteBackup
  <2> HIDE DEF t
  <2>3. /\ BackupTypes' /\ ListingsFollow' /\ mixedUp'.tasks = Overlaps(t)
        /\ tasks' = tasks \cup {t} /\ UNCHANGED listings
    BY <1>0, <1>4, <2>1, <2>2
  <2>4. Restores' = Restores BY <2>1, <2>3 DEF Restores
  <2>5. mixedUp'.tasks = mixedUp.tasks BY <1>0, <2>1, <2>3 DEF Overlaps
  <2>6. OneRestore' BY <1>0, <2>2, <2>3, <2>4, <2>5, RestoreStays
  <2> QED BY <2>3, <2>6 DEF BackupInv
<1>7. CASE ExecuteRestore
  <2> DEFINE t == Task("restore", backupTab.operation)
  <2>1. t \in BackupTasks /\ t.does = "restore"
    <3>1. backupTab.operation \in Backups
      BY <1>0, <1>7 DEF ExecuteRestore, MayRestore, BackupState
    <3> QED BY <3>1 DEF Task, BackupTasks
  <2>2. /\ backupTab.working # "restore" /\ Begin(t)
        /\ backupTab' = [backupTab EXCEPT !.working = "restore"]
    BY <1>7 DEF ExecuteRestore, MayRestore
  <2> HIDE DEF t
  <2>3. /\ backupTab' \in BackupState /\ backupTab'.listed = backupTab.listed
        /\ backupTab'.working = "restore"
    BY <1>0, <2>2 DEF BackupState
  <2>4. /\ BackupTypes' /\ ListingsFollow' /\ mixedUp'.tasks = Overlaps(t)
        /\ tasks' = tasks \cup {t} /\ UNCHANGED listings
    BY <1>4, <2>1, <2>2, <2>3
  <2>5. ASSUME ~mixedUp'.tasks
        PROVE  /\ \A u \in Restores' : u = t
               /\ \A k \in DOMAIN listings' : ~ListsForRestore(k)'
    <3>1. ~mixedUp.tasks BY <2>4, <2>5 DEF Overlaps
    <3>2. Restores = {} /\ \A k \in DOMAIN listings : ~ListsForRestore(k)
      BY <1>0, <2>2, <3>1 DEF OneRestore
    <3>3. \A u \in Restores' : u \in Restores \/ u = t BY <2>4 DEF Restores
    <3> QED BY <2>4, <3>2, <3>3 DEF ListsForRestore
  <2>6. OneRestore' BY <2>3, <2>5 DEF OneRestore
  <2> QED BY <2>4, <2>6 DEF BackupInv
<1>8. ASSUME NEW i, BackupsRead(i) PROVE BackupInv'
  <2> DEFINE read == [listings[i] EXCEPT !.found = stored]
             n == Len(listings)
  <2>1. /\ i \in DOMAIN listings /\ listings' = [listings EXCEPT ![i] = read]
        /\ UNCHANGED <<backupTab, tasks, stored, mixedUp>>
    BY <1>8 DEF BackupsRead
  <2>2. /\ n \in Nat /\ DOMAIN listings = 1 .. n
        /\ \A k \in DOMAIN listings : listings[k] \in ListingsOfBackups
        /\ listings # <<>> <=> n # 0
    BY <1>0, ListingsAre
  <2>3. /\ read \in ListingsOfBackups /\ read.found = stored
        /\ read.task = listings[i].task /\ read.passed = listings[i].passed
    BY <1>0, <2>1, <2>2 DEF ListingsOfBackups
  <2> HIDE DEF read
  <2>4. /\ listings' \in Seq(ListingsOfBackups) /\ Len(listings') = n
        /\ \A k \in 1 .. n : listings'[k] = IF k = i THEN read ELSE listings[k]
    BY <1>0, <2>1, <2>2, <2>3, ExceptSeq
  <2>5. DOMAIN listings' = 1 .. n /\ (listings' # <<>> <=> n # 0)
    BY <2>1, <2>2, <2>4, EmptySeq
  <2> HIDE DEF n
  <2>6. BackupTypes' BY <1>0, <2>1, <2>4 DEF BackupTypes
  <2>7. ListToCome' = ListToCome
    <3>1. n # 0 => n \in 1 .. n BY <2>2
    <3> QED BY <2>1, <2>2, <2>3, <2>4, <2>5, <3>1 DEF ListToCome, n
  <2>8. ListingsFollow'
    <3>1. ASSUME ListToCome' PROVE listings'[Len(listings')].found \in {Unread, stored'}
      <4>1. listings[n].found \in {Unread, stored} /\ n \in 1 .. n
        BY <1>0, <2>2, <2>7, <3>1 DEF ListingsFollow, ListToCome, n
      <4> QED BY <2>1, <2>3, <2>4, <4>1
    <3>2. ASSUME NEW k \in DOMAIN listings', ~listings'[k].passed
          PROVE  listings'[k].found \in {Unread, stored'} \/ ListToCome'
      <4>1. k \in DOMAIN listings /\ listings'[k] = IF k = i THEN read ELSE listings[k]
        BY <2>2, <2>4, <2>5
      <4>2. CASE k = i BY <2>1, <2>3, <4>1, <4>2
      <4>3. CASE k # i BY <1>0, <2>1, <2>7, <3>2, <4>1, <4>3 DEF ListingsFollow
      <4> QED BY <4>2, <4>3
    <3>3. ~mixedUp'.list => backupTab'.listed = stored' \/ ListToCome'
      BY <1>0, <2>1, <2>7 DEF ListingsFollow
    <3> QED BY <3>1, <3>2, <3>3 DEF ListingsFollow
  <2>9. Restores' = Restores BY <2>1 DEF Restores
  <2>10. \A k \in DOMAIN listings : listings'[k].task = listings[k].task
    BY <2>2, <2>3, <2>4
  <2>11. OneRestore' BY <1>0, <2>1, <2>2, <2>5, <2>9, <2>10, RestoreStays
  <2> QED BY <2>6, <2>8, <2>11 DEF BackupInv
\* A list comes, or fails to.
<1>9. ASSUME NEW i, BackupsListed(i) \/ BackupsNotListed(i) PROVE BackupInv'
  <2> DEFINE n == Len(listings)
             t == listings[i].task
             late == listings[i].passed
             mid == Finally(backupTab, t)
             from(k) == IF k >= i THEN k + 1 ELSE k
  <2>1. /\ i \in DOMAIN listings /\ listings' = ListingEnded(i) /\ UNCHANGED <<tasks, stored>>
        /\ mixedUp'.tasks = Overlaps(t)
    BY <1>9 DEF BackupsListed, BackupsNotListed
  <2>2. /\ n \in Nat /\ DOMAIN listings = 1 .. n /\ i \in 1 .. n
        /\ \A k \in DOMAIN listings : listings[k] \in ListingsOfBackups
        /\ t \in Waited /\ late \in BOOLEAN /\ (listings # <<>> <=> n # 0)
    BY <1>0, <2>1, ListingsAre
  <2>3. /\ listings' \in Seq(ListingsOfBackups) /\ DOMAIN listings' = 1 .. n - 1
        /\ Len(listings') = n - 1
        /\ \A k \in 1 .. n - 1 :
             \/ k >= i /\ k + 1 \in DOMAIN listings /\ listings'[k] = listings[k + 1]
             \/ k < i /\ k \in DOMAIN listings /\ listings'[k].task = listings[k].task
                      /\ listings'[k].passed
    BY <1>0, <2>1, BackupListingEnds
  <2>4. t \in BackupTasks \cup {NoTask} BY <2>2 DEF Waited
  <2>5. /\ mid \in BackupState /\ mid.listed = backupTab.listed
        /\ t.does \notin {"make", "restore"} => mid = backupTab
    BY <1>0, <2>4, FinallyLeaves
  <2>6. /\ backupTab' \in BackupState /\ backupTab'.working = mid.working
        /\ mixedUp' \in [tasks : BOOLEAN, list : BOOLEAN]
        /\ \/ /\ listings[i].found # Unread /\ backupTab'.listed = listings[i].found
              /\ mixedUp'.list = late
           \/ backupTab'.listed = backupTab.listed /\ mixedUp'.list = (mixedUp.list \/ ~late)
    <3>1. CASE BackupsListed(i)
      <4> DEFINE f == listings[i].found
                 a == [mid EXCEPT !.listed = f]
      <4>1. /\ backupTab' = [a EXCEPT !.loading = FALSE] /\ f # Unread
            /\ mixedUp' = [tasks |-> Overlaps(t), list |-> late]
        BY <3>1 DEF BackupsListed
      <4>2. f \in SUBSET Backups BY <2>1, <2>2, <4>1 DEF ListingsOfBackups
      <4> HIDE DEF mid, f
      <4>3. a \in BackupState /\ a.listed = f /\ a.working = mid.working
        BY <2>5, <4>2 DEF BackupState
      <4> HIDE DEF a
      <4>4. backupTab' \in BackupState /\ backupTab'.listed = f /\ backupTab'.working = mid.working
        BY <4>1, <4>3 DEF BackupState
      <4> QED BY <1>1, <2>2, <4>1, <4>4 DEF f
    <3>2. CASE BackupsNotListed(i)
      <4>1. /\ backupTab' = [mid EXCEPT !.loading = FALSE]
            /\ mixedUp' = [tasks |-> Overlaps(t), list |-> mixedUp.list \/ ~late]
        BY <3>2 DEF BackupsNotListed
      <4> HIDE DEF mid
      <4>2. /\ backupTab' \in BackupState /\ backupTab'.listed = mid.listed
            /\ backupTab'.working = mid.working
        BY <2>5, <4>1 DEF BackupState
      <4>3. (mixedUp.list \/ ~late) \in BOOLEAN OBVIOUS
      <4> QED BY <1>1, <2>5, <4>1, <4>2, <4>3
    <3> QED BY <1>9, <3>1, <3>2
  <2> HIDE DEF mid
  <2>7. BackupTypes' BY <1>0, <2>1, <2>3, <2>6 DEF BackupTypes
  <2>8. ASSUME i # n
        PROVE  /\ n - 1 # 0 /\ n - 1 \in 1 .. n - 1 /\ listings'[n - 1] = listings[n]
               /\ ListToCome' = ListToCome
    <3>1. n - 1 # 0 /\ n - 1 \in 1 .. n - 1 /\ n - 1 >= i /\ ~(n - 1 < i) /\ n - 1 + 1 = n
      <4> HIDE DEF n, t, late, from
      <4> QED BY <2>2, <2>8
    <3>2. listings'[n - 1] = listings[n] BY <2>3, <3>1
    <3>3. listings' # <<>> BY <2>3, <3>1, EmptySeq
    <3> QED BY <2>2, <2>3, <3>1, <3>2, <3>3 DEF ListToCome
  <2>9. i = n => ~ListToCome'
    <3> SUFFICES ASSUME i = n, listings' # <<>> PROVE listings'[n - 1].passed
      BY <2>3 DEF ListToCome
    <3>1. n - 1 \in Nat \ {0} BY <2>3, EmptySeq
    <3>2. n - 1 \in 1 .. n - 1 /\ n - 1 < i /\ ~(n - 1 >= i) BY <2>2, <3>1
    <3> QED BY <2>3, <3>2
  <2>10. ListingsFollow'
    <3>1. ASSUME ListToCome' PROVE listings'[Len(listings')].found \in {Unread, stored'}
      <4>1. i # n /\ ListToCome BY <2>8, <2>9, <3>1
      <4>2. listings[n].found \in {Unread, stored} BY <1>0, <4>1 DEF ListingsFollow
      <4> QED BY <2>1, <2>3, <2>8, <4>1, <4>2
    <3>2. ASSUME NEW k \in DOMAIN listings', ~listings'[k].passed
          PROVE  listings'[k].found \in {Unread, stored'} \/ ListToCome'
      <4>1. k \in 1 .. n - 1 /\ k >= i /\ k + 1 \in DOMAIN listings /\ listings'[k] = listings[k + 1]
        BY <2>3, <3>2
      <4>2. i # n
        <5> HIDE DEF n, t, late, from
        <5> QED BY <2>2, <4>1
      <4> QED BY <1>0, <2>1, <2>8, <3>2, <4>1, <4>2 DEF ListingsFollow
    <3>3. ASSUME ~mixedUp'.list PROVE backupTab'.listed = stored' \/ ListToCome'
      <4>1. CASE listings[i].found # Unread /\ backupTab'.listed = listings[i].found /\ ~late
        <5>1. listings[i].found = stored \/ ListToCome
          BY <1>0, <2>1, <4>1 DEF ListingsFollow
        <5>2. i = n => listings[i].found = stored
          <6> SUFFICES ASSUME i = n PROVE listings[i].found = stored
            OBVIOUS
          <6>1. n # 0 BY <2>2
          <6>2. ListToCome BY <2>2, <4>1, <6>1 DEF ListToCome
          <6> QED BY <1>0, <4>1, <6>2 DEF ListingsFollow
        <5> QED BY <2>1, <2>8, <4>1, <5>1, <5>2
      <4>2. CASE backupTab'.listed = backupTab.listed /\ ~(mixedUp.list \/ ~late)
        <5>1. backupTab.listed = stored \/ ListToCome BY <1>0, <4>2 DEF ListingsFollow
        <5>2. i = n => ~ListToCome BY <4>2 DEF ListToCome
        <5> QED BY <2>1, <2>8, <4>2, <5>1, <5>2
      <4> QED BY <2>6, <3>3, <4>1, <4>2
    <3> QED BY <3>1, <3>2, <3>3 DEF ListingsFollow
  <2>11. \A k \in DOMAIN listings' : /\ from(k) \in DOMAIN listings /\ from(k) # i
                                    /\ ListsForRestore(k)' = ListsForRestore(from(k))
    <3> TAKE k \in DOMAIN listings'
    <3>1. k \in 1 .. n - 1 BY <2>3
    <3>2. CASE k >= i
      <4>1. from(k) = k + 1 /\ ~(k < i) /\ k + 1 # i BY <2>2, <3>1, <3>2
      <4> QED BY <2>3, <3>1, <4>1 DEF ListsForRestore
    <3>3. CASE ~(k >= i)
      <4>1. from(k) = k /\ k # i BY <2>2, <3>1, <3>3
      <4> QED BY <2>3, <3>1, <3>3, <4>1 DEF ListsForRestore
    <3> QED BY <3>2, <3>3
  <2>12. \A k, m \in DOMAIN listings' : from(k) = from(m) => k = m
    BY <2>2, <2>3
  <2> HIDE DEF from
  <2>13. Restores' = Restores BY <2>1 DEF Restores
  <2>14. OneRestore'
    <3> SUFFICES ASSUME ~mixedUp'.tasks PROVE OneRestore'
      BY DEF OneRestore
    <3>1. ~mixedUp.tasks /\ (t.does = "make" => Restoring = {}) BY <2>1 DEF Overlaps
    <3>2. CASE t.does \in {"make", "restore"}
      <4>1. Restores = {} /\ \A k \in DOMAIN listings : k # i => ~ListsForRestore(k)
        <5>1. CASE t.does = "make" BY <1>0, <3>1, <5>1, NothingRestores
        <5>2. CASE t.does = "restore"
          <6>1. ListsForRestore(i) BY <5>2 DEF ListsForRestore
          <6> QED BY <1>0, <2>1, <3>1, <6>1 DEF OneRestore
        <5> QED BY <3>2, <5>1, <5>2
      <4>2. \A k \in DOMAIN listings' : ~ListsForRestore(k)' BY <2>11, <4>1
      <4> QED BY <2>13, <4>1, <4>2 DEF OneRestore
    <3>3. CASE t.does \notin {"make", "restore"}
      <4>1. backupTab'.working = backupTab.working BY <2>5, <2>6, <3>3
      <4> QED BY <1>0, <2>11, <2>12, <2>13, <3>1, <4>1 DEF OneRestore
    <3> QED BY <3>2, <3>3
  <2> QED BY <2>7, <2>10, <2>14 DEF BackupInv
<1>10. ASSUME NEW t \in tasks, NEW b \in Backups, TaskDone(t, b) PROVE BackupInv'
  <2> DEFINE c == backupTab.confirming /\ t.does # "restore"
             new == [backupTab EXCEPT !.confirming = c]
             n == Len(listings)
  <2>1. /\ ~t.lost /\ tasks' = tasks \ {t} /\ Performed(t, b) /\ LoadBackups(new, t)
        /\ UNCHANGED mixedUp
    BY <1>10 DEF TaskDone
  <2>2. t \in BackupTasks /\ t \in Waited BY <1>0, <2>1 DEF Waited
  <2>3. new \in BackupState /\ new.listed = backupTab.listed /\ new.working = backupTab.working
    <3>1. c \in BOOLEAN BY <1>0 DEF BackupState
    <3> HIDE DEF c
    <3> QED BY <1>0, <3>1 DEF BackupState
  <2> HIDE DEF new
  <2>4. /\ listings' \in Seq(ListingsOfBackups) /\ ListToCome'
        /\ listings'[Len(listings')].found = Unread
        /\ DOMAIN listings' = 1 .. n + 1
        /\ \A k \in 1 .. n : listings'[k] = listings[k]
        /\ listings'[n + 1].task = t
        /\ backupTab' \in BackupState /\ backupTab'.listed = backupTab.listed
        /\ backupTab'.working = backupTab.working
    BY <1>0, <2>1, <2>2, <2>3, BackupsLoaded
  <2>5. n \in Nat /\ DOMAIN listings = 1 .. n BY <1>0, ListingsAre
  <2> HIDE DEF n
  <2>6. stored' \subseteq Backups BY <1>0, <2>1, <2>2, PerformedKeeps
  <2>7. BackupTypes' BY <1>0, <2>1, <2>4, <2>6 DEF BackupTypes
  <2>8. ListingsFollow' BY <2>4 DEF ListingsFollow
  <2>9. Restores' = Restores \ {t} BY <2>1 DEF Restores
  <2>10. \A k \in DOMAIN listings' :
           \/ k \in DOMAIN listings /\ ListsForRestore(k)' = ListsForRestore(k)
           \/ k = n + 1 /\ ListsForRestore(k)' = (t.does = "restore")
    <3> TAKE k \in DOMAIN listings'
    <3>1. k \in 1 .. n \/ k = n + 1 BY <2>4, <2>5
    <3> QED BY <2>4, <2>5, <3>1 DEF ListsForRestore
  <2>11. OneRestore'
    <3> SUFFICES ASSUME ~mixedUp.tasks PROVE OneRestore'
      BY <2>1 DEF OneRestore
    <3>1. CASE t.does = "restore"
      <4>1. t \in Restores BY <2>1, <3>1 DEF Restores
      <4>2. /\ Restores' = {} /\ backupTab.working = "restore"
            /\ \A k \in DOMAIN listings : ~ListsForRestore(k)
        BY <1>0, <2>9, <4>1 DEF OneRestore
      <4>3. \A k \in DOMAIN listings' : ListsForRestore(k)' => k = n + 1 BY <2>10, <4>2
      <4> QED BY <2>4, <4>2, <4>3 DEF OneRestore
    <3>2. CASE t.does # "restore"
      <4>1. Restores' = Restores BY <2>9, <3>2 DEF Restores
      <4>2. \A k \in DOMAIN listings' :
              ListsForRestore(k)' => k \in DOMAIN listings /\ ListsForRestore(k)
        BY <2>10, <3>2
      <4> QED BY <1>0, <2>4, <4>1, <4>2 DEF OneRestore
    <3> QED BY <3>1, <3>2
  <2> QED BY <2>7, <2>8, <2>11 DEF BackupInv
<1>11. ASSUME NEW t \in tasks, NEW b \in Backups, TaskFailed(t, b) PROVE BackupInv'
  <2>1. /\ ~t.lost /\ tasks' = tasks \ {t} /\ Untold /\ backupTab' = Finally(backupTab, t)
        /\ UNCHANGED stored \/ NewBackup(b)
        /\ mixedUp' = [tasks |-> Overlaps(t), list |-> mixedUp.list \/ stored' # stored]
    BY <1>11 DEF TaskFailed
  <2>2. t \in BackupTasks BY <1>0
  <2>3. backupTab' \in BackupState /\ backupTab'.listed = backupTab.listed
    BY <1>0, <2>1, <2>2, FinallyLeaves
  <2>4. stored' \subseteq Backups BY <1>0, <2>1, <2>2, PerformedKeeps
  <2>5. /\ mixedUp' \in [tasks : BOOLEAN, list : BOOLEAN] /\ mixedUp'.tasks = Overlaps(t)
        /\ mixedUp'.list = (mixedUp.list \/ stored' # stored)
    <3>1. (mixedUp.list \/ stored' # stored) \in BOOLEAN OBVIOUS
    <3> QED BY <1>1, <2>1, <3>1
  <2>6. listings' \in Seq(ListingsOfBackups) /\ ListingsFollow'
    BY <1>0, <2>1, <2>3, <2>5, UntoldFollows
  <2>7. BackupTypes' BY <1>0, <2>1, <2>3, <2>4, <2>5, <2>6 DEF BackupTypes
  <2>8. Restores' = Restores \ {t} BY <2>1 DEF Restores
  <2>9. /\ DOMAIN listings' = DOMAIN listings
        /\ \A k \in DOMAIN listings : listings'[k].task = listings[k].task
    BY <1>0, <2>1, UntoldLeaves DEF Untold
  <2>10. OneRestore' BY <1>0, <2>1, <2>5, <2>8, <2>9, RestoreGivenUp
  <2> QED BY <2>6, <2>7, <2>10 DEF BackupInv
<1>12. ASSUME NEW t \in tasks, TaskTimesOut(t) PROVE BackupInv'
  <2> DEFINE forgotten == [t EXCEPT !.lost = TRUE]
  <2>1. /\ ~t.lost /\ tasks' = (tasks \ {t}) \cup {forgotten}
        /\ backupTab' = Finally(backupTab, t) /\ UNCHANGED <<listings, stored>>
        /\ mixedUp' = [mixedUp EXCEPT !.tasks = Overlaps(t)]
    BY <1>12 DEF TaskTimesOut
  <2>2. t \in BackupTasks BY <1>0
  <2>3. forgotten \in BackupTasks /\ forgotten.lost BY <2>2 DEF BackupTasks
  <2> HIDE DEF forgotten
  <2>4. backupTab' \in BackupState /\ backupTab'.listed = backupTab.listed
    BY <1>0, <2>1, <2>2, FinallyLeaves
  <2>5. /\ mixedUp' \in [tasks : BOOLEAN, list : BOOLEAN] /\ mixedUp'.tasks = Overlaps(t)
        /\ mixedUp'.list = mixedUp.list
    BY <1>0, <1>1, <2>1
  <2>6. BackupTypes' BY <1>0, <2>1, <2>3, <2>4, <2>5 DEF BackupTypes
  <2>7. ListingsFollow' BY <1>0, <2>1, <2>4, <2>5, ListingsStillFollow
  <2>8. Restores' = Restores \ {t} BY <2>1, <2>3 DEF Restores
  <2>9. OneRestore' BY <1>0, <2>1, <2>5, <2>8, RestoreGivenUp
  <2> QED BY <2>6, <2>7, <2>9 DEF BackupInv
<1>13. ASSUME NEW t \in tasks, NEW b \in Backups, TaskEndsUnseen(t, b) PROVE BackupInv'
  <2>1. /\ t.lost /\ tasks' = tasks \ {t} /\ Untold /\ UNCHANGED backupTab
        /\ Performed(t, b) \/ UNCHANGED stored
        /\ mixedUp' = [mixedUp EXCEPT !.list = mixedUp.list \/ stored' # stored]
    BY <1>13 DEF TaskEndsUnseen
  <2>2. stored' \subseteq Backups BY <1>0, <2>1, PerformedKeeps
  <2>3. /\ mixedUp' \in [tasks : BOOLEAN, list : BOOLEAN] /\ mixedUp'.tasks = mixedUp.tasks
        /\ mixedUp'.list = (mixedUp.list \/ stored' # stored)
    <3>1. (mixedUp.list \/ stored' # stored) \in BOOLEAN OBVIOUS
    <3> QED BY <1>0, <2>1, <3>1
  <2>4. listings' \in Seq(ListingsOfBackups) /\ ListingsFollow'
    BY <1>0, <2>1, <2>3, UntoldFollows
  <2>5. BackupTypes' BY <1>0, <2>1, <2>2, <2>3, <2>4 DEF BackupTypes
  <2>6. Restores' = Restores BY <2>1 DEF Restores
  <2>7. /\ DOMAIN listings' = DOMAIN listings
        /\ \A k \in DOMAIN listings : listings'[k].task = listings[k].task
    BY <1>0, <2>1, UntoldLeaves DEF Untold
  <2>8. OneRestore' BY <1>0, <2>1, <2>3, <2>6, <2>7, RestoreStays
  <2> QED BY <2>4, <2>5, <2>8 DEF BackupInv
<1>14. CASE UNCHANGED backupVars
  BY <1>0, <1>14
  DEF backupVars, BackupInv, BackupTypes, ListingsFollow, ListToCome, OneRestore, Restores,
      ListsForRestore
<1> QED
  BY <1>2, <1>3, <1>5, <1>6, <1>7, <1>8, <1>9, <1>10, <1>11, <1>12, <1>13, <1>14
  DEF BackupNext, ListingAnswers

LEMMA BackupInvShows == BackupInv => BackupsInOrder
<1> SUFFICES ASSUME BackupInv PROVE BackupsInOrder
  OBVIOUS
<1>1. ASSUME ~mixedUp.tasks PROVE Cardinality(Restoring) <= 1
  <2>1. \A t \in Restoring : t \in Restores \/ \E k \in DOMAIN listings :
                                ListsForRestore(k) /\ t = listings[k].task
    BY DEF Restores, Restoring, ListsForRestore
  <2>2. \A t, u \in Restoring : t = u BY <1>1, <2>1 DEF BackupInv, OneRestore
  <2>3. CASE Restoring = {} BY <2>3, FS_EmptySet
  <2>4. CASE Restoring # {}
    <3>1. PICK t \in Restoring : TRUE BY <2>4
    <3>2. Restoring = {t} BY <2>2, <3>1
    <3>3. Cardinality({t}) = 1 BY FS_Singleton
    <3> QED BY <3>2, <3>3
  <2> QED BY <2>3, <2>4
<1>2. ASSUME listings = <<>>, ~mixedUp.list PROVE backupTab.listed = stored
  BY <1>2 DEF BackupInv, ListingsFollow, ListToCome
<1> QED BY <1>1, <1>2 DEF BackupsInOrder

-----------------------------------------------------------------------------
(***************************************************************************)
(* The lists of departments, production lines, users and vehicle models.   *)
(***************************************************************************)
ListFields == {"kind", "typed", "narrow", "row", "page", "total", "of", "loading", "current",
               "modal", "drawer", "programs"}
ListLoads == [page : Nat \ {0}, narrow : BOOLEAN, passed : BOOLEAN]

AdminTypes ==
    /\ DOMAIN list = ListFields /\ list.page \in Nat \ {0}
    /\ list.typed \in BOOLEAN /\ list.narrow \in BOOLEAN
    /\ listLoads \in Seq(ListLoads)
    /\ editing # NoEdit => editing.page \in Nat \ {0} /\ editing.narrow \in BOOLEAN
    /\ DOMAIN detail = {"of", "shown", "open"}
    /\ astray \in [rows : BOOLEAN, drawer : BOOLEAN, detail : BOOLEAN]

PageHasRows == list.row = New => list.page = 1

\* The last load of its own time is of the filter shown.
ListFollows ==
    Follows(listLoads, [page : Nat \ {0}, narrow : {list.narrow}, passed : BOOLEAN],
            ~astray.rows => list.of = list.narrow)

DrawerOfModel == (list.drawer /\ ~astray.drawer) => list.programs = list.current
DetailOfProgram == (detail.open /\ ~astray.detail) => detail.shown \in {detail.of, NoDetail}

AdminInv == AdminTypes /\ PageHasRows /\ ListFollows /\ DrawerOfModel /\ DetailOfProgram

LEMMA ListLoadsPassable == Passable(ListLoads)
BY DEF Passable, ListLoads

LEMMA AdminStart == AdminInit => AdminInv
<1> SUFFICES ASSUME AdminInit PROVE AdminInv
  OBVIOUS
<1>1. PICK k \in ListKinds :
        /\ list = [kind |-> k, typed |-> FALSE, narrow |-> FALSE, row |-> New, page |-> 1,
                   total |-> 0, of |-> FALSE, loading |-> TRUE, current |-> New,
                   modal |-> FALSE, drawer |-> FALSE, programs |-> New]
        /\ listLoads = IF k = "departments" THEN <<Load(1, FALSE)>>
                       ELSE <<Load(1, FALSE), Load(1, FALSE)>>
  BY DEF AdminInit
<1>2. DOMAIN list = ListFields /\ list.page = 1 /\ list.typed = FALSE /\ list.narrow = FALSE
      /\ list.of = FALSE /\ list.drawer = FALSE
  BY <1>1 DEF ListFields
<1>3. /\ editing = NoEdit
      /\ detail = [of |-> NoDetail, shown |-> NoDetail, open |-> FALSE]
      /\ astray = [rows |-> FALSE, drawer |-> FALSE, detail |-> FALSE]
      /\ DOMAIN detail = {"of", "shown", "open"}
  BY DEF AdminInit
<1> DEFINE first == Load(1, FALSE)
           Good == [page : Nat \ {0}, narrow : {FALSE}, passed : BOOLEAN]
           fits == ~astray.rows => list.of = FALSE
<1>4. first \in ListLoads /\ first \in Good /\ ~first.passed
  <2>1. 1 \in Nat \ {0} OBVIOUS
  <2> QED BY <2>1 DEF Load, ListLoads
<1>5. listLoads \in Seq(ListLoads) /\ Follows(listLoads, Good, fits)
  <2>1. listLoads = <<first>> \/ listLoads = <<first, first>> BY <1>1
  <2> HIDE DEF first, Good, fits
  <2>2. <<first>> \in Seq(ListLoads) /\ Follows(<<first>>, Good, fits) BY <1>4, FirstLoad
  <2>3. /\ Append(<<first>>, first) \in Seq(ListLoads)
        /\ Follows(Append(<<first>>, first), Good, fits)
    BY <1>4, <2>2, LoadSent
  <2>4. Append(<<first>>, first) = <<first, first>>
    <3>1. /\ Len(<<first, first>>) = 2 /\ Len(<<first>>) = 1
          /\ <<first, first>> \in Seq(ListLoads)
      BY <1>4
    <3>2. /\ Len(Append(<<first>>, first)) = 2
          /\ \A m \in 1 .. 2 : Append(<<first>>, first)[m] = first
      BY <1>4, <2>2, <3>1, AppendProperties
    <3>3. \A m \in 1 .. 2 : <<first, first>>[m] = first
      <4>1. <<first, first>>[1] = first /\ <<first, first>>[2] = first OBVIOUS
      <4>2. \A m \in 1 .. 2 : m = 1 \/ m = 2 OBVIOUS
      <4> QED BY <4>1, <4>2
    <3>4. Append(<<first>>, first) \in Seq(ListLoads) BY <2>3
    <3> DEFINE s == Append(<<first>>, first)
               t == <<first, first>>
    <3>5. /\ s \in Seq(ListLoads) /\ t \in Seq(ListLoads) /\ Len(s) = 2 /\ Len(t) = 2
          /\ \A m \in 1 .. 2 : s[m] = first /\ t[m] = first
      BY <3>1, <3>2, <3>3, <3>4
    <3> HIDE DEF s, t
    <3>6. s = t
      <4>1. Len(s) = Len(t) /\ \A m \in 1 .. Len(s) : s[m] = t[m] BY <3>5
      <4> QED BY <4>1, <3>5, SeqEqual
    <3> QED BY <3>6 DEF s, t
  <2> QED BY <2>1, <2>2, <2>3, <2>4
<1>6. AdminTypes
  <2>1. list.page \in Nat \ {0} BY <1>2
  <2>3. list.typed \in BOOLEAN /\ list.narrow \in BOOLEAN BY <1>2, Zenon
  <2>2. astray \in [rows : BOOLEAN, drawer : BOOLEAN, detail : BOOLEAN] BY <1>3
  <2> QED BY <1>2, <1>3, <1>5, <2>1, <2>2, <2>3 DEF AdminTypes
<1>7. PageHasRows /\ DrawerOfModel /\ DetailOfProgram
  BY <1>2, <1>3 DEF PageHasRows, DrawerOfModel, DetailOfProgram
<1>8. ListFollows
  <2>1. {list.narrow} = {FALSE} /\ fits = (~astray.rows => list.of = list.narrow) BY <1>2
  <2> QED BY <1>5, <2>1 DEF ListFollows
<1> QED BY <1>6, <1>7, <1>8 DEF AdminInv

\* The row and its page are those that were, and so is the drawer.
ListKept(l) ==
    /\ DOMAIN l = ListFields /\ l.row = list.row /\ l.page = list.page /\ l.of = list.of
    /\ l.typed \in BOOLEAN /\ l.narrow \in BOOLEAN
    /\ (l.drawer /\ ~astray.drawer) => l.programs = l.current

\* Something is loaded: for the filter that is shown from now on, or, as what
\* was changed under another one, known to be passed.
LEMMA ListLoading ==
  ASSUME AdminInv, NEW new, NEW load \in ListLoads, Loads(new, load), ListKept(new),
         \/ ~load.passed /\ load.narrow = new.narrow
         \/ load.passed /\ new.narrow = list.narrow,
         editing' = editing \/ editing' = NoEdit, UNCHANGED <<detail, astray>>
  PROVE  AdminInv'
<1> DEFINE Good == [page : Nat \ {0}, narrow : {new.narrow}, passed : BOOLEAN]
           fits == ~astray.rows => list.of = new.narrow
<1>1. listLoads' = Append(listLoads, load) /\ list' = [new EXCEPT !.loading = TRUE]
  BY DEF Loads
<1>2. /\ DOMAIN list' = ListFields /\ list'.row = list.row /\ list'.page = list.page
      /\ list'.of = list.of /\ list'.narrow = new.narrow /\ list'.typed = new.typed
      /\ list'.drawer = new.drawer /\ list'.programs = new.programs
      /\ list'.current = new.current
  BY <1>1 DEF ListKept, ListFields
<1>3. listLoads \in Seq(ListLoads) /\ ListFollows BY DEF AdminInv, AdminTypes
<1>4. \/ ~load.passed /\ load \in Good
      \/ load.passed /\ Follows(listLoads, Good, fits)
  BY <1>3 DEF ListLoads, ListFollows
<1>5. listLoads' \in Seq(ListLoads) /\ Follows(listLoads', Good, fits)
  <2> HIDE DEF Good, fits
  <2> QED BY <1>1, <1>3, <1>4, LoadSent
<1>6. AdminTypes'
  BY <1>2, <1>5 DEF AdminInv, AdminTypes, ListKept
<1>7. ListFollows' BY <1>2, <1>5 DEF ListFollows
<1>8. PageHasRows' /\ DrawerOfModel' /\ DetailOfProgram'
  BY <1>2 DEF AdminInv, PageHasRows, DrawerOfModel, DetailOfProgram, ListKept
<1> QED BY <1>6, <1>7, <1>8 DEF AdminInv

\* Nothing is loaded, and the filter stays.
LEMMA ListStays ==
  ASSUME AdminInv, ListKept(list'), list'.narrow = list.narrow,
         editing' # NoEdit =>
           \/ editing' = editing
           \/ editing'.page = list.page /\ editing'.narrow = list.narrow,
         UNCHANGED <<listLoads, detail, astray>>
  PROVE  AdminInv'
<1>1. AdminTypes' BY DEF AdminInv, AdminTypes, ListKept
<1>2. ListFollows' BY DEF AdminInv, ListFollows, ListKept
<1>3. PageHasRows' /\ DrawerOfModel' /\ DetailOfProgram'
  BY DEF AdminInv, PageHasRows, DrawerOfModel, DetailOfProgram, ListKept
<1> QED BY <1>1, <1>2, <1>3 DEF AdminInv

\* The i-th answer has no rows and is asked for again, one page before.
LEMMA ListGoesBack ==
  ASSUME AdminInv, NEW i, ListFallsBack(i)
  PROVE  AdminInv'
<1> DEFINE n == Len(listLoads)
           p == listLoads[i].page - 1
           again == [listLoads[i] EXCEPT !.page = p]
           Good == [page : Nat \ {0}, narrow : {list.narrow}, passed : BOOLEAN]
           fits == ~astray.rows => list.of = list.narrow
<1>0. /\ AdminTypes /\ PageHasRows /\ ListFollows /\ DrawerOfModel /\ DetailOfProgram
      /\ DOMAIN list = ListFields /\ listLoads \in Seq(ListLoads)
  BY DEF AdminInv, AdminTypes
<1>1. /\ i \in DOMAIN listLoads /\ listLoads[i].page > 1
      /\ listLoads' = [listLoads EXCEPT ![i] = again]
      /\ list' = [list EXCEPT !.loading = TRUE] /\ UNCHANGED <<editing, detail, astray>>
  BY DEF ListFallsBack, FallsBack, detailVars
<1>2. n \in Nat /\ DOMAIN listLoads = 1 .. n /\ \A k \in 1 .. n : listLoads[k] \in ListLoads
  BY <1>0, LenProperties, ElementOfSeq
<1>3. /\ again \in ListLoads /\ again.passed = listLoads[i].passed
      /\ again.narrow = listLoads[i].narrow
  <2>1. p \in Nat \ {0} BY <1>1, <1>2 DEF ListLoads
  <2> HIDE DEF p
  <2> QED BY <1>1, <1>2, <2>1 DEF ListLoads
<1> HIDE DEF again
<1>4. /\ listLoads' \in Seq(ListLoads) /\ Len(listLoads') = n
      /\ \A k \in 1 .. n : listLoads'[k] = IF k = i THEN again ELSE listLoads[k]
  BY <1>0, <1>1, <1>2, <1>3, ExceptSeq
<1>5. DOMAIN listLoads' = 1 .. n BY <1>1, <1>2
<1>6. \A k \in 1 .. n : /\ listLoads'[k] \in ListLoads
                        /\ listLoads'[k].passed = listLoads[k].passed
                        /\ listLoads'[k].narrow = listLoads[k].narrow
  BY <1>2, <1>3, <1>4
<1> HIDE DEF n
<1>7. Follows(listLoads', Good, fits)
  <2>1. Follows(listLoads, Good, fits) BY <1>0 DEF ListFollows
  <2>2. \A k \in 1 .. n : listLoads[k] \in Good => listLoads'[k] \in Good
    BY <1>2, <1>6 DEF ListLoads
  <2> HIDE DEF Good, fits
  <2> QED BY <1>2, <1>5, <1>6, <2>1, <2>2 DEF Follows
<1>8. /\ DOMAIN list' = ListFields /\ list'.row = list.row /\ list'.page = list.page
      /\ list'.of = list.of /\ list'.narrow = list.narrow /\ list'.typed = list.typed
      /\ list'.drawer = list.drawer /\ list'.programs = list.programs
      /\ list'.current = list.current
  BY <1>0, <1>1 DEF ListFields
<1>9. AdminTypes' BY <1>0, <1>1, <1>4, <1>8 DEF AdminTypes
<1>10. ListFollows' BY <1>1, <1>7, <1>8 DEF ListFollows
<1>11. PageHasRows' /\ DrawerOfModel' /\ DetailOfProgram'
  BY <1>0, <1>1, <1>8 DEF PageHasRows, DrawerOfModel, DetailOfProgram
<1> QED BY <1>9, <1>10, <1>11 DEF AdminInv

\* The i-th answer comes, or fails to.
LEMMA ListEnds ==
  ASSUME AdminInv, NEW i, ListAnswered(i) \/ ListNotAnswered(i)
  PROVE  AdminInv'
<1> DEFINE load == listLoads[i]
           passed == load.passed
           Good == [page : Nat \ {0}, narrow : {list.narrow}, passed : BOOLEAN]
           fits == ~astray.rows => list.of = list.narrow
           fitsThen == ~astray'.rows => list'.of = list.narrow
<1>0. /\ AdminTypes /\ PageHasRows /\ ListFollows /\ DrawerOfModel /\ DetailOfProgram
      /\ DOMAIN list = ListFields /\ listLoads \in Seq(ListLoads)
      /\ astray \in [rows : BOOLEAN, drawer : BOOLEAN, detail : BOOLEAN]
      /\ list.page \in Nat \ {0}
  BY DEF AdminInv, AdminTypes
<1>1. /\ i \in DOMAIN listLoads /\ listLoads' = Remaining(listLoads, i)
      /\ UNCHANGED <<editing, detail>>
  BY DEF ListAnswered, ListNotAnswered, ListEnded, Remaining, detailVars
<1>2. load \in ListLoads BY <1>0, <1>1, LenProperties, ElementOfSeq
<1>3. load.page \in Nat \ {0} /\ load.narrow \in BOOLEAN /\ passed \in BOOLEAN
  BY <1>2 DEF ListLoads
<1>4. /\ DOMAIN list' = ListFields /\ list'.narrow = list.narrow /\ list'.typed = list.typed
      /\ list'.drawer = list.drawer /\ list'.programs = list.programs
      /\ list'.current = list.current
      /\ list'.page \in Nat \ {0} /\ (list'.row = New => list'.page = 1)
      /\ astray' \in [rows : BOOLEAN, drawer : BOOLEAN, detail : BOOLEAN]
      /\ astray'.drawer = astray.drawer /\ astray'.detail = astray.detail
      /\ \/ list'.of = load.narrow /\ astray'.rows = passed
         \/ list'.of = list.of /\ astray'.rows = (astray.rows \/ ~passed)
  <2>1. CASE ListNotAnswered(i)
    <3>1. /\ list' = [list EXCEPT !.loading = FALSE]
          /\ astray' = [astray EXCEPT !.rows = astray.rows \/ ~passed]
      BY <2>1 DEF ListNotAnswered
    <3>2. (astray.rows \/ ~passed) \in BOOLEAN OBVIOUS
    <3>3. /\ DOMAIN list' = ListFields /\ list'.narrow = list.narrow /\ list'.typed = list.typed
          /\ list'.drawer = list.drawer /\ list'.programs = list.programs
          /\ list'.current = list.current /\ list'.page = list.page /\ list'.row = list.row
          /\ list'.of = list.of
      BY <1>0, <3>1 DEF ListFields
    <3> QED BY <1>0, <3>1, <3>2, <3>3 DEF PageHasRows
  <2>2. CASE ListAnswered(i)
    <3> DEFINE r == RowOf(load)
               t == Cardinality(Selected(load.narrow))
               a == [list EXCEPT !.row = r]
               b == [a EXCEPT !.page = load.page]
               c == [b EXCEPT !.total = t]
               d == [c EXCEPT !.of = load.narrow]
    <3>1. /\ list' = [d EXCEPT !.loading = FALSE] /\ astray' = [astray EXCEPT !.rows = passed]
          /\ ~(load.page > 1 /\ r = New)
      BY <2>2 DEF ListAnswered, FallsBack
    <3> HIDE DEF r, t
    <3>2. /\ DOMAIN a = ListFields /\ a.narrow = list.narrow /\ a.typed = list.typed
          /\ a.drawer = list.drawer /\ a.programs = list.programs /\ a.current = list.current
          /\ a.row = r
      BY <1>0 DEF ListFields
    <3> HIDE DEF a
    <3>3. /\ DOMAIN b = ListFields /\ b.narrow = a.narrow /\ b.typed = a.typed
          /\ b.drawer = a.drawer /\ b.programs = a.programs /\ b.current = a.current
          /\ b.row = r /\ b.page = load.page
      BY <3>2 DEF ListFields
    <3> HIDE DEF b
    <3>4. /\ DOMAIN c = ListFields /\ c.narrow = b.narrow /\ c.typed = b.typed
          /\ c.drawer = b.drawer /\ c.programs = b.programs /\ c.current = b.current
          /\ c.row = r /\ c.page = load.page
      BY <3>3 DEF ListFields
    <3> HIDE DEF c
    <3>5. /\ DOMAIN d = ListFields /\ d.narrow = c.narrow /\ d.typed = c.typed
          /\ d.drawer = c.drawer /\ d.programs = c.programs /\ d.current = c.current
          /\ d.row = r /\ d.page = load.page /\ d.of = load.narrow
      BY <3>4 DEF ListFields
    <3> HIDE DEF d
    <3>6. /\ DOMAIN list' = ListFields /\ list'.narrow = d.narrow /\ list'.typed = d.typed
          /\ list'.drawer = d.drawer /\ list'.programs = d.programs /\ list'.current = d.current
          /\ list'.row = r /\ list'.page = load.page /\ list'.of = load.narrow
      BY <3>1, <3>5 DEF ListFields
    <3>7. r = New => load.page = 1 BY <1>3, <3>1
    <3>8. /\ astray' \in [rows : BOOLEAN, drawer : BOOLEAN, detail : BOOLEAN]
          /\ astray'.drawer = astray.drawer /\ astray'.detail = astray.detail
          /\ astray'.rows = passed
      BY <1>0, <1>3, <3>1
    <3> QED BY <1>3, <3>2, <3>3, <3>4, <3>5, <3>6, <3>7, <3>8
  <2> QED BY <2>1, <2>2
<1>5. listLoads' \in Seq(ListLoads) /\ Follows(listLoads', Good, fitsThen)
  <2>1. Follows(listLoads, Good, fits) BY <1>0 DEF ListFollows
  <2>2. (passed /\ fits) => fitsThen BY <1>4
  <2>3. (~passed /\ load \in Good) => fitsThen BY <1>4
  <2>4. fits \in BOOLEAN /\ fitsThen \in BOOLEAN OBVIOUS
  <2> HIDE DEF Good, fits, fitsThen
  <2> QED BY <1>0, <1>1, <2>1, <2>2, <2>3, <2>4, ListLoadsPassable, LoadAnswered
<1>6. AdminTypes' BY <1>0, <1>1, <1>4, <1>5 DEF AdminTypes
<1>7. ListFollows' BY <1>4, <1>5 DEF ListFollows
<1>8. PageHasRows' /\ DrawerOfModel' /\ DetailOfProgram'
  BY <1>0, <1>1, <1>4 DEF PageHasRows, DrawerOfModel, DetailOfProgram
<1> QED BY <1>6, <1>7, <1>8 DEF AdminInv

LEMMA AdminStep == AdminInv /\ [AdminNext]_listVars => AdminInv'
<1> SUFFICES ASSUME AdminInv, [AdminNext]_listVars PROVE AdminInv'
  OBVIOUS
<1>0. /\ AdminTypes /\ PageHasRows /\ ListFollows /\ DrawerOfModel /\ DetailOfProgram
      /\ DOMAIN list = ListFields /\ list.page \in Nat \ {0}
      /\ list.typed \in BOOLEAN /\ list.narrow \in BOOLEAN
      /\ DOMAIN detail = {"of", "shown", "open"}
      /\ astray \in [rows : BOOLEAN, drawer : BOOLEAN, detail : BOOLEAN]
      /\ ListKept(list)
  BY DEF AdminInv, AdminTypes, ListKept, DrawerOfModel
\* The filters.
<1>1. ASSUME NEW narrow \in BOOLEAN, NEW typed \in BOOLEAN,
             Filtered([list EXCEPT !.narrow = narrow, !.typed = typed]),
             UNCHANGED <<editing, detail, astray>>
      PROVE  AdminInv'
  <2> DEFINE a == [list EXCEPT !.narrow = narrow]
             new == [a EXCEPT !.typed = typed]
             load == Load(1, new.narrow)
  <2>1. Loads(new, load) BY <1>1 DEF Filtered
  <2>2. ListKept(a) /\ a.narrow = narrow BY <1>0 DEF ListKept, ListFields
  <2> HIDE DEF a
  <2>3. ListKept(new) /\ new.narrow = narrow BY <2>2 DEF ListKept, ListFields
  <2> HIDE DEF new
  <2>4. load \in ListLoads /\ ~load.passed /\ load.narrow = new.narrow
    BY <2>3 DEF Load, ListLoads
  <2> HIDE DEF load
  <2> QED BY <1>1, <2>1, <2>3, <2>4, ListLoading
<1>2. ASSUME NEW narrow \in BOOLEAN, Filter(narrow) PROVE AdminInv'
  BY <1>1, <1>2 DEF Filter, detailVars
<1>3. CASE ApplySearchInput
  <2> DEFINE new == [list EXCEPT !.narrow = list.typed]
             load == Load(1, new.narrow)
  <2>1. Loads(new, load) /\ UNCHANGED <<editing, detail, astray>>
    BY <1>3 DEF ApplySearchInput, Filtered, detailVars
  <2>2. ListKept(new) /\ new.narrow = list.typed BY <1>0 DEF ListKept, ListFields
  <2> HIDE DEF new
  <2>3. load \in ListLoads /\ ~load.passed /\ load.narrow = new.narrow
    BY <1>0, <2>2 DEF Load, ListLoads
  <2> HIDE DEF load
  <2> QED BY <2>1, <2>2, <2>3, ListLoading
<1>4. CASE ResetFilters
  BY <1>1, <1>4 DEF ResetFilters, detailVars
<1>5. ASSUME NEW p \in 1..Cardinality(Entries), TurnTo(p) PROVE AdminInv'
  <2> DEFINE load == Load(p, list.narrow)
  <2>1. Loads(list, load) /\ UNCHANGED <<editing, detail, astray>>
    BY <1>5 DEF TurnTo, detailVars
  <2>2. p \in Nat \ {0} BY ListAssumption, FS_CardinalityType
  <2>3. load \in ListLoads /\ ~load.passed /\ load.narrow = list.narrow
    BY <1>0, <2>2 DEF Load, ListLoads
  <2> HIDE DEF load
  <2> QED BY <1>0, <2>1, <2>3, ListLoading
<1>6. ASSUME NEW narrow \in BOOLEAN, TypeSearchInput(narrow) PROVE AdminInv'
  <2>1. list' = [list EXCEPT !.typed = narrow] /\ UNCHANGED <<listLoads, editing, detail, astray>>
    BY <1>6 DEF TypeSearchInput, detailVars
  <2>2. ListKept(list') /\ list'.narrow = list.narrow BY <1>0, <2>1 DEF ListKept, ListFields
  <2> QED BY <2>1, <2>2, ListStays
\* The dialog.
<1>7. ASSUME NEW e, OpenEntry(e) PROVE AdminInv'
  <2> DEFINE a == [list EXCEPT !.current = e]
  <2>1. /\ list' = [a EXCEPT !.modal = TRUE] /\ ~list.drawer
        /\ UNCHANGED <<listLoads, editing, detail, astray>>
    BY <1>7 DEF OpenEntry, Undisturbed, detailVars
  <2>2. ListKept(a) /\ a.narrow = list.narrow BY <1>0, <2>1 DEF ListKept, ListFields
  <2> HIDE DEF a
  <2>3. ListKept(list') /\ list'.narrow = list.narrow BY <2>1, <2>2 DEF ListKept, ListFields
  <2> QED BY <2>1, <2>3, ListStays
<1>8. CASE CloseEntry
  <2>1. list' = [list EXCEPT !.modal = FALSE] /\ UNCHANGED <<listLoads, editing, detail, astray>>
    BY <1>8 DEF CloseEntry, detailVars
  <2>2. ListKept(list') /\ list'.narrow = list.narrow BY <1>0, <2>1 DEF ListKept, ListFields
  <2> QED BY <2>1, <2>2, ListStays
<1>9. CASE SubmitEntry \/ DeleteEntry
  <2>1. /\ UNCHANGED <<list, listLoads, detail, astray>>
        /\ editing'.page = list.page /\ editing'.narrow = list.narrow
    BY <1>9 DEF SubmitEntry, DeleteEntry, Edit, detailVars
  <2>2. ListKept(list') /\ list'.narrow = list.narrow BY <1>0, <2>1
  <2> QED BY <2>1, <2>2, ListStays
<1>10. ASSUME NEW e, EntryChanged(e) PROVE AdminInv'
  <2> DEFINE m == list.modal /\ editing.removes
             new == [list EXCEPT !.modal = m]
             under == editing.narrow # list.narrow
             load == [Load(editing.page, editing.narrow) EXCEPT !.passed = under]
  <2>1. /\ editing # NoEdit /\ editing' = NoEdit /\ Loads(new, load)
        /\ UNCHANGED <<detail, astray>>
    BY <1>10 DEF EntryChanged, detailVars
  <2> HIDE DEF m
  <2>2. ListKept(new) /\ new.narrow = list.narrow BY <1>0 DEF ListKept, ListFields
  <2> HIDE DEF new
  <2>3. editing.page \in Nat \ {0} /\ editing.narrow \in BOOLEAN BY <1>0, <2>1 DEF AdminTypes
  <2>4. /\ load \in ListLoads /\ load.narrow = editing.narrow /\ load.passed = under
    BY <2>3 DEF Load, ListLoads
  <2> HIDE DEF load
  <2> QED BY <2>1, <2>2, <2>3, <2>4, ListLoading
<1>11. ASSUME NEW e, EntryNotChanged(e) PROVE AdminInv'
  <2>1. /\ editing' = NoEdit /\ UNCHANGED <<list, listLoads, detail, astray>>
    BY <1>11 DEF EntryNotChanged, detailVars
  <2>2. ListKept(list') /\ list'.narrow = list.narrow BY <1>0, <2>1
  <2> QED BY <2>1, <2>2, ListStays
\* The drawer.
<1>12. CASE HandleViewPrograms
  <2> DEFINE a == [list EXCEPT !.current = list.row]
  <2>1. /\ list' = [a EXCEPT !.loading = TRUE] /\ ~list.drawer
        /\ UNCHANGED <<listLoads, editing, detail, astray>>
    BY <1>12 DEF HandleViewPrograms, Undisturbed, detailVars
  <2>2. ListKept(a) /\ a.narrow = list.narrow BY <1>0, <2>1 DEF ListKept, ListFields
  <2> HIDE DEF a
  <2>3. ListKept(list') /\ list'.narrow = list.narrow BY <2>1, <2>2 DEF ListKept, ListFields
  <2> QED BY <2>1, <2>3, ListStays
<1>13. ASSUME NEW e, ProgramsNotViewed(e) PROVE AdminInv'
  <2>1. list' = [list EXCEPT !.loading = FALSE] /\ UNCHANGED <<listLoads, editing, detail, astray>>
    BY <1>13 DEF ProgramsNotViewed, detailVars
  <2>2. ListKept(list') /\ list'.narrow = list.narrow BY <1>0, <2>1 DEF ListKept, ListFields
  <2> QED BY <2>1, <2>2, ListStays
<1>14. ASSUME NEW e, ProgramsViewed(e) PROVE AdminInv'
  <2> DEFINE a == [list EXCEPT !.programs = e]
             b == [a EXCEPT !.drawer = TRUE]
             other == e # list.current
  <2>1. /\ list' = [b EXCEPT !.loading = FALSE] /\ astray' = [astray EXCEPT !.drawer = other]
        /\ UNCHANGED <<listLoads, editing, detail>>
    BY <1>14 DEF ProgramsViewed, detailVars
  <2>2. /\ DOMAIN a = ListFields /\ a.row = list.row /\ a.page = list.page /\ a.of = list.of
        /\ a.typed = list.typed /\ a.narrow = list.narrow /\ a.programs = e
        /\ a.current = list.current
    BY <1>0 DEF ListFields
  <2> HIDE DEF a
  <2>3. /\ DOMAIN b = ListFields /\ b.row = a.row /\ b.page = a.page /\ b.of = a.of
        /\ b.typed = a.typed /\ b.narrow = a.narrow /\ b.programs = a.programs
        /\ b.current = a.current
    BY <2>2 DEF ListFields
  <2> HIDE DEF b
  <2>4. /\ DOMAIN list' = ListFields /\ list'.row = b.row /\ list'.page = b.page
        /\ list'.of = b.of /\ list'.typed = b.typed /\ list'.narrow = b.narrow
        /\ list'.programs = b.programs /\ list'.current = b.current
    BY <2>1, <2>3 DEF ListFields
  <2>5. /\ astray' \in [rows : BOOLEAN, drawer : BOOLEAN, detail : BOOLEAN]
        /\ astray'.rows = astray.rows /\ astray'.detail = astray.detail
        /\ astray'.drawer = (e # list.current)
    BY <1>0, <2>1
  <2>6. AdminTypes' BY <1>0, <2>1, <2>2, <2>3, <2>4, <2>5 DEF AdminTypes
  <2>7. ListFollows'
    <3>1. /\ list'.of = list.of /\ list'.narrow = list.narrow /\ listLoads' = listLoads
          /\ astray'.rows = astray.rows
      BY <2>1, <2>2, <2>3, <2>4, <2>5
    <3> QED BY <1>0, <3>1 DEF ListFollows
  <2>8. PageHasRows' /\ DrawerOfModel' /\ DetailOfProgram'
    BY <1>0, <2>1, <2>2, <2>3, <2>4, <2>5 DEF PageHasRows, DrawerOfModel, DetailOfProgram
  <2> QED BY <2>6, <2>7, <2>8 DEF AdminInv
<1>15. CASE CloseProgramsDrawer
  <2> DEFINE a == [list EXCEPT !.drawer = FALSE]
  <2>1. /\ list' = [a EXCEPT !.programs = New] /\ astray' = [astray EXCEPT !.drawer = FALSE]
        /\ UNCHANGED <<listLoads, editing, detail>>
    BY <1>15 DEF CloseProgramsDrawer, detailVars
  <2>2. /\ DOMAIN a = ListFields /\ a.row = list.row /\ a.page = list.page /\ a.of = list.of
        /\ a.typed = list.typed /\ a.narrow = list.narrow /\ a.drawer = FALSE
    BY <1>0 DEF ListFields
  <2> HIDE DEF a
  <2>3. /\ DOMAIN list' = ListFields /\ list'.row = a.row /\ list'.page = a.page
        /\ list'.of = a.of /\ list'.typed = a.typed /\ list'.narrow = a.narrow
        /\ list'.drawer = FALSE
    BY <2>1, <2>2 DEF ListFields
  <2>4. /\ astray' \in [rows : BOOLEAN, drawer : BOOLEAN, detail : BOOLEAN]
        /\ astray'.rows = astray.rows /\ astray'.detail = astray.detail
    BY <1>0, <2>1
  <2>5. AdminTypes' BY <1>0, <2>1, <2>2, <2>3, <2>4 DEF AdminTypes
  <2>6. ListFollows' BY <1>0, <2>1, <2>2, <2>3, <2>4 DEF ListFollows
  <2>7. PageHasRows' /\ DrawerOfModel' /\ DetailOfProgram'
    BY <1>0, <2>1, <2>2, <2>3, <2>4 DEF PageHasRows, DrawerOfModel, DetailOfProgram
  <2> QED BY <2>5, <2>6, <2>7 DEF AdminInv
\* The drawer on top of it.
<1>16. ASSUME AdminTypes', list'.row = list.row, list'.page = list.page, list'.of = list.of,
              list'.narrow = list.narrow, list'.drawer = list.drawer,
              list'.programs = list.programs, list'.current = list.current,
              UNCHANGED listLoads, astray'.rows = astray.rows, astray'.drawer = astray.drawer,
              (detail'.open /\ ~astray'.detail) => detail'.shown \in {detail'.of, NoDetail}
       PROVE  AdminInv'
  <2>1. PageHasRows' /\ ListFollows' /\ DrawerOfModel' /\ DetailOfProgram'
    BY <1>0, <1>16 DEF PageHasRows, ListFollows, DrawerOfModel, DetailOfProgram
  <2> QED BY <1>16, <2>1 DEF AdminInv
<1>17. ASSUME NEW p, HandleViewProgramDetail(p) PROVE AdminInv'
  <2> DEFINE this == [model |-> list.programs, program |-> p]
  <2>1. /\ ~detail.open /\ detail' = [detail EXCEPT !.of = this]
        /\ list' = [list EXCEPT !.loading = TRUE] /\ UNCHANGED <<listLoads, editing, astray>>
    BY <1>17 DEF HandleViewProgramDetail
  <2> HIDE DEF this
  <2>2. /\ DOMAIN list' = ListFields /\ list'.row = list.row /\ list'.page = list.page
        /\ list'.of = list.of /\ list'.typed = list.typed /\ list'.narrow = list.narrow
        /\ list'.drawer = list.drawer
        /\ list'.programs = list.programs /\ list'.current = list.current
    BY <1>0, <2>1 DEF ListFields
  <2>3. DOMAIN detail' = {"of", "shown", "open"} /\ ~detail'.open BY <1>0, <2>1
  <2>4. AdminTypes' BY <1>0, <2>1, <2>2, <2>3 DEF AdminTypes
  <2> QED BY <1>16, <2>1, <2>2, <2>3, <2>4
<1>18. ASSUME NEW d, NEW shown, DetailViewed(d, shown) PROVE AdminInv'
  <2> DEFINE a == [detail EXCEPT !.shown = shown]
             other == shown # NoDetail /\ d # detail.of
  <2>1. /\ shown \in {d, NoDetail} /\ detail' = [a EXCEPT !.open = TRUE]
        /\ astray' = [astray EXCEPT !.detail = other]
        /\ list' = [list EXCEPT !.loading = FALSE] /\ UNCHANGED <<listLoads, editing>>
    BY <1>18 DEF DetailViewed
  <2>2. /\ DOMAIN list' = ListFields /\ list'.row = list.row /\ list'.page = list.page
        /\ list'.of = list.of /\ list'.typed = list.typed /\ list'.narrow = list.narrow
        /\ list'.drawer = list.drawer
        /\ list'.programs = list.programs /\ list'.current = list.current
    BY <1>0, <2>1 DEF ListFields
  <2>3. DOMAIN a = {"of", "shown", "open"} /\ a.shown = shown /\ a.of = detail.of BY <1>0
  <2> HIDE DEF a
  <2>4. /\ DOMAIN detail' = {"of", "shown", "open"} /\ detail'.shown = shown
        /\ detail'.of = detail.of
    BY <2>1, <2>3
  <2>5. /\ astray' \in [rows : BOOLEAN, drawer : BOOLEAN, detail : BOOLEAN]
        /\ astray'.rows = astray.rows /\ astray'.drawer = astray.drawer
        /\ astray'.detail = other
    <3>1. other \in BOOLEAN OBVIOUS
    <3> HIDE DEF other
    <3> QED BY <1>0, <2>1, <3>1
  <2>6. AdminTypes' BY <1>0, <2>1, <2>2, <2>4, <2>5 DEF AdminTypes
  <2> QED BY <1>16, <2>1, <2>2, <2>4, <2>5, <2>6
<1>19. CASE CloseDetail
  <2> DEFINE o == IF detailing = {} THEN NoDetail ELSE detail.of
             a == [detail EXCEPT !.open = FALSE]
             b == [a EXCEPT !.shown = NoDetail]
  <2>1. /\ detail' = [b EXCEPT !.of = o] /\ astray' = [astray EXCEPT !.detail = FALSE]
        /\ UNCHANGED <<list, listLoads, editing>>
    BY <1>19 DEF CloseDetail
  <2> HIDE DEF o
  <2>2. DOMAIN a = {"of", "shown", "open"} /\ a.open = FALSE BY <1>0
  <2> HIDE DEF a
  <2>3. DOMAIN b = {"of", "shown", "open"} /\ b.open = FALSE BY <2>2
  <2> HIDE DEF b
  <2>4. DOMAIN detail' = {"of", "shown", "open"} /\ detail'.open = FALSE BY <2>1, <2>3
  <2>5. /\ astray' \in [rows : BOOLEAN, drawer : BOOLEAN, detail : BOOLEAN]
        /\ astray'.rows = astray.rows /\ astray'.drawer = astray.drawer
    BY <1>0, <2>1
  <2>6. AdminTypes' BY <1>0, <2>1, <2>4, <2>5 DEF AdminTypes
  <2> QED BY <1>16, <2>1, <2>4, <2>5, <2>6
<1>20. CASE UNCHANGED listVars
  BY <1>0, <1>20 DEF listVars, detailVars, AdminInv, AdminTypes, PageHasRows, ListFollows,
     DrawerOfModel, DetailOfProgram
<1> QED
  BY <1>2, <1>3, <1>4, <1>5, <1>6, <1>7, <1>8, <1>9, <1>10, <1>11, <1>12, <1>13, <1>14,
     <1>15, <1>17, <1>18, <1>19, <1>20, ListGoesBack, ListEnds
  DEF AdminNext, ListAnswers

LEMMA AdminInvShows == AdminInv => ListConsistent
<1> SUFFICES ASSUME AdminInv PROVE ListConsistent
  OBVIOUS
<1>1. ASSUME listLoads = <<>>, ~astray.rows PROVE list.of = list.narrow
  <2>1. DOMAIN listLoads = {} BY <1>1
  <2> QED BY <1>1, <2>1 DEF AdminInv, ListFollows, Follows
<1> QED
  BY <1>1 DEF ListConsistent, AdminInv, PageHasRows, DrawerOfModel, DetailOfProgram

-----------------------------------------------------------------------------
(***************************************************************************)
(* The dialogs of the program page.                                        *)
(***************************************************************************)
EditorFields == {"current", "modal", "viewer", "upload", "versions", "selected", "text",
                 "describing", "draft", "editing", "snapshot", "loading", "supported"}
TextFields == {"by", "note", "restored"}

EditorShape(e) ==
    DOMAIN e = EditorFields /\ DOMAIN e.text = TextFields /\ DOMAIN e.draft = TextFields

\* The text is of the version shown, unless a cancel brought it back.
TextFits(e) == e.text.by = ShownVersion(e) \/ e.text.restored

\* The versions that a dialog shows are of the current program.
VersionsOfCurrent(e) ==
    ((e.modal \/ e.viewer) /\ e.current # NoProgram /\ ~mixed.late)
       => e.versions.of \in {e.current, NoProgram}

FormOfCurrent ==
    /\ editor.modal => form.of = editor.current
    /\ (editor.modal /\ ~FieldsPending(form.line) /\ ~mixed.restored)
          => form.fields \in {NoLineId, form.line}

DescriptionsFit == \A r \in asked : r.kind = "describe" => r.text.by = r.version \/ r.text.restored

EditorInv ==
    /\ EditorShape(editor)
    /\ DOMAIN form = {"of", "line", "fields"} /\ DOMAIN mixed = {"late", "restored"}
    /\ TextFits(editor) /\ VersionsOfCurrent(editor) /\ FormOfCurrent /\ DescriptionsFit

LEMMA EditorStart == EditorInit => EditorInv
<1> SUFFICES ASSUME EditorInit PROVE EditorInv
  OBVIOUS
<1>1. /\ DOMAIN editor = EditorFields
      /\ editor.text = NoText /\ editor.draft = NoText /\ editor.modal = FALSE
      /\ editor.viewer = FALSE /\ editor.selected = NoVersion /\ editor.versions = NoVersions
  BY DEF EditorInit, EditorFields
<1>2. /\ DOMAIN form = {"of", "line", "fields"} /\ DOMAIN mixed = {"late", "restored"}
      /\ asked = {}
  BY DEF EditorInit
<1>3. DOMAIN NoText = TextFields /\ NoText.by = NoVersion
  BY DEF NoText, TextFields
<1>4. NoVersions.notes = <<>> /\ DOMAIN <<>> = {}
  BY DEF NoVersions
<1>5. ShownVersion(editor) = NoVersion
  BY <1>1, <1>4 DEF ShownVersion
<1>6. EditorShape(editor) /\ TextFits(editor)
  BY <1>1, <1>3, <1>5 DEF EditorShape, TextFits
<1>7. VersionsOfCurrent(editor) /\ FormOfCurrent /\ DescriptionsFit
  BY <1>1, <1>2 DEF VersionsOfCurrent, FormOfCurrent, DescriptionsFit
<1> QED BY <1>2, <1>6, <1>7 DEF EditorInv

LEMMA ShownOf ==
  ASSUME NEW e, NEW f, e.selected = f.selected, e.versions = f.versions
  PROVE  ShownVersion(e) = ShownVersion(f)
BY DEF ShownVersion

\* The dialogs are e, but for the text shown and the version selected.
DialogsAre(e) ==
    /\ EditorShape(editor')
    /\ editor'.current = e.current /\ editor'.modal = e.modal /\ editor'.viewer = e.viewer
    /\ editor'.versions = e.versions

\* The effects leave the dialogs open and the text with the version shown.
LEMMA RenderedFits ==
  ASSUME NEW e, EditorShape(e), e.text = editor.text, TextFits(editor), editor' = Rendered(e)
  PROVE  DialogsAre(e) /\ TextFits(editor')
<1> DEFINE c == Chosen(e)
           t == [c EXCEPT !.text = RenderedText(c)]
<1>1. /\ DOMAIN e = EditorFields /\ DOMAIN e.text = TextFields /\ DOMAIN e.draft = TextFields
      /\ "selected" \in DOMAIN e /\ "text" \in DOMAIN e
  BY DEF EditorShape, EditorFields
<1>2. /\ DOMAIN c = EditorFields /\ c.text = e.text /\ c.draft = e.draft
      /\ c.current = e.current /\ c.modal = e.modal /\ c.viewer = e.viewer
      /\ c.versions = e.versions
  BY <1>1 DEF Chosen, EditorFields
<1>3. editor' = IF ShownText(c) # ShownText(editor) THEN t ELSE c
  BY DEF Rendered
<1>a. ShownText(c).by = ShownVersion(c) /\ ShownText(editor).by = ShownVersion(editor)
  BY DEF ShownText
<1>b. RenderedText(c).by = ShownVersion(c) /\ DOMAIN RenderedText(c) = TextFields
  BY <1>a DEF RenderedText, TextFields
<1> HIDE DEF c
<1>4. /\ DOMAIN t = EditorFields /\ t.text = RenderedText(c) /\ t.draft = c.draft
      /\ t.current = c.current /\ t.modal = c.modal /\ t.viewer = c.viewer
      /\ t.versions = c.versions /\ t.selected = c.selected
  BY <1>2 DEF EditorFields
<1> HIDE DEF t
<1>5. ShownVersion(t) = ShownVersion(c) BY <1>4, ShownOf
<1>6. CASE editor' = t
  BY <1>1, <1>2, <1>4, <1>5, <1>6, <1>b DEF DialogsAre, EditorShape, TextFits
<1>7. CASE editor' = c /\ ShownText(c) = ShownText(editor)
  BY <1>1, <1>2, <1>7, <1>a DEF DialogsAre, EditorShape, TextFits
<1> QED BY <1>3, <1>6, <1>7

\* Another record of the dialogs, rendered as it is.
LEMMA SetFits ==
  ASSUME NEW e, EditorShape(e), TextFits(e), editor' = e
  PROVE  DialogsAre(e) /\ TextFits(editor')
BY DEF DialogsAre, EditorShape, TextFits

\* The form and the fields asked for stay, and no dialog opens.
LEMMA FormStays ==
  ASSUME FormOfCurrent, form' = form, mixed'.restored = mixed.restored,
         editor'.modal => editor.modal /\ editor'.current = editor.current,
         \A r \in asked : r.kind \in {"edit", "fields"} =>
            \E s \in asked' : s.kind \in {"edit", "fields"} /\ s.line = r.line
  PROVE  FormOfCurrent'
<1>1. FieldsPending(form.line) => FieldsPending(form.line)'
  BY DEF FieldsPending
<1> QED BY <1>1 DEF FormOfCurrent

\* The form opens or is reset without fields.
LEMMA FormWithoutFields ==
  ASSUME form'.fields = NoLineId, editor'.modal => form'.of = editor'.current
  PROVE  FormOfCurrent'
BY DEF FormOfCurrent

LEMMA VersionsStay ==
  ASSUME VersionsOfCurrent(editor), mixed'.late = mixed.late,
         editor'.modal \/ editor'.viewer =>
            (editor.modal \/ editor.viewer) /\ editor'.current = editor.current,
         editor'.versions \in {editor.versions, NoVersions}
  PROVE  VersionsOfCurrent(editor)'
BY DEF VersionsOfCurrent, NoVersions

LEMMA VersionsArrive ==
  ASSUME NEW p, editor'.versions.of \in {p, NoProgram}, editor'.current = editor.current,
         DOMAIN mixed = {"late", "restored"}, Late(p)
  PROVE  /\ VersionsOfCurrent(editor)' /\ mixed'.restored = mixed.restored
         /\ DOMAIN mixed' = {"late", "restored"}
BY DEF VersionsOfCurrent, Late

LEMMA DescriptionsStay ==
  ASSUME DescriptionsFit, \A r \in asked' : r.kind = "describe" => r \in asked
  PROVE  DescriptionsFit'
BY DEF DescriptionsFit

LEMMA RequestIs ==
  ASSUME NEW kind, NEW of, NEW line
  PROVE  /\ Request(kind, of, line).kind = kind /\ Request(kind, of, line).of = of
         /\ Request(kind, of, line).line = line
         /\ DOMAIN Request(kind, of, line) = {"kind", "of", "line", "version", "text"}
BY DEF Request

\* One more request: those asked before are still under way.
LEMMA OneAsked ==
  ASSUME NEW q, Ask(q)
  PROVE  /\ asked' = asked \cup {q}
         /\ q.kind # "describe" => \A r \in asked' : r.kind = "describe" => r \in asked
         /\ \A r \in asked : r.kind \in {"edit", "fields"} =>
              \E s \in asked' : s.kind \in {"edit", "fields"} /\ s.line = r.line
BY DEF Ask

LEMMA EditorStep == EditorInv /\ [EditorNext]_editorVars => EditorInv'
<1> SUFFICES ASSUME EditorInv, [EditorNext]_editorVars PROVE EditorInv'
  OBVIOUS
<1>i. /\ EditorShape(editor) /\ TextFits(editor) /\ VersionsOfCurrent(editor)
      /\ FormOfCurrent /\ DescriptionsFit
      /\ DOMAIN form = {"of", "line", "fields"} /\ DOMAIN mixed = {"late", "restored"}
  BY DEF EditorInv
<1>d. DOMAIN editor = EditorFields
  BY <1>i DEF EditorShape
<1>n. DOMAIN NoText = TextFields
  BY DEF NoText, TextFields
<1>k. \A r \in asked : r.kind \in {"edit", "fields"} =>
         \E s \in asked : s.kind \in {"edit", "fields"} /\ s.line = r.line
  OBVIOUS
<1> DEFINE FormKept == form' = form
           Inv == EditorInv'
<1>1. CASE HandleAdd
  <2> DEFINE a == [editor EXCEPT !.current = NoProgram]
             b == [a EXCEPT !.modal = TRUE]
             c == [b EXCEPT !.editing = TRUE]
             d == [c EXCEPT !.snapshot = NoLineId]
             e == [d EXCEPT !.describing = TRUE]
             f == [e EXCEPT !.draft = NoText]
  <2>1. editor' = Rendered(f) BY <1>1 DEF HandleAdd
  <2>2. EditorShape(f) /\ f.text = editor.text /\ f.current = NoProgram /\ f.modal = TRUE
    BY <1>i, <1>d, <1>n DEF EditorShape, EditorFields
  <2> HIDE DEF f
  <2>3. DialogsAre(f) /\ TextFits(editor') BY <1>i, <2>1, <2>2, RenderedFits
  <2>4. editor'.current = NoProgram BY <2>2, <2>3 DEF DialogsAre
  <2>5. /\ form' = [of |-> NoProgram, line |-> NoLineId, fields |-> NoLineId]
        /\ mixed' = [mixed EXCEPT !.restored = FALSE] /\ asked' = asked
    BY <1>1 DEF HandleAdd
  <2>6. FormOfCurrent' BY <2>4, <2>5, FormWithoutFields
  <2>7. VersionsOfCurrent(editor)' BY <2>4 DEF VersionsOfCurrent
  <2>8. DescriptionsFit' BY <1>i, <2>5, DescriptionsStay
  <2> QED BY <1>i, <2>3, <2>5, <2>6, <2>7, <2>8 DEF EditorInv, DialogsAre, TextFits
<1>2. ASSUME NEW p \in Programs, NEW l \in FormLines, HandleEdit(p, l) PROVE Inv
  <2> DEFINE a == [editor EXCEPT !.current = p]
             b == [a EXCEPT !.modal = TRUE]
             c == [b EXCEPT !.viewer = FALSE]
             d == [c EXCEPT !.versions = NoVersions]
             e == [d EXCEPT !.selected = NoVersion]
             f == [e EXCEPT !.editing = FALSE]
             g == [f EXCEPT !.snapshot = NoLineId]
             h == [g EXCEPT !.describing = FALSE]
             j == [h EXCEPT !.draft = NoText]
  <2>1. editor' = Rendered(j) BY <1>2 DEF HandleEdit
  <2>a. /\ DOMAIN e = EditorFields /\ e.text = editor.text /\ e.current = p /\ e.modal = TRUE
        /\ e.versions = NoVersions
    BY <1>d DEF EditorFields
  <2> HIDE DEF e
  <2>2. /\ EditorShape(j) /\ j.text = editor.text /\ j.current = p /\ j.modal = TRUE
        /\ j.versions = NoVersions
    BY <1>i, <2>a, <1>n DEF EditorShape, EditorFields
  <2> HIDE DEF j
  <2>3. DialogsAre(j) /\ TextFits(editor') BY <1>i, <2>1, <2>2, RenderedFits
  <2>4. editor'.current = p /\ editor'.versions = NoVersions BY <2>2, <2>3 DEF DialogsAre
  <2>5. /\ form' = [of |-> p, line |-> l, fields |-> NoLineId]
        /\ mixed' = [late |-> FALSE, restored |-> FALSE] /\ Ask(Request("edit", p, l))
    BY <1>2 DEF HandleEdit
  <2>6. FormOfCurrent' BY <2>4, <2>5, FormWithoutFields
  <2>7. VersionsOfCurrent(editor)' BY <2>4 DEF VersionsOfCurrent, NoVersions
  <2>8. DescriptionsFit' BY <1>i, <2>5, OneAsked, RequestIs, DescriptionsStay
  <2> QED BY <1>i, <2>3, <2>5, <2>6, <2>7, <2>8 DEF EditorInv, DialogsAre, TextFits
<1>3. ASSUME NEW p \in Programs, HandleViewFiles(p) PROVE Inv
  <2> DEFINE a == [editor EXCEPT !.current = p]
             b == [a EXCEPT !.versions = NoVersions]
             c == [b EXCEPT !.loading = TRUE]
  <2>1. editor' = Rendered(c) /\ AtTable BY <1>3 DEF HandleViewFiles
  <2>2. /\ EditorShape(c) /\ c.text = editor.text /\ c.modal = editor.modal
        /\ c.viewer = editor.viewer
    BY <1>i, <1>d DEF EditorShape, EditorFields
  <2> HIDE DEF c
  <2>3. DialogsAre(c) /\ TextFits(editor') BY <1>i, <2>1, <2>2, RenderedFits
  <2>4. ~editor'.modal /\ ~editor'.viewer BY <2>1, <2>2, <2>3 DEF DialogsAre, AtTable
  <2>5. /\ form' = form /\ mixed' = [mixed EXCEPT !.late = FALSE]
        /\ Ask(Request("view", p, NoLineId))
    BY <1>3 DEF HandleViewFiles
  <2>6. FormOfCurrent' BY <2>4 DEF FormOfCurrent
  <2>7. VersionsOfCurrent(editor)' BY <2>4 DEF VersionsOfCurrent
  <2>8. DescriptionsFit' BY <1>i, <2>5, OneAsked, RequestIs, DescriptionsStay
  <2> QED BY <1>i, <2>3, <2>5, <2>6, <2>7, <2>8 DEF EditorInv, DialogsAre, TextFits
<1>4. ASSUME NEW p \in Programs, HandleUpload(p) PROVE Inv
  <2> DEFINE a == [editor EXCEPT !.current = p]
             c == [a EXCEPT !.upload = p]
  <2>1. editor' = Rendered(c) /\ AtTable BY <1>4 DEF HandleUpload
  <2>2. /\ EditorShape(c) /\ c.text = editor.text /\ c.modal = editor.modal
        /\ c.viewer = editor.viewer
    BY <1>i, <1>d DEF EditorShape, EditorFields
  <2> HIDE DEF c
  <2>3. DialogsAre(c) /\ TextFits(editor') BY <1>i, <2>1, <2>2, RenderedFits
  <2>4. ~editor'.modal /\ ~editor'.viewer BY <2>1, <2>2, <2>3 DEF DialogsAre, AtTable
  <2>5. form' = form /\ mixed' = mixed /\ asked' = asked
    BY <1>4 DEF HandleUpload
  <2>6. FormOfCurrent' BY <2>4 DEF FormOfCurrent
  <2>7. VersionsOfCurrent(editor)' BY <2>4 DEF VersionsOfCurrent
  <2>8. DescriptionsFit' BY <1>i, <2>5, DescriptionsStay
  <2> QED BY <1>i, <2>3, <2>5, <2>6, <2>7, <2>8 DEF EditorInv, DialogsAre, TextFits
\* The program, its versions and the dialogs over them stay as they are.
<1>s. ASSUME NEW e, EditorShape(e), e.current = editor.current, e.versions = editor.versions,
             e.modal => editor.modal, e.viewer => editor.viewer,
             \/ editor' = Rendered(e) /\ e.text = editor.text
             \/ editor' = e /\ TextFits(e),
             mixed' = mixed, form' = form \/ form' = [form EXCEPT !.fields = NoLineId],
             \A r \in asked : r.kind \in {"edit", "fields"} =>
                \E s \in asked' : s.kind \in {"edit", "fields"} /\ s.line = r.line,
             \A r \in asked' : r.kind = "describe" => r \in asked
      PROVE  Inv
  <2>1. DialogsAre(e) /\ TextFits(editor') BY <1>i, <1>s, RenderedFits, SetFits
  <2>2. /\ editor'.current = editor.current /\ editor'.versions = editor.versions
        /\ editor'.modal => editor.modal
        /\ editor'.viewer => editor.viewer
    BY <1>s, <2>1 DEF DialogsAre
  <2>3. FormOfCurrent'
    <3>1. CASE form' = form BY <1>i, <1>s, <2>2, <3>1, FormStays
    <3>2. CASE form' = [form EXCEPT !.fields = NoLineId]
      <4>1. form'.fields = NoLineId /\ form'.of = form.of BY <1>i, <3>2
      <4> QED BY <1>i, <2>2, <4>1, FormWithoutFields DEF FormOfCurrent
    <3> QED BY <1>s, <3>1, <3>2
  <2>4. VersionsOfCurrent(editor)' BY <1>i, <1>s, <2>2, VersionsStay
  <2>5. DescriptionsFit' BY <1>i, <1>s, DescriptionsStay
  <2>6. DOMAIN form' = {"of", "line", "fields"} BY <1>i, <1>s
  <2> QED BY <1>i, <1>s, <2>1, <2>3, <2>4, <2>5, <2>6 DEF EditorInv, DialogsAre, TextFits
\* The versions of a program arrive.
<1>v. ASSUME NEW p, NEW e, EditorShape(e), e.current = editor.current,
             e.versions.of \in {p, NoProgram}, e.text = editor.text,
             e.modal = editor.modal, editor' = Rendered(e), Late(p), form' = form,
             \A r \in asked : r.kind \in {"edit", "fields"} =>
                \E s \in asked' : s.kind \in {"edit", "fields"} /\ s.line = r.line,
             \A r \in asked' : r.kind = "describe" => r \in asked
      PROVE  Inv
  <2>1. DialogsAre(e) /\ TextFits(editor') BY <1>i, <1>v, RenderedFits
  <2>2. /\ editor'.current = editor.current /\ editor'.versions.of \in {p, NoProgram}
        /\ editor'.modal = editor.modal
    BY <1>v, <2>1 DEF DialogsAre
  <2>3. /\ VersionsOfCurrent(editor)' /\ mixed'.restored = mixed.restored
        /\ DOMAIN mixed' = {"late", "restored"}
    BY <1>i, <1>v, <2>2, VersionsArrive
  <2>4. FormOfCurrent' BY <1>i, <1>v, <2>2, <2>3, FormStays
  <2>5. DescriptionsFit' BY <1>i, <1>v, DescriptionsStay
  <2> QED BY <1>i, <1>v, <2>1, <2>3, <2>4, <2>5 DEF EditorInv, DialogsAre, TextFits
<1>5. CASE Retransfer
  <2> DEFINE a == [editor EXCEPT !.upload = editor.current]
  <2>1. editor' = a BY <1>5 DEF Retransfer
  <2>2. /\ EditorShape(a) /\ a.text = editor.text /\ a.current = editor.current
        /\ a.versions = editor.versions /\ a.selected = editor.selected
        /\ a.modal => editor.modal
        /\ a.viewer => editor.viewer
    BY <1>i, <1>d, <1>n DEF EditorShape, EditorFields
  <2> HIDE DEF a
  <2>t. TextFits(a) BY <1>i, <2>2, ShownOf DEF TextFits
  <2>3. form' = form /\ mixed' = mixed /\ asked' = asked
    BY <1>5 DEF Retransfer
  <2> QED BY <1>k, <2>1, <2>2, <2>t, <2>3, <1>s
<1>6. CASE CloseEditor
  <2> DEFINE a == [editor EXCEPT !.modal = FALSE]
             b == [a EXCEPT !.editing = FALSE]
             c == [b EXCEPT !.snapshot = NoLineId]
             d == [c EXCEPT !.describing = FALSE]
             e == [d EXCEPT !.draft = NoText]
  <2>1. editor' = Rendered(e) BY <1>6 DEF CloseEditor
  <2>2. /\ EditorShape(e) /\ e.text = editor.text /\ e.current = editor.current
        /\ e.versions = editor.versions /\ e.selected = editor.selected
        /\ e.modal => editor.modal
        /\ e.viewer => editor.viewer
    BY <1>i, <1>d, <1>n DEF EditorShape, EditorFields
  <2> HIDE DEF e
  <2>3. form' = [form EXCEPT !.fields = NoLineId] /\ mixed' = mixed /\ asked' = asked
    BY <1>6 DEF CloseEditor
  <2> QED BY <1>k, <2>1, <2>2, <2>3, <1>s
<1>7. CASE CloseViewer
  <2> DEFINE a == [editor EXCEPT !.viewer = FALSE]
  <2>1. editor' = Rendered(a) BY <1>7 DEF CloseViewer
  <2>2. /\ EditorShape(a) /\ a.text = editor.text /\ a.current = editor.current
        /\ a.versions = editor.versions /\ a.selected = editor.selected
        /\ a.modal => editor.modal
        /\ a.viewer => editor.viewer
    BY <1>i, <1>d, <1>n DEF EditorShape, EditorFields
  <2> HIDE DEF a
  <2>3. form' = form /\ mixed' = mixed /\ asked' = asked
    BY <1>7 DEF CloseViewer
  <2> QED BY <1>k, <2>1, <2>2, <2>3, <1>s
<1>8. CASE CloseUpload
  <2> DEFINE a == [editor EXCEPT !.upload = NoProgram]
  <2>1. editor' = a BY <1>8 DEF CloseUpload
  <2>2. /\ EditorShape(a) /\ a.text = editor.text /\ a.current = editor.current
        /\ a.versions = editor.versions /\ a.selected = editor.selected
        /\ a.modal => editor.modal
        /\ a.viewer => editor.viewer
    BY <1>i, <1>d, <1>n DEF EditorShape, EditorFields
  <2> HIDE DEF a
  <2>t. TextFits(a) BY <1>i, <2>2, ShownOf DEF TextFits
  <2>3. form' = form /\ mixed' = mixed /\ asked' = asked
    BY <1>8 DEF CloseUpload
  <2> QED BY <1>k, <2>1, <2>2, <2>t, <2>3, <1>s
<1>9. CASE LoadPage
  <2>1. /\ editor' = editor /\ form' = form /\ mixed' = mixed
        /\ Ask(Request("reload", editor.current, NoLineId))
    BY <1>9 DEF LoadPage
  <2>2. /\ \A r \in asked' : r.kind = "describe" => r \in asked
        /\ \A r \in asked : r.kind \in {"edit", "fields"} =>
              \E s \in asked' : s.kind \in {"edit", "fields"} /\ s.line = r.line
    BY <2>1, RequestIs, OneAsked
  <2> QED BY <1>i, <2>1, <2>2, <1>s
<1>10. CASE SubmitUpload
  <2>1. PICK q : q.kind = "upload" /\ Ask(q)
    BY <1>10, RequestIs DEF SubmitUpload
  <2>3. editor' = editor /\ form' = form /\ mixed' = mixed
    BY <1>10 DEF SubmitUpload
  <2>2. /\ \A r \in asked' : r.kind = "describe" => r \in asked
        /\ \A r \in asked : r.kind \in {"edit", "fields"} =>
              \E s \in asked' : s.kind \in {"edit", "fields"} /\ s.line = r.line
    BY <2>1, OneAsked
  <2> QED BY <1>i, <2>3, <2>2, <1>s
<1>11. CASE DeleteVersionFile
  <2>1. PICK q : q.kind = "delete" /\ Ask(q)
    BY <1>11, RequestIs DEF DeleteVersionFile
  <2>3. editor' = editor /\ form' = form /\ mixed' = mixed
    BY <1>11 DEF DeleteVersionFile
  <2>2. /\ \A r \in asked' : r.kind = "describe" => r \in asked
        /\ \A r \in asked : r.kind \in {"edit", "fields"} =>
              \E s \in asked' : s.kind \in {"edit", "fields"} /\ s.line = r.line
    BY <2>1, OneAsked
  <2> QED BY <1>i, <2>3, <2>2, <1>s
<1>12. CASE SubmitForm
  <2>1. PICK q : q.kind = "update" /\ Ask(q)
    BY <1>12, RequestIs DEF SubmitForm
  <2>3. editor' = editor /\ form' = form /\ mixed' = mixed
    BY <1>12 DEF SubmitForm
  <2>2. /\ \A r \in asked' : r.kind = "describe" => r \in asked
        /\ \A r \in asked : r.kind \in {"edit", "fields"} =>
              \E s \in asked' : s.kind \in {"edit", "fields"} /\ s.line = r.line
    BY <2>1, OneAsked
  <2> QED BY <1>i, <2>3, <2>2, <1>s
<1>13. ASSUME NEW v, Select(v) PROVE Inv
  <2> DEFINE a == [editor EXCEPT !.selected = v]
  <2>1. editor' = Rendered(a) BY <1>13 DEF Select
  <2>2. /\ EditorShape(a) /\ a.text = editor.text /\ a.current = editor.current
        /\ a.versions = editor.versions /\ a.selected = v
        /\ a.modal => editor.modal
        /\ a.viewer => editor.viewer
    BY <1>i, <1>d, <1>n DEF EditorShape, EditorFields
  <2> HIDE DEF a
  <2>3. form' = form /\ mixed' = mixed /\ asked' = asked
    BY <1>13 DEF Select
  <2> QED BY <1>k, <2>1, <2>2, <2>3, <1>s
<1>14. CASE StartDescriptionEdit
  <2> DEFINE a == [editor EXCEPT !.describing = TRUE]
             b == [a EXCEPT !.draft = editor.text]
  <2>1. editor' = b BY <1>14 DEF StartDescriptionEdit
  <2>2. /\ EditorShape(b) /\ b.text = editor.text /\ b.current = editor.current
        /\ b.versions = editor.versions /\ b.selected = editor.selected
        /\ b.modal => editor.modal
        /\ b.viewer => editor.viewer
    BY <1>i, <1>d, <1>n DEF EditorShape, EditorFields
  <2> HIDE DEF b
  <2>t. TextFits(b) BY <1>i, <2>2, ShownOf DEF TextFits
  <2>3. form' = form /\ mixed' = mixed /\ asked' = asked
    BY <1>14 DEF StartDescriptionEdit
  <2> QED BY <1>k, <2>1, <2>2, <2>t, <2>3, <1>s
<1>15. ASSUME NEW note \in Texts, WriteDescription(note) PROVE Inv
  <2> DEFINE t == [editor.text EXCEPT !.note = note]
             e == [editor EXCEPT !.text = t]
  <2>1. editor' = [editor EXCEPT !.text.note = note] BY <1>15 DEF WriteDescription
  <2>2. [editor EXCEPT !.text.note = note] = e OBVIOUS
  <2>3. DOMAIN t = TextFields /\ t.by = editor.text.by /\ t.restored = editor.text.restored
    BY <1>i DEF EditorShape, TextFields
  <2> HIDE DEF t
  <2>4. /\ EditorShape(e) /\ e.text = t /\ e.current = editor.current
        /\ e.versions = editor.versions /\ e.selected = editor.selected
        /\ e.modal => editor.modal
        /\ e.viewer => editor.viewer
    BY <1>i, <1>d, <2>3 DEF EditorShape, EditorFields
  <2> HIDE DEF e
  <2>t. TextFits(e) BY <1>i, <2>3, <2>4, ShownOf DEF TextFits
  <2>5. form' = form /\ mixed' = mixed /\ asked' = asked BY <1>15 DEF WriteDescription
  <2> QED BY <1>k, <2>1, <2>2, <2>4, <2>t, <2>5, <1>s
<1>16. CASE CancelDescriptionEdit
  <2> DEFINE t == [editor.draft EXCEPT !.restored = editor.draft.by # ShownVersion(editor)]
             a == [editor EXCEPT !.describing = FALSE]
             b == [a EXCEPT !.draft = NoText]
             e == [b EXCEPT !.text = t]
  <2>1. editor' = e BY <1>16 DEF CancelDescriptionEdit
  <2>3. /\ DOMAIN t = TextFields /\ t.by = editor.draft.by
        /\ t.restored = (editor.draft.by # ShownVersion(editor))
    BY <1>i DEF EditorShape, TextFields
  <2> HIDE DEF t
  <2>4. /\ EditorShape(e) /\ e.text = t /\ e.current = editor.current
        /\ e.versions = editor.versions /\ e.selected = editor.selected
        /\ e.modal => editor.modal
        /\ e.viewer => editor.viewer
    BY <1>i, <1>d, <1>n, <2>3 DEF EditorShape, EditorFields
  <2> HIDE DEF e
  <2>t. TextFits(e) BY <2>3, <2>4, ShownOf DEF TextFits
  <2>5. form' = form /\ mixed' = mixed /\ asked' = asked BY <1>16 DEF CancelDescriptionEdit
  <2> QED BY <1>k, <2>1, <2>4, <2>t, <2>5, <1>s
<1>17. CASE SaveDescription
  <2> DEFINE a == Request("describe", editor.current, NoLineId)
             b == [a EXCEPT !.version = ShownVersion(editor)]
             q == [b EXCEPT !.text = editor.text]
  <2>1. Ask(q) /\ editor' = editor /\ form' = form /\ mixed' = mixed
    BY <1>17 DEF SaveDescription
  <2>2. q.text = editor.text /\ q.version = ShownVersion(editor)
    BY DEF Request
  <2> HIDE DEF q
  <2>3. DescriptionsFit' BY <1>i, <2>1, <2>2, OneAsked DEF DescriptionsFit, TextFits
  <2>4. FormOfCurrent' BY <1>i, <2>1, OneAsked, FormStays
  <2>5. VersionsOfCurrent(editor)' BY <1>i, <2>1 DEF VersionsOfCurrent
  <2> QED BY <1>i, <2>1, <2>3, <2>4, <2>5 DEF EditorInv, TextFits, ShownVersion
\* An answer that is not about the form, and what is asked for after it.
<1>r. ASSUME NEW r \in asked, r.kind \notin {"edit", "fields"}, NEW q, q.kind # "describe",
             asked' \in {asked \ {r}, (asked \ {r}) \cup {q}}
      PROVE  /\ \A s \in asked' : s.kind = "describe" => s \in asked
             /\ \A s \in asked : s.kind \in {"edit", "fields"} =>
                  \E w \in asked' : w.kind \in {"edit", "fields"} /\ w.line = s.line
  BY <1>r
<1>q. \A p, l : Request("reload", p, l).kind = "reload" /\ Request("described", p, l).kind = "described"
                /\ Request("fields", p, l).kind = "fields" /\ Request("fields", p, l).line = l
  BY RequestIs
<1>l. \A p : Loaded(p).of = p
  BY DEF Loaded
<1>18. ASSUME NEW r \in asked, NEW versions \in {NoVersions, Loaded(r.of)},
              EditVersions(r, versions)
       PROVE  Inv
  <2> DEFINE chosen == IF versions = NoVersions THEN NoVersion ELSE editor.selected
             a == [editor EXCEPT !.versions = versions]
             e == [a EXCEPT !.selected = chosen]
  <2>1. editor' = Rendered(e)
    <3>1. editor' = Rendered([editor EXCEPT !.versions = versions,
                                !.selected = IF versions = NoVersions THEN NoVersion ELSE @])
      BY <1>18 DEF EditVersions
    <3>2. [editor EXCEPT !.versions = versions,
                         !.selected = IF versions = NoVersions THEN NoVersion ELSE @] = e
      BY <1>d DEF EditorFields
    <3> QED BY <3>1, <3>2
  <2> HIDE DEF chosen
  <2>2. /\ EditorShape(e) /\ e.text = editor.text /\ e.current = editor.current
        /\ e.versions = versions /\ e.modal = editor.modal
    BY <1>i, <1>d DEF EditorShape, EditorFields
  <2> HIDE DEF e
  <2>3. versions.of \in {r.of, NoProgram} BY <1>l DEF NoVersions
  <2>4. /\ Late(r.of) /\ form' = form /\ r \in asked /\ r.kind = "edit"
        /\ asked' = (asked \ {r}) \cup {Request("fields", NoProgram, r.line)}
    BY <1>18 DEF EditVersions
  <2>5. /\ \A s \in asked' : s.kind = "describe" => s \in asked
        /\ \A s \in asked : s.kind \in {"edit", "fields"} =>
              \E w \in asked' : w.kind \in {"edit", "fields"} /\ w.line = s.line
    <3> DEFINE q == Request("fields", NoProgram, r.line)
    <3>1. q.kind = "fields" /\ q.line = r.line /\ asked' = (asked \ {r}) \cup {q} BY <1>q, <2>4
    <3> HIDE DEF q
    <3> QED BY <3>1, <2>4
  <2> QED BY <2>1, <2>2, <2>3, <2>4, <2>5, <1>v
<1>19. ASSUME NEW r \in asked, ViewAnswered(r) PROVE Inv
  <2> DEFINE a == [editor EXCEPT !.versions = Loaded(r.of)]
             b == [a EXCEPT !.viewer = TRUE]
             e == [b EXCEPT !.loading = FALSE]
  <2>1. /\ editor' = Rendered(e) /\ Late(r.of) /\ form' = form /\ r.kind = "view"
        /\ asked' = asked \ {r}
    BY <1>19 DEF ViewAnswered
  <2>2. /\ EditorShape(e) /\ e.text = editor.text /\ e.current = editor.current
        /\ e.versions = Loaded(r.of) /\ e.modal = editor.modal
    BY <1>i, <1>d DEF EditorShape, EditorFields
  <2> HIDE DEF e
  <2>3. /\ \A s \in asked' : s.kind = "describe" => s \in asked
        /\ \A s \in asked : s.kind \in {"edit", "fields"} =>
              \E w \in asked' : w.kind \in {"edit", "fields"} /\ w.line = s.line
    BY <1>q, <1>r, <2>1
  <2>4. e.versions.of \in {r.of, NoProgram} BY <1>l, <2>2
  <2> QED BY <2>1, <2>2, <2>3, <2>4, <1>v
<1>20. ASSUME NEW r \in asked, ViewFailed(r) PROVE Inv
  <2> DEFINE e == [editor EXCEPT !.loading = FALSE]
  <2>1. /\ editor' = e /\ form' = form /\ mixed' = mixed /\ r.kind = "view"
        /\ asked' = asked \ {r}
    BY <1>20 DEF ViewFailed
  <2>2. /\ EditorShape(e) /\ e.text = editor.text /\ e.current = editor.current
        /\ e.versions = editor.versions /\ e.selected = editor.selected
        /\ e.modal => editor.modal
        /\ e.viewer => editor.viewer
    BY <1>i, <1>d DEF EditorShape, EditorFields
  <2> HIDE DEF e
  <2>t. TextFits(e) BY <1>i, <2>2, ShownOf DEF TextFits
  <2>3. /\ \A s \in asked' : s.kind = "describe" => s \in asked
        /\ \A s \in asked : s.kind \in {"edit", "fields"} =>
              \E w \in asked' : w.kind \in {"edit", "fields"} /\ w.line = s.line
    BY <1>q, <1>r, <2>1
  <2> QED BY <2>1, <2>2, <2>t, <2>3, <1>s
<1>21. ASSUME NEW r \in asked, Reloaded(r) PROVE Inv
  <2> DEFINE e == [editor EXCEPT !.versions = Loaded(r.of)]
  <2>1. /\ editor' = Rendered(e) /\ Late(r.of) /\ form' = form /\ r.kind = "reload"
        /\ asked' = asked \ {r}
    BY <1>21 DEF Reloaded
  <2>2. /\ EditorShape(e) /\ e.text = editor.text /\ e.current = editor.current
        /\ e.versions = Loaded(r.of) /\ e.modal = editor.modal
    BY <1>i, <1>d DEF EditorShape, EditorFields
  <2> HIDE DEF e
  <2>3. /\ \A s \in asked' : s.kind = "describe" => s \in asked
        /\ \A s \in asked : s.kind \in {"edit", "fields"} =>
              \E w \in asked' : w.kind \in {"edit", "fields"} /\ w.line = s.line
    BY <1>q, <1>r, <2>1
  <2>4. e.versions.of \in {r.of, NoProgram} BY <1>l, <2>2
  <2> QED BY <2>1, <2>2, <2>3, <2>4, <1>v
<1>22. ASSUME NEW r \in asked, UploadAnswered(r) PROVE Inv
  <2> DEFINE e == [editor EXCEPT !.upload = NoProgram]
             q == Request("reload", r.line, NoLineId)
  <2>1. /\ editor' = e /\ form' = form /\ mixed' = mixed /\ r.kind = "upload"
        /\ asked' \in {asked \ {r}, (asked \ {r}) \cup {q}}
    <3>1. asked' = (asked \ {r}) \cup (IF r.line = NoProgram THEN {} ELSE {q})
      BY <1>22 DEF UploadAnswered
    <3>2. asked' \in {asked \ {r}, (asked \ {r}) \cup {q}}
      <4> HIDE DEF q
      <4>1. CASE r.line = NoProgram BY <3>1, <4>1
      <4>2. CASE r.line # NoProgram BY <3>1, <4>2
      <4> QED BY <4>1, <4>2
    <3> QED BY <1>22, <3>2 DEF UploadAnswered
  <2>2. /\ EditorShape(e) /\ e.text = editor.text /\ e.current = editor.current
        /\ e.versions = editor.versions /\ e.selected = editor.selected
        /\ e.modal => editor.modal
        /\ e.viewer => editor.viewer
    BY <1>i, <1>d DEF EditorShape, EditorFields
  <2>q. q.kind # "describe" BY <1>q
  <2> HIDE DEF e, q
  <2>t. TextFits(e) BY <1>i, <2>2, ShownOf DEF TextFits
  <2>3. /\ \A s \in asked' : s.kind = "describe" => s \in asked
        /\ \A s \in asked : s.kind \in {"edit", "fields"} =>
              \E w \in asked' : w.kind \in {"edit", "fields"} /\ w.line = s.line
    BY <2>q, <1>r, <2>1
  <2> QED BY <2>1, <2>2, <2>t, <2>3, <1>s
<1>23. ASSUME NEW r \in asked, FileDeletedReload(r) PROVE Inv
  <2> DEFINE q == Request("reload", r.of, NoLineId)
  <2>1. /\ editor' = editor /\ form' = form /\ mixed' = mixed /\ r.kind = "delete"
        /\ asked' \in {asked \ {r}, (asked \ {r}) \cup {q}}
    <3>1. asked' = (asked \ {r}) \cup (IF r.of = NoProgram THEN {} ELSE {q})
      BY <1>23 DEF FileDeletedReload
    <3>2. asked' \in {asked \ {r}, (asked \ {r}) \cup {q}}
      <4> HIDE DEF q
      <4>1. CASE r.of = NoProgram BY <3>1, <4>1
      <4>2. CASE r.of # NoProgram BY <3>1, <4>2
      <4> QED BY <4>1, <4>2
    <3> QED BY <1>23, <3>2 DEF FileDeletedReload
  <2>q. q.kind # "describe" BY <1>q
  <2> HIDE DEF q
  <2>3. /\ \A s \in asked' : s.kind = "describe" => s \in asked
        /\ \A s \in asked : s.kind \in {"edit", "fields"} =>
              \E w \in asked' : w.kind \in {"edit", "fields"} /\ w.line = s.line
    BY <2>q, <1>r, <2>1
  <2> QED BY <1>i, <2>1, <2>3, <1>s
<1>24. ASSUME NEW r \in asked, OnlyReported(r) PROVE Inv
  <2>1. /\ editor' = editor /\ form' = form /\ mixed' = mixed /\ asked' = asked \ {r}
        /\ r.kind \in {"upload", "delete", "reload", "update", "described"}
    BY <1>24 DEF OnlyReported
  <2>3. /\ \A s \in asked' : s.kind = "describe" => s \in asked
        /\ \A s \in asked : s.kind \in {"edit", "fields"} =>
              \E w \in asked' : w.kind \in {"edit", "fields"} /\ w.line = s.line
    BY <1>q, <1>r, <2>1
  <2> QED BY <1>i, <2>1, <2>3, <1>s
\* The editing of the description ends.
<1>u. /\ EditorShape(Undescribing) /\ Undescribing.text = editor.text
      /\ Undescribing.current = editor.current /\ Undescribing.versions = editor.versions
      /\ Undescribing.selected = editor.selected /\ Undescribing.modal = editor.modal
      /\ Undescribing.viewer = editor.viewer /\ TextFits(Undescribing)
  <2> DEFINE a == [editor EXCEPT !.describing = FALSE]
             e == [a EXCEPT !.draft = NoText]
  <2>1. Undescribing = e BY DEF Undescribing
  <2>2. /\ EditorShape(e) /\ e.text = editor.text /\ e.current = editor.current
        /\ e.versions = editor.versions /\ e.selected = editor.selected
        /\ e.modal = editor.modal /\ e.viewer = editor.viewer
    BY <1>i, <1>d, <1>n DEF EditorShape, EditorFields
  <2> HIDE DEF e
  <2>3. TextFits(e) BY <1>i, <2>2, ShownOf DEF TextFits
  <2> QED BY <2>1, <2>2, <2>3
<1>25. ASSUME NEW r \in asked, DescriptionSaved(r) PROVE Inv
  <2> DEFINE q == Request("described", r.of, NoLineId)
  <2>1. /\ form' = form /\ mixed' = mixed /\ r.kind = "describe"
        /\ \/ editor' = Undescribing /\ asked' = asked \ {r}
           \/ editor' = editor /\ asked' = (asked \ {r}) \cup {q}
    BY <1>25 DEF DescriptionSaved
  <2>q. q.kind # "describe" BY <1>q
  <2> HIDE DEF q
  <2>3. /\ \A s \in asked' : s.kind = "describe" => s \in asked
        /\ \A s \in asked : s.kind \in {"edit", "fields"} =>
              \E w \in asked' : w.kind \in {"edit", "fields"} /\ w.line = s.line
    BY <2>q, <1>r, <2>1
  <2>4. CASE editor' = Undescribing BY <1>u, <2>1, <2>3, <2>4, <1>s
  <2>5. CASE editor' = editor BY <1>i, <2>1, <2>3, <2>5, <1>s
  <2> QED BY <2>1, <2>4, <2>5
<1>26. ASSUME NEW r \in asked, DescriptionReloaded(r) PROVE Inv
  <2> DEFINE e == [Undescribing EXCEPT !.versions = Loaded(r.of)]
  <2>1. /\ editor' = Rendered(e) /\ Late(r.of) /\ form' = form /\ r.kind = "described"
        /\ asked' = asked \ {r}
    BY <1>26 DEF DescriptionReloaded
  <2>2. /\ EditorShape(e) /\ e.text = editor.text /\ e.current = editor.current
        /\ e.versions = Loaded(r.of) /\ e.modal = editor.modal
    BY <1>u DEF EditorShape, EditorFields
  <2> HIDE DEF e
  <2>3. /\ \A s \in asked' : s.kind = "describe" => s \in asked
        /\ \A s \in asked : s.kind \in {"edit", "fields"} =>
              \E w \in asked' : w.kind \in {"edit", "fields"} /\ w.line = s.line
    BY <1>q, <1>r, <2>1
  <2>4. e.versions.of \in {r.of, NoProgram} BY <1>l, <2>2
  <2> QED BY <2>1, <2>2, <2>3, <2>4, <1>v
<1>27. ASSUME NEW r \in asked, NEW missing \in BOOLEAN, DescriptionNotSaved(r, missing)
       PROVE  Inv
  <2> DEFINE known == editor.supported /\ ~missing
             e == [editor EXCEPT !.supported = known]
  <2>1. /\ editor' = e /\ form' = form /\ mixed' = mixed /\ r.kind = "describe"
        /\ asked' = asked \ {r}
    <3>1. editor' = [editor EXCEPT !.supported = @ /\ ~missing]
      BY <1>27 DEF DescriptionNotSaved
    <3> QED BY <1>27, <3>1 DEF DescriptionNotSaved
  <2> HIDE DEF known
  <2>2. /\ EditorShape(e) /\ e.text = editor.text /\ e.current = editor.current
        /\ e.versions = editor.versions /\ e.selected = editor.selected
        /\ e.modal => editor.modal
        /\ e.viewer => editor.viewer
    BY <1>i, <1>d DEF EditorShape, EditorFields
  <2> HIDE DEF e
  <2>t. TextFits(e) BY <1>i, <2>2, ShownOf DEF TextFits
  <2>3. /\ \A s \in asked' : s.kind = "describe" => s \in asked
        /\ \A s \in asked : s.kind \in {"edit", "fields"} =>
              \E w \in asked' : w.kind \in {"edit", "fields"} /\ w.line = s.line
    BY <1>q, <1>r, <2>1
  <2> QED BY <2>1, <2>2, <2>t, <2>3, <1>s
\* Only the form and the requests change.
<1>w. ASSUME NEW e, DialogsAre(e), TextFits(editor'), mixed'.late = mixed.late,
             e.current = editor.current, e.versions = editor.versions,
             e.modal = editor.modal, e.viewer = editor.viewer,
             DOMAIN form' = {"of", "line", "fields"}, DOMAIN mixed' = {"late", "restored"},
             FormOfCurrent', \A s \in asked' : s.kind = "describe" => s \in asked
      PROVE  Inv
  <2>1. /\ editor'.current = editor.current /\ editor'.versions = editor.versions
        /\ editor'.modal = editor.modal /\ editor'.viewer = editor.viewer
        /\ EditorShape(editor')
    BY <1>w DEF DialogsAre
  <2>2. VersionsOfCurrent(editor)' BY <1>i, <1>w, <2>1, VersionsStay
  <2>3. DescriptionsFit' BY <1>i, <1>w, DescriptionsStay
  <2> QED BY <1>w, <2>1, <2>2, <2>3 DEF EditorInv, TextFits, EditorShape
<1>28. CASE StartPropertyEdit
  <2> DEFINE a == [editor EXCEPT !.editing = TRUE]
             e == [a EXCEPT !.snapshot = form.line]
  <2>1. /\ editor' = e /\ form' = form /\ mixed' = mixed /\ asked' = asked
    BY <1>28 DEF StartPropertyEdit
  <2>2. /\ EditorShape(e) /\ e.text = editor.text /\ e.current = editor.current
        /\ e.versions = editor.versions /\ e.selected = editor.selected
        /\ e.modal => editor.modal
        /\ e.viewer => editor.viewer
    BY <1>i, <1>d DEF EditorShape, EditorFields
  <2> HIDE DEF e
  <2>t. TextFits(e) BY <1>i, <2>2, ShownOf DEF TextFits
  <2> QED BY <1>k, <2>1, <2>2, <2>t, <1>s
<1>29. ASSUME NEW l \in FormLines, ChangeLine(l) PROVE Inv
  <2> DEFINE q == Request("fields", NoProgram, l)
  <2>1. /\ editor' = editor /\ mixed' = mixed /\ Ask(q)
        /\ form' = [form EXCEPT !.line = l]
    BY <1>29 DEF ChangeLine
  <2>2. q.kind = "fields" /\ q.line = l BY <1>q
  <2> HIDE DEF q
  <2>3. form'.line = l /\ form'.of = form.of /\ DOMAIN form' = {"of", "line", "fields"}
    BY <1>i, <2>1
  <2>4. FieldsPending(form.line)' BY <2>1, <2>2, <2>3 DEF FieldsPending, Ask
  <2>5. FormOfCurrent' BY <1>i, <2>1, <2>3, <2>4 DEF FormOfCurrent
  <2>6. DialogsAre(editor) /\ TextFits(editor') BY <1>i, <2>1, SetFits
  <2>7. \A s \in asked' : s.kind = "describe" => s \in asked BY <2>1, <2>2, OneAsked
  <2> QED BY <1>i, <2>1, <2>3, <2>5, <2>6, <2>7, <1>w
\* The answer to a request for fields, taken only for the line that is chosen.
<1>a. ASSUME NEW r \in asked, r.kind = "fields", NEW fields \in {r.line, NoLineId},
             form' = IF form.line = r.line THEN [form EXCEPT !.fields = fields] ELSE form,
             asked' = asked \ {r}, editor' = editor, mixed' = mixed
      PROVE  Inv
  <2>1. /\ DOMAIN form' = {"of", "line", "fields"} /\ form'.of = form.of
        /\ form'.line = form.line
        /\ form'.fields = IF form.line = r.line THEN fields ELSE form.fields
    <3>1. CASE form.line = r.line BY <1>i, <1>a, <3>1
    <3>2. CASE form.line # r.line BY <1>i, <1>a, <3>2
    <3> QED BY <3>1, <3>2
  <2>2. form.line # r.line /\ FieldsPending(form.line) => FieldsPending(form.line)'
    BY <1>a, <2>1 DEF FieldsPending
  <2>3. FormOfCurrent'
    <3>1. CASE form.line = r.line BY <1>i, <1>a, <2>1, <3>1 DEF FormOfCurrent
    <3>2. CASE form.line # r.line BY <1>i, <1>a, <2>1, <2>2, <3>2 DEF FormOfCurrent
    <3> QED BY <3>1, <3>2
  <2>4. DialogsAre(editor) /\ TextFits(editor') BY <1>i, <1>a, SetFits
  <2>5. \A s \in asked' : s.kind = "describe" => s \in asked BY <1>a
  <2> QED BY <1>i, <1>a, <2>1, <2>3, <2>4, <2>5, <1>w
<1>30. ASSUME NEW r \in asked, FieldsAnswered(r) PROVE Inv
  <2>1. /\ form' = IF form.line = r.line THEN [form EXCEPT !.fields = r.line] ELSE form
        /\ r.kind = "fields" /\ asked' = asked \ {r} /\ editor' = editor /\ mixed' = mixed
    BY <1>30 DEF FieldsAnswered
  <2> QED BY <2>1, <1>a
<1>31. ASSUME NEW r \in asked, FieldsFailed(r) PROVE Inv
  <2>1. /\ form' = IF form.line = r.line THEN [form EXCEPT !.fields = NoLineId] ELSE form
        /\ r.kind = "fields" /\ asked' = asked \ {r} /\ editor' = editor /\ mixed' = mixed
    BY <1>31 DEF FieldsFailed
  <2> QED BY <2>1, <1>a
<1>32. CASE CancelPropertyEdit
  <2> DEFINE a == [editor EXCEPT !.editing = FALSE]
             e == [a EXCEPT !.snapshot = NoLineId]
             other == mixed.restored \/ form'.line # form.line
  <2>1. /\ editor' = e /\ asked' = asked
        /\ form' = IF editor.snapshot = NoLineId THEN form
                   ELSE [form EXCEPT !.line = editor.snapshot]
        /\ mixed' = [mixed EXCEPT !.restored = other]
    BY <1>32 DEF CancelPropertyEdit
  <2>2. /\ EditorShape(e) /\ e.text = editor.text /\ e.current = editor.current
        /\ e.versions = editor.versions /\ e.selected = editor.selected
        /\ e.modal = editor.modal /\ e.viewer = editor.viewer
    BY <1>i, <1>d DEF EditorShape, EditorFields
  <2>3. /\ DOMAIN form' = {"of", "line", "fields"} /\ form'.of = form.of
        /\ form'.fields = form.fields
    <3>1. CASE editor.snapshot = NoLineId BY <1>i, <2>1, <3>1
    <3>2. CASE editor.snapshot # NoLineId BY <1>i, <2>1, <3>2
    <3> QED BY <3>1, <3>2
  <2>4. /\ DOMAIN mixed' = {"late", "restored"} /\ mixed'.late = mixed.late
        /\ mixed'.restored = other
    BY <1>i, <2>1
  <2> HIDE DEF e
  <2>5. TextFits(e) BY <1>i, <2>2, ShownOf DEF TextFits
  <2>6. DialogsAre(e) /\ TextFits(editor') BY <2>1, <2>2, <2>5, SetFits
  <2>7. ~mixed'.restored => ~mixed.restored /\ form'.line = form.line BY <2>4
  <2>8. FormOfCurrent'
    <3>1. form'.line = form.line => (FieldsPending(form.line)' <=> FieldsPending(form.line))
      BY <2>1 DEF FieldsPending
    <3>2. editor'.modal = editor.modal /\ editor'.current = editor.current
      BY <2>2, <2>6 DEF DialogsAre
    <3> QED BY <1>i, <2>3, <2>7, <3>1, <3>2 DEF FormOfCurrent
  <2> QED BY <2>1, <2>2, <2>3, <2>4, <2>6, <2>8, <1>w
<1>33. ASSUME NEW r \in asked, UpdateAnswered(r) PROVE Inv
  <2> DEFINE x == [editor EXCEPT !.modal = FALSE]
             a == [Undescribing EXCEPT !.modal = FALSE]
             b == [a EXCEPT !.editing = FALSE]
             y == [b EXCEPT !.snapshot = NoLineId]
  <2>1. /\ editor' = Rendered(x) \/ editor' = Rendered(y)
        /\ form' = [form EXCEPT !.fields = NoLineId] /\ mixed' = mixed /\ r.kind = "update"
        /\ asked' = asked \ {r}
    BY <1>33 DEF UpdateAnswered
  <2>2. /\ EditorShape(x) /\ x.text = editor.text /\ x.current = editor.current
        /\ x.versions = editor.versions /\ x.selected = editor.selected
        /\ x.modal => editor.modal
        /\ x.viewer => editor.viewer
    BY <1>i, <1>d DEF EditorShape, EditorFields
  <2>3. /\ EditorShape(y) /\ y.text = editor.text /\ y.current = editor.current
        /\ y.versions = editor.versions /\ y.selected = editor.selected
        /\ y.modal => editor.modal
        /\ y.viewer => editor.viewer
    BY <1>u DEF EditorShape, EditorFields
  <2> HIDE DEF x, y
  <2>4. /\ \A s \in asked' : s.kind = "describe" => s \in asked
        /\ \A s \in asked : s.kind \in {"edit", "fields"} =>
              \E w \in asked' : w.kind \in {"edit", "fields"} /\ w.line = s.line
    BY <1>q, <1>r, <2>1
  <2>5. CASE editor' = Rendered(x) BY <2>1, <2>2, <2>4, <2>5, <1>s
  <2>6. CASE editor' = Rendered(y) BY <2>1, <2>3, <2>4, <2>6, <1>s
  <2> QED BY <2>1, <2>5, <2>6
<1>z. CASE UNCHANGED editorVars
  <2>1. UNCHANGED <<editor, form, asked, mixed>> BY <1>z DEF editorVars
  <2> QED BY <1>i, <1>k, <2>1, <1>s
<1>34. CASE EditorAnswers
  BY <1>34, <1>18, <1>19, <1>20, <1>21, <1>22, <1>23, <1>24, <1>25, <1>26, <1>27, <1>30,
     <1>31, <1>33 DEF EditorAnswers
<1>35. CASE PageVersions \/ PageViewedVersions
  BY <1>35, <1>9 DEF PageVersions, PageViewedVersions
<1>36. ASSUME NEW v, SelectVersion(v) \/ SelectViewedVersion(v) PROVE Inv
  BY <1>36, <1>13 DEF SelectVersion, SelectViewedVersion
<1> QED
  BY <1>1, <1>2, <1>3, <1>4, <1>5, <1>6, <1>7, <1>8, <1>10, <1>11, <1>12, <1>14, <1>15, <1>16,
     <1>17, <1>28, <1>29, <1>32, <1>34, <1>35, <1>36, <1>z DEF EditorNext

LEMMA EditorInvShows == EditorInv => EditorOfCurrent /\ TextOfItsVersion
<1> SUFFICES ASSUME EditorInv PROVE EditorOfCurrent /\ TextOfItsVersion
  OBVIOUS
<1>1. VersionsOfCurrent(editor) /\ FormOfCurrent /\ DescriptionsFit /\ TextFits(editor)
  BY DEF EditorInv
<1>2. Viewed(editor).of \in {editor.versions.of, NoProgram}
  BY DEF Viewed
<1> QED BY <1>1, <1>2 DEF VersionsOfCurrent, FormOfCurrent, DescriptionsFit, TextFits,
                          EditorOfCurrent, TextOfItsVersion

-----------------------------------------------------------------------------
(***************************************************************************)
(* The pages side by side.                                                 *)
(***************************************************************************)
\* Every page starts in one of its initial states.
LEMMA PagesStart ==
  ASSUME ClientInit
  PROVE  /\ ImportInit /\ MatrixInit /\ SessionInit /\ TableInit /\ RelationsInit
         /\ AdminInit /\ MigrationInit /\ BackupInit /\ CenterInit /\ EditorInit
BY DEF ClientInit

\* A step of the client is one of the page that moves; the others rest.
LEMMA PagesStep ==
  ASSUME [ClientNext]_clientVars
  PROVE  /\ [ImportNext]_importVars /\ [MatrixNext]_matrixVars /\ [SessionNext]_sessionVars
         /\ [TableNext]_tableVars /\ [RelationsNext]_relationVars /\ [AdminNext]_listVars
         /\ [MigrationNext]_migrationVars /\ [BackupNext]_backupVars /\ [CenterNext]_centerVars
         /\ [EditorNext]_editorVars
<1>1. CASE ImportArea(ImportNext)   BY <1>1 DEF ImportArea
<1>2. CASE MatrixArea(MatrixNext)   BY <1>2 DEF MatrixArea
<1>3. CASE FieldsArea(FieldsNext)   BY <1>3 DEF FieldsArea
<1>4. CASE SessionArea(SessionNext) BY <1>4 DEF SessionArea
<1>5. CASE EditorArea(EditorNext)   BY <1>5 DEF EditorArea
<1>6. CASE TableArea(TableNext)     BY <1>6 DEF TableArea
<1>7. CASE RelationsArea(RelationsNext) BY <1>7 DEF RelationsArea
<1>8. CASE AdminArea(AdminNext)     BY <1>8 DEF AdminArea
<1>9. CASE MigrationArea(MigrationNext) BY <1>9 DEF MigrationArea
<1>10. CASE BackupArea(BackupNext)  BY <1>10 DEF BackupArea
<1>11. CASE ExportArea(CenterNext)  BY <1>11 DEF ExportArea
<1>12. CASE UNCHANGED clientVars    BY <1>12 DEF clientVars
<1> QED BY <1>1, <1>2, <1>3, <1>4, <1>5, <1>6, <1>7, <1>8, <1>9, <1>10, <1>11, <1>12 DEF ClientNext

\* The drawer of mappings (ProgramManagement.tsx), whatever loads, additions and
\* deletions for whichever programs overtake each other: a dialog at rest offers
\* the candidates of the search it shows, a closed one none, and a drawer at rest
\* shows the mappings the server has of its program, unless answers came after
\* another program became the current one, or not at all.
THEOREM RelationsAreShown == ClientSpec => []RelationsShown
<1>1. ClientInit => RelationsInv
  BY PagesStart, RelationsStart
<1>2. RelationsInv /\ [ClientNext]_clientVars => RelationsInv'
  BY PagesStep, RelationsStep
<1> QED BY <1>1, <1>2, RelationsInvShows, PTL DEF ClientSpec

\* A tab of the permission page (PermissionMatrix): once nothing loads, the rows
\* are those of the target chosen, unless the page let an answer to another one
\* come last; and what waits to be saved differs from the row beside it.
THEOREM RowsAreOfTarget == ClientSpec => []RowsOfTarget
<1>1. ClientInit => MatrixInv
  BY PagesStart, MatrixStart
<1>2. MatrixInv /\ [ClientNext]_clientVars => MatrixInv'
  BY PagesStep, MatrixStep
<1> QED BY <1>1, <1>2, MatrixInvShows, PTL DEF ClientSpec

\* A save of the permission page carries no cell but those that were changed on
\* the rows of the target it is sent to, with any number of saves under way.
THEOREM OnlyChangesAreSubmitted == ClientSpec => []SubmitsOnlyChanged
<1>1. ClientInit => MatrixInv
  BY PagesStart, MatrixStart
<1>2. MatrixInv /\ [ClientNext]_clientVars => MatrixInv'
  BY PagesStep, MatrixStep
<1> QED BY <1>1, <1>2, MatrixInvShows, PTL DEF ClientSpec

\* The system page (SystemManagement.tsx) with any number of visits, intervals and
\* servers started again: while it shows a running migration an interval of this
\* visit polls it, unless a poll was missed; and its handle is one of the
\* intervals there are, so that leaving the page clears it.
THEOREM MigrationIsFollowed == ClientSpec => []FollowsMigration
<1>1. ClientInit => MigrationInv
  BY PagesStart, MigrationStart
<1>2. MigrationInv /\ [ClientNext]_clientVars => MigrationInv'
  BY PagesStep, MigrationStep
<1>3. MigrationInv => FollowsMigration
  BY DEF MigrationInv
<1> QED BY <1>1, <1>2, <1>3, PTL DEF ClientSpec

\* The import dialog: however often it is closed, opened and started while
\* requests are in flight, no interval polls that the page has lost hold of.
THEOREM OneIntervalPolls == ClientSpec => []OneInterval
<1>1. ClientInit => ImportInv
  BY PagesStart, ImportStart
<1>2. ImportInv /\ [ClientNext]_clientVars => ImportInv'
  BY PagesStep, ImportStep
<1> QED BY <1>1, <1>2, ImportInvShows, PTL DEF ClientSpec

\* The import dialog shows the import started in it, whatever polls answer in
\* whatever order, and what it starts has a line for every workstation of the
\* archive, whatever was uploaded and mapped before it.
THEOREM ImportIsItsOwn == ClientSpec => []ShowsItsImport
<1>1. ClientInit => ImportInv
  BY PagesStart, ImportStart
<1>2. ImportInv /\ [ClientNext]_clientVars => ImportInv'
  BY PagesStep, ImportStep
<1> QED BY <1>1, <1>2, ImportInvShows, PTL DEF ClientSpec

\* The third step of the import dialog is never left to itself before it shows how
\* the import ended: an interval, a start or a poll is under way, unless the page
\* let answers overtake each other or the server was restarted.
THEOREM ImportIsWatched == ClientSpec => []NoStall
<1>1. ClientInit => ImportInv
  BY PagesStart, ImportStart
<1>2. ImportInv /\ [ClientNext]_clientVars => ImportInv'
  BY PagesStep, ImportStep
<1> QED BY <1>1, <1>2, ImportInvShows, PTL DEF ClientSpec

\* The table of programs (ProgramManagement.tsx): once everything asked for has
\* come, its rows are those of the page and the filters it shows, and the fields
\* it offers those of its line, unless the last load failed or was overtaken.
THEOREM TableIsOfItsQuery == ClientSpec => []TableShowsQuery
<1>1. ClientInit => TableInv
  BY PagesStart, TableStart
<1>2. TableInv /\ [ClientNext]_clientVars => TableInv'
  BY PagesStep, TableStep
<1> QED BY <1>1, <1>2, TableInvShows, PTL DEF ClientSpec

\* The export page (ExportCenter): once everything asked for has come, preview and
\* figures are of the columns, filters and page chosen, and a page but the first
\* is of the filters it was turned to under.
THEOREM ExportIsOfItsFilters == ClientSpec => []ExportShown
<1>1. ClientInit => CenterInv
  BY PagesStart, CenterStart
<1>2. CenterInv /\ [ClientNext]_clientVars => CenterInv'
  BY PagesStep, CenterStep
<1> QED BY <1>1, <1>2, CenterInvShows, PTL DEF ClientSpec

\* The backups of the system page: no two restores are waited for at once,
\* although the dialog of a running one can be cancelled and opened again, and at
\* rest the list is what is stored, unless the page was not told, or told late.
THEOREM BackupsStayInOrder == ClientSpec => []BackupsInOrder
<1>1. ClientInit => BackupInv
  BY PagesStart, BackupStart
<1>2. BackupInv /\ [ClientNext]_clientVars => BackupInv'
  BY PagesStep, BackupStep
<1> QED BY <1>1, <1>2, BackupInvShows, PTL DEF ClientSpec

\* The lists of departments, lines, users and models: nobody is left on an empty
\* page with rows before it, rows at rest are of the filter shown, and a drawer
\* holds the programs, the one over it the versions, of what its title names.
THEOREM ListsAreConsistent == ClientSpec => []ListConsistent
<1>1. ClientInit => AdminInv
  BY PagesStart, AdminStart
<1>2. AdminInv /\ [ClientNext]_clientVars => AdminInv'
  BY PagesStep, AdminStep
<1> QED BY <1>1, <1>2, AdminInvShows, PTL DEF ClientSpec

\* The editor and the viewer of a program, which share one current program and
\* load its versions and fields separately: form, versions and fields are of the
\* program and the line shown, but for the cases the page leaves open.
THEOREM EditorIsOfCurrent == ClientSpec => []EditorOfCurrent
<1>1. ClientInit => EditorInv
  BY PagesStart, EditorStart
<1>2. EditorInv /\ [ClientNext]_clientVars => EditorInv'
  BY PagesStep, EditorStep
<1> QED BY <1>1, <1>2, EditorInvShows, PTL DEF ClientSpec

\* A description written in the editor is saved to the version it was written for,
\* whatever reloads and deletions change the list under it; only a cancel brings
\* back a text of another version.
THEOREM DescriptionIsOfItsVersion == ClientSpec => []TextOfItsVersion
<1>1. ClientInit => EditorInv
  BY PagesStart, EditorStart
<1>2. EditorInv /\ [ClientNext]_clientVars => EditorInv'
  BY PagesStep, EditorStep
<1> QED BY <1>1, <1>2, EditorInvShows, PTL DEF ClientSpec

\* The session, as one part of the client among the others: a tab acts in the name
\* of the user it shows, and a reload brings back only a user that a tab shows.
THEOREM ClientSessionIntact == ClientSpec => [](SessionIntact /\ StoredUserIsIn)
<1>1. ClientInit => IntactInv
  BY PagesStart, SessionInit_Intact
<1>2. IntactInv /\ [ClientNext]_clientVars => IntactInv'
  BY PagesStep, SessionStep, UsersStep, TabsStep DEF IntactInv
<1>3. IntactInv => SessionIntact /\ StoredUserIsIn
  BY IntactShows
<1> QED BY <1>1, <1>2, <1>3, PTL DEF ClientSpec

=============================================================================
