--------------------------- MODULE VersionHistory ---------------------------
(***************************************************************************)
(* What the program page promises about the history of one program,        *)
(* whatever the server does to keep it: a set of files, each kept under a  *)
(* version name, and one current version.  Each operation happens at once. *)
(***************************************************************************)
EXTENDS Naturals

CONSTANTS
  Version,    \* version names
  NoVersion   \* no current version

VARIABLES
  held,       \* the files kept: [id, version]
  current     \* the current version, NoVersion when nothing is held

Entry == [id : Nat, version : Version]

Names(es) == {e.version : e \in es}

(* The version of the last file added, NoVersion when there is none. *)
LastAdded(es) ==
  IF es = {} THEN NoVersion
  ELSE (CHOOSE e \in es : \A g \in es : g.id <= e.id).version

HInit ==
  /\ held \subseteq Entry
  /\ current \in Names(held) \cup {NoVersion}
  /\ held # {} => current # NoVersion

(* Files added under one name make that name current. *)
Publish ==
  \E v \in Version :
    /\ held \subseteq held'
    /\ held' # held
    /\ \A e \in held' \ held : e.version = v /\ \A g \in held : g.id < e.id
    /\ current' = v

(* A version that has files can be made current. *)
Activate ==
  /\ current' \in Names(held)
  /\ UNCHANGED held

(* Deleting a file keeps the current version as long as it has files, and   *)
(* falls back to the version of the last file added when it has none.       *)
Remove ==
  \E e \in held :
    /\ held' = held \ {e}
    /\ current' = IF current \in Names(held') THEN current ELSE LastAdded(held')

(* Deleting the program deletes its history. *)
Drop ==
  /\ held' = {}
  /\ current' = NoVersion

HNext == Publish \/ Activate \/ Remove \/ Drop

HSpec == HInit /\ [][HNext]_<<held, current>>
=============================================================================
