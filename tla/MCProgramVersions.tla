------------------------- MODULE MCProgramVersions -------------------------
(***************************************************************************)
(* Small instances of ProgramVersions: which client calls what.            *)
(***************************************************************************)
EXTENDS ProgramVersions

CONSTANTS a, b, c    \* the request slots

(* Two editors publish, activate and delete files while a third activates   *)
(* or deletes the program.                                                  *)
MayEdit == [r \in {a, b, c} |->
  CASE r = a -> {"upload", "activate"}
    [] r = b -> {"upload", "deleteFile"}
    [] OTHER -> {"activate", "deleteProgram"}]

(* Two slots delete files while a third uploads. *)
MayDeleteTwice == [r \in {a, b, c} |->
  IF r = a THEN {"upload"} ELSE {"deleteFile"}]

(* Files without version rows are edited. *)
MayLegacy == [r \in {a, b} |-> {"upload", "deleteFile", "activate"}]

(* The program is deleted during an upload. *)
MayDeleteProgram == [r \in {a, b} |->
  IF r = a THEN {"upload"} ELSE {"deleteProgram"}]

(* Version rows are created by hand while another client edits. *)
MayCreate == [r \in {a, b} |->
  IF r = a THEN {"createVersion"} ELSE {"upload", "deleteFile"}]

(* Every operation, spread over three clients. *)
MayAll == [r \in {a, b, c} |->
  CASE r = a -> {"upload", "activate"}
    [] r = b -> {"createVersion", "deleteFile"}
    [] OTHER -> {"deleteProgram"}]
=============================================================================
