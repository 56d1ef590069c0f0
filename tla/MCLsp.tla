--------------------------------- MODULE MCLsp ---------------------------------
(***************************************************************************)
(* Instances of Lsp for TLC.  Calls: what the schemas of write and edit    *)
(* ask for; the same calls with the field path besides; and bash, which    *)
(* has neither.                                                            *)
(***************************************************************************)
EXTENDS Lsp

Call(file, other) == [file_path |-> file, path |-> other]

AllCalls == {Call(n, None) : n \in Names} \cup {Call(n, n) : n \in Names}
                \cup {Call(None, None)}
================================================================================
