----------------------------- MODULE MCDirectory -----------------------------
(***************************************************************************)
(* Finite instances of Directory: krbtgt and an ordinary account, either   *)
(* of which may be renamed to the other's name.                            *)
(***************************************************************************)
EXTENDS Directory

=============================================================================
