------------------------------ MODULE MCSettings ------------------------------
(***************************************************************************)
(* Finite instances of Settings: two services that can be enabled.         *)
(***************************************************************************)
EXTENDS Settings

MCServices == {"directory", "network"}

=============================================================================
