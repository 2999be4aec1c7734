---------------------------- MODULE MCMigrations ----------------------------
(***************************************************************************)
(* Finite instances of Migrations: two hosts that start together.          *)
(***************************************************************************)
EXTENDS Migrations

=============================================================================
