------------------------------- MODULE MCStores -------------------------------
(***************************************************************************)
(* Finite instances of the stores of the API.                              *)
(***************************************************************************)
EXTENDS ApiStores, TLC

CONSTANTS r1, r2, main, extra

\* One repository, and two in one component.
MCSingle == r1 :> main
MCOneComponent == r1 :> main @@ r2 :> main

\* What metadata says: one artifact, or a name under which nothing is stored, as
\* file name, as storage path, or as both, with the checksum of the first upload or another.
MCGiven ==
    LET artifact == <<main, 1>>
        nothing == <<1>>
    IN  {artifact, nothing} \X {artifact, nothing} \X {1, 2}
===============================================================================
