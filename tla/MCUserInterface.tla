-------------------------- MODULE MCUserInterface --------------------------
(***************************************************************************)
(* UserInterface on a small instance: two keys, one that moves the         *)
(* highlight and is a key of the chord, and one that selects.              *)
(***************************************************************************)
EXTENDS UserInterface

MCKeys       == {"down", "select"}
MCMenuAction == [k \in MCKeys |-> k]
MCMotions    == {2}
=============================================================================
