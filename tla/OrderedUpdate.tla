--------------------------- MODULE OrderedUpdate ----------------------------
(***************************************************************************)
(* What a restartable update promises: the patches of the package take     *)
(* effect one after the other, each at once and for good, until all are in *)
(* place, however often the installation is interrupted and started again. *)
(***************************************************************************)
EXTENDS Naturals

CONSTANT N           \* number of patches in the package

VARIABLE installed   \* the patches that are in place

Init == installed = {}

Install(i) ==
  /\ installed = 1..(i - 1)
  /\ installed' = 1..i

Next == \E i \in 1..N : Install(i)

Spec == Init /\ [][Next]_installed
=============================================================================
