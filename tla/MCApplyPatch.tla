---------------------------- MODULE MCApplyPatch ----------------------------
(* Scripts to model-check ApplyPatch with. *)
EXTENDS ApplyPatch

\* A file, a partition, and a file patched to another place.
EveryKind == <<"inplace", "emmc", "elsewhere">>

OneFile == <<"inplace">>
=============================================================================
