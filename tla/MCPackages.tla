----------------------------- MODULE MCPackages -----------------------------
(***************************************************************************)
(* What recovery and the updater do with a package, for TLC.  The parts    *)
(* run in different processes and share no state that is modelled, so a    *)
(* behaviour exercises one of them: `part' says which.                     *)
(***************************************************************************)
EXTENDS PackageInstall, Retouch, Edify, HashTable

VARIABLE part

partVars == <<pkgVars, rtVars, edifyVars, hashVars>>

\* Five names of which three start at the same slot of a table of 8.
MCHashOf == [i \in Items |-> IF i <= 3 THEN 7 + 8 * i ELSE i]

Init ==
  /\ part \in {"install", "retouch", "edify", "hash"}
  /\ PackageInit /\ RetouchInit /\ EdifyInit /\ HashInit
  /\ part # "retouch" => ~undo /\ offset_of = [i \in Libraries |-> 0]
  /\ part # "edify" => exprs[Len(exprs)].outcome = "text"
  /\ part # "hash" => tableSize = 2

Next ==
  /\ UNCHANGED part
  /\ \/ part = "install" /\ PackageNext /\ UNCHANGED <<rtVars, edifyVars, hashVars>>
     \/ part = "retouch" /\ RetouchNext /\ UNCHANGED <<pkgVars, edifyVars, hashVars>>
     \/ part = "edify" /\ EdifyNext /\ UNCHANGED <<pkgVars, rtVars, hashVars>>
     \/ part = "hash" /\ HashNext /\ UNCHANGED <<pkgVars, rtVars, edifyVars>>

Spec == Init /\ [][Next]_<<part, partVars>>
=============================================================================
