--------------------------- MODULE MCRecoveryBoot ---------------------------
(***************************************************************************)
(* Instances of RecoveryBoot for TLC.                                      *)
(***************************************************************************)
EXTENDS RecoveryBoot

\* One request per branch of main(), and one that no branch serves.
RequestsAll ==
  {{"update_package", "send_intent"}, {"wipe_data"}, {"wipe_cache", "send_intent"},
   {"show_text"}}

OtaRequests == {{"update_package"}}
CacheRequests == {{"wipe_cache"}}

\* Faults that recovery detects, or whose effect the next boot repairs.
SeenFaults == {"bcb_write", "data_format", "cache_format"}

=============================================================================
