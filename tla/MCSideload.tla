----------------------------- MODULE MCSideload -----------------------------
(***************************************************************************)
(* The sideload server and its event loop for TLC: a behaviour exercises   *)
(* the one or the other.  The server takes the event loop for what         *)
(* FdEvents shows of it: a callback for every event that is wanted.        *)
(***************************************************************************)
EXTENDS Sideloader, FdEvents

VARIABLE part

Init == part \in {"server", "loop"} /\ SideInit /\ FdInit

Next ==
  /\ UNCHANGED part
  /\ \/ part = "server" /\ SideNext /\ UNCHANGED fdVars
     \/ part = "loop" /\ FdNext /\ UNCHANGED sideVars

Server(A) == part = "server" /\ Running(A)

\* The fairness of Sideloader, for the behaviours that exercise the server.
Fairness ==
  /\ WF_sideVars(Server(transport_registration_func))
  /\ \A t \in T : /\ WF_sideVars(Server(transport_socket_events(t)))
                  /\ WF_sideVars(Server(output_thread(t)))
                  /\ WF_sideVars(Server(input_thread(t)))

Spec == Init /\ [][Next]_<<part, sideVars, fdVars>> /\ Fairness
=============================================================================
