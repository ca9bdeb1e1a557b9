------------------------------ MODULE FdEvents ------------------------------
(***************************************************************************)
(* The event loop of the sideload server (fdevent.c, the select build).    *)
(* fdevent_process asks the kernel which descriptors are ready for what is *)
(* wanted of them and puts those on a list; then the callbacks of the list *)
(* run one after the other.  A callback changes what is wanted of other    *)
(* descriptors, closes them or opens new ones, those on the list included. *)
(***************************************************************************)
EXTENDS Integers, Sequences, FiniteSets

CONSTANTS
    Fds,      \* descriptors, an initial segment of the naturals
    MaxCalls  \* bound on the fdevent calls one callback makes

ASSUME FdAssumption ==
    0 \in Fds /\ Fds \subseteq Nat /\ IsFiniteSet(Fds) /\ MaxCalls \in Nat

Events == {"read", "write"}

VARIABLES
    active,        \* FDE_ACTIVE: the descriptors in fd_table
    wanted,        \* the events in the state of each
    events,        \* the events found for each and not yet delivered
    list_pending,
    callback       \* the callback that runs: its descriptor, its events, those
                   \* of them not wanted when it began, and the calls it has left

fdVars == <<active, wanted, events, list_pending, callback>>

NoCallback == [fd |-> -1, ev |-> {}, unwanted |-> {}, calls |-> 0]

\* FDE_PENDING.
Pending(fd) == \E i \in DOMAIN list_pending : list_pending[i] = fd

\* The list of the descriptors in S, in increasing order.
InOrder(S) ==
    {s \in [1 .. Cardinality(S) -> S] :
        /\ \A i, j \in DOMAIN s : i < j => s[i] < s[j]
        /\ \A fd \in S : \E i \in DOMAIN s : s[i] = fd}

\* The list s without its i-th element.
Unlinked(s, i) == [j \in 1 .. Len(s) - 1 |-> s[IF j < i THEN j ELSE j + 1]]

\* fdevent_plist_remove.
fdevent_plist_remove(fd) ==
    \E i \in DOMAIN list_pending :
        list_pending[i] = fd /\ list_pending' = Unlinked(list_pending, i)

-----------------------------------------------------------------------------
\* fdevent_process: select reports any part of what is wanted; the descriptors
\* it reports go to the list in increasing order.
Reports == [active -> SUBSET Events]

fdevent_process ==
    /\ callback = NoCallback /\ list_pending = <<>>
    /\ \E found \in Reports :
           /\ \A fd \in active : found[fd] \subseteq wanted[fd]
           /\ \E fd \in active : found[fd] # {}
           /\ events' = [fd \in Fds |-> IF fd \in active THEN events[fd] \cup found[fd] ELSE events[fd]]
           /\ list_pending' \in InOrder({fd \in active : found[fd] # {}})
    /\ UNCHANGED <<active, wanted, callback>>

\* fdevent_loop: the next of the list; fdevent_call_fdfunc.
fdevent_call_fdfunc ==
    /\ callback = NoCallback /\ list_pending # <<>>
    /\ LET fd == Head(list_pending)
       IN  /\ callback' = [fd |-> fd, ev |-> events[fd], unwanted |-> events[fd] \ wanted[fd],
                           calls |-> MaxCalls]
           /\ events' = [events EXCEPT ![fd] = {}]
    /\ list_pending' = Tail(list_pending)
    /\ UNCHANGED <<active, wanted>>

CallbackReturns ==
    /\ callback # NoCallback /\ callback' = NoCallback
    /\ UNCHANGED <<active, wanted, events, list_pending>>

InCallback == callback.calls > 0 /\ callback' = [callback EXCEPT !.calls = @ - 1]

\* fdevent_set, also through fdevent_add and fdevent_del.  A descriptor on the
\* list has the events in the new set struck out, and leaves the list if none
\* remains.
fdevent_set(fd, E) ==
    /\ InCallback /\ fd \in active /\ wanted[fd] # E
    /\ wanted' = [wanted EXCEPT ![fd] = E]
    /\ IF Pending(fd)
       THEN /\ events' = [events EXCEPT ![fd] = @ \ E]
            /\ IF events[fd] \ E = {} THEN fdevent_plist_remove(fd) ELSE UNCHANGED list_pending
       ELSE UNCHANGED <<events, list_pending>>
    /\ UNCHANGED active

\* Mutant: the descriptor stays on the list.
fdevent_remove_Mutant(fd) ==
    /\ InCallback /\ fd \in active /\ active' = active \ {fd}
    /\ events' = [events EXCEPT ![fd] = {}] /\ wanted' = [wanted EXCEPT ![fd] = {}]
    /\ UNCHANGED list_pending

\* fdevent_remove, fdevent_destroy.
fdevent_remove(fd) ==
    /\ InCallback /\ fd \in active /\ active' = active \ {fd}
    /\ events' = [events EXCEPT ![fd] = {}] /\ wanted' = [wanted EXCEPT ![fd] = {}]
    /\ IF Pending(fd) THEN fdevent_plist_remove(fd) ELSE UNCHANGED list_pending

\* fdevent_install, for a new descriptor or the number of one that was closed.
fdevent_install(fd) ==
    /\ InCallback /\ fd \notin active /\ active' = active \cup {fd}
    /\ events' = [events EXCEPT ![fd] = {}] /\ wanted' = [wanted EXCEPT ![fd] = {}]
    /\ UNCHANGED list_pending

-----------------------------------------------------------------------------
\* The registration socket is descriptor 0, wanted for reading from the start.
FdInit ==
    /\ active = {0} /\ wanted = [fd \in Fds |-> IF fd = 0 THEN {"read"} ELSE {}]
    /\ events = [fd \in Fds |-> {}] /\ list_pending = <<>>
    /\ callback = NoCallback

FdNext ==
    \/ fdevent_process \/ fdevent_call_fdfunc \/ CallbackReturns
    \/ \E fd \in Fds : \/ \E E \in SUBSET Events : fdevent_set(fd, E)
                       \/ fdevent_remove(fd) \/ fdevent_install(fd)

FdSpec == FdInit /\ [][FdNext]_fdVars

-----------------------------------------------------------------------------
(***************************************************************************)
(* Properties.                                                             *)
(***************************************************************************)

\* The list holds, once each, exactly the descriptors that have undelivered
\* events, and all of them are open: no callback is called for a descriptor
\* that an earlier callback of the same round has closed, nor for one opened
\* since with the same number.
PendingSound ==
    /\ \A i, j \in DOMAIN list_pending : list_pending[i] = list_pending[j] => i = j
    /\ \A fd \in Fds : Pending(fd) <=> events[fd] # {}
    /\ \A i \in DOMAIN list_pending : list_pending[i] \in active

\* fdevent_set, "if we're pending, make sure we don't signal an event that is
\* no longer wanted": a callback gets only events that are wanted of its
\* descriptor when it is called.  This does not hold: fdevent_set clears the
\* events that are wanted and keeps the others.
OnlyWantedEvents == callback.unwanted = {}

=============================================================================
