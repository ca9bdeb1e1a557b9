----------------------------- MODULE Sideloader -----------------------------
(***************************************************************************)
(* The sideload server (src/sideloader): a cut-down adbd.  The USB device  *)
(* is opened by a thread of its own, and each time it is, a transport is   *)
(* registered with two threads: the output thread carries packets from the *)
(* USB device to the main loop, the input thread those of the main loop to *)
(* the device.  The main loop opens a service for the host, which writes   *)
(* the package to a file and ends the process.  When the cable is pulled   *)
(* the transport winds down while the next one may already be starting.    *)
(*                                                                         *)
(* A session is one opening of the device; its transport, its local socket *)
(* and its service thread have its number.  A host opens at most one       *)
(* service in a session.  A packet carries one block of the session's      *)
(* package: queues belong to a session, so they hold only the number of    *)
(* the block, but the file is shared and its blocks have an origin too.    *)
(***************************************************************************)
EXTENDS Integers, Sequences

CONSTANTS
    MaxSessions,  \* bound on the openings of the device
    Blocks,       \* blocks of the package
    Openers,      \* sessions in which the host opens the service
    Room          \* packets a transport's socket pair holds

ASSUME SideloaderAssumption ==
    /\ MaxSessions \in Nat \ {0} /\ Blocks \in Nat \ {0} /\ Room \in Nat \ {0}
    /\ Openers \subseteq 1 .. MaxSessions

VARIABLES
    usb_fd,        \* the session whose device is open, 0 for -1
    opener,        \* where usb_open_thread is
    sessions,      \* devices opened so far
    registration,  \* messages to transport_registration_func
    ref_count, kicked, connection,
    alive,         \* per transport: "none", "up", "freed"
    out, in,       \* where the two threads are
    to_main,       \* packets for the main loop, by transport
    to_remote,     \* packets for the input thread, by transport
    socket,        \* local sockets: "none", "open", "closing", "gone"
    peer,          \* per socket: 1 if its remote socket exists
    backlog,       \* per socket: packets not yet written to the service
    reading,       \* per socket: 1 if FDE_READ is wanted
    service,       \* where the service thread is
    pipe,          \* the block in the service's socket pair, 0: none
    reply,         \* what the service wrote back: "none", "OKAY", "FAIL", "sent"
    offset,        \* blocks the service has written
    file,          \* the blocks of the file, 0 for one that is missing
    origin,        \* per block of the file: the session whose package it is of, or 0
    writer,        \* history: the service that created the file last
    intruders,     \* history: the other services that have written to it since
    process,       \* "up", "exited" or "died"
    wire,          \* the packet on its way from the host
    host,          \* what the host waits for or does next
    sent           \* blocks the host has sent

usbVars     == <<usb_fd, opener, sessions>>
threadVars  == <<out, in>>
refVars     == <<ref_count, kicked>>
socketVars  == <<socket, peer, backlog, reading>>
fileVars    == <<file, origin, writer, intruders>>
serviceVars == <<service, pipe, reply, offset, fileVars>>
hostVars    == <<wire, host, sent>>
sideVars    == <<usbVars, registration, refVars, connection, alive, threadVars, to_main,
                 to_remote, socketVars, serviceVars, process, hostVars>>

T == 1 .. MaxSessions

Packet(c, n)   == [cmd |-> c, n |-> n]
Set(f, t, v)   == [f EXCEPT ![t] = v]

\* A tmsg: action 1 registers a transport, action 0 removes it.
Message(action, t) == [action |-> action, transport |-> t]

-----------------------------------------------------------------------------
(***************************************************************************)
(* The device and the transports.                                          *)
(***************************************************************************)
\* usb_open_thread: waits until the device is closed, opens it, registers.
usb_open_thread ==
    /\ \/ /\ opener = "wait" /\ usb_fd = 0 /\ sessions < MaxSessions
          /\ sessions' = sessions + 1 /\ usb_fd' = sessions + 1
          /\ opener' = "register" /\ UNCHANGED registration
       \/ /\ opener = "register" /\ opener' = "wait"
          /\ registration' = Append(registration, Message(1, sessions))
          /\ UNCHANGED <<usb_fd, sessions>>
    /\ UNCHANGED <<refVars, connection, alive, threadVars, to_main, to_remote, socketVars,
                   serviceVars, process, hostVars>>

\* Mutant: the test of kicked is dropped.
Kick_Mutant(t, pc) == kicked' = Set(kicked, t, 1) /\ pc' = Set(pc, t, "usb_kick")

\* kick_transport: whoever sets kicked closes the device, after the lock.
Kick(t, pc) ==
    /\ kicked' = Set(kicked, t, 1)
    /\ pc' = Set(pc, t, IF kicked[t] = 1 THEN "unref" ELSE "usb_kick")

\* Mutant: the transport goes with the first thread.
Unref_Mutant(t) ==
    /\ ref_count' = Set(ref_count, t, ref_count[t] - 1)
    /\ registration' = IF ref_count[t] = 2 THEN Append(registration, Message(0, t)) ELSE registration

\* transport_unref: the last one asks the main loop to remove the transport.
Unref(t) ==
    /\ ref_count' = Set(ref_count, t, ref_count[t] - 1)
    /\ registration' = IF ref_count[t] = 1 THEN Append(registration, Message(0, t)) ELSE registration

\* The end of both threads: kick_transport, usb_kick, transport_unref.
WindDown(t, pc) ==
    \/ /\ pc[t] = "kick" /\ Kick(t, pc)
       /\ UNCHANGED <<usb_fd, ref_count, registration>>
    \/ /\ pc[t] = "usb_kick" /\ usb_fd' = 0 /\ pc' = Set(pc, t, "unref")
       /\ UNCHANGED <<kicked, ref_count, registration>>
    \/ /\ pc[t] = "unref" /\ Unref(t) /\ pc' = Set(pc, t, "gone")
       /\ UNCHANGED <<kicked, usb_fd>>

OutputSends(t, p) == Len(to_main[t]) < Room /\ to_main' = Set(to_main, t, Append(to_main[t], p))

\* output_thread: SYNC(1, token), then packets until a read fails, then
\* SYNC(0, 0).  The writes block while the socket pair is full.
OutputSync(t) ==
    /\ out[t] = "sync" /\ OutputSends(t, Packet("SYNC", 1)) /\ out' = Set(out, t, "read")
    /\ UNCHANGED wire

\* remote_read: a packet, or a failure: the cable is out or a packet was bad
\* (check_header, check_data), which ends the session just the same.
OutputRead(t) ==
    /\ out[t] = "read"
    /\ \/ /\ wire[t] # <<>> /\ OutputSends(t, wire[t][1])
          /\ wire' = Set(wire, t, <<>>) /\ UNCHANGED out
       \/ /\ host[t] = "unplugged"
          /\ out' = Set(out, t, "offline") /\ wire' = Set(wire, t, <<>>)
          /\ UNCHANGED to_main

\* Mutant: SYNC(0, 0) is dropped when the socket pair is full.
OutputOffline_Mutant(t) ==
    /\ out[t] = "offline" /\ out' = Set(out, t, "kick") /\ UNCHANGED wire
    /\ IF Len(to_main[t]) < Room THEN OutputSends(t, Packet("SYNC", 0)) ELSE UNCHANGED to_main

OutputOffline(t) ==
    /\ out[t] = "offline" /\ OutputSends(t, Packet("SYNC", 0)) /\ out' = Set(out, t, "kick")
    /\ UNCHANGED wire

output_thread(t) ==
    /\ \/ /\ OutputSync(t) \/ OutputRead(t) \/ OutputOffline(t)
          /\ UNCHANGED <<usb_fd, refVars, registration>>
       \/ WindDown(t, out) /\ UNCHANGED <<to_main, wire>>
    /\ UNCHANGED <<opener, sessions, connection, alive, in, to_remote, socketVars, serviceVars,
                   process, host, sent>>

\* What the host does with a packet of its session.
HostGets(t, p) ==
    host' = Set(host, t,
        CASE host[t] = "cnxn" /\ p.cmd = "CNXN"                -> "open"
          [] host[t] = "opened" /\ p.cmd = "OKAY"              -> "write"
          [] host[t] \in {"opened", "wait"} /\ p.cmd = "CLSE"  -> "closed"
          [] host[t] = "wait" /\ p.cmd = "OKAY" /\ sent[t] < Blocks -> "write"
          [] host[t] = "wait" /\ p.cmd = "WRTE"                -> "accept"
          [] OTHER                                             -> host[t])

\* input_thread: nothing goes to the device before SYNC(1), SYNC(0) ends it.
\* What it writes after the device was opened anew goes to the new session,
\* whose host does not know the socket.
InputRead(t) ==
    /\ in[t] \in {"inactive", "active"} /\ to_remote[t] # <<>>
    /\ LET p == Head(to_remote[t])
       IN  /\ in' = Set(in, t, IF p.cmd # "SYNC" THEN in[t]
                               ELSE IF p.n = 0 THEN "close_all" ELSE "active")
           /\ IF p.cmd # "SYNC" /\ in[t] = "active" /\ usb_fd = t
              THEN HostGets(t, p) ELSE UNCHANGED host
    /\ to_remote' = Set(to_remote, t, Tail(to_remote[t]))
    /\ UNCHANGED <<socketVars, usb_fd, refVars, registration>>

-----------------------------------------------------------------------------
(***************************************************************************)
(* Sockets.  A packet for the remote goes through the transport's socket   *)
(* pair; if that is full the process dies.                                 *)
(***************************************************************************)
Send(t, ps) ==
    IF Len(to_remote[t]) + Len(ps) <= Room
    THEN to_remote' = Set(to_remote, t, to_remote[t] \o ps) /\ UNCHANGED process
    ELSE process' = "died" /\ UNCHANGED to_remote

\* local_socket_close_locked without its peer: what is not written yet is kept
\* and written later, unless the socket was closing already.
LocalClose(t) ==
    /\ peer' = Set(peer, t, 0)
    /\ IF socket[t] = "closing" \/ backlog[t] = <<>>
       THEN /\ socket' = Set(socket, t, "gone") /\ backlog' = Set(backlog, t, <<>>)
       ELSE /\ socket' = Set(socket, t, "closing") /\ UNCHANGED backlog
    /\ reading' = Set(reading, t, 0)

\* With its peer: remote_socket_close tells the host.
Closing(t) == IF peer[t] = 1 THEN <<Packet("CLSE", 0)>> ELSE <<>>

\* input_thread's close_all_sockets: the sockets of this transport.
InputCloseAll(t) ==
    /\ in[t] = "close_all" /\ in' = Set(in, t, "kick")
    /\ IF socket[t] = "open" /\ peer[t] = 1
       THEN LocalClose(t) /\ to_remote' = Set(to_remote, t, Append(to_remote[t], Packet("CLSE", 0)))
       ELSE UNCHANGED <<socketVars, to_remote>>
    /\ UNCHANGED <<host, usb_fd, refVars, registration>>

input_thread(t) ==
    /\ \/ InputRead(t)
       \/ InputCloseAll(t)
       \/ WindDown(t, in) /\ UNCHANGED <<to_remote, host, socketVars>>
    /\ UNCHANGED <<opener, sessions, connection, alive, out, to_main, serviceVars, process, wire, sent>>

-----------------------------------------------------------------------------
(***************************************************************************)
(* The main loop, which is single threaded: one event at a time.           *)
(***************************************************************************)
\* transport_registration_func.  Removing a transport closes what is left of
\* its remote sockets.
transport_registration_func ==
    /\ registration # <<>> /\ registration' = Tail(registration)
    /\ LET t == Head(registration).transport
       IN  \/ /\ Head(registration).action = 1
              /\ alive' = Set(alive, t, "up") /\ ref_count' = Set(ref_count, t, 2)
              /\ out' = Set(out, t, "sync") /\ in' = Set(in, t, "inactive")
              /\ UNCHANGED socketVars
           \/ /\ Head(registration).action = 0
              /\ alive' = Set(alive, t, "freed")
              /\ IF peer[t] = 1 THEN LocalClose(t) ELSE UNCHANGED socketVars
              /\ UNCHANGED <<ref_count, threadVars>>
    /\ UNCHANGED <<usbVars, kicked, connection, to_main, to_remote, serviceVars, process, hostVars>>

\* run_transport_disconnects: remote_socket_disconnect for the remote socket.
Disconnect(t) == IF peer[t] = 1 THEN LocalClose(t) ELSE UNCHANGED socketVars

NoService == UNCHANGED serviceVars

\* Mutant: going offline leaves the sockets to the input thread.
HandleSync_Mutant(t, p) ==
    /\ p.cmd = "SYNC" /\ Send(t, <<p>>) /\ NoService
    /\ connection' = IF p.n = 1 THEN connection ELSE Set(connection, t, "offline")
    /\ UNCHANGED socketVars

HandleSync(t, p) ==
    /\ p.cmd = "SYNC" /\ Send(t, <<p>>) /\ NoService
    /\ \/ p.n = 1 /\ UNCHANGED <<connection, socketVars>>
       \/ p.n = 0 /\ connection' = Set(connection, t, "offline") /\ Disconnect(t)

HandleConnect(t, p) ==
    /\ p.cmd = "CNXN"
    /\ IF connection[t] = "online" THEN Disconnect(t) ELSE UNCHANGED socketVars
    /\ connection' = Set(connection, t, "online")
    /\ Send(t, <<p>>) /\ NoService

\* OPEN starts the service and its socket; for other names, or if that fails,
\* it answers with CLSE.
HandleOpen(t, p) ==
    /\ p.cmd = "OPEN" /\ connection[t] = "online"
    /\ \/ /\ service' = Set(service, t, "create")
          /\ socket' = Set(socket, t, "open") /\ peer' = Set(peer, t, 1)
          /\ reading' = Set(reading, t, 1)
          /\ Send(t, <<Packet("OKAY", 0)>>) /\ UNCHANGED backlog
       \/ Send(t, <<Packet("CLSE", 0)>>) /\ UNCHANGED <<socketVars, service>>
    /\ UNCHANGED <<connection, pipe, reply, offset, fileVars>>

\* local_socket_ready.
HandleOkay(t, p) ==
    /\ p.cmd = "OKAY" /\ connection[t] = "online" /\ socket[t] = "open"
    /\ reading' = Set(reading, t, 1)
    /\ NoService /\ UNCHANGED <<connection, socket, peer, backlog, to_remote, process>>

HandleClose(t, p) ==
    /\ p.cmd = "CLSE" /\ connection[t] = "online" /\ socket[t] = "open"
    /\ Send(t, Closing(t)) /\ LocalClose(t)
    /\ NoService /\ UNCHANGED connection

\* The service has not closed its end.
ServiceOpen(t) == service[t] \in {"create", "read", "finish"}

\* local_socket_enqueue: written at once if nothing waits and there is room,
\* and then the host may go on; queued otherwise; a failed write closes.
HandleWrite(t, p) ==
    /\ p.cmd = "WRTE" /\ connection[t] = "online" /\ socket[t] = "open"
    /\ \/ /\ backlog[t] = <<>> /\ ServiceOpen(t) /\ pipe[t] = 0
          /\ pipe' = Set(pipe, t, p.n) /\ Send(t, <<Packet("OKAY", 0)>>)
          /\ UNCHANGED socketVars
       \/ /\ backlog[t] # <<>> \/ (ServiceOpen(t) /\ pipe[t] # 0)
          /\ backlog' = Set(backlog, t, Append(backlog[t], p.n))
          /\ UNCHANGED <<pipe, socket, peer, reading, to_remote, process>>
       \/ /\ backlog[t] = <<>> /\ ~ServiceOpen(t)
          /\ Send(t, Closing(t)) /\ LocalClose(t) /\ UNCHANGED pipe
    /\ UNCHANGED <<connection, service, reply, offset, fileVars>>

\* Packets of a transport that is offline, or for a socket that is not in the
\* list, are dropped.
HandleDropped(t, p) ==
    /\ p.cmd \in {"OPEN", "OKAY", "CLSE", "WRTE"}
    /\ connection[t] = "offline" \/ (p.cmd # "OPEN" /\ socket[t] # "open")
    /\ NoService /\ UNCHANGED <<connection, socketVars, to_remote, process>>

handle_packet(t, p) ==
    \/ HandleSync(t, p) \/ HandleConnect(t, p) \/ HandleOpen(t, p) \/ HandleOkay(t, p)
    \/ HandleClose(t, p) \/ HandleWrite(t, p) \/ HandleDropped(t, p)

transport_socket_events(t) ==
    /\ alive[t] = "up" /\ to_main[t] # <<>>
    /\ handle_packet(t, Head(to_main[t]))
    /\ to_main' = Set(to_main, t, Tail(to_main[t]))
    /\ UNCHANGED <<usbVars, registration, refVars, alive, threadVars, hostVars>>

\* local_socket_event_func, FDE_WRITE: the backlog goes to the service; then a
\* closing socket is destroyed, an open one lets the host go on.
SocketWrite(t) ==
    /\ socket[t] \in {"open", "closing"} /\ backlog[t] # <<>>
    /\ \/ /\ ServiceOpen(t) /\ pipe[t] = 0
          /\ pipe' = Set(pipe, t, Head(backlog[t]))
          /\ \/ /\ Len(backlog[t]) > 1
                /\ backlog' = Set(backlog, t, Tail(backlog[t]))
                /\ UNCHANGED <<socket, peer, reading, to_remote, process>>
             \/ /\ Len(backlog[t]) = 1 /\ socket[t] = "closing" /\ LocalClose(t)
                /\ UNCHANGED <<to_remote, process>>
             \/ /\ Len(backlog[t]) = 1 /\ socket[t] = "open"
                /\ backlog' = Set(backlog, t, <<>>)
                /\ Send(t, <<Packet("OKAY", 0)>>) /\ UNCHANGED <<socket, peer, reading>>
       \/ /\ ~ServiceOpen(t)
          /\ Send(t, Closing(t)) /\ LocalClose(t) /\ UNCHANGED pipe
    /\ UNCHANGED <<service, reply, offset, fileVars>>

\* FDE_READ: the service's answer goes to the host, and its end closes the
\* socket, in the same event or in a later one.
SocketRead(t) ==
    /\ socket[t] = "open" /\ reading[t] = 1
    /\ \/ /\ reply[t] \in {"OKAY", "FAIL"} /\ reply' = Set(reply, t, "sent")
          /\ \/ Send(t, <<Packet("WRTE", 0)>>) /\ reading' = Set(reading, t, 0)
                /\ UNCHANGED <<socket, peer, backlog>>
             \/ /\ service[t] \in {"sleep", "done"}
                /\ Send(t, <<Packet("WRTE", 0)>> \o Closing(t)) /\ LocalClose(t)
       \/ /\ reply[t] \in {"none", "sent"} /\ service[t] \in {"sleep", "done"}
          /\ Send(t, Closing(t)) /\ LocalClose(t) /\ UNCHANGED reply
    /\ UNCHANGED <<service, pipe, offset, fileVars>>

local_socket_event_func(t) ==
    /\ SocketWrite(t) \/ SocketRead(t)
    /\ UNCHANGED <<usbVars, registration, refVars, connection, alive, threadVars, to_main, hostVars>>

-----------------------------------------------------------------------------
(***************************************************************************)
(* sideload_service.                                                       *)
(***************************************************************************)
NoFile == [i \in 1 .. Blocks |-> 0]

\* creat() truncates the file even when another service has it open.
ServiceCreate(t) ==
    /\ service[t] = "create"
    /\ \/ /\ file' = NoFile /\ origin' = NoFile /\ writer' = t /\ intruders' = {}
          /\ service' = Set(service, t, "read")
       \/ service' = Set(service, t, "done") /\ UNCHANGED fileVars
    /\ UNCHANGED <<pipe, reply, offset>>

\* writex: the block goes to where the service's own descriptor stands.
FileWrite(t) ==
    /\ file' = Set(file, offset[t] + 1, pipe[t]) /\ origin' = Set(origin, offset[t] + 1, t)
    /\ intruders' = IF t = writer THEN intruders ELSE intruders \cup {t}
    /\ UNCHANGED writer

\* Mutant: a block that could not be written is counted.
ServiceRead_Mutant(t) ==
    /\ service[t] = "read" /\ pipe[t] # 0 /\ pipe' = Set(pipe, t, 0)
    /\ offset' = Set(offset, t, offset[t] + 1)
    /\ FileWrite(t) \/ UNCHANGED fileVars
    /\ service' = Set(service, t, IF offset[t] + 1 = Blocks THEN "finish" ELSE "read")
    /\ UNCHANGED reply

\* A block goes to the file; reading ends when all are there, when the socket is
\* closed, or when the file cannot be written.
ServiceRead(t) ==
    /\ service[t] = "read"
    /\ \/ /\ pipe[t] # 0 /\ pipe' = Set(pipe, t, 0)
          /\ \/ /\ FileWrite(t)
                /\ offset' = Set(offset, t, offset[t] + 1)
                /\ service' = Set(service, t, IF offset[t] + 1 = Blocks THEN "finish" ELSE "read")
             \/ service' = Set(service, t, "finish") /\ UNCHANGED <<fileVars, offset>>
       \/ /\ pipe[t] = 0 /\ socket[t] = "gone"
          /\ service' = Set(service, t, "finish") /\ UNCHANGED <<pipe, fileVars, offset>>
    /\ UNCHANGED reply

\* The answer; only after all blocks the process ends.
ServiceFinish(t) ==
    /\ service[t] = "finish"
    /\ reply' = Set(reply, t, IF offset[t] = Blocks THEN "OKAY" ELSE "FAIL")
    /\ service' = Set(service, t, IF offset[t] = Blocks THEN "sleep" ELSE "done")
    /\ pipe' = Set(pipe, t, 0)
    /\ UNCHANGED <<offset, fileVars>>

sideload_service(t) ==
    /\ ServiceCreate(t) \/ ServiceRead(t) \/ ServiceFinish(t)
    /\ UNCHANGED <<usbVars, registration, refVars, connection, alive, threadVars, to_main,
                   to_remote, socketVars, process, hostVars>>

ServiceExit(t) ==
    /\ service[t] = "sleep" /\ process' = "exited"
    /\ UNCHANGED <<usbVars, registration, refVars, connection, alive, threadVars, to_main,
                   to_remote, socketVars, serviceVars, hostVars>>

-----------------------------------------------------------------------------
(***************************************************************************)
(* The host: connects, opens the service, sends the blocks one at a time,  *)
(* and takes the answer.  It may give up, and the cable may be pulled.     *)
(***************************************************************************)
HostSends(t, p, next) ==
    wire[t] = <<>> /\ wire' = Set(wire, t, <<p>>) /\ host' = Set(host, t, next)

Host(t) ==
    /\ \/ host[t] = "new" /\ usb_fd = t /\ HostSends(t, Packet("CNXN", 0), "cnxn") /\ UNCHANGED sent
       \/ host[t] = "open" /\ t \in Openers /\ HostSends(t, Packet("OPEN", 0), "opened") /\ UNCHANGED sent
       \/ /\ host[t] = "write" /\ HostSends(t, Packet("WRTE", sent[t] + 1), "wait")
          /\ sent' = Set(sent, t, sent[t] + 1)
       \/ host[t] = "accept" /\ HostSends(t, Packet("OKAY", 0), "wait") /\ UNCHANGED sent
       \/ /\ host[t] \in {"write", "wait"} /\ HostSends(t, Packet("CLSE", 0), "closed")
          /\ UNCHANGED sent
       \/ /\ host[t] # "unplugged" /\ usb_fd = t /\ host' = Set(host, t, "unplugged")
          /\ UNCHANGED <<wire, sent>>
    /\ UNCHANGED <<usbVars, registration, refVars, connection, alive, threadVars, to_main,
                   to_remote, socketVars, serviceVars, process>>

-----------------------------------------------------------------------------
SideInit ==
    /\ usb_fd = 0 /\ opener = "wait" /\ sessions = 0 /\ registration = <<>>
    /\ ref_count = [t \in T |-> 0] /\ kicked = [t \in T |-> 0]
    /\ connection = [t \in T |-> "offline"] /\ alive = [t \in T |-> "none"]
    /\ out = [t \in T |-> "none"] /\ in = [t \in T |-> "none"]
    /\ to_main = [t \in T |-> <<>>] /\ to_remote = [t \in T |-> <<>>]
    /\ socket = [t \in T |-> "none"] /\ peer = [t \in T |-> 0]
    /\ backlog = [t \in T |-> <<>>] /\ reading = [t \in T |-> 0]
    /\ service = [t \in T |-> "none"] /\ pipe = [t \in T |-> 0]
    /\ reply = [t \in T |-> "none"] /\ offset = [t \in T |-> 0]
    /\ file = NoFile /\ origin = NoFile /\ writer = 0 /\ intruders = {} /\ process = "up"
    /\ wire = [t \in T |-> <<>>] /\ host = [t \in T |-> "new"] /\ sent = [t \in T |-> 0]

MainLoop ==
    \/ transport_registration_func
    \/ \E t \in T : transport_socket_events(t) \/ local_socket_event_func(t)

SideNext ==
    /\ process = "up"
    /\ \/ usb_open_thread
       \/ MainLoop
       \/ \E t \in T : output_thread(t) \/ input_thread(t)
       \/ \E t \in T : sideload_service(t) \/ ServiceExit(t) \/ Host(t)

SideSpec == SideInit /\ [][SideNext]_sideVars

Running(A) == process = "up" /\ A

\* Every thread goes on while it can.
SideFairness ==
    /\ WF_sideVars(Running(transport_registration_func))
    /\ \A t \in T : /\ WF_sideVars(Running(transport_socket_events(t)))
                    /\ WF_sideVars(Running(output_thread(t)))
                    /\ WF_sideVars(Running(input_thread(t)))

-----------------------------------------------------------------------------
(***************************************************************************)
(* Properties.                                                             *)
(***************************************************************************)

\* The device that is open belongs to a transport that nobody has kicked, and
\* only such a transport's thread is about to close it: a late kick of an old
\* transport never closes the device of the new one.
KicksOwnDevice ==
    /\ usb_fd # 0 => (kicked[usb_fd] = 1 => "usb_kick" \in {out[usb_fd], in[usb_fd]})
    /\ \A t \in T : "usb_kick" \in {out[t], in[t]} => usb_fd = t /\ out[t] # in[t]

\* A transport is removed once and after both its threads: when its memory is
\* freed no thread still runs on it, and no local socket has a remote socket
\* on it ("The transport will not actually be closed until both threads exit").
FreedUnused ==
    \A t \in T :
        /\ alive[t] = "freed" => out[t] = "gone" /\ in[t] = "gone" /\ peer[t] = 0
        /\ \A i, j \in DOMAIN registration :
               registration[i] = Message(0, t) /\ registration[j] = Message(0, t) => i = j
        /\ alive[t] = "freed" => \A i \in DOMAIN registration : registration[i].transport # t

\* close_all_sockets, which the input thread runs beside the main loop, finds
\* no socket to close: the main loop has disconnected them all when it passed
\* SYNC(0) on.  Sockets, their queues and their events are therefore touched by
\* the main loop only, though find_local_socket gives up its lock before the
\* socket it returns is used.
CloseAllFindsNone ==
    \A t \in T : in[t] = "close_all" => ~(socket[t] = "open" /\ peer[t] = 1)

\* When the service reports success and ends the process, the file it created
\* holds every block in its place, whatever went through the backlog, and a
\* block that is not of its own session's package was written by a service
\* that still runs from another session (creat() gives both the same inode).
\* A service whose file another one has truncated since is left out.
WholeFile ==
    \A t \in T : service[t] = "sleep" /\ writer = t =>
        \A i \in 1 .. Blocks : file[i] = i /\ (origin[i] = t \/ origin[i] \in intruders)

\* services.c 77, "adbd exiting after successful sideload": when the process
\* ends, the file is the whole package of one session.
ExitedWhole ==
    process = "exited" => \E t \in T : \A i \in 1 .. Blocks : file[i] = i /\ origin[i] = t

\* Pulling the cable (or a garbled packet) ends in the transport's removal,
\* unless the process itself ends.
UnplugFrees ==
    \A t \in T : (out[t] = "offline") ~> (alive[t] = "freed" \/ process # "up")

=============================================================================
