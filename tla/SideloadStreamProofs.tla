------------------------ MODULE SideloadStreamProofs ------------------------
(***************************************************************************)
(* For any number of sessions, any package length and any room in the      *)
(* queues: what is transmitted in a session reaches the file in order and  *)
(* as a whole, and nothing is left to be done for a transport when it is   *)
(* closed.                                                                 *)
(*                                                                         *)
(* The host and the server pass one turn between them: the host has it     *)
(* until it sends OPEN or a block, and gets it back with the OKAY that the *)
(* server sends for it.  Blocks therefore arrive one at a time and in      *)
(* order, also through the backlog.                                        *)
(***************************************************************************)
EXTENDS SideloaderProofs

Commands == {"SYNC", "CNXN", "OPEN", "OKAY", "CLSE", "WRTE"}
Packets  == [cmd : Commands, n : Nat]

\* Some packet of s is in P, at most one is, none but the last is.
Holds(s, P)     == \E i \in 1 .. Len(s) : s[i] \in P
AtMostOne(s, P) == \A i, j \in 1 .. Len(s) : s[i] \in P /\ s[j] \in P => i = j
LastOnly(s, P)  == \A i \in 1 .. Len(s) : s[i] \in P => i = Len(s)

Offs     == {p \in Packets : p.cmd = "SYNC" /\ p.n = 0}
Opens    == {p \in Packets : p.cmd = "OPEN"}
Writes   == {p \in Packets : p.cmd = "WRTE"}
Wrong(n) == {p \in Packets : p.cmd = "WRTE" /\ p.n # n}
Okays    == {p \in Packets : p.cmd = "OKAY"}
Claims   == {p \in Packets : p.cmd \in {"OPEN", "WRTE"}}

HostStates    == {"new", "cnxn", "open", "opened", "write", "wait", "accept", "closed", "unplugged"}
ServiceStates == {"none", "create", "read", "finish", "sleep", "done"}
SocketStates  == {"none", "open", "closing", "gone"}

StreamTypeOK ==
    /\ to_main \in [T -> Seq(Packets)] /\ to_remote \in [T -> Seq(Packets)]
    /\ wire \in [T -> Seq(Packets)] /\ host \in [T -> HostStates] /\ sent \in [T -> Nat]
    /\ service \in [T -> ServiceStates] /\ pipe \in [T -> Nat] /\ offset \in [T -> Nat]
    /\ backlog \in [T -> Seq(Nat)] /\ socket \in [T -> SocketStates]
    /\ peer \in [T -> {0, 1}] /\ out \in [T -> ThreadPcs] /\ in \in [T -> ThreadPcs]
    /\ file \in [1 .. Blocks -> Nat]

\* The threads' states after SYNC(0, 0) has been sent or received.
Ended == {"kick", "usb_kick", "unref", "gone"}

\* SYNC(0, 0) is the last packet a transport carries; once the main loop has
\* passed it on no packet is left for the main loop and no remote socket.
CloseInv(t) ==
    /\ LastOnly(to_main[t], Offs) /\ ~Holds(wire[t], Offs)
    /\ Holds(to_main[t], Offs) => out[t] \in Ended
    /\ in[t] \in {"close_all"} \cup Ended \/ Holds(to_remote[t], Offs) =>
           out[t] \in Ended /\ to_main[t] = <<>> /\ peer[t] = 0

HostHasTurn(t) == host[t] \in {"new", "cnxn", "open", "write"}

\* One turn: the host has it, or it is on the wire, in the queue of the main
\* loop, in the backlog or on its way back; or it is lost.
TurnInv(t) ==
    /\ Len(wire[t]) <= 1 /\ Len(backlog[t]) <= 1
    /\ AtMostOne(to_main[t], Claims) /\ AtMostOne(to_remote[t], Okays)
    /\ HostHasTurn(t) => /\ ~Holds(wire[t], Claims) /\ ~Holds(to_main[t], Claims)
                         /\ backlog[t] = <<>> /\ ~Holds(to_remote[t], Okays)
    /\ Holds(wire[t], Claims) => /\ ~Holds(to_main[t], Claims)
                                 /\ backlog[t] = <<>> /\ ~Holds(to_remote[t], Okays)
    /\ Holds(to_main[t], Claims) => backlog[t] = <<>> /\ ~Holds(to_remote[t], Okays)
    /\ backlog[t] # <<>> => ~Holds(to_remote[t], Okays)

\* The blocks that have reached the service or its socket pair.
Arrived(t) == offset[t] + (IF pipe[t] = 0 THEN 0 ELSE 1)

\* The service is started once, before any block is sent.  While it reads, the
\* block on its way is the one after those that have arrived.
OrderInv(t) ==
    /\ host[t] \in {"new", "cnxn", "open"} \/ Holds(wire[t], Opens) \/ Holds(to_main[t], Opens)
           => service[t] = "none"
    /\ service[t] = "none" =>
           /\ offset[t] = 0 /\ pipe[t] = 0 /\ backlog[t] = <<>> /\ sent[t] = 0
           /\ host[t] # "write" /\ ~Holds(to_remote[t], Okays)
           /\ ~Holds(wire[t], Writes) /\ ~Holds(to_main[t], Writes)
    /\ ~Holds(wire[t], Wrong(sent[t])) /\ ~Holds(to_main[t], Wrong(sent[t]))
    /\ service[t] \in {"create", "read"} =>
           /\ pipe[t] \in {0, offset[t] + 1}
           /\ host[t] = "write" \/ Holds(to_remote[t], Okays) => sent[t] = Arrived(t)
           /\ Holds(wire[t], Writes) \/ Holds(to_main[t], Writes) => sent[t] = Arrived(t) + 1
           /\ backlog[t] # <<>> => backlog[t][1] = sent[t] /\ sent[t] = Arrived(t) + 1
    /\ offset[t] <= Blocks
    /\ service[t] = "create" => offset[t] = 0
    /\ service[t] = "read" => offset[t] < Blocks
    /\ service[t] = "sleep" => offset[t] = Blocks

\* Block i of the file is of t's package, or an intruder put it there.
Its(t, i) == origin[i] = t \/ origin[i] \in intruders

\* The service that created the file last finds all it has written there,
\* or, of a block in its place, what another service has put there since.
FileInv ==
    /\ origin \in [1 .. Blocks -> Nat]
    /\ \A t \in T : writer = t => \A i \in 1 .. offset[t] : file[i] = i /\ Its(t, i)

StreamInv(t) == CloseInv(t) /\ TurnInv(t) /\ OrderInv(t)
TransferInv  == StreamTypeOK /\ FileInv /\ \A t \in T : StreamInv(t)

\* Queues without packets, with one, and with one more at the end.
LEMMA HoldsAppend ==
    ASSUME NEW s \in Seq(Packets), NEW p \in Packets, NEW P
    PROVE  /\ Append(s, p) \in Seq(Packets) /\ Len(Append(s, p)) = Len(s) + 1
           /\ Holds(Append(s, p), P) <=> Holds(s, P) \/ p \in P
           /\ AtMostOne(s, P) /\ (~Holds(s, P) \/ p \notin P) => AtMostOne(Append(s, p), P)
           /\ ~Holds(s, P) => LastOnly(Append(s, p), P)
<1> DEFINE n == Len(s)
           r == Append(s, p)
<1>1. /\ n \in Nat /\ r \in Seq(Packets) /\ Len(r) = n + 1 /\ r[n + 1] = p
      /\ \A i \in 1 .. n : r[i] = s[i]
  OBVIOUS
<1> HIDE DEF n, r
<1>2. \A i \in 1 .. n + 1 : i \in 1 .. n \/ i = n + 1
  BY <1>1
<1>3. \A i \in 1 .. n : i \in 1 .. n + 1 /\ i # n + 1
  BY <1>1
<1>4. Holds(r, P) <=> Holds(s, P) \/ p \in P
  <2>1. n + 1 \in 1 .. n + 1
    BY <1>1
  <2> QED
    BY Zenon, <1>1, <1>2, <1>3, <2>1 DEF Holds, n
<1>5. AtMostOne(s, P) /\ (~Holds(s, P) \/ p \notin P) => AtMostOne(r, P)
  BY Zenon, <1>1, <1>2 DEF Holds, AtMostOne, n
<1>6. ~Holds(s, P) => LastOnly(r, P)
  BY Zenon, <1>1, <1>2 DEF Holds, LastOnly, n
<1> QED
  BY Zenon, <1>1, <1>4, <1>5, <1>6 DEF n, r

LEMMA HoldsEmpty ==
    ASSUME NEW P, NEW p
    PROVE  /\ ~Holds(<<>>, P) /\ AtMostOne(<<>>, P) /\ LastOnly(<<>>, P)
           /\ Holds(<<p>>, P) <=> p \in P
           /\ AtMostOne(<<p>>, P)
           /\ Len(<<p>>) = 1 /\ <<p>>[1] = p
BY DEF Holds, AtMostOne, LastOnly

LEMMA EmptyQueue == <<>> \in Seq(Packets) /\ Len(<<>>) <= 1
OBVIOUS

\* The first packet is taken from a queue.
LEMMA HoldsTail ==
    ASSUME NEW s \in Seq(Packets), s # <<>>, NEW P
    PROVE  /\ Tail(s) \in Seq(Packets) /\ Head(s) \in Packets /\ Len(Tail(s)) = Len(s) - 1
           /\ Head(s) = s[1] /\ Len(s) \in Nat \ {0}
           /\ Holds(s, P) <=> Head(s) \in P \/ Holds(Tail(s), P)
           /\ AtMostOne(s, P) => AtMostOne(Tail(s), P)
           /\ AtMostOne(s, P) /\ Head(s) \in P => ~Holds(Tail(s), P)
           /\ LastOnly(s, P) => LastOnly(Tail(s), P) /\ (Head(s) \in P => Tail(s) = <<>>)
<1> DEFINE n == Len(s)
           r == Tail(s)
<1>1. /\ n \in Nat \ {0} /\ Head(s) = s[1] /\ s[1] \in Packets
      /\ r \in Seq(Packets) /\ Len(r) = n - 1
      /\ \A i \in 1 .. n - 1 : r[i] = s[i + 1]
  OBVIOUS
<1> HIDE DEF n, r
<1>2. \A i \in 1 .. n - 1 : i + 1 \in 1 .. n /\ i + 1 # 1
  BY <1>1
<1>3. \A i \in 1 .. n : i = 1 \/ (i - 1 \in 1 .. n - 1 /\ (i - 1) + 1 = i)
  BY <1>1
<1>4. Holds(s, P) <=> Head(s) \in P \/ Holds(r, P)
  <2>1. 1 \in 1 .. n
    BY <1>1
  <2>2. Holds(s, P) <=> \E i \in 1 .. n : s[i] \in P
    BY Zenon DEF Holds, n
  <2>3. Holds(r, P) <=> \E i \in 1 .. n - 1 : r[i] \in P
    BY Zenon, <1>1 DEF Holds
  <2>4. Head(s) \in P \/ Holds(r, P) => Holds(s, P)
    BY Zenon, <1>1, <1>2, <2>1, <2>2, <2>3
  <2>5. ASSUME Holds(s, P) PROVE Head(s) \in P \/ Holds(r, P)
    <3>1. PICK i \in 1 .. n : s[i] \in P
      BY Zenon, <2>2, <2>5
    <3> QED
      BY Zenon, <1>1, <1>3, <2>3, <3>1
  <2> QED
    BY Zenon, <2>4, <2>5
<1>5. AtMostOne(s, P) => AtMostOne(r, P)
  <2> SUFFICES ASSUME AtMostOne(s, P), NEW i \in 1 .. n - 1, NEW j \in 1 .. n - 1,
                      r[i] \in P, r[j] \in P
               PROVE  i = j
    BY Zenon, <1>1 DEF AtMostOne
  <2>1. s[i + 1] \in P /\ s[j + 1] \in P
    BY Zenon, <1>1
  <2>2. i + 1 = j + 1
    BY Zenon, <1>2, <2>1 DEF AtMostOne, n
  <2> QED
    BY <1>1, <2>2
<1>6. AtMostOne(s, P) /\ Head(s) \in P => ~Holds(r, P)
  BY SMTT(20), <1>1, <1>2 DEF AtMostOne, Holds, n
<1>7. LastOnly(s, P) => LastOnly(r, P) /\ (Head(s) \in P => r = <<>>)
  BY <1>1, <1>2 DEF LastOnly, n
<1> QED
  BY Zenon, <1>1, <1>4, <1>5, <1>6, <1>7 DEF n, r

\* Packets that are sent together.
LEMMA HoldsConcat ==
    ASSUME NEW s \in Seq(Packets), NEW r \in Seq(Packets), NEW P
    PROVE  /\ s \o r \in Seq(Packets)
           /\ Holds(s \o r, P) <=> Holds(s, P) \/ Holds(r, P)
           /\ AtMostOne(s, P) /\ ~Holds(r, P) => AtMostOne(s \o r, P)
           /\ ~Holds(s, P) /\ AtMostOne(r, P) => AtMostOne(s \o r, P)
<1> DEFINE m == Len(s)
           n == Len(r)
           c == s \o r
<1>1. /\ m \in Nat /\ n \in Nat /\ c \in Seq(Packets) /\ Len(c) = m + n
      /\ \A i \in 1 .. m + n : c[i] = IF i <= m THEN s[i] ELSE r[i - m]
  OBVIOUS
<1> HIDE DEF m, n, c
<1>2. /\ \A i \in 1 .. m : i \in 1 .. m + n /\ c[i] = s[i]
      /\ \A i \in 1 .. n : m + i \in 1 .. m + n /\ c[m + i] = r[i]
      /\ \A i \in 1 .. m + n : i \in 1 .. m \/ (i - m \in 1 .. n /\ m + (i - m) = i)
  BY <1>1
<1>3. Holds(c, P) <=> Holds(s, P) \/ Holds(r, P)
  BY ZenonT(30), <1>1, <1>2 DEF Holds, m, n
<1>4. AtMostOne(s, P) /\ ~Holds(r, P) => AtMostOne(c, P)
  <2> SUFFICES ASSUME AtMostOne(s, P), ~Holds(r, P), NEW i \in 1 .. m + n, NEW j \in 1 .. m + n,
                      c[i] \in P, c[j] \in P
               PROVE  i = j
    BY Zenon, <1>1 DEF AtMostOne
  <2>1. i \in 1 .. m /\ j \in 1 .. m
    BY Zenon, <1>2 DEF Holds, n
  <2> QED
    BY Zenon, <1>2, <2>1 DEF AtMostOne, m
<1>5. ~Holds(s, P) /\ AtMostOne(r, P) => AtMostOne(c, P)
  <2> SUFFICES ASSUME ~Holds(s, P), AtMostOne(r, P), NEW i \in 1 .. m + n, NEW j \in 1 .. m + n,
                      c[i] \in P, c[j] \in P
               PROVE  i = j
    BY Zenon, <1>1 DEF AtMostOne
  <2>1. /\ i - m \in 1 .. n /\ m + (i - m) = i
        /\ j - m \in 1 .. n /\ m + (j - m) = j
    BY Zenon, <1>2 DEF Holds, m
  <2>2. r[i - m] \in P /\ r[j - m] \in P
    BY Zenon, <1>2, <2>1
  <2>3. i - m = j - m
    BY Zenon, <2>1, <2>2 DEF AtMostOne, n
  <2> QED
    BY <1>1, <2>3
<1> QED
  BY Zenon, <1>1, <1>3, <1>4, <1>5 DEF c

\* The sets of packets the invariant speaks of.
LEMMA PacketSets ==
    ASSUME NEW p \in Packets, NEW n \in Nat
    PROVE  /\ p.cmd \in Commands /\ p.n \in Nat
           /\ p \in Offs <=> p.cmd = "SYNC" /\ p.n = 0
           /\ p \in Opens <=> p.cmd = "OPEN"
           /\ p \in Writes <=> p.cmd = "WRTE"
           /\ p \in Wrong(n) <=> p.cmd = "WRTE" /\ p.n # n
           /\ p \in Okays <=> p.cmd = "OKAY"
           /\ p \in Claims <=> p.cmd \in {"OPEN", "WRTE"}
BY Zenon DEF Packets, Offs, Opens, Writes, Wrong, Okays, Claims

LEMMA PacketIs ==
    ASSUME NEW c \in Commands, NEW n \in Nat
    PROVE  Packet(c, n) \in Packets /\ Packet(c, n).cmd = c /\ Packet(c, n).n = n
BY Zenon DEF Packet, Packets

\* What a queue without claims has none of.
LEMMA ClaimSets ==
    ASSUME NEW s \in Seq(Packets), NEW n \in Nat
    PROVE  /\ Holds(s, Opens) => Holds(s, Claims)
           /\ Holds(s, Writes) => Holds(s, Claims)
           /\ Holds(s, Wrong(n)) => Holds(s, Writes)
<1>1. \A i \in 1 .. Len(s) : s[i] \in Packets
  OBVIOUS
<1> QED
  BY Zenon, <1>1, PacketSets DEF Holds

\* A step of another session.
Elsewhere(u) ==
    /\ to_main'[u] = to_main[u] /\ to_remote'[u] = to_remote[u] /\ wire'[u] = wire[u]
    /\ host'[u] = host[u] /\ sent'[u] = sent[u] /\ service'[u] = service[u]
    /\ pipe'[u] = pipe[u] /\ offset'[u] = offset[u] /\ backlog'[u] = backlog[u]
    /\ peer'[u] = peer[u] /\ out'[u] = out[u] /\ in'[u] = in[u]

LEMMA StreamKept == ASSUME NEW u \in T, StreamInv(u), Elsewhere(u) PROVE StreamInv(u)'
<1>1. CloseInv(u)'
  BY Zenon DEF StreamInv, CloseInv, Elsewhere
<1>2. TurnInv(u)'
  BY Zenon DEF StreamInv, TurnInv, HostHasTurn, Elsewhere
<1>3. OrderInv(u)'
  BY Zenon DEF StreamInv, OrderInv, Arrived, Elsewhere
<1> QED
  BY Zenon, <1>1, <1>2, <1>3 DEF StreamInv

\* What a step of session t has to keep.
Kept(t) == StreamTypeOK' /\ StreamInv(t)' /\ \A u \in T \ {t} : Elsewhere(u)

\* Packets other than OKAY may be sent to the host, packets for the main loop
\* and the backlog dropped, the remote socket closed; SYNC(0, 0) goes last.
LEMMA Quiet ==
    ASSUME StreamTypeOK, NEW t \in T, StreamInv(t), NEW r \in Seq(Packets),
           ~Holds(r, Okays),
           Holds(r, Offs) => out[t] \in Ended /\ to_main'[t] = <<>> /\ peer'[t] = 0,
           wire'[t] = wire[t], host'[t] = host[t], sent'[t] = sent[t], out'[t] = out[t],
           service'[t] = service[t], pipe'[t] = pipe[t], offset'[t] = offset[t], in'[t] = in[t],
           backlog'[t] \in {backlog[t], <<>>}, peer'[t] \in {peer[t], 0},
           to_remote'[t] \in {to_remote[t], to_remote[t] \o r},
           \/ to_main'[t] = to_main[t]
           \/ to_main[t] # <<>> /\ to_main'[t] = Tail(to_main[t])
    PROVE  StreamInv(t)'
<1>1. /\ to_main[t] \in Seq(Packets) /\ to_remote[t] \in Seq(Packets) /\ sent[t] \in Nat
      /\ backlog[t] \in Seq(Nat)
  BY Zenon DEF StreamTypeOK
<1>2. /\ Holds(to_remote'[t], Offs) => Holds(to_remote[t], Offs) \/ Holds(r, Offs)
      /\ Holds(to_remote'[t], Okays) <=> Holds(to_remote[t], Okays)
      /\ AtMostOne(to_remote[t], Okays) => AtMostOne(to_remote'[t], Okays)
  <2> DEFINE s == to_remote[t]
  <2>1. /\ Holds(s \o r, Offs) <=> Holds(s, Offs) \/ Holds(r, Offs)
        /\ Holds(s \o r, Okays) <=> Holds(s, Okays)
        /\ AtMostOne(s, Okays) => AtMostOne(s \o r, Okays)
    BY Zenon, <1>1, HoldsConcat
  <2> QED
    BY Zenon, <2>1
<1>3. /\ \A P : Holds(to_main'[t], P) => Holds(to_main[t], P)
      /\ AtMostOne(to_main[t], Claims) => AtMostOne(to_main'[t], Claims)
      /\ LastOnly(to_main[t], Offs) => LastOnly(to_main'[t], Offs)
      /\ to_main[t] = <<>> => to_main'[t] = <<>>
  BY <1>1, HoldsTail
<1>4. CloseInv(t)'
  BY Zenon, <1>2, <1>3 DEF StreamInv, CloseInv
<1>5. TurnInv(t)'
  BY <1>2, <1>3 DEF StreamInv, TurnInv, HostHasTurn
<1>6. OrderInv(t)'
  BY Zenon, <1>2, <1>3 DEF StreamInv, OrderInv, Arrived
<1> QED
  BY Zenon, <1>4, <1>5, <1>6 DEF StreamInv

\* What the steps of the main loop are made of.
LEMMA SendFacts ==
    ASSUME StreamTypeOK, NEW t \in T, NEW r \in Seq(Packets), Send(t, r)
    PROVE  /\ to_remote' \in [T -> Seq(Packets)]
           /\ to_remote'[t] \in {to_remote[t], to_remote[t] \o r}
           /\ \A u \in T \ {t} : to_remote'[u] = to_remote[u]
<1>1. to_remote \in [T -> Seq(Packets)] /\ to_remote[t] \o r \in Seq(Packets)
  BY Zenon, HoldsConcat DEF StreamTypeOK
<1> QED
  BY Zenon, <1>1 DEF Send, Set

LEMMA LocalCloseFacts ==
    ASSUME StreamTypeOK, NEW t \in T, LocalClose(t)
    PROVE  /\ socket' \in [T -> SocketStates] /\ peer' \in [T -> {0, 1}]
           /\ backlog' \in [T -> Seq(Nat)]
           /\ peer'[t] = 0 /\ backlog'[t] \in {backlog[t], <<>>}
           /\ \A u \in T \ {t} : peer'[u] = peer[u] /\ backlog'[u] = backlog[u]
<1>1. /\ socket \in [T -> SocketStates] /\ peer \in [T -> {0, 1}]
      /\ backlog \in [T -> Seq(Nat)] /\ <<>> \in Seq(Nat)
  BY DEF StreamTypeOK
<1>2. /\ peer' = [peer EXCEPT ![t] = 0]
      /\ \/ socket' = [socket EXCEPT ![t] = "gone"] /\ backlog' = [backlog EXCEPT ![t] = <<>>]
         \/ socket' = [socket EXCEPT ![t] = "closing"] /\ backlog' = backlog
  BY Zenon DEF LocalClose, Set
<1> QED
  BY Zenon, <1>1, <1>2 DEF SocketStates

LEMMA ClosingFacts ==
    ASSUME NEW t \in T
    PROVE  /\ Closing(t) \in Seq(Packets)
           /\ ~Holds(Closing(t), Okays) /\ ~Holds(Closing(t), Offs)
<1>1. /\ Packet("CLSE", 0) \in Packets /\ Packet("CLSE", 0) \notin Okays
      /\ Packet("CLSE", 0) \notin Offs
  BY Zenon, PacketIs, PacketSets DEF Commands
<1> QED
  BY <1>1, HoldsEmpty DEF Closing

LEMMA OneFacts ==
    ASSUME NEW c \in Commands, NEW n \in Nat
    PROVE  /\ <<Packet(c, n)>> \in Seq(Packets)
           /\ Holds(<<Packet(c, n)>>, Okays) <=> c = "OKAY"
           /\ Holds(<<Packet(c, n)>>, Offs) <=> c = "SYNC" /\ n = 0
<1>1. Packet(c, n) \in Packets /\ Packet(c, n).cmd = c /\ Packet(c, n).n = n
  BY Zenon, PacketIs
<1> QED
  BY <1>1, HoldsEmpty, PacketSets

\* The handlers and events that do not pass the turn: r is what they send to
\* the host, and they may close the local socket.
LEMMA QuietStep ==
    ASSUME StreamTypeOK, NEW t \in T, StreamInv(t),
           \/ to_main' = to_main
           \/ to_main[t] # <<>> /\ to_main' = Set(to_main, t, Tail(to_main[t])),
           NEW r \in Seq(Packets), ~Holds(r, Okays),
           Holds(r, Offs) => /\ to_main[t] # <<>> /\ to_main' = Set(to_main, t, Tail(to_main[t]))
                             /\ Head(to_main[t]) \in Offs /\ (LocalClose(t) \/ peer[t] = 0),
           Send(t, r) \/ to_remote' = to_remote,
           LocalClose(t) \/ UNCHANGED <<socket, peer, backlog>>,
           UNCHANGED <<service, pipe, offset, file, threadVars, hostVars>>
    PROVE  Kept(t)
<1> USE DEF threadVars, hostVars
<1>1. /\ to_main' \in [T -> Seq(Packets)]
      /\ \/ to_main'[t] = to_main[t]
         \/ to_main[t] # <<>> /\ to_main'[t] = Tail(to_main[t])
      /\ \A u \in T \ {t} : to_main'[u] = to_main[u]
  <2>1. /\ to_main \in [T -> Seq(Packets)]
        /\ to_main[t] # <<>> => Tail(to_main[t]) \in Seq(Packets)
    BY Zenon, HoldsTail DEF StreamTypeOK
  <2> QED
    BY Zenon, <2>1 DEF Set
<1>2. /\ to_remote' \in [T -> Seq(Packets)]
      /\ to_remote'[t] \in {to_remote[t], to_remote[t] \o r}
      /\ \A u \in T \ {t} : to_remote'[u] = to_remote[u]
  BY Zenon, SendFacts DEF StreamTypeOK
<1>3. /\ socket' \in [T -> SocketStates] /\ peer' \in [T -> {0, 1}]
      /\ backlog' \in [T -> Seq(Nat)]
      /\ peer'[t] \in {peer[t], 0} /\ backlog'[t] \in {backlog[t], <<>>}
      /\ \A u \in T \ {t} : peer'[u] = peer[u] /\ backlog'[u] = backlog[u]
  BY Zenon, LocalCloseFacts DEF StreamTypeOK
<1>4. StreamTypeOK'
  BY Zenon, <1>1, <1>2, <1>3 DEF StreamTypeOK
<1>5. Holds(r, Offs) => out[t] \in Ended /\ to_main'[t] = <<>> /\ peer'[t] = 0
  <2> SUFFICES ASSUME Holds(r, Offs)
               PROVE  out[t] \in Ended /\ to_main'[t] = <<>> /\ peer'[t] = 0
    OBVIOUS
  <2>1. Holds(to_main[t], Offs) /\ (LastOnly(to_main[t], Offs) => Tail(to_main[t]) = <<>>)
    BY Zenon, HoldsTail DEF StreamTypeOK
  <2>2. peer'[t] = 0
    BY Zenon, LocalCloseFacts
  <2> QED
    BY Zenon, <2>1, <2>2 DEF StreamInv, CloseInv, StreamTypeOK, Set
<1>6. StreamInv(t)'
  BY Zenon, <1>1, <1>2, <1>3, <1>5, Quiet
<1>7. \A u \in T \ {t} : Elsewhere(u)
  BY Zenon, <1>1, <1>2, <1>3 DEF Elsewhere
<1> QED
  BY Zenon, <1>4, <1>6, <1>7 DEF Kept

\* A packet that asks for something is answered with OKAY: the turn goes back.
LEMMA TurnReturns ==
    ASSUME StreamTypeOK, NEW t \in T, StreamInv(t), to_main[t] # <<>>,
           Head(to_main[t]) \in Claims, to_main'[t] = Tail(to_main[t]),
           backlog'[t] = backlog[t], wire'[t] = wire[t], host'[t] = host[t],
           to_remote'[t] \in {to_remote[t], to_remote[t] \o <<Packet("OKAY", 0)>>}
    PROVE  /\ TurnInv(t)' /\ backlog'[t] = <<>>
           /\ ~Holds(to_main'[t], Claims) /\ ~Holds(wire'[t], Claims) /\ ~HostHasTurn(t)'
           /\ Holds(to_remote'[t], Offs) => Holds(to_remote[t], Offs)
<1> DEFINE s == to_remote[t]
           r == <<Packet("OKAY", 0)>>
<1>1. /\ to_main[t] \in Seq(Packets) /\ s \in Seq(Packets) /\ r \in Seq(Packets)
      /\ ~Holds(r, Offs) /\ AtMostOne(r, Okays)
  BY Zenon, OneFacts, HoldsEmpty DEF StreamTypeOK, Commands
<1>2. Holds(to_main[t], Claims)
  BY Zenon, <1>1, HoldsTail
<1>3. /\ backlog[t] = <<>> /\ ~Holds(s, Okays) /\ ~Holds(wire[t], Claims) /\ ~HostHasTurn(t)
      /\ Len(wire[t]) <= 1 /\ AtMostOne(to_main[t], Claims)
  BY Zenon, <1>2 DEF StreamInv, TurnInv
<1>4. ~Holds(to_main'[t], Claims) /\ AtMostOne(to_main'[t], Claims)
  BY <1>1, <1>3, HoldsTail
<1>5. /\ AtMostOne(s \o r, Okays)
      /\ Holds(s \o r, Offs) => Holds(s, Offs)
  BY Zenon, <1>1, <1>3, HoldsConcat
<1>6. AtMostOne(s, Okays)
  BY Zenon DEF StreamInv, TurnInv
<1>7. Len(backlog'[t]) <= 1
  BY Zenon DEF StreamInv, TurnInv
<1> QED
  BY Zenon, <1>3, <1>4, <1>5, <1>6, <1>7 DEF TurnInv, HostHasTurn

\* OPEN starts the service, for the first and only time.
LEMMA ServiceOpened ==
    ASSUME StreamTypeOK, NEW t \in T, StreamInv(t), to_main[t] # <<>>,
           Head(to_main[t]).cmd = "OPEN", to_main' = Set(to_main, t, Tail(to_main[t])),
           service' = Set(service, t, "create"), socket' = Set(socket, t, "open"),
           peer' = Set(peer, t, 1), Send(t, <<Packet("OKAY", 0)>>),
           UNCHANGED <<backlog, pipe, offset, file, threadVars, hostVars>>
    PROVE  Kept(t)
<1> USE DEF threadVars, hostVars
<1>1. /\ to_main[t] \in Seq(Packets) /\ Head(to_main[t]) \in Packets
      /\ to_main' \in [T -> Seq(Packets)] /\ to_main'[t] = Tail(to_main[t])
      /\ \A u \in T \ {t} : to_main'[u] = to_main[u]
  BY Zenon, HoldsTail DEF StreamTypeOK, Set
<1>2. Head(to_main[t]) \in Claims /\ Head(to_main[t]) \in Opens /\ Head(to_main[t]) \notin Offs
  BY Zenon, <1>1, PacketSets
<1>3. /\ to_remote' \in [T -> Seq(Packets)]
      /\ to_remote'[t] \in {to_remote[t], to_remote[t] \o <<Packet("OKAY", 0)>>}
      /\ \A u \in T \ {t} : to_remote'[u] = to_remote[u]
  BY Zenon, SendFacts, OneFacts DEF Commands
<1>4. /\ TurnInv(t)' /\ backlog'[t] = <<>>
      /\ ~Holds(to_main'[t], Claims) /\ ~Holds(wire'[t], Claims) /\ ~HostHasTurn(t)'
      /\ Holds(to_remote'[t], Offs) => Holds(to_remote[t], Offs)
  BY Zenon, <1>1, <1>2, <1>3, TurnReturns
<1>5. service[t] = "none" /\ offset[t] = 0 /\ pipe[t] = 0 /\ sent[t] = 0
  BY Zenon, <1>1, <1>2, HoldsTail DEF StreamInv, OrderInv
<1>6. /\ service' \in [T -> ServiceStates] /\ service'[t] = "create"
      /\ socket' \in [T -> SocketStates] /\ peer' \in [T -> {0, 1}]
      /\ \A u \in T \ {t} : service'[u] = service[u] /\ peer'[u] = peer[u]
  BY Zenon DEF StreamTypeOK, Set, ServiceStates, SocketStates
<1>7. StreamTypeOK'
  BY Zenon, <1>1, <1>3, <1>6 DEF StreamTypeOK
<1>8. CloseInv(t)'
  <2>1. to_main[t] # <<>> /\ LastOnly(to_main'[t], Offs)
        /\ (Holds(to_main'[t], Offs) => Holds(to_main[t], Offs))
    BY SMTT(20), <1>1, HoldsTail DEF StreamInv, CloseInv
  <2> QED
    BY Zenon, <1>4, <2>1 DEF StreamInv, CloseInv
<1>9. OrderInv(t)'
  <2>1. /\ ~Holds(to_main'[t], Opens) /\ ~Holds(to_main'[t], Writes)
        /\ ~Holds(to_main'[t], Wrong(sent[t])) /\ ~Holds(wire[t], Opens)
        /\ ~Holds(wire[t], Writes) /\ ~Holds(wire[t], Wrong(sent[t]))
    BY Zenon, <1>4, <1>7, ClaimSets DEF StreamTypeOK
  <2> QED
    BY <1>4, <1>5, <1>6, <2>1, SideloaderAssumption DEF OrderInv, Arrived, HostHasTurn
<1>10. \A u \in T \ {t} : Elsewhere(u)
  BY Zenon, <1>1, <1>3, <1>6 DEF Elsewhere
<1> QED
  BY Zenon, <1>4, <1>7, <1>8, <1>9, <1>10 DEF Kept, StreamInv

\* A block goes to the service at once, or waits in the backlog.
LEMMA BlockArrives ==
    ASSUME StreamTypeOK, NEW t \in T, StreamInv(t), to_main[t] # <<>>,
           Head(to_main[t]).cmd = "WRTE", to_main' = Set(to_main, t, Tail(to_main[t])),
           \/ /\ pipe[t] = 0 /\ pipe' = Set(pipe, t, Head(to_main[t]).n)
              /\ Send(t, <<Packet("OKAY", 0)>>) /\ backlog' = backlog
           \/ /\ backlog' = Set(backlog, t, Append(backlog[t], Head(to_main[t]).n))
              /\ UNCHANGED <<pipe, to_remote>>,
           UNCHANGED <<socket, peer, service, offset, file, threadVars, hostVars>>
    PROVE  Kept(t)
<1> USE DEF threadVars, hostVars
<1> DEFINE p == Head(to_main[t])
<1>1. /\ to_main[t] \in Seq(Packets) /\ p \in Packets /\ Holds(to_main[t], {p})
      /\ to_main' \in [T -> Seq(Packets)] /\ to_main'[t] = Tail(to_main[t])
      /\ \A u \in T \ {t} : to_main'[u] = to_main[u]
  BY Zenon, HoldsTail DEF StreamTypeOK, Set
<1>2. p \in Claims /\ p \in Writes /\ p.n \in Nat /\ (p.n # sent[t] => p \in Wrong(sent[t]))
  BY Zenon, <1>1, PacketSets DEF StreamTypeOK
<1>3. /\ Holds(to_main[t], Claims) /\ Holds(to_main[t], Writes) /\ p.n = sent[t]
      /\ service[t] # "none"
  <2>1. /\ Holds(to_main[t], Claims) /\ Holds(to_main[t], Writes)
        /\ p \in Wrong(sent[t]) => Holds(to_main[t], Wrong(sent[t]))
    BY Zenon, <1>1, <1>2, HoldsTail
  <2> QED
    BY Zenon, <1>2, <2>1 DEF StreamInv, OrderInv
<1>4. backlog[t] = <<>> /\ ~Holds(to_remote[t], Okays) /\ ~HostHasTurn(t)
      /\ ~Holds(wire[t], Claims)
  BY Zenon, <1>3 DEF StreamInv, TurnInv
<1>5. /\ ~Holds(to_main'[t], Claims) /\ AtMostOne(to_main'[t], Claims)
      /\ LastOnly(to_main'[t], Offs) /\ (Holds(to_main'[t], Offs) => Holds(to_main[t], Offs))
  BY <1>1, <1>2, HoldsTail DEF StreamInv, TurnInv, CloseInv
<1>6. /\ ~Holds(to_main'[t], Opens) /\ ~Holds(to_main'[t], Writes)
      /\ ~Holds(to_main'[t], Wrong(sent[t])) /\ ~Holds(wire[t], Opens)
      /\ ~Holds(wire[t], Writes) /\ ~Holds(wire[t], Wrong(sent[t]))
  BY Zenon, <1>1, <1>4, <1>5, ClaimSets DEF StreamTypeOK
<1>7. CASE /\ pipe[t] = 0 /\ pipe' = Set(pipe, t, p.n)
           /\ Send(t, <<Packet("OKAY", 0)>>) /\ backlog' = backlog
  <2>1. /\ to_remote' \in [T -> Seq(Packets)]
        /\ to_remote'[t] \in {to_remote[t], to_remote[t] \o <<Packet("OKAY", 0)>>}
        /\ \A u \in T \ {t} : to_remote'[u] = to_remote[u]
    <3>1. <<Packet("OKAY", 0)>> \in Seq(Packets)
      BY Zenon, OneFacts DEF Commands
    <3> QED
      BY Zenon, <1>7, <3>1, SendFacts
  <2>2. /\ TurnInv(t)' /\ (Holds(to_remote'[t], Offs) => Holds(to_remote[t], Offs))
    BY Zenon, <1>1, <1>2, <1>7, <2>1, TurnReturns
  <2>3. /\ pipe' \in [T -> Nat] /\ pipe'[t] = sent[t]
        /\ \A u \in T \ {t} : pipe'[u] = pipe[u]
    BY Zenon, <1>2, <1>3, <1>7 DEF StreamTypeOK, Set
  <2>4. StreamTypeOK'
    BY Zenon, <1>1, <1>7, <2>1, <2>3 DEF StreamTypeOK
  <2>5. CloseInv(t)'
    BY ZenonT(30), <1>5, <2>2 DEF StreamInv, CloseInv
  <2>6. OrderInv(t)'
    <3>1. offset[t] \in Nat /\ (service[t] \in {"create", "read"} => sent[t] = offset[t] + 1)
      BY <1>3, <1>7 DEF StreamInv, OrderInv, Arrived, StreamTypeOK
    <3> QED
      BY SMTT(20), <1>3, <1>4, <1>6, <1>7, <2>3, <3>1 DEF StreamInv, OrderInv, Arrived, HostHasTurn
  <2>7. \A u \in T \ {t} : Elsewhere(u)
    BY Zenon, <1>1, <1>7, <2>1, <2>3 DEF Elsewhere
  <2> QED
    BY Zenon, <2>2, <2>4, <2>5, <2>6, <2>7 DEF Kept, StreamInv
<1>8. CASE /\ backlog' = Set(backlog, t, Append(backlog[t], p.n))
           /\ UNCHANGED <<pipe, to_remote>>
  <2>1. /\ backlog' \in [T -> Seq(Nat)] /\ backlog'[t] = Append(<<>>, p.n)
        /\ \A u \in T \ {t} : backlog'[u] = backlog[u]
    BY SMTT(20), <1>2, <1>4, <1>8 DEF StreamTypeOK, Set
  <2>2. backlog'[t] # <<>> /\ Len(backlog'[t]) = 1 /\ backlog'[t][1] = p.n
    BY <1>2, <2>1
  <2>3. StreamTypeOK'
    BY Zenon, <1>1, <1>8, <2>1 DEF StreamTypeOK
  <2>4. CloseInv(t)'
    BY Zenon, <1>5, <1>8 DEF StreamInv, CloseInv
  <2>5. TurnInv(t)'
    <3>1. /\ Len(wire'[t]) <= 1 /\ AtMostOne(to_remote'[t], Okays)
          /\ ~Holds(to_remote'[t], Okays) /\ ~Holds(wire'[t], Claims)
      BY Zenon, <1>4, <1>8 DEF StreamInv, TurnInv
    <3>2. ~HostHasTurn(t)'
      BY Zenon, <1>4 DEF HostHasTurn
    <3> QED
      BY <1>5, <2>2, <3>1, <3>2 DEF TurnInv
  <2>6. OrderInv(t)'
    BY Zenon, <1>3, <1>4, <1>6, <1>8, <2>2 DEF StreamInv, OrderInv, Arrived, HostHasTurn
  <2>7. \A u \in T \ {t} : Elsewhere(u)
    BY Zenon, <1>1, <1>8, <2>1 DEF Elsewhere
  <2> QED
    BY Zenon, <2>3, <2>4, <2>5, <2>6, <2>7 DEF Kept, StreamInv
<1> QED
  BY Zenon, <1>7, <1>8

\* The block in the backlog goes to the service; a socket that is still open
\* answers with OKAY, one that was closing is destroyed.
LEMMA BacklogDelivered ==
    ASSUME StreamTypeOK, NEW t \in T, StreamInv(t), backlog[t] # <<>>, pipe[t] = 0,
           pipe' = Set(pipe, t, Head(backlog[t])),
           backlog'[t] = <<>>, backlog' \in [T -> Seq(Nat)],
           \A u \in T \ {t} : backlog'[u] = backlog[u],
           Send(t, <<Packet("OKAY", 0)>>) \/ to_remote' = to_remote,
           LocalClose(t) \/ UNCHANGED <<socket, peer>>,
           UNCHANGED <<to_main, service, offset, file, threadVars, hostVars>>
    PROVE  Kept(t)
<1> USE DEF threadVars, hostVars
<1> DEFINE s == to_remote[t]
           r == <<Packet("OKAY", 0)>>
<1>1. r \in Seq(Packets) /\ ~Holds(r, Offs) /\ s \in Seq(Packets)
  BY Zenon, OneFacts DEF Commands, StreamTypeOK
<1>2. /\ to_remote' \in [T -> Seq(Packets)] /\ to_remote'[t] \in {s, s \o r}
      /\ \A u \in T \ {t} : to_remote'[u] = to_remote[u]
  BY Zenon, <1>1, SendFacts DEF StreamTypeOK
<1>3. /\ ~Holds(s, Okays) /\ ~Holds(to_main[t], Claims) /\ ~Holds(wire[t], Claims)
      /\ ~HostHasTurn(t) /\ service[t] # "none"
      /\ AtMostOne(s, Okays) /\ AtMostOne(to_main[t], Claims) /\ Len(wire[t]) <= 1
  BY Zenon DEF StreamInv, TurnInv, OrderInv
<1>4. /\ AtMostOne(to_remote'[t], Okays)
      /\ Holds(to_remote'[t], Offs) => Holds(s, Offs)
  <2>1. AtMostOne(s \o r, Okays) /\ (Holds(s \o r, Offs) => Holds(s, Offs))
    <3>1. AtMostOne(r, Okays)
      BY Zenon, HoldsEmpty
    <3> QED
      BY Zenon, <1>1, <1>3, <3>1, HoldsConcat
  <2> QED
    BY Zenon, <1>2, <1>3, <2>1
<1>5. /\ socket' \in [T -> SocketStates] /\ peer' \in [T -> {0, 1}] /\ peer'[t] \in {peer[t], 0}
      /\ \A u \in T \ {t} : peer'[u] = peer[u]
  BY Zenon, LocalCloseFacts DEF StreamTypeOK
<1>6. Head(backlog[t]) = backlog[t][1] /\ Head(backlog[t]) \in Nat
  <2>1. backlog[t] \in Seq(Nat) /\ backlog[t] # <<>>
    BY Zenon DEF StreamTypeOK
  <2> QED
    BY <2>1
<1>7. /\ pipe' \in [T -> Nat] /\ pipe'[t] = backlog[t][1]
      /\ \A u \in T \ {t} : pipe'[u] = pipe[u]
  BY Zenon, <1>6 DEF StreamTypeOK, Set
<1>8. StreamTypeOK'
  BY Zenon, <1>2, <1>5, <1>7 DEF StreamTypeOK
<1>9. CloseInv(t)'
  BY Zenon, <1>4, <1>5 DEF StreamInv, CloseInv
<1>10. TurnInv(t)'
  <2>1. ~HostHasTurn(t)' /\ Len(backlog'[t]) <= 1
    BY SMTT(20), <1>3 DEF HostHasTurn
  <2> QED
    BY Zenon, <1>3, <1>4, <2>1 DEF TurnInv
<1>11. OrderInv(t)'
  <2>1. offset[t] \in Nat
    BY Zenon DEF StreamTypeOK
  <2>2. service[t] \in {"create", "read"} => sent[t] = offset[t] + 1 /\ pipe'[t] = offset[t] + 1
    BY <1>7, <2>1 DEF StreamInv, OrderInv, Arrived
  <2>3. /\ ~Holds(to_main[t], Opens) /\ ~Holds(to_main[t], Writes)
        /\ ~Holds(wire[t], Opens) /\ ~Holds(wire[t], Writes)
    BY Zenon, <1>3, ClaimSets DEF StreamTypeOK
  <2> QED
    BY <1>3, <2>1, <2>2, <2>3 DEF StreamInv, OrderInv, Arrived, HostHasTurn
<1>12. \A u \in T \ {t} : Elsewhere(u)
  BY Zenon, <1>2, <1>5, <1>7 DEF Elsewhere
<1> QED
  BY Zenon, <1>8, <1>9, <1>10, <1>11, <1>12 DEF Kept, StreamInv

\* A packet from the transport.
LEMMA PacketHandled ==
    ASSUME StreamTypeOK, NEW t \in T, StreamInv(t), transport_socket_events(t)
    PROVE  Kept(t)
<1> DEFINE p == Head(to_main[t])
<1>1. /\ to_main[t] # <<>> /\ to_main' = Set(to_main, t, Tail(to_main[t]))
      /\ handle_packet(t, p) /\ UNCHANGED <<threadVars, hostVars>>
  BY Zenon DEF transport_socket_events
<1>2. p \in Packets /\ <<p>> \in Seq(Packets) /\ <<>> \in Seq(Packets)
  BY <1>1, HoldsTail DEF StreamTypeOK
<1>3. \A P : Holds(<<p>>, P) <=> p \in P
  BY Zenon, HoldsEmpty
<1>4. /\ p \in Offs <=> p.cmd = "SYNC" /\ p.n = 0
      /\ p \in Okays <=> p.cmd = "OKAY"
  BY Zenon, <1>2, PacketSets, 0 \in Nat
<1>5. ~Holds(<<>>, Okays) /\ ~Holds(<<>>, Offs)
  BY Zenon, HoldsEmpty
<1>6. CASE HandleSync(t, p)
  <2>1. /\ p.cmd = "SYNC" /\ Send(t, <<p>>) /\ UNCHANGED <<service, pipe, offset, file>>
    BY Zenon, <1>6 DEF HandleSync, NoService, serviceVars, fileVars
  <2>2. \/ p.n # 0 /\ UNCHANGED <<socket, peer, backlog>>
        \/ p.n = 0 /\ LocalClose(t)
        \/ p.n = 0 /\ peer[t] = 0 /\ UNCHANGED <<socket, peer, backlog>>
    BY Zenon, <1>6 DEF HandleSync, Disconnect, socketVars, StreamTypeOK
  <2> QED
    BY Zenon, <1>1, <1>2, <1>3, <1>4, <2>1, <2>2, QuietStep
<1>7. CASE HandleConnect(t, p)
  <2>1. /\ p.cmd = "CNXN" /\ Send(t, <<p>>) /\ UNCHANGED <<service, pipe, offset, file>>
        /\ LocalClose(t) \/ UNCHANGED <<socket, peer, backlog>>
    BY Zenon, <1>7 DEF HandleConnect, Disconnect, NoService, serviceVars, fileVars, socketVars
  <2> QED
    BY Zenon, <1>1, <1>2, <1>3, <1>4, <2>1, QuietStep
<1>8. CASE HandleOpen(t, p)
  <2>1. CASE Send(t, <<Packet("CLSE", 0)>>) /\ UNCHANGED <<socketVars, service>>
    <3>1. /\ <<Packet("CLSE", 0)>> \in Seq(Packets)
          /\ ~Holds(<<Packet("CLSE", 0)>>, Okays) /\ ~Holds(<<Packet("CLSE", 0)>>, Offs)
      BY Zenon, OneFacts DEF Commands
    <3>2. UNCHANGED <<service, pipe, offset, file>> /\ UNCHANGED <<socket, peer, backlog>>
      BY Zenon, <1>8, <2>1 DEF HandleOpen, socketVars, fileVars
    <3> QED
      BY Zenon, <1>1, <2>1, <3>1, <3>2, QuietStep
  <2>2. CASE /\ service' = Set(service, t, "create")
             /\ socket' = Set(socket, t, "open") /\ peer' = Set(peer, t, 1)
             /\ Send(t, <<Packet("OKAY", 0)>>) /\ UNCHANGED backlog
    BY Zenon, <1>1, <1>8, <2>2, ServiceOpened DEF HandleOpen, fileVars
  <2> QED
    BY Zenon, <1>8, <2>1, <2>2 DEF HandleOpen
<1>9. CASE HandleOkay(t, p) \/ HandleDropped(t, p)
  <2>1. to_remote' = to_remote /\ UNCHANGED <<service, pipe, offset, file>> /\ UNCHANGED <<socket, peer, backlog>>
    BY Zenon, <1>9 DEF HandleOkay, HandleDropped, NoService, serviceVars, fileVars, socketVars
  <2> QED
    BY Zenon, <1>1, <1>2, <1>5, <2>1, QuietStep
<1>10. CASE HandleClose(t, p)
  <2>1. Send(t, Closing(t)) /\ LocalClose(t) /\ UNCHANGED <<service, pipe, offset, file>>
    BY Zenon, <1>10 DEF HandleClose, NoService, serviceVars, fileVars
  <2> QED
    BY Zenon, <1>1, <2>1, ClosingFacts, QuietStep
<1>11. CASE HandleWrite(t, p)
  <2>1. CASE Send(t, Closing(t)) /\ LocalClose(t) /\ UNCHANGED pipe
    <3>1. UNCHANGED <<service, pipe, offset, file>>
      BY Zenon, <1>11, <2>1 DEF HandleWrite, fileVars
    <3> QED
      BY Zenon, <1>1, <2>1, <3>1, ClosingFacts, QuietStep
  <2>2. CASE ~(Send(t, Closing(t)) /\ LocalClose(t) /\ UNCHANGED pipe)
    <3>1. /\ p.cmd = "WRTE"
          /\ \/ /\ pipe[t] = 0 /\ pipe' = Set(pipe, t, p.n)
                /\ Send(t, <<Packet("OKAY", 0)>>) /\ backlog' = backlog
             \/ /\ backlog' = Set(backlog, t, Append(backlog[t], p.n))
                /\ UNCHANGED <<pipe, to_remote>>
          /\ UNCHANGED <<socket, peer, service, offset, file>>
      BY Zenon, <1>11, <2>2 DEF HandleWrite, socketVars, fileVars
    <3> QED
      BY Zenon, <1>1, <3>1, BlockArrives
  <2> QED
    BY Zenon, <2>1, <2>2
<1> QED
  BY Zenon, <1>1, <1>6, <1>7, <1>8, <1>9, <1>10, <1>11 DEF handle_packet

\* An event of a local socket.
LEMMA SocketEvent ==
    ASSUME StreamTypeOK, NEW t \in T, StreamInv(t), local_socket_event_func(t)
    PROVE  Kept(t)
<1>1. to_main' = to_main /\ UNCHANGED <<threadVars, hostVars>>
  BY Zenon DEF local_socket_event_func
<1>2. backlog \in [T -> Seq(Nat)] /\ <<>> \in Seq(Nat) /\ <<>> \in Seq(Packets)
  BY DEF StreamTypeOK
<1>3. CASE SocketWrite(t)
  <2>1. CASE Send(t, Closing(t)) /\ LocalClose(t) /\ UNCHANGED pipe
    <3>1. UNCHANGED <<service, pipe, offset, file>>
      BY Zenon, <1>3, <2>1 DEF SocketWrite, fileVars
    <3> QED
      BY Zenon, <1>1, <2>1, <3>1, ClosingFacts, QuietStep
  <2>2. CASE ~(Send(t, Closing(t)) /\ LocalClose(t) /\ UNCHANGED pipe)
    <3>1. /\ backlog[t] # <<>> /\ pipe[t] = 0 /\ pipe' = Set(pipe, t, Head(backlog[t]))
          /\ UNCHANGED <<service, offset, file>>
      BY Zenon, <1>3, <2>2 DEF SocketWrite, fileVars
    <3>2. Len(backlog[t]) <= 1
      BY Zenon DEF StreamInv, TurnInv
    <3>3. \/ socket[t] = "closing" /\ LocalClose(t) /\ to_remote' = to_remote
          \/ /\ backlog' = Set(backlog, t, <<>>) /\ Send(t, <<Packet("OKAY", 0)>>)
             /\ UNCHANGED <<socket, peer>>
      BY <1>3, <2>2, <3>2 DEF SocketWrite
    <3>4. backlog' = Set(backlog, t, <<>>)
      BY Zenon, <3>3 DEF LocalClose
    <3>5. /\ backlog'[t] = <<>> /\ backlog' \in [T -> Seq(Nat)]
          /\ \A u \in T \ {t} : backlog'[u] = backlog[u]
      BY Zenon, <1>2, <3>4 DEF Set
    <3> QED
      BY Zenon, <1>1, <3>1, <3>3, <3>5, BacklogDelivered
  <2> QED
    BY <2>1, <2>2
<1>4. CASE SocketRead(t)
  <2>1. UNCHANGED <<service, pipe, offset, file>>
    BY Zenon, <1>4 DEF SocketRead, fileVars
  <2> DEFINE w == <<Packet("WRTE", 0)>>
  <2>2. w \in Seq(Packets) /\ ~Holds(w, Okays) /\ ~Holds(w, Offs)
    BY Zenon, OneFacts DEF Commands
  <2>3. /\ w \o Closing(t) \in Seq(Packets)
        /\ ~Holds(w \o Closing(t), Okays) /\ ~Holds(w \o Closing(t), Offs)
    BY Zenon, <2>2, ClosingFacts, HoldsConcat
  <2> HIDE DEF w
  <2>4. CASE Send(t, w) /\ UNCHANGED <<socket, peer, backlog>>
    BY Zenon, <1>1, <2>1, <2>2, <2>4, QuietStep
  <2>5. CASE Send(t, w \o Closing(t)) /\ LocalClose(t)
    BY Zenon, <1>1, <2>1, <2>3, <2>5, QuietStep
  <2>6. CASE Send(t, Closing(t)) /\ LocalClose(t)
    BY Zenon, <1>1, <2>1, <2>6, ClosingFacts, QuietStep
  <2> QED
    BY Zenon, <1>4, <2>4, <2>5, <2>6 DEF SocketRead, w
<1> QED
  BY Zenon, <1>3, <1>4 DEF local_socket_event_func

\* A block that the service writes is the next of the file; when the service
\* ends it leaves the rest.
LEMMA ServiceStep ==
    ASSUME StreamTypeOK, NEW t \in T, StreamInv(t), sideload_service(t)
    PROVE  Kept(t)
<1> USE DEF Set
<1>1. UNCHANGED <<to_main, to_remote, threadVars, socketVars, hostVars>>
  BY Zenon DEF sideload_service
<1>2. /\ service \in [T -> ServiceStates] /\ pipe \in [T -> Nat] /\ offset \in [T -> Nat]
      /\ file \in [1 .. Blocks -> Nat] /\ NoFile \in [1 .. Blocks -> Nat]
  BY Zenon DEF StreamTypeOK, NoFile
<1>3. /\ service' \in [T -> ServiceStates] /\ pipe' \in [T -> Nat] /\ offset' \in [T -> Nat]
      /\ file' \in [1 .. Blocks -> Nat]
      /\ \A u \in T \ {t} :
             service'[u] = service[u] /\ pipe'[u] = pipe[u] /\ offset'[u] = offset[u]
  <2>1. CASE ServiceCreate(t)
    BY Zenon, <1>2, <2>1 DEF ServiceCreate, ServiceStates, fileVars
  <2>2. CASE ServiceRead(t)
    <3>1. /\ \/ pipe' = [pipe EXCEPT ![t] = 0] \/ pipe' = pipe
          /\ \/ offset' = [offset EXCEPT ![t] = offset[t] + 1] \/ offset' = offset
          /\ \/ file' = [file EXCEPT ![offset[t] + 1] = pipe[t]] \/ file' = file
          /\ \/ service' = [service EXCEPT ![t] = "read"]
             \/ service' = [service EXCEPT ![t] = "finish"]
      BY Zenon, <2>2 DEF ServiceRead, FileWrite, fileVars
    <3>a. 0 \in Nat /\ offset[t] + 1 \in Nat
      BY <1>2
    <3>2. pipe' \in [T -> Nat] /\ \A u \in T \ {t} : pipe'[u] = pipe[u]
      BY Zenon, <1>2, <3>a, <3>1
    <3>3. offset' \in [T -> Nat] /\ \A u \in T \ {t} : offset'[u] = offset[u]
      BY Zenon, <1>2, <3>a, <3>1
    <3>4. service' \in [T -> ServiceStates] /\ \A u \in T \ {t} : service'[u] = service[u]
      BY Zenon, <1>2, <3>1 DEF ServiceStates
    <3>5. file' \in [1 .. Blocks -> Nat]
      BY Zenon, <1>2, <3>1
    <3> QED
      BY Zenon, <3>2, <3>3, <3>4, <3>5
  <2>3. CASE ServiceFinish(t)
    BY Zenon, <1>2, <2>3 DEF ServiceFinish, ServiceStates, fileVars
  <2> QED
    BY Zenon, <2>1, <2>2, <2>3 DEF sideload_service
<1>4. StreamTypeOK'
  BY Zenon, <1>1, <1>3 DEF StreamTypeOK, threadVars, socketVars, hostVars
<1>5. CloseInv(t)'
  BY Zenon, <1>1 DEF StreamInv, CloseInv, threadVars, socketVars, hostVars
<1>6. TurnInv(t)'
  BY Zenon, <1>1 DEF StreamInv, TurnInv, HostHasTurn, socketVars, hostVars
<1>7. OrderInv(t)'
  <2> USE SideloaderAssumption DEF socketVars, hostVars
  <2>1. CASE ServiceCreate(t)
    <3>1. pipe' = pipe /\ offset' = offset /\ service[t] = "create"
          /\ service'[t] \in {"read", "done"}
      BY Zenon, <1>2, <2>1 DEF ServiceCreate
    <3> QED
      BY <1>1, <1>2, <3>1 DEF StreamInv, OrderInv, Arrived
  <2>2. CASE ServiceRead(t)
    <3>1. CASE /\ service'[t] \in {"read", "finish"} /\ pipe[t] # 0 /\ pipe'[t] = 0
               /\ offset'[t] = offset[t] + 1 /\ (offset'[t] = Blocks => service'[t] = "finish")
      BY <1>1, <1>2, <2>2, <3>1 DEF StreamInv, OrderInv, Arrived, ServiceRead
    <3>2. CASE service'[t] = "finish" /\ offset'[t] = offset[t]
      BY Zenon, <1>1, <1>2, <2>2, <3>2 DEF StreamInv, OrderInv, ServiceRead
    <3> QED
      BY Zenon, <1>2, <2>2, <3>1, <3>2 DEF ServiceRead
  <2>3. CASE ServiceFinish(t)
    <3>1. /\ service[t] = "finish" /\ offset' = offset /\ service'[t] \in {"sleep", "done"}
          /\ service'[t] = "sleep" => offset[t] = Blocks
      BY Zenon, <1>2, <2>3 DEF ServiceFinish
    <3> QED
      BY Zenon, <1>1, <1>2, <3>1 DEF StreamInv, OrderInv
  <2> QED
    BY Zenon, <2>1, <2>2, <2>3 DEF sideload_service
<1>8. \A u \in T \ {t} : Elsewhere(u)
  BY Zenon, <1>1, <1>3 DEF Elsewhere, threadVars, socketVars, hostVars
<1> QED
  BY Zenon, <1>4, <1>5, <1>6, <1>7, <1>8 DEF Kept, StreamInv

\* The host sends a packet: only OPEN and blocks pass the turn.
LEMMA HostSent ==
    ASSUME StreamTypeOK, NEW t \in T, StreamInv(t), NEW c \in Commands \ {"SYNC"}, NEW n \in Nat,
           NEW next \in HostStates, NEW k \in Nat, HostSends(t, Packet(c, n), next),
           sent' = Set(sent, t, k),
           \/ /\ c \notin {"OPEN", "WRTE"} /\ k = sent[t]
              /\ next \in {"cnxn", "wait", "closed"} /\ (next = "cnxn" => host[t] = "new")
           \/ c = "OPEN" /\ host[t] = "open" /\ next = "opened" /\ k = sent[t]
           \/ c = "WRTE" /\ host[t] = "write" /\ next = "wait" /\ k = sent[t] + 1 /\ n = k,
           UNCHANGED <<to_main, to_remote, threadVars, socketVars, serviceVars>>
    PROVE  Kept(t)
<1> USE DEF threadVars, socketVars, serviceVars, fileVars
<1> DEFINE p == Packet(c, n)
<1>1. p \in Packets /\ p.cmd = c /\ p.n = n /\ <<p>> \in Seq(Packets)
  BY PacketIs
<1>2. /\ wire' \in [T -> Seq(Packets)] /\ wire'[t] = <<p>>
      /\ host' \in [T -> HostStates] /\ host'[t] = next
      /\ sent' \in [T -> Nat] /\ sent'[t] = k
      /\ \A u \in T \ {t} : wire'[u] = wire[u] /\ host'[u] = host[u] /\ sent'[u] = sent[u]
  BY Zenon, <1>1 DEF StreamTypeOK, HostSends, Set
<1>3. /\ \A P : Holds(wire'[t], P) <=> p \in P
      /\ Len(wire'[t]) <= 1
  <2>1. \A P : Holds(<<p>>, P) <=> p \in P
    BY Zenon, <1>1, HoldsEmpty
  <2>2. Len(<<p>>) <= 1
    OBVIOUS
  <2> QED
    BY Zenon, <1>2, <2>1, <2>2
<1>4. /\ p \in Offs <=> FALSE
      /\ p \in Opens <=> c = "OPEN"
      /\ p \in Writes <=> c = "WRTE"
      /\ p \in Claims <=> c \in {"OPEN", "WRTE"}
      /\ p \in Wrong(k) <=> c = "WRTE" /\ n # k
  BY Zenon, <1>1, PacketSets
<1> HIDE DEF p
<1>5. /\ sent[t] \in Nat /\ offset[t] \in Nat /\ to_main[t] \in Seq(Packets)
  BY Zenon DEF StreamTypeOK
<1>6. StreamTypeOK'
  BY Zenon, <1>2 DEF StreamTypeOK
<1>7. CloseInv(t)'
  BY Zenon, <1>3, <1>4 DEF StreamInv, CloseInv
<1>8. TurnInv(t)'
  BY Zenon, <1>2, <1>3, <1>4 DEF StreamInv, TurnInv, HostHasTurn
<1>9. OrderInv(t)'
  <2>1. CASE c \notin {"OPEN", "WRTE"} /\ k = sent[t]
    <3>1. next \in {"cnxn", "wait", "closed"} /\ (next = "cnxn" => host[t] = "new")
      BY Zenon, <2>1
    <3> QED
      BY Zenon, <1>2, <1>3, <1>4, <2>1, <3>1 DEF StreamInv, OrderInv, Arrived
  <2>2. CASE c = "OPEN"
    <3>1. host[t] = "open" /\ next = "opened" /\ k = sent[t]
      BY Zenon, <2>2
    <3>2. service[t] = "none"
      BY Zenon, <3>1 DEF StreamInv, OrderInv
    <3> QED
      BY Zenon, <1>2, <1>3, <1>4, <2>2, <3>1, <3>2 DEF StreamInv, OrderInv, Arrived
  <2>3. CASE c = "WRTE"
    <3>1. host[t] = "write" /\ next = "wait" /\ k = sent[t] + 1 /\ n = k
      BY Zenon, <2>3
    <3>2. /\ service[t] # "none" /\ ~Holds(to_main[t], Claims) /\ backlog[t] = <<>>
          /\ ~Holds(to_remote[t], Okays)
          /\ service[t] \in {"create", "read"} => sent[t] = Arrived(t)
      BY Zenon, <3>1 DEF StreamInv, OrderInv, TurnInv, HostHasTurn
    <3>3. /\ ~Holds(to_main[t], Opens) /\ ~Holds(to_main[t], Writes)
          /\ ~Holds(to_main[t], Wrong(k))
      BY Zenon, <1>5, <3>2, ClaimSets
    <3>4. Arrived(t)' = Arrived(t)
      BY Zenon DEF Arrived
    <3> QED
      BY Zenon, <1>2, <1>3, <1>4, <2>3, <3>1, <3>2, <3>3, <3>4 DEF StreamInv, OrderInv
  <2> QED
    BY Zenon, <2>1, <2>2, <2>3
<1>10. \A u \in T \ {t} : Elsewhere(u)
  BY Zenon, <1>2 DEF Elsewhere
<1> QED
  BY ZenonT(30), <1>6, <1>7, <1>8, <1>9, <1>10 DEF Kept, StreamInv

LEMMA HostStep ==
    ASSUME StreamTypeOK, NEW t \in T, StreamInv(t), Host(t)
    PROVE  Kept(t)
<1>1. UNCHANGED <<to_main, to_remote, threadVars, socketVars, serviceVars>>
  BY Zenon DEF Host
<1>2. /\ sent \in [T -> Nat] /\ sent = Set(sent, t, sent[t]) /\ sent[t] + 1 \in Nat
      /\ host \in [T -> HostStates]
  BY DEF StreamTypeOK, Set
<1> USE DEF Commands, HostStates
<1>3. CASE host[t] = "new" /\ HostSends(t, Packet("CNXN", 0), "cnxn") /\ UNCHANGED sent
  BY Zenon, <1>1, <1>2, <1>3, HostSent
<1>4. CASE host[t] = "open" /\ HostSends(t, Packet("OPEN", 0), "opened") /\ UNCHANGED sent
  BY Zenon, <1>1, <1>2, <1>4, HostSent
<1>5. CASE /\ host[t] = "write" /\ HostSends(t, Packet("WRTE", sent[t] + 1), "wait")
           /\ sent' = Set(sent, t, sent[t] + 1)
  BY Zenon, <1>1, <1>2, <1>5, HostSent
<1>6. CASE host[t] = "accept" /\ HostSends(t, Packet("OKAY", 0), "wait") /\ UNCHANGED sent
  BY Zenon, <1>1, <1>2, <1>6, HostSent
<1>7. CASE /\ host[t] \in {"write", "wait"} /\ HostSends(t, Packet("CLSE", 0), "closed")
           /\ UNCHANGED sent
  BY Zenon, <1>1, <1>2, <1>7, HostSent
<1>8. CASE host' = Set(host, t, "unplugged") /\ UNCHANGED <<wire, sent>>
  <2> USE DEF threadVars, socketVars, serviceVars, fileVars
  <2>1. /\ host' \in [T -> HostStates] /\ host'[t] = "unplugged"
        /\ \A u \in T \ {t} : host'[u] = host[u]
    BY Zenon, <1>2, <1>8 DEF Set
  <2>2. StreamTypeOK'
    BY Zenon, <1>1, <1>8, <2>1 DEF StreamTypeOK
  <2>3. CloseInv(t)'
    BY Zenon, <1>1, <1>8 DEF StreamInv, CloseInv
  <2>4. TurnInv(t)'
    BY Zenon, <1>1, <1>8, <2>1 DEF StreamInv, TurnInv, HostHasTurn
  <2>5. OrderInv(t)'
    BY Zenon, <1>1, <1>8, <2>1 DEF StreamInv, OrderInv, Arrived
  <2>6. \A u \in T \ {t} : Elsewhere(u)
    BY Zenon, <1>1, <1>8, <2>1 DEF Elsewhere
  <2> QED
    BY <2>2, <2>3, <2>4, <2>5, <2>6 DEF Kept, StreamInv
<1> QED
  BY Zenon, <1>3, <1>4, <1>5, <1>6, <1>7, <1>8 DEF Host

\* The output thread puts a packet before SYNC(0, 0), or that one, and then
\* nothing; a packet of the host goes from the wire to the main loop.
LEMMA OutputStep ==
    ASSUME StreamTypeOK, NEW t \in T, StreamInv(t),
           OutputSync(t) \/ OutputRead(t) \/ OutputOffline(t),
           UNCHANGED <<in, to_remote, socketVars, serviceVars, host, sent>>
    PROVE  Kept(t)
<1> USE DEF socketVars, serviceVars, fileVars
<1>1. /\ to_main[t] \in Seq(Packets) /\ wire[t] \in Seq(Packets) /\ <<>> \in Seq(Packets)
      /\ to_main \in [T -> Seq(Packets)] /\ wire \in [T -> Seq(Packets)]
      /\ out \in [T -> ThreadPcs] /\ sent[t] \in Nat
  BY DEF StreamTypeOK
<1>2. out[t] \in {"sync", "read", "offline"}
  BY Zenon DEF OutputSync, OutputRead, OutputOffline
<1>3. /\ ~Holds(to_main[t], Offs) /\ ~Holds(to_remote[t], Offs)
      /\ in[t] \notin {"close_all"} \cup Ended
  BY Zenon, <1>2 DEF StreamInv, CloseInv, Ended
<1>4. CASE /\ out' = Set(out, t, "offline") /\ wire' = Set(wire, t, <<>>) /\ UNCHANGED to_main
  <2>1. /\ wire' \in [T -> Seq(Packets)] /\ wire'[t] = <<>>
        /\ out' \in [T -> ThreadPcs] /\ out'[t] = "offline"
        /\ \A u \in T \ {t} : wire'[u] = wire[u] /\ out'[u] = out[u]
    BY Zenon, <1>1, <1>4 DEF Set, ThreadPcs
  <2>2. \A P : ~Holds(wire'[t], P)
    <3>1. \A P : ~Holds(<<>>, P)
      BY Zenon, HoldsEmpty
    <3> QED
      BY Zenon, <2>1, <3>1
  <2>3. StreamTypeOK'
    BY Zenon, <1>4, <2>1 DEF StreamTypeOK
  <2>4. CloseInv(t)'
    BY Zenon, <1>3, <1>4, <2>2 DEF StreamInv, CloseInv
  <2>5. TurnInv(t)'
    BY <1>4, <2>1, <2>2 DEF StreamInv, TurnInv, HostHasTurn
  <2>6. OrderInv(t)'
    BY Zenon, <1>4, <2>2 DEF StreamInv, OrderInv, Arrived
  <2>7. \A u \in T \ {t} : Elsewhere(u)
    BY Zenon, <1>4, <2>1 DEF Elsewhere
  <2> QED
    BY Zenon, <2>3, <2>4, <2>5, <2>6, <2>7 DEF Kept, StreamInv
<1>5. ASSUME NEW p \in Packets, to_main' = Set(to_main, t, Append(to_main[t], p)),
             NEW next \in {"read", "kick"}, out' = Set(out, t, next), p \in Offs => next = "kick",
             NEW w \in {<<>>, wire[t]}, wire' = Set(wire, t, w),
             p \in Claims => w = <<>> /\ wire[t] # <<>> /\ p = wire[t][1]
      PROVE  Kept(t)
  <2>1. /\ to_main'[t] = Append(to_main[t], p) /\ to_main' \in [T -> Seq(Packets)]
        /\ wire' \in [T -> Seq(Packets)] /\ wire'[t] = w
        /\ out' \in [T -> ThreadPcs] /\ out'[t] = next
        /\ \A u \in T \ {t} : wire'[u] = wire[u] /\ out'[u] = out[u] /\ to_main'[u] = to_main[u]
    BY Zenon, <1>1, <1>5, HoldsAppend DEF Set, ThreadPcs
  <2>2. /\ \A P : Holds(to_main'[t], P) <=> Holds(to_main[t], P) \/ p \in P
        /\ \A P : Holds(wire'[t], P) => Holds(wire[t], P)
        /\ LastOnly(to_main'[t], Offs)
    <3>1. \A P : Holds(to_main'[t], P) <=> Holds(to_main[t], P) \/ p \in P
      BY <1>1, <2>1, HoldsAppend
    <3>2. \A P : Holds(wire'[t], P) => Holds(wire[t], P)
      <4>1. \A P : ~Holds(<<>>, P)
        BY Zenon, HoldsEmpty
      <4> QED
        BY Zenon, <2>1, <4>1
    <3>3. LastOnly(to_main'[t], Offs)
      BY <1>1, <1>3, <2>1, HoldsAppend
    <3> QED
      BY Zenon, <3>1, <3>2, <3>3
  <2>3. p \in Claims => /\ ~Holds(wire'[t], Claims)
                        /\ \A P : p \in P => Holds(wire[t], P)
    <3> SUFFICES ASSUME p \in Claims
                 PROVE  ~Holds(wire'[t], Claims) /\ \A P : p \in P => Holds(wire[t], P)
      BY Zenon
    <3>1. wire'[t] = <<>> /\ wire[t] # <<>> /\ p = Head(wire[t])
      BY <1>1, <1>5, <2>1
    <3>2. ~Holds(wire'[t], Claims)
      BY Zenon, <3>1, HoldsEmpty
    <3>3. \A P : p \in P => Holds(wire[t], P)
      BY Zenon, <1>1, <3>1, HoldsTail
    <3> QED
      BY Zenon, <3>2, <3>3
  <2>4. AtMostOne(to_main'[t], Claims)
    <3>1. AtMostOne(to_main[t], Claims) /\ (~Holds(to_main[t], Claims) \/ p \notin Claims)
      BY Zenon, <2>3 DEF StreamInv, TurnInv
    <3> QED
      BY <1>1, <2>1, <3>1, HoldsAppend
  <2>5. Len(wire'[t]) <= 1
    <3>1. Len(wire[t]) <= 1
      BY Zenon DEF StreamInv, TurnInv
    <3> QED
      BY Zenon, <2>1, <3>1, EmptyQueue
  <2>6. /\ p \in Opens => p \in Claims
        /\ p \in Writes => p \in Claims
        /\ p \in Wrong(sent[t]) => p \in Claims
    BY Zenon, <1>1, PacketSets
  <2>7. StreamTypeOK'
    BY Zenon, <2>1 DEF StreamTypeOK
  <2>8. CloseInv(t)'
    <3>1. ~Holds(wire'[t], Offs) /\ (Holds(to_main'[t], Offs) => out'[t] \in Ended)
      BY Zenon, <1>3, <1>5, <2>1, <2>2 DEF StreamInv, CloseInv, Ended
    <3> QED
      BY Zenon, <1>3, <2>2, <3>1 DEF CloseInv
  <2>9. TurnInv(t)'
    <3>1. /\ HostHasTurn(t)' <=> HostHasTurn(t)
          /\ Len(backlog'[t]) <= 1 /\ AtMostOne(to_remote'[t], Okays)
      BY Zenon DEF HostHasTurn, StreamInv, TurnInv
    <3>2. Holds(wire'[t], Claims) => Holds(wire[t], Claims) /\ ~Holds(to_main'[t], Claims)
      BY Zenon, <2>2, <2>3 DEF StreamInv, TurnInv
    <3>3. Holds(to_main'[t], Claims) => Holds(wire[t], Claims) \/ Holds(to_main[t], Claims)
      BY Zenon, <2>2, <2>3
    <3> QED
      BY Zenon, <2>4, <2>5, <3>1, <3>2, <3>3 DEF StreamInv, TurnInv
  <2>10. OrderInv(t)'
    <3>1. /\ Holds(to_main'[t], Opens) => Holds(wire[t], Opens) \/ Holds(to_main[t], Opens)
          /\ Holds(to_main'[t], Writes) => Holds(wire[t], Writes) \/ Holds(to_main[t], Writes)
          /\ ~Holds(to_main'[t], Wrong(sent[t]))
      BY Zenon, <2>2, <2>3, <2>6 DEF StreamInv, OrderInv
    <3> QED
      BY Zenon, <2>2, <3>1 DEF StreamInv, OrderInv, Arrived
  <2>11. \A u \in T \ {t} : Elsewhere(u)
    BY Zenon, <2>1 DEF Elsewhere
  <2> QED
    BY Zenon, <2>4, <2>7, <2>8, <2>9, <2>10, <2>11 DEF Kept, StreamInv
<1>6. wire = Set(wire, t, wire[t]) /\ out = Set(out, t, out[t])
  BY Zenon, <1>1 DEF Set
<1>7. CASE OutputSync(t)
  <2>1. Packet("SYNC", 1) \in Packets /\ Packet("SYNC", 1) \notin Offs /\ Packet("SYNC", 1) \notin Claims
    BY PacketIs, PacketSets DEF Commands
  <2> QED
    BY Zenon, <1>5, <1>6, <1>7, <2>1 DEF OutputSync, OutputSends
<1>8. CASE OutputOffline(t)
  <2>1. Packet("SYNC", 0) \in Packets /\ Packet("SYNC", 0) \notin Claims
    BY PacketIs, PacketSets DEF Commands
  <2> QED
    BY Zenon, <1>5, <1>6, <1>8, <2>1 DEF OutputOffline, OutputSends
<1>9. CASE OutputRead(t) /\ wire[t] # <<>> /\ OutputSends(t, wire[t][1])
           /\ wire' = Set(wire, t, <<>>) /\ UNCHANGED out
  <2>1. wire[t][1] \in Packets /\ wire[t][1] \notin Offs /\ out[t] = "read"
    BY Zenon, <1>1, <1>9, HoldsTail DEF StreamInv, CloseInv, OutputRead
  <2> QED
    BY Zenon, <1>5, <1>6, <1>9, <2>1 DEF OutputSends
<1> QED
  BY Zenon, <1>4, <1>7, <1>8, <1>9 DEF OutputRead

\* The input thread takes a packet; an OKAY gives the turn to the host, which
\* loses it when it does not wait for one.
LEMMA InputStep ==
    ASSUME StreamTypeOK, NEW t \in T, StreamInv(t), InputRead(t),
           UNCHANGED <<out, to_main, serviceVars, wire, sent>>
    PROVE  Kept(t)
<1> USE DEF serviceVars, fileVars
<1> DEFINE p == Head(to_remote[t])
<1>1. /\ to_remote[t] # <<>> /\ to_remote' = Set(to_remote, t, Tail(to_remote[t]))
      /\ in[t] \in {"inactive", "active"} /\ UNCHANGED socketVars
      /\ in' = Set(in, t, IF p.cmd # "SYNC" THEN in[t]
                          ELSE IF p.n = 0 THEN "close_all" ELSE "active")
      /\ HostGets(t, p) \/ host' = host
  BY Zenon DEF InputRead
<1>2. /\ to_remote[t] \in Seq(Packets) /\ p \in Packets /\ Tail(to_remote[t]) \in Seq(Packets)
      /\ to_remote \in [T -> Seq(Packets)]
      /\ in \in [T -> ThreadPcs] /\ host \in [T -> HostStates]
  BY Zenon, <1>1, HoldsTail DEF StreamTypeOK
<1>3. /\ to_remote' \in [T -> Seq(Packets)] /\ to_remote'[t] = Tail(to_remote[t])
      /\ \A u \in T \ {t} : to_remote'[u] = to_remote[u]
  BY Zenon, <1>1, <1>2 DEF Set
<1>4. /\ in' \in [T -> ThreadPcs] /\ in'[t] \in {"inactive", "active", "close_all"}
      /\ in'[t] = "close_all" => p \in Offs
      /\ \A u \in T \ {t} : in'[u] = in[u]
  <2>1. p \in Offs <=> p.cmd = "SYNC" /\ p.n = 0
    BY Zenon, <1>2, PacketSets, 0 \in Nat
  <2> QED
    BY Zenon, <1>1, <1>2, <2>1 DEF Set, ThreadPcs
<1>5. /\ host' \in [T -> HostStates] /\ \A u \in T \ {t} : host'[u] = host[u]
      /\ \/ host'[t] = host[t]
         \/ host[t] = "cnxn" /\ host'[t] = "open"
         \/ host[t] \in {"opened", "wait"} /\ p \in Okays /\ host'[t] = "write"
         \/ host[t] \in {"opened", "wait"} /\ host'[t] \in {"closed", "accept"}
  <2>1. p \in Okays <=> p.cmd = "OKAY"
    BY Zenon, <1>2, PacketSets, 0 \in Nat
  <2>2. CASE HostGets(t, p)
    <3>1. PICK next : /\ host' = [host EXCEPT ![t] = next]
                      /\ \/ next = host[t]
                         \/ host[t] = "cnxn" /\ next = "open"
                         \/ host[t] \in {"opened", "wait"} /\ p.cmd = "OKAY" /\ next = "write"
                         \/ host[t] \in {"opened", "wait"} /\ next \in {"closed", "accept"}
      BY Zenon, <2>2 DEF HostGets, Set
    <3>2. next \in HostStates
      BY Zenon, <1>2, <3>1 DEF HostStates
    <3> QED
      BY Zenon, <1>2, <2>1, <3>1, <3>2
  <2> QED
    BY Zenon, <1>1, <1>2, <2>2
<1>6. /\ \A P : Holds(to_remote[t], P) <=> p \in P \/ Holds(to_remote'[t], P)
      /\ AtMostOne(to_remote'[t], Okays) /\ (p \in Okays => ~Holds(to_remote'[t], Okays))
  <2>1. AtMostOne(to_remote[t], Okays)
    BY Zenon DEF StreamInv, TurnInv
  <2>2. \A P : Holds(to_remote[t], P) <=> p \in P \/ Holds(Tail(to_remote[t]), P)
    BY Zenon, <1>1, <1>2, HoldsTail
  <2>3. /\ AtMostOne(Tail(to_remote[t]), Okays)
        /\ p \in Okays => ~Holds(Tail(to_remote[t]), Okays)
    BY Zenon, <1>1, <1>2, <2>1, HoldsTail
  <2> QED
    BY Zenon, <1>3, <2>2, <2>3
<1>7. peer' = peer /\ backlog' = backlog /\ socket' = socket
  BY Zenon, <1>1 DEF socketVars
<1>8. StreamTypeOK'
  BY Zenon, <1>3, <1>4, <1>5, <1>7 DEF StreamTypeOK
<1>9. CloseInv(t)'
  <2>1. in'[t] \in {"close_all"} \cup Ended => Holds(to_remote[t], Offs)
    BY Zenon, <1>4, <1>6 DEF Ended
  <2> QED
    BY Zenon, <1>6, <1>7, <2>1 DEF StreamInv, CloseInv
<1>10. TurnInv(t)'
  <2>1. HostHasTurn(t)' => HostHasTurn(t) \/ p \in Okays
    BY Zenon, <1>5 DEF HostHasTurn
  <2>2. p \in Okays => /\ ~Holds(wire[t], Claims) /\ ~Holds(to_main[t], Claims)
                       /\ backlog[t] = <<>>
    BY Zenon, <1>6 DEF StreamInv, TurnInv
  <2> QED
    BY Zenon, <1>6, <1>7, <2>1, <2>2 DEF StreamInv, TurnInv
<1>11. OrderInv(t)'
  <2>1. host'[t] = "write" => host[t] = "write" \/ Holds(to_remote[t], Okays)
    BY Zenon, <1>5, <1>6
  <2>2. host'[t] \in {"new", "cnxn", "open"} => host[t] \in {"new", "cnxn", "open"}
    BY Zenon, <1>5
  <2> QED
    BY Zenon, <1>6, <1>7, <2>1, <2>2 DEF StreamInv, OrderInv, Arrived
<1>12. \A u \in T \ {t} : Elsewhere(u)
  BY Zenon, <1>3, <1>4, <1>5, <1>7 DEF Elsewhere
<1> QED
  BY Zenon, <1>8, <1>9, <1>10, <1>11, <1>12 DEF Kept, StreamInv

\* Steps that change the threads' states only: a thread winds down, or
\* a transport that was unknown is started.
LEMMA ThreadsOnly ==
    ASSUME StreamTypeOK, NEW t \in T, StreamInv(t),
           out' \in [T -> ThreadPcs], in' \in [T -> ThreadPcs],
           \A u \in T \ {t} : out'[u] = out[u] /\ in'[u] = in[u],
           \/ out[t] \in Ended => out'[t] \in Ended
           \/ out[t] = "none" /\ in[t] = "none",
           in'[t] \in {"close_all"} \cup Ended => in[t] \in {"close_all"} \cup Ended,
           UNCHANGED <<to_main, to_remote, socketVars, serviceVars, hostVars>>
    PROVE  Kept(t)
<1> USE DEF socketVars, serviceVars, fileVars, hostVars
<1>1. StreamTypeOK'
  BY Zenon DEF StreamTypeOK
<1>2. CloseInv(t)'
  BY Zenon DEF StreamInv, CloseInv, Ended
<1>3. TurnInv(t)'
  BY Zenon DEF StreamInv, TurnInv, HostHasTurn
<1>4. OrderInv(t)'
  BY Zenon DEF StreamInv, OrderInv, Arrived
<1>5. \A u \in T \ {t} : Elsewhere(u)
  BY Zenon DEF Elsewhere
<1> QED
  BY Zenon, <1>1, <1>2, <1>3, <1>4, <1>5 DEF Kept, StreamInv

\* What is in the file: a service that has truncated it finds there all it
\* wrote, because whoever writes puts a block in its place.
LEMMA FileStep ==
    ASSUME TransferInv, NEW t \in T, sideload_service(t), Kept(t)
    PROVE  FileInv'
<1> USE DEF Set
<1>1. /\ service \in [T -> ServiceStates] /\ pipe \in [T -> Nat] /\ offset \in [T -> Nat]
      /\ file \in [1 .. Blocks -> Nat] /\ origin \in [1 .. Blocks -> Nat]
      /\ StreamInv(t) /\ FileInv
      /\ \A u \in T : offset[u] <= Blocks
  BY Zenon DEF TransferInv, FileInv, StreamTypeOK, StreamInv, OrderInv
<1>2. CASE ServiceCreate(t)
  <2>1. offset' = offset /\ offset[t] = 0
    BY Zenon, <1>1, <1>2 DEF ServiceCreate, StreamInv, OrderInv
  <2>2. CASE file' = NoFile /\ origin' = NoFile /\ writer' = t
    <3>1. origin' \in [1 .. Blocks -> Nat]
      BY <2>2 DEF NoFile
    <3>2. \A i : i \notin 1 .. offset'[t]
      BY <2>1
    <3> QED
      BY Zenon, <2>2, <3>1, <3>2 DEF FileInv
  <2>3. CASE UNCHANGED fileVars
    BY Zenon, <1>1, <2>1, <2>3 DEF FileInv, Its, fileVars
  <2> QED
    BY Zenon, <1>2, <2>2, <2>3 DEF ServiceCreate
<1>3. CASE ServiceRead(t)
  <2>1. CASE UNCHANGED <<fileVars, offset>>
    BY Zenon, <1>1, <2>1 DEF FileInv, Its, fileVars
  <2>2. CASE /\ pipe[t] # 0 /\ FileWrite(t)
             /\ offset' = [offset EXCEPT ![t] = offset[t] + 1]
    <3>1. offset[t] \in Nat /\ offset[t] + 1 \in 1 .. Blocks /\ pipe[t] = offset[t] + 1
      BY <1>1, <1>3, <2>2, SideloaderAssumption DEF StreamInv, OrderInv, ServiceRead
    <3>2. /\ file' = [file EXCEPT ![offset[t] + 1] = pipe[t]]
          /\ origin' = [origin EXCEPT ![offset[t] + 1] = t]
          /\ writer' = writer /\ intruders \subseteq intruders'
          /\ t = writer \/ t \in intruders'
      BY Zenon, <2>2 DEF FileWrite
    <3>3. \A i \in 1 .. Blocks :
             \/ file'[i] = i /\ origin'[i] = t
             \/ file'[i] = file[i] /\ origin'[i] = origin[i]
      BY Zenon, <1>1, <3>1, <3>2
    <3>4. file'[offset[t] + 1] = offset[t] + 1 /\ origin'[offset[t] + 1] = t
      BY Zenon, <1>1, <3>1, <3>2
    <3>5. ASSUME NEW u \in T, writer = u, NEW i \in 1 .. offset'[u]
          PROVE  file'[i] = i /\ Its(u, i)'
      <4>1. i \in 1 .. offset[u] \/ (u = t /\ i = offset[t] + 1)
        BY <1>1, <2>2, <3>1, <3>5
      <4>2. i \in 1 .. offset[u] => i \in 1 .. Blocks /\ file[i] = i /\ Its(u, i)
        BY <1>1, <3>5, SideloaderAssumption DEF FileInv
      <4> QED
        BY Zenon, <3>2, <3>3, <3>4, <3>5, <4>1, <4>2 DEF Its
    <3>6. origin' \in [1 .. Blocks -> Nat]
      <4>1. t \in Nat
        BY DEF T
      <4> QED
        BY Zenon, <1>1, <3>2, <4>1
    <3> QED
      BY Zenon, <3>2, <3>5, <3>6 DEF FileInv
  <2> QED
    BY Zenon, <1>3, <2>1, <2>2 DEF ServiceRead
<1>4. CASE ServiceFinish(t)
  BY Zenon, <1>1, <1>4 DEF FileInv, Its, ServiceFinish, fileVars
<1> QED
  BY Zenon, <1>2, <1>3, <1>4 DEF sideload_service

\* A step of one session keeps the invariant of all.
LEMMA SessionStep ==
    ASSUME TransferInv, NEW t \in T, Kept(t), FileInv' \/ UNCHANGED <<fileVars, offset>>
    PROVE  TransferInv'
<1>1. \A u \in T \ {t} : StreamInv(u)'
  BY Zenon, StreamKept DEF TransferInv, Kept
<1>2. FileInv'
  BY Zenon DEF TransferInv, FileInv, Its, fileVars
<1> QED
  BY Zenon, <1>1, <1>2 DEF TransferInv, Kept

\* A transport is started, or removed with its remote socket.
LEMMA TransferRegistered ==
    ASSUME SideInv, TransferInv, transport_registration_func PROVE TransferInv'
<1>0. 0 # 1
  OBVIOUS
<1>1. PICK a \in {0, 1}, t \in T :
         Head(registration).action = a /\ Head(registration).transport = t /\ Has(a, t)
  BY Zenon, MessageTaken DEF transport_registration_func, SideInv, SideTypeOK, LifeInv
<1>2. UNCHANGED <<to_main, to_remote, serviceVars, hostVars>>
  BY Zenon DEF transport_registration_func
<1>3. StreamTypeOK /\ StreamInv(t) /\ out \in [T -> ThreadPcs] /\ in \in [T -> ThreadPcs]
  BY Zenon DEF TransferInv, StreamTypeOK
<1>4. CASE a = 1
  <2>1. out[t] = "none" /\ in[t] = "none"
    <3>1. alive[t] = "none"
      BY Zenon, <1>1, <1>4 DEF SideInv, LifeInv
    <3> QED
      BY Zenon, <3>1 DEF SideInv, LifeInv
  <2>2. /\ out' = Set(out, t, "sync") /\ in' = Set(in, t, "inactive") /\ UNCHANGED socketVars
    BY Zenon, <1>0, <1>1, <1>4 DEF transport_registration_func
  <2>3. /\ out' \in [T -> ThreadPcs] /\ in' \in [T -> ThreadPcs] /\ in'[t] = "inactive"
        /\ \A u \in T \ {t} : out'[u] = out[u] /\ in'[u] = in[u]
    BY Zenon, <1>3, <2>2 DEF Set, ThreadPcs
  <2>4. Kept(t)
    BY Zenon, <1>2, <1>3, <2>1, <2>2, <2>3, ThreadsOnly DEF Ended
  <2> QED
    BY Zenon, <1>2, <2>4, SessionStep DEF serviceVars, fileVars
<1>5. CASE a = 0
  <2>1. UNCHANGED threadVars /\ (LocalClose(t) \/ UNCHANGED <<socket, peer, backlog>>)
    BY Zenon, <1>0, <1>1, <1>5 DEF transport_registration_func, socketVars
  <2>2. ~Holds(<<>>, Okays) /\ ~Holds(<<>>, Offs)
    BY Zenon, HoldsEmpty
  <2>3. Kept(t)
    <3>1. UNCHANGED <<service, pipe, offset, file>> /\ to_main' = to_main /\ to_remote' = to_remote
      BY Zenon, <1>2 DEF serviceVars, fileVars
    <3> QED
      BY Zenon, <1>2, <1>3, <2>1, <2>2, <3>1, EmptyQueue, QuietStep
  <2> QED
    BY Zenon, <1>2, <2>3, SessionStep DEF serviceVars, fileVars
<1> QED
  BY Zenon, <1>4, <1>5

\* A thread of session t goes on.
LEMMA TransferThreads ==
    ASSUME TransferInv, NEW t \in T, output_thread(t) \/ input_thread(t) PROVE TransferInv'
<1>1. StreamTypeOK /\ StreamInv(t) /\ out \in [T -> ThreadPcs] /\ in \in [T -> ThreadPcs]
  BY Zenon DEF TransferInv, StreamTypeOK
<1>2. UNCHANGED serviceVars
  BY Zenon DEF output_thread, input_thread
<1>3. Kept(t)
  <2>1. CASE output_thread(t) /\ WindDown(t, out)
    <3>1. UNCHANGED <<in, to_main, to_remote, socketVars, serviceVars, hostVars>>
      BY Zenon, <2>1 DEF output_thread, WindDown, OutputSync, OutputRead, OutputOffline, hostVars
    <3>2. PICK next \in {"unref", "usb_kick", "gone"} : out' = [out EXCEPT ![t] = next]
      BY Zenon, <2>1 DEF WindDown, Kick, Set
    <3>3. /\ out' \in [T -> ThreadPcs] /\ out'[t] \in Ended
          /\ \A u \in T \ {t} : out'[u] = out[u]
      BY Zenon, <1>1, <3>2 DEF Ended, ThreadPcs
    <3> QED
      BY Zenon, <1>1, <3>1, <3>3, ThreadsOnly
  <2>2. CASE output_thread(t) /\ ~WindDown(t, out)
    BY Zenon, <1>1, <2>2, OutputStep DEF output_thread
  <2>3. CASE input_thread(t) /\ InputRead(t)
    BY Zenon, <1>1, <2>3, InputStep DEF input_thread
  <2>4. CASE input_thread(t) /\ ~InputRead(t)
    <3>1. UNCHANGED <<out, to_main, to_remote, socketVars, serviceVars, hostVars>>
      <4>1. in[t] = "close_all" => peer[t] = 0
        BY Zenon, <1>1 DEF StreamInv, CloseInv
      <4> QED
        BY <2>4, <4>1 DEF input_thread, InputCloseAll, hostVars
    <3>2. in[t] \in {"close_all"} \cup Ended
      BY Zenon, <2>4 DEF input_thread, InputCloseAll, WindDown, Ended
    <3>3. PICK next \in {"kick", "unref", "usb_kick", "gone"} : in' = [in EXCEPT ![t] = next]
      BY Zenon, <2>4 DEF input_thread, InputCloseAll, WindDown, Kick, Set
    <3>4. in' \in [T -> ThreadPcs] /\ \A u \in T \ {t} : in'[u] = in[u]
      BY Zenon, <1>1, <3>3 DEF ThreadPcs
    <3> QED
      BY ZenonT(30), <1>1, <3>1, <3>2, <3>4, ThreadsOnly
  <2> QED
    BY Zenon, <2>1, <2>2, <2>3, <2>4
<1> QED
  BY Zenon, <1>2, <1>3, SessionStep DEF serviceVars, fileVars

\* The inductive invariant of the stream, for all sessions side by side.
THEOREM TransferInvariant == SideSpec => []TransferInv
<1>1. SideInit => TransferInv
  <2> SUFFICES ASSUME SideInit PROVE TransferInv
    OBVIOUS
  <2>1. StreamTypeOK
    BY DEF SideInit, StreamTypeOK, HostStates, ServiceStates, SocketStates, ThreadPcs, NoFile
  <2>2. FileInv
    BY DEF SideInit, FileInv, NoFile, T
  <2>3. \A P : ~Holds(<<>>, P) /\ AtMostOne(<<>>, P) /\ LastOnly(<<>>, P)
    BY Zenon, HoldsEmpty
  <2>4. ASSUME NEW t \in T PROVE StreamInv(t)
    <3>1. CloseInv(t)
      BY Zenon, <2>3 DEF SideInit, CloseInv, Ended
    <3>2. TurnInv(t)
      BY <2>3 DEF SideInit, TurnInv
    <3>3. OrderInv(t)
      BY <2>3, SideloaderAssumption DEF SideInit, OrderInv
    <3> QED
      BY Zenon, <3>1, <3>2, <3>3 DEF StreamInv
  <2> QED
    BY Zenon, <2>1, <2>2, <2>4 DEF TransferInv
<1>2. SideInv /\ TransferInv /\ [SideNext]_sideVars => TransferInv'
  <2> SUFFICES ASSUME SideInv, TransferInv, [SideNext]_sideVars PROVE TransferInv'
    OBVIOUS
  <2>0. StreamTypeOK /\ \A t \in T : StreamInv(t)
    BY Zenon DEF TransferInv
  <2>1. CASE \/ UNCHANGED sideVars \/ usb_open_thread \/ \E t \in T : ServiceExit(t)
    <3>1. UNCHANGED <<to_main, to_remote, wire, host, sent, service, pipe, offset, backlog,
                      socket, peer, out, in, fileVars>>
      BY Zenon, <2>1 DEF sideVars, usb_open_thread, ServiceExit, threadVars, socketVars, serviceVars, fileVars,
                  hostVars
    <3>2. StreamTypeOK' /\ FileInv'
      BY Zenon, <2>0, <3>1 DEF TransferInv, StreamTypeOK, FileInv, Its, fileVars
    <3>3. \A t \in T : StreamInv(t)'
      BY Zenon, <2>0, <3>1, StreamKept DEF Elsewhere
    <3> QED
      BY Zenon, <3>2, <3>3 DEF TransferInv
  <2>2. CASE transport_registration_func
    BY Zenon, <2>2, TransferRegistered
  <2>3. ASSUME NEW t \in T, transport_socket_events(t) PROVE TransferInv'
    <3>1. UNCHANGED <<fileVars, offset>>
      BY Zenon, <2>3 DEF transport_socket_events, handle_packet, HandleSync, HandleConnect, HandleOpen,
                  HandleOkay, HandleClose, HandleWrite, HandleDropped, NoService, serviceVars, fileVars
    <3> QED
      BY Zenon, <2>0, <2>3, <3>1, PacketHandled, SessionStep
  <2>4. ASSUME NEW t \in T, local_socket_event_func(t) PROVE TransferInv'
    <3>1. UNCHANGED <<fileVars, offset>>
      BY Zenon, <2>4 DEF local_socket_event_func, SocketWrite, SocketRead
    <3> QED
      BY <2>0, <2>4, <3>1, SocketEvent, SessionStep
  <2>5. ASSUME NEW t \in T, output_thread(t) \/ input_thread(t) PROVE TransferInv'
    BY Zenon, <2>5, TransferThreads
  <2>6. ASSUME NEW t \in T, sideload_service(t) PROVE TransferInv'
    BY Zenon, <2>0, <2>6, ServiceStep, FileStep, SessionStep
  <2>7. ASSUME NEW t \in T, Host(t) PROVE TransferInv'
    <3>1. UNCHANGED <<fileVars, offset>>
      BY Zenon, <2>7 DEF Host, serviceVars, fileVars
    <3> QED
      BY <2>0, <2>7, <3>1, HostStep, SessionStep
  <2> QED
    BY Zenon, <2>1, <2>2, <2>3, <2>4, <2>5, <2>6, <2>7 DEF SideNext, MainLoop
<1> QED
  BY <1>1, <1>2, SideInvariant, PTL DEF SideSpec

\* The input thread's close_all_sockets touches no socket of the main loop.
THEOREM CloseAllFindsNoneCorrect == SideSpec => []CloseAllFindsNone
<1>1. TransferInv => CloseAllFindsNone
  BY DEF TransferInv, StreamInv, CloseInv, CloseAllFindsNone
<1> QED
  BY <1>1, TransferInvariant, PTL

\* A service that ends with success finds in the file it created every block in
\* its place, of its own package unless a service of another session that was
\* still running wrote it, in whatever order the sessions' threads run.
THEOREM WholeFileCorrect == SideSpec => []WholeFile
<1>1. TransferInv => WholeFile
  BY Zenon DEF TransferInv, StreamInv, OrderInv, FileInv, Its, WholeFile
<1> QED
  BY <1>1, TransferInvariant, PTL

=============================================================================
