-------------------------- MODULE SideloaderProofs --------------------------
(***************************************************************************)
(* For any number of times the cable is pulled and plugged in: a thread of *)
(* an old transport never closes the device of a new one, and a transport  *)
(* is removed once, after both its threads.                                *)
(***************************************************************************)
EXTENDS Sideloader, TLAPS

Messages == [action : {0, 1}, transport : T]

\* A message is on its way to transport_registration_func.
Has(action, t) == \E i \in 1 .. Len(registration) : registration[i] = Message(action, t)

Once == \A i, j \in 1 .. Len(registration) : registration[i] = registration[j] => i = j

ThreadPcs == {"none", "sync", "read", "offline", "inactive", "active", "close_all",
              "kick", "usb_kick", "unref", "gone"}

SideTypeOK ==
    /\ registration \in Seq(Messages)
    /\ sessions \in Nat /\ sessions <= MaxSessions /\ usb_fd \in {0, sessions}
    /\ opener \in {"wait", "register"} /\ (opener = "register" => sessions # 0)
    /\ out \in [T -> ThreadPcs] /\ in \in [T -> ThreadPcs]
    /\ kicked \in [T -> {0, 1}] /\ ref_count \in [T -> Int]
    /\ alive \in [T -> {"none", "up", "freed"}]
    /\ peer \in [T -> {0, 1}]

\* The device of a session is open exactly until its transport is kicked and
\* the thread that did it has closed the device.
DeviceInv ==
    \A t \in T :
        /\ t <= sessions /\ kicked[t] = 0 => usb_fd = t
        /\ kicked[t] = 1 => t <= sessions
        /\ kicked[t] = 1 /\ "usb_kick" \notin {out[t], in[t]} => usb_fd # t
        /\ "usb_kick" \in {out[t], in[t]} => usb_fd = t /\ kicked[t] = 1 /\ out[t] # in[t]

Live(pc) == IF pc = "gone" THEN 0 ELSE 1

\* A transport's life: unknown, registered, running with ref_count threads,
\* about to be removed, freed.
LifeInv ==
    /\ Once
    /\ \A t \in T :
        /\ (alive[t] = "none" <=> out[t] = "none") /\ (alive[t] = "none" <=> in[t] = "none")
        /\ t > sessions \/ (t = sessions /\ opener = "register") =>
               alive[t] = "none" /\ ~Has(1, t)
        /\ Has(1, t) => alive[t] = "none"
        /\ alive[t] = "none" => ~Has(0, t)
        /\ alive[t] = "up" => /\ ref_count[t] = Live(out[t]) + Live(in[t])
                              /\ Has(0, t) <=> out[t] = "gone" /\ in[t] = "gone"
        /\ alive[t] = "freed" => out[t] = "gone" /\ in[t] = "gone" /\ peer[t] = 0 /\ ~Has(0, t)

SideInv == SideTypeOK /\ DeviceInv /\ LifeInv

\* Different messages are different records.
LEMMA MessageFacts ==
    ASSUME NEW a, NEW b, NEW t, NEW u
    PROVE  /\ Message(a, t) = Message(b, u) <=> a = b /\ t = u
           /\ Message(a, t).action = a /\ Message(a, t).transport = t
BY Zenon DEF Message

\* Messages are about transports.
LEMMA MessageType == ASSUME NEW a \in {0, 1}, NEW t \in T PROVE Message(a, t) \in Messages
BY Zenon DEF Message, Messages

\* A message that is not yet on its way is sent.
LEMMA MessageSent ==
    ASSUME registration \in Seq(Messages), Once, NEW a \in {0, 1}, NEW t \in T, ~Has(a, t),
           registration' = Append(registration, Message(a, t))
    PROVE  /\ registration' \in Seq(Messages) /\ Once'
           /\ \A b \in {0, 1}, u \in T : Has(b, u)' <=> Has(b, u) \/ (b = a /\ u = t)
<1> DEFINE n == Len(registration)
<1>1. /\ registration' \in Seq(Messages) /\ Len(registration') = n + 1 /\ n \in Nat
      /\ \A i \in 1 .. n : registration'[i] = registration[i]
      /\ registration'[n + 1] = Message(a, t)
  BY MessageType
<1> HIDE DEF n
<1>2. \A i \in 1 .. n : registration[i] # Message(a, t)
  BY Zenon DEF Has, n
<1>3. Once'
  BY <1>1, <1>2 DEF Once, n
<1>4. ASSUME NEW b \in {0, 1}, NEW u \in T
      PROVE  Has(b, u)' <=> Has(b, u) \/ (b = a /\ u = t)
  <2>1. Has(b, u)' <=> \E i \in 1 .. n + 1 : registration'[i] = Message(b, u)
    BY Zenon, <1>1 DEF Has
  <2>2. Has(b, u) <=> \E i \in 1 .. n : registration[i] = Message(b, u)
    BY Zenon DEF Has, n
  <2>3. \A i \in 1 .. n + 1 : i \in 1 .. n \/ i = n + 1
    BY <1>1
  <2>4. Message(a, t) = Message(b, u) <=> b = a /\ u = t
    BY MessageFacts
  <2> QED
    BY <1>1, <2>1, <2>2, <2>3, <2>4
<1> QED
  BY Zenon, <1>1, <1>3, <1>4

\* The first message is taken.
LEMMA MessageTaken ==
    ASSUME registration \in Seq(Messages), Once, registration # <<>>,
           registration' = Tail(registration)
    PROVE  \E a \in {0, 1}, t \in T :
             /\ Head(registration).action = a /\ Head(registration).transport = t
             /\ Has(a, t) /\ registration' \in Seq(Messages) /\ Once'
             /\ \A b \in {0, 1}, u \in T : Has(b, u)' <=> Has(b, u) /\ ~(b = a /\ u = t)
<1> DEFINE n == Len(registration)
<1>1. /\ n \in Nat \ {0} /\ Head(registration) = registration[1]
      /\ registration[1] \in Messages
      /\ registration' \in Seq(Messages) /\ Len(registration') = n - 1
      /\ \A i \in 1 .. n - 1 : registration'[i] = registration[i + 1]
  OBVIOUS
<1>2. PICK a \in {0, 1}, t \in T : registration[1] = Message(a, t)
  BY Zenon, <1>1 DEF Messages, Message
<1> HIDE DEF n
<1>3. Once'
  BY <1>1 DEF Once, n
<1>4. ASSUME NEW b \in {0, 1}, NEW u \in T
      PROVE  Has(b, u)' <=> Has(b, u) /\ ~(b = a /\ u = t)
  <2>1. Has(b, u)' <=> \E i \in 1 .. n - 1 : registration[i + 1] = Message(b, u)
    BY Zenon, <1>1 DEF Has
  <2>2. Has(b, u) <=> \E i \in 1 .. n : registration[i] = Message(b, u)
    BY Zenon DEF Has, n
  <2>3. Message(a, t) = Message(b, u) <=> b = a /\ u = t
    BY MessageFacts
  <2>4. \A i \in 1 .. n - 1 : i + 1 \in 1 .. n /\ i + 1 # 1
    BY <1>1
  <2>5. \A i \in 1 .. n : i = 1 \/ (i - 1 \in 1 .. n - 1 /\ (i - 1) + 1 = i)
    BY <1>1
  <2>6. \A i \in 1 .. n : registration[i] = registration[1] => i = 1
    BY <1>1 DEF Once, n
  <2>7. CASE b = a /\ u = t
    BY Zenon, <1>2, <2>1, <2>4, <2>6, <2>7
  <2>8. CASE ~(b = a /\ u = t)
    BY Zenon, <1>2, <2>1, <2>2, <2>3, <2>4, <2>5, <2>8
  <2> QED
    BY Zenon, <2>7, <2>8
<1>5. Has(a, t)
  BY <1>1, <1>2 DEF Has, n
<1> QED
  BY <1>1, <1>2, <1>3, <1>4, <1>5, MessageFacts

\* Steps of the main loop on packets and sockets, of the service and of the
\* host: they leave the threads and the messages alone, and only a transport
\* that is up gets a new remote socket.
LEMMA LifeUntouched ==
    ASSUME SideInv, UNCHANGED <<usbVars, registration, refVars, alive, threadVars>>,
           peer' \in [T -> {0, 1}],
           \A t \in T : peer'[t] = 1 => peer[t] = 1 \/ alive[t] = "up"
    PROVE  SideInv'
<1> USE DEF usbVars, refVars, threadVars
<1>1. SideTypeOK'
  BY Zenon DEF SideInv, SideTypeOK
<1>2. DeviceInv'
  BY Zenon DEF SideInv, DeviceInv
<1>3. LifeInv'
  <2>1. Once' /\ \A a \in {0, 1}, t \in T : Has(a, t)' <=> Has(a, t)
    BY DEF SideInv, LifeInv, Once, Has
  <2>2. \A t \in T : alive[t] = "freed" => peer'[t] = 0
    BY Zenon DEF SideInv, SideTypeOK, LifeInv
  <2> QED
    BY Zenon, <2>1, <2>2 DEF SideInv, LifeInv, Live
<1> QED
  BY Zenon, <1>1, <1>2, <1>3 DEF SideInv

\* The device is opened only when no thread is about to close it.
LEMMA DeviceOpened == ASSUME SideInv, usb_open_thread PROVE SideInv'
<1> USE SideloaderAssumption DEF T
<1>1. UNCHANGED <<ref_count, kicked, alive, out, in, peer>>
  BY Zenon DEF usb_open_thread, refVars, threadVars, socketVars
<1>2. CASE /\ opener = "wait" /\ usb_fd = 0 /\ sessions < MaxSessions
           /\ sessions' = sessions + 1 /\ usb_fd' = sessions + 1
           /\ opener' = "register" /\ UNCHANGED registration
  <2>1. SideTypeOK'
    BY <1>1, <1>2 DEF SideInv, SideTypeOK
  <2>2. DeviceInv'
    BY <1>1, <1>2 DEF SideInv, SideTypeOK, DeviceInv
  <2>3. Once' /\ \A a \in {0, 1}, t \in T : Has(a, t)' <=> Has(a, t)
    BY Zenon, <1>2 DEF SideInv, LifeInv, Once, Has
  <2>4. LifeInv'
    BY <1>1, <1>2, <2>3 DEF SideInv, SideTypeOK, LifeInv, Live
  <2> QED
    BY Zenon, <2>1, <2>2, <2>4 DEF SideInv
<1>3. CASE /\ opener = "register" /\ opener' = "wait"
           /\ registration' = Append(registration, Message(1, sessions))
           /\ UNCHANGED <<usb_fd, sessions>>
  <2>1. sessions \in T /\ ~Has(1, sessions) /\ registration \in Seq(Messages) /\ Once
    BY <1>3 DEF SideInv, SideTypeOK, LifeInv
  <2>2. /\ registration' \in Seq(Messages) /\ Once'
        /\ \A b \in {0, 1}, u \in T : Has(b, u)' <=> Has(b, u) \/ (b = 1 /\ u = sessions)
    BY Zenon, <1>3, <2>1, MessageSent
  <2>3. SideTypeOK'
    BY Zenon, <1>1, <1>3, <2>2 DEF SideInv, SideTypeOK
  <2>4. DeviceInv'
    BY Zenon, <1>1, <1>3 DEF SideInv, DeviceInv
  <2>5. LifeInv'
    BY <1>1, <1>3, <2>1, <2>2 DEF SideInv, SideTypeOK, LifeInv, Live
  <2> QED
    BY <2>3, <2>4, <2>5 DEF SideInv
<1> QED
  BY Zenon, <1>2, <1>3 DEF usb_open_thread

\* The output thread goes on without ending.
LEMMA OutputRuns ==
    ASSUME SideInv, NEW t \in T, NEW next \in ThreadPcs \ {"none", "usb_kick", "gone"},
           out[t] \notin {"none", "usb_kick", "gone"}, out' = Set(out, t, next),
           UNCHANGED <<usbVars, registration, refVars, alive, in>>, peer' \in [T -> {0, 1}],
           \A u \in T : peer'[u] = 1 => peer[u] = 1
    PROVE  SideInv'
<1> USE DEF usbVars, refVars, Set
<1>1. SideTypeOK'
  BY Zenon DEF SideInv, SideTypeOK
<1>2. /\ out'[t] = next
      /\ \A u \in T \ {t} : out'[u] = out[u]
  BY Zenon DEF SideInv, SideTypeOK
<1>3. DeviceInv'
  BY Zenon, <1>2 DEF SideInv, DeviceInv
<1>4. Once' /\ \A a \in {0, 1}, u \in T : Has(a, u)' <=> Has(a, u)
  BY Zenon DEF SideInv, LifeInv, Once, Has
<1>5. LifeInv'
  BY <1>1, <1>2, <1>4 DEF SideInv, SideTypeOK, LifeInv, Live
<1> QED
  BY Zenon, <1>1, <1>3, <1>5 DEF SideInv

\* It kicks the transport, closes the device if it is the first to, and drops
\* its reference; the last one sends the message to remove the transport.
LEMMA OutputWindsDown ==
    ASSUME SideInv, NEW t \in T, WindDown(t, out),
           UNCHANGED <<opener, sessions, alive, in, peer>>
    PROVE  SideInv'
<1> USE DEF Set
<1>0. t \in 1 .. MaxSessions /\ alive[t] = "up" /\ out[t] \notin {"none", "gone"}
      /\ t <= sessions /\ ~Has(0, t) /\ ~Has(1, t)
  BY DEF SideInv, SideTypeOK, LifeInv, WindDown, T
<1>1. CASE out[t] = "kick" /\ Kick(t, out) /\ UNCHANGED <<usb_fd, ref_count, registration>>
  <2>1. SideTypeOK'
    BY Zenon, <1>1 DEF SideInv, SideTypeOK, Kick, ThreadPcs
  <2>2. /\ kicked'[t] = 1 /\ out'[t] = (IF kicked[t] = 1 THEN "unref" ELSE "usb_kick")
        /\ \A u \in T \ {t} : kicked'[u] = kicked[u] /\ out'[u] = out[u]
    BY Zenon, <1>1 DEF SideInv, SideTypeOK, Kick
  <2>3. DeviceInv'
    BY <1>0, <1>1, <2>2 DEF SideInv, SideTypeOK, DeviceInv
  <2>4. Once' /\ \A a \in {0, 1}, u \in T : Has(a, u)' <=> Has(a, u)
    BY Zenon, <1>1 DEF SideInv, LifeInv, Once, Has
  <2>5. LifeInv'
    BY <1>0, <1>1, <2>2, <2>4 DEF SideInv, SideTypeOK, LifeInv, Live
  <2> QED
    BY Zenon, <2>1, <2>3, <2>5 DEF SideInv
<1>2. CASE out[t] = "usb_kick" /\ usb_fd' = 0 /\ out' = Set(out, t, "unref")
           /\ UNCHANGED <<kicked, ref_count, registration>>
  <2>1. SideTypeOK'
    BY Zenon, <1>2 DEF SideInv, SideTypeOK, ThreadPcs
  <2>2. out'[t] = "unref" /\ \A u \in T \ {t} : out'[u] = out[u]
    BY Zenon, <1>2 DEF SideInv, SideTypeOK
  <2>3. usb_fd = t /\ kicked[t] = 1 /\ in[t] # "usb_kick"
    BY Zenon, <1>2 DEF SideInv, DeviceInv
  <2>4. DeviceInv'
    BY <1>0, <1>2, <2>2, <2>3 DEF SideInv, SideTypeOK, DeviceInv, T
  <2>5. Once' /\ \A a \in {0, 1}, u \in T : Has(a, u)' <=> Has(a, u)
    BY <1>2 DEF SideInv, LifeInv, Once, Has
  <2>6. LifeInv'
    BY <1>0, <1>2, <2>2, <2>5 DEF SideInv, SideTypeOK, LifeInv, Live
  <2> QED
    BY <2>1, <2>4, <2>6 DEF SideInv
<1>3. CASE out[t] = "unref" /\ Unref(t) /\ out' = Set(out, t, "gone")
           /\ UNCHANGED <<kicked, usb_fd>>
  <2>1. out'[t] = "gone" /\ \A u \in T \ {t} : out'[u] = out[u]
    BY Zenon, <1>3 DEF SideInv, SideTypeOK
  <2>2. ref_count' \in [T -> Int] /\ ref_count'[t] = ref_count[t] - 1
        /\ \A u \in T \ {t} : ref_count'[u] = ref_count[u]
    BY <1>3 DEF SideInv, SideTypeOK, Unref
  <2>3. ref_count[t] = 1 + Live(in[t])
    BY Zenon, <1>0, <1>3 DEF SideInv, LifeInv, Live
  <2>4. /\ registration' \in Seq(Messages) /\ Once'
        /\ \A b \in {0, 1}, u \in T :
               Has(b, u)' <=> Has(b, u) \/ (b = 0 /\ u = t /\ in[t] = "gone")
    <3>1. CASE in[t] = "gone"
      <4>1. registration' = Append(registration, Message(0, t))
        BY <1>3, <2>3, <3>1 DEF Unref, Live
      <4> QED
        BY <1>0, <3>1, <4>1, MessageSent DEF SideInv, SideTypeOK, LifeInv
    <3>2. CASE in[t] # "gone"
      <4>1. registration' = registration
        BY <1>3, <2>3, <3>2 DEF Unref, Live
      <4> QED
        BY <3>2, <4>1 DEF SideInv, SideTypeOK, LifeInv, Once, Has
    <3> QED
      BY Zenon, <3>1, <3>2
  <2>5. SideTypeOK'
    BY Zenon, <1>3, <2>2, <2>4 DEF SideInv, SideTypeOK, ThreadPcs
  <2>6. DeviceInv'
    BY Zenon, <1>0, <1>3, <2>1 DEF SideInv, DeviceInv
  <2>7. LifeInv'
    BY SMTT(20), <1>0, <1>3, <2>1, <2>2, <2>3, <2>4 DEF SideInv, SideTypeOK, LifeInv, Live
  <2> QED
    BY <2>5, <2>6, <2>7 DEF SideInv
<1> QED
  BY Zenon, <1>1, <1>2, <1>3 DEF WindDown

\* The input thread goes on without ending.
LEMMA InputRuns ==
    ASSUME SideInv, NEW t \in T, NEW next \in ThreadPcs \ {"none", "usb_kick", "gone"},
           in[t] \notin {"none", "usb_kick", "gone"}, in' = Set(in, t, next),
           UNCHANGED <<usbVars, registration, refVars, alive, out>>, peer' \in [T -> {0, 1}],
           \A u \in T : peer'[u] = 1 => peer[u] = 1
    PROVE  SideInv'
<1> USE DEF usbVars, refVars, Set
<1>1. SideTypeOK'
  BY Zenon DEF SideInv, SideTypeOK
<1>2. /\ in'[t] = next
      /\ \A u \in T \ {t} : in'[u] = in[u]
  BY Zenon DEF SideInv, SideTypeOK
<1>3. DeviceInv'
  BY Zenon, <1>2 DEF SideInv, DeviceInv
<1>4. Once' /\ \A a \in {0, 1}, u \in T : Has(a, u)' <=> Has(a, u)
  BY DEF SideInv, LifeInv, Once, Has
<1>5. LifeInv'
  BY <1>1, <1>2, <1>4 DEF SideInv, SideTypeOK, LifeInv, Live
<1> QED
  BY <1>1, <1>3, <1>5 DEF SideInv

\* It kicks the transport, closes the device if it is the first to, and drops
\* its reference; the last one sends the message to remove the transport.
LEMMA InputWindsDown ==
    ASSUME SideInv, NEW t \in T, WindDown(t, in),
           UNCHANGED <<opener, sessions, alive, out, peer>>
    PROVE  SideInv'
<1> USE DEF Set
<1>0. t \in 1 .. MaxSessions /\ alive[t] = "up" /\ in[t] \notin {"none", "gone"}
      /\ t <= sessions /\ ~Has(0, t) /\ ~Has(1, t)
  BY DEF SideInv, SideTypeOK, LifeInv, WindDown, T
<1>1. CASE in[t] = "kick" /\ Kick(t, in) /\ UNCHANGED <<usb_fd, ref_count, registration>>
  <2>1. SideTypeOK'
    BY Zenon, <1>1 DEF SideInv, SideTypeOK, Kick, ThreadPcs
  <2>2. /\ kicked'[t] = 1 /\ in'[t] = (IF kicked[t] = 1 THEN "unref" ELSE "usb_kick")
        /\ \A u \in T \ {t} : kicked'[u] = kicked[u] /\ in'[u] = in[u]
    BY Zenon, <1>1 DEF SideInv, SideTypeOK, Kick
  <2>3. DeviceInv'
    BY <1>0, <1>1, <2>2 DEF SideInv, SideTypeOK, DeviceInv
  <2>4. Once' /\ \A a \in {0, 1}, u \in T : Has(a, u)' <=> Has(a, u)
    BY Zenon, <1>1 DEF SideInv, LifeInv, Once, Has
  <2>5. LifeInv'
    BY <1>0, <1>1, <2>2, <2>4 DEF SideInv, SideTypeOK, LifeInv, Live
  <2> QED
    BY <2>1, <2>3, <2>5 DEF SideInv
<1>2. CASE in[t] = "usb_kick" /\ usb_fd' = 0 /\ in' = Set(in, t, "unref")
           /\ UNCHANGED <<kicked, ref_count, registration>>
  <2>1. SideTypeOK'
    BY Zenon, <1>2 DEF SideInv, SideTypeOK, ThreadPcs
  <2>2. in'[t] = "unref" /\ \A u \in T \ {t} : in'[u] = in[u]
    BY Zenon, <1>2 DEF SideInv, SideTypeOK
  <2>3. usb_fd = t /\ kicked[t] = 1 /\ out[t] # "usb_kick"
    BY Zenon, <1>2 DEF SideInv, DeviceInv
  <2>4. DeviceInv'
    BY <1>0, <1>2, <2>2, <2>3 DEF SideInv, SideTypeOK, DeviceInv, T
  <2>5. Once' /\ \A a \in {0, 1}, u \in T : Has(a, u)' <=> Has(a, u)
    BY Zenon, <1>2 DEF SideInv, LifeInv, Once, Has
  <2>6. LifeInv'
    BY <1>0, <1>2, <2>2, <2>5 DEF SideInv, SideTypeOK, LifeInv, Live
  <2> QED
    BY <2>1, <2>4, <2>6 DEF SideInv
<1>3. CASE in[t] = "unref" /\ Unref(t) /\ in' = Set(in, t, "gone")
           /\ UNCHANGED <<kicked, usb_fd>>
  <2>1. in'[t] = "gone" /\ \A u \in T \ {t} : in'[u] = in[u]
    BY Zenon, <1>3 DEF SideInv, SideTypeOK
  <2>2. ref_count' \in [T -> Int] /\ ref_count'[t] = ref_count[t] - 1
        /\ \A u \in T \ {t} : ref_count'[u] = ref_count[u]
    BY <1>3 DEF SideInv, SideTypeOK, Unref
  <2>3. ref_count[t] = 1 + Live(out[t])
    BY <1>0, <1>3 DEF SideInv, LifeInv, Live
  <2>4. /\ registration' \in Seq(Messages) /\ Once'
        /\ \A b \in {0, 1}, u \in T :
               Has(b, u)' <=> Has(b, u) \/ (b = 0 /\ u = t /\ out[t] = "gone")
    <3>1. CASE out[t] = "gone"
      <4>1. registration' = Append(registration, Message(0, t))
        BY <1>3, <2>3, <3>1 DEF Unref, Live
      <4> QED
        BY <1>0, <3>1, <4>1, MessageSent DEF SideInv, SideTypeOK, LifeInv
    <3>2. CASE out[t] # "gone"
      <4>1. registration' = registration
        BY <1>3, <2>3, <3>2 DEF Unref, Live
      <4> QED
        BY <3>2, <4>1 DEF SideInv, SideTypeOK, LifeInv, Once, Has
    <3> QED
      BY <3>1, <3>2
  <2>5. SideTypeOK'
    BY Zenon, <1>3, <2>2, <2>4 DEF SideInv, SideTypeOK, ThreadPcs
  <2>6. DeviceInv'
    BY Zenon, <1>0, <1>3, <2>1 DEF SideInv, DeviceInv
  <2>7. LifeInv'
    BY SMTT(20), <1>0, <1>3, <2>1, <2>2, <2>3, <2>4 DEF SideInv, SideTypeOK, LifeInv, Live
  <2> QED
    BY <2>5, <2>6, <2>7 DEF SideInv
<1> QED
  BY <1>1, <1>2, <1>3 DEF WindDown

\* A transport is started once, and freed when no thread has it any more.
LEMMA Registered == ASSUME SideInv, transport_registration_func PROVE SideInv'
<1> USE DEF Set
<1>1. PICK a \in {0, 1}, t \in T :
         /\ Head(registration).action = a /\ Head(registration).transport = t
         /\ Has(a, t) /\ registration' \in Seq(Messages) /\ Once'
         /\ \A b \in {0, 1}, u \in T : Has(b, u)' <=> Has(b, u) /\ ~(b = a /\ u = t)
  BY Zenon, MessageTaken DEF transport_registration_func, SideInv, SideTypeOK, LifeInv
<1>2. UNCHANGED <<usb_fd, opener, sessions, kicked>>
  BY Zenon DEF transport_registration_func, usbVars
<1>3. CASE a = 1
  <2>1. /\ alive' = [alive EXCEPT ![t] = "up"] /\ ref_count' = [ref_count EXCEPT ![t] = 2]
        /\ out' = [out EXCEPT ![t] = "sync"] /\ in' = [in EXCEPT ![t] = "inactive"]
        /\ peer' = peer
    BY <1>1, <1>3 DEF transport_registration_func, socketVars
  <2>2. SideTypeOK'
    BY <1>1, <1>2, <2>1 DEF SideInv, SideTypeOK, ThreadPcs
  <2>3. /\ alive'[t] = "up" /\ ref_count'[t] = 2 /\ out'[t] = "sync" /\ in'[t] = "inactive"
        /\ \A u \in T \ {t} : /\ alive'[u] = alive[u] /\ ref_count'[u] = ref_count[u]
                               /\ out'[u] = out[u] /\ in'[u] = in[u]
    BY Zenon, <2>1 DEF SideInv, SideTypeOK
  <2>4. alive[t] = "none" /\ out[t] = "none" /\ in[t] = "none" /\ ~Has(0, t)
    BY Zenon, <1>1, <1>3 DEF SideInv, LifeInv
  <2>5. DeviceInv'
    BY Zenon, <1>2, <2>3, <2>4 DEF SideInv, DeviceInv
  <2>6. LifeInv'
    BY SMTT(20), <1>1, <1>2, <1>3, <2>1, <2>3, <2>4 DEF SideInv, SideTypeOK, LifeInv, Live
  <2> QED
    BY Zenon, <2>2, <2>5, <2>6 DEF SideInv
<1>4. CASE a = 0
  <2>1. /\ alive' = [alive EXCEPT ![t] = "freed"] /\ UNCHANGED <<ref_count, out, in>>
        /\ IF peer[t] = 1 THEN peer' = [peer EXCEPT ![t] = 0] ELSE peer' = peer
    BY <1>1, <1>4 DEF transport_registration_func, threadVars, socketVars, LocalClose
  <2>2. peer' \in [T -> {0, 1}] /\ peer'[t] = 0 /\ \A u \in T \ {t} : peer'[u] = peer[u]
    BY Zenon, <2>1 DEF SideInv, SideTypeOK
  <2>3. SideTypeOK'
    BY Zenon, <1>1, <1>2, <2>1, <2>2 DEF SideInv, SideTypeOK
  <2>4. DeviceInv'
    BY Zenon, <1>2, <2>1 DEF SideInv, DeviceInv
  <2>5. alive'[t] = "freed" /\ \A u \in T \ {t} : alive'[u] = alive[u]
    BY Zenon, <2>1 DEF SideInv, SideTypeOK
  <2>6. alive[t] = "up" /\ out[t] = "gone" /\ in[t] = "gone" /\ ~Has(1, t)
    BY <1>1, <1>4 DEF SideInv, SideTypeOK, LifeInv
  <2>7. LifeInv'
    BY <1>1, <1>2, <1>4, <2>1, <2>2, <2>5, <2>6 DEF SideInv, SideTypeOK, LifeInv, Live
  <2> QED
    BY SMTT(20), <2>3, <2>4, <2>7 DEF SideInv
<1> QED
  BY Zenon, <1>3, <1>4

\* What the main loop does with a packet or a local socket to its peer.
LEMMA PeerOnly ==
    ASSUME SideInv, NEW t \in T, transport_socket_events(t) \/ local_socket_event_func(t)
    PROVE  SideInv'
<1> USE DEF Set
<1>1. UNCHANGED <<usbVars, registration, refVars, alive, threadVars>>
  BY Zenon DEF transport_socket_events, local_socket_event_func
<1>2. \/ peer' = peer \/ peer' = [peer EXCEPT ![t] = 0]
      \/ alive[t] = "up" /\ peer' = [peer EXCEPT ![t] = 1]
  <2>1. CASE transport_socket_events(t)
    BY Zenon, <2>1 DEF transport_socket_events, handle_packet, HandleSync, HandleConnect, HandleOpen,
       HandleOkay, HandleClose, HandleWrite, HandleDropped, Disconnect, LocalClose, socketVars
  <2>2. CASE local_socket_event_func(t)
    BY Zenon, <2>2 DEF local_socket_event_func, SocketWrite, SocketRead, LocalClose
  <2> QED
    BY Zenon, <2>1, <2>2
<1>3. peer' \in [T -> {0, 1}] /\ \A u \in T : peer'[u] = 1 => peer[u] = 1 \/ alive[u] = "up"
  BY Zenon, <1>2 DEF SideInv, SideTypeOK
<1> QED
  BY Zenon, <1>1, <1>3, LifeUntouched

\* The inductive invariant, over the threads of all transports, the main loop,
\* the service and the host.
THEOREM SideInvariant == SideSpec => []SideInv
<1>1. SideInit => SideInv
  <2> SUFFICES ASSUME SideInit PROVE SideInv
    OBVIOUS
  <2>1. SideTypeOK
    BY SideloaderAssumption DEF SideInit, SideTypeOK, ThreadPcs
  <2>2. DeviceInv
    BY DEF SideInit, DeviceInv, T
  <2>3. Once /\ \A a \in {0, 1}, t \in T : ~Has(a, t)
    BY DEF SideInit, Once, Has
  <2>4. LifeInv
    BY Zenon, <2>3 DEF SideInit, LifeInv
  <2> QED
    BY Zenon, <2>1, <2>2, <2>4 DEF SideInv
<1>2. SideInv /\ [SideNext]_sideVars => SideInv'
  <2> SUFFICES ASSUME SideInv, [SideNext]_sideVars PROVE SideInv'
    OBVIOUS
  <2>0. peer \in [T -> {0, 1}]
    BY Zenon DEF SideInv, SideTypeOK
  <2>1. CASE usb_open_thread
    BY Zenon, <2>1, DeviceOpened
  <2>2. CASE transport_registration_func
    BY <2>2, Registered
  <2>3. ASSUME NEW t \in T, transport_socket_events(t) \/ local_socket_event_func(t)
        PROVE  SideInv'
    BY Zenon, <2>3, PeerOnly
  <2>4. ASSUME NEW t \in T, output_thread(t) PROVE SideInv'
    <3>1. UNCHANGED <<opener, sessions, alive, in, peer>>
      BY Zenon, <2>4 DEF output_thread, socketVars
    <3>2. CASE WindDown(t, out)
      BY Zenon, <3>1, <3>2, OutputWindsDown
    <3>3. CASE (OutputSync(t) \/ OutputRead(t) \/ OutputOffline(t))
               /\ UNCHANGED <<usb_fd, refVars, registration>>
      <4>1. out \in [T -> ThreadPcs]
        BY Zenon DEF SideInv, SideTypeOK
      <4>2. PICK next \in {"read", "offline", "kick"} : out' = Set(out, t, next)
        BY Zenon, <3>3, <4>1 DEF OutputSync, OutputRead, OutputOffline, Set
      <4>3. out[t] \in {"sync", "read", "offline"}
        BY Zenon, <3>3 DEF OutputSync, OutputRead, OutputOffline
      <4>4. UNCHANGED <<usbVars, registration, refVars, alive, in>>
        BY Zenon, <3>1, <3>3 DEF usbVars
      <4> QED
        BY Zenon, <2>0, <3>1, <4>2, <4>3, <4>4, OutputRuns DEF ThreadPcs
    <3> QED
      BY Zenon, <2>4, <3>2, <3>3 DEF output_thread
  <2>5. ASSUME NEW t \in T, input_thread(t) PROVE SideInv'
    <3>1. UNCHANGED <<opener, sessions, alive, out>>
      BY Zenon, <2>5 DEF input_thread
    <3>2. CASE WindDown(t, in) /\ UNCHANGED socketVars
      BY Zenon, <3>1, <3>2, InputWindsDown DEF socketVars
    <3>3. CASE InputRead(t)
      <4>1. PICK next \in {"inactive", "active", "close_all"} : in' = Set(in, t, next)
        BY Zenon, <3>3 DEF InputRead
      <4>2. in[t] \in {"inactive", "active"} /\ peer' = peer
        BY Zenon, <3>3 DEF InputRead, socketVars
      <4>3. UNCHANGED <<usbVars, registration, refVars, alive, out>>
        BY Zenon, <3>1, <3>3 DEF InputRead, usbVars
      <4> QED
        BY Zenon, <2>0, <4>1, <4>2, <4>3, InputRuns DEF ThreadPcs
    <3>4. CASE InputCloseAll(t)
      <4>1. in' = Set(in, t, "kick") /\ in[t] = "close_all"
        BY Zenon, <3>4 DEF InputCloseAll
      <4>2. peer' = peer \/ peer' = [peer EXCEPT ![t] = 0]
        BY Zenon, <3>4 DEF InputCloseAll, LocalClose, socketVars, Set
      <4>3. peer' \in [T -> {0, 1}] /\ \A u \in T : peer'[u] = 1 => peer[u] = 1
        BY Zenon, <2>0, <4>2
      <4>4. UNCHANGED <<usbVars, registration, refVars, alive, out>>
        BY Zenon, <3>1, <3>4 DEF InputCloseAll, usbVars
      <4> QED
        BY Zenon, <4>1, <4>3, <4>4, InputRuns DEF ThreadPcs
    <3> QED
      BY Zenon, <2>5, <3>2, <3>3, <3>4 DEF input_thread
  <2>6. ASSUME NEW t \in T, sideload_service(t) \/ ServiceExit(t) \/ Host(t) PROVE SideInv'
    <3>1. UNCHANGED <<usbVars, registration, refVars, alive, threadVars>> /\ peer' = peer
      BY Zenon, <2>6 DEF sideload_service, ServiceExit, Host, socketVars
    <3> QED
      BY Zenon, <2>0, <3>1, LifeUntouched
  <2>7. CASE UNCHANGED sideVars
    <3>1. UNCHANGED <<usbVars, registration, refVars, alive, threadVars>> /\ peer' = peer
      BY Zenon, <2>7 DEF sideVars, socketVars
    <3> QED
      BY Zenon, <2>0, <3>1, LifeUntouched
  <2> QED
    BY Zenon, <2>1, <2>2, <2>3, <2>4, <2>5, <2>6, <2>7 DEF SideNext, MainLoop
<1> QED
  BY <1>1, <1>2, PTL DEF SideSpec

\* usb_kick, after kick_transport gave up its lock, closes its own device.
THEOREM KicksOwnDeviceCorrect == SideSpec => []KicksOwnDevice
<1>1. SideInv => KicksOwnDevice
  BY SideloaderAssumption DEF SideInv, SideTypeOK, DeviceInv, KicksOwnDevice, T
<1> QED
  BY <1>1, SideInvariant, PTL

\* "The transport will not actually be closed until both threads exit".
THEOREM FreedUnusedCorrect == SideSpec => []FreedUnused
<1>1. SideInv => FreedUnused
  <2> SUFFICES ASSUME SideInv, NEW t \in T
               PROVE  /\ alive[t] = "freed" => out[t] = "gone" /\ in[t] = "gone" /\ peer[t] = 0
                      /\ \A i, j \in DOMAIN registration :
                             registration[i] = Message(0, t) /\ registration[j] = Message(0, t)
                                 => i = j
                      /\ alive[t] = "freed" =>
                             \A i \in DOMAIN registration : registration[i].transport # t
    BY Zenon DEF FreedUnused
  <2>1. registration \in Seq(Messages) /\ DOMAIN registration = 1 .. Len(registration)
    BY DEF SideInv, SideTypeOK
  <2>2. \A i, j \in DOMAIN registration : registration[i] = registration[j] => i = j
    BY Zenon, <2>1 DEF SideInv, LifeInv, Once
  <2>3. alive[t] = "freed" => out[t] = "gone" /\ in[t] = "gone" /\ peer[t] = 0
                             /\ ~Has(0, t) /\ ~Has(1, t)
    BY Zenon DEF SideInv, LifeInv
  <2>4. ASSUME NEW i \in DOMAIN registration, registration[i].transport = t
        PROVE  Has(0, t) \/ Has(1, t)
    <3>1. registration[i] \in Messages
      BY <2>1
    <3>2. PICK a \in {0, 1} : registration[i] = Message(a, t)
      BY Zenon, <2>4, <3>1 DEF Messages, Message
    <3> QED
      BY Zenon, <2>1, <3>2 DEF Has
  <2> QED
    BY Zenon, <2>2, <2>3, <2>4
<1> QED
  BY <1>1, SideInvariant, PTL

=============================================================================
