---------------------------- MODULE EdifyProofs ----------------------------
(***************************************************************************)
(* For any script of any size: the first function that aborts is the last  *)
(* thing the script does to the device, and the updater reports a failure  *)
(* if and only if one has.                                                 *)
(*                                                                         *)
(* The argument is about results: one is good when its log says whether    *)
(* its value is NULL.  Good operands give a good result, whatever the      *)
(* function; and the least expression of a script with a bad result would  *)
(* have good operands.                                                     *)
(***************************************************************************)
EXTENDS Edify, WellFoundedInduction, TLAPS

\* A set of numbers that is not empty has a least one.
LEMMA LeastNumber ==
    ASSUME NEW S, S \subseteq Nat, S # {}
    PROVE  \E i \in S : \A j \in S : i <= j
<1> DEFINE R == OpToRel(<, Nat)
<1>1. \E i \in S : \A j \in S : ~(<<j, i>> \in R)
  BY Zenon, NatLessThanWellFounded, WFMin
<1>2. \A i, j \in S : i \in Nat /\ j \in Nat
  BY Zenon
<1>3. \A i, j \in Nat : <<j, i>> \in R <=> j < i
  BY DEF OpToRel
<1>4. \A i, j \in Nat : ~(j < i) => i <= j
  OBVIOUS
<1> QED
  BY Zenon, <1>1, <1>2, <1>3, <1>4

-----------------------------------------------------------------------------
(***************************************************************************)
(* The logs of scripts.                                                    *)
(***************************************************************************)
\* Logs, without an abort, and with nothing but aborts from the first one on.
Logs == Seq(Registered \cup {"abort"})
Clean(log) == log \in Logs /\ \A i \in 1..Len(log) : log[i] # "abort"
Stopped(log) ==
  log \in Logs /\ \E k \in 1..Len(log) : \A i \in 1..Len(log) : log[i] = "abort" <=> i >= k

\* Nothing has been done yet.
LEMMA CleanEmpty == Clean(<<>>)
BY DEF Clean, Logs

\* What is done after something that did not abort.
LEMMA LogJoined ==
  ASSUME NEW a, NEW b, Clean(a)
  PROVE  /\ Clean(b) => Clean(a \o b)
         /\ Stopped(b) => Stopped(a \o b)
<1> DEFINE m == Len(a)
           n == Len(b)
           c == a \o b
<1> SUFFICES ASSUME b \in Logs
             PROVE  /\ Clean(b) => Clean(c)
                    /\ Stopped(b) => Stopped(c)
  BY Zenon DEF Clean, Stopped
<1>1. /\ m \in Nat /\ n \in Nat /\ c \in Logs /\ Len(c) = m + n
      /\ \A i \in 1..m : c[i] = a[i]
      /\ \A i \in m + 1..m + n : c[i] = b[i - m]
  BY DEF Clean, Logs
<1>2. \A i \in 1..m : a[i] # "abort"
  BY Zenon DEF Clean
<1> HIDE DEF m, n, c
<1>3. \A i \in 1..m + n : i \in 1..m \/ (i \in m + 1..m + n /\ i - m \in 1..n)
  BY <1>1
<1>4. Clean(b) => Clean(c)
  BY Zenon, <1>1, <1>2, <1>3 DEF Clean, n
<1>5. ASSUME Stopped(b) PROVE Stopped(c)
  <2>1. PICK k \in 1..n : \A i \in 1..n : b[i] = "abort" <=> i >= k
    BY Zenon, <1>5 DEF Stopped, n
  <2>2. m + k \in 1..m + n
    BY <1>1
  <2>3. ASSUME NEW i \in 1..m + n PROVE c[i] = "abort" <=> i >= m + k
    <3>1. CASE i \in 1..m
      <4>1. c[i] # "abort"
        BY Zenon, <1>1, <1>2, <3>1
      <4>2. ~(i >= m + k)
        BY <1>1, <3>1
      <4> QED
        BY Zenon, <4>1, <4>2
    <3>2. CASE i \in m + 1..m + n /\ i - m \in 1..n
      <4>1. c[i] = "abort" <=> i - m >= k
        BY Zenon, <1>1, <2>1, <3>2
      <4>2. i - m >= k <=> i >= m + k
        BY <1>1
      <4> QED
        BY Zenon, <4>1, <4>2
    <3> QED
      BY Zenon, <1>3, <3>1, <3>2
  <2> QED
    BY Zenon, <1>1, <2>2, <2>3 DEF Stopped
<1> QED
  BY Zenon, <1>4, <1>5

\* An abort after a clean log, or after others.
LEMMA LogAborted ==
  ASSUME NEW log, Clean(log) \/ Stopped(log)
  PROVE  Stopped(Append(log, "abort"))
<1> DEFINE n == Len(log)
           c == Append(log, "abort")
<1> SUFFICES Stopped(c)
  OBVIOUS
<1>1. /\ n \in Nat /\ c \in Logs /\ Len(c) = n + 1 /\ c[n + 1] = "abort"
      /\ \A i \in 1..n : c[i] = log[i]
  <2>1. log \in Logs
    BY Zenon DEF Clean, Stopped
  <2> QED
    BY <2>1 DEF Logs
<1> HIDE DEF n, c
<1>2. /\ \A i \in 1..n + 1 : (i \in 1..n /\ ~(i >= n + 1)) \/ i = n + 1
      /\ n + 1 >= n + 1 /\ n + 1 \in 1..n + 1
      /\ \A k \in 1..n : n + 1 >= k /\ k \in 1..n + 1
  BY <1>1
<1>3. CASE Clean(log)
  <2>1. \A i \in 1..n + 1 : c[i] = "abort" <=> i >= n + 1
    BY Zenon, <1>1, <1>2, <1>3 DEF Clean, n
  <2> QED
    BY Zenon, <1>1, <1>2, <2>1 DEF Stopped
<1>4. CASE Stopped(log)
  <2>1. PICK k \in 1..n : \A i \in 1..n : log[i] = "abort" <=> i >= k
    BY Zenon, <1>4 DEF Stopped, n
  <2>2. \A i \in 1..n + 1 : c[i] = "abort" <=> i >= k
    BY Zenon, <1>1, <1>2, <2>1
  <2> QED
    BY Zenon, <1>1, <1>2, <2>1, <2>2 DEF Stopped
<1> QED
  BY Zenon, <1>3, <1>4

\* What a function does to the device is no abort.
LEMMA LogDone ==
  ASSUME NEW log, Clean(log), NEW fn \in Registered, fn # "abort"
  PROVE  Clean(Append(log, fn))
<1>1. log \in Seq(Registered \cup {"abort"}) /\ fn \in Registered \cup {"abort"}
  BY Zenon DEF Clean, Logs
<1>2. /\ Len(log) \in Nat /\ Append(log, fn) \in Seq(Registered \cup {"abort"})
      /\ Len(Append(log, fn)) = Len(log) + 1
      /\ Append(log, fn)[Len(log) + 1] = fn
      /\ \A i \in 1..Len(log) : Append(log, fn)[i] = log[i]
  BY <1>1
<1>3. \A i \in 1..Len(log) + 1 : i \in 1..Len(log) \/ i = Len(log) + 1
  BY <1>2
<1> QED
  BY Zenon, <1>2, <1>3 DEF Clean, Logs

\* h has the first logs of s one after the other.
Joined(h, s, n) == h[1] = s[1] /\ \A i \in 2..n : h[i] = h[i - 1] \o s[i]

\* FlattenSeq joins from the left; its recursion is well founded.
LEMMA Flattened ==
  ASSUME NEW n \in Nat \ {0}, NEW s, DOMAIN s = 1..n, Len(s) = n
  PROVE  \E h : FlattenSeq(s) = h[n] /\ Joined(h, s, n)
<1> DEFINE F(f, m) == [i \in 1..m |-> IF i = 1 THEN s[i] ELSE f[i - 1] \o s[i]]
           h == CHOOSE f : f = F(f, n)
<1>1. \E f : f = F(f, n)
  <2> SUFFICES ASSUME ~\E f : f = F(f, n)
               PROVE  FALSE
    BY Zenon
  <2> DEFINE S == {m \in 1..n : ~\E f : f = F(f, m)}
  <2>1. n \in S /\ S \subseteq Nat
    <3>1. n \in 1..n /\ 1..n \subseteq Nat
      OBVIOUS
    <3> QED
      BY Zenon, <3>1
  <2>2. PICK k \in S : \A j \in S : k <= j
    BY Zenon, <2>1, LeastNumber
  <2>3. \A j \in 1..n : ~(k <= j) => \E f : f = F(f, j)
    BY Zenon, <2>2
  <2>4. k \in 1..n /\ ~\E f : f = F(f, k)
    BY Zenon
  <2>5. k # 1
    <3> DEFINE z == [i \in 1..1 |-> s[i]]
    <3>1. \A i \in 1..1 : i = 1
      OBVIOUS
    <3>2. z = F(z, 1)
      BY Zenon, <3>1
    <3> QED
      BY Zenon, <2>4, <3>2
  <2>6. k - 1 \in 1..n /\ ~(k <= k - 1)
    BY <2>4, <2>5
  <2>7. PICK g : g = F(g, k - 1)
    BY Zenon, <2>3, <2>6
  <2> DEFINE u == [i \in 1..k |-> IF i = k THEN g[k - 1] \o s[k] ELSE g[i]]
  <2>8. \A i \in 1..k : i # k => i \in 1..k - 1
    BY <2>4
  <2>9. \A i \in 1..k : i # 1 => i - 1 \in 1..k /\ i - 1 # k
    BY <2>4
  <2>10. \A i \in 1..k : u[i] = IF i = 1 THEN s[i] ELSE u[i - 1] \o s[i]
    <3> SUFFICES ASSUME NEW i \in 1..k
                 PROVE  u[i] = IF i = 1 THEN s[i] ELSE u[i - 1] \o s[i]
      BY Zenon
    <3>1. i # 1 => u[i - 1] = g[i - 1]
      BY Zenon, <2>9
    <3>2. CASE i = k
      BY Zenon, <2>5, <3>1, <3>2
    <3>3. CASE i # k
      <4>1. u[i] = g[i]
        BY Zenon, <3>3
      <4>2. g[i] = IF i = 1 THEN s[i] ELSE g[i - 1] \o s[i]
        BY Zenon, <2>7, <2>8, <3>3
      <4> QED
        BY Zenon, <3>1, <4>1, <4>2
    <3> QED
      BY Zenon, <3>2, <3>3
  <2>11. u = F(u, k)
    BY Zenon, <2>10
  <2> QED
    BY Zenon, <2>4, <2>11
<1>2. h = F(h, n)
  BY Zenon, <1>1
<1>3. FlattenSeq(s) = h[n]
  <2>1. n # 0
    OBVIOUS
  <2> QED
    BY Zenon, <2>1 DEF FlattenSeq
<1> HIDE DEF h
<1>4. 1 \in 1..n /\ \A i \in 2..n : i \in 1..n /\ i # 1
  OBVIOUS
<1>5. h[1] = s[1] /\ \A i \in 2..n : h[i] = h[i - 1] \o s[i]
  BY Zenon, <1>2, <1>4
<1> QED
  BY Zenon, <1>3, <1>5 DEF Joined

\* All but the last of them are clean.
LEMMA LogsJoined ==
  ASSUME NEW n \in Nat, NEW s, DOMAIN s = 1..n, Len(s) = n, s = <<>> \/ n # 0,
         \A i \in 1..n - 1 : Clean(s[i])
  PROVE  /\ (n # 0 => Clean(s[n])) => Clean(FlattenSeq(s))
         /\ n # 0 /\ Stopped(s[n]) => Stopped(FlattenSeq(s))
<1>1. CASE n = 0
  <2>1. FlattenSeq(s) = <<>>
    BY Zenon, <1>1 DEF FlattenSeq
  <2> QED
    BY Zenon, <1>1, <2>1, CleanEmpty
<1>2. CASE n # 0
  <2>1. n \in Nat \ {0}
    BY <1>2
  <2>2. PICK h : FlattenSeq(s) = h[n] /\ Joined(h, s, n)
    BY Zenon, <2>1, Flattened
  <2>3. /\ FlattenSeq(s) = h[n] /\ h[1] = s[1]
        /\ \A i \in 2..n : h[i] = h[i - 1] \o s[i]
    BY Zenon, <2>2 DEF Joined
  <2>4. ASSUME NEW m \in 1..n, ~Clean(h[m]), m # n PROVE FALSE
    <3> DEFINE S == {i \in 1..n : i # n /\ ~Clean(h[i])}
    <3>1. m \in S /\ S \subseteq Nat
      <4>1. 1..n \subseteq Nat
        OBVIOUS
      <4> QED
        BY Zenon, <2>4, <4>1
    <3>2. PICK k \in S : \A j \in S : k <= j
      BY Zenon, <3>1, LeastNumber
    <3>3. k \in 1..n /\ k # n /\ ~Clean(h[k])
      BY Zenon
    <3>4. k \in 1..n - 1 /\ (k = 1 \/ (k \in 2..n /\ k - 1 \in 1..n /\ k - 1 # n /\ ~(k <= k - 1)))
      BY <3>3
    <3>5. k # 1
      BY Zenon, <2>3, <3>3, <3>4
    <3>6. Clean(h[k - 1]) /\ Clean(s[k]) /\ h[k] = h[k - 1] \o s[k]
      BY Zenon, <2>3, <3>2, <3>4, <3>5
    <3> QED
      BY Zenon, <3>3, <3>6, LogJoined
  <2>5. CASE n = 1
    BY Zenon, <1>2, <2>3, <2>5
  <2>6. CASE n # 1
    <3>1. n \in 2..n /\ n - 1 \in 1..n /\ n - 1 # n
      BY <1>2, <2>6
    <3>2. Clean(h[n - 1]) /\ h[n] = h[n - 1] \o s[n]
      BY Zenon, <2>3, <2>4, <3>1
    <3> QED
      BY Zenon, <1>2, <2>3, <3>2, LogJoined
  <2> QED
    BY Zenon, <2>5, <2>6
<1> QED
  BY Zenon, <1>1, <1>2

-----------------------------------------------------------------------------
(***************************************************************************)
(* Results and operands.                                                   *)
(***************************************************************************)
\* A result that says in its log whether it has aborted.
Values == {"text", "empty", "blob", "no blob"} \cup Aborted
Good(r) ==
  /\ r = Result(r.value, r.log) /\ r.value \in Values
  /\ IF r.value \in Aborted THEN Stopped(r.log) ELSE Clean(r.log)

\* The results of n operands.
Goods(rs, n) == rs = [i \in 1..n |-> rs[i]] /\ \A i \in 1..n : Good(rs[i])

\* A value with the log that suits it.
LEMMA GoodResult ==
  ASSUME NEW v, NEW log, v \in Values, IF v \in Aborted THEN Stopped(log) ELSE Clean(log)
  PROVE  Good(Result(v, log))
<1>1. Result(v, log).value = v /\ Result(v, log).log = log
  BY Zenon DEF Result
<1> QED
  BY Zenon, <1>1 DEF Good

\* ErrorAbort() marks the log when the value is NULL.
LEMMA GoodEnds ==
  ASSUME NEW v \in Values, NEW log, IF v \in Aborted THEN Clean(log) \/ Stopped(log) ELSE Clean(log)
  PROVE  Good(Ends(v, log))
<1>1. v # "no data"
  BY Zenon DEF Values, Aborted, NULL
<1>2. CASE v \in Aborted
  <2>1. Ends(v, log) = Result(v, Append(log, "abort"))
    BY Zenon, <1>2 DEF Ends
  <2> QED
    BY Zenon, <1>2, <2>1, LogAborted, GoodResult
<1>3. CASE v \notin Aborted
  <2>1. Ends(v, log) = Result(v, log)
    BY Zenon, <1>1, <1>3 DEF Ends
  <2> QED
    BY Zenon, <1>3, <2>1, GoodResult
<1> QED
  BY Zenon, <1>2, <1>3

\* Evaluate() gives a string or aborts.
LEMMA GoodEvaluate ==
  ASSUME NEW r, Good(r)
  PROVE  /\ Good(Evaluate(r)) /\ Evaluate(r).value \in {"text", "empty"} \cup Aborted
<1>1. /\ "blob" \notin Aborted /\ "no blob" \notin Aborted /\ NULL \in Aborted /\ "no data" \notin Values
      /\ NULL \in Values
  BY Zenon DEF Aborted, NULL, Values
<1>2. CASE r.value \in {"blob", "no blob"}
  <2>1. Evaluate(r) = Ends(NULL, r.log) /\ Clean(r.log)
    BY Zenon, <1>1, <1>2 DEF Evaluate, Good
  <2>2. Ends(NULL, r.log).value = NULL
    BY Zenon DEF Ends, Result
  <2> QED
    BY Zenon, <1>1, <2>1, <2>2, GoodEnds
<1>3. CASE r.value \notin {"blob", "no blob"}
  <2>1. Evaluate(r) = r
    BY Zenon, <1>1, <1>3 DEF Evaluate, Good
  <2> QED
    BY Zenon, <1>3, <2>1 DEF Good, Values
<1> QED
  BY Zenon, <1>2, <1>3

\* The right operand after the left one.
LEMMA GoodThen ==
  ASSUME NEW left, NEW right, Good(left), Good(right), left.value \notin Aborted
  PROVE  Good(Then(left, right))
BY Zenon, LogJoined, GoodResult DEF Good, Then

\* The log of m operands read one after the other.
LogTo(read, m) == FlattenSeq([i \in 1..m |-> read[i].log])

\* It has stopped if the last of them aborted.
LEMMA LogRead ==
  ASSUME NEW n \in Nat, NEW read, Goods(read, n), NEW m \in 0..n,
         \A i \in 1..m - 1 : read[i].value \notin Aborted
  PROVE  /\ m = 0 \/ read[m].value \notin Aborted => Clean(LogTo(read, m))
         /\ m # 0 /\ read[m].value \in Aborted => Stopped(LogTo(read, m))
<1> DEFINE s == [i \in 1..m |-> read[i].log]
<1>1. /\ m \in Nat /\ \A i \in 1..m - 1 : i \in 1..m /\ i \in 1..n
      /\ m # 0 => m \in 1..m /\ m \in 1..n
  OBVIOUS
<1>2. DOMAIN s = 1..m /\ \A i \in 1..m : s[i] = read[i].log
  BY Zenon
<1>3. s = <<>> \/ m # 0
  OBVIOUS
<1>4. LogTo(read, m) = FlattenSeq(s)
  BY Zenon DEF LogTo
<1> HIDE DEF s
<1>5. Len(s) = m
  BY <1>1, <1>2
<1>6. \A i \in 1..m - 1 : Clean(s[i])
  BY Zenon, <1>1, <1>2 DEF Goods, Good
<1>7. m # 0 => IF read[m].value \in Aborted THEN Stopped(s[m]) ELSE Clean(s[m])
  BY Zenon, <1>1, <1>2 DEF Goods, Good
<1> QED
  BY Zenon, <1>1, <1>2, <1>3, <1>4, <1>5, <1>6, <1>7, LogsJoined

\* What ReadArgs() of n good operands gives.
ReadOk(a, n, values) ==
  IF a.failed = 0
  THEN /\ DOMAIN a.vals = 1..n /\ Clean(a.log)
       /\ \A i \in 1..n : /\ a.vals[i] \in Values /\ a.vals[i] \notin Aborted
                          /\ i \in values \/ a.vals[i] \in {"text", "empty"}
  ELSE /\ a.failed \in 1..n /\ a.vals[a.failed] \in Aborted /\ Stopped(a.log)

\* Nothing is read after the first operand that aborts.
LEMMA GoodReads ==
  ASSUME NEW n \in Nat, NEW rs, Goods(rs, n), NEW values
  PROVE  ReadOk(ReadArgs(rs, values), n, values)
<1> DEFINE read == [i \in DOMAIN rs |-> IF i \in values THEN rs[i] ELSE Evaluate(rs[i])]
           bad == {i \in DOMAIN rs : read[i].value \in Aborted}
           failed == IF bad = {} THEN 0 ELSE CHOOSE i \in bad : \A j \in bad : i <= j
           last == IF failed = 0 THEN Len(rs) ELSE failed
           a == ReadArgs(rs, values)
<1>1. DOMAIN rs = 1..n
  BY Zenon DEF Goods
<1>2. Len(rs) = n
  BY <1>1
<1>3. /\ a.failed = failed /\ a.vals = [i \in 1..last |-> read[i].value]
      /\ a.log = LogTo(read, last)
  BY Zenon DEF ReadArgs, LogTo
<1>4. \A i \in 1..n : Good(read[i]) /\ (i \in values \/ read[i].value \in {"text", "empty"} \cup Aborted)
  BY Zenon, <1>1, GoodEvaluate DEF Goods
<1>5. Goods(read, n)
  BY Zenon, <1>1, <1>4 DEF Goods
<1>6. bad = {i \in 1..n : read[i].value \in Aborted}
  BY Zenon, <1>1
<1> HIDE DEF read, a
<1>7. CASE bad = {}
  <2>1. failed = 0 /\ last = n
    BY Zenon, <1>2, <1>7
  <2>2. \A i \in 1..n : read[i].value \notin Aborted
    BY Zenon, <1>6, <1>7
  <2>3. n \in 0..n /\ (n # 0 => n \in 1..n) /\ \A i \in 1..n - 1 : i \in 1..n
    OBVIOUS
  <2>4. Clean(LogTo(read, n))
    BY Zenon, <1>5, <2>2, <2>3, LogRead
  <2>5. Clean(a.log)
    BY Zenon, <1>3, <2>1, <2>4
  <2>6. DOMAIN a.vals = 1..n /\ \A i \in 1..n : a.vals[i] = read[i].value
    BY Zenon, <1>3, <2>1
  <2> QED
    BY Zenon, <1>3, <1>4, <2>1, <2>2, <2>5, <2>6 DEF ReadOk, Good, a
<1>8. CASE bad # {}
  <2>1. PICK k \in bad : \A j \in bad : k <= j
    <3>1. bad \subseteq Nat
      <4>1. 1..n \subseteq Nat
        OBVIOUS
      <4> QED
        BY Zenon, <1>6, <4>1
    <3> QED
      BY Zenon, <1>8, <3>1, LeastNumber
  <2>2. failed \in bad /\ \A j \in bad : failed <= j
    BY Zenon, <1>8, <2>1
  <2> HIDE DEF failed
  <2>3. failed \in 1..n /\ read[failed].value \in Aborted
    BY Zenon, <1>6, <2>2
  <2>4. /\ failed # 0 /\ failed \in 0..n /\ failed \in 1..failed
        /\ \A i \in 1..failed - 1 : i \in 1..n /\ ~(failed <= i)
    BY <2>3
  <2>5. last = failed
    BY Zenon, <2>4
  <2>6. \A i \in 1..failed - 1 : read[i].value \notin Aborted
    BY Zenon, <1>6, <2>2, <2>4
  <2>7. Stopped(LogTo(read, failed))
    BY Zenon, <1>5, <2>3, <2>4, <2>6, LogRead
  <2>8. Stopped(a.log)
    BY Zenon, <1>3, <2>5, <2>7
  <2>9. a.vals[failed] = read[failed].value
    BY Zenon, <1>3, <2>4, <2>5
  <2> QED
    BY Zenon, <1>3, <2>3, <2>4, <2>8, <2>9 DEF ReadOk, a
<1> QED
  BY Zenon, <1>7, <1>8

-----------------------------------------------------------------------------
(***************************************************************************)
(* Functions and operators.                                                *)
(***************************************************************************)
\* The first of some good operands are good.
LEMMA GoodPart ==
  ASSUME NEW n \in Nat, NEW rs, Goods(rs, n), NEW k \in Nat
  PROVE  LET m == IF k < n THEN k ELSE n
         IN  Goods(UpTo(rs, k), m) /\ m \in 0..n
<1> DEFINE m == IF k < n THEN k ELSE n
<1>1. m \in 0..n /\ m \in Nat /\ \A i \in 1..m : i \in 1..n
  OBVIOUS
<1>2. DOMAIN rs = 1..n
  BY Zenon DEF Goods
<1>3. Len(rs) = n
  BY <1>2
<1>4. UpTo(rs, k) = SubSeq(rs, 1, m)
  BY Zenon, <1>3 DEF UpTo
<1> HIDE DEF m
<1>5. SubSeq(rs, 1, m) = [i \in 1..m |-> rs[i]]
  BY <1>1, <1>2, <1>3
<1>6. Goods(UpTo(rs, k), m)
  BY Zenon, <1>1, <1>4, <1>5 DEF Goods
<1> QED
  BY Zenon, <1>1, <1>6 DEF m

\* SequenceFn(), LogicalAndFn() and LogicalOrFn() stop at a left operand that aborts.
LEMMA GoodOperators ==
  ASSUME NEW rs, Goods(rs, 2)
  PROVE  Good(SequenceFn(rs)) /\ Good(LogicalAndFn(rs)) /\ Good(LogicalOrFn(rs))
<1>1. Good(rs[1]) /\ Good(rs[2])
  <2>1. 1 \in 1..2 /\ 2 \in 1..2
    OBVIOUS
  <2> QED
    BY Zenon, <2>1 DEF Goods
<1>2. Good(Evaluate(rs[1]))
  BY Zenon, <1>1, GoodEvaluate
<1>3. "text" \notin Aborted /\ "empty" \notin Aborted
  BY Zenon DEF Aborted, NULL
<1>4. Good(SequenceFn(rs))
  BY Zenon, <1>1, GoodThen DEF SequenceFn
<1>5. Good(LogicalAndFn(rs))
  BY Zenon, <1>1, <1>2, <1>3, GoodThen DEF LogicalAndFn
<1>6. Good(LogicalOrFn(rs))
  BY Zenon, <1>1, <1>2, <1>3, GoodThen DEF LogicalOrFn
<1> QED
  BY Zenon, <1>4, <1>5, <1>6

\* IfElseFn() evaluates a branch only after a condition that is a string.
LEMMA GoodIfElse ==
  ASSUME NEW n \in Nat, NEW rs, Goods(rs, n)
  PROVE  Good(IfElseFn(rs))
<1>1. DOMAIN rs = 1..n
  BY Zenon DEF Goods
<1>2. Len(rs) = n
  BY <1>1
<1>3. /\ "text" \notin Aborted /\ "empty" \notin Aborted /\ NULL \in Aborted /\ NULL \in Values
  BY Zenon DEF Aborted, NULL, Values
<1>4. CASE n \notin {2, 3}
  <2>1. IfElseFn(rs) = Ends(NULL, <<>>)
    BY Zenon, <1>2, <1>4 DEF IfElseFn
  <2> QED
    BY Zenon, <1>3, <2>1, GoodEnds, CleanEmpty
<1>5. CASE n \in {2, 3}
  <2>1. 1 \in 1..n /\ 2 \in 1..n /\ (n = 3 => 3 \in 1..n)
    BY <1>5
  <2>2. Good(rs[1]) /\ Good(rs[2]) /\ (n = 3 => Good(rs[3]))
    BY Zenon, <2>1 DEF Goods
  <2>3. Good(Evaluate(rs[1]))
    BY Zenon, <2>2, GoodEvaluate
  <2> QED
    BY Zenon, <1>2, <1>3, <1>5, <2>2, <2>3, GoodThen DEF IfElseFn
<1> QED
  BY Zenon, <1>4, <1>5

\* AbortFn() aborts whether or not its message does.
LEMMA GoodAbort ==
  ASSUME NEW n \in Nat, NEW rs, Goods(rs, n)
  PROVE  Good(AbortFn(rs))
<1> DEFINE m == IF 1 < n THEN 1 ELSE n
           msg == ReadArgs(UpTo(rs, 1), {})
<1>1. Goods(UpTo(rs, 1), m) /\ m \in 0..n
  <2>1. 1 \in Nat
    OBVIOUS
  <2> QED
    BY Zenon, <2>1, GoodPart
<1>2. ReadOk(msg, m, {})
  <2>1. m \in Nat
    OBVIOUS
  <2> QED
    BY Zenon, <1>1, <2>1, GoodReads
<1>3. AbortFn(rs) = IF msg.failed > 0 /\ msg.vals[msg.failed] = "crash" THEN Result("crash", msg.log)
                    ELSE Ends(NULL, msg.log)
  BY Zenon DEF AbortFn
<1> HIDE DEF msg
<1>4. NULL \in Aborted /\ NULL \in Values /\ "crash" \in Aborted /\ "crash" \in Values
  BY Zenon DEF Aborted, NULL, Values
<1>5. ~(0 > 0)
  OBVIOUS
<1>6. IF msg.failed = 0 THEN Clean(msg.log) ELSE Stopped(msg.log)
  BY Zenon, <1>2 DEF ReadOk
<1>7. CASE msg.failed > 0 /\ msg.vals[msg.failed] = "crash"
  <2>1. Stopped(msg.log)
    BY Zenon, <1>5, <1>6, <1>7
  <2> QED
    BY Zenon, <1>3, <1>4, <1>7, <2>1, GoodResult
<1>8. CASE ~(msg.failed > 0 /\ msg.vals[msg.failed] = "crash")
  <2>1. Good(Ends(NULL, msg.log))
    BY Zenon, <1>4, <1>6, GoodEnds
  <2> QED
    BY Zenon, <1>3, <1>8, <2>1
<1> QED
  BY Zenon, <1>7, <1>8

\* AssertFn() stops at the first operand that is not true.
LEMMA GoodAssert ==
  ASSUME NEW n \in Nat, NEW rs, Goods(rs, n)
  PROVE  Good(AssertFn(rs))
<1> DEFINE read == [i \in DOMAIN rs |-> Evaluate(rs[i])]
           bad == {i \in DOMAIN rs : read[i].value # "text"}
           first == CHOOSE i \in bad : \A j \in bad : i <= j
<1>1. DOMAIN rs = 1..n
  BY Zenon DEF Goods
<1>2. Len(rs) = n
  BY <1>1
<1>3. AssertFn(rs) = IF bad = {} THEN Result("empty", LogTo(read, Len(rs)))
                     ELSE IF read[first].value = "empty" THEN Ends(NULL, LogTo(read, first))
                     ELSE Result(read[first].value, LogTo(read, first))
  BY Zenon DEF AssertFn, LogTo
<1>4. \A i \in 1..n : Good(read[i]) /\ read[i].value \in {"text", "empty"} \cup Aborted
  BY Zenon, <1>1, GoodEvaluate DEF Goods
<1>5. Goods(read, n)
  BY Zenon, <1>1, <1>4 DEF Goods
<1>6. bad = {i \in 1..n : read[i].value # "text"}
  BY Zenon, <1>1
<1>7. /\ "text" \notin Aborted /\ "empty" \notin Aborted /\ "empty" \in Values
      /\ NULL \in Aborted /\ NULL \in Values /\ Aborted \subseteq Values
  BY Zenon DEF Aborted, NULL, Values
<1> HIDE DEF read
<1>8. CASE bad = {}
  <2>1. \A i \in 1..n : read[i].value \notin Aborted
    BY Zenon, <1>6, <1>7, <1>8
  <2>2. n \in 0..n /\ (n # 0 => n \in 1..n) /\ \A i \in 1..n - 1 : i \in 1..n
    OBVIOUS
  <2>3. Clean(LogTo(read, n))
    BY Zenon, <1>5, <2>1, <2>2, LogRead
  <2> QED
    BY Zenon, <1>2, <1>3, <1>7, <1>8, <2>3, GoodResult
<1>9. CASE bad # {}
  <2>1. PICK k \in bad : \A j \in bad : k <= j
    <3>1. 1..n \subseteq Nat
      OBVIOUS
    <3>2. bad \subseteq Nat
      BY Zenon, <1>6, <3>1
    <3> QED
      BY Zenon, <1>9, <3>2, LeastNumber
  <2>2. first \in bad /\ \A j \in bad : first <= j
    BY Zenon, <2>1
  <2> HIDE DEF first
  <2>3. first \in 1..n /\ read[first].value \in {"empty"} \cup Aborted
    BY Zenon, <1>4, <1>6, <2>2
  <2>4. first # 0 /\ first \in 0..n /\ \A i \in 1..first - 1 : i \in 1..n /\ ~(first <= i)
    BY <2>3
  <2>5. \A i \in 1..first - 1 : read[i].value \notin Aborted
    BY Zenon, <1>6, <1>7, <2>2, <2>4
  <2>6. IF read[first].value \in Aborted THEN Stopped(LogTo(read, first))
        ELSE Clean(LogTo(read, first))
    BY Zenon, <1>5, <2>3, <2>4, <2>5, LogRead
  <2>7. CASE read[first].value = "empty"
    <3>1. Good(Ends(NULL, LogTo(read, first)))
      BY Zenon, <1>7, <2>6, <2>7, GoodEnds
    <3> QED
      BY Zenon, <1>3, <1>9, <2>7, <3>1
  <2>8. CASE read[first].value # "empty"
    <3>1. Good(Result(read[first].value, LogTo(read, first)))
      BY Zenon, <1>7, <2>3, <2>6, <2>8, GoodResult
    <3> QED
      BY Zenon, <1>3, <1>9, <2>8, <3>1
  <2> QED
    BY Zenon, <2>7, <2>8
<1> QED
  BY Zenon, <1>8, <1>9

\* ConcatFn(), EqualityFn(), InequalityFn() and LogicalNotFn() abort with their operands.
LEMMA GoodStrict ==
  ASSUME NEW n \in Nat, NEW rs, Goods(rs, n), NEW e
  PROVE  Good(StrictFn(e, rs))
<1> DEFINE a == ReadArgs(rs, {})
           truth == CASE e.fn = "+"  -> \E i \in DOMAIN a.vals : a.vals[i] = "text"
                      [] e.fn = "==" -> Equal(a.vals, e.outcome)
                      [] e.fn = "!=" -> ~Equal(a.vals, e.outcome)
                      [] e.fn = "!"  -> a.vals[1] = "empty"
<1>1. StrictFn(e, rs) = IF a.failed > 0 THEN Result(a.vals[a.failed], a.log)
                        ELSE Result(Truth(truth), a.log)
  BY Zenon DEF StrictFn
<1>2. Truth(truth) \in {"text", "empty"}
  BY Zenon DEF Truth
<1>3. ReadOk(a, n, {})
  BY Zenon, GoodReads
<1> HIDE DEF a, truth
<1>4. /\ "text" \notin Aborted /\ "empty" \notin Aborted /\ {"text", "empty"} \subseteq Values
      /\ Aborted \subseteq Values
  BY Zenon DEF Aborted, NULL, Values
<1>5. CASE a.failed = 0
  <2>1. ~(a.failed > 0) /\ Clean(a.log)
    <3>1. ~(0 > 0)
      OBVIOUS
    <3> QED
      BY Zenon, <1>3, <1>5, <3>1 DEF ReadOk
  <2>2. Good(Result(Truth(truth), a.log))
    BY Zenon, <1>2, <1>4, <2>1, GoodResult
  <2> QED
    BY Zenon, <1>1, <2>1, <2>2
<1>6. CASE a.failed # 0
  <2>1. a.failed \in 1..n /\ a.vals[a.failed] \in Aborted /\ Stopped(a.log)
    BY Zenon, <1>3, <1>6 DEF ReadOk
  <2>2. a.failed > 0
    BY <2>1
  <2>3. Good(Result(a.vals[a.failed], a.log))
    BY Zenon, <1>4, <2>1, GoodResult
  <2> QED
    BY Zenon, <1>1, <2>2, <2>3
<1> QED
  BY Zenon, <1>5, <1>6

\* What holds of every function the updater registers, the two that retouch
\* excepted: an argument that aborts makes it abort, and an argument that it
\* returns is one it has read as a string.
FnOk(f) ==
  /\ f.miscounted \in Aborted /\ f.first = NULL /\ f.later \in Aborted
  /\ f.reads \in Nat /\ f.split \in Nat
  /\ f.outcomes \subseteq {"text", "empty", "blob", "no blob", "arg", "refused"} \cup Aborted
  /\ "arg" \in f.outcomes =>
       f.arg \notin f.values /\ \A n \in f.argc : f.arg \in 1..n /\ f.arg <= f.reads

\* The names given to RegisterFunction().
LEMMA TableNames ==
  Registered = {"mount", "is_mounted", "unmount", "format", "delete", "show_progress",
   "set_progress", "package_extract_dir", "package_extract_file", "package_contents",
   "retouch_binaries", "symlink", "set_perm", "set_perm_recursive", "getprop",
   "file_getprop", "apply_patch_space",
   "apply_patch", "apply_patch_check", "ui_print", "wipe_cache", "run_program", "sha1_check",
   "read_file", "sleep", "stdout", "is_substring", "less_than_int", "greater_than_int"}
BY DEF Registered, FunctionTable

\* One by one, through the table.
LEMMA FunctionsOk ==
  ASSUME NEW fn \in Registered, fn # "retouch_binaries"
  PROVE  LET f == FunctionTable[fn]
         IN  /\ FnOk(f)
             /\ IF fn \in Unchecked THEN ~f.swaps /\ f.split <= f.reads ELSE f.later = NULL
<1> USE EdifyAssumption DEF FnOk, Aborted, NULL, Fn
<1>1. FnOk(MountFn) /\ MountFn.later = NULL
  BY DEF MountFn
<1>2. FnOk(IsMountedFn) /\ IsMountedFn.later = NULL
  BY DEF IsMountedFn
<1>3. FnOk(UnmountFn) /\ UnmountFn.later = NULL
  BY DEF UnmountFn
<1>4. FnOk(FormatFn) /\ FormatFn.later = NULL
  BY DEF FormatFn
<1>5. FnOk(DeleteFn) /\ ~DeleteFn.swaps /\ DeleteFn.split <= DeleteFn.reads
  BY DEF DeleteFn
<1>6. FnOk(ShowProgressFn) /\ ShowProgressFn.later = NULL
  BY DEF ShowProgressFn
<1>7. FnOk(SetProgressFn) /\ SetProgressFn.later = NULL
  BY DEF SetProgressFn
<1>8. FnOk(PackageExtractDirFn) /\ PackageExtractDirFn.later = NULL
  BY DEF PackageExtractDirFn
<1>9. FnOk(PackageExtractFileFn) /\ PackageExtractFileFn.later = NULL
  BY DEF PackageExtractFileFn
<1>10. FnOk(PackageContentsFn) /\ PackageContentsFn.later = NULL
  BY DEF PackageContentsFn
<1>11. FnOk(SymlinkFn) /\ SymlinkFn.later = NULL
  BY DEF SymlinkFn
<1>12. FnOk(SetPermFn) /\ SetPermFn.later = NULL
  BY DEF SetPermFn
<1>13. FnOk(GetPropFn) /\ GetPropFn.later = NULL
  BY DEF GetPropFn
<1>14. FnOk(FileGetPropFn) /\ FileGetPropFn.later = NULL
  BY DEF FileGetPropFn
<1>15. FnOk(ApplyPatchSpaceFn) /\ ApplyPatchSpaceFn.later = NULL
  BY DEF ApplyPatchSpaceFn
<1>16. FnOk(ApplyPatchFn) /\ ~ApplyPatchFn.swaps /\ ApplyPatchFn.split <= ApplyPatchFn.reads
  BY DEF ApplyPatchFn
<1>17. FnOk(ApplyPatchCheckFn) /\ ~ApplyPatchCheckFn.swaps /\ ApplyPatchCheckFn.split <= ApplyPatchCheckFn.reads
  BY DEF ApplyPatchCheckFn
<1>18. FnOk(UIPrintFn) /\ UIPrintFn.later = NULL
  BY DEF UIPrintFn
<1>19. FnOk(WipeCacheFn) /\ WipeCacheFn.later = NULL
  BY DEF WipeCacheFn
<1>20. FnOk(RunProgramFn) /\ RunProgramFn.later = NULL
  BY DEF RunProgramFn
<1>21. FnOk(Sha1CheckFn) /\ Sha1CheckFn.later = NULL
  BY DEF Sha1CheckFn
<1>22. FnOk(ReadFileFn) /\ ReadFileFn.later = NULL
  BY DEF ReadFileFn
<1>23. FnOk(SleepFn) /\ SleepFn.later = NULL
  BY DEF SleepFn
<1>24. FnOk(StdoutFn) /\ StdoutFn.later = NULL
  BY DEF StdoutFn
<1>25. FnOk(SubstringFn) /\ SubstringFn.later = NULL
  BY DEF SubstringFn
<1>26. FnOk(LessThanIntFn) /\ LessThanIntFn.later = NULL
  BY DEF LessThanIntFn
<1>27. FnOk(GreaterThanIntFn) /\ GreaterThanIntFn.later = NULL
  BY DEF GreaterThanIntFn, LessThanIntFn
<1>55. FnOk(SetPermRecursiveFn) /\ SetPermRecursiveFn.later = NULL
  BY DEF SetPermRecursiveFn, SetPermFn
<1> HIDE EdifyAssumption DEF FnOk, Aborted, NULL, Fn
<1>28. FunctionTable["mount"] = MountFn
  BY Zenon DEF FunctionTable
<1>29. FunctionTable["is_mounted"] = IsMountedFn
  BY Zenon DEF FunctionTable
<1>30. FunctionTable["unmount"] = UnmountFn
  BY Zenon DEF FunctionTable
<1>31. FunctionTable["format"] = FormatFn
  BY Zenon DEF FunctionTable
<1>32. FunctionTable["delete"] = DeleteFn
  BY Zenon DEF FunctionTable
<1>33. FunctionTable["show_progress"] = ShowProgressFn
  BY Zenon DEF FunctionTable
<1>34. FunctionTable["set_progress"] = SetProgressFn
  BY Zenon DEF FunctionTable
<1>35. FunctionTable["package_extract_dir"] = PackageExtractDirFn
  BY Zenon DEF FunctionTable
<1>36. FunctionTable["package_extract_file"] = PackageExtractFileFn
  BY Zenon DEF FunctionTable
<1>37. FunctionTable["package_contents"] = PackageContentsFn
  BY Zenon DEF FunctionTable
<1>38. FunctionTable["symlink"] = SymlinkFn
  BY Zenon DEF FunctionTable
<1>39. FunctionTable["set_perm"] = SetPermFn
  BY Zenon DEF FunctionTable
<1>40. FunctionTable["getprop"] = GetPropFn
  BY Zenon DEF FunctionTable
<1>41. FunctionTable["file_getprop"] = FileGetPropFn
  BY Zenon DEF FunctionTable
<1>42. FunctionTable["apply_patch_space"] = ApplyPatchSpaceFn
  BY Zenon DEF FunctionTable
<1>43. FunctionTable["apply_patch"] = ApplyPatchFn
  BY Zenon DEF FunctionTable
<1>44. FunctionTable["apply_patch_check"] = ApplyPatchCheckFn
  BY Zenon DEF FunctionTable
<1>45. FunctionTable["ui_print"] = UIPrintFn
  BY Zenon DEF FunctionTable
<1>46. FunctionTable["wipe_cache"] = WipeCacheFn
  BY Zenon DEF FunctionTable
<1>47. FunctionTable["run_program"] = RunProgramFn
  BY Zenon DEF FunctionTable
<1>48. FunctionTable["sha1_check"] = Sha1CheckFn
  BY Zenon DEF FunctionTable
<1>49. FunctionTable["read_file"] = ReadFileFn
  BY Zenon DEF FunctionTable
<1>50. FunctionTable["sleep"] = SleepFn
  BY Zenon DEF FunctionTable
<1>51. FunctionTable["stdout"] = StdoutFn
  BY Zenon DEF FunctionTable
<1>52. FunctionTable["is_substring"] = SubstringFn
  BY Zenon DEF FunctionTable
<1>53. FunctionTable["less_than_int"] = LessThanIntFn
  BY Zenon DEF FunctionTable
<1>54. FunctionTable["greater_than_int"] = GreaterThanIntFn
  BY Zenon DEF FunctionTable
<1>56. FunctionTable["set_perm_recursive"] = SetPermRecursiveFn
  BY Zenon DEF FunctionTable
<1> QED
  BY Zenon, TableNames, <1>1, <1>2, <1>3, <1>4, <1>5, <1>6, <1>7, <1>8, <1>9, <1>10, <1>11,
     <1>12, <1>13, <1>14, <1>15, <1>16, <1>17, <1>18, <1>19, <1>20, <1>21, <1>22, <1>23,
     <1>24, <1>25, <1>26, <1>27, <1>28, <1>29, <1>30, <1>31, <1>32, <1>33, <1>34, <1>35,
     <1>36, <1>37, <1>38, <1>39, <1>40, <1>41, <1>42, <1>43, <1>44, <1>45, <1>46, <1>47,
     <1>48, <1>49, <1>50, <1>51, <1>52, <1>53, <1>54, <1>55, <1>56 DEF Unchecked

\* Good operands are good from right to left as well.
LEMMA GoodReverse ==
  ASSUME NEW n \in Nat, NEW rs, Goods(rs, n)
  PROVE  Goods(Reverse(rs), n)
<1>1. DOMAIN rs = 1..n
  BY Zenon DEF Goods
<1>2. Len(rs) = n
  BY <1>1
<1>3. \A i \in 1..n : (n - i) + 1 \in 1..n
  OBVIOUS
<1>4. Reverse(rs) = [i \in 1..n |-> rs[(n - i) + 1]]
  BY Zenon, <1>2 DEF Reverse
<1> QED
  BY Zenon, <1>3, <1>4 DEF Goods

\* The arguments read first, and all of them.
LEMMA ArgumentsRead ==
  ASSUME NEW n \in Nat, NEW rs, Goods(rs, n), NEW f, FnOk(f)
  PROVE  LET args == IF f.swaps THEN Reverse(rs) ELSE UpTo(rs, f.reads)
         IN  \E m \in 0..n, k \in 0..n :
               /\ m = n \/ m = f.reads
               /\ ReadOk(ReadArgs(args, f.values), m, f.values)
               /\ ReadOk(ReadArgs(UpTo(args, f.split), f.values), k, f.values)
<1> DEFINE args == IF f.swaps THEN Reverse(rs) ELSE UpTo(rs, f.reads)
<1>1. f.reads \in Nat /\ f.split \in Nat /\ n \in 0..n
  <2>1. f.reads \in Nat /\ f.split \in Nat
    BY Zenon DEF FnOk
  <2> QED
    BY <2>1
<1>2. \E m \in 0..n : (m = n \/ m = f.reads) /\ Goods(args, m)
  BY Zenon, <1>1, GoodReverse, GoodPart
<1> HIDE DEF args
<1>3. PICK m \in 0..n : (m = n \/ m = f.reads) /\ Goods(args, m)
  BY Zenon, <1>2
<1>4. m \in Nat /\ \A k \in 0..m : k \in Nat /\ k \in 0..n
  OBVIOUS
<1>5. PICK k \in 0..m : Goods(UpTo(args, f.split), k)
  BY Zenon, <1>1, <1>3, <1>4, GoodPart
<1>6. /\ ReadOk(ReadArgs(args, f.values), m, f.values)
      /\ ReadOk(ReadArgs(UpTo(args, f.split), f.values), k, f.values)
  BY Zenon, <1>3, <1>4, <1>5, GoodReads
<1> QED
  BY Zenon, <1>3, <1>4, <1>6 DEF args

\* A call that an argument has ended.
LEMMA GoodFailed ==
  ASSUME NEW n \in Nat, NEW a, NEW values, ReadOk(a, n, values), a.failed # 0, NEW v \in Aborted
  PROVE  Good(Failed(a, v)) /\ a.failed > 0
<1>1. a.failed \in 1..n /\ Stopped(a.log)
  BY Zenon DEF ReadOk
<1>2. a.failed > 0
  BY <1>1
<1>3. "crash" \in Aborted /\ Aborted \subseteq Values
  BY Zenon DEF Aborted, NULL, Values
<1> QED
  BY Zenon, <1>1, <1>2, <1>3, GoodResult DEF Failed

\* A registered function that has read its arguments acts once, or aborts.
LEMMA GoodCall ==
  ASSUME NEW n \in Nat, NEW rs, Goods(rs, n), NEW e,
         e.fn \in Registered, e.fn # "retouch_binaries",
         e.outcome \in FunctionTable[e.fn].outcomes
  PROVE  Good(Call(e, rs))
<1> DEFINE f == FunctionTable[e.fn]
           args == IF f.swaps THEN Reverse(rs) ELSE UpTo(rs, f.reads)
           h == ReadArgs(UpTo(args, f.split), f.values)
           a == ReadArgs(args, f.values)
           done == Append(a.log, e.fn)
           refused == \/ e.outcome = "refused"
                      \/ \E i \in DOMAIN h.vals \cap f.nonempty : h.vals[i] = "empty"
           mistyped ==
             \/ \E i \in DOMAIN a.vals \cap f.strings : a.vals[i] \in {"blob", "no blob"}
             \/ \E i \in DOMAIN a.vals \cap f.blobs : a.vals[i] \notin {"blob", "no blob"}
           value == IF e.outcome = "arg" THEN a.vals[f.arg] ELSE e.outcome
<1>1. DOMAIN rs = 1..n
  BY Zenon DEF Goods
<1>2. Len(rs) = n
  BY <1>1
<1>3. Call(e, rs) = IF n \notin f.argc THEN Ends(f.miscounted, <<>>)
                    ELSE IF h.failed > 0 THEN Failed(h, f.first)
                    ELSE IF refused THEN Ends(NULL, h.log)
                    ELSE IF a.failed > 0 THEN Failed(a, f.later)
                    ELSE IF mistyped THEN Ends(NULL, a.log)
                    ELSE Ends(value, done)
  BY Zenon, <1>2 DEF Call
<1>4. FnOk(f)
  BY Zenon, FunctionsOk
<1>5. PICK m \in 0..n, k \in 0..n :
         (m = n \/ m = f.reads) /\ ReadOk(a, m, f.values) /\ ReadOk(h, k, f.values)
  BY Zenon, <1>4, ArgumentsRead
<1>6. m \in Nat /\ k \in Nat /\ ~(0 > 0)
  OBVIOUS
<1> HIDE DEF a, h
<1>7. /\ NULL \in Aborted /\ "crash" \in Aborted /\ Aborted \subseteq Values
      /\ {"text", "empty", "blob", "no blob"} \subseteq Values
  BY Zenon DEF Aborted, NULL, Values
<1>8. CASE n \notin f.argc
  <2>1. Good(Ends(f.miscounted, <<>>))
    BY Zenon, <1>4, <1>7, CleanEmpty, GoodEnds DEF FnOk
  <2> QED
    BY Zenon, <1>3, <1>8, <2>1
<1>9. CASE n \in f.argc /\ h.failed # 0
  <2>1. Good(Failed(h, f.first)) /\ h.failed > 0
    BY Zenon, <1>4, <1>5, <1>6, <1>7, <1>9, GoodFailed DEF FnOk
  <2> QED
    BY Zenon, <1>3, <1>9, <2>1
<1>10. CASE n \in f.argc /\ h.failed = 0 /\ refused
  <2>1. Good(Ends(NULL, h.log))
    BY Zenon, <1>5, <1>7, <1>10, GoodEnds DEF ReadOk
  <2> QED
    BY Zenon, <1>3, <1>6, <1>10, <2>1
<1>11. CASE n \in f.argc /\ h.failed = 0 /\ ~refused /\ a.failed # 0
  <2>1. Good(Failed(a, f.later)) /\ a.failed > 0
    BY Zenon, <1>4, <1>5, <1>6, <1>11, GoodFailed DEF FnOk
  <2> QED
    BY Zenon, <1>3, <1>6, <1>11, <2>1
<1>12. CASE n \in f.argc /\ h.failed = 0 /\ ~refused /\ a.failed = 0
  <2>1. /\ DOMAIN a.vals = 1..m /\ Clean(a.log)
        /\ \A i \in 1..m : i \in f.values \/ a.vals[i] \in {"text", "empty"}
    BY Zenon, <1>5, <1>12 DEF ReadOk
  <2>2. Good(Ends(NULL, a.log))
    BY Zenon, <1>7, <2>1, GoodEnds
  <2>3. Clean(done)
    <3>1. "abort" \notin Registered
      BY Zenon, TableNames
    <3> QED
      BY Zenon, <2>1, <3>1, LogDone
  <2>4. value \in Values
    <3>1. CASE e.outcome = "arg"
      <4>1. f.arg \notin f.values /\ f.arg \in 1..n /\ f.arg <= f.reads
        BY Zenon, <1>4, <1>12, <3>1 DEF FnOk
      <4>2. f.arg \in 1..m
        BY <1>5, <4>1
      <4> QED
        BY Zenon, <1>7, <2>1, <3>1, <4>1, <4>2
    <3>2. CASE e.outcome # "arg"
      BY Zenon, <1>4, <1>7, <1>12, <3>2 DEF FnOk
    <3> QED
      BY Zenon, <3>1, <3>2
  <2>5. Good(Ends(value, done))
    BY Zenon, <2>3, <2>4, GoodEnds
  <2> QED
    BY Zenon, <1>3, <1>6, <1>12, <2>2, <2>5
<1> QED
  BY Zenon, <1>8, <1>9, <1>10, <1>11, <1>12

-----------------------------------------------------------------------------
(***************************************************************************)
(* Arguments that are NULL.                                                *)
(***************************************************************************)
\* Results of which none is that of a dead updater.
Alive(rs, n) == rs = [i \in 1..n |-> rs[i]] /\ \A i \in 1..n : rs[i].value # "crash"
HasNull(rs, n) == \E i \in 1..n : rs[i].value = NULL

\* Arguments read in part end the call with NULL.
NullEnds(a) == a.failed = 0 \/ (a.failed > 0 /\ Failed(a, NULL).value = NULL)

\* s has what rs has up to k.
Covers(s, m, rs, n, k) == \A i \in 1..n : i <= k => i \in 1..m /\ s[i] = rs[i]

\* ReadArgs() stops with NULL, and does so if there is one.
LEMMA NullRead ==
  ASSUME NEW n \in Nat, NEW rs, Alive(rs, n), NEW values
  PROVE  /\ NullEnds(ReadArgs(rs, values))
         /\ HasNull(rs, n) => ReadArgs(rs, values).failed # 0
<1> DEFINE read == [i \in DOMAIN rs |-> IF i \in values THEN rs[i] ELSE Evaluate(rs[i])]
           bad == {i \in DOMAIN rs : read[i].value \in Aborted}
           failed == IF bad = {} THEN 0 ELSE CHOOSE i \in bad : \A j \in bad : i <= j
           last == IF failed = 0 THEN Len(rs) ELSE failed
           a == ReadArgs(rs, values)
<1>1. DOMAIN rs = 1..n
  BY Zenon DEF Alive
<1>2. a.failed = failed /\ a.vals = [i \in 1..last |-> read[i].value]
  BY Zenon DEF ReadArgs
<1>3. /\ "crash" \in Aborted /\ NULL \in Aborted /\ \A x \in Aborted : x = NULL \/ x = "crash"
      /\ NULL # "crash" /\ NULL \notin {"blob", "no blob"} /\ NULL # "no data"
  BY Zenon DEF Aborted, NULL
<1>4. ASSUME NEW i \in 1..n
      PROVE  read[i].value # "crash" /\ (rs[i].value = NULL => read[i].value = NULL)
  <2>1. rs[i].value # "crash"
    BY Zenon DEF Alive
  <2>2. /\ Evaluate(rs[i]).value = NULL \/ Evaluate(rs[i]) = rs[i]
    BY Zenon, <1>3 DEF Evaluate, Ends, Result
  <2> QED
    BY Zenon, <1>1, <1>3, <2>1, <2>2
<1> HIDE DEF read, a
<1>5. CASE bad = {}
  <2>1. \A k \in 1..n : rs[k].value # NULL
    BY Zenon, <1>1, <1>3, <1>4, <1>5
  <2> QED
    BY Zenon, <1>2, <1>5, <2>1 DEF a, NullEnds, HasNull
<1>6. CASE bad # {}
  <2>1. 1..n \subseteq Nat
    OBVIOUS
  <2>2. bad \subseteq Nat
    BY Zenon, <1>1, <2>1
  <2>3. failed \in bad
    BY Zenon, <1>6, <2>2, LeastNumber
  <2> HIDE DEF failed
  <2>4. failed \in 1..n /\ read[failed].value \in Aborted
    BY Zenon, <1>1, <2>3
  <2>5. failed > 0 /\ failed # 0 /\ failed \in 1..failed
    BY <2>4
  <2>6. a.vals[a.failed] # "crash"
    BY Zenon, <1>2, <1>4, <2>4, <2>5
  <2>7. Failed(a, NULL).value = NULL
    BY Zenon, <2>6 DEF Failed, Result
  <2> QED
    BY Zenon, <1>2, <2>5, <2>7 DEF a, NullEnds
<1> QED
  BY Zenon, <1>5, <1>6

\* The first of some results.
LEMMA AlivePart ==
  ASSUME NEW n \in Nat, NEW rs, Alive(rs, n), NEW k \in Nat
  PROVE  \E m \in 0..n : Alive(UpTo(rs, k), m) /\ Covers(UpTo(rs, k), m, rs, n, k)
<1> DEFINE m == IF k < n THEN k ELSE n
<1>1. /\ m \in 0..n /\ m \in Nat /\ \A i \in 1..m : i \in 1..n
      /\ \A i \in 1..n : i <= k => i \in 1..m
  OBVIOUS
<1>2. DOMAIN rs = 1..n
  BY Zenon DEF Alive
<1>3. Len(rs) = n
  BY <1>2
<1>4. UpTo(rs, k) = SubSeq(rs, 1, m)
  BY Zenon, <1>3 DEF UpTo
<1> HIDE DEF m
<1>5. SubSeq(rs, 1, m) = [i \in 1..m |-> rs[i]]
  BY <1>1, <1>2, <1>3
<1>6. Alive(UpTo(rs, k), m)
  BY Zenon, <1>1, <1>4, <1>5 DEF Alive
<1>7. Covers(UpTo(rs, k), m, rs, n, k)
  BY Zenon, <1>1, <1>4, <1>5 DEF Covers
<1> QED
  BY Zenon, <1>1, <1>6, <1>7

\* From right to left.
LEMMA AliveReverse ==
  ASSUME NEW n \in Nat, NEW rs, Alive(rs, n)
  PROVE  Alive(Reverse(rs), n) /\ (HasNull(rs, n) => HasNull(Reverse(rs), n))
<1>1. DOMAIN rs = 1..n
  BY Zenon DEF Alive
<1>2. Len(rs) = n
  BY <1>1
<1>3. \A i \in 1..n : (n - i) + 1 \in 1..n /\ (n - ((n - i) + 1)) + 1 = i
  OBVIOUS
<1>4. Reverse(rs) = [i \in 1..n |-> rs[(n - i) + 1]]
  BY Zenon, <1>2 DEF Reverse
<1>5. Alive(Reverse(rs), n)
  BY Zenon, <1>3, <1>4 DEF Alive
<1>6. \A i \in 1..n : Reverse(rs)[(n - i) + 1] = rs[i]
  <2> SUFFICES ASSUME NEW i \in 1..n PROVE Reverse(rs)[(n - i) + 1] = rs[i]
    OBVIOUS
  <2> DEFINE j == (n - i) + 1
  <2>1. j \in 1..n /\ (n - j) + 1 = i
    BY Zenon, <1>3
  <2> HIDE DEF j
  <2>2. Reverse(rs)[j] = rs[(n - j) + 1]
    BY Zenon, <1>4, <2>1
  <2> QED
    BY Zenon, <2>1, <2>2 DEF j
<1>7. ASSUME NEW i \in 1..n, rs[i].value = NULL PROVE HasNull(Reverse(rs), n)
  <2>1. (n - i) + 1 \in 1..n /\ Reverse(rs)[(n - i) + 1].value = NULL
    BY Zenon, <1>3, <1>6, <1>7
  <2> QED
    BY Zenon, <2>1 DEF HasNull
<1> QED
  BY Zenon, <1>5, <1>7 DEF HasNull

\* A registered function one of whose arguments is NULL.
LEMMA NullCall ==
  ASSUME NEW n \in Nat, NEW rs, Alive(rs, n), NEW e,
         e.fn \in Registered, e.fn # "retouch_binaries", n \in FunctionTable[e.fn].argc,
         NEW k \in 1..n, rs[k].value = NULL,
         k <= IF e.fn \in Unchecked THEN FunctionTable[e.fn].split
              ELSE FunctionTable[e.fn].reads
  PROVE  Call(e, rs).value = NULL
<1> DEFINE f == FunctionTable[e.fn]
           args == IF f.swaps THEN Reverse(rs) ELSE UpTo(rs, f.reads)
           h == ReadArgs(UpTo(args, f.split), f.values)
           a == ReadArgs(args, f.values)
           refused == \/ e.outcome = "refused"
                      \/ \E i \in DOMAIN h.vals \cap f.nonempty : h.vals[i] = "empty"
<1>1. DOMAIN rs = 1..n
  BY Zenon DEF Alive
<1>2. Len(rs) = n
  BY <1>1
<1>3. /\ FnOk(f)
      /\ IF e.fn \in Unchecked THEN ~f.swaps /\ f.split <= f.reads ELSE f.later = NULL
  BY Zenon, FunctionsOk
<1>4. f.reads \in Nat /\ f.split \in Nat /\ f.first = NULL /\ ~(0 > 0)
  <2>1. ~(0 > 0)
    OBVIOUS
  <2> QED
    BY Zenon, <1>3, <2>1 DEF FnOk
<1>5. /\ h.failed > 0 => Call(e, rs) = Failed(h, f.first)
      /\ ~(h.failed > 0) /\ refused => Call(e, rs) = Ends(NULL, h.log)
      /\ ~(h.failed > 0) /\ ~refused /\ a.failed > 0 => Call(e, rs) = Failed(a, f.later)
  BY Zenon, <1>2 DEF Call
<1>6. Ends(NULL, h.log).value = NULL
  BY Zenon DEF Ends, Result
<1>7. PICK m \in 0..n : /\ Alive(args, m) /\ HasNull(args, m)
                        /\ e.fn \in Unchecked => k \in 1..m /\ args[k].value = NULL
  <2>1. CASE f.swaps
    <3>1. n \in 0..n /\ e.fn \notin Unchecked
      BY <1>3, <2>1
    <3>2. args = Reverse(rs)
      BY Zenon, <2>1
    <3>3. HasNull(rs, n)
      BY Zenon DEF HasNull
    <3> HIDE DEF args, f
    <3> QED
      BY Zenon, <3>1, <3>2, <3>3, AliveReverse
  <2>2. CASE ~f.swaps
    <3>1. k <= f.reads
      BY <1>3, <1>4
    <3>2. args = UpTo(rs, f.reads)
      BY Zenon, <2>2
    <3> HIDE DEF args, f
    <3>3. PICK m \in 0..n : Alive(args, m) /\ Covers(args, m, rs, n, f.reads)
      BY Zenon, <1>4, <3>2, AlivePart
    <3>4. k \in 1..m /\ args[k].value = NULL
      BY Zenon, <3>1, <3>3 DEF Covers
    <3> QED
      BY Zenon, <3>3, <3>4 DEF HasNull
  <2> QED
    BY Zenon, <2>1, <2>2
<1> HIDE DEF args
<1>8. m \in Nat /\ \A i \in 0..m : i \in Nat
  OBVIOUS
<1> DEFINE head == UpTo(args, f.split)
<1>9. PICK l \in 0..m : Alive(head, l) /\ Covers(head, l, args, m, f.split)
  <2> HIDE DEF f
  <2> QED
    BY Zenon, <1>4, <1>7, <1>8, AlivePart
<1> HIDE DEF head
<1>10. NullEnds(h) /\ (HasNull(head, l) => h.failed # 0)
  BY Zenon, <1>8, <1>9, NullRead DEF head
<1>11. a.failed # 0 /\ NullEnds(a)
  BY Zenon, <1>7, <1>8, NullRead
<1>12. CASE e.fn \in Unchecked
  <2>1. k \in 1..l /\ head[k].value = NULL
    BY Zenon, <1>7, <1>9, <1>12 DEF Covers
  <2>2. h.failed # 0
    BY Zenon, <1>10, <2>1 DEF HasNull
  <2> HIDE DEF refused, h, a, f
  <2> QED
    BY Zenon, <1>4, <1>5, <1>10, <2>2 DEF NullEnds
<1>13. CASE e.fn \notin Unchecked
  <2>1. f.later = NULL
    BY Zenon, <1>3, <1>13
  <2> HIDE DEF refused, h, a, f
  <2> QED
    BY Zenon, <1>4, <1>5, <1>6, <1>10, <1>11, <2>1 DEF NullEnds
<1> QED
  BY Zenon, <1>12, <1>13

-----------------------------------------------------------------------------
(***************************************************************************)
(* Scripts.                                                                *)
(***************************************************************************)
\* What the parser builds: literals, operators and calls of functions that are
\* known, with as many operands as it likes.
Form(fn, argc, outcome) ==
  \/ fn = "literal" /\ outcome \in {"text", "empty"}
  \/ fn \in {";", "&&", "||"} /\ argc = 2
  \/ fn \in {"ifelse", "abort", "assert", "+", "==", "!=", "!"}
  \/ fn \in Registered /\ outcome \in FunctionTable[fn].outcomes

\* An expression of earlier ones, numbered below i.
WellBuilt(e, i) == e.argv \in Seq(1..i - 1) /\ Form(e.fn, Len(e.argv), e.outcome)

\* The expressions of a script, each after its operands.
Script(es) == /\ Len(es) \in Nat /\ es = [i \in 1..Len(es) |-> es[i]]
              /\ \A i \in 1..Len(es) : WellBuilt(es[i], i)

\* Whatever the expression is, good operands give a good result.
LEMMA GoodApply ==
  ASSUME NEW e, NEW i, WellBuilt(e, i), e.fn # "retouch_binaries",
         NEW n \in Nat, n = Len(e.argv), NEW rs, Goods(rs, n)
  PROVE  Good(Apply(e, rs))
<1>1. {"literal", ";", "&&", "||", "ifelse", "abort", "assert", "+", "==", "!=", "!"}
        \cap Registered = {}
  BY Zenon, TableNames
<1>2. CASE e.fn = "literal"
  <2>1. e.outcome \in {"text", "empty"}
    BY Zenon, <1>2, TableNames DEF WellBuilt, Form
  <2>2. e.outcome \in Values /\ e.outcome \notin Aborted
    BY Zenon, <2>1 DEF Values, Aborted, NULL
  <2>3. Apply(e, rs) = Result(e.outcome, <<>>)
    BY Zenon, <1>1, <1>2 DEF Apply
  <2> QED
    BY Zenon, <2>2, <2>3, CleanEmpty, GoodResult
<1>3. CASE e.fn \in {";", "&&", "||"}
  <2>1. n = 2
    BY Zenon, <1>3, TableNames DEF WellBuilt, Form
  <2>2. /\ e.fn = ";" => Apply(e, rs) = SequenceFn(rs)
        /\ e.fn = "&&" => Apply(e, rs) = LogicalAndFn(rs)
        /\ e.fn = "||" => Apply(e, rs) = LogicalOrFn(rs)
    BY Zenon, <1>1 DEF Apply
  <2> QED
    BY Zenon, <1>3, <2>1, <2>2, GoodOperators
<1>4. CASE e.fn \in {"ifelse", "abort", "assert"}
  <2>1. /\ e.fn = "ifelse" => Apply(e, rs) = IfElseFn(rs)
        /\ e.fn = "abort" => Apply(e, rs) = AbortFn(rs)
        /\ e.fn = "assert" => Apply(e, rs) = AssertFn(rs)
    BY Zenon, <1>1 DEF Apply
  <2> QED
    BY Zenon, <1>4, <2>1, GoodIfElse, GoodAbort, GoodAssert
<1>5. CASE e.fn \in {"+", "==", "!=", "!"}
  <2>1. Apply(e, rs) = StrictFn(e, rs)
    BY Zenon, <1>1, <1>5 DEF Apply
  <2> QED
    BY Zenon, <2>1, GoodStrict
<1>6. CASE e.fn \in Registered
  <2>1. e.fn \notin {"literal", ";", "&&", "||", "ifelse", "abort", "assert", "+", "==", "!=", "!"}
    BY Zenon, <1>6, TableNames
  <2>2. e.outcome \in FunctionTable[e.fn].outcomes
    BY Zenon, <2>1 DEF WellBuilt, Form
  <2>3. Apply(e, rs) = Call(e, rs)
    BY Zenon, <1>6, <2>1 DEF Apply
  <2> QED
    BY Zenon, <1>6, <2>2, <2>3, GoodCall
<1> QED
  BY Zenon, <1>2, <1>3, <1>4, <1>5, <1>6 DEF WellBuilt, Form

\* EvaluateValue() of every expression of a script, in terms of its operands'.
Evaluated(v, es) ==
  \A i \in 1..Len(es) : v[i] = Apply(es[i], [k \in DOMAIN es[i].argv |-> v[es[i].argv[k]]])

\* The recursion of EvaluateValue() is well founded: operands come before their expression.
LEMMA ValueOf ==
  ASSUME NEW es, Script(es)
  PROVE  Evaluated(EvaluateValue(es), es)
<1> DEFINE n == Len(es)
           F(f, m) == [i \in 1..m |-> Apply(es[i], [k \in DOMAIN es[i].argv |-> f[es[i].argv[k]]])]
           h == CHOOSE f : f = F(f, n)
<1>1. n \in Nat /\ DOMAIN es = 1..n
  BY Zenon DEF Script
<1>2. \A i \in 1..n : \A k \in DOMAIN es[i].argv : es[i].argv[k] \in 1..i - 1
  <2> SUFFICES ASSUME NEW i \in 1..n PROVE \A k \in DOMAIN es[i].argv : es[i].argv[k] \in 1..i - 1
    BY Zenon
  <2>1. es[i].argv \in Seq(1..i - 1)
    BY Zenon DEF Script, WellBuilt
  <2> QED
    BY <2>1
<1>3. EvaluateValue(es) = h
  BY Zenon, <1>1 DEF EvaluateValue
<1>4. \E f : f = F(f, n)
  <2> SUFFICES ASSUME ~\E f : f = F(f, n)
               PROVE  FALSE
    BY Zenon
  <2> DEFINE S == {m \in 0..n : ~\E f : f = F(f, m)}
  <2>1. n \in S /\ S \subseteq Nat
    <3>1. n \in 0..n /\ 0..n \subseteq Nat
      BY <1>1
    <3> QED
      BY Zenon, <3>1
  <2>2. PICK m \in S : \A j \in S : m <= j
    BY Zenon, <2>1, LeastNumber
  <2>3. \A j \in 0..n : ~(m <= j) => \E f : f = F(f, j)
    BY Zenon, <2>2
  <2>4. m \in 0..n /\ ~\E f : f = F(f, m)
    BY Zenon
  <2>5. m # 0
    <3> DEFINE z == [i \in 1..0 |-> 0]
    <3>1. \A i \in 1..0 : FALSE
      OBVIOUS
    <3>2. z = F(z, 0)
      BY Zenon, <3>1
    <3> QED
      BY Zenon, <2>4, <3>2
  <2>6. m - 1 \in 0..n /\ ~(m <= m - 1)
    BY <1>1, <2>4, <2>5
  <2>7. PICK g : g = F(g, m - 1)
    BY Zenon, <2>3, <2>6
  <2> DEFINE u == [i \in 1..m |-> IF i = m THEN Apply(es[m], [k \in DOMAIN es[m].argv |-> g[es[m].argv[k]]])
                                  ELSE g[i]]
  <2>8. \A i \in 1..m : i \in 1..n /\ (i # m => i \in 1..m - 1)
    BY <1>1, <2>4
  <2>9. \A i \in 1..m : \A j \in 1..i - 1 : j \in 1..m /\ j # m
    BY <1>1, <2>4
  <2>10. \A i \in 1..m : u[i] = Apply(es[i], [k \in DOMAIN es[i].argv |-> u[es[i].argv[k]]])
    <3> SUFFICES ASSUME NEW i \in 1..m
                 PROVE  u[i] = Apply(es[i], [k \in DOMAIN es[i].argv |-> u[es[i].argv[k]]])
      BY Zenon
    <3>1. \A k \in DOMAIN es[i].argv : u[es[i].argv[k]] = g[es[i].argv[k]]
      BY Zenon, <1>2, <2>8, <2>9
    <3>2. [k \in DOMAIN es[i].argv |-> u[es[i].argv[k]]] = [k \in DOMAIN es[i].argv |-> g[es[i].argv[k]]]
      BY Zenon, <3>1
    <3>3. CASE i = m
      BY Zenon, <3>2, <3>3
    <3>4. CASE i # m
      <4>1. u[i] = g[i]
        BY Zenon, <3>4
      <4>2. g[i] = Apply(es[i], [k \in DOMAIN es[i].argv |-> g[es[i].argv[k]]])
        BY Zenon, <2>7, <2>8, <3>4
      <4> QED
        BY Zenon, <3>2, <4>1, <4>2
    <3> QED
      BY Zenon, <3>3, <3>4
  <2>11. u = F(u, m)
    BY Zenon, <2>10
  <2> QED
    BY Zenon, <2>4, <2>11
<1>5. h = F(h, n)
  BY Zenon, <1>4
<1> HIDE DEF h
<1>6. \A i \in 1..n : h[i] = Apply(es[i], [k \in DOMAIN es[i].argv |-> h[es[i].argv[k]]])
  BY Zenon, <1>5
<1> QED
  BY Zenon, <1>3, <1>6 DEF Evaluated

\* expr.c 26-29, for every script that calls only functions that keep the rule, of any size
\* and any shape: the log of every expression ends with the first abort, if there is one, and
\* its value is NULL (or the updater is dead) if and only if there is one.
THEOREM ScriptStops ==
  ASSUME NEW es, Script(es), \A i \in 1..Len(es) : es[i].fn # "retouch_binaries"
  PROVE  \A i \in 1..Len(es) : Good(EvaluateValue(es)[i])
<1> DEFINE n == Len(es)
           v == EvaluateValue(es)
           S == {i \in 1..n : ~Good(v[i])}
<1>1. n \in Nat /\ 1..n \subseteq Nat
  BY DEF Script
<1>2. Evaluated(v, es)
  BY Zenon, ValueOf
<1> SUFFICES ASSUME S # {} PROVE FALSE
  BY Zenon
<1> HIDE DEF v
<1>3. PICK i \in S : \A j \in S : i <= j
  BY Zenon, <1>1, LeastNumber
<1>4. i \in 1..n /\ ~Good(v[i])
  BY Zenon
<1>5. WellBuilt(es[i], i)
  BY Zenon, <1>4 DEF Script
<1> DEFINE a == es[i].argv
           rs == [k \in DOMAIN a |-> v[a[k]]]
<1>6. v[i] = Apply(es[i], rs)
  BY Zenon, <1>2, <1>4 DEF Evaluated
<1>7. Len(a) \in Nat /\ DOMAIN a = 1..Len(a) /\ \A k \in 1..Len(a) : a[k] \in 1..i - 1
  <2>1. a \in Seq(1..i - 1)
    BY Zenon, <1>5 DEF WellBuilt
  <2> QED
    BY SMTT(20), <2>1
<1>8. \A j \in 1..i - 1 : j \in 1..n /\ ~(i <= j)
  BY <1>1, <1>4
<1>9. \A k \in 1..Len(a) : Good(v[a[k]])
  BY Zenon, <1>3, <1>7, <1>8
<1>10. Goods(rs, Len(a))
  BY Zenon, <1>7, <1>9 DEF Goods
<1>11. es[i].fn # "retouch_binaries"
  BY Zenon, <1>4
<1> HIDE DEF rs
<1>12. Good(Apply(es[i], rs))
  BY Zenon, <1>5, <1>7, <1>10, <1>11, GoodApply
<1> QED
  BY Zenon, <1>4, <1>6, <1>12

\* The log of a good result, as AbortStops states it.
LEMMA GoodStops ==
  ASSUME NEW r, Good(r), r.value \in {"text", "empty"} \cup Aborted
  PROVE  /\ \A i \in 1..Len(r.log) - 1 : r.log[i] = "abort" => r.log[i + 1] = "abort"
         /\ Status(r.value) = 0 <=> \A i \in DOMAIN r.log : r.log[i] # "abort"
<1> DEFINE log == r.log
           n == Len(log)
<1>1. log \in Logs
  BY Zenon DEF Good, Clean, Stopped
<1>2. n \in Nat /\ DOMAIN log = 1..n
  BY <1>1 DEF Logs
<1> HIDE DEF n
<1>3. \A i \in 1..n - 1 : i \in 1..n /\ i + 1 \in 1..n
  BY <1>2
<1>4. CASE r.value \in Aborted
  <2>1. PICK k \in 1..n : \A i \in 1..n : log[i] = "abort" <=> i >= k
    BY Zenon, <1>4 DEF Good, Stopped, n
  <2>2. k >= k /\ \A i \in 1..n - 1 : i >= k => i + 1 >= k
    BY <1>2
  <2>3. log[k] = "abort" /\ \A i \in 1..n - 1 : log[i] = "abort" => log[i + 1] = "abort"
    BY Zenon, <1>3, <2>1, <2>2
  <2>4. Status(r.value) # 0
    BY <1>4 DEF Status, Aborted, NULL
  <2> QED
    BY Zenon, <1>2, <2>3, <2>4 DEF n
<1>5. CASE r.value \notin Aborted
  <2>1. \A i \in 1..n : log[i] # "abort"
    BY Zenon, <1>5 DEF Good, Clean, n
  <2>2. Status(r.value) = 0
    BY <1>5 DEF Status, Aborted, NULL
  <2> QED
    BY Zenon, <1>2, <1>3, <2>1, <2>2 DEF n
<1> QED
  BY Zenon, <1>4, <1>5

\* What the parser does keeps a script a script.
LEMMA ScriptGrows ==
  ASSUME NEW es, Script(es), NEW e, WellBuilt(e, Len(es) + 1)
  PROVE  Script(Append(es, e)) /\ Len(Append(es, e)) = Len(es) + 1
<1> DEFINE n == Len(es)
           c == Append(es, e)
           R == {es[i] : i \in 1..n} \cup {e}
<1>1. n \in Nat /\ es = [i \in 1..n |-> es[i]] /\ \A i \in 1..n : WellBuilt(es[i], i)
  BY Zenon DEF Script
<1>2. es \in [1..n -> R] /\ e \in R
  BY Zenon, <1>1
<1> HIDE DEF R
<1>3. es \in Seq(R)
  BY <1>1, <1>2
<1>4. /\ c \in Seq(R) /\ Len(c) = n + 1 /\ c[n + 1] = e /\ \A i \in 1..n : c[i] = es[i]
  BY <1>2, <1>3
<1> SUFFICES Script(c) /\ Len(c) = n + 1
  BY Zenon
<1> HIDE DEF n, c
<1>5. c = [i \in 1..n + 1 |-> c[i]] /\ n + 1 \in Nat
  BY <1>1, <1>4
<1>6. \A i \in 1..n + 1 : i \in 1..n \/ i = n + 1
  BY <1>1
<1>7. \A i \in 1..n + 1 : WellBuilt(c[i], i)
  BY Zenon, <1>1, <1>4, <1>6 DEF n
<1> QED
  BY Zenon, <1>4, <1>5, <1>7 DEF Script

\* The parser has read a script that begins with the operands the later ones use.
ScriptInv == Script(exprs) /\ Len(exprs) >= 3

\* A call built around the root.
LEMMA AroundKeeps ==
  ASSUME ScriptInv, NEW fn, NEW argc \in Nat, NEW at, NEW blobs, NEW outcome,
         Around(fn, argc, at, blobs, outcome), Form(fn, argc, outcome)
  PROVE  ScriptInv'
<1> DEFINE n == Len(exprs)
           argv == [i \in 1..argc |-> IF i = at THEN n ELSE Operand(i \in blobs)]
           e == Expr(fn, argv, outcome)
<1>1. n \in Nat /\ n >= 3
  BY Zenon DEF ScriptInv, Script
<1>2. exprs' = Append(exprs, e)
  BY Zenon DEF Around
<1>3. n \in 1..n /\ 2 \in 1..n /\ 3 \in 1..n
  BY <1>1
<1>4. argv \in [1..argc -> 1..n]
  BY Zenon, <1>3 DEF Operand
<1>5. e.fn = fn /\ e.argv = argv /\ e.outcome = outcome
  BY Zenon DEF Expr
<1> HIDE DEF argv, e
<1>6. argv \in Seq(1..n) /\ Len(argv) = argc
  BY <1>4
<1>7. 1..(n + 1) - 1 = 1..n
  BY <1>1
<1>8. WellBuilt(e, n + 1)
  <2>1. e.argv \in Seq(1..(n + 1) - 1)
    BY Zenon, <1>5, <1>6, <1>7
  <2>2. Form(e.fn, Len(e.argv), e.outcome)
    BY Zenon, <1>5, <1>6
  <2> QED
    BY Zenon, <2>1, <2>2 DEF WellBuilt
<1>9. Script(exprs') /\ Len(exprs') = n + 1
  BY Zenon, <1>2, <1>8, ScriptGrows DEF ScriptInv
<1>10. n + 1 >= 3
  BY <1>1
<1> QED
  BY Zenon, <1>9, <1>10 DEF ScriptInv

\* Build() and the calls of parser.y keep it so.
LEMMA ScriptInvariant == EdifySpec => []ScriptInv
<1>1. EdifyInit => ScriptInv
  <2> SUFFICES ASSUME NEW text \in {"text", "empty"},
                      exprs = Append(Operands, Expr("literal", <<>>, text))
               PROVE  ScriptInv
    BY Zenon DEF EdifyInit
  <2> DEFINE a == Expr("literal", <<>>, "text")
             b == Expr("read_file", <<1>>, "blob")
             c == Expr("wipe_cache", <<>>, "text")
             d == Expr("literal", <<>>, text)
  <2>1. WellBuilt(a, 1) /\ WellBuilt(d, 4)
    BY DEF WellBuilt, Expr, Form
  <2>2. WellBuilt(b, 2)
    <3>1. "blob" \in FunctionTable["read_file"].outcomes /\ "read_file" \in Registered
      BY Zenon, TableNames DEF FunctionTable, ReadFileFn, Fn
    <3>2. <<1>> \in Seq(1..2 - 1)
      OBVIOUS
    <3> QED
      BY Zenon, <3>1, <3>2 DEF WellBuilt, Expr, Form
  <2>3. WellBuilt(c, 3)
    <3>1. "text" \in FunctionTable["wipe_cache"].outcomes /\ "wipe_cache" \in Registered
      BY Zenon, TableNames DEF FunctionTable, WipeCacheFn, Fn
    <3>2. <<>> \in Seq(1..3 - 1)
      OBVIOUS
    <3> QED
      BY Zenon, <3>1, <3>2 DEF WellBuilt, Expr, Form
  <2>4. Operands = <<a, b, c>>
    BY Zenon DEF Operands
  <2> HIDE DEF a, b, c, d
  <2>5. /\ Len(Operands) = 3 /\ Operands = [i \in 1..3 |-> Operands[i]]
        /\ Operands[1] = a /\ Operands[2] = b /\ Operands[3] = c
    BY <2>4
  <2>6. \A i \in 1..3 : i = 1 \/ i = 2 \/ i = 3
    OBVIOUS
  <2>7. Script(Operands)
    <3>1. \A i \in 1..3 : WellBuilt(Operands[i], i)
      BY Zenon, <2>1, <2>2, <2>3, <2>5, <2>6
    <3>2. Len(Operands) \in Nat /\ 1..Len(Operands) = 1..3
      BY <2>5
    <3>3. Operands = [i \in 1..Len(Operands) |-> Operands[i]]
      BY Zenon, <2>5, <3>2
    <3> QED
      BY Zenon, <3>1, <3>2, <3>3 DEF Script
  <2>8. 3 + 1 = 4 /\ 4 >= 3 /\ 3 \in Nat
    OBVIOUS
  <2>9. WellBuilt(d, Len(Operands) + 1)
    BY Zenon, <2>1, <2>5, <2>8
  <2>10. exprs = Append(Operands, d)
    BY Zenon DEF d
  <2>11. Script(exprs) /\ Len(exprs) = Len(Operands) + 1
    BY Zenon, <2>7, <2>9, <2>10, ScriptGrows
  <2> QED
    BY Zenon, <2>5, <2>8, <2>11 DEF ScriptInv
<1>2. ASSUME ScriptInv, [EdifyNext]_edifyVars PROVE ScriptInv'
  <2>1. CASE Build
    <3>1. 1 \in Nat /\ 2 \in Nat /\ \A argc \in 2..3 : argc \in Nat
      OBVIOUS
    <3> QED
      BY Zenon, <1>2, <2>1, <3>1, AroundKeeps DEF Build, Form
  <2>2. CASE BuildCall
    <3>1. /\ \A argc \in 0..3 : argc \in Nat
          /\ \A argc \in 0..MaxArgs : argc \in Nat
      BY EdifyAssumption
    <3> QED
      BY Zenon, <1>2, <2>2, <3>1, AroundKeeps DEF BuildCall, Form
  <2>3. CASE UNCHANGED edifyVars
    BY Zenon, <1>2, <2>3 DEF ScriptInv, edifyVars
  <2> QED
    BY Zenon, <1>2, <2>1, <2>2, <2>3 DEF EdifyNext
<1> QED
  BY <1>1, <1>2, PTL DEF EdifySpec

\* The first function of a script that aborts is the last thing the script does to the device,
\* and the updater reports a failure if and only if there is one (updater.c, main).
THEOREM AbortStopsCorrect == EdifySpec => []AbortStops
<1>1. ScriptInv => AbortStops
  <2> SUFFICES ASSUME ScriptInv, ~Uses("retouch_binaries")
               PROVE  LET r == Evaluate(EvaluateValue(exprs)[Len(exprs)]) IN
                      /\ \A i \in 1..Len(r.log) - 1 : r.log[i] = "abort" => r.log[i + 1] = "abort"
                      /\ Status(r.value) = 0 <=> \A i \in DOMAIN r.log : r.log[i] # "abort"
    BY Zenon DEF AbortStops
  <2>1. Script(exprs) /\ DOMAIN exprs = 1..Len(exprs) /\ Len(exprs) \in Nat /\ Len(exprs) >= 3
    BY Zenon DEF ScriptInv, Script
  <2>2. \A i \in 1..Len(exprs) : exprs[i].fn # "retouch_binaries"
    BY Zenon, <2>1 DEF Uses
  <2>3. Len(exprs) \in 1..Len(exprs)
    BY <2>1
  <2>4. Good(EvaluateValue(exprs)[Len(exprs)])
    BY Zenon, <2>1, <2>2, <2>3, ScriptStops
  <2> DEFINE r == Evaluate(EvaluateValue(exprs)[Len(exprs)])
  <2>5. Good(r) /\ r.value \in {"text", "empty"} \cup Aborted
    BY Zenon, <2>4, GoodEvaluate
  <2> HIDE DEF r
  <2>6. /\ \A i \in 1..Len(r.log) - 1 : r.log[i] = "abort" => r.log[i + 1] = "abort"
        /\ Status(r.value) = 0 <=> \A i \in DOMAIN r.log : r.log[i] # "abort"
    BY Zenon, <2>5, GoodStops
  <2> QED
    BY Zenon, <2>6 DEF r
<1> QED
  BY <1>1, ScriptInvariant, PTL

\* A call whose arguments are evaluated and give NULL for one returns NULL: the updater is not
\* killed and the script does not go on (updater/install.c, all functions but the exceptions
\* that NullReturned names), in every script and for any number of arguments.
THEOREM NullReturnedCorrect == EdifySpec => []NullReturned
<1>1. ScriptInv => NullReturned
  <2> DEFINE v == EvaluateValue(exprs)
             given(i, k) == v[exprs[i].argv[k]].value
             rs(i) == [k \in DOMAIN exprs[i].argv |-> v[exprs[i].argv[k]]]
  <2> SUFFICES ASSUME ScriptInv, NEW i \in DOMAIN exprs,
                      exprs[i].fn \in Registered \ {"retouch_binaries"},
                      Len(exprs[i].argv) \in FunctionTable[exprs[i].fn].argc,
                      \A k \in DOMAIN exprs[i].argv : given(i, k) # "crash",
                      NEW k \in DOMAIN exprs[i].argv, given(i, k) = NULL,
                      k <= IF exprs[i].fn \in Unchecked THEN FunctionTable[exprs[i].fn].split
                           ELSE FunctionTable[exprs[i].fn].reads
               PROVE  v[i].value = NULL
    BY Zenon DEF NullReturned
  <2> DEFINE n == Len(exprs[i].argv)
  <2>1. Script(exprs) /\ DOMAIN exprs = 1..Len(exprs)
    BY Zenon DEF ScriptInv, Script
  <2>2. WellBuilt(exprs[i], i) /\ v[i] = Apply(exprs[i], rs(i))
    <3>1. i \in 1..Len(exprs) /\ Evaluated(v, exprs)
      BY Zenon, <2>1, ValueOf
    <3> HIDE DEF v
    <3> QED
      BY Zenon, <2>1, <3>1 DEF Script, Evaluated
  <2>3. n \in Nat /\ DOMAIN exprs[i].argv = 1..n
    <3>1. exprs[i].argv \in Seq(1..i - 1)
      BY Zenon, <2>2 DEF WellBuilt
    <3> QED
      BY SMTT(20), <3>1
  <2>4. Alive(rs(i), n) /\ k \in 1..n /\ rs(i)[k].value = NULL
    BY Zenon, <2>3 DEF Alive
  <2>5. exprs[i].fn \notin {"literal", ";", "&&", "||", "ifelse", "abort", "assert", "+", "==", "!=", "!"}
    BY Zenon, TableNames
  <2>6. Apply(exprs[i], rs(i)) = Call(exprs[i], rs(i))
    BY Zenon, <2>5 DEF Apply
  <2> HIDE DEF v, rs, given, n
  <2>7. Call(exprs[i], rs(i)).value = NULL
    <3> DEFINE s == rs(i)
               e == exprs[i]
    <3>1. /\ e.fn \in Registered /\ e.fn # "retouch_binaries" /\ n \in FunctionTable[e.fn].argc
          /\ k <= IF e.fn \in Unchecked THEN FunctionTable[e.fn].split
                  ELSE FunctionTable[e.fn].reads
      BY Zenon DEF n
    <3>2. n \in Nat /\ Alive(s, n) /\ k \in 1..n /\ s[k].value = NULL
      BY Zenon, <2>3, <2>4
    <3> HIDE DEF s, e
    <3>3. Call(e, s).value = NULL
      BY Zenon, <3>1, <3>2, NullCall
    <3> QED
      BY Zenon, <3>3 DEF s, e
  <2> QED
    BY Zenon, <2>2, <2>6, <2>7
<1> QED
  BY <1>1, ScriptInvariant, PTL
=============================================================================
