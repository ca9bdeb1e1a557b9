--------------------------- MODULE ScreensProofs ---------------------------
(***************************************************************************)
(* Proofs about what the user sees.                                        *)
(*                                                                         *)
(* For any script, menus of any size and any output: the two triggers      *)
(* implement the dialogue, and the screen shows what was printed before a  *)
(* question.                                                               *)
(*                                                                         *)
(* For the console, the screen outside of it and the custom menus, with    *)
(* screens of any size, prints of any length, escape sequences with any    *)
(* parameters, menu files with any items, a stack of menus of any depth    *)
(* and any tree of directories: what is drawn is what there is.            *)
(***************************************************************************)
EXTENDS Scripts, ConsoleScreen, Screen, Menus, WellFoundedInduction, FiniteSetTheorems, TLAPS

-----------------------------------------------------------------------------
(***************************************************************************)
(* Interactive scripts.                                                    *)
(***************************************************************************)
Runners == {"loop", "ask", "lower", "raise", "read", "waitpid", "last", "done"}
ScriptPcs == {"running", "write", "reset", "trigger", "poll", "exited"}

\* Whose turn it is: in_trigger is up only while the script polls and until
\* run_shell_script lowers it; between that and out_trigger it is not at the
\* top of its loop.
TurnInv ==
    /\ runner \in Runners /\ script \in ScriptPcs
    /\ script # "poll" => in_trigger = 0 /\ runner \notin {"ask", "lower", "raise"}
    /\ runner \in {"ask", "lower"} => in_trigger # 0
    /\ in_trigger # 0 => out_trigger = 0 /\ runner # "raise"
    /\ runner = "raise" => out_trigger = 0
    /\ script = "trigger" => out_trigger = 0
    /\ runner \in {"last", "done"} => script = "exited"

OutputInv ==
    /\ written \in Nat /\ printed \in Nat /\ last_read \in Nat /\ printed <= written
    /\ OutputPrinted

\* Once the script exits or waits for an answer it prints nothing more.
LEMMA TurnInvariant == ScriptsSpec => [](TurnInv /\ OutputInv)
<1> USE ScriptsAssumption DEF Runners, ScriptPcs
<1>1. ScriptsInit => TurnInv /\ OutputInv
  BY DEF ScriptsInit, TurnInv, OutputInv, OutputPrinted
<1>2. TurnInv /\ OutputInv /\ [ScriptsNext]_scriptVars => TurnInv' /\ OutputInv'
  <2> SUFFICES ASSUME TurnInv, OutputInv, [ScriptsNext]_scriptVars PROVE TurnInv' /\ OutputInv'
    OBVIOUS
  <2> USE DEF TurnInv, OutputInv, OutputPrinted, pageVars, outputVars, askVars
  <2>1. CASE ScriptPrints
    BY <2>1 DEF ScriptPrints
  <2>2. CASE ScriptAsks \/ ScriptExits
    BY <2>2 DEF ScriptAsks, ScriptExits
  <2>3. CASE AskWrite \/ AskReset
    BY <2>3 DEF AskWrite, AskReset
  <2>4. CASE AskTrigger
    BY <2>4 DEF AskTrigger
  <2>5. CASE AskPoll
    BY <2>5 DEF AskPoll
  <2>6. CASE RunLoop
    BY <2>6 DEF RunLoop, ReadPipe, Available
  <2>7. CASE User
    BY <2>7 DEF User, RunMenu, RunText, RunDefault, UserAnswers
  <2>8. CASE RunLower \/ RunRaise
    BY <2>8 DEF RunLower, RunRaise
  <2>9. CASE RunRead
    BY <2>9 DEF RunRead, ReadPipe, Available
  <2>10. CASE RunWaitpid
    BY <2>10 DEF RunWaitpid
  <2>11. CASE RunLast
    BY <2>11 DEF RunLast, ReadPipe, Available
  <2>12. CASE UNCHANGED scriptVars
    BY <2>12 DEF scriptVars
  <2> QED
    BY Zenon, <2>1, <2>2, <2>3, <2>4, <2>5, <2>6, <2>7, <2>8, <2>9, <2>10, <2>11, <2>12
    DEF ScriptsNext, imenu, run_shell_script
<1> QED
  BY <1>1, <1>2, PTL DEF ScriptsSpec

\* run_shell_script shows the output before a question and before it returns,
\* up to the one read it makes for that.
THEOREM OutputPrintedCorrect == ScriptsSpec => []OutputPrinted
<1>1. OutputInv => OutputPrinted
  BY DEF OutputInv
<1> QED
  BY <1>1, TurnInvariant, PTL

-----------------------------------------------------------------------------
KindSet   == ItemCounts \cup {Text}
AnswerSet == Texts \cup 0 .. Slots
Given     == Nat \X AnswerSet

\* The user has not answered yet, or the answer is on its way.
Unanswered == script \in {"write", "reset", "trigger"}
              \/ (script = "poll" /\ in_trigger # 0 /\ runner # "lower")
OnItsWay   == script = "poll" /\ ~Unanswered

\* What a question is worth: the page holds the question that was asked last,
\* then its answer.
TalkInv ==
    /\ asked \in Seq(KindSet) /\ answered \in Seq(Given) /\ received \in Seq(Given)
    /\ chosen \in Int /\ in_trigger \in {0, 1, 2}
    /\ script # "poll" \/ Unanswered => received = answered
    /\ script \in {"running", "exited"} => Len(received) = Question
    /\ Unanswered => Len(received) + 1 = Question
    /\ script \in {"reset", "trigger"} \/ (script = "poll" /\ Unanswered) => header = Question
    /\ in_trigger # 0 => (in_trigger = 2 <=> Kind = Text)
    /\ OnItsWay =>
           /\ answered = Append(received, <<Question, IF Kind = Text THEN reply ELSE chosen - 1>>)
           /\ Len(received) + 1 = Question /\ chosen # 0
           /\ out_trigger # 0 => out_trigger = chosen

\* Where nothing of the dialogue changes.
LEMMA TalkSame ==
    ASSUME TalkInv, UNCHANGED <<askVars, chosen, in_trigger, header, reply>>,
           Unanswered' <=> Unanswered,
           out_trigger' = out_trigger \/ (script # "poll" /\ out_trigger' = 0)
               \/ (runner = "raise" /\ out_trigger' = chosen),
           \/ script' = script
           \/ script = "running" /\ script' = "exited"
           \/ script = "reset" /\ script' = "trigger"
    PROVE  TalkInv'
BY DEF TalkInv, OnItsWay, Question, Kind, askVars

\* A question is put.
LEMMA TalkAsked == ASSUME TalkInv, TurnInv, ScriptAsks PROVE TalkInv' /\ D!DialogueNext
<1>1. /\ script = "running" /\ script' = "write"
      /\ UNCHANGED <<answered, received, chosen, in_trigger, out_trigger, header, reply>>
  BY DEF ScriptAsks, pageVars
<1>2. PICK k \in KindSet : asked' = Append(asked, k)
  BY DEF ScriptAsks, KindSet
<1>3. asked' \in Seq(KindSet) /\ Len(asked') = Len(asked) + 1
  BY <1>2 DEF TalkInv
<1>4. Len(received) = Len(asked) /\ received = answered /\ in_trigger = 0
  BY <1>1 DEF TalkInv, TurnInv, Question
<1>5. TalkInv'
  BY <1>1, <1>3, <1>4 DEF TalkInv, Unanswered, OnItsWay, Question
<1>6. D!Ask(k)
  BY <1>1, <1>2, <1>4 DEF D!Ask
<1> QED
  BY <1>2, <1>5, <1>6 DEF D!DialogueNext, KindSet

\* imenu and iinput write the page and raise in_trigger.
LEMMA TalkShown ==
    ASSUME TalkInv, TurnInv, AskWrite \/ AskReset \/ AskTrigger
    PROVE  TalkInv' /\ UNCHANGED askVars
<1>1. UNCHANGED <<asked, answered, received, chosen, runner>>
  BY DEF AskWrite, AskReset, AskTrigger, askVars
<1>2. CASE AskWrite
  BY <1>1, <1>2 DEF AskWrite, TalkInv, TurnInv, Unanswered, OnItsWay, Question, Kind
<1>3. CASE AskReset
  BY <1>1, <1>3 DEF AskReset, TalkInv, TurnInv, Unanswered, OnItsWay, Question, Kind
<1>4. CASE AskTrigger
  BY <1>1, <1>4 DEF AskTrigger, TalkInv, TurnInv, Unanswered, OnItsWay, Question, Kind
<1> QED
  BY <1>1, <1>2, <1>3, <1>4 DEF askVars

\* The user answers the question in the page, which is the last one.
LEMMA TalkAnswered == ASSUME TalkInv, TurnInv, User PROVE TalkInv' /\ D!DialogueNext
<1> USE ScriptsAssumption
<1>1. PICK a \in AnswerSet, response \in Int \ {0}, text \in AnswerSet :
         /\ UserAnswers(a, response, text)
         /\ a = IF in_trigger = 2 THEN text ELSE response - 1
  <2>1. CASE RunMenu
    <3>1. PICK i \in Shown : in_trigger = 1 /\ UserAnswers(i - 1, i, 0)
      BY <2>1 DEF RunMenu
    <3>2. i \in 1 .. Slots
      BY <3>1 DEF Shown
    <3>3. i - 1 \in AnswerSet /\ i \in Int \ {0} /\ 0 \in AnswerSet
      BY <3>2 DEF AnswerSet
    <3> QED
      BY <3>1, <3>3
  <2>2. CASE RunText
    BY <2>2 DEF RunText, AnswerSet
  <2>3. CASE RunDefault
    BY <2>3 DEF RunDefault, AnswerSet
  <2> QED
    BY <2>1, <2>2, <2>3 DEF User
<1>2. /\ runner = "ask" /\ runner' = "lower" /\ answered' = Append(answered, <<header, a>>)
      /\ chosen' = response /\ reply' = text
      /\ UNCHANGED <<in_trigger, out_trigger, script, asked, received>>
  BY <1>1 DEF UserAnswers
<1>3. script = "poll" /\ in_trigger # 0 /\ out_trigger = 0
  BY <1>2 DEF TurnInv
<1>4. /\ header = Len(asked) /\ received = answered /\ Len(received) + 1 = Len(asked)
      /\ asked \in Seq(KindSet) /\ answered \in Seq(Given)
  BY <1>2, <1>3 DEF TalkInv, Unanswered, Question
<1>5. <<header, a>> \in Given /\ answered' \in Seq(Given)
  BY <1>2, <1>4 DEF Given
<1>6. a = IF Kind = Text THEN text ELSE response - 1
  BY <1>1, <1>3 DEF TalkInv
<1>7. TalkInv'
  BY <1>1, <1>2, <1>3, <1>4, <1>5, <1>6 DEF TalkInv, Unanswered, OnItsWay, Question, Kind
<1>8. D!Answer(a)
  BY <1>2, <1>4 DEF D!Answer
<1> QED
  BY <1>7, <1>8 DEF D!DialogueNext, AnswerSet

\* The script's imenu or iinput prints the answer to its own question.
LEMMA TalkReceived == ASSUME TalkInv, TurnInv, AskPoll PROVE TalkInv' /\ D!DialogueNext
<1>1. /\ script = "poll" /\ out_trigger # 0 /\ script' = "running"
      /\ received' = Append(received, <<Question, IF Kind = Text THEN reply ELSE out_trigger - 1>>)
      /\ UNCHANGED <<asked, answered, chosen, in_trigger, out_trigger, header, reply>>
  BY DEF AskPoll, pageVars
<1>2. OnItsWay /\ in_trigger = 0
  BY <1>1 DEF TurnInv, OnItsWay, Unanswered
<1>3. received' = answered
  BY <1>1, <1>2 DEF TalkInv
<1>4. Len(received') = Len(received) + 1 /\ Len(received) \in Nat
      /\ Len(received) + 1 = Question
  BY <1>1, <1>2 DEF TalkInv
<1>5. TalkInv'
  BY Zenon, <1>1, <1>2, <1>3, <1>4 DEF TalkInv, Unanswered, OnItsWay, Question
<1>6. D!Receive
  BY <1>1, <1>3, <1>4 DEF D!Receive
<1> QED
  BY <1>5, <1>6 DEF D!DialogueNext

\* Every step of the two processes keeps the invariant, and is a step of the
\* dialogue or leaves it alone.
LEMMA TalkStep ==
    ASSUME TalkInv, TurnInv, [ScriptsNext]_scriptVars
    PROVE  TalkInv' /\ [D!DialogueNext]_(D!talk)
<1> USE DEF D!talk
<1>1. CASE ScriptPrints \/ ScriptExits
  BY <1>1, TalkSame DEF ScriptPrints, ScriptExits, askVars, pageVars, outputVars, Unanswered
<1>2. CASE ScriptAsks
  BY <1>2, TalkAsked
<1>3. CASE AskWrite \/ AskReset \/ AskTrigger
  BY SMTT(20), <1>3, TalkShown DEF askVars
<1>4. CASE AskPoll
  BY <1>4, TalkReceived
<1>5. CASE User
  BY <1>5, TalkAnswered
<1>6. CASE RunLower
  <2>1. OnItsWay /\ OnItsWay' /\ ~Unanswered /\ ~Unanswered'
    BY <1>6 DEF RunLower, TurnInv, OnItsWay, Unanswered
  <2> QED
    BY <1>6, <2>1 DEF RunLower, TalkInv, TurnInv, Question, Kind, askVars
<1>7. CASE RunRaise
  BY SMTT(20), <1>7, TalkSame DEF RunRaise, TurnInv, Unanswered, askVars
<1>8. CASE RunLoop \/ RunRead \/ RunWaitpid \/ RunLast
  BY <1>8, TalkSame DEF RunLoop, RunRead, RunWaitpid, RunLast, TurnInv, Unanswered, askVars, pageVars
<1>9. CASE UNCHANGED scriptVars
  BY <1>9, TalkSame DEF scriptVars, Unanswered, askVars, pageVars
<1> QED
  BY SMTT(20), <1>1, <1>2, <1>3, <1>4, <1>5, <1>6, <1>7, <1>8, <1>9
  DEF ScriptsNext, imenu, run_shell_script

\* The two triggers implement the dialogue, its safety part: whatever the
\* interleaving of imenu or iinput with run_shell_script, an answer is given
\* to the question that was asked last, once, and is what the script receives.
THEOREM DialogueImplemented == ScriptsSpec => D!DialogueSafety
<1>1. ScriptsInit => TalkInv
  BY ScriptsAssumption DEF ScriptsInit, TalkInv, Unanswered, OnItsWay, Question
<1>2. ScriptsInit => D!DialogueInit
  BY DEF ScriptsInit, D!DialogueInit
<1>3. TalkInv /\ TurnInv /\ [ScriptsNext]_scriptVars => TalkInv' /\ [D!DialogueNext]_(D!talk)
  BY TalkStep
<1> QED
  BY <1>1, <1>2, <1>3, TurnInvariant, PTL DEF ScriptsSpec, D!DialogueSafety

-----------------------------------------------------------------------------
(***************************************************************************)
(* The console: the reserve is exact and no row outside the matrix is      *)
(* drawn, as long as the count has not been lost.                          *)
(***************************************************************************)

CursorType == [row : Int, col : Int, force_top : Int, reserve : Int, lost : {0, 1}]

\* What holds of the cursor between characters; LastRow is the row the matrix
\* is shifted at, which a character may reach.
CursorWithin(c, LastRow) ==
    /\ c \in CursorType
    /\ c.col <= ScreenCols - 2
    /\ c.lost = 0 => c.reserve = c.row - (c.force_top + ScreenRows - 1)
    /\ c.lost = 0 /\ torn = 0 =>
           /\ 0 <= c.force_top /\ c.force_top <= c.row /\ c.row <= LastRow
           /\ c.force_top + ScreenRows <= TotalRows

\* A cursor d that comes after c; a count once lost stays lost.
Follows(c, d, LastRow) == CursorWithin(d, LastRow) /\ (d.lost = 0 => c.lost = 0)

\* The forced top row fits in the middle of a character too; the row need not.
StoresWithin(st, lost) ==
    /\ st \in Seq(Int \X Int)
    /\ lost = 0 /\ torn = 0 => \A i \in 1 .. Len(st) : st[i][2] + ScreenRows <= TotalRows

ConsoleInv ==
    /\ CursorWithin(cursor, TotalRows - 1) /\ StoresWithin(stores, cursor.lost)
    /\ printing \in Nat /\ top \in Int /\ limit \in Int /\ torn \in {0, 1}
    /\ cursor.lost = 0 /\ printing = 0 => cursor.reserve <= 0
    /\ cursor.lost = 0 /\ torn = 0 =>
           /\ top >= 0 /\ top + ScreenRows <= TotalRows
           /\ scroll # "idle" => limit + ScreenRows <= TotalRows

\* One field of the cursor is replaced.
LEMMA Replaced ==
    ASSUME NEW c \in CursorType, NEW n \in Int, NEW bit \in {0, 1}
    PROVE  /\ [c EXCEPT !.row = n] \in CursorType
           /\ [c EXCEPT !.col = n] \in CursorType
           /\ [c EXCEPT !.force_top = n] \in CursorType
           /\ [c EXCEPT !.reserve = n] \in CursorType
           /\ [c EXCEPT !.lost = bit] \in CursorType
<1>1. [c EXCEPT !.row = n] \in CursorType
  BY DEF CursorType
<1>2. [c EXCEPT !.col = n] \in CursorType
  BY DEF CursorType
<1>3. [c EXCEPT !.force_top = n] \in CursorType
  BY DEF CursorType
<1>4. [c EXCEPT !.reserve = n] \in CursorType
  BY DEF CursorType
<1>5. [c EXCEPT !.lost = bit] \in CursorType
  BY DEF CursorType
<1> QED
  BY <1>1, <1>2, <1>3, <1>4, <1>5

\* Several fields are replaced together.
LEMMA ReplacedTogether ==
    ASSUME NEW c \in CursorType, NEW r \in Int, NEW k \in Int, NEW f \in Int, NEW v \in Int,
           NEW bit \in {0, 1}
    PROVE  /\ [c EXCEPT !.row = r, !.col = k, !.reserve = v] \in CursorType
           /\ [c EXCEPT !.col = k, !.row = r, !.lost = bit] \in CursorType
           /\ [c EXCEPT !.row = r, !.force_top = f, !.lost = bit] \in CursorType
           /\ [c EXCEPT !.row = r, !.reserve = v] \in CursorType
           /\ [c EXCEPT !.force_top = f, !.col = k] \in CursorType
           /\ [c EXCEPT !.force_top = f, !.reserve = v] \in CursorType
<1> DEFINE cr == [c EXCEPT !.row = r]
           ck == [c EXCEPT !.col = k]
           cf == [c EXCEPT !.force_top = f]
<1>1. cr \in CursorType /\ ck \in CursorType /\ cf \in CursorType
  BY Zenon, Replaced
<1> DEFINE crk == [cr EXCEPT !.col = k]
           ckr == [ck EXCEPT !.row = r]
           crf == [cr EXCEPT !.force_top = f]
<1> HIDE DEF cr, ck, cf
<1>2. crk \in CursorType /\ ckr \in CursorType /\ crf \in CursorType
  BY Zenon, <1>1, Replaced
<1>3. /\ [cr EXCEPT !.reserve = v] \in CursorType
      /\ [cf EXCEPT !.col = k] \in CursorType
      /\ [cf EXCEPT !.reserve = v] \in CursorType
  BY Zenon, <1>1, Replaced
<1> HIDE DEF crk, ckr, crf
<1>4. /\ [crk EXCEPT !.reserve = v] \in CursorType
      /\ [ckr EXCEPT !.lost = bit] \in CursorType
      /\ [crf EXCEPT !.lost = bit] \in CursorType
  BY Zenon, <1>2, Replaced
<1> QED
  BY <1>3, <1>4 DEF cr, ck, cf, crk, ckr, crf

\* Dropping rows brings the cursor back into the matrix; the reserve stays
\* right because the forced top row moves as far as the cursor.
LEMMA ShiftKeeps ==
    ASSUME NEW c, CursorWithin(c, TotalRows)
    PROVE  Follows(c, Shift(c), TotalRows - 1)
<1> USE ConsoleAssumption
<1>0. c \in CursorType /\ c.row \in Int /\ c.force_top \in Int /\ c.lost \in {0, 1}
  BY DEF CursorWithin, CursorType
<1>1. CASE c.lost = 0 /\ c.row # TotalRows
  BY <1>0, <1>1 DEF Follows, CursorWithin, CursorType, Shift
<1>2. CASE c.lost = 1 /\ c.row # TotalRows
  BY <1>0, <1>2 DEF Follows, CursorWithin, CursorType, Shift
<1>3. CASE c.row = TotalRows
  <2> DEFINE f == IF c.force_top < BufferRows THEN 0 ELSE c.force_top - BufferRows
             bit == IF c.force_top < BufferRows THEN 1 ELSE c.lost
             d == [c EXCEPT !.row = c.row - BufferRows, !.force_top = f, !.lost = bit]
  <2>1. f \in Int /\ bit \in {0, 1} /\ c.row - BufferRows \in Int
    BY <1>0
  <2>2. Shift(c) = d
    BY <1>3 DEF Shift
  <2>3. bit = 0 => c.lost = 0 /\ c.force_top >= BufferRows /\ f = c.force_top - BufferRows
    BY <1>0
  <2> HIDE DEF f, bit
  <2>4. d \in CursorType
    BY <1>0, <2>1, ReplacedTogether, Zenon
  <2>5. /\ d.row = c.row - BufferRows /\ d.force_top = f /\ d.lost = bit
        /\ d.col = c.col /\ d.reserve = c.reserve
    BY <1>0 DEF CursorType
  <2> HIDE DEF d
  <2>6. Follows(c, d, TotalRows - 1)
    BY SMTT(20), <1>0, <1>3, <2>1, <2>3, <2>4, <2>5 DEF Follows, CursorWithin, CursorType
  <2> QED
    BY <2>2, <2>6
<1> QED
  BY <1>0, <1>1, <1>2, <1>3

\* A new row makes the reserve one larger.
LEMMA NextRowKeeps ==
    ASSUME NEW c, CursorWithin(c, TotalRows - 1), NEW col \in Int, col <= ScreenCols - 2
    PROVE  Follows(c, NextRow(c, col), TotalRows)
<1> USE ConsoleAssumption
<1>0. c \in CursorType /\ c.row + 1 \in Int /\ c.reserve + 1 \in Int
  BY DEF CursorWithin, CursorType
<1> DEFINE d == [c EXCEPT !.row = c.row + 1, !.col = col, !.reserve = c.reserve + 1]
<1>1. d \in CursorType
  BY <1>0, ReplacedTogether, Zenon
<1>2. /\ d.row = c.row + 1 /\ d.col = col /\ d.reserve = c.reserve + 1
      /\ d.force_top = c.force_top /\ d.lost = c.lost
  BY <1>0 DEF CursorType
<1>3. NextRow(c, col) = d
  BY DEF NextRow
<1> HIDE DEF d
<1>4. Follows(c, d, TotalRows)
  BY <1>0, <1>1, <1>2 DEF Follows, CursorWithin, CursorType
<1> QED
  BY <1>3, <1>4

\* A character moves the cursor by one row at most.
LEMMA PutKeeps ==
    ASSUME NEW c, CursorWithin(c, TotalRows - 1), NEW ch \in Chars
    PROVE  Follows(c, Put(c, ch), TotalRows)
<1> USE ConsoleAssumption
<1>1. Follows(c, c, TotalRows) /\ CursorWithin(c, TotalRows) /\ c.col \in Int /\ c.col <= ScreenCols - 2
  BY DEF Follows, CursorWithin, CursorType
<1>2. Follows(c, NextRow(c, c.col), TotalRows) /\ Follows(c, NextRow(c, 0), TotalRows)
  BY <1>1, NextRowKeeps
<1>3. Follows(c, [c EXCEPT !.col = 0], TotalRows)
  BY <1>1 DEF Follows, CursorWithin, CursorType
<1>4. Follows(c, Tab(c), TotalRows)
  <2> DEFINE end == c.col + (5 - (c.col % 5))
  <2>1. end \in Int
    BY <1>1
  <2>2. CASE end >= ScreenCols - 2
    BY <1>2, <2>2 DEF Tab
  <2>3. CASE end < ScreenCols - 2
    <3>1. Tab(c) = [c EXCEPT !.col = end]
      BY <2>1, <2>3 DEF Tab
    <3> HIDE DEF end
    <3> QED
      BY <1>1, <2>1, <2>3, <3>1 DEF Follows, CursorWithin, CursorType
  <2> QED
    BY <2>1, <2>2, <2>3
<1>5. Follows(c, Backspace(c), TotalRows)
  <2>1. CASE c.col > 0
    BY <1>1, <2>1 DEF Follows, CursorWithin, CursorType, Backspace
  <2>2. CASE ~(c.col > 0) /\ c.row = 0
    BY <1>1, <2>2 DEF Backspace
  <2>3. CASE ~(c.col > 0) /\ c.row # 0
    <3> DEFINE d == [c EXCEPT !.col = ScreenCols - 2, !.row = c.row - 1, !.lost = 1]
    <3>1. c \in CursorType /\ c.row - 1 \in Int /\ ScreenCols - 2 \in Int
      BY <1>1 DEF CursorWithin, CursorType
    <3>2. d \in CursorType
      BY <3>1, ReplacedTogether, Zenon
    <3>3. d.col = ScreenCols - 2 /\ d.lost = 1
      BY <3>1 DEF CursorType
    <3>4. Backspace(c) = d
      BY <2>3 DEF Backspace
    <3> HIDE DEF d
    <3> QED
      BY <3>1, <3>2, <3>3, <3>4 DEF Follows, CursorWithin
  <2> QED
    BY <2>1, <2>2, <2>3
<1>6. Follows(c, Letter(c), TotalRows)
  <2>1. CASE c.col + 1 > ScreenCols - 2
    BY <1>2, <2>1 DEF Letter
  <2>2. CASE ~(c.col + 1 > ScreenCols - 2)
    BY <1>1, <2>2 DEF Follows, CursorWithin, CursorType, Letter
  <2> QED
    BY <2>1, <2>2
<1> QED
  BY SMTT(20), <1>1, <1>2, <1>3, <1>4, <1>5, <1>6 DEF Put, Chars

\* On the way through a shift the forced top row is at most what it was.
LEMMA ShiftStoresWithin ==
    ASSUME NEW c, CursorWithin(c, TotalRows)
    PROVE  StoresWithin(ShiftStores(c), c.lost)
<1> USE ConsoleAssumption
<1>0. c.row \in Int /\ c.force_top \in Int /\ BufferRows \in Nat
  BY DEF CursorWithin, CursorType
<1>1. CASE c.row # TotalRows
  BY <1>1 DEF ShiftStores, StoresWithin
<1>2. CASE c.row = TotalRows
  <2> DEFINE a == <<c.row, c.force_top>>
             b == <<c.row - BufferRows, c.force_top>>
             d == <<c.row - BufferRows, c.force_top - BufferRows>>
  <2>1. a \in Int \X Int /\ b \in Int \X Int /\ d \in Int \X Int
    BY <1>0
  <2>2. c.lost = 0 /\ torn = 0 =>
            /\ a[2] + ScreenRows <= TotalRows /\ b[2] + ScreenRows <= TotalRows
            /\ d[2] + ScreenRows <= TotalRows
    BY <1>0 DEF CursorWithin
  <2>3. ShiftStores(c) = <<a, b, d>>
    BY <1>2 DEF ShiftStores
  <2> HIDE DEF a, b, d
  <2>4. <<a, b, d>> \in Seq(Int \X Int)
    BY <2>1
  <2>5. c.lost = 0 /\ torn = 0 =>
            \A i \in 1 .. Len(<<a, b, d>>) : <<a, b, d>>[i][2] + ScreenRows <= TotalRows
    BY <2>2
  <2> QED
    BY <2>3, <2>4, <2>5 DEF StoresWithin
<1> QED
  BY <1>1, <1>2

\* A character with the shift, and what it passes through.
LEMMA CharKeeps ==
    ASSUME NEW c, CursorWithin(c, TotalRows - 1), NEW ch \in Chars
    PROVE  /\ Follows(c, console_put_char(c, ch), TotalRows - 1)
           /\ StoresWithin(PutStores(c, ch), console_put_char(c, ch).lost)
<1> DEFINE d == Put(c, ch)
           e == Shift(d)
<1>1. Follows(c, d, TotalRows) /\ CursorWithin(d, TotalRows)
  BY PutKeeps DEF Follows
<1>2. console_put_char(c, ch) = e /\ PutStores(c, ch) = ShiftStores(d)
  BY DEF console_put_char, PutStores
<1> HIDE DEF d
<1>3. Follows(d, e, TotalRows - 1) /\ StoresWithin(ShiftStores(d), d.lost)
  BY <1>1, ShiftKeeps, ShiftStoresWithin
<1> HIDE DEF e
<1> QED
  BY <1>1, <1>2, <1>3 DEF Follows, StoresWithin

\* Moving to a row sets the reserve that fits it.
LEMMA AtRowKeeps ==
    ASSUME NEW c, NEW row \in Int, c \in CursorType, c.col <= ScreenCols - 2,
           c.lost = 0 /\ torn = 0 =>
               /\ 0 <= c.force_top /\ c.force_top + ScreenRows <= TotalRows
               /\ c.force_top <= row /\ row <= TotalRows - 1
    PROVE  Follows(c, AtRow(c, row), TotalRows - 1)
<1> USE ConsoleAssumption
<1> DEFINE v == 1 - (c.force_top + ScreenRows - row)
           d == [c EXCEPT !.row = row, !.reserve = v]
<1>1. c.force_top \in Int /\ v \in Int /\ v = row - (c.force_top + ScreenRows - 1)
  BY DEF CursorType
<1>2. AtRow(c, row) = d
  BY DEF AtRow
<1> HIDE DEF v
<1>3. d \in CursorType
  BY <1>1, ReplacedTogether, Zenon
<1>4. /\ d.row = row /\ d.reserve = v /\ d.col = c.col /\ d.force_top = c.force_top
      /\ d.lost = c.lost
  BY DEF CursorType
<1> HIDE DEF d
<1>5. Follows(c, d, TotalRows - 1)
  BY <1>1, <1>3, <1>4 DEF Follows, CursorWithin
<1> QED
  BY <1>2, <1>5

\* An escape sequence leaves the cursor in the matrix.
LEMMA SequenceKeeps ==
    ASSUME CursorWithin(cursor, TotalRows - 1), top \in Int,
           cursor.lost = 0 /\ torn = 0 => top >= 0 /\ top + ScreenRows <= TotalRows,
           NEW s \in Escapes, NEW p \in Params, NEW q \in Params
    PROVE  Follows(cursor, console_unescape(cursor, s, p, q), TotalRows - 1)
<1> USE ConsoleAssumption
<1>0. /\ cursor \in CursorType /\ cursor.col <= ScreenCols - 2 /\ p \in Nat /\ q \in Nat
      /\ cursor.row \in Int /\ cursor.col \in Int /\ cursor.force_top \in Int
  BY DEF CursorWithin, CursorType
<1>1. Follows(cursor, MoveUp(cursor, p), TotalRows - 1)
  <2> DEFINE row == IF cursor.force_top > cursor.row - p THEN cursor.force_top ELSE cursor.row - p
  <2>1. /\ row \in Int
        /\ cursor.lost = 0 /\ torn = 0 => cursor.force_top <= row /\ row <= TotalRows - 1
    BY <1>0 DEF CursorWithin
  <2> HIDE DEF row
  <2>2. Follows(cursor, AtRow(cursor, row), TotalRows - 1)
    BY SMTT(20), <1>0, <2>1, AtRowKeeps DEF CursorWithin
  <2> QED
    BY <2>2 DEF MoveUp, row
<1>2. Follows(cursor, MoveDown(cursor, p), TotalRows - 1)
  <2> DEFINE row == IF cursor.row + p >= cursor.force_top + ScreenRows
                    THEN cursor.force_top + ScreenRows - 1 ELSE cursor.row + p
  <2>1. /\ row \in Int
        /\ cursor.lost = 0 /\ torn = 0 => cursor.force_top <= row /\ row <= TotalRows - 1
    BY <1>0 DEF CursorWithin
  <2> HIDE DEF row
  <2>2. Follows(cursor, AtRow(cursor, row), TotalRows - 1)
    BY <1>0, <2>1, AtRowKeeps DEF CursorWithin
  <2> QED
    BY <2>2 DEF MoveDown, row
<1>3. ASSUME NEW k \in Int, k <= ScreenCols - 2
      PROVE  Follows(cursor, [cursor EXCEPT !.col = k], TotalRows - 1)
  BY <1>0, <1>3 DEF Follows, CursorWithin, CursorType
<1>4. Follows(cursor, MoveRight(cursor, p), TotalRows - 1)
  <2> DEFINE k == IF cursor.col + p >= ScreenCols - 1 THEN ScreenCols - 2 ELSE cursor.col + p
  <2>1. k \in Int /\ k <= ScreenCols - 2
    BY <1>0
  <2>2. MoveRight(cursor, p) = [cursor EXCEPT !.col = k]
    BY DEF MoveRight
  <2> HIDE DEF k
  <2> QED
    BY Zenon, <1>3, <2>1, <2>2
<1>5. Follows(cursor, MoveLeft(cursor, p), TotalRows - 1)
  <2> DEFINE k == IF cursor.col - p < 0 THEN 0 ELSE cursor.col - p
  <2>1. k \in Int /\ k <= ScreenCols - 2
    BY <1>0
  <2>2. MoveLeft(cursor, p) = [cursor EXCEPT !.col = k]
    BY DEF MoveLeft
  <2> HIDE DEF k
  <2> QED
    BY Zenon, <1>3, <2>1, <2>2
<1>6. Follows(cursor, MoveTo(cursor, p, q), TotalRows - 1)
  <2> DEFINE k == IF q >= ScreenCols - 1 THEN ScreenCols - 2 ELSE q
             row == FromTop(p)
             d == [cursor EXCEPT !.force_top = top, !.col = k]
  <2>1. k \in Int /\ k <= ScreenCols - 2
    BY SMTT(20), <1>0
  <2>2. row \in Int /\ top <= row /\ row <= top + ScreenRows - 1
    BY <1>0 DEF FromTop
  <2>3. MoveTo(cursor, p, q) = AtRow(d, row)
    BY DEF MoveTo
  <2> HIDE DEF k, row
  <2>4. d \in CursorType
    BY <1>0, <2>1, ReplacedTogether, Zenon
  <2>5. d.force_top = top /\ d.col = k /\ d.lost = cursor.lost
    BY SMTT(20), <1>0 DEF CursorType
  <2> HIDE DEF d
  <2>6. Follows(d, AtRow(d, row), TotalRows - 1)
    BY SMTT(20), <2>1, <2>2, <2>4, <2>5, AtRowKeeps
  <2> QED
    BY SMTT(20), <2>3, <2>5, <2>6 DEF Follows
<1>7. Follows(cursor, console_put_char(console_put_char(cursor, "letter"), "letter"), TotalRows - 1)
  BY CharKeeps DEF Chars, Follows
<1>8. Follows(cursor, cursor, TotalRows - 1)
  BY SMTT(20) DEF Follows
<1> QED
  BY SMTT(20), <1>1, <1>2, <1>4, <1>5, <1>6, <1>7, <1>8 DEF console_unescape, Escapes

\* The same for what the sequence passes through.
LEMMA SequenceStores ==
    ASSUME CursorWithin(cursor, TotalRows - 1), top \in Int,
           cursor.lost = 0 /\ torn = 0 => top >= 0 /\ top + ScreenRows <= TotalRows,
           NEW s \in Escapes, NEW p \in Params, NEW q \in Params
    PROVE  StoresWithin(UnescapeStores(cursor, s, p), console_unescape(cursor, s, p, q).lost)
<1> USE ConsoleAssumption
<1> DEFINE d == console_unescape(cursor, s, p, q)
<1>0. /\ p \in Nat /\ cursor.row \in Int /\ cursor.force_top \in Int
      /\ cursor.lost = 0 /\ torn = 0 => cursor.force_top + ScreenRows <= TotalRows
  BY DEF CursorWithin, CursorType
<1>1. d.lost = 0 => cursor.lost = 0
  BY SequenceKeeps DEF Follows
<1>2. ASSUME NEW r \in Int PROVE StoresWithin(<< <<r, cursor.force_top>> >>, cursor.lost)
  <2> DEFINE a == <<r, cursor.force_top>>
  <2>1. a \in Int \X Int /\ (cursor.lost = 0 /\ torn = 0 => a[2] + ScreenRows <= TotalRows)
    BY <1>0
  <2> HIDE DEF a
  <2>2. <<a>> \in Seq(Int \X Int)
    BY <2>1
  <2>3. cursor.lost = 0 /\ torn = 0 =>
            \A i \in 1 .. Len(<<a>>) : <<a>>[i][2] + ScreenRows <= TotalRows
    BY <2>1
  <2>4. StoresWithin(<<a>>, cursor.lost)
    BY <2>2, <2>3 DEF StoresWithin
  <2> QED
    BY <2>4 DEF a
<1>3. ASSUME NEW st, StoresWithin(st, cursor.lost) PROVE StoresWithin(st, d.lost)
  BY <1>1, <1>3 DEF StoresWithin
<1>4. CASE s \in {"A", "B", "H"}
  <2>1. cursor.row - p \in Int /\ cursor.row + p \in Int /\ FromTop(p) \in Int
    BY <1>0 DEF FromTop
  <2>2. StoresWithin(UnescapeStores(cursor, s, p), cursor.lost)
    BY <1>2, <1>4, <2>1 DEF UnescapeStores
  <2> QED
    BY <1>3, <2>2
<1>5. CASE s \in {"C", "D", "keep"}
  <2>1. UnescapeStores(cursor, s, p) = <<>>
    BY <1>5 DEF UnescapeStores
  <2>2. StoresWithin(<<>>, cursor.lost)
    BY DEF StoresWithin
  <2> QED
    BY <1>3, <2>1, <2>2
<1>6. CASE s = "unknown"
  <2> DEFINE c == console_put_char(cursor, "letter")
             e == console_put_char(c, "letter")
             s1 == PutStores(cursor, "letter")
             s2 == PutStores(c, "letter")
  <2>1. Follows(cursor, c, TotalRows - 1) /\ StoresWithin(s1, c.lost)
    BY CharKeeps DEF Chars
  <2> HIDE DEF s1
  <2>2. CursorWithin(c, TotalRows - 1)
    BY <2>1 DEF Follows
  <2> HIDE DEF c
  <2>3. Follows(c, e, TotalRows - 1) /\ StoresWithin(s2, e.lost)
    BY <2>2, CharKeeps DEF Chars
  <2> HIDE DEF e, s2
  <2>4. e.lost = 0 => c.lost = 0
    BY <2>3 DEF Follows
  <2>5. s1 \in Seq(Int \X Int) /\ s2 \in Seq(Int \X Int)
    BY <2>1, <2>3 DEF StoresWithin
  <2>6. s1 \o s2 \in Seq(Int \X Int)
    BY <2>5
  <2>7. ASSUME e.lost = 0, torn = 0, NEW i \in 1 .. Len(s1 \o s2)
        PROVE  (s1 \o s2)[i][2] + ScreenRows <= TotalRows
    <3>1. Len(s1) \in Nat /\ Len(s2) \in Nat /\ Len(s1 \o s2) = Len(s1) + Len(s2)
      BY <2>5
    <3>2. CASE i <= Len(s1)
      <4>1. (s1 \o s2)[i] = s1[i] /\ i \in 1 .. Len(s1)
        BY <2>5, <3>1, <3>2
      <4> QED
        BY <2>1, <2>4, <2>7, <4>1 DEF StoresWithin
    <3>3. CASE i > Len(s1)
      <4>1. (s1 \o s2)[i] = s2[i - Len(s1)] /\ i - Len(s1) \in 1 .. Len(s2)
        BY <2>5, <3>1, <3>3
      <4> QED
        BY <2>3, <2>7, <4>1 DEF StoresWithin
    <3> QED
      BY <3>1, <3>2, <3>3
  <2>8. StoresWithin(s1 \o s2, e.lost)
    BY <2>6, <2>7 DEF StoresWithin
  <2>9. d = e /\ UnescapeStores(cursor, s, p) = s1 \o s2
    BY <1>6 DEF console_unescape, UnescapeStores, c, e, s1, s2
  <2> QED
    BY <2>8, <2>9
<1> QED
  BY <1>4, <1>5, <1>6 DEF Escapes

\* What another thread reads.
LEMMA MemoryWithin ==
    ASSUME ConsoleInv
    PROVE  /\ Memory[1] \in Int /\ Memory[2] \in Int
           /\ cursor.lost = 0 /\ torn = 0 => Memory[2] + ScreenRows <= TotalRows
<1> USE ConsoleAssumption
<1>1. CASE stores = <<>>
  <2>1. Memory = <<cursor.row, cursor.force_top>>
    BY <1>1 DEF Memory
  <2>2. Memory[1] = cursor.row /\ Memory[2] = cursor.force_top
    BY <2>1
  <2> QED
    BY <2>2 DEF ConsoleInv, CursorWithin, CursorType
<1>2. CASE stores # <<>>
  <2>1. stores \in Seq(Int \X Int)
    BY DEF ConsoleInv, StoresWithin
  <2>2. Memory = stores[1] /\ 1 \in 1 .. Len(stores)
    BY <1>2, <2>1 DEF Memory
  <2>3. Memory \in Int \X Int
    BY <2>1, <2>2
  <2>4. cursor.lost = 0 /\ torn = 0 => Memory[2] + ScreenRows <= TotalRows
    BY <2>2 DEF ConsoleInv, StoresWithin
  <2> QED
    BY <2>3, <2>4
<1> QED
  BY <1>1, <1>2

\* A step within a print moves only the cursor.
LEMMA CursorMoves ==
    ASSUME ConsoleInv, printing > 1, printing' = printing - 1, UNCHANGED <<top, scrollVars>>,
           Follows(cursor, cursor', TotalRows - 1), StoresWithin(stores', cursor'.lost)
    PROVE  ConsoleInv'
<1>1. UNCHANGED <<top, scroll, limit, torn>>
  BY Zenon DEF scrollVars
<1>2. CursorWithin(cursor, TotalRows - 1)' /\ StoresWithin(stores, cursor.lost)'
  BY <1>1 DEF Follows, CursorWithin, StoresWithin
<1> QED
  BY <1>1, <1>2 DEF ConsoleInv, Follows

\* The next store: fewer are left.
LEMMA StoreKeeps == ASSUME ConsoleInv, PrintStore PROVE ConsoleInv'
<1>1. UNCHANGED <<cursor, printing, top, scroll, limit, torn>>
  BY Zenon DEF PrintStore, scrollVars
<1>2. stores \in Seq(Int \X Int) /\ stores # <<>> /\ stores' = Tail(stores)
  BY DEF ConsoleInv, StoresWithin, PrintStore
<1>3. stores' \in Seq(Int \X Int)
  BY <1>2
<1>4. ASSUME NEW i \in 1 .. Len(stores') PROVE stores'[i] = stores[i + 1] /\ i + 1 \in 1 .. Len(stores)
  BY <1>2, <1>4
<1>5. StoresWithin(stores, cursor.lost)'
  <2> DEFINE Fits(pair) == pair[2] + ScreenRows <= TotalRows
  <2>1. cursor.lost = 0 /\ torn = 0 => \A i \in 1 .. Len(stores) : Fits(stores[i])
    BY Zenon DEF ConsoleInv, StoresWithin
  <2> HIDE DEF Fits
  <2>2. cursor.lost = 0 /\ torn = 0 => \A i \in 1 .. Len(stores') : Fits(stores'[i])
    BY Zenon, <1>4, <2>1
  <2>3. cursor'.lost = cursor.lost /\ torn' = torn
    BY <1>1
  <2> QED
    BY Zenon, <1>3, <2>2, <2>3 DEF StoresWithin, Fits
<1>6. CursorWithin(cursor, TotalRows - 1)'
  BY <1>1 DEF ConsoleInv, CursorWithin
<1> QED
  BY <1>1, <1>5, <1>6 DEF ConsoleInv

\* The forced top row takes up the reserve, and the screen is drawn from it.
LEMMA PrintEnds == ASSUME ConsoleInv, PrintEnd PROVE ConsoleInv'
<1> USE ConsoleAssumption
<1>0. /\ cursor \in CursorType /\ cursor.force_top \in Int /\ cursor.reserve \in Int
      /\ cursor.row \in Int
  BY DEF ConsoleInv, CursorWithin, CursorType
<1>1. printing' = 0 /\ top' = cursor'.force_top /\ UNCHANGED <<stores, scroll, limit, torn>>
  BY Zenon DEF PrintEnd, scrollVars
<1>4. ASSUME cursor'.lost = cursor.lost PROVE StoresWithin(stores, cursor.lost)'
  BY <1>1, <1>4 DEF ConsoleInv, StoresWithin
<1>2. CASE cursor.reserve > 0
  <2> DEFINE f == cursor.force_top + cursor.reserve
             d == [cursor EXCEPT !.force_top = f, !.reserve = 0]
  <2>1. f \in Int /\ 0 \in Int /\ (cursor.lost = 0 => f = cursor.row - ScreenRows + 1)
    BY <1>0 DEF ConsoleInv, CursorWithin
  <2>2. cursor' = d
    BY <1>2 DEF PrintEnd
  <2> HIDE DEF f
  <2>3. d \in CursorType
    BY <1>0, <2>1, ReplacedTogether, Zenon
  <2>4. /\ d.force_top = f /\ d.reserve = 0 /\ d.row = cursor.row /\ d.col = cursor.col
        /\ d.lost = cursor.lost
    BY SMTT(20), <1>0 DEF CursorType
  <2> HIDE DEF d
  <2>5. CursorWithin(d, TotalRows - 1)
    BY SMTT(20), <1>0, <2>1, <2>3, <2>4, <1>2 DEF ConsoleInv, CursorWithin
  <2> QED
    <3>1. CursorWithin(cursor, TotalRows - 1)' /\ StoresWithin(stores, cursor.lost)'
      BY <1>1, <1>4, <2>2, <2>4, <2>5 DEF CursorWithin
    <3> QED
      BY SMTT(20), <1>0, <1>1, <1>2, <2>1, <2>2, <2>4, <2>5, <3>1 DEF ConsoleInv, CursorWithin
<1>3. CASE ~(cursor.reserve > 0)
  <2>1. cursor' = cursor
    BY <1>3 DEF PrintEnd
  <2> QED
    <3>1. CursorWithin(cursor, TotalRows - 1)' /\ StoresWithin(stores, cursor.lost)'
      BY <1>1, <1>4, <2>1 DEF ConsoleInv, CursorWithin
    <3> QED
      BY <1>0, <1>1, <1>3, <2>1, <3>1 DEF ConsoleInv, CursorWithin
<1> QED
  BY SMTT(20), <1>2, <1>3

\* The inductive invariant of the console, over prints, escape sequences and
\* scrolling in any order.
THEOREM ConsoleInvariant == ConsoleSpec => []ConsoleInv
<1> USE ConsoleAssumption
<1>1. ConsoleInit => ConsoleInv
  <2> SUFFICES ASSUME ConsoleInit PROVE ConsoleInv
    OBVIOUS
  <2>1. StoresWithin(stores, cursor.lost)
    BY DEF ConsoleInit, StoresWithin
  <2> QED
    BY SMTT(20), <2>1 DEF ConsoleInit, ConsoleInv, CursorWithin, CursorType
<1>2. ConsoleInv /\ [ConsoleNext]_consoleVars => ConsoleInv'
  <2> SUFFICES ASSUME ConsoleInv, [ConsoleNext]_consoleVars PROVE ConsoleInv'
    OBVIOUS
  <2>0. /\ CursorWithin(cursor, TotalRows - 1) /\ StoresWithin(stores, cursor.lost)
        /\ top \in Int
        /\ cursor.lost = 0 /\ torn = 0 => top >= 0 /\ top + ScreenRows <= TotalRows
    BY SMTT(20) DEF ConsoleInv
  <2>a. ASSUME UNCHANGED <<cursor, stores>>, torn' = 0 => torn = 0
        PROVE  (CursorWithin(cursor, TotalRows - 1) /\ StoresWithin(stores, cursor.lost))'
    BY <2>0, <2>a DEF CursorWithin, StoresWithin
  <2>1. CASE PrintBegin
    <3>1. UNCHANGED <<cursor, stores, top, scroll, limit, torn>> /\ printing = 0 /\ printing' = MaxPrint
      BY Zenon, <2>1 DEF PrintBegin, scrollVars
    <3> QED
      BY <2>a, <3>1 DEF ConsoleInv
  <2>2. CASE PrintEnd
    BY <2>2, PrintEnds
  <2>3. CASE PrintEscape
    <3>1. Follows(cursor, cursor', TotalRows - 1) /\ StoresWithin(stores', cursor'.lost)
      BY <2>0, <2>3 DEF PrintEscape, Follows
    <3> QED
      BY <2>3, <3>1, CursorMoves DEF PrintEscape, NextChar
  <2>4. ASSUME NEW ch \in Chars, PrintChar(ch) PROVE ConsoleInv'
    BY SMTT(20), <2>0, <2>4, CharKeeps, CursorMoves DEF PrintChar, NextChar
  <2>5. ASSUME NEW s \in Escapes, NEW p \in Params, NEW q \in Params, PrintSequence(s, p, q)
        PROVE  ConsoleInv'
    <3>1. /\ Follows(cursor, console_unescape(cursor, s, p, q), TotalRows - 1)
          /\ StoresWithin(UnescapeStores(cursor, s, p), console_unescape(cursor, s, p, q).lost)
      BY SMTT(20), <2>0, SequenceKeeps, SequenceStores
    <3> QED
      BY SMTT(20), <2>5, <3>1, CursorMoves DEF PrintSequence, NextChar
  <2>6. CASE PrintStore
    BY <2>6, StoreKeeps
  <2>b. ASSUME UNCHANGED <<printVars, top>>
        PROVE  UNCHANGED <<cursor, stores, printing, top>>
    BY Zenon, <2>b DEF printVars
  <2>7. CASE ScrollRead
    <3>1. /\ Memory[1] \in Int /\ limit' = Memory[1] - ScreenRows + 1
          /\ torn' = IF Memory[1] >= TotalRows THEN 1 ELSE torn
      BY <2>7, MemoryWithin DEF ScrollRead
    <3>2. UNCHANGED <<cursor, stores, printing, top>>
      BY Zenon, <2>7, <2>b DEF ScrollRead
    <3>3. torn' \in {0, 1} /\ (torn' = 0 => torn = 0 /\ Memory[1] < TotalRows)
      BY <3>1 DEF ConsoleInv
    <3> HIDE DEF Memory
    <3> QED
      BY <2>a, <3>1, <3>2, <3>3 DEF ConsoleInv
  <2>8. CASE ScrollTest
    <3>1. UNCHANGED <<cursor, stores, printing, top, limit, torn>> /\ scroll # "idle"
      BY Zenon, <2>8, <2>b DEF ScrollTest
    <3> QED
      BY <2>a, <3>1 DEF ConsoleInv
  <2>9. CASE ScrollLoad
    <3>1. UNCHANGED <<cursor, stores, printing, top, torn>> /\ limit' = Memory[2]
      BY Zenon, <2>9, <2>b DEF ScrollLoad
    <3>2. limit' \in Int /\ (cursor.lost = 0 /\ torn = 0 => limit' + ScreenRows <= TotalRows)
      BY <3>1, MemoryWithin
    <3> QED
      BY <2>a, <3>1, <3>2 DEF ConsoleInv
  <2>10. ASSUME NEW n \in ScrollSteps, ui_console_scroll_up(n) PROVE ConsoleInv'
    <3>1. UNCHANGED <<cursor, stores, printing, scroll, limit, torn>>
      BY Zenon, <2>10 DEF ui_console_scroll_up, printVars, scrollVars
    <3>2. n \in Nat /\ top' = IF top - n < 0 THEN 0 ELSE top - n
      BY <2>10 DEF ui_console_scroll_up
    <3> QED
      BY <2>0, <2>a, <3>1, <3>2 DEF ConsoleInv
  <2>11. ASSUME NEW n \in ScrollSteps, ui_console_scroll_down(n) PROVE ConsoleInv'
    <3> DEFINE max_row_top == IF limit < 0 THEN 0 ELSE limit
    <3>1. UNCHANGED <<cursor, stores, printing, torn>> /\ scroll' = "idle" /\ limit' = 0
      BY Zenon, <2>11 DEF ui_console_scroll_down, printVars
    <3>2. /\ n \in Nat /\ scroll = "lock"
          /\ top' = IF top + n > max_row_top THEN max_row_top ELSE top + n
      BY <2>11 DEF ui_console_scroll_down
    <3>3. /\ max_row_top \in Nat
          /\ cursor.lost = 0 /\ torn = 0 => max_row_top + ScreenRows <= TotalRows
      BY <3>2 DEF ConsoleInv
    <3> HIDE DEF max_row_top
    <3>4. /\ top' \in Int
          /\ cursor.lost = 0 /\ torn = 0 => top' >= 0 /\ top' + ScreenRows <= TotalRows
      BY <2>0, <3>2, <3>3
    <3>5. (CursorWithin(cursor, TotalRows - 1) /\ StoresWithin(stores, cursor.lost))'
      BY <2>a, <3>1
    <3>6. /\ printing' \in Nat /\ limit' \in Int /\ torn' \in {0, 1} /\ ~(scroll' # "idle")
          /\ cursor'.lost = 0 /\ printing' = 0 => cursor'.reserve <= 0
      BY <3>1 DEF ConsoleInv
    <3>7. cursor'.lost = cursor.lost /\ torn' = torn
      BY <3>1
    <3> QED
      BY Zenon, <3>4, <3>5, <3>6, <3>7 DEF ConsoleInv
  <2>12. CASE UNCHANGED consoleVars
    <3>1. UNCHANGED <<cursor, stores, printing, top, scroll, limit, torn>>
      BY Zenon, <2>12 DEF consoleVars, printVars, scrollVars
    <3> QED
      BY <2>a, <3>1 DEF ConsoleInv
  <2> QED
    BY Zenon, <2>1, <2>2, <2>3, <2>4, <2>5, <2>6, <2>7, <2>8, <2>9, <2>10, <2>11, <2>12
       DEF ConsoleNext
<1> QED
  BY <1>1, <1>2, PTL DEF ConsoleSpec

\* console_force_top_row_reserve counts exactly the rows the cursor is below
\* the forced screen, until a backspace or a shift loses the count.
THEOREM ReserveExactCorrect == ConsoleSpec => []ReserveExact
<1>1. ConsoleInv => ReserveExact
  BY SMTT(20) DEF ConsoleInv, CursorWithin, ReserveExact
<1> QED
  BY <1>1, ConsoleInvariant, PTL

\* What is written and what is drawn stays in the matrix, unless a scroll has
\* read a row past it in the middle of a character.
THEOREM RowsInMatrixCorrect == ConsoleSpec => []RowsInMatrix
<1>1. ConsoleInv => RowsInMatrix
  BY SMTT(20), ConsoleAssumption DEF ConsoleInv, CursorWithin, CursorType, RowsInMatrix
<1> QED
  BY <1>1, ConsoleInvariant, PTL

-----------------------------------------------------------------------------
(***************************************************************************)
(* The screen outside of the console.                                      *)
(***************************************************************************)

\* The row after row i of the ring.
RowAfter(i) == IF i = TextRows - 1 THEN 0 ELSE i + 1

\* The ring of the log is always full: its top row is the one after the row
\* that is written.
TextInv == text_row \in 0 .. TextRows - 1 /\ text_top = RowAfter(text_row)

\* The menu and the rule below it leave rows for the log, the items drawn exist
\* and the selected one is among them.
MenuInv ==
    /\ show_menu \in {0, 1}
    /\ menu_top \in Nat /\ menu_items \in Nat /\ menu_items_screen \in Nat
    /\ menu_item_top \in Nat /\ menu_sel \in Nat
    /\ menu_top + menu_items_screen <= TextRows - 4
    /\ show_menu = 1 =>
           /\ menu_item_top <= menu_sel /\ menu_sel < menu_item_top + menu_items_screen
           /\ menu_item_top + menu_items_screen <= menu_items

\* No more than the whole scope is filled.
BarInv == scope \in [start : Nat, size : Nat, timed : {0, 1}] /\ gProgress \in 0 .. Fraction

ScreenInv == TextInv /\ MenuInv /\ BarInv

\* The remainders the ring needs.
LEMMA RingMod ==
    ASSUME NEW i \in 0 .. TextRows - 1
    PROVE  /\ (i + 1) % TextRows = RowAfter(i)
           /\ (TextRows - 1 + RowAfter(i)) % TextRows = i
<1>1. TextRows \in Nat /\ TextRows > 5
  BY Zenon, ScreenAssumption
<1>2. i \in Nat /\ i < TextRows
  BY <1>1
<1>3. i % TextRows = i
  BY <1>1, <1>2
<1>4. (TextRows + i) % TextRows = i
  BY <1>1, <1>2
<1>5. CASE i = TextRows - 1
  <2>1. TextRows % TextRows = 0
    BY <1>1
  <2> QED
    BY <1>1, <1>2, <1>3, <1>5, <2>1 DEF RowAfter
<1>6. CASE i # TextRows - 1
  <2>1. i + 1 \in Nat /\ i + 1 < TextRows
    BY <1>1, <1>2, <1>6
  <2>2. (i + 1) % TextRows = i + 1
    BY <1>1, <2>1
  <2>3. TextRows - 1 + RowAfter(i) = TextRows + i
    BY <1>1, <1>2, <1>6 DEF RowAfter
  <2> QED
    BY <1>4, <1>6, <2>2, <2>3 DEF RowAfter
<1> QED
  BY <1>5, <1>6

\* The next line of the log.
LEMMA NextLineKeeps ==
    ASSUME TextInv, NextLine
    PROVE  TextInv'
<1>1. text_row \in 0 .. TextRows - 1 /\ text_top = RowAfter(text_row)
  BY Zenon DEF TextInv
<1>2. text_row' = RowAfter(text_row)
  BY Zenon, <1>1, RingMod DEF NextLine
<1>3. text_top \in 0 .. TextRows - 1
  BY <1>1, ScreenAssumption DEF RowAfter
<1>4. text_top' = RowAfter(text_top)
  BY Zenon, <1>1, <1>2, <1>3, RingMod DEF NextLine
<1> QED
  BY <1>1, <1>2, <1>3, <1>4 DEF TextInv, RowAfter

\* A larger fraction of the same scope fills no less.
LEMMA FillsMore ==
    ASSUME NEW a \in Nat, NEW b \in Nat, a <= b, NEW size \in Nat
    PROVE  a * size <= b * size
OBVIOUS

\* The menu calls.
LEMMA MenuCallKeeps ==
    ASSUME MenuInv, MenuCall
    PROVE  MenuInv'
<1>1. ASSUME NEW m \in MenuSizes, NEW sel \in 0 .. m.items - 1, ui_start_menu(m, sel)
      PROVE  MenuInv'
  <2>1. m.headers \in 0 .. TextRows - 5 /\ m.items \in Nat \ {0} /\ TextRows \in Nat
    BY SMTT(20), ScreenAssumption
  <2>2. /\ menu_top' = m.headers /\ menu_items' = m.items /\ show_menu' = 1 /\ menu_sel' = sel
        /\ menu_items_screen' = IF m.items < TextRows - 4 - m.headers
                                THEN m.items ELSE TextRows - 4 - m.headers
        /\ menu_item_top' = IF sel >= menu_items_screen' THEN sel - menu_items_screen' + 1 ELSE 0
    BY <1>1 DEF ui_start_menu
  <2> QED
    BY <2>1, <2>2 DEF MenuInv
<1>2. ASSUME NEW sel \in -1 .. menu_items, ui_menu_select(sel)
      PROVE  MenuInv'
  <2>1. /\ show_menu = 1 /\ show_menu' = show_menu /\ menu_top' = menu_top
        /\ menu_items' = menu_items /\ menu_items_screen' = menu_items_screen
        /\ menu_sel' = IF sel < 0 THEN 0 ELSE IF sel >= menu_items THEN menu_items - 1 ELSE sel
        /\ menu_item_top' = IF menu_sel' # menu_sel THEN Scroll(menu_sel') ELSE menu_item_top
    BY Zenon, <1>2 DEF ui_menu_select
  <2>2. menu_sel' \in Nat /\ menu_sel' < menu_items
    BY <2>1 DEF MenuInv
  <2> QED
    BY <2>1, <2>2, ScreenAssumption DEF MenuInv, Scroll
<1>3. CASE ui_end_menu
  BY <1>3 DEF MenuInv, ui_end_menu
<1> QED
  BY Zenon, <1>1, <1>2, <1>3 DEF MenuCall

\* The calls of the updater and the timer.
LEMMA BarCallKeeps ==
    ASSUME BarInv, BarCall \/ progress_thread
    PROVE  BarInv' /\ (bar' # "none" => Filled' >= Filled)
<1>1. /\ Fraction \in Nat /\ scope.start \in Nat /\ scope.size \in Nat /\ gProgress \in Nat
      /\ gProgress <= Fraction
  BY ScreenAssumption DEF BarInv
<1>2. ASSUME scope' = [start |-> 0, size |-> 0, timed |-> 0], gProgress' = 0, bar' = "none"
      PROVE  BarInv' /\ (bar' # "none" => Filled' >= Filled)
  BY <1>1, <1>2 DEF BarInv
<1>3. CASE ui_show_indeterminate_progress
  <2>1. scope' = scope /\ gProgress' = gProgress
    BY Zenon, <1>3 DEF ui_show_indeterminate_progress
  <2>2. BarInv' /\ Filled' = Filled
    BY Zenon, <2>1 DEF BarInv, Filled
  <2>3. Filled \in Int
    BY SMTT(20), <1>1 DEF Filled
  <2> QED
    BY <2>2, <2>3
<1>4. ASSUME NEW portion \in Portions, NEW timed \in {0, 1}, ui_show_progress(portion, timed)
      PROVE  BarInv' /\ Filled' >= Filled
  <2>1. /\ scope' = [start |-> scope.start + scope.size, size |-> portion, timed |-> timed]
        /\ gProgress' = 0 /\ portion \in Nat
    BY Zenon, <1>4, ScreenAssumption DEF ui_show_progress
  <2>2. scope'.start = scope.start + scope.size /\ scope'.size = portion
    BY <2>1
  <2>3. BarInv'
    BY <1>1, <2>1 DEF BarInv
  <2>4. gProgress * scope.size <= Fraction * scope.size
    BY <1>1, FillsMore
  <2>5. Filled' = (scope.start + scope.size) * Fraction + 0 * portion
    BY Zenon, <2>1, <2>2 DEF Filled
  <2>6. (scope.start + scope.size) * Fraction = scope.start * Fraction + Fraction * scope.size
    BY <1>1
  <2> QED
    BY <1>1, <2>1, <2>3, <2>4, <2>5, <2>6 DEF Filled
<1>5. ASSUME NEW f \in 0 .. Fraction, Forward(f)
      PROVE  BarInv' /\ Filled' >= Filled
  <2>1. f > gProgress /\ gProgress' = f /\ scope' = scope
    BY Zenon, <1>5 DEF Forward
  <2>2. gProgress * scope.size <= f * scope.size
    BY <1>1, <2>1, FillsMore
  <2>3. BarInv'
    BY Zenon, <2>1 DEF BarInv
  <2>4. Filled' = scope.start * Fraction + f * scope.size
    BY Zenon, <2>1 DEF Filled
  <2> QED
    BY <1>1, <2>2, <2>3, <2>4 DEF Filled
<1>6. ASSUME NEW f \in Requested, ui_set_progress(f)
      PROVE  BarInv' /\ Filled' >= Filled
  <2> DEFINE fraction == IF f < 0 THEN 0 ELSE IF f > Fraction THEN Fraction ELSE f
  <2>1. Forward(fraction)
    BY Zenon, <1>6 DEF ui_set_progress
  <2>2. fraction \in 0 .. Fraction
    BY <1>1, <1>6, ScreenAssumption
  <2> HIDE DEF fraction
  <2> QED
    BY Zenon, <1>5, <2>1, <2>2
<1>7. CASE ui_reset_progress
  BY Zenon, <1>2, <1>7 DEF ui_reset_progress
<1>8. CASE progress_thread
  BY Zenon, <1>5, <1>8 DEF progress_thread
<1> QED
  BY Zenon, <1>3, <1>4, <1>6, <1>7, <1>8 DEF BarCall
\* Every step of the screen keeps the invariant, and the bar goes forward.
LEMMA ScreenStep ==
    ASSUME ScreenInv, [ScreenNext]_screenVars
    PROVE  ScreenInv' /\ (bar' # "none" => Filled' >= Filled)
<1>1. Filled \in Int
  BY ScreenAssumption DEF ScreenInv, BarInv, Filled
<1>2. ASSUME UNCHANGED barVars
      PROVE  BarInv' /\ Filled' >= Filled
  <2>1. BarInv' /\ Filled' = Filled
    BY Zenon, <1>2 DEF ScreenInv, BarInv, Filled, barVars
  <2> QED
    BY <1>1, <2>1
<1>3. ASSUME UNCHANGED textVars
      PROVE  TextInv'
  BY Zenon, <1>3 DEF ScreenInv, TextInv, RowAfter, textVars
<1>4. ASSUME UNCHANGED menuVars
      PROVE  MenuInv'
  BY Zenon, <1>4 DEF ScreenInv, MenuInv, menuVars
<1>5. CASE ui_print
  <2>1. NextLine \/ UNCHANGED <<text_row, text_top>>
    BY Zenon, <1>5 DEF ui_print
  <2>2. TextInv'
    BY Zenon, <2>1, NextLineKeeps DEF ScreenInv, TextInv, RowAfter
  <2>3. UNCHANGED <<menuVars, barVars>>
    BY Zenon, <1>5 DEF ui_print
  <2> QED
    BY Zenon, <1>2, <1>4, <2>2, <2>3 DEF ScreenInv
<1>6. CASE MenuCall
  <2>1. MenuInv'
    BY Zenon, <1>6, MenuCallKeeps DEF ScreenInv
  <2>2. UNCHANGED textVars
    BY Zenon, <1>6 DEF MenuCall, ui_start_menu, ui_menu_select, ui_end_menu
  <2>3. \/ UNCHANGED barVars
        \/ scope' = [start |-> 0, size |-> 0, timed |-> 0] /\ gProgress' = 0 /\ bar' = "none"
    BY Zenon, <1>6 DEF MenuCall, ui_start_menu, ui_menu_select, ui_end_menu
  <2>4. BarInv' /\ (bar' # "none" => Filled' >= Filled)
    <3>1. CASE UNCHANGED barVars
      BY Zenon, <1>2, <3>1
    <3>2. CASE scope' = [start |-> 0, size |-> 0, timed |-> 0] /\ gProgress' = 0 /\ bar' = "none"
      BY <3>2, ScreenAssumption DEF BarInv
    <3> QED
      BY Zenon, <2>3, <3>1, <3>2
  <2> QED
    BY Zenon, <1>3, <2>1, <2>2, <2>4 DEF ScreenInv
<1>7. CASE BarCall \/ progress_thread
  <2>1. BarInv' /\ (bar' # "none" => Filled' >= Filled)
    BY Zenon, <1>7, BarCallKeeps DEF ScreenInv
  <2>2. UNCHANGED <<textVars, menuVars>>
    BY Zenon, <1>7 DEF BarCall, ui_show_indeterminate_progress, ui_show_progress, ui_set_progress,
       ui_reset_progress, progress_thread, Forward
  <2> QED
    BY Zenon, <1>3, <1>4, <2>1, <2>2 DEF ScreenInv
<1>8. CASE LedCall \/ led_thread \/ UNCHANGED screenVars
  <2>1. UNCHANGED <<textVars, menuVars, barVars>>
    BY Zenon, <1>8 DEF LedCall, LedRequest, led_thread, screenVars
  <2> QED
    BY Zenon, <1>2, <1>3, <1>4, <2>1 DEF ScreenInv
<1> QED
  BY Zenon, <1>5, <1>6, <1>7, <1>8 DEF ScreenNext

\* The screen starts with an empty log.
LEMMA ScreenStarts == ScreenInit => ScreenInv
BY ScreenAssumption DEF ScreenInit, ScreenInv, TextInv, MenuInv, BarInv, RowAfter

\* The invariant of the screen says that it shows what it has to.
LEMMA ScreenInvShows == ScreenInv => ScreenShows
<1> SUFFICES ASSUME ScreenInv
             PROVE  ScreenShows
  BY Zenon
<1> DEFINE below == menu_top + menu_items_screen
<1>1. /\ TextRows \in Nat /\ TextRows > 5 /\ show_menu \in {0, 1}
      /\ menu_top \in Nat /\ menu_items \in Nat /\ menu_items_screen \in Nat
      /\ menu_item_top \in Nat /\ menu_sel \in Nat /\ below <= TextRows - 4
  BY ScreenAssumption DEF ScreenInv, MenuInv
<1>2. Row(TextRows - 1) = <<"text", text_row>>
  <2>1. TextRows - 1 > below
    BY <1>1
  <2>2. Row(TextRows - 1) = <<"text", (TextRows - 1 + text_top) % TextRows>>
    BY Zenon, <2>1 DEF Row
  <2>3. (TextRows - 1 + text_top) % TextRows = text_row
    BY Zenon, RingMod DEF ScreenInv, TextInv
  <2> QED
    BY Zenon, <2>2, <2>3
<1>3. ASSUME show_menu = 1
      PROVE  \E i \in 0 .. TextRows - 1 : Row(i) = <<"item", menu_sel>>
  <2>1. menu_item_top <= menu_sel /\ menu_sel < menu_item_top + menu_items_screen
    BY Zenon, <1>3 DEF ScreenInv, MenuInv
  <2> DEFINE i == menu_sel - menu_item_top + menu_top
  <2>2. /\ i \in 0 .. TextRows - 1 /\ ~(i > below) /\ ~(i < menu_top) /\ i < below
        /\ i - menu_top + menu_item_top = menu_sel
    BY <1>1, <2>1
  <2>3. ~(show_menu = 0)
    BY <1>3
  <2>4. Row(i) = <<"item", i - menu_top + menu_item_top>>
    BY Zenon, <2>2, <2>3 DEF Row
  <2> HIDE DEF i
  <2> QED
    BY Zenon, <2>2, <2>4
<1>4. ASSUME show_menu = 1, NEW i \in 0 .. TextRows - 1, Row(i)[1] = "item"
      PROVE  Row(i)[2] \in 0 .. menu_items - 1
  <2>1. i \in Int
    OBVIOUS
  <2>2. ~(i < menu_top) /\ i < below
    BY SMTT(20), <1>1, <1>4, <2>1 DEF Row
  <2>3. Row(i) = <<"item", i - menu_top + menu_item_top>>
    BY <1>1, <1>4, <2>1, <2>2 DEF Row
  <2>4. menu_item_top + menu_items_screen <= menu_items
    BY Zenon, <1>4 DEF ScreenInv, MenuInv
  <2>5. i - menu_top + menu_item_top \in 0 .. menu_items - 1
    BY <1>1, <2>1, <2>2, <2>4
  <2> QED
    BY <2>3, <2>5
<1> QED
  BY Zenon, <1>2, <1>3, <1>4 DEF ScreenShows

\* For a screen and menus of any size: the selected item is on the screen, no
\* row shows an item that does not exist, and the newest line of the log is at
\* the bottom.
THEOREM ScreenShowsCorrect == ScreenSpec => []ScreenShows
<1>1. ScreenInv /\ [ScreenNext]_screenVars => ScreenInv'
  BY Zenon, ScreenStep
<1> QED
  BY <1>1, ScreenStarts, ScreenInvShows, PTL DEF ScreenSpec

\* The bar never goes back while it is shown, whatever fractions the updater
\* reports and whenever the timer moves it.
THEOREM ProgressForwardCorrect == ScreenSpec => ProgressForward
<1>1. ScreenInv /\ [ScreenNext]_screenVars => ScreenInv'
  BY Zenon, ScreenStep
<1>2. ScreenInv /\ [ScreenNext]_screenVars => [bar' # "none" => Filled' >= Filled]_screenVars
  BY Zenon, ScreenStep
<1> QED
  BY <1>1, <1>2, ScreenStarts, PTL DEF ScreenSpec, ProgressForward

-----------------------------------------------------------------------------
(***************************************************************************)
(* The menus: the inductive invariants.                                    *)
(***************************************************************************)

MenuPcs == {"loop", "menu", "up", "down", "browse", "exit"}

\* The numbers of the items of a menu.
Items(f) == 1 .. Len(MenuItems(f))

\* The type of the stack and of the selection; while the user moves the
\* highlight it is inside the menu.
MenusTypeOK ==
    /\ menu_level \in Levels
    /\ menu_files \in [Levels -> MenuFiles \cup {NoFile}]
    /\ menu_scripts \in [Levels -> MenuFiles \cup {NoFile}]
    /\ sel_at \in [Levels -> Int] /\ selected \in Int /\ override \in Int
    /\ shown \in MenuFiles /\ mpc \in MenuPcs
    /\ mpc \in {"menu", "up", "down"} => selected \in Items(shown)

\* Only tags have a box.
BoxInv ==
    /\ tag_box \in [Items(shown) -> {0, 1, 255}]
    /\ \A i \in Items(shown) : tag_box[i] # 255 => MenuItems(shown)[i].kind = "tag"

\* The browsing calls are what the program counter says they are.
DirsInv == dirs \in Seq(DOMAIN Parent) /\ (mpc = "browse" <=> dirs # <<>>)

StackInv == MenusTypeOK /\ ShownIsCurrent

-----------------------------------------------------------------------------
(***************************************************************************)
(* Lemmas about the operators of the model.                                *)
(***************************************************************************)

\* A menu has between one and MaxItems - 1 items.
LEMMA ItemsFit ==
    ASSUME NEW f \in MenuFiles
    PROVE  Len(MenuItems(f)) \in Nat \ {0}
BY MenusFit, MenusAssumption

\* Least is what its name says: the well-ordering of the naturals.
LEMMA LeastIsLeast ==
    ASSUME NEW S, S \subseteq Nat, S # {}
    PROVE  Least(S) \in S /\ \A j \in S : Least(S) <= j
<1> DEFINE R == OpToRel(<, Nat)
<1>1. \E i \in S : \A j \in S : ~(<<j, i>> \in R)
  BY Zenon, NatLessThanWellFounded, WFMin
<1>2. \A i, j \in S : i \in Nat /\ j \in Nat
  BY Zenon
<1>3. \A i, j \in Nat : <<j, i>> \in R <=> j < i
  BY DEF OpToRel
<1>4. \A i, j \in Nat : ~(j < i) => i <= j
  OBVIOUS
<1>5. \E i \in S : \A j \in S : i <= j
  BY Zenon, <1>1, <1>2, <1>3, <1>4
<1> QED
  BY Zenon, <1>5 DEF Least

\* The initial selection is an item of the menu, and one that can be chosen if
\* the menu has one.
LEMMA StartSelectable ==
    ASSUME NEW f \in MenuFiles, NEW start \in Int
    PROVE  /\ StartSelection(f, start) \in Items(f)
           /\ \/ Selectable(f, StartSelection(f, start))
              \/ \A i \in Items(f) : ~Selectable(f, i)
<1> DEFINE n     == Len(MenuItems(f))
           first == Clamp(n, start)
           ok    == {i \in 1 .. n : Selectable(f, i)}
           ahead == {i \in ok : i >= first}
<1>1. n \in Nat \ {0}
  BY ItemsFit
<1>2. first \in 1 .. n
  <2> HIDE DEF n
  <2> QED BY <1>1 DEF Clamp
<1>3. StartSelection(f, start) = IF ok = {} THEN first ELSE Least(IF ahead # {} THEN ahead ELSE ok)
  BY Zenon DEF StartSelection
<1>4. CASE ok = {}
  <2>1. StartSelection(f, start) = first
    BY Zenon, <1>3, <1>4
  <2>2. \A i \in Items(f) : ~Selectable(f, i)
    BY Zenon, <1>4 DEF Items
  <2> QED
    BY Zenon, <1>2, <2>1, <2>2 DEF Items
<1>5. CASE ok # {}
  <2>1. ok \subseteq Nat /\ ahead \subseteq Nat
    <3>1. \A m \in Nat : 1 .. m \subseteq Nat
      OBVIOUS
    <3>2. 1 .. n \subseteq Nat
      BY Zenon, <1>1, <3>1
    <3> QED BY Zenon, <3>2
  <2>2. Least(ok) \in ok
    BY Zenon, <1>5, <2>1, LeastIsLeast
  <2>3. ahead # {} => Least(ahead) \in ok
    BY Zenon, <2>1, LeastIsLeast
  <2>4. StartSelection(f, start) \in ok
    BY Zenon, <1>3, <1>5, <2>2, <2>3
  <2> QED
    BY Zenon, <2>4 DEF Items
<1> QED
  BY Zenon, <1>4, <1>5

\* The highlight stays inside the menu: from the last item it moves to the
\* first one and back.
LEMMA ItemsWrap ==
    ASSUME NEW n \in Nat \ {0}, NEW s \in 1 .. n
    PROVE  NextItem(n, s) \in 1 .. n /\ PrevItem(n, s) \in 1 .. n
BY SMTT(20) DEF NextItem, PrevItem

\* The boxes create_menu makes: one for each tag, checked if its file exists.
LEMMA BoxFits ==
    ASSUME NEW f, NEW T
    PROVE  /\ Box(f, T) \in [Items(f) -> {0, 1, 255}]
           /\ \A i \in Items(f) : Box(f, T)[i] # 255 => MenuItems(f)[i].kind = "tag"
           /\ \A i \in Items(f) : Box(f, T)[i] = 1 => MenuItems(f)[i].target \in T
BY DEF Box, Items
-----------------------------------------------------------------------------
(***************************************************************************)
(* The stack of menus.                                                     *)
(***************************************************************************)

\* A stack with menus up to its level lv and nothing above it.
GoodStack(lv, fs, ss, xs) ==
    /\ lv \in Levels /\ xs \in [Levels -> Int]
    /\ fs \in [Levels -> MenuFiles \cup {NoFile}] /\ ss \in [Levels -> MenuFiles \cup {NoFile}]
    /\ \A l \in Levels : IF l <= lv THEN fs[l] \in MenuFiles ELSE fs[l] = NoFile /\ ss[l] = NoFile

\* A good stack without its last level is a good stack.
LEMMA PopGood ==
    ASSUME NEW lv, NEW fs, NEW ss, NEW xs, GoodStack(lv, fs, ss, xs), lv > 0
    PROVE  GoodStack(lv - 1, [fs EXCEPT ![lv] = NoFile], [ss EXCEPT ![lv] = NoFile], xs)
<1>1. lv \in Levels /\ lv - 1 \in Levels
  BY MenusAssumption DEF GoodStack, Levels
<1>2. \A l \in Levels : l # lv => (l <= lv <=> l <= lv - 1)
  BY <1>1 DEF Levels
<1>3. ~(lv <= lv - 1)
  BY <1>1 DEF Levels
<1>4. \A l \in Levels : IF l <= lv - 1
          THEN [fs EXCEPT ![lv] = NoFile][l] \in MenuFiles
          ELSE [fs EXCEPT ![lv] = NoFile][l] = NoFile /\ [ss EXCEPT ![lv] = NoFile][l] = NoFile
  BY Zenon, <1>1, <1>2, <1>3 DEF GoodStack
<1> QED
  BY Zenon, <1>1, <1>4 DEF GoodStack

\* A good stack with one more level is a good stack.
LEMMA PushGood ==
    ASSUME NEW lv, NEW fs, NEW ss, NEW xs, GoodStack(lv, fs, ss, xs), lv + 1 < MaxLevel,
           NEW f \in MenuFiles, NEW s \in MenuFiles \cup {NoFile}, NEW x \in Int
    PROVE  GoodStack(lv + 1, [fs EXCEPT ![lv + 1] = f], [ss EXCEPT ![lv + 1] = s],
                     [xs EXCEPT ![lv] = x])
<1>1. lv \in Levels /\ lv + 1 \in Levels
  BY MenusAssumption DEF GoodStack, Levels
<1>2. \A l \in Levels : l # lv + 1 => (l <= lv <=> l <= lv + 1)
  BY <1>1 DEF Levels
<1>3. lv + 1 <= lv + 1
  BY <1>1 DEF Levels
<1>4. \A l \in Levels : IF l <= lv + 1
          THEN [fs EXCEPT ![lv + 1] = f][l] \in MenuFiles
          ELSE [fs EXCEPT ![lv + 1] = f][l] = NoFile /\ [ss EXCEPT ![lv + 1] = s][l] = NoFile
  BY Zenon, <1>1, <1>2, <1>3 DEF GoodStack
<1> QED
  BY ZenonT(30), <1>1, <1>4 DEF GoodStack

\* What create_menu leaves: the items of its file, or those from before.
LEMMA MenuMade ==
    ASSUME NEW f, NEW s, NEW P, NEW T, NEW up, create_menu(f, s, P, T, up)
    PROVE  \/ f \in present' /\ shown' = f /\ tag_box' = Box(f, tag_files')
           \/ /\ f \notin present' /\ shown' = shown /\ tag_box' = tag_box /\ stale' = 1
              /\ up_failed' = IF up THEN 1 ELSE up_failed
BY Zenon DEF create_menu

\* The invariant of the stack, in terms of good stacks.
LEMMA StackIsGood ==
    ASSUME StackInv
    PROVE  GoodStack(menu_level, menu_files, menu_scripts, sel_at)
BY Zenon DEF StackInv, MenusTypeOK, ShownIsCurrent, GoodStack

\* A menu is opened on the stack st, which is the stack with one more level or
\* a lower one: either it is shown, or the stack is as before, or a ".." has
\* failed.
LEMMA OpenKeepsStack ==
    ASSUME StackInv, NEW st, GoodStack(st.level, st.files, st.scripts, st.sel),
           \/ st.level <= menu_level
           \/ st.level - 1 = menu_level /\ [st.files EXCEPT ![st.level] = NoFile] = menu_files,
           OpenMenu(st), mpc' = "loop", selected' \in Int, override' \in Int
    PROVE  StackInv'
<1> DEFINE f  == st.files[st.level]
           up == st.level <= menu_level
           pop == Popped(st)
           new == IF f \notin present' /\ st.level > 0 THEN pop ELSE st
<1>1. create_menu(f, st.scripts[st.level], present, tag_files, up) /\ SetStack(new)
  BY Zenon DEF OpenMenu
<1>2. /\ menu_level' = new.level /\ menu_files' = new.files
      /\ menu_scripts' = new.scripts /\ sel_at' = new.sel
  BY Zenon, <1>1 DEF SetStack
<1>3. \/ f \in present' /\ shown' = f
      \/ /\ f \notin present' /\ shown' = shown
         /\ up_failed' = IF up THEN 1 ELSE up_failed
  BY Zenon, <1>1 DEF create_menu
<1>4. /\ pop.level = st.level - 1 /\ pop.files = [st.files EXCEPT ![st.level] = NoFile]
      /\ pop.scripts = [st.scripts EXCEPT ![st.level] = NoFile] /\ pop.sel = st.sel
  BY Zenon DEF Popped
<1>5. st.level \in Levels /\ st.level <= st.level /\ (st.level > 0 \/ st.level = 0)
  BY MenusAssumption DEF GoodStack, Levels
<1>6. f \in MenuFiles
  BY Zenon, <1>5 DEF GoodStack
<1>7. GoodStack(new.level, new.files, new.scripts, new.sel)
  <2>1. CASE f \notin present' /\ st.level > 0
    <3>1. new = pop
      BY Zenon, <2>1
    <3>2. GoodStack(st.level - 1, [st.files EXCEPT ![st.level] = NoFile],
                    [st.scripts EXCEPT ![st.level] = NoFile], st.sel)
      BY Zenon, <2>1, PopGood
    <3> QED
      BY Zenon, <1>4, <3>1, <3>2
  <2>2. CASE ~(f \notin present' /\ st.level > 0)
    <3>1. new = st
      BY Zenon, <2>2
    <3> QED
      BY Zenon, <3>1
  <2> QED
    BY Zenon, <2>1, <2>2
<1>8. shown' \in MenuFiles
  BY Zenon, <1>3, <1>6 DEF StackInv, MenusTypeOK
<1>9. shown' = menu_files'[menu_level'] \/ up_failed' = 1
  <2>1. CASE f \in present'
    BY Zenon, <1>2, <1>3, <2>1
  <2>2. CASE f \notin present' /\ up
    BY Zenon, <1>3, <2>2
  <2>3. CASE f \notin present' /\ ~up
    <3>1. st.level - 1 = menu_level /\ [st.files EXCEPT ![st.level] = NoFile] = menu_files
      BY Zenon, <2>3
    <3>2. st.level > 0
      BY SMTT(20), <3>1, <1>5, MenusAssumption DEF StackInv, MenusTypeOK, Levels
    <3>3. menu_level' = menu_level /\ menu_files' = menu_files
      BY Zenon, <1>2, <1>4, <2>3, <3>1, <3>2
    <3>4. shown' = shown /\ up_failed' = up_failed
      BY Zenon, <1>3, <2>3
    <3> QED
      BY Zenon, <3>3, <3>4 DEF StackInv, ShownIsCurrent
  <2> QED
    BY Zenon, <2>1, <2>2, <2>3
<1> HIDE DEF new
<1>10. GoodStack(menu_level', menu_files', menu_scripts', sel_at')
  BY Zenon, <1>2, <1>7
<1>11. ShownIsCurrent'
  BY Zenon, <1>9, <1>10 DEF ShownIsCurrent, GoodStack, Levels
<1>12. MenusTypeOK'
  BY Zenon, <1>8, <1>10 DEF MenusTypeOK, GoodStack, Levels, MenuPcs
<1> QED
  BY Zenon, <1>11, <1>12 DEF StackInv

\* The current menu is made again, or stays.
LEMMA RefreshKeepsStack ==
    ASSUME StackInv, Refresh
    PROVE  StackInv'
<1> DEFINE f == menu_files[menu_level]
<1>1. shown' = f \/ (shown' = shown /\ up_failed' = up_failed)
  <2>1. PICK P, T : create_menu(f, menu_scripts[menu_level], P, T, FALSE)
    BY Zenon DEF Refresh
  <2> QED
    BY Zenon, <2>1, MenuMade
<1>2. UNCHANGED stackVars /\ selected' = selected /\ override' = selected /\ mpc' = "loop"
  BY Zenon DEF Refresh
<1>3. menu_level <= menu_level /\ menu_level \in Levels
  BY MenusAssumption DEF StackInv, MenusTypeOK, Levels
<1>4. f \in MenuFiles
  BY Zenon, <1>3 DEF StackInv, ShownIsCurrent
<1>5. /\ menu_level' = menu_level /\ menu_files' = menu_files
      /\ menu_scripts' = menu_scripts /\ sel_at' = sel_at
  BY Zenon, <1>2 DEF stackVars
<1>6. ShownIsCurrent'
  BY Zenon, <1>1, <1>5 DEF StackInv, ShownIsCurrent, Levels
<1>7. MenusTypeOK'
  BY Zenon, <1>1, <1>2, <1>4, <1>5 DEF StackInv, MenusTypeOK, Levels, MenuPcs
<1> QED
  BY Zenon, <1>6, <1>7 DEF StackInv
\* Every step keeps the invariant of the stack.
LEMMA StackStep ==
    ASSUME StackInv, [MenusNext]_menusVars
    PROVE  StackInv'
<1> DEFINE n == Len(MenuItems(shown))
<1>1. shown \in MenuFiles /\ n \in Nat \ {0}
  BY Zenon, ItemsFit DEF StackInv, MenusTypeOK
<1>2. GoodStack(menu_level, menu_files, menu_scripts, sel_at)
  BY Zenon, StackIsGood
<1>3. ASSUME UNCHANGED <<stackVars, shown, up_failed>>, mpc' \in MenuPcs,
             selected' \in Int, override' \in Int,
             mpc' \in {"menu", "up", "down"} => selected' \in Items(shown)
      PROVE  StackInv'
  <2>1. ShownIsCurrent'
    BY Zenon, <1>3 DEF StackInv, ShownIsCurrent, stackVars, Levels
  <2>2. MenusTypeOK'
    BY Zenon, <1>3 DEF StackInv, MenusTypeOK, stackVars, Levels, Items
  <2> QED
    BY Zenon, <2>1, <2>2 DEF StackInv
<1>4. selected \in Int /\ override \in Int /\ mpc \in MenuPcs /\ menu_level \in Int
  BY DEF StackInv, MenusTypeOK, Levels
<1>5. mpc = "menu" => Item = MenuItems(shown)[selected] /\ selected \in 1 .. n
  BY Zenon DEF Item, StackInv, MenusTypeOK, Items
<1>6. Items(shown) = 1 .. n /\ 1 .. n \subseteq Int
  BY DEF Items
<1>7. CASE MenuOpen
  <2>1. selected' \in Items(shown)
    BY Zenon, <1>7, <1>1, <1>4, StartSelectable DEF MenuOpen
  <2>2. UNCHANGED <<stackVars, shown, up_failed>> /\ mpc' = "menu" /\ override' = 0
    BY Zenon, <1>7 DEF MenuOpen, shownVars
  <2>3. selected' \in Int /\ override' \in Int
    BY <1>6, <2>1, <2>2
  <2> QED
    BY Zenon, <1>3, <2>1, <2>2, <2>3 DEF MenuPcs
<1>8. ASSUME NEW dir \in {"up", "down"}, mpc \in {"menu", "up", "down"}, Highlight(dir)
      PROVE  StackInv'
  <2>1. selected \in 1 .. n
    BY Zenon, <1>8 DEF StackInv, MenusTypeOK, Items
  <2>2. selected' \in {NextItem(n, selected), PrevItem(n, selected)} /\ mpc' \in {"menu", dir}
    BY Zenon, <1>8 DEF Highlight
  <2>3. selected' \in 1 .. n
    BY Zenon, <1>1, <2>1, <2>2, ItemsWrap
  <2>4. UNCHANGED <<stackVars, shown, up_failed>> /\ override' = override
    BY Zenon, <1>8 DEF Highlight, shownVars
  <2>5. selected' \in Int /\ override' \in Int /\ mpc' \in MenuPcs
    BY Zenon, <1>4, <1>6, <1>8, <2>2, <2>3, <2>4 DEF MenuPcs
  <2> QED
    BY Zenon, <1>3, <1>6, <2>3, <2>4, <2>5
<1>9. CASE Press \/ Move
  BY Zenon, <1>8, <1>9 DEF Press, Move
<1>10. CASE ItemExit \/ ItemStay \/ ItemTooDeep
  <2>1. UNCHANGED <<stackVars, shown, up_failed, selected, override>> /\ mpc' \in {"exit", "loop"}
    BY Zenon, <1>10 DEF ItemExit, ItemStay, ItemTooDeep, shownVars
  <2> QED
    BY Zenon, <1>3, <1>4, <2>1 DEF MenuPcs
<1>11. CASE ItemScript
  BY Zenon, <1>11, RefreshKeepsStack DEF ItemScript
<1>12. CASE ItemTag
  <2>1. UNCHANGED <<stackVars, shown, up_failed, selected>> /\ mpc' = "loop" /\ override' = selected
    BY Zenon, <1>12 DEF ItemTag
  <2> QED
    BY Zenon, <1>3, <1>4, <2>1 DEF MenuPcs
<1>13. CASE ItemUp
  <2>1. mpc' = "loop" /\ selected' = selected
    BY Zenon, <1>13 DEF ItemUp
  <2>2. CASE menu_level > 0
    <3> DEFINE xs == [sel_at EXCEPT ![menu_level] = 1]
               st == Popped([Stack EXCEPT !.sel[menu_level] = 1])
    <3>1. OpenMenu(st) /\ override' = sel_at[menu_level - 1]
      <4>1. ~(menu_level = 0)
        BY <1>4, <2>2
      <4> QED BY Zenon, <4>1, <1>13 DEF ItemUp
    <3>2. /\ st.level = menu_level - 1 /\ st.files = [menu_files EXCEPT ![menu_level] = NoFile]
          /\ st.scripts = [menu_scripts EXCEPT ![menu_level] = NoFile] /\ st.sel = xs
      BY DEF Popped, Stack
    <3>3. GoodStack(menu_level, menu_files, menu_scripts, xs)
      BY <1>2 DEF GoodStack
    <3> HIDE DEF st, xs
    <3>4. GoodStack(st.level, st.files, st.scripts, st.sel)
      <4>1. GoodStack(menu_level - 1, [menu_files EXCEPT ![menu_level] = NoFile],
                      [menu_scripts EXCEPT ![menu_level] = NoFile], xs)
        BY Zenon, <2>2, <3>3, PopGood
      <4> QED
        BY Zenon, <3>2, <4>1
    <3>5. st.level <= menu_level
      BY SMTT(20), <1>4, <3>2
    <3>6. menu_level - 1 \in Levels
      BY <2>2, MenusAssumption DEF StackInv, MenusTypeOK, Levels
    <3>7. override' \in Int
      BY Zenon, <3>1, <3>6 DEF StackInv, MenusTypeOK
    <3> QED
      BY Zenon, <1>4, <2>1, <3>1, <3>4, <3>5, <3>7, OpenKeepsStack
  <2>3. CASE menu_level = 0
    <3>1. OpenMenu(Stack) /\ override' = override
      <4>1. ~(menu_level > 0)
        BY <2>3
      <4> QED BY Zenon, <4>1, <1>13 DEF ItemUp
    <3>2. /\ Stack.level = menu_level /\ Stack.files = menu_files
          /\ Stack.scripts = menu_scripts /\ Stack.sel = sel_at
      BY Zenon DEF Stack
    <3>3. Stack.level <= menu_level
      BY <3>2, <2>3
    <3> QED
      BY Zenon, <1>2, <1>4, <2>1, <3>1, <3>2, <3>3, OpenKeepsStack
  <2> QED
    BY Zenon, <1>13, <2>2, <2>3 DEF ItemUp
<1>14. ASSUME NEW f \in MenuFiles, NEW s \in MenuFiles \cup {NoFile},
              menu_level + 1 < MaxLevel, OpenMenu(Pushed(f, s)), mpc' = "loop",
              UNCHANGED <<selected, override>>
       PROVE  StackInv'
  <2> DEFINE st == Pushed(f, s)
  <2>1. /\ st.level = menu_level + 1 /\ st.files = [menu_files EXCEPT ![menu_level + 1] = f]
        /\ st.scripts = [menu_scripts EXCEPT ![menu_level + 1] = s]
        /\ st.sel = [sel_at EXCEPT ![menu_level] = selected]
    BY Zenon DEF Pushed
  <2>2. OpenMenu(st)
    BY Zenon, <1>14
  <2> HIDE DEF st
  <2>3. GoodStack(st.level, st.files, st.scripts, st.sel)
    <3>1. GoodStack(menu_level + 1, [menu_files EXCEPT ![menu_level + 1] = f],
                    [menu_scripts EXCEPT ![menu_level + 1] = s],
                    [sel_at EXCEPT ![menu_level] = selected])
      BY ZenonT(30), <1>2, <1>4, <1>14, PushGood
    <3> QED
      BY Zenon, <2>1, <3>1
  <2>4. menu_level + 1 \in Levels /\ ~(menu_level + 1 <= menu_level)
    BY <1>14, MenusAssumption DEF StackInv, MenusTypeOK, Levels
  <2>5. menu_files[menu_level + 1] = NoFile
    BY Zenon, <2>4 DEF StackInv, ShownIsCurrent
  <2>6. [st.files EXCEPT ![st.level] = NoFile] = menu_files
    BY ZenonT(30), <2>1, <2>4, <2>5 DEF StackInv, MenusTypeOK
  <2>7. st.level - 1 = menu_level
    BY <1>4, <2>1
  <2> QED
    BY Zenon, <1>4, <1>14, <2>2, <2>3, <2>6, <2>7, OpenKeepsStack
<1>15. CASE ItemNewMenu
  <2>1. /\ mpc = "menu" /\ Item.kind = "new_menu" /\ Item.target # Up /\ menu_level + 1 < MaxLevel
        /\ OpenMenu(Pushed(Item.target, menu_scripts[menu_level + 1]))
        /\ UNCHANGED <<selected, override>> /\ mpc' = "loop"
    BY Zenon, <1>15 DEF ItemNewMenu, Choose
  <2>2. Item.target \in MenuFiles
    BY ZenonT(30), <1>1, <1>5, <2>1, MenusLead
  <2>3. menu_level + 1 \in Levels
    BY <2>1, MenusAssumption DEF StackInv, MenusTypeOK, Levels
  <2>4. menu_scripts[menu_level + 1] \in MenuFiles \cup {NoFile}
    BY Zenon, <2>3 DEF StackInv, MenusTypeOK
  <2> QED
    BY Zenon, <1>14, <2>1, <2>2, <2>4
<1>16. CASE ItemNewMenuScripted
  <2>1. /\ mpc = "menu" /\ Item.kind = "new_menu_scripted" /\ menu_level + 1 < MaxLevel
        /\ OpenMenu(Pushed(Item.target, Item.target))
        /\ UNCHANGED <<selected, override>> /\ mpc' = "loop"
    BY Zenon, <1>16 DEF ItemNewMenuScripted, Choose
  <2>2. Item.target \in MenuFiles
    BY Zenon, <1>1, <1>5, <2>1, MenusLead
  <2> QED
    BY Zenon, <1>14, <2>1, <2>2
<1>17. CASE ItemDirectory
  <2>1. CASE Refresh
    BY Zenon, <2>1, RefreshKeepsStack
  <2>2. CASE mpc' = "browse" /\ UNCHANGED <<shownVars, stackVars, selected, override>>
    BY Zenon, <1>3, <1>4, <2>2 DEF MenuPcs, shownVars
  <2> QED
    BY Zenon, <1>17, <2>1, <2>2 DEF ItemDirectory
<1>18. CASE update_directory
  <2>1. CASE Refresh
    BY Zenon, <2>1, RefreshKeepsStack
  <2>2. CASE mpc = "browse" /\ UNCHANGED <<stackVars, shown, up_failed, selected, override, mpc>>
    BY Zenon, <1>3, <1>4, <2>2
  <2> QED
    BY Zenon, <1>18, <2>1, <2>2
       DEF update_directory, BrowseUp, BrowseDown, BrowseRun, shownVars
<1>19. CASE UNCHANGED menusVars
  <2>1. UNCHANGED <<stackVars, shown, up_failed, selected, override, mpc>>
    BY Zenon, <1>19 DEF menusVars, shownVars
  <2> QED
    BY Zenon, <1>3, <1>4, <2>1 DEF StackInv, MenusTypeOK
<1> QED
  BY Zenon, <1>7, <1>9, <1>10, <1>11, <1>12, <1>13, <1>15, <1>16, <1>17, <1>18, <1>19
     DEF MenusNext, script_directory
-----------------------------------------------------------------------------
(***************************************************************************)
(* The highlight and the browsers.                                         *)
(***************************************************************************)

\* Where a step ends in the loop of the selection the highlight is on an item
\* that can be chosen, if there is one.
LEMMA HighlightStep ==
    ASSUME StackInv, HighlightSelectable, [MenusNext]_menusVars
    PROVE  HighlightSelectable'
<1> SUFFICES ASSUME mpc' = "menu"
             PROVE  \/ Selectable(shown', selected')
                    \/ \A i \in Items(shown') : ~Selectable(shown', i)
  BY Zenon DEF HighlightSelectable, Selectable, Items
<1>1. shown \in MenuFiles /\ override \in Int
  BY Zenon DEF StackInv, MenusTypeOK
<1>2. CASE MenuOpen
  <2>1. shown' = shown /\ selected' = StartSelection(shown, override)
    BY Zenon, <1>2 DEF MenuOpen, shownVars
  <2> QED
    BY Zenon, <1>1, <2>1, StartSelectable
<1>3. ASSUME NEW dir \in {"up", "down"}, Highlight(dir)
      PROVE  Selectable(shown', selected')
  <2>1. shown' = shown
    BY Zenon, <1>3 DEF Highlight, shownVars
  <2>2. mpc' = IF Selectable(shown, selected') THEN "menu" ELSE dir
    BY Zenon, <1>3 DEF Highlight
  <2>3. dir # "menu"
    BY <1>3
  <2> QED
    BY Zenon, <2>1, <2>2, <2>3
<1>4. CASE Press \/ Move
  BY Zenon, <1>3, <1>4 DEF Press, Move
<1>5. CASE UNCHANGED menusVars
  <2>1. shown' = shown /\ selected' = selected /\ mpc = "menu"
    BY Zenon, <1>5 DEF menusVars, shownVars
  <2> QED
    BY Zenon, <2>1 DEF HighlightSelectable, Items
<1>6. CASE \/ ItemExit \/ ItemStay \/ ItemScript \/ ItemTag \/ ItemTooDeep
           \/ ItemUp \/ ItemNewMenu \/ ItemNewMenuScripted \/ ItemDirectory \/ update_directory
  <2>1. mpc' \in {"exit", "loop", "browse"}
    BY Zenon, <1>6 DEF ItemExit, ItemStay, ItemScript, ItemTag, ItemTooDeep, ItemUp, ItemNewMenu,
       ItemNewMenuScripted, ItemDirectory, update_directory, BrowseUp, BrowseDown, BrowseRun, Refresh
  <2> QED
    BY <2>1
<1> QED
  BY Zenon, <1>2, <1>4, <1>5, <1>6 DEF MenusNext, script_directory

\* A sorted list of finitely many names is a sequence.
LEMMA SortedIsSeq ==
    ASSUME NEW S, IsFiniteSet(S), NEW s \in Sorted(S)
    PROVE  s \in Seq(S) /\ \A i, j \in 1 .. Len(s) : i < j => Before(s[i], s[j])
<1>1. Cardinality(S) \in Nat
  BY Zenon, FS_CardinalityType
<1>2. s \in [1 .. Cardinality(S) -> S] /\ \A i, j \in DOMAIN s : i < j => Before(s[i], s[j])
  BY Zenon DEF Sorted
<1>3. s \in Seq(S)
  BY <1>1, <1>2
<1>4. DOMAIN s = 1 .. Len(s)
  BY <1>3
<1> QED
  BY Zenon, <1>2, <1>3, <1>4

\* An item below the first that is no package leads to a subdirectory, or it is
\* the entry "../", which some package sorts before.
LEMMA ListingLeads ==
    ASSUME NEW d \in DOMAIN Parent, NEW list \in Listing(d), NEW i \in 2 .. Len(list),
           list[i] \notin Packages[d]
    PROVE  \/ list[i] \in Subdirs(d)
           \/ list[i] = DirUp /\ \E p \in Packages[d] : Before(p, DirUp)
<1> DEFINE names == Packages[d] \cup {DirUp}
<1>1. PICK s \in Sorted(names), r \in Sorted(Subdirs(d)) : list = s \o r
  <2>1. PICK l \in Sorted(names) \X Sorted(Subdirs(d)) : list = l[1] \o l[2]
    BY Zenon DEF Listing
  <2>2. l[1] \in Sorted(names) /\ l[2] \in Sorted(Subdirs(d))
    BY <2>1
  <2> QED
    BY Zenon, <2>1, <2>2
<1>2. IsFiniteSet(names)
  BY Zenon, MenusAssumption, FS_AddElement
<1>3. IsFiniteSet(Subdirs(d))
  <2>1. Subdirs(d) \subseteq DOMAIN Parent
    BY Zenon DEF Subdirs
  <2> QED
    BY Zenon, <2>1, MenusAssumption, FS_Subset
<1>4. s \in Seq(names) /\ r \in Seq(Subdirs(d))
  BY Zenon, <1>2, <1>3, SortedIsSeq
<1>5. CASE i <= Len(s)
  <2>1. 1 \in 1 .. Len(s) /\ i \in 1 .. Len(s) /\ 1 < i
    BY SMTT(20), <1>4, <1>5
  <2>2. list[i] = s[i] /\ s[i] \in names /\ s[1] \in names
    BY <1>1, <1>4, <2>1
  <2>3. list[i] = DirUp
    BY Zenon, <2>2
  <2>4. Before(s[1], DirUp)
    BY ZenonT(30), <1>2, <2>1, <2>2, <2>3, SortedIsSeq
  <2>5. s[1] # DirUp
    <3>1. Rank[DirUp] \in Int
      BY Zenon, MenusAssumption
    <3> QED
      BY <2>4, <3>1 DEF Before
  <2> QED
    BY ZenonT(30), <2>2, <2>3, <2>4, <2>5
<1>6. CASE i > Len(s)
  <2>1. i - Len(s) \in 1 .. Len(r) /\ list[i] = r[i - Len(s)]
    BY SMTT(20), <1>1, <1>4, <1>6
  <2>2. list[i] \in Subdirs(d)
    BY SMTT(20), <1>4, <2>1
  <2> QED
    BY ZenonT(30), <2>2
<1>7. i <= Len(s) \/ i > Len(s)
  BY <1>4
<1> QED
  BY Zenon, <1>5, <1>6, <1>7
\* A browsing call is entered for a subdirectory of the innermost one, unless
\* some package sorts before "../" there.
LEMMA DirsStep ==
    ASSUME DirsInv, BrowseDescends, [MenusNext]_menusVars
    PROVE  DirsInv' /\ BrowseDescends'
<1> DEFINE Below(d, e) == Parent[e] = d \/ \E p \in Packages[d] : Before(p, DirUp)
<1>1. dirs \in Seq(DOMAIN Parent) /\ \A i \in 1 .. Len(dirs) - 1 : Below(dirs[i], dirs[i + 1])
  BY Zenon DEF DirsInv, BrowseDescends
<1>2. ASSUME dirs' = dirs, mpc' = "browse" <=> mpc = "browse"
      PROVE  DirsInv' /\ BrowseDescends'
  BY Zenon, <1>2 DEF DirsInv, BrowseDescends
<1>3. ASSUME NEW d \in DOMAIN Parent, dirs' = Append(dirs, d), mpc' = "browse",
             dirs # <<>> => Below(Here, d)
      PROVE  DirsInv' /\ BrowseDescends'
  <2>1. dirs' \in Seq(DOMAIN Parent) /\ dirs' # <<>>
    BY SMTT(20), <1>1, <1>3
  <2>2. /\ Len(dirs) \in Nat /\ Len(dirs') = Len(dirs) + 1 /\ dirs'[Len(dirs) + 1] = d
        /\ \A i \in 1 .. Len(dirs) : dirs'[i] = dirs[i]
    BY <1>1, <1>3
  <2>3. SUFFICES ASSUME NEW i \in 1 .. Len(dirs') - 1
                 PROVE  Below(dirs'[i], dirs'[i + 1])
    BY Zenon, <1>3, <2>1 DEF DirsInv, BrowseDescends
  <2>4. CASE i = Len(dirs)
    <3>1. dirs # <<>>
      BY SMTT(20), <2>2, <2>4
    <3>2. dirs'[i] = Here /\ dirs'[i + 1] = d
      BY <2>2, <2>4 DEF Here
    <3> QED
      BY Zenon, <1>3, <3>1, <3>2
  <2>5. CASE i # Len(dirs)
    <3>1. i \in 1 .. Len(dirs) - 1 /\ i \in 1 .. Len(dirs) /\ i + 1 \in 1 .. Len(dirs)
      BY <2>2, <2>5
    <3> QED
      BY Zenon, <1>1, <2>2, <3>1
  <2> QED
    BY Zenon, <2>4, <2>5
<1>4. ASSUME mpc = "menu"
      PROVE  dirs = <<>>
  BY Zenon, <1>4 DEF DirsInv
<1>5. CASE \/ MenuOpen \/ Press \/ Move \/ ItemExit \/ ItemStay \/ ItemScript \/ ItemTag
           \/ ItemTooDeep \/ ItemUp \/ ItemNewMenu \/ ItemNewMenuScripted
  <2>1. dirs' = dirs
    BY Zenon, <1>5 DEF MenuOpen, Press, Move, Highlight, ItemExit, ItemStay, ItemScript, ItemTag,
       ItemTooDeep, ItemUp, ItemNewMenu, ItemNewMenuScripted
  <2>2. mpc \in {"loop", "menu", "up", "down"}
    BY Zenon, <1>5 DEF MenuOpen, Press, Move, ItemExit, ItemStay, ItemScript, ItemTag,
       ItemTooDeep, ItemUp, ItemNewMenu, ItemNewMenuScripted, Choose
  <2>3. mpc' \in {"loop", "menu", "up", "down", "exit"}
    BY Zenon, <1>5 DEF MenuOpen, Press, Move, Highlight, ItemExit, ItemStay, ItemScript, Refresh,
       ItemTag, ItemTooDeep, ItemUp, ItemNewMenu, ItemNewMenuScripted
  <2>4. ~(mpc = "browse") /\ ~(mpc' = "browse")
    BY <2>2, <2>3
  <2> QED
    BY Zenon, <1>2, <2>1, <2>4
<1>6. CASE ItemDirectory
  <2>1. mpc = "menu" /\ dirs = <<>>
    BY Zenon, <1>4, <1>6 DEF ItemDirectory, Choose
  <2>2. CASE dirs' = dirs
    <3>1. mpc' = "loop"
      BY Zenon, <1>6, <2>2 DEF ItemDirectory, Refresh
    <3>2. ~(mpc' = "browse") /\ ~(mpc = "browse")
      BY <2>1, <3>1
    <3> QED
      BY Zenon, <1>2, <2>2, <3>2
  <2>3. CASE dirs' # dirs
    <3>1. dirs' = Append(dirs, Top) /\ mpc' = "browse"
      BY Zenon, <1>6, <2>3 DEF ItemDirectory, EnterDirectory
    <3> QED
      BY Zenon, <1>3, <2>1, <3>1, MenusAssumption
  <2> QED
    BY Zenon, <2>2, <2>3
<1>7. CASE BrowseUp
  <2> DEFINE k == Len(dirs) - 1
  <2>1. mpc = "browse" /\ dirs # <<>> /\ dirs' = SubSeq(dirs, 1, k)
    BY Zenon, <1>7 DEF BrowseUp, DirsInv
  <2>2. /\ k \in Nat /\ dirs' \in Seq(DOMAIN Parent) /\ Len(dirs') = k
        /\ \A i \in 1 .. k : dirs'[i] = dirs[i]
    <3>1. Len(dirs) \in Nat \ {0}
      BY <1>1, <2>1
    <3>2. k \in Nat /\ k <= Len(dirs)
      BY <3>1
    <3> HIDE DEF k
    <3>3. \A i \in 1 .. k : i \in 1 .. Len(dirs)
      BY SMTT(20), <3>1, <3>2
    <3>4. dirs' = [i \in 1 .. k |-> dirs[i]]
      BY SMTT(20), <1>1, <2>1, <3>2
    <3>5. \A i \in 1 .. k : dirs'[i] = dirs[i] /\ dirs[i] \in DOMAIN Parent
      BY SMTT(20), <1>1, <3>3, <3>4
    <3>6. dirs' \in Seq(DOMAIN Parent) /\ Len(dirs') = k
      BY <3>2, <3>4, <3>5
    <3> QED
      BY Zenon, <3>2, <3>5, <3>6
  <2>3. \A i \in 1 .. Len(dirs') - 1 : Below(dirs'[i], dirs'[i + 1])
    <3>1. \A i \in 1 .. k - 1 : i \in 1 .. k /\ i + 1 \in 1 .. k
      BY <2>2
    <3> QED
      BY Zenon, <1>1, <2>2, <3>1
  <2>4. mpc' = "browse" <=> dirs' # <<>>
    <3>1. CASE dirs' # <<>>
      BY Zenon, <1>7, <2>1, <3>1 DEF BrowseUp
    <3>2. CASE dirs' = <<>>
      <4>1. mpc' = "loop"
        BY Zenon, <1>7, <3>2 DEF BrowseUp, Refresh
      <4> QED
        BY <3>2, <4>1
    <3> QED
      BY Zenon, <3>1, <3>2
  <2> QED
    BY Zenon, <2>2, <2>3, <2>4 DEF DirsInv, BrowseDescends
<1>8. CASE BrowseDown
  <2>1. mpc = "browse" /\ mpc' = mpc /\ dirs # <<>>
    BY Zenon, <1>8 DEF BrowseDown, DirsInv
  <2>2. Here \in DOMAIN Parent
    BY <1>1, <2>1 DEF Here
  <2>3. PICK list \in Listing(Here) : \E i \in 2 .. Len(list) :
            /\ list[i] \notin Packages[Here]
            /\ EnterDirectory(IF list[i] = DirUp THEN Parent[Here] ELSE list[i])
    BY Zenon, <1>8 DEF BrowseDown
  <2>4. PICK i \in 2 .. Len(list) :
            /\ list[i] \notin Packages[Here]
            /\ EnterDirectory(IF list[i] = DirUp THEN Parent[Here] ELSE list[i])
    BY Zenon, <2>3
  <2>5. \/ list[i] \in Subdirs(Here)
        \/ list[i] = DirUp /\ \E p \in Packages[Here] : Before(p, DirUp)
    BY Zenon, <2>2, <2>4, ListingLeads
  <2> DEFINE d == IF list[i] = DirUp THEN Parent[Here] ELSE list[i]
  <2>6. d \in DOMAIN Parent /\ Below(Here, d)
    <3>1. CASE list[i] = DirUp
      <4>1. list[i] \notin Subdirs(Here)
        BY Zenon, <3>1, MenusAssumption DEF Subdirs
      <4>2. Parent[Here] \in DOMAIN Parent
        BY Zenon, <2>2, MenusAssumption
      <4> QED
        BY Zenon, <2>5, <3>1, <4>1, <4>2
    <3>2. CASE list[i] # DirUp
      BY Zenon, <2>5, <3>2 DEF Subdirs
    <3> QED
      BY Zenon, <3>1, <3>2
  <2>7. dirs' = dirs \/ dirs' = Append(dirs, d)
    BY Zenon, <2>4 DEF EnterDirectory
  <2> HIDE DEF d
  <2> QED
    BY Zenon, <1>2, <1>3, <2>1, <2>6, <2>7
<1>9. CASE BrowseRun \/ UNCHANGED menusVars
  <2>1. dirs' = dirs /\ mpc' = mpc
    BY Zenon, <1>9 DEF BrowseRun, menusVars
  <2> QED
    BY Zenon, <1>2, <2>1
<1> QED
  BY Zenon, <1>5, <1>6, <1>7, <1>8, <1>9 DEF MenusNext, script_directory, update_directory
-----------------------------------------------------------------------------
(***************************************************************************)
(* The boxes of the tags.                                                  *)
(***************************************************************************)

\* No menu has two items for one tag.  The code toggles the box of the item
\* that was chosen and of no other, so a second item would keep its box.
OneItemPerTag ==
    \A f \in MenuFiles : \A i, j \in Items(f) :
        /\ MenuItems(f)[i].kind = "tag" /\ MenuItems(f)[j].kind = "tag"
        /\ MenuItems(f)[i].target = MenuItems(f)[j].target
        => i = j

\* A box that is checked, in terms of the items.
Checked == \A i \in Items(shown) : tag_box[i] = 1 => MenuItems(shown)[i].target \in tag_files

\* The boxes made by create_menu are sound, and those it leaves are old.
LEMMA MadeBoxes ==
    ASSUME BoxInv, NEW f, NEW s, NEW P, NEW T, NEW up, create_menu(f, s, P, T, up)
    PROVE  BoxInv' /\ (stale' = 0 => Checked')
<1>1. CASE f \in present' /\ shown' = f /\ tag_box' = Box(f, tag_files')
  <2>1. /\ tag_box' \in [Items(f) -> {0, 1, 255}]
        /\ \A i \in Items(f) : tag_box'[i] # 255 => MenuItems(f)[i].kind = "tag"
        /\ \A i \in Items(f) : tag_box'[i] = 1 => MenuItems(f)[i].target \in tag_files'
    <3> DEFINE box == Box(f, tag_files')
    <3>1. /\ box \in [Items(f) -> {0, 1, 255}]
          /\ \A i \in Items(f) : box[i] # 255 => MenuItems(f)[i].kind = "tag"
          /\ \A i \in Items(f) : box[i] = 1 => MenuItems(f)[i].target \in tag_files'
      BY Zenon, BoxFits
    <3> QED
      BY Zenon, <1>1, <3>1
  <2>2. Items(shown') = Items(f) /\ MenuItems(shown') = MenuItems(f)
    BY Zenon, <1>1
  <2>3. BoxInv'
    BY Zenon, <2>1, <2>2 DEF BoxInv, Items
  <2>4. Checked'
    BY Zenon, <2>1, <2>2 DEF Checked, Items
  <2> QED
    BY Zenon, <2>3, <2>4
<1>2. CASE shown' = shown /\ tag_box' = tag_box /\ stale' = 1
  <2>1. BoxInv'
    BY Zenon, <1>2 DEF BoxInv, Items
  <2>2. stale' # 0
    BY <1>2
  <2> QED
    BY Zenon, <2>1, <2>2
<1> QED
  BY Zenon, <1>1, <1>2, MenuMade

\* Every step keeps the boxes sound.
LEMMA BoxStep ==
    ASSUME OneItemPerTag, StackInv, BoxInv, stale = 0 => Checked, [MenusNext]_menusVars
    PROVE  BoxInv' /\ (stale' = 0 => Checked')
<1>1. ASSUME UNCHANGED <<shown, tag_box>>, stale' = 1 \/ UNCHANGED <<stale, tag_files>>
      PROVE  BoxInv' /\ (stale' = 0 => Checked')
  <2>1. BoxInv'
    BY Zenon, <1>1 DEF BoxInv, Items
  <2>2. CASE stale' = 1
    <3>1. stale' # 0
      BY <2>2
    <3> QED BY Zenon, <2>1, <3>1
  <2>3. CASE UNCHANGED <<stale, tag_files>>
    BY Zenon, <1>1, <2>1, <2>3 DEF Checked, Items
  <2> QED
    BY Zenon, <1>1, <2>2, <2>3
<1>2. ASSUME Refresh
      PROVE  BoxInv' /\ (stale' = 0 => Checked')
  <2>1. PICK P, T : create_menu(menu_files[menu_level], menu_scripts[menu_level], P, T, FALSE)
    BY Zenon, <1>2 DEF Refresh
  <2> QED
    BY Zenon, <2>1, MadeBoxes
<1>3. ASSUME NEW st, OpenMenu(st)
      PROVE  BoxInv' /\ (stale' = 0 => Checked')
  BY Zenon, <1>3, MadeBoxes DEF OpenMenu
<1>4. CASE ItemTag
  <2> DEFINE it(i) == MenuItems(shown)[i]
             k == selected
  <2>1. /\ k \in Items(shown) /\ Item = it(k) /\ it(k).kind = "tag" /\ shown \in MenuFiles
        /\ shown' = shown /\ stale' = stale
    BY Zenon, <1>4 DEF ItemTag, Choose, Item, StackInv, MenusTypeOK
  <2>2. tag_box \in [Items(shown) -> {0, 1, 255}] /\
        \A i \in Items(shown) : tag_box[i] # 255 => it(i).kind = "tag"
    BY Zenon DEF BoxInv
  <2>3. CASE UNCHANGED <<tag_files, tag_box>>
    BY Zenon, <1>1, <2>1, <2>3
  <2>4. CASE tag_files' = tag_files \cup {it(k).target} /\ tag_box' = [tag_box EXCEPT ![k] = 1]
    <3>1. BoxInv'
      BY <2>1, <2>2, <2>4 DEF BoxInv, Items
    <3>2. stale' = 0 => Checked'
      BY ZenonT(30), <2>1, <2>2, <2>4 DEF Checked, Items
    <3> QED
      BY ZenonT(30), <3>1, <3>2
  <2>5. CASE /\ tag_files' \in {tag_files, tag_files \ {it(k).target}}
             /\ tag_box' = [tag_box EXCEPT ![k] = 0]
    <3>1. BoxInv'
      BY <2>1, <2>2, <2>5 DEF BoxInv, Items
    <3>2. stale' = 0 => Checked'
      <4>1. ASSUME NEW i \in Items(shown), tag_box'[i] = 1, stale = 0
            PROVE  it(i).target \in tag_files'
        <5>1. i # k /\ tag_box[i] = 1
          BY <2>1, <2>2, <2>5, <4>1
        <5>2. it(i).kind = "tag"
          <6>1. tag_box[i] # 255
            BY <5>1
          <6> QED BY Zenon, <2>2, <6>1
        <5>3. it(i).target # it(k).target
          BY Zenon, <2>1, <5>1, <5>2 DEF OneItemPerTag
        <5>4. it(i).target \in tag_files
          BY Zenon, <4>1, <5>1 DEF Checked
        <5> QED
          BY ZenonT(30), <2>5, <5>3, <5>4
      <4> QED
        BY Zenon, <2>1, <4>1 DEF Checked, Items
    <3> QED
      BY Zenon, <3>1, <3>2
  <2> QED
    BY Zenon, <1>4, <2>1, <2>3, <2>4, <2>5 DEF ItemTag
<1>5. CASE MenuOpen \/ Press \/ Move \/ ItemExit \/ ItemStay \/ ItemTooDeep \/ BrowseDown
           \/ UNCHANGED menusVars
  <2>1. UNCHANGED shownVars
    BY Zenon, <1>5 DEF MenuOpen, Press, Move, Highlight, ItemExit, ItemStay, ItemTooDeep,
       BrowseDown, menusVars
  <2> QED
    BY Zenon, <1>1, <2>1 DEF shownVars, worldVars
<1>6. CASE ItemScript
  BY Zenon, <1>2, <1>6 DEF ItemScript
<1>7. CASE ItemUp \/ ItemNewMenu \/ ItemNewMenuScripted
  BY Zenon, <1>3, <1>7 DEF ItemUp, ItemNewMenu, ItemNewMenuScripted
<1>8. CASE ItemDirectory \/ BrowseUp
  <2>1. Refresh \/ UNCHANGED shownVars
    BY Zenon, <1>8 DEF ItemDirectory, BrowseUp
  <2> QED
    BY Zenon, <1>1, <1>2, <2>1 DEF shownVars, worldVars
<1>9. CASE BrowseRun
  BY Zenon, <1>1, <1>9 DEF BrowseRun
<1> QED
  BY Zenon, <1>4, <1>5, <1>6, <1>7, <1>8, <1>9 DEF MenusNext, script_directory, update_directory

-----------------------------------------------------------------------------
(***************************************************************************)
(* The theorems.                                                           *)
(***************************************************************************)

\* The recovery starts with the main menu.
LEMMA MenusStart ==
    ASSUME MenusInit
    PROVE  StackInv /\ HighlightSelectable /\ DirsInv /\ BrowseDescends /\ BoxInv /\ Checked
<1>1. 0 \in Levels /\ \A l \in Levels : l <= 0 <=> l = 0
  BY MenusAssumption DEF Levels
<1>2. MainMenu \in MenuFiles /\ 1 \in Int /\ 0 \in Int
  BY MenusAssumption
<1>3. mpc = "loop" /\ mpc # "menu" /\ mpc # "up" /\ mpc # "down" /\ mpc # "browse" /\ mpc \in MenuPcs
  BY DEF MenusInit, MenuPcs
<1>4. MenusTypeOK
  BY Zenon, <1>1, <1>2, <1>3 DEF MenusInit, MenusTypeOK
<1>5. ShownIsCurrent
  BY Zenon, <1>1, <1>2 DEF MenusInit, ShownIsCurrent
<1>6. BoxInv /\ Checked
  <2> DEFINE box == Box(MainMenu, {})
  <2>1. /\ box \in [Items(MainMenu) -> {0, 1, 255}]
        /\ \A i \in Items(MainMenu) : box[i] # 255 => MenuItems(MainMenu)[i].kind = "tag"
        /\ \A i \in Items(MainMenu) : box[i] = 1 => MenuItems(MainMenu)[i].target \in {}
    BY Zenon, BoxFits
  <2>2. tag_box = box /\ shown = MainMenu /\ tag_files = {}
    BY Zenon DEF MenusInit
  <2> QED
    BY Zenon, <2>1, <2>2 DEF BoxInv, Checked
<1>7. DirsInv
  <2>1. dirs = <<>>
    BY Zenon DEF MenusInit
  <2> QED BY <1>3, <2>1 DEF DirsInv
<1>8. BrowseDescends
  BY DEF MenusInit, BrowseDescends
<1> QED
  BY ZenonT(30), <1>3, <1>4, <1>5, <1>6, <1>7, <1>8 DEF StackInv, HighlightSelectable

\* The stack is what the user sees, whatever the menu files say and whenever
\* they disappear: the items on the screen are those of the menu on its top
\* unless a ".." has failed, and nothing is left above the top.
THEOREM ShownIsCurrentCorrect == MenusSpec => []ShownIsCurrent
<1>1. MenusInit => StackInv
  BY Zenon, MenusStart
<1>2. StackInv /\ [MenusNext]_menusVars => StackInv'
  BY Zenon, StackStep
<1>3. StackInv => ShownIsCurrent
  BY Zenon DEF StackInv
<1> QED
  BY <1>1, <1>2, <1>3, PTL DEF MenusSpec

\* While the user can act the highlight is on an item that can be chosen, if
\* the menu has one.
THEOREM HighlightSelectableCorrect == MenusSpec => []HighlightSelectable
<1> DEFINE IInv == StackInv /\ HighlightSelectable
<1>1. MenusInit => IInv
  BY Zenon, MenusStart
<1>2. IInv /\ [MenusNext]_menusVars => IInv'
  BY Zenon, StackStep, HighlightStep
<1>3. IInv => HighlightSelectable
  BY Zenon
<1> HIDE DEF IInv
<1> QED
  BY <1>1, <1>2, <1>3, PTL DEF MenusSpec

\* How many rounds of the loop of HIGHLIGHT_UP or HIGHLIGHT_DOWN item i is away
\* from item s of n, all the way round for s itself.
Away(dir, n, s, i) ==
    IF dir = "down" THEN (IF i > s THEN i - s ELSE (n - s) + i)
                    ELSE (IF i < s THEN s - i ELSE s + (n - i))

\* A round of the loop reaches item i or comes closer to it.
LEMMA RoundCloser ==
    ASSUME NEW n \in Nat \ {0}, NEW s \in 1 .. n, NEW i \in 1 .. n
    PROVE  /\ \A dir : Away(dir, n, s, i) \in 1 .. n
           /\ NextItem(n, s) = i \/ Away("down", n, NextItem(n, s), i) < Away("down", n, s, i)
           /\ PrevItem(n, s) = i \/ Away("up", n, PrevItem(n, s), i) < Away("up", n, s, i)
<1>1. n \in Int /\ s \in Int /\ i \in Int /\ 1 <= s /\ s <= n /\ 1 <= i /\ i <= n
  OBVIOUS
<1>2. \A dir : Away(dir, n, s, i) \in 1 .. n
  BY <1>1 DEF Away
<1>3. NextItem(n, s) = i \/ Away("down", n, NextItem(n, s), i) < Away("down", n, s, i)
  BY <1>1 DEF Away, NextItem
<1>4. PrevItem(n, s) = i \/ Away("up", n, PrevItem(n, s), i) < Away("up", n, s, i)
  BY <1>1 DEF Away, PrevItem
<1> QED
  BY Zenon, <1>2, <1>3, <1>4

\* A round of the loop ends it, or comes closer to each item that can be chosen.
MoveShortens ==
    [][Move => \A i \in Items(shown) : Selectable(shown, i) =>
                  LET n == Len(MenuItems(shown))
                  IN  /\ Away(mpc, n, selected, i) \in 1 .. n
                      /\ \/ mpc' = "menu"
                         \/ /\ shown' = shown /\ mpc' = mpc
                            /\ Away(mpc, n, selected', i) < Away(mpc, n, selected, i)]_menusVars

\* The loop that skips the items that cannot be chosen ends after as many rounds
\* as the menu has items, in both directions, if there is one that can.
THEOREM MovesShorten == MenusSpec => MoveShortens
<1> DEFINE n == Len(MenuItems(shown))
           Closer(i) == /\ Away(mpc, n, selected, i) \in 1 .. n
                        /\ \/ mpc' = "menu"
                           \/ /\ shown' = shown /\ mpc' = mpc
                              /\ Away(mpc, n, selected', i) < Away(mpc, n, selected, i)
<1>1. ASSUME StackInv, Move, NEW i \in Items(shown), Selectable(shown, i)
      PROVE  Closer(i)
  <2>1. mpc \in {"up", "down"} /\ Highlight(mpc) /\ selected \in 1 .. n /\ i \in 1 .. n
    BY Zenon, <1>1 DEF Move, StackInv, MenusTypeOK, Items
  <2>2. n \in Nat \ {0}
    BY Zenon, <1>1, ItemsFit DEF StackInv, MenusTypeOK
  <2>3. /\ selected' = IF mpc = "down" THEN NextItem(n, selected) ELSE PrevItem(n, selected)
        /\ mpc' = IF Selectable(shown, selected') THEN "menu" ELSE mpc
        /\ shown' = shown
    BY Zenon, <2>1 DEF Highlight, shownVars
  <2> HIDE DEF n
  <2>4. CASE mpc = "down"
    <3>1. selected' = i \/ Away("down", n, selected', i) < Away("down", n, selected, i)
      BY Zenon, <2>1, <2>2, <2>3, <2>4, RoundCloser
    <3> QED
      BY Zenon, <1>1, <2>1, <2>2, <2>3, <2>4, <3>1, RoundCloser
  <2>5. CASE mpc = "up"
    <3>1. "up" # "down"
      OBVIOUS
    <3>2. selected' = i \/ Away("up", n, selected', i) < Away("up", n, selected, i)
      BY Zenon, <2>1, <2>2, <2>3, <2>5, <3>1, RoundCloser
    <3> QED
      BY Zenon, <1>1, <2>1, <2>2, <2>3, <2>5, <3>2, RoundCloser
  <2> QED
    BY Zenon, <2>1, <2>4, <2>5
<1>2. StackInv =>
        [Move => \A i \in Items(shown) : Selectable(shown, i) => Closer(i)]_menusVars
  BY Zenon, <1>1
<1>3. MenusInit => StackInv
  BY Zenon, MenusStart
<1>4. StackInv /\ [MenusNext]_menusVars => StackInv'
  BY Zenon, StackStep
<1> QED
  BY <1>2, <1>3, <1>4, PTL DEF MenusSpec, MoveShortens

\* The browsing calls go down the tree, except from a directory in which a
\* package sorts before "../".
THEOREM BrowseDescendsCorrect == MenusSpec => []BrowseDescends
<1> DEFINE IInv == DirsInv /\ BrowseDescends
<1>1. MenusInit => IInv
  BY Zenon, MenusStart
<1>2. IInv /\ [MenusNext]_menusVars => IInv'
  BY Zenon, DirsStep
<1>3. IInv => BrowseDescends
  BY Zenon
<1> HIDE DEF IInv
<1> QED
  BY <1>1, <1>2, <1>3, PTL DEF MenusSpec

\* In menus without two items for one tag, a box that is checked stands for a
\* tag file that exists, until a script runs behind the menu's back.
THEOREM TagBoxSoundCorrect == OneItemPerTag /\ MenusSpec => []TagBoxSound
<1> DEFINE IInv == OneItemPerTag /\ StackInv /\ BoxInv /\ (stale = 0 => Checked)
<1>1. OneItemPerTag /\ MenusInit => IInv
  BY Zenon, MenusStart
<1>2. IInv /\ [MenusNext]_menusVars => IInv'
  <2> SUFFICES ASSUME IInv, [MenusNext]_menusVars
               PROVE  IInv'
    BY Zenon
  <2>1. OneItemPerTag'
    BY Zenon DEF OneItemPerTag, Items
  <2> QED
    BY Zenon, <2>1, StackStep, BoxStep
<1>3. IInv => TagBoxSound
  <2> SUFFICES ASSUME IInv
               PROVE  TagBoxSound
    BY Zenon
  <2>1. Len(MenuItems(shown)) \in Nat
    BY ItemsFit DEF StackInv, MenusTypeOK
  <2>2. tag_box \in [1 .. Len(MenuItems(shown)) -> {0, 1, 255}]
    BY Zenon DEF BoxInv, Items
  <2>3. Len(tag_box) = Len(MenuItems(shown))
    BY <2>1, <2>2
  <2> QED
    BY Zenon, <2>3 DEF TagBoxSound, Checked, Items
<1> HIDE DEF IInv
<1> QED
  BY <1>1, <1>2, <1>3, PTL DEF MenusSpec

=============================================================================
