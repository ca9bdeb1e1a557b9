------------------------------ MODULE Scripts ------------------------------
(***************************************************************************)
(* run_shell_script (install.c) and the programs a script asks the user    *)
(* with, imenu and iinput.  The script's output comes through a pipe that  *)
(* recovery polls; the questions go through a page of shared memory that   *)
(* both sides poll, in_trigger one way and out_trigger the other.          *)
(*                                                                         *)
(* A script runs one imenu or iinput at a time and waits for it.  Output   *)
(* is counted in units of which one read takes at most ReadMax.            *)
(***************************************************************************)
EXTENDS Integers, Sequences

CONSTANTS
    ItemCounts,    \* numbers of items a menu is called with
    Slots,         \* items in the shared page, 20 in the code
    Texts,         \* what the user can type
    MaxQuestions,  \* bound on the questions of the script
    MaxOutput,     \* bound on its output
    ReadMax,       \* what one read takes, 1024 bytes in the code
    PipeMax        \* what the pipe holds

ASSUME ScriptsAssumption ==
    /\ ItemCounts \subseteq 1 .. Slots - 1 /\ Slots \in Nat
    /\ MaxQuestions \in Nat /\ MaxOutput \in Nat /\ ReadMax \in Nat \ {0} /\ PipeMax \in Nat \ {0}
    /\ 0 \notin Texts

Text == 0   \* the kind of a question that iinput asks; a menu's is its size

VARIABLES
    runner,       \* where run_shell_script is
    has_qwerty,
    chosen,       \* chosen_item + 1
    in_trigger, out_trigger, header, items, reply,   \* the shared page
    script,       \* "running", or where its imenu or iinput is, or "exited"
    written, printed,  \* output of the script, and how much is on the screen
    last_read,    \* what the last read took
    asked, answered, received  \* history: see Dialogue

pageVars   == <<in_trigger, out_trigger, header, items, reply>>
outputVars == <<written, printed, last_read>>
askVars    == <<asked, answered, received>>
scriptVars == <<runner, has_qwerty, chosen, pageVars, script, outputVars, askVars>>

Question == Len(asked)
Kind     == asked[Question]

-----------------------------------------------------------------------------
(***************************************************************************)
(* The script.                                                             *)
(***************************************************************************)
ScriptPrints ==
    /\ script = "running" /\ written < MaxOutput /\ written - printed < PipeMax
    /\ written' = written + 1
    /\ UNCHANGED <<runner, has_qwerty, chosen, pageVars, script, printed, last_read, askVars>>

ScriptAsks ==
    /\ script = "running" /\ Question < MaxQuestions
    /\ \E k \in ItemCounts \cup {Text} : asked' = Append(asked, k)
    /\ script' = "write"
    /\ UNCHANGED <<runner, has_qwerty, chosen, pageVars, outputVars, answered, received>>

ScriptExits ==
    /\ script = "running" /\ script' = "exited"
    /\ UNCHANGED <<runner, has_qwerty, chosen, pageVars, outputVars, askVars>>

\* imenu writes its header and items, and the terminator two places after the
\* end; iinput clears the reply and the first item.
AskWrite ==
    /\ script = "write" /\ script' = "reset" /\ header' = Question
    /\ \/ /\ Kind # Text
          /\ items' = [i \in 1 .. Slots |-> IF i <= Kind THEN Question
                                            ELSE IF i = Kind + 3 THEN 0 ELSE items[i]]
          /\ UNCHANGED reply
       \/ /\ Kind = Text /\ items' = [items EXCEPT ![1] = 0] /\ reply' = 0
    /\ UNCHANGED <<runner, has_qwerty, chosen, in_trigger, out_trigger, outputVars, askVars>>

\* Mutant: the return trigger is not reset.
AskReset_Mutant ==
    /\ script = "reset" /\ script' = "trigger"
    /\ UNCHANGED <<runner, has_qwerty, chosen, pageVars, outputVars, askVars>>

AskReset ==
    /\ script = "reset" /\ script' = "trigger" /\ out_trigger' = 0
    /\ UNCHANGED <<runner, has_qwerty, chosen, in_trigger, header, items, reply, outputVars, askVars>>

AskTrigger ==
    /\ script = "trigger" /\ script' = "poll" /\ in_trigger' = (IF Kind = Text THEN 2 ELSE 1)
    /\ UNCHANGED <<runner, has_qwerty, chosen, out_trigger, header, items, reply, outputVars, askVars>>

\* Polling ends when there is a response; it is printed to the script.
AskPoll ==
    /\ script = "poll" /\ out_trigger # 0 /\ script' = "running"
    /\ received' = Append(received, <<Question, IF Kind = Text THEN reply ELSE out_trigger - 1>>)
    /\ UNCHANGED <<runner, has_qwerty, chosen, pageVars, outputVars, asked, answered>>

imenu == AskWrite \/ AskReset \/ AskTrigger \/ AskPoll

-----------------------------------------------------------------------------
(***************************************************************************)
(* run_shell_script, from the loop on.                                     *)
(***************************************************************************)
Available == written - printed

\* A read that does not block, and ui_print_raw.
ReadPipe ==
    /\ last_read' = (IF Available > ReadMax THEN ReadMax ELSE Available)
    /\ printed' = printed + last_read' /\ UNCHANGED written

\* A trigger: first print the rest.
RunLoop ==
    /\ runner = "loop"
    /\ \/ in_trigger # 0 /\ ReadPipe /\ runner' = "ask"
       \/ in_trigger = 0 /\ runner' = "read" /\ UNCHANGED outputVars
    /\ UNCHANGED <<has_qwerty, chosen, pageVars, script, askVars>>

\* The items up to the first empty one.
Shown == {i \in 1 .. Slots : \A j \in 1 .. i : items[j] # 0}

\* The user answers the question that is in the page, which is then cleared.
UserAnswers(a, response, text) ==
    /\ runner = "ask" /\ runner' = "lower"
    /\ answered' = Append(answered, <<header, a>>) /\ chosen' = response
    /\ header' = 0 /\ items' = [items EXCEPT ![1] = 0] /\ reply' = text
    /\ UNCHANGED <<has_qwerty, in_trigger, out_trigger, script, outputVars, asked, received>>

RunMenu == in_trigger = 1 /\ \E i \in Shown : UserAnswers(i - 1, i, 0)
RunText == in_trigger = 2 /\ has_qwerty /\ \E text \in Texts : UserAnswers(text, 1, text)
RunDefault == in_trigger = 2 /\ ~has_qwerty /\ UserAnswers(0, 1, 0)

RunLower ==
    /\ runner = "lower" /\ runner' = "raise" /\ in_trigger' = 0
    /\ UNCHANGED <<has_qwerty, chosen, out_trigger, header, items, reply, script, outputVars, askVars>>

RunRaise ==
    /\ runner = "raise" /\ runner' = "read" /\ out_trigger' = chosen
    /\ UNCHANGED <<has_qwerty, chosen, in_trigger, header, items, reply, script, outputVars, askVars>>

\* EAGAIN leads to waitpid.
RunRead ==
    /\ runner = "read"
    /\ \/ Available > 0 /\ ReadPipe /\ runner' = "loop"
       \/ Available = 0 /\ runner' = "waitpid" /\ UNCHANGED outputVars
    /\ UNCHANGED <<has_qwerty, chosen, pageVars, script, askVars>>

RunWaitpid ==
    /\ runner = "waitpid" /\ runner' = (IF script = "exited" THEN "last" ELSE "loop")
    /\ UNCHANGED <<has_qwerty, chosen, pageVars, script, outputVars, askVars>>

\* Mutant: no last check.
RunLast_Mutant ==
    /\ runner = "last" /\ runner' = "done"
    /\ UNCHANGED <<has_qwerty, chosen, pageVars, script, outputVars, askVars>>

\* "do one last check (race)".
RunLast ==
    /\ runner = "last" /\ runner' = "done" /\ ReadPipe
    /\ UNCHANGED <<has_qwerty, chosen, pageVars, script, askVars>>

User == RunMenu \/ RunText \/ RunDefault

run_shell_script ==
    RunLoop \/ User \/ RunLower \/ RunRaise \/ RunRead \/ RunWaitpid \/ RunLast

-----------------------------------------------------------------------------
ScriptsInit ==
    /\ runner = "loop" /\ has_qwerty \in BOOLEAN /\ chosen = 0
    /\ in_trigger = 0 /\ out_trigger = 0 /\ header = 0
    /\ items = [i \in 1 .. Slots |-> 0] /\ reply = 0
    /\ script = "running" /\ written = 0 /\ printed = 0 /\ last_read = 0
    /\ asked = <<>> /\ answered = <<>> /\ received = <<>>

ScriptsNext ==
    \/ ScriptPrints \/ ScriptAsks \/ ScriptExits
    \/ imenu \/ run_shell_script

\* Both processes run and the user answers; the script itself may hang.
ScriptsFairness == WF_scriptVars(imenu) /\ WF_scriptVars(run_shell_script)

ScriptsSpec == ScriptsInit /\ [][ScriptsNext]_scriptVars /\ ScriptsFairness

-----------------------------------------------------------------------------
(***************************************************************************)
(* Properties.                                                             *)
(***************************************************************************)
D == INSTANCE Dialogue WITH Kinds <- ItemCounts \cup {Text}, Answers <- Texts \cup 0 .. Slots

\* The two triggers, written and polled in that order by imenu or iinput and
\* by run_shell_script, implement the dialogue: no answer is lost, taken twice
\* or given to another question than the one the user saw, and every question
\* is answered.
AsksImplemented == D!DialogueSpec

\* When run_shell_script puts a question on the screen, or returns, all that
\* the script had printed before is on the screen, or at least the one read
\* made for it was full.
OutputPrinted == runner \in {"ask", "done"} => printed = written \/ last_read = ReadMax

=============================================================================
