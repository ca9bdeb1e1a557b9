------------------------------ MODULE Dialogue ------------------------------
(***************************************************************************)
(* What imenu and iinput promise a shell script: it asks one question at a *)
(* time, each question gets one answer of the user, given to that          *)
(* question, and the script receives it.                                   *)
(***************************************************************************)
EXTENDS Integers, Sequences

CONSTANTS
    Kinds,    \* kinds of questions
    Answers   \* what the user can answer

VARIABLES
    asked,     \* the questions, by their kinds
    answered,  \* the answers, each with the number of its question
    received   \* what came back to the script

talk == <<asked, answered, received>>

Ask(k) ==
    /\ Len(received) = Len(asked) /\ asked' = Append(asked, k)
    /\ UNCHANGED <<answered, received>>

Answer(a) ==
    /\ Len(answered) < Len(asked) /\ answered' = Append(answered, <<Len(asked), a>>)
    /\ UNCHANGED <<asked, received>>

Receive ==
    /\ Len(received) < Len(answered) /\ received' = answered
    /\ UNCHANGED <<asked, answered>>

DialogueInit == asked = <<>> /\ answered = <<>> /\ received = <<>>

DialogueNext ==
    \/ \E k \in Kinds : Ask(k)
    \/ \E a \in Answers : Answer(a)
    \/ Receive

\* Nothing is said out of turn.
DialogueSafety == DialogueInit /\ [][DialogueNext]_talk

\* And no question stays open.
DialogueSpec ==
    /\ DialogueSafety
    /\ WF_talk(\E a \in Answers : Answer(a)) /\ WF_talk(Receive)

=============================================================================
