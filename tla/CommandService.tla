--------------------------- MODULE CommandService ---------------------------
(***************************************************************************)
(* What the authentication relay promises its callers: a command that       *)
(* changes something runs at most once; an answer that reports its result   *)
(* is given after it ran; a command whose caller was told that it was       *)
(* refused has not run and never will; "uncertain" promises nothing.        *)
(***************************************************************************)
EXTENDS Naturals

CONSTANTS Commands, Reads

VARIABLES
    runs,   \* how often a command was dispatched
    answer  \* what its caller was told, "none" before

vars == <<runs, answer>>

Answers == {"result", "error", "refused", "uncertain"}

Init ==
    /\ runs = [c \in Commands |-> 0]
    /\ answer = [c \in Commands |-> "none"]

Run(c) ==
    /\ c \in Reads \/ runs[c] = 0
    /\ answer[c] # "refused"
    /\ runs' = [runs EXCEPT ![c] = 1]
    /\ UNCHANGED answer

Answer(c, a) ==
    /\ answer[c] = "none"
    /\ a = "result" => runs[c] > 0
    /\ a = "refused" => runs[c] = 0
    /\ answer' = [answer EXCEPT ![c] = a]
    /\ UNCHANGED runs

Next == \E c \in Commands : Run(c) \/ \E a \in Answers : Answer(c, a)

Spec == Init /\ [][Next]_vars
=============================================================================
