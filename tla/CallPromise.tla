----------------------------- MODULE CallPromise -----------------------------
(***************************************************************************)
(* What the adapter's code relies on when it runs a blocking function      *)
(* through offload(): the contract the comments of _offload.py and the     *)
(* "indeterminate" results are written against.                            *)
(*                                                                         *)
(* A call has one side effect (a database commit, a published message).    *)
(* It lands at most once.  A definite answer ("ok", "error") is given only *)
(* when the function has ended, so nothing can land after it, and "ok"     *)
(* means it landed.  The answer "unknown" promises neither: the effect may *)
(* have landed, may land later, or may never land.                         *)
(***************************************************************************)
EXTENDS Naturals

CONSTANT Calls

VARIABLES answer,  \* what the awaiting coroutine has been told
          ended,   \* whether the function can still do anything
          landed   \* how often the side effect has happened

vars == <<answer, ended, landed>>

Init ==
    /\ answer = [c \in Calls |-> "idle"]
    /\ ended  = [c \in Calls |-> FALSE]
    /\ landed = [c \in Calls |-> 0]

Begin(c) ==
    /\ answer[c] = "idle"
    /\ answer' = [answer EXCEPT ![c] = "open"]
    /\ UNCHANGED <<ended, landed>>

Land(c) ==
    /\ answer[c] \in {"open", "unknown"}
    /\ ~ended[c]
    /\ landed[c] = 0
    /\ landed' = [landed EXCEPT ![c] = 1]
    /\ UNCHANGED <<answer, ended>>

End(c) ==
    /\ answer[c] \in {"open", "unknown"}
    /\ ended' = [ended EXCEPT ![c] = TRUE]
    /\ UNCHANGED <<answer, landed>>

AnswerDefinitely(c) ==
    /\ answer[c] = "open"
    /\ ended[c]
    /\ \/ landed[c] = 1 /\ answer' = [answer EXCEPT ![c] = "ok"]
       \/ answer' = [answer EXCEPT ![c] = "error"]
    /\ UNCHANGED <<ended, landed>>

\* The wait is given up.  A function that has not started by then never will.
GiveUp(c) ==
    /\ answer[c] = "open"
    /\ answer' = [answer EXCEPT ![c] = "unknown"]
    /\ ended' \in {ended, [ended EXCEPT ![c] = TRUE]}
    /\ UNCHANGED landed

Next == \E c \in Calls :
    Begin(c) \/ Land(c) \/ End(c) \/ AnswerDefinitely(c) \/ GiveUp(c)

Spec == Init /\ [][Next]_vars
==============================================================================
