----------------------------- MODULE PromptLife -----------------------------
(***************************************************************************)
(* What a session's prompt queue promises of every prompt it accepts: it   *)
(* waits until the operator withdraws it or the queue takes it; a taken    *)
(* prompt is delivered, or reported as dropped; and nothing that has       *)
(* happened to a prompt happens again.                                     *)
(***************************************************************************)
EXTENDS Naturals

CONSTANT MaxPrompts     \* bound: prompts the operator ever submits

Prompt == 1..MaxPrompts

VARIABLE fate           \* what has become of each prompt

Fate == {"unborn", "waiting", "taken", "withdrawn", "delivered", "dropped"}

Follows == {<<"unborn", "waiting">>, <<"waiting", "taken">>, <<"waiting", "withdrawn">>,
            <<"taken", "delivered">>, <<"taken", "dropped">>}

Init == fate = [p \in Prompt |-> "unborn"]

\* A submission that finds the session ready is one step of the queue and
\* another of its sender: each moves one prompt one step along.
Next == \E p \in Prompt, f \in Fate :
            /\ <<fate[p], f>> \in Follows
            /\ fate' = [fate EXCEPT ![p] = f]

Spec == Init /\ [][Next]_fate
=============================================================================
