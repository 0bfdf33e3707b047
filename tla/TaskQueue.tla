----------------------------- MODULE TaskQueue -----------------------------
(***************************************************************************)
(* What the delayed tasks of the gateway promise: a task that was asked    *)
(* for stays until it is run, is run when the time last given for it has   *)
(* passed and not before, in the order of these times, and late by at most *)
(* MaxLate.  GatewayLoop is shown to implement it with a list, a single    *)
(* timer and handlers that block.                                          *)
(***************************************************************************)
EXTENDS Integers

CONSTANTS
    Tasks,
    Delays,     \* how far ahead a task is asked for
    MaxLate     \* bound: how late a task is run

VARIABLE left   \* by task asked for: the time until it is to run

Asked == DOMAIN left

Init ==
    \E t \in Tasks : \E d \in Delays : \E n \in -MaxLate .. d : left = [u \in {t} |-> n]

\* A task is asked for, or asked for at another time.
Ask(t, n) == left' = [u \in Asked \cup {t} |-> IF u = t THEN n ELSE left[u]]

\* The first of the tasks that are due leaves to be run.
Run(t) ==
    /\ t \in Asked /\ left[t] <= 0
    /\ \A u \in Asked : left[t] <= left[u]
    /\ left' = [u \in Asked \ {t} |-> left[u]]

Pass ==
    /\ \A t \in Asked : left[t] > -MaxLate
    /\ left' = [t \in Asked |-> left[t] - 1]

Next ==
    \/ \E t \in Tasks : \E n \in Delays : Ask(t, n)
    \/ \E t \in Tasks : Run(t)
    \/ Pass

Spec == Init /\ [][Next]_left
=============================================================================
