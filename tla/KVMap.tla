------------------------------- MODULE KVMap -------------------------------
(***************************************************************************)
(* What the platform layer's key-value store promises: a map whose changes *)
(* are seen at once and become safe later, all of them together.  A crash  *)
(* takes the map back to what was safe, never to a mixture and never to    *)
(* less.  KVStore is shown to implement it with a file, a temporary file,  *)
(* a JSON tree and threads.                                                *)
(***************************************************************************)
CONSTANTS
    Keys,
    Contents    \* what a key may hold, one of them for "nothing"

VARIABLES
    seen,       \* what a caller reads
    safe        \* what is there after a crash

Maps == [Keys -> Contents]

Init == seen = safe /\ safe \in Maps

Change(k, v) ==
    /\ seen' = [seen EXCEPT ![k] = v]
    /\ UNCHANGED safe

Commit == safe' = seen /\ UNCHANGED seen

Crash == seen' = safe /\ UNCHANGED safe

Next ==
    \/ \E k \in Keys : \E v \in Contents : Change(k, v)
    \/ Commit
    \/ Crash

Spec == Init /\ [][Next]_<<seen, safe>>
=============================================================================
