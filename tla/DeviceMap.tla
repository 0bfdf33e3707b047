----------------------------- MODULE DeviceMap -----------------------------
(***************************************************************************)
(* What the table of sub-devices promises to the rest of the gateway: a    *)
(* map from device names to their state, changed one device at a time, or  *)
(* emptied as a whole.  SubDevices is shown to implement it with records,  *)
(* slots, a file and two threads.                                          *)
(***************************************************************************)
EXTENDS Integers, FiniteSets

CONSTANTS
    Names,      \* names of devices (their addresses)
    Capacity    \* devices the map can hold

VARIABLE device \* [Names -> States]

States == {"unknown", "offline", "online"}
Known  == {n \in Names : device[n] # "unknown"}

Empty == [n \in Names |-> "unknown"]

Init == device = Empty

\* A device enters the map offline, if there is room.
Enter(n) ==
    /\ n \notin Known
    /\ Cardinality(Known) < Capacity
    /\ device' = [device EXCEPT ![n] = "offline"]

\* A report of a known device's state.
Report(n) ==
    /\ n \in Known
    /\ \E state \in {"offline", "online"} : device' = [device EXCEPT ![n] = state]

Leave(n) ==
    /\ n \in Known
    /\ device' = [device EXCEPT ![n] = "unknown"]

Clear == device' = Empty

Next ==
    \/ \E n \in Names : Enter(n) \/ Report(n) \/ Leave(n)
    \/ Clear

Spec == Init /\ [][Next]_device
=============================================================================
