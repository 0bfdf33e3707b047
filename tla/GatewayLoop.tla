---------------------------- MODULE GatewayLoop ----------------------------
(***************************************************************************)
(* The main loop of the gateway: timers (timer.c), the queue of delayed    *)
(* tasks behind one of them (schedule.c), and what runs from them          *)
(* (afly.c): the relocking of a door five seconds after it was opened, the *)
(* periodic reading of the radio module's network data, and the one        *)
(* listing of the devices after the cloud connection comes up.             *)
(*                                                                         *)
(* A second thread, the linkkit library's, reports connection changes and  *)
(* deletes devices; the record of a device holds the queue link of its     *)
(* task.                                                                   *)
(*                                                                         *)
(* Times are relative: due and at say how far away a deadline is, and Tick *)
(* brings all of them nearer.  The blocking calls of the handlers make the *)
(* main thread miss deadlines, by at most MaxLate.                         *)
(***************************************************************************)
EXTENDS Integers, Sequences

CONSTANTS
    Devices,    \* door locks of the gateway
    Info,       \* the task gw_info_task
    Relock,     \* delay of subdev_timeout_func
    Retry,      \* delay of gw_info_func after a failure
    Period,     \* delay of gw_info_func after a success
    SyncDelay,  \* delay of the first listing
    MaxLate,    \* bound: how late a timer or a queued task is served
    Faults      \* which of AllFaults may happen

\* Connection changes; failing posts; deletion of a device whose relocking is
\* not pending; deletion of any device.
AllFaults == {"reconnect", "loss", "delete", "delete_pending"}

ASSUME InfoAssumption   == Info \notin Devices
ASSUME DelayAssumption  == {Relock, Retry, Period, SyncDelay, MaxLate} \subseteq Nat \ {0}
ASSUME FaultsAssumption == Faults \subseteq AllFaults

Tasks  == Devices \cup {Info}
Timers == {"task", "sync"}

VARIABLES
    main,       \* where the main thread is, and for which device
    armed,      \* timers in the list of timer.c
    at,         \* [Timers -> Int]: when an armed timer is to fire
    list,       \* the tasks of task_list, in its order
    due,        \* [Tasks -> Int]: start + delt of a task
    func,       \* [Tasks -> ...]: the function of a task
    status,     \* [Devices -> 0..1]: sd->aset.lock.lock_status
    cloud,      \* [Devices -> 0..1]: LockState as the cloud has it
    lost,       \* history: devices whose last LockState 0 did not get through
    opened,     \* history: time since the relocking of a device was asked for
    connected,  \* gw->connected
    changed     \* afly_connect_change_on

vars == <<main, armed, at, list, due, func, status, cloud, lost, opened, connected, changed>>

At(pc)     == [pc |-> pc, dev |-> Info]
In(pc, d)  == [pc |-> pc, dev |-> d]
Places     == [pc : {"timers", "poll", "info", "dead"}, dev : {Info}]
              \cup [pc : {"opening", "notifying", "relocking"}, dev : Devices]
Delays     == {Relock, Retry, Period, SyncDelay}
Zero       == -MaxLate - 1  \* the deadline of a zeroed task: before every other
Within(n)  == n \in Int /\ Zero <= n /\ \E d \in Delays : n <= d
Nearer(n)  == IF n > -MaxLate THEN n - 1 ELSE n
NotPast(n) == IF n < 0 THEN 0 ELSE n

Queued == {list[i] : i \in 1..Len(list)}

---------------------------------------------------------------------------
(* schedule.c                                                              *)

\* A slip: the task queued first is taken for the one due first.
FirstQueued(t, l, d) == l # <<>> /\ t = l[1]

\* schedue_first_task_to_exec: of the tasks due first the last in the list.
IsFirst(t, l, d) ==
    \E i \in 1..Len(l) :
        /\ t = l[i]
        /\ \A j \in 1..Len(l) : d[t] < d[l[j]] \/ (d[t] = d[l[j]] /\ j <= i)

\* A slip: the link is not searched for before it is appended.
QueueTwice(t) == list' = Append(list, t)

\* The list part of schedue_add: a task is linked once.
Queue(t) == list' = IF t \in Queued THEN list ELSE Append(list, t)

\* A slip: a task that is queued keeps its time.
PutOnce(t, ms, f) ==
    /\ Queue(t)
    /\ due' = IF t \in Queued THEN due ELSE [due EXCEPT ![t] = ms]
    /\ func' = [func EXCEPT ![t] = f]

\* A slip: the function is left as the record has it.
PutBare(t, ms, f) ==
    /\ Queue(t)
    /\ due' = [due EXCEPT ![t] = ms]
    /\ UNCHANGED func

\* schedue_add: a task that is queued already gets the new time.
Put(t, ms, f) ==
    /\ Queue(t)
    /\ due' = [due EXCEPT ![t] = ms]
    /\ func' = [func EXCEPT ![t] = f]

\* A slip: the tasks behind the one unlinked are lost.
DropRest(t) == \E i \in 1..Len(list) : list[i] = t /\ list' = SubSeq(list, 1, i - 1)

\* schedue_del
Drop(t) ==
    \E i \in 1..Len(list) :
        /\ list[i] = t
        /\ list' = SubSeq(list, 1, i - 1) \o SubSeq(list, i + 1, Len(list))

---------------------------------------------------------------------------
(* timer.c, for the timer of the tasks.                                    *)

\* A slip: the timer is set for the task just added.
ArmForNewest ==
    /\ armed' = armed \cup {"task"}
    /\ at' = [at EXCEPT !["task"] = NotPast(due'[list'[Len(list')]])]

\* A slip: the timer is not set again.
ForgetArm == UNCHANGED <<armed, at>>

\* schedue_first_task_delay and timer_set, on the queue as it is now: the timer
\* is set anew, and is left off when no task is queued.
Arm ==
    IF list' = <<>>
    THEN UNCHANGED <<armed, at>>
    ELSE /\ armed' = armed \cup {"task"}
         /\ \E t \in Tasks : /\ IsFirst(t, list', due')
                             /\ at' = [at EXCEPT !["task"] = NotPast(due'[t])]

Due(t) == /\ t \in armed
          /\ at[t] <= 0
          /\ \A u \in armed : at[t] <= at[u]

Disarm(t) == armed' = armed \ {t} /\ at' = [at EXCEPT ![t] = 0]

\* afly_init has returned: the cloud is connected, though the handler of that
\* event may still have to raise the flag, and waiting for it took any time.
Init ==
    /\ main = At("timers")
    /\ armed = Timers
    /\ \E n \in -MaxLate .. Retry :
         /\ at = [t \in Timers |-> IF t = "task" THEN n ELSE SyncDelay]
         /\ due = [t \in Tasks |-> IF t = Info THEN n ELSE Zero]
    /\ list = <<Info>>
    /\ func = [t \in Tasks |-> IF t = Info THEN "gw_info" ELSE "null"]
    /\ status = [d \in Devices |-> 0]
    /\ cloud = [d \in Devices |-> 0]
    /\ lost = {}
    /\ opened = [d \in Devices |-> Relock]
    /\ connected = TRUE
    /\ changed \in BOOLEAN

---------------------------------------------------------------------------
(* The main thread between two handlers: run_main, timer_advance.          *)

\* No timer is due: wait in file_event_poll.
EnterPoll ==
    /\ main = At("timers")
    /\ ~ \E t \in Timers : Due(t)
    /\ main' = At("poll")
    /\ UNCHANGED <<armed, at, list, due, func, status, cloud, lost, opened, connected, changed>>

\* The poll times out at the next timer's time.
PollTimesOut ==
    /\ main = At("poll")
    /\ \E t \in armed : at[t] <= 0
    /\ main' = At("timers")
    /\ UNCHANGED <<armed, at, list, due, func, status, cloud, lost, opened, connected, changed>>

\* afly_handler_sync_list_run.  Its last run was at time 0, so that it always takes
\* up the flag; it asks for the list if connected.  Nothing sets its timer again.
SyncList ==
    /\ main = At("timers")
    /\ Due("sync")
    /\ Disarm("sync")
    /\ changed' = FALSE
    /\ UNCHANGED <<main, list, due, func, status, cloud, lost, opened, connected>>

\* afly_handler_task_run up to the blocking call of the task's function.  A
\* task without a function is a call of the null pointer.  The handler also has
\* a branch for a timer that fires before any task is due: TimerCoversQueue says
\* that it is never taken.
RunTask ==
    /\ main = At("timers")
    /\ Due("task")
    /\ \E t \in Queued :
         /\ IsFirst(t, list, due)
         /\ due[t] <= 0
         /\ Drop(t)
         /\ CASE func[t] = "gw_info" -> main' = At("info") /\ UNCHANGED status
              [] func[t] = "relock"  -> main' = In("relocking", t)
                                        /\ status' = [status EXCEPT ![t] = 0]
              [] func[t] = "null"    -> main' = At("dead") /\ UNCHANGED status
    /\ Disarm("task")
    /\ UNCHANGED <<due, func, cloud, lost, opened, connected, changed>>

\* linkkit_gateway_post_property_json_sync: its result is logged, no more.
Posted(d, n) ==
    \/ /\ cloud' = [cloud EXCEPT ![d] = n]
       /\ lost' = lost \ {d}
    \/ /\ "loss" \in Faults
       /\ lost' = IF n = 0 THEN lost \cup {d} ELSE lost
       /\ UNCHANGED cloud

\* subdev_timeout_func has posted LockState 0; afly_handler_task_run goes on.
Relocked ==
    /\ main.pc = "relocking"
    /\ Posted(main.dev, 0)
    /\ main' = At("timers")
    /\ UNCHANGED <<list, due, func, status, opened, connected, changed>>
    /\ Arm

\* gw_info_func: reading fails or not, new values are posted, the task is
\* queued again; afly_handler_task_run then sets the timer once more.
InfoRead ==
    /\ main.pc = "info"
    /\ \E delay \in {Retry, Period} : Put(Info, delay, "gw_info")
    /\ Arm
    /\ main' = At("timers")
    /\ UNCHANGED <<status, cloud, lost, opened, connected, changed>>

---------------------------------------------------------------------------
(* The main thread: a door is opened, by a password or on request.         *)

\* EVENT_NXP_CHECK_RECORD with pass 1, EVENT_NXP_ADD_DEL_PASS_RET with 888888.
DoorOpens(d) ==
    /\ main = At("poll")
    /\ status' = [status EXCEPT ![d] = 1]
    /\ main' = In("opening", d)
    /\ UNCHANGED <<armed, at, list, due, func, cloud, lost, opened, connected, changed>>

\* The post of LockState 1 returned: ask for the relocking.
AskRelock ==
    /\ main.pc = "opening"
    /\ Posted(main.dev, 1)
    /\ Put(main.dev, Relock, "relock")
    /\ Arm
    /\ opened' = [opened EXCEPT ![main.dev] = 0]
    /\ main' = In("notifying", main.dev)
    /\ UNCHANGED <<status, connected, changed>>

\* DoorOpenNotification was sent: the handler returns to the loop.
Notified ==
    /\ main.pc = "notifying"
    /\ main' = At("timers")
    /\ UNCHANGED <<armed, at, list, due, func, status, cloud, lost, opened, connected, changed>>

---------------------------------------------------------------------------
(* The linkkit thread.                                                     *)

CloudConnected ==
    /\ "reconnect" \in Faults
    /\ ~connected
    /\ connected' = TRUE
    /\ changed' = TRUE
    /\ UNCHANGED <<main, armed, at, list, due, func, status, cloud, lost, opened>>

CloudDisconnected ==
    /\ "reconnect" \in Faults
    /\ connected
    /\ connected' = FALSE
    /\ UNCHANGED <<main, armed, at, list, due, func, status, cloud, lost, opened, changed>>

\* product_sub_free, from any of the ways to delete a device: the record is
\* zeroed with the task in it, whose link is what continued the queue.
DeleteDevice(d) ==
    /\ (IF d \in Queued THEN "delete_pending" ELSE "delete") \in Faults
    /\ IF d \in Queued
       THEN \E n \in 1..Len(list) : list[n] = d /\ list' = SubSeq(list, 1, n)
       ELSE UNCHANGED list
    /\ due' = [due EXCEPT ![d] = Zero]
    /\ func' = [func EXCEPT ![d] = "null"]
    /\ status' = [status EXCEPT ![d] = 0]
    /\ UNCHANGED <<main, armed, at, cloud, lost, opened, connected, changed>>

Tick ==
    /\ \A t \in armed : at[t] > -MaxLate
    /\ \A t \in Queued : due[t] # -MaxLate
    /\ at' = [t \in Timers |-> IF t \in armed THEN Nearer(at[t]) ELSE at[t]]
    /\ due' = [t \in Tasks |-> Nearer(due[t])]
    /\ opened' = [d \in Devices |-> IF opened[d] < Relock THEN opened[d] + 1 ELSE Relock]
    /\ UNCHANGED <<main, armed, list, func, status, cloud, lost, connected, changed>>

\* What the main thread does of itself; a door is opened by somebody.
MainStep == EnterPoll \/ PollTimesOut \/ SyncList \/ RunTask
            \/ Relocked \/ InfoRead \/ AskRelock \/ Notified

Next ==
    \/ MainStep
    \/ \E d \in Devices : DoorOpens(d) \/ DeleteDevice(d)
    \/ CloudConnected \/ CloudDisconnected
    \/ Tick

Spec == Init /\ [][Next]_vars

\* Time passes, blocking calls return (they have timeouts) and the loop goes round.
FairSpec == Spec /\ WF_vars(MainStep) /\ WF_vars(Tick)

---------------------------------------------------------------------------
(* Properties.                                                             *)

\* The kinds of the variables; no task is linked twice into the queue.
TypeOK ==
    /\ main \in Places
    /\ armed \subseteq Timers
    /\ at \in [Timers -> Int] /\ \A t \in Timers : Within(at[t])
    /\ list \in Seq(Tasks)
    /\ \A i, j \in 1..Len(list) : list[i] = list[j] => i = j
    /\ due \in [Tasks -> Int] /\ \A t \in Tasks : Within(due[t])
    /\ func \in [Tasks -> {"null", "gw_info", "relock"}]
    /\ status \in [Devices -> 0..1] /\ cloud \in [Devices -> 0..1]
    /\ lost \subseteq Devices
    /\ opened \in [Devices -> 0..Relock]
    /\ connected \in BOOLEAN /\ changed \in BOOLEAN

\* Whenever tasks are queued the one timer behind them is set, and not for later
\* than the first of them is due: whoever queues a task sets the timer, except
\* inside afly_handler_task_run, which sets it on its way out.  When the timer
\* fires a task is due.
TimerCoversQueue ==
    /\ (main.pc \notin {"relocking", "info"} /\ list # <<>>) =>
          /\ "task" \in armed
          /\ \A t \in Queued : at["task"] <= NotPast(due[t])
    /\ ("task" \in armed /\ at["task"] <= 0) => \E t \in Queued : due[t] <= 0

\* A door that counts as open, for the gateway or for the cloud, has its
\* relocking queued, unless a handler is on its way to queue it, the relocking
\* runs right now, or the cloud missed the post it made.
OpenDoorHasTask ==
    \A d \in Devices : (status[d] = 1 \/ cloud[d] = 1) =>
        \/ d \in Queued /\ func[d] = "relock"
        \/ main \in {In("opening", d), In("relocking", d)}
        \/ status[d] = 0 /\ d \in lost

\* A door is never relocked before its delay has passed, counted from the last
\* time it was opened.
NotRelockedEarly ==
    [][\A d \in Devices : status[d] = 1 /\ main' = In("relocking", d) => opened[d] >= Relock]_vars

\* An opened door is relocked, or opened again.
DoorRelocks ==
    \A d \in Devices : status[d] = 1 ~> (status[d] = 0 \/ main = In("opening", d))

\* The network data are read again and again, however doors are used.
InfoKeepsRunning == []<>(main.pc = "info")

\* While the gateway stays connected a raised connection flag is taken up: the
\* device list is asked for after every reconnection (afly.c:158-173).
ReconnectLists == (connected /\ changed) ~> (~changed \/ ~connected)

\* The queue never calls a null function, though tasks lie inside records that
\* another thread zeroes; as long as it zeroes none whose task is queued.
TasksCallable == main.pc # "dead"

Left == [t \in Queued |-> due[t]]

Promise == INSTANCE TaskQueue WITH Delays <- {Relock, Retry, Period}, left <- Left

\* The list, the one timer and the handlers are such a queue: every task asked for
\* stays, with the time last given, until it is run at its turn, neither early
\* nor later than the main thread is; as long as no record is zeroed with its
\* task queued.
ImplementsQueue == Promise!Spec

=============================================================================
