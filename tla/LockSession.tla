---------------------------- MODULE LockSession ----------------------------
(***************************************************************************)
(* One lock as the gateway serves it: whether it is logged in at the       *)
(* cloud, and the time-based ("dynamic") password, whose seed the gateway  *)
(* chooses, sends to the lock and keeps.                                   *)
(*                                                                         *)
(* Two threads choose seeds: the main thread while it handles a listing    *)
(* (afly_nxp_reg) and the linkkit thread in the service GetDynamic         *)
(* (subdev_get_dynamic).  Each sends the seed first and records it         *)
(* afterwards, in memory only; the lock's report 999999 makes it valid and *)
(* saves it.  The router's mutex covers the whole handling of a report but *)
(* only the sending in the other thread.                                   *)
(*                                                                         *)
(* The record of the lock exists, with what a start of the program loads.  *)
(* The seeds are the times they are chosen at, 0 is none.                  *)
(***************************************************************************)
EXTENDS Integers, Sequences

CONSTANTS
    Batteries,   \* battery levels a lock reports
    MaxTime,     \* bound: seconds that pass
    MaxMessages, \* bound: commands and reports in flight
    Faults       \* which of AllFaults the surroundings may show

\* Messages get lost; the lock refuses a seed; the process restarts; a lock
\* with some battery reports itself as not online.
AllFaults == {"loss", "refuse", "restart", "asleep"}

ASSUME BatteriesAssumption == Batteries \subseteq Nat
ASSUME BoundsAssumption    == {MaxTime, MaxMessages} \subseteq Nat \ {0}
ASSUME FaultsAssumption    == Faults \subseteq AllFaults

VARIABLES
    sd,         \* the record of the lock
    disk,       \* what a start would load of it
    main,       \* where the main thread is in the handling of a report
    lib,        \* where the linkkit thread is in GetDynamic
    cmds,       \* seeds on their way to the lock
    reports,    \* reports on their way to the gateway
    lockSeed,   \* the seed the lock uses
    session,    \* the linkkit library has the lock logged in
    now,        \* time()
    said,       \* history: the field "online" of the last report handled
    failed,     \* history: the last login or logout failed
    amiss       \* history: what went wrong since a seed was last sent

vars == <<sd, disk, main, lib, cmds, reports, lockSeed, session, now, said, failed, amiss>>

radio   == <<cmds, reports, lockSeed>>
history == <<said, failed, amiss>>

Seeds     == 0..MaxTime
Interval  == 30 * 60    \* seconds a code is good for
Intervals == {0, Interval}
LowLevel  == 30

Records == [known : BOOLEAN, online : BOOLEAN, login : BOOLEAN,
            dynamic : BOOLEAN, seed : Seeds, interval : Intervals]

Unused == [known |-> FALSE, online |-> FALSE, login |-> FALSE,
           dynamic |-> FALSE, seed |-> 0, interval |-> 0]

\* A slip: the login is believed.
LoadedLoggedIn(s) == [s EXCEPT !.known = FALSE]

\* product_sub_clr_id_after_load: the handle and the login of a record are not
\* what they were.
Loaded(s) == [s EXCEPT !.known = FALSE, !.login = FALSE]

Levels   == Batteries \cup {0}
Statuses == [kind : {"list", "status"}, battery : Levels, online : BOOLEAN]
Others   == [kind : {"alarm", "dynamic"}, battery : {0}, online : {FALSE}]
Report   == Statuses \cup Others

Answer == [kind |-> "dynamic", battery |-> 0, online |-> FALSE]

Sleeping(r) == r.online # (r.battery > 0)

\* low: the report handled shows a low battery.
Places == [at : {"record", "session", "post", "alarm"}, seed : Seeds, low : BOOLEAN]
IdleMain == [at |-> "idle", seed |-> 0, low |-> FALSE]
IdleLib  == [at |-> "idle", seed |-> 0]

Init ==
    /\ sd = Unused /\ disk = Unused
    /\ main = IdleMain /\ lib = IdleLib
    /\ cmds = << >> /\ reports = << >> /\ lockSeed = 0
    /\ session = FALSE /\ now = 1
    /\ said = FALSE /\ failed = FALSE /\ amiss = {}

Alive     == lib.at # "dead"
MutexFree == main = IdleMain    \* ue.mutex
Recording(t) == t.at = "record"
Room      == Len(cmds) + Len(reports) < MaxMessages

---------------------------------------------------------------------------
(* What the handlers are built from.                                       *)

\* A slip: the record is saved without the fields behind aset.
SaveSession(s) == disk' = [Loaded(s) EXCEPT !.dynamic = disk.dynamic, !.seed = disk.seed]

\* product_sub_save of the record as it is now.
Save(s) == disk' = Loaded(s)

\* nxp_lock_add_dynamic, while the thread other may have sent a seed it has not
\* recorded.  Nobody looks at its result, which is always a failure: the
\* command is not waited for.
Send(seed, other) ==
    /\ cmds' = Append(cmds, seed)
    /\ amiss' = IF Recording(other) THEN {"crossed"} ELSE {}

\* Slips: the interval is left out, or counted in minutes.
RecordSeed(seed)    == [sd EXCEPT !.seed = seed]
RecordMinutes(seed) == [sd EXCEPT !.seed = seed, !.interval = 30]

\* product_sub_lock_add_dynamic_wait_ack
WaitAck(seed) == [sd EXCEPT !.seed = seed, !.interval = Interval]

---------------------------------------------------------------------------
(* The main thread.  A report without a name, a type, a version or a model *)
(* is dropped.                                                             *)

Take(kind) ==
    /\ Alive /\ MutexFree
    /\ reports # << >> /\ Head(reports).kind = kind
    /\ reports' = Tail(reports)

Go(at, low) == main' = [at |-> at, seed |-> main.seed, low |-> low]

\* rpt_nxp_list and afly_nxp_reg, up to the sending of a seed: the online state
\* is taken from the field "battery".  The handle of a lock that has none is
\* created first.
HandleList ==
    /\ Take("list")
    /\ LET s == [sd EXCEPT !.known = TRUE, !.online = Head(reports).battery # 0] IN
         /\ sd' = s
         /\ Save(s)
    /\ said' = Head(reports).online
    /\ \/ /\ ~ sd.dynamic
          /\ Send(now, lib)
          /\ main' = [at |-> "record", seed |-> now, low |-> FALSE]
       \/ /\ sd.dynamic
          /\ Go("session", FALSE)
          /\ UNCHANGED <<cmds, amiss>>
    /\ UNCHANGED <<lib, lockSeed, session, now, failed>>

\* afly_nxp_reg records the seed it sent.
MainRecords ==
    /\ Alive /\ Recording(main)
    /\ sd' = WaitAck(main.seed)
    /\ main' = [at |-> "session", seed |-> 0, low |-> FALSE]
    /\ UNCHANGED <<disk, lib, radio, session, now, history>>

\* rpt_nxp_status and afly_nxp_upt_online: a lock without a handle is left alone,
\* though the alarm of a low battery is raised for it.
HandleStatus ==
    /\ Take("status")
    /\ LET r   == Head(reports)
           low == r.battery < LowLevel /\ r.battery # 0 IN
         IF sd.known
         THEN /\ sd' = [sd EXCEPT !.online = r.battery # 0]
              /\ Save(sd')
              /\ said' = r.online
              /\ Go("session", low)
         ELSE /\ main' = IF low THEN [IdleMain EXCEPT !.at = "alarm"] ELSE IdleMain
              /\ UNCHANGED <<sd, disk, said>>
    /\ UNCHANGED <<lib, cmds, lockSeed, session, now, failed, amiss>>

\* The call for login or logout returned.
CallReturns(ok) ==
    /\ sd' = [sd EXCEPT !.login = IF ok THEN sd.online ELSE ~ sd.online]
    /\ session' = IF ok THEN sd.online ELSE session
    /\ failed' = ~ ok

After(s) == IF s.login THEN Go("post", main.low)
            ELSE main' = IF main.low THEN [IdleMain EXCEPT !.at = "alarm"] ELSE IdleMain

\* Login or logout, if the record says that one is needed.
Session ==
    /\ Alive /\ main.at = "session"
    /\ \/ /\ sd.online # sd.login
          /\ \E ok \in BOOLEAN : CallReturns(ok)
       \/ /\ sd.online = sd.login
          /\ failed' = FALSE
          /\ UNCHANGED <<sd, session>>
    /\ After(sd')
    /\ UNCHANGED <<disk, lib, radio, now, said, amiss>>

\* afly_nxp_report_all_status returned.
Posted ==
    /\ Alive /\ main.at = "post"
    /\ main' = IF main.low THEN [IdleMain EXCEPT !.at = "alarm"] ELSE IdleMain
    /\ UNCHANGED <<sd, disk, lib, radio, session, now, history>>

\* EVENT_NXP_SYS_STATUS of a lock that says so itself.
HandleAlarm ==
    /\ Take("alarm")
    /\ main' = [IdleMain EXCEPT !.at = "alarm"]
    /\ UNCHANGED <<sd, disk, lib, cmds, lockSeed, session, now, history>>

\* The event reached the cloud, or did not.
Alarmed ==
    /\ Alive /\ main.at = "alarm"
    /\ main' = IdleMain
    /\ UNCHANGED <<sd, disk, lib, radio, session, now, history>>

\* A slip: the answer of a lock that is not logged in is passed over.
ConfirmLoggedIn == [sd EXCEPT !.dynamic = @ \/ sd.login]

\* product_sub_lock_add_dynamic_complete
Confirm == [sd EXCEPT !.dynamic = TRUE]

\* EVENT_NXP_ADD_DEL_PASS_RET with passId 999999, whatever its code and however
\* old.
HandleAnswer ==
    /\ Take("dynamic")
    /\ sd' = Confirm
    /\ Save(sd')
    /\ amiss' = IF Recording(lib) THEN amiss \cup {"crossed"} ELSE amiss
    /\ UNCHANGED <<main, lib, cmds, lockSeed, session, now, said, failed>>

---------------------------------------------------------------------------
(* The linkkit thread: subdev_get_dynamic.                                 *)

\* The flag is read without the mutex.
GetDynamic ==
    /\ lib = IdleLib /\ sd.known
    /\ lib' = IF sd.dynamic THEN [at |-> "code", seed |-> sd.seed]
                            ELSE [at |-> "send", seed |-> now]
    /\ UNCHANGED <<sd, disk, main, radio, session, now, history>>

\* time(NULL) / sd->interval
LibCode ==
    /\ lib.at = "code"
    /\ lib' = IF sd.interval = 0 THEN [at |-> "dead", seed |-> 0] ELSE IdleLib
    /\ UNCHANGED <<sd, disk, main, radio, session, now, history>>

LibSends ==
    /\ lib.at = "send" /\ MutexFree /\ Room
    /\ Send(lib.seed, main)
    /\ lib' = [lib EXCEPT !.at = "record"]
    /\ UNCHANGED <<sd, disk, main, reports, lockSeed, session, now, said, failed>>

\* The seed is recorded and the service returns -1.
LibRecords ==
    /\ Recording(lib)
    /\ sd' = WaitAck(lib.seed)
    /\ lib' = IdleLib
    /\ UNCHANGED <<disk, main, radio, session, now, history>>

---------------------------------------------------------------------------
(* The lock, the radio module and the surroundings.                        *)

\* The lock takes the seed of a command and answers; refusing it, it answers
\* as well.  amiss tells only of the newest seed.
LockAnswers ==
    /\ cmds # << >>
    /\ cmds' = Tail(cmds)
    /\ reports' = Append(reports, Answer)
    /\ \/ /\ lockSeed' = Head(cmds)
          /\ UNCHANGED amiss
       \/ /\ "refuse" \in Faults
          /\ amiss' = IF Len(cmds) = 1 THEN amiss \cup {"refused"} ELSE amiss
          /\ UNCHANGED lockSeed
    /\ UNCHANGED <<sd, disk, main, lib, session, now, said, failed>>

\* A listing (also of a new device), a status, an alarm.
LockReports ==
    /\ Room
    /\ \E r \in Report \ {Answer} :
         /\ r \in Statuses /\ Sleeping(r) => "asleep" \in Faults
         /\ reports' = Append(reports, r)
    /\ UNCHANGED <<sd, disk, main, lib, cmds, lockSeed, session, now, history>>

LoseCommand ==
    /\ "loss" \in Faults
    /\ cmds # << >> /\ cmds' = Tail(cmds)
    /\ amiss' = IF Len(cmds) = 1 THEN amiss \cup {"lost"} ELSE amiss
    /\ UNCHANGED <<sd, disk, main, lib, reports, lockSeed, session, now, said, failed>>

LoseReport ==
    /\ "loss" \in Faults
    /\ reports # << >> /\ reports' = Tail(reports)
    /\ amiss' = IF Head(reports) = Answer THEN amiss \cup {"lost"} ELSE amiss
    /\ UNCHANGED <<sd, disk, main, lib, cmds, lockSeed, session, now, said, failed>>

\* The reports sent to the old process are gone; its commands are not.
Restart ==
    /\ "restart" \in Faults
    /\ sd' = disk
    /\ main' = IdleMain /\ lib' = IdleLib
    /\ reports' = << >>
    /\ amiss' = amiss \cup {"restarted"}
    /\ session' = FALSE
    /\ said' = FALSE /\ failed' = FALSE
    /\ UNCHANGED <<disk, cmds, lockSeed, now>>

Tick ==
    /\ now < MaxTime /\ now' = now + 1
    /\ UNCHANGED <<sd, disk, main, lib, radio, session, history>>

MainStep == \/ HandleList \/ MainRecords \/ HandleStatus \/ Session \/ Posted
            \/ HandleAlarm \/ Alarmed \/ HandleAnswer

LibStep == LibCode \/ LibSends \/ LibRecords

Next == MainStep \/ GetDynamic \/ LibStep \/ LockAnswers \/ LockReports
        \/ LoseCommand \/ LoseReport \/ Restart \/ Tick

Spec == Init /\ [][Next]_vars

\* The main loop and a service go on (the calls they wait for have timeouts), and
\* the lock answers what reaches it.
FairSpec == Spec /\ WF_vars(MainStep) /\ WF_vars(LibStep) /\ WF_vars(LockAnswers)

---------------------------------------------------------------------------
(* Properties.                                                             *)

\* The kinds of the variables, and the bound of the messages.
TypeOK ==
    /\ sd \in Records /\ disk \in Records
    /\ main \in Places \cup {IdleMain}
    /\ lib \in [at : {"idle", "code", "send", "record", "dead"}, seed : Seeds]
    /\ cmds \in Seq(Seeds) /\ reports \in Seq(Report)
    /\ Len(cmds) + Len(reports) <= MaxMessages
    /\ lockSeed \in Seeds /\ session \in BOOLEAN /\ now \in Seeds
    /\ said \in BOOLEAN /\ failed \in BOOLEAN
    /\ amiss \subseteq {"lost", "refused", "crossed", "restarted"}

Outstanding == cmds # << >> \/ \E i \in 1..Len(reports) : reports[i] = Answer

Quiet == ~ Outstanding /\ ~ Recording(main) /\ ~ Recording(lib)

\* Once every seed sent has been answered, the lock, the gateway and its file
\* hold the same one, however many listings and requests chose seeds at the
\* same time, and in whatever order their commands and answers were served;
\* unless the newest one was lost or refused, a restart came between, or one
\* thread's report was handled between the other's sending and recording.
SeedAgrees ==
    Quiet /\ amiss = {} /\ sd.dynamic =>
        /\ sd.seed = lockSeed
        /\ disk.dynamic /\ disk.seed = sd.seed

\* GetDynamic divides by an interval that was never recorded only after a restart
\* that lost it, when the answer to a command of the old process came before
\* the first listing: no loss or refusal, and no order of the two threads' steps,
\* leads there.
NeverDividesByZero == lib.at = "dead" => "restarted" \in amiss

\* When a report has been handled the library has the lock logged in exactly if
\* it is online, also after a restart, unless the last login or logout failed.
SessionFollows ==
    MutexFree /\ sd.known /\ ~ failed => session = sd.online

\* A lock is online when its last report says so in its field "online".  It does
\* not hold: the code reads the field "battery".
OnlineAsReported == sd.known => sd.online = said

\* A seed sent to the lock ends up valid, unless it or an answer is lost or the
\* process restarts.
SeedConfirmed ==
    (cmds # << >>) ~> (sd.dynamic \/ amiss \cap {"lost", "restarted"} # {})

=============================================================================
