------------------------------ MODULE LockKeys ------------------------------
(***************************************************************************)
(* The passwords of one door lock, as the gateway keeps them.              *)
(*                                                                         *)
(* Three parties hold a copy of the key set: the lock itself, the key      *)
(* table of the sub-device in the gateway (product_sub.c, in memory and in *)
(* subdev.db), and the cloud.  A cloud request reserves a slot and sends a *)
(* command (afly.c, a linkkit thread); the lock answers with a report; the *)
(* main thread applies the report, saves and tells the cloud.              *)
(*                                                                         *)
(* The two threads share the key table without a lock of its own.  Sending *)
(* a command takes ue.mutex (uproto.c:1232), which the main thread holds   *)
(* while it handles a report (uproto.c:223), up to the end of the blocking *)
(* call that tells the cloud: HandleReport and Notify are the two ends of  *)
(* that critical section.                                                  *)
(***************************************************************************)
EXTENDS Integers, Sequences, FiniteSets

CONSTANTS
    Codes,      \* the numbers atoi() gives for the KeyStr values the cloud sends
    MaxKey,     \* slots of one key array (128 in product_sub.h)
    FdLimit,    \* files the process may have open
    MaxCmds,    \* bound: commands in flight
    MaxReports, \* bound: reports in flight
    MaxCrash,   \* bound: restarts of the gateway
    Faults      \* which of AllFaults the surroundings may show

AllFaults == {"loss", "crash", "repeat", "clear", "refuse", "fd"}

ASSUME CodesAssumption   == Codes \subseteq Nat
ASSUME MaxKeyAssumption  == MaxKey \in Nat \ {0}
ASSUME BoundsAssumption  == FdLimit \in Nat /\ {MaxCmds, MaxReports} \subseteq Nat \ {0} /\ MaxCrash \in Nat
ASSUME FaultsAssumption  == Faults \subseteq AllFaults

VARIABLES
    keys,       \* sd->aset.lock.keys: four arrays of slots
    disk,       \* the same arrays in subdev.db
    fds,        \* descriptors product_sub_save left open
    svc,        \* the linkkit thread inside a key service
    main,       \* the main thread: Idle, or telling the cloud about an event
    cmds,       \* commands on their way to the lock
    reports,    \* reports on their way to the gateway
    lock,       \* ids of the keys the lock stores
    everStored, \* history: ids the lock has stored at some time
    told,       \* ids the cloud was told are keys of the lock
    untold,     \* history: ids whose deletion the cloud was not told of
    crashes

vars == <<keys, disk, fds, svc, main, cmds, reports, lock, everStored, told, untold, crashes>>

---------------------------------------------------------------------------
(* Key arrays and identifiers.                                             *)

Arrays == 0..3
Slots  == 1..MaxKey

\* product_sub_convet_type2idx: the array of a LockType.
TypeIdx(type) == CASE type = 1 -> 0
                   [] type = 2 -> 1
                   [] type = 3 -> 2
                   [] type = 5 -> 3
                   [] OTHER    -> 0

Password == 2   \* the only LockType the services accept

KeyId(type, code) == 1000000 * type + code

Unsupported == 9

\* A slip at a boundary: > for >=.
ReportTypeAbove(id) == IF      2000000 < id /\ id <= 2999999 THEN 2
                       ELSE IF id = 0                        THEN 0
                       ELSE Unsupported

\* The LockType a reported passId is taken to belong to.
ReportType(id) == IF      2000000 <= id /\ id <= 2999999 THEN 2
                  ELSE IF 3000000 <= id /\ id <= 3999999 THEN 3
                  ELSE IF 1000000 <= id /\ id <= 1999999 THEN 1
                  ELSE IF 5000000 <= id /\ id <= 5999999 THEN 2
                  ELSE IF id = 0                         THEN 0
                  ELSE Unsupported

Ids == {KeyId(Password, c) : c \in Codes} \cup {0}

NoSlot == [state |-> "NONE", id |-> 0]
Slot   == [state : {"NONE", "ADDING", "ADDED"}, id : Ids]

Used(a)     == {i \in Slots : keys[a][i].state # "NONE"}
Free(a)     == {i \in Slots : keys[a][i].state = "NONE"}
Having(a, id, state) == {i \in Slots : keys[a][i] = [state |-> state, id |-> id]}
WithId(a, id)        == {i \in Used(a) : keys[a][i].id = id}

First(i, S) == i \in S /\ \A j \in S : i <= j
Last(i, S)  == i \in S /\ \A j \in S : j <= i

\* The confirmed keys of a table.
Held(table) == {id \in Ids : \E a \in Arrays, i \in Slots :
                                table[a][i] = [state |-> "ADDED", id |-> id]}

---------------------------------------------------------------------------
(* What the actions are built from.                                        *)

IdleSvc == [pc |-> "idle", op |-> "clr", slot |-> 1, id |-> 0]
Idle    == [event |-> "none", id |-> 0]

Commands == [op : {"add", "del", "clr"}, id : Ids]
Reports  == [add : BOOLEAN, id : Ids, ok : BOOLEAN]
Services == [pc : {"idle", "deref", "send"}, op : {"add", "del", "clr"}, slot : Slots, id : Ids]
Notices  == [event : {"KeyAdded", "KeyDeleted", "ClearKey", "Status"}, id : Ids] \cup {Idle}

\* A slip: the table changes and subdev.db does not.
ForgetSave(table) == UNCHANGED <<disk, fds>>

\* product_sub_save: opens the file, writes the whole sub-device and does not
\* close the file again.  With no descriptor left nothing is written, and no
\* caller looks at the result.
Save(table) ==
    IF "fd" \notin Faults    THEN disk' = table /\ UNCHANGED fds
    ELSE IF fds < FdLimit    THEN disk' = table /\ fds' = fds + 1
    ELSE UNCHANGED <<disk, fds>>

MutexFree == main = Idle    \* ue.mutex

Init ==
    /\ keys = [a \in Arrays |-> [i \in Slots |-> NoSlot]]
    /\ disk = keys
    /\ fds = 0
    /\ svc = IdleSvc
    /\ main = Idle
    /\ cmds = <<>>
    /\ reports = <<>>
    /\ lock = {}
    /\ everStored = {}
    /\ told = {}
    /\ untold = {}
    /\ crashes = 0

---------------------------------------------------------------------------
(* The linkkit thread: the services of the cloud.  A request a service     *)
(* refuses (LockType other than 2, UserLimit other than 1, a malformed     *)
(* KeyStr, a full array, an unknown KeyID) changes nothing.                *)

\* subdev_add_key up to product_sub_lock_add_key_wait_ack: the first free slot
\* is reserved, in memory only.  The same KeyStr may be in the table already.
AddKey(code) ==
    LET a == TypeIdx(Password)  id == KeyId(Password, code) IN
    /\ svc.pc = "idle"
    /\ "repeat" \notin Faults => WithId(a, id) = {}
    /\ \E i \in Slots :
         /\ First(i, Free(a))
         /\ keys' = [keys EXCEPT ![a][i] = [state |-> "ADDING", id |-> id]]
         /\ svc' = [pc |-> "deref", op |-> "add", slot |-> i, id |-> 0]
    /\ UNCHANGED <<disk, fds, main, cmds, reports, lock, everStored, told, untold, crashes>>

\* subdev_del_key up to product_sub_lock_get_key_by_id: the last slot with the
\* id, whether its key is confirmed or not.
DelKey(code) ==
    LET a == TypeIdx(Password)  id == KeyId(Password, code) IN
    /\ svc.pc = "idle"
    /\ \E i \in Slots :
         /\ Last(i, WithId(a, id))
         /\ svc' = [pc |-> "deref", op |-> "del", slot |-> i, id |-> 0]
    /\ UNCHANGED <<keys, disk, fds, main, cmds, reports, lock, everStored, told, untold, crashes>>

\* A slip: the slot's index is sent, as the line commented out in
\* product_sub_lock_add_key_wait_ack would number the keys.
DerefIndex ==
    /\ svc.pc = "deref"
    /\ svc' = [svc EXCEPT !.pc = "send", !.id = svc.slot]
    /\ UNCHANGED <<keys, disk, fds, main, cmds, reports, lock, everStored, told, untold, crashes>>

\* The argument key->id of nxp_lock_add_pass and nxp_lock_del_pass: the slot is
\* read after the search, and the main thread may have emptied it in between.
Deref ==
    /\ svc.pc = "deref"
    /\ svc' = [svc EXCEPT !.pc = "send", !.id = keys[TypeIdx(Password)][svc.slot].id]
    /\ UNCHANGED <<keys, disk, fds, main, cmds, reports, lock, everStored, told, untold, crashes>>

\* subdev_clr_key, and subdev_del_key with KeyID "******".
ClrKey ==
    /\ "clear" \in Faults
    /\ svc.pc = "idle"
    /\ svc' = [pc |-> "send", op |-> "clr", slot |-> 1, id |-> 0]
    /\ UNCHANGED <<keys, disk, fds, main, cmds, reports, lock, everStored, told, untold, crashes>>

\* uproto_call with timeout 0: one message under ue.mutex, no answer awaited.
Send ==
    /\ svc.pc = "send"
    /\ MutexFree
    /\ Len(cmds) < MaxCmds
    /\ cmds' = Append(cmds, [op |-> svc.op, id |-> svc.id])
    /\ svc' = IdleSvc
    /\ UNCHANGED <<keys, disk, fds, main, reports, lock, everStored, told, untold, crashes>>

---------------------------------------------------------------------------
(* The lock and the radio module: outside src/, modelled from the commands *)
(* nxpx.c sends and the report afly.c expects for each.                    *)

Answer(add, id, ok) == reports' = Append(reports, [add |-> add, id |-> id, ok |-> ok])

LockExecutes ==
    /\ cmds # <<>>
    /\ Len(reports) < MaxReports
    /\ LET c == Head(cmds) IN
         \/ /\ c.op = "add"
            /\ lock' = lock \cup {c.id}
            /\ everStored' = everStored \cup {c.id}
            /\ Answer(TRUE, c.id, TRUE)
         \/ /\ c.op = "del"
            /\ lock' = lock \ {c.id}
            /\ \/ Answer(FALSE, c.id, TRUE)
               \/ c.id \notin lock /\ Answer(FALSE, c.id, FALSE)
            /\ UNCHANGED everStored
         \/ /\ c.op = "clr"
            /\ lock' = {}
            /\ Answer(FALSE, 0, TRUE)
            /\ UNCHANGED everStored
         \/ /\ "refuse" \in Faults
            /\ Answer(c.op = "add", c.id, FALSE)
            /\ UNCHANGED <<lock, everStored>>
    /\ cmds' = Tail(cmds)
    /\ UNCHANGED <<keys, disk, fds, svc, main, told, untold, crashes>>

LoseCommand ==
    /\ "loss" \in Faults
    /\ cmds # <<>>
    /\ cmds' = Tail(cmds)
    /\ UNCHANGED <<keys, disk, fds, svc, main, reports, lock, everStored, told, untold, crashes>>

LoseReport ==
    /\ "loss" \in Faults
    /\ reports # <<>>
    /\ reports' = Tail(reports)
    /\ UNCHANGED <<keys, disk, fds, svc, main, cmds, lock, everStored, told, untold, crashes>>

---------------------------------------------------------------------------
(* The main thread: a report of the lock, EVENT_NXP_ADD_DEL_PASS_RET.      *)

ReportArray(r) == TypeIdx(ReportType(r.id))

\* A slip: the code of the report is not looked at.
AcceptsAnyCode(r) ==
    /\ r.id # 0 /\ ReportType(r.id) # Unsupported
    /\ \E i \in Slots :
         /\ Last(i, WithId(ReportArray(r), r.id))
         /\ keys[ReportArray(r)][i].state = IF r.add THEN "ADDING" ELSE "ADDED"

\* The report is acted on: its identifier falls in a known range, the slot that
\* product_sub_lock_get_key_by_id finds awaits this very operation, code is 0.
Accepts(r) ==
    /\ r.id # 0 /\ ReportType(r.id) # Unsupported
    /\ \E i \in Slots :
         /\ Last(i, WithId(ReportArray(r), r.id))
         /\ keys[ReportArray(r)][i].state = IF r.add THEN "ADDING" ELSE "ADDED"
    /\ r.ok

\* product_sub_lock_add_key_complete: the first slot being added with the id,
\* which need not be the slot the report was accepted for.
KeyAdded(r) ==
    /\ Accepts(r) /\ r.add
    /\ \E i \in Slots :
         /\ First(i, Having(ReportArray(r), r.id, "ADDING"))
         /\ keys' = [keys EXCEPT ![ReportArray(r)][i] = [state |-> "ADDED", id |-> r.id]]
    /\ Save(keys')
    /\ main' = [event |-> "KeyAdded", id |-> r.id]

\* product_sub_lock_del_key: the first confirmed slot with the id.
KeyDeleted(r) ==
    /\ Accepts(r) /\ ~r.add
    /\ \E i \in Slots :
         /\ First(i, Having(ReportArray(r), r.id, "ADDED"))
         /\ keys' = [keys EXCEPT ![ReportArray(r)][i] = NoSlot]
    /\ Save(keys')
    /\ main' = [event |-> "KeyDeleted", id |-> r.id]

\* passId 0: product_sub_lock_clr_key with the LockType computed so far, which
\* is 0 and selects the first array; code is not looked at.  Every cleared slot
\* is saved, the last of these saves writes them all.
KeysCleared(r) ==
    LET a == TypeIdx(ReportType(0)) IN
    /\ r.id = 0
    /\ keys' = [keys EXCEPT ![a] = [i \in Slots |-> NoSlot]]
    /\ IF Used(a) = {} THEN UNCHANGED <<disk, fds>> ELSE Save(keys')
    /\ main' = [event |-> "ClearKey", id |-> 0]

ReportIgnored(r) ==
    /\ r.id # 0 /\ ~Accepts(r)
    /\ UNCHANGED <<keys, disk, fds, main>>

HandleReport ==
    /\ MutexFree
    /\ reports # <<>>
    /\ LET r == Head(reports) IN
         KeyAdded(r) \/ KeyDeleted(r) \/ KeysCleared(r) \/ ReportIgnored(r)
    /\ reports' = Tail(reports)
    /\ UNCHANGED <<svc, cmds, lock, everStored, told, untold, crashes>>

\* afly_nxp_upt_online and afly_nxp_reg, when the radio module reports the state
\* of the lock: the whole record is saved, reserved slots with it, and the state is
\* posted to the cloud in a blocking call.
StatusSaved ==
    /\ MutexFree
    /\ Save(keys)
    /\ main' = [event |-> "Status", id |-> 0]
    /\ UNCHANGED <<keys, svc, cmds, reports, lock, everStored, told, untold, crashes>>

ToldAfter(n) ==
    CASE n.event = "KeyAdded"   -> told \cup {n.id}
      [] n.event = "KeyDeleted" -> told \ {n.id}
      [] n.event = "ClearKey"   -> {}
      [] n.event = "Status"     -> told

\* linkkit_gateway_trigger_event_json_sync at the end of afly_nxp_rpt_event, or the
\* post of the state: main blocks in it with ue.mutex held.  What fails is not sent
\* again.
Notify ==
    /\ main # Idle
    /\ \/ /\ told' = ToldAfter(main)
          /\ untold' = IF main.event = "KeyAdded" THEN untold \ {main.id} ELSE untold
       \/ /\ "loss" \in Faults
          /\ untold' = IF main.event = "KeyDeleted" THEN untold \cup {main.id} ELSE untold
          /\ UNCHANGED told
    /\ main' = Idle
    /\ UNCHANGED <<keys, disk, fds, svc, cmds, reports, lock, everStored, crashes>>

\* The gateway process dies and product_sub_load_all reads subdev.db: what was
\* not saved is gone, and so is an event not sent yet.
Restart ==
    /\ "crash" \in Faults
    /\ crashes < MaxCrash
    /\ crashes' = crashes + 1
    /\ keys' = disk
    /\ fds' = 0
    /\ svc' = IdleSvc
    /\ main' = Idle
    /\ untold' = IF main.event = "KeyDeleted" THEN untold \cup {main.id} ELSE untold
    /\ UNCHANGED <<disk, cmds, reports, lock, everStored, told>>

Next ==
    \/ \E c \in Codes : AddKey(c) \/ DelKey(c)
    \/ ClrKey \/ Deref \/ Send
    \/ LockExecutes \/ LoseCommand \/ LoseReport
    \/ HandleReport \/ StatusSaved \/ Notify
    \/ Restart

Spec == Init /\ [][Next]_vars

\* The threads run on: a callback finishes and a blocking call returns.  Events are
\* read in the order they come, so that a report is not passed over for states that
\* come later; between two events the mutex is free, and whoever waits for it gets it
\* in the end.  That the lock answers is assumed of the lock.
Fairness ==
    /\ WF_vars(Deref) /\ SF_vars(Send)
    /\ WF_vars(LockExecutes)
    /\ SF_vars(HandleReport) /\ WF_vars(Notify)

FairSpec == Spec /\ Fairness

---------------------------------------------------------------------------
(* Properties.                                                             *)

Table == [Arrays -> [Slots -> Slot]]

\* The kinds of the variables.
TypeOK ==
    /\ keys \in Table
    /\ disk \in Table
    /\ fds \in 0..FdLimit
    /\ svc \in Services
    /\ main \in Notices
    /\ cmds \in Seq(Commands)
    /\ reports \in Seq(Reports)
    /\ lock \subseteq Ids
    /\ everStored \subseteq Ids
    /\ told \subseteq Ids
    /\ untold \subseteq Ids
    /\ crashes \in 0..MaxCrash

\* The gateway counts as a key only what the lock reported to have stored: no
\* refused, lost or repeated request makes a key (afly.c:2003-2020).
HeldWasStored == Held(keys) \cup Held(disk) \subseteq everStored

\* While descriptors are left, a restart would find exactly the confirmed keys
\* the gateway has in memory, whatever requests are pending (product_sub.c:550-610).
RestartKeepsKeys == ("fd" \in Faults => fds < FdLimit) => Held(disk) = Held(keys)

\* A key the cloud was told of is a key the gateway holds, or its deletion is
\* being announced, or that announcement was lost (failed, or cut by a restart).
CloudKeysAreHeld ==
    told \subseteq Held(keys) \cup untold
                   \cup (IF main.event = "KeyDeleted" THEN {main.id} ELSE {})

\* No step, a restart included, forgets a held key unless the lock has just
\* reported that it deleted the key.
ForgottenOnReport ==
    [][\A id \in Held(keys) \ Held(keys)' :
          reports # <<>> /\ Head(reports) = [add |-> FALSE, id |-> id, ok |-> TRUE]]_vars

Quiet == cmds = <<>> /\ reports = <<>> /\ svc = IdleSvc /\ main = Idle

\* Until a restart, the gateway has a slot for every password the lock opens to, so
\* that it can be listed and deleted again.  Id 0 is what Deref reads of a slot the
\* main thread has emptied: a password nobody asked for (afly.c:302).
KeysOfLockKnown ==
    crashes = 0 => \A id \in lock \ {0} : WithId(TypeIdx(Password), id) # {}

\* With nothing in flight the gateway's confirmed keys are the keys the lock
\* stores: what the request / report protocol of the services is for.
QuietAgreement == Quiet => Held(keys) = lock

\* A reserved slot does not stay reserved: its key becomes a confirmed key.
AddCompletes ==
    \A c \in Codes :
        (Having(TypeIdx(Password), KeyId(Password, c), "ADDING") # {})
            ~> (KeyId(Password, c) \in Held(keys))

=============================================================================
