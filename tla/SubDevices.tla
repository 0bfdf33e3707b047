----------------------------- MODULE SubDevices -----------------------------
(***************************************************************************)
(* The devices behind the gateway: the table of records (product_sub.c),   *)
(* its copy in subdev.db, and the handles the linkkit library keeps for    *)
(* the same devices, each with the address of a record as its context.     *)
(*                                                                         *)
(* The main thread handles what the radio module reports: it registers a   *)
(* device, creates its handle, logs it in and out, destroys the handle and *)
(* frees the record (afly.c).  The library's thread handles the services   *)
(* and events of the cloud, which add and delete records as well.  Between *)
(* two calls to the library, each of which blocks, a thread keeps only the *)
(* address of the record it works on; nothing stops the other one from     *)
(* freeing that record or giving it to another device.  Faults says        *)
(* whether such clashes happen.                                            *)
(*                                                                         *)
(* The library is outside src/: a call returns success or failure, handles *)
(* get new numbers, and creating a handle for a device that has one gives  *)
(* that one or fails.  A step named ...Returns is the return of a call,    *)
(* with all the code does up to its next call.                             *)
(***************************************************************************)
EXTENDS Integers, FiniteSets

CONSTANTS
    Names,      \* names of devices
    NoName,     \* the name of a free record
    MaxSub,     \* records of the table (40 in product_sub.h)
    MaxHandle,  \* bound: handles created between two starts
    Faults      \* which of AllFaults may happen

\* Calls to the library that fail without need; deletions by the cloud;
\* restarts of the process; the threads working on one record at a time, and
\* records freed that a handle or a thread still uses.
AllFaults == {"fail", "cloud", "crash", "clash"}

ASSUME NameAssumption   == NoName \notin Names
ASSUME SizeAssumption   == MaxSub \in Nat \ {0} /\ MaxHandle \in Nat
ASSUME FaultsAssumption == Faults \subseteq AllFaults

VARIABLES
    subs,       \* the table: [Slots -> Records]
    disk,       \* what subdev.db holds of it
    handles,    \* the library's handles, by number
    made,       \* handles created since the start
    main,       \* where the main thread is, with what
    sdk         \* where the library's thread is, with what

vars == <<subs, disk, handles, made, main, sdk>>

Slots   == 1..MaxSub
Ids     == 1..MaxHandle
AnyName == Names \cup {NoName}

---------------------------------------------------------------------------
(* The table.  use is 1 exactly in records that have a name.               *)

Records == [name : AnyName, devid : 0..MaxHandle, login : BOOLEAN, online : BOOLEAN]

NoRecord == [name |-> NoName, devid |-> 0, login |-> FALSE, online |-> FALSE]

Fresh(n) == [NoRecord EXCEPT !.name = n]

\* What of a record outlives a restart: product_sub_clr_id_after_load resets
\* handle and login.
Durable(r) == [r EXCEPT !.devid = 0, !.login = FALSE]

\* A slip: only devices with a handle are found.
RegisteredNamed(table, n) == {s \in Slots : table[s].name = n /\ table[s].devid # 0}

Named(table, n) == {s \in Slots : table[s].name = n}

InUse(table) == {n \in Names : Named(table, n) # {}}

\* A slip: the first record of the same product, which all devices share.
FirstOfProduct(table, n) ==
    CHOOSE s \in Slots : table[s].name # NoName /\ \A t \in 1..(s - 1) : table[t].name = NoName

\* product_sub_search_by_name, for a name in use.
Search(table, n) ==
    CHOOSE s \in Slots : table[s].name = n /\ \A t \in 1..(s - 1) : table[t].name # n

\* A slip: the first record is taken, whether in use or not.
FirstRecord(table) == {1}

\* product_sub_malloc: the first free record, if there is one.
Malloc(table) == {s \in Slots : /\ table[s].name = NoName
                                /\ \A t \in 1..(s - 1) : table[t].name # NoName}

\* product_sub_add for a name its search did not find.
Add(table, n) == [s \in Slots |-> IF s \in Malloc(table) THEN Fresh(n) ELSE table[s]]

\* product_sub_del: no record is in use under the name of a free one.
Del(table, n) ==
    IF n \in InUse(table) THEN [table EXCEPT ![Search(table, n)] = NoRecord] ELSE table

\* The names gateway_post_subdev_list sends.  product_sub_get_i(i) looks at
\* record i, not at the i-th one in use.
List(table) ==
    LET num == Cardinality({s \in Slots : table[s].name # NoName})
    IN  {table[s].name : s \in 1..num} \ {NoName}

\* A slip: the table changes and subdev.db does not.
ForgetSave(table) == subs' = table /\ UNCHANGED disk

\* A change of the table with the save that follows it at once.  product_sub_save
\* writes one record; the others have no change that was not saved.
Saved(table) == subs' = table /\ disk' = [s \in Slots |-> Durable(table[s])]

---------------------------------------------------------------------------
(* The library.                                                            *)

NoHandle == [name |-> NoName, slot |-> 1, login |-> FALSE]
Live     == {id \in Ids : handles[id].name # NoName}
Of(n)    == {id \in Live : handles[id].name = n}

MayFail(id) == "fail" \in Faults \/ id \notin Live

\* Login, logout and destruction of a handle; failing, they change nothing.
SetLogin(id, to, ok) ==
    \/ /\ ok /\ id \in Live
       /\ handles' = [handles EXCEPT ![id].login = to]
    \/ ~ok /\ MayFail(id) /\ UNCHANGED handles

Destroy(id, ok) ==
    \/ /\ ok /\ id \in Live
       /\ handles' = [handles EXCEPT ![id] = NoHandle]
    \/ ~ok /\ MayFail(id) /\ UNCHANGED handles

---------------------------------------------------------------------------
(* The threads.                                                            *)

MainAt == {"idle", "alloc", "register", "create", "giveup", "update", "login", "logout",
           "post", "destroy", "unregister", "event", "again"}
SdkAt  == {"idle", "alloc", "mutex", "destroy", "unregister"}

\* slot is the record worked on, id and name the arguments of a call, or the
\* name to be added or deleted; what is not used again is reset.
MainPlaces == [pc : MainAt, op : {"report", "delete", "event"}, name : AnyName, slot : Slots,
               online : BOOLEAN, id : 0..MaxHandle]
SdkPlaces  == [pc : SdkAt, name : AnyName, slot : Slots, id : 0..MaxHandle]

Idle    == [pc |-> "idle", op |-> "report", name |-> NoName, slot |-> 1, online |-> FALSE, id |-> 0]
IdleSdk == [pc |-> "idle", name |-> NoName, slot |-> 1, id |-> 0]

\* In a call of a report, for the record of before.
At(pc, id) == [Idle EXCEPT !.pc = pc, !.slot = main.slot, !.id = id]

MutexFree == main.pc = "idle"   \* ue.mutex, held while an event is handled

MainHas(s) == main.pc \notin {"idle", "alloc"} /\ main.slot = s
SdkHas(s)  == sdk.pc \notin {"idle", "alloc"} /\ sdk.slot = s

\* Freeing s now leaves a handle or the main thread with a stale address.
Tied(s) == MainHas(s) \/ \E id \in Live : handles[id].slot = s

\* A step that is taken only in the instances with clashes.
Clashing(how) == how => "clash" \in Faults

Init ==
    /\ subs = [s \in Slots |-> NoRecord]
    /\ disk = subs
    /\ handles = [id \in Ids |-> NoHandle]
    /\ made = 0
    /\ main = Idle
    /\ sdk = IdleSdk

---------------------------------------------------------------------------
(* The main thread: reports of the radio module.                           *)

\* While the other thread deletes the record, or deleting it while the other
\* waits to do so, is a clash.
Start(op, pc, n, s, o, id) ==
    /\ main.pc = "idle"
    /\ Clashing(SdkHas(s) /\ (op = "delete" \/ sdk.pc # "mutex"))
    /\ main' = [pc |-> pc, op |-> op, name |-> n, slot |-> s, online |-> o, id |-> id]
    /\ UNCHANGED <<subs, disk, handles, made, sdk>>

\* afly_nxp_reg, for each device of a list and for a device that was added.
\* Devices of an unknown model are sent away and change nothing here.
RegReport(n, o) ==
    \/ /\ n \in InUse(subs)
       /\ LET s == Search(subs, n) IN
          Start("report", IF subs[s].devid = 0 THEN "register" ELSE "update", NoName, s, o, 0)
    \/ /\ n \notin InUse(subs)
       /\ Clashing(sdk.pc = "alloc" /\ sdk.name = n)
       /\ main.pc = "idle"
       /\ main' = [Idle EXCEPT !.pc = "alloc", !.name = n, !.online = o]
       /\ UNCHANGED <<subs, disk, handles, made, sdk>>

\* afly_nxp_upt_online: devices without a handle are left alone.
StatusReport(n, o) ==
    /\ n \in InUse(subs)
    /\ subs[Search(subs, n)].devid # 0
    /\ Start("report", "update", NoName, Search(subs, n), o, 0)

\* afly_nxp_unreg up to the call that destroys the handle.
UnregReport(n) ==
    /\ n \in InUse(subs)
    /\ LET s == Search(subs, n) IN
       /\ subs[s].devid # 0
       /\ Start("delete", "destroy", n, s, FALSE, subs[s].devid)

\* afly_nxp_rpt_event with something to tell the cloud.
EventReport(n) ==
    /\ n \in InUse(subs)
    /\ LET s == Search(subs, n) IN Start("event", "event", NoName, s, FALSE, subs[s].devid)

\* product_sub_add in afly_nxp_reg, from its own search on, and the search
\* that follows it: with a full table the registration ends here.
MainAllocates ==
    /\ main.pc = "alloc"
    /\ LET table == Add(subs, main.name)  found == main.name \in InUse(table) IN
       /\ Saved(table)
       /\ main' = IF found
                  THEN [main EXCEPT !.pc = "register", !.name = NoName, !.slot = Search(table, main.name)]
                  ELSE Idle
    /\ UNCHANGED <<handles, made, sdk>>

\* linkkit_gateway_subdev_register; the name for the handle is then read from
\* the record.
RegisterReturns(ok) ==
    /\ main.pc = "register"
    /\ ok \/ "fail" \in Faults
    /\ main' = IF ok THEN [main EXCEPT !.pc = "create", !.name = subs[main.slot].name] ELSE Idle
    /\ UNCHANGED <<subs, disk, handles, made, sdk>>

\* linkkit_gateway_subdev_create: the number goes into the record, unsaved.
CreateReturns(id) ==
    /\ main.pc = "create"
    /\ main.name # NoName
    /\ \/ /\ id \in Of(main.name)
          /\ UNCHANGED <<handles, made>>
       \/ /\ Of(main.name) = {}
          /\ id = made + 1
          /\ made' = id
          /\ handles' = [handles EXCEPT ![id] = [name |-> main.name, slot |-> main.slot, login |-> FALSE]]
    /\ subs' = [subs EXCEPT ![main.slot].devid = id]
    /\ main' = [main EXCEPT !.pc = IF main.op = "event" THEN "again" ELSE "update", !.name = NoName]
    /\ UNCHANGED <<disk, sdk>>

\* The condition on a failing creation; MaxHandle bounds the others.
MayFailToCreate == "fail" \in Faults \/ main.name = NoName \/ Of(main.name) # {} \/ made = MaxHandle

\* A slip: the result is stored before it is looked at.
CreateFailsStored ==
    /\ main.pc = "create"
    /\ MayFailToCreate
    /\ subs' = [subs EXCEPT ![main.slot].devid = -1]
    /\ main' = At("giveup", 0)
    /\ UNCHANGED <<disk, handles, made, sdk>>

CreateFails ==
    /\ main.pc = "create"
    /\ MayFailToCreate
    /\ main' = At("giveup", 0)
    /\ UNCHANGED <<subs, disk, handles, made, sdk>>

\* The last call of a report, whose result nobody looks at: unregistering after
\* a failed creation, registering again, posting the state.
LastCallReturns ==
    /\ main.pc \in {"giveup", "again", "post"}
    /\ main' = Idle
    /\ UNCHANGED <<subs, disk, handles, made, sdk>>

\* The record gets the reported state and is saved, wherever the address now
\* leads; then the login is made to follow.
UpdateRecord ==
    /\ main.pc = "update"
    /\ LET r == subs[main.slot] IN
       /\ Saved([subs EXCEPT ![main.slot].online = main.online])
       /\ main' = CASE main.online /\ ~r.login -> At("login", r.devid)
                    [] ~main.online /\ r.login -> At("logout", r.devid)
                    [] main.online /\ r.login  -> At("post", 0)
                    [] OTHER                   -> Idle
    /\ UNCHANGED <<handles, made, sdk>>

\* linkkit_gateway_subdev_login, in both of its places.
LoginReturns(ok) ==
    /\ main.pc = "login"
    /\ SetLogin(main.id, TRUE, ok)
    /\ subs' = [subs EXCEPT ![main.slot].login = ok]
    /\ main' = IF ok THEN At("post", 0) ELSE Idle
    /\ UNCHANGED <<disk, made, sdk>>

\* A slip: the device counts as logged out whatever the result is.
LogoutReturnsUnread(ok) ==
    /\ main.pc = "logout"
    /\ SetLogin(main.id, FALSE, ok)
    /\ subs' = [subs EXCEPT ![main.slot].login = FALSE]
    /\ main' = Idle
    /\ UNCHANGED <<disk, made, sdk>>

\* linkkit_gateway_subdev_logout: after a failure the state is posted still.
LogoutReturns(ok) ==
    /\ main.pc = "logout"
    /\ SetLogin(main.id, FALSE, ok)
    /\ subs' = [subs EXCEPT ![main.slot].login = ~ok]
    /\ main' = IF ok THEN Idle ELSE At("post", 0)
    /\ UNCHANGED <<disk, made, sdk>>

\* A slip: the result of the call is not looked at.
DestroyReturnsUnread(ok) ==
    /\ main.pc = "destroy"
    /\ Destroy(main.id, ok)
    /\ main' = [main EXCEPT !.pc = "unregister", !.id = 0]
    /\ UNCHANGED <<subs, disk, made, sdk>>

DestroyReturns(ok) ==
    /\ main.pc = "destroy"
    /\ Destroy(main.id, ok)
    /\ main' = IF ok THEN [main EXCEPT !.pc = "unregister", !.id = 0] ELSE Idle
    /\ UNCHANGED <<subs, disk, made, sdk>>

\* linkkit_gateway_subdev_unregister: after a failure the record stays, with the
\* number of the handle that is gone.
UnregisterReturns(ok) ==
    /\ main.pc = "unregister"
    /\ ok \/ "fail" \in Faults
    /\ IF ok THEN Saved(Del(subs, subs[main.slot].name)) ELSE UNCHANGED <<subs, disk>>
    /\ main' = Idle
    /\ UNCHANGED <<handles, made, sdk>>

LoggedIn(id) == id \in Live /\ handles[id].login

\* linkkit_gateway_trigger_event_json_sync: -520 says that the device is not
\* logged in; it is registered and created then, and the event is given up.
EventReturns ==
    /\ main.pc = "event"
    /\ \/ main' = Idle
       \/ ~LoggedIn(main.id) /\ main' = [main EXCEPT !.pc = "register", !.id = 0]
    /\ UNCHANGED <<subs, disk, handles, made, sdk>>

---------------------------------------------------------------------------
(* The library's thread: services and events of the cloud.                 *)

\* gateway_add_subdev, for one device of its list that is not in the table.
AddSubDev(n) ==
    /\ sdk.pc = "idle"
    /\ n \notin InUse(subs)
    /\ Clashing(main.pc = "alloc" /\ main.name = n)
    /\ sdk' = [IdleSdk EXCEPT !.pc = "alloc", !.name = n]
    /\ UNCHANGED <<subs, disk, handles, made, main>>

\* product_sub_add there.
SdkAllocates ==
    /\ sdk.pc = "alloc"
    /\ Saved(Add(subs, sdk.name))
    /\ sdk' = IdleSdk
    /\ UNCHANGED <<handles, made, main>>

\* gateway_del_subdev, for one device: the handle is not touched.
DelSubDev(n) ==
    /\ "cloud" \in Faults
    /\ sdk.pc = "idle"
    /\ n \in InUse(subs)
    /\ Clashing(Tied(Search(subs, n)))
    /\ Saved(Del(subs, n))
    /\ UNCHANGED <<handles, made, main, sdk>>

\* gateway_clr_subdev, with product_sub_clr.
ClrSubDev ==
    /\ "cloud" \in Faults
    /\ sdk.pc = "idle"
    /\ Clashing(\E s \in Slots : Tied(s))
    /\ Saved([s \in Slots |-> NoRecord])
    /\ UNCHANGED <<handles, made, main, sdk>>

\* LINKKIT_EVENT_SUBDEV_DELETED: the record is searched; nxp_del_device then
\* waits for the mutex.
DeletedEvent(n) ==
    /\ "cloud" \in Faults
    /\ sdk.pc = "idle"
    /\ n \in InUse(subs)
    /\ LET s == Search(subs, n) IN
       /\ Clashing(MainHas(s) /\ main.op = "delete")
       /\ sdk' = [IdleSdk EXCEPT !.pc = "mutex", !.name = n, !.slot = s]
    /\ UNCHANGED <<subs, disk, handles, made, main>>

DeviceSentAway ==
    /\ sdk.pc = "mutex"
    /\ MutexFree
    /\ sdk' = [sdk EXCEPT !.pc = "destroy", !.id = subs[sdk.slot].devid]
    /\ UNCHANGED <<subs, disk, handles, made, main>>

\* Failures are logged, and the deletion goes on.
SdkDestroyReturns(ok) ==
    /\ sdk.pc = "destroy"
    /\ Clashing(~ok /\ sdk.id \in Live)
    /\ Destroy(sdk.id, ok)
    /\ sdk' = [sdk EXCEPT !.pc = "unregister", !.id = 0]
    /\ UNCHANGED <<subs, disk, made, main>>

SdkUnregisterReturns ==
    /\ sdk.pc = "unregister"
    /\ Saved(Del(subs, subs[sdk.slot].name))
    /\ sdk' = IdleSdk
    /\ UNCHANGED <<handles, made, main>>

\* The process dies and starts again: product_sub_load_all.
Restart ==
    /\ "crash" \in Faults
    /\ subs' = disk
    /\ handles' = [id \in Ids |-> NoHandle]
    /\ made' = 0
    /\ main' = Idle
    /\ sdk' = IdleSdk
    /\ UNCHANGED disk

---------------------------------------------------------------------------

MainNext ==
    \/ \E n \in Names, o \in BOOLEAN : RegReport(n, o) \/ StatusReport(n, o)
    \/ \E n \in Names : UnregReport(n) \/ EventReport(n)
    \/ MainAllocates
    \/ \E id \in Ids : CreateReturns(id)
    \/ CreateFails
    \/ LastCallReturns
    \/ UpdateRecord
    \/ \E ok \in BOOLEAN : \/ RegisterReturns(ok)
                           \/ LoginReturns(ok)
                           \/ LogoutReturns(ok)
                           \/ DestroyReturns(ok)
                           \/ UnregisterReturns(ok)
    \/ EventReturns

SdkNext ==
    \/ \E n \in Names : AddSubDev(n) \/ DelSubDev(n) \/ DeletedEvent(n)
    \/ SdkAllocates
    \/ ClrSubDev
    \/ DeviceSentAway
    \/ \E ok \in BOOLEAN : SdkDestroyReturns(ok)
    \/ SdkUnregisterReturns

Next == MainNext \/ SdkNext \/ Restart

Spec == Init /\ [][Next]_vars

---------------------------------------------------------------------------
(* Properties.                                                             *)

\* Every variable has its kind.
TypeOK ==
    /\ subs \in [Slots -> Records]
    /\ disk \in [Slots -> Records]
    /\ handles \in [Ids -> [name : AnyName, slot : Slots, login : BOOLEAN]]
    /\ made \in 0..MaxHandle
    /\ main \in MainPlaces
    /\ sdk \in SdkPlaces

\* No device has two records: the searches before an addition are enough,
\* unless both threads search before either of them adds.
UniqueNames ==
    \A n \in Names : Cardinality({s \in Slots : subs[s].name = n}) <= 1

\* The context of every handle is a record in use, of the same device, that
\* knows the handle: what the callbacks of a device rely on.
HandlesOwned ==
    \A id \in Live : /\ subs[handles[id].slot].name = handles[id].name
                     /\ subs[handles[id].slot].devid = id

\* A device that is logged in at the cloud has its login flag set, so that it
\* is logged out when it goes offline: no failure of a call, and no reuse of a
\* record, leaves a login the gateway does not know of.
LoginsKnown == \A id \in Live : handles[id].login => subs[handles[id].slot].login

\* The device whose record goes is the one that was to be deleted, though the
\* record is found at the beginning of a deletion and freed at its end.
RightDeviceLeaves ==
    [][/\ UnregisterReturns(TRUE) => InUse(subs) \ InUse(subs') \subseteq {main.name}
       /\ SdkUnregisterReturns    => InUse(subs) \ InUse(subs') \subseteq {sdk.name}]_vars

\* The table as a map: duplicates are shadowed by the record found first.
DeviceState ==
    [n \in Names |-> IF n \notin InUse(subs) THEN "unknown"
                     ELSE IF subs[Search(subs, n)].online THEN "online" ELSE "offline"]

Map == INSTANCE DeviceMap WITH Capacity <- MaxSub, device <- DeviceState

\* The table is such a map, whatever the threads do to each other: each step
\* concerns one device, or empties the table.
ImplementsMap == Map!Spec

\* A restart finds all devices in the state last reported.
RestartKeepsDevices == [][Restart => DeviceState' = DeviceState]_vars

\* The list given to the cloud names all devices.
ListComplete == List(subs) = InUse(subs)
=============================================================================
