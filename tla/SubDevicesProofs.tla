-------------------------- MODULE SubDevicesProofs --------------------------
(***************************************************************************)
(* Proofs about SubDevices, for any devices, sizes and faults.             *)
(***************************************************************************)
EXTENDS SubDevices, FiniteSetTheorems, WellFoundedInduction, TLAPS

---------------------------------------------------------------------------
(* The first slot of a set, and the searches of the table. *)

LEMMA FirstSlot ==
    ASSUME NEW T, T \subseteq Slots, T # {}
    PROVE  \E s \in T : \A t \in T : s <= t
<1>1. T \subseteq Nat
  BY SizeAssumption DEF Slots
<1>2. PICK s \in T : \A t \in T : ~ (<<t, s>> \in OpToRel(<, Nat))
  BY <1>1, NatLessThanWellFounded, WFMin
<1>3. \A t \in T : ~(t < s)
  BY <1>1, <1>2 DEF OpToRel
<1> QED
  BY <1>1, <1>3

Tables == [Slots -> Records]

LEMMA SearchFacts ==
    ASSUME NEW table \in Tables, NEW n \in InUse(table)
    PROVE  /\ Search(table, n) \in Slots /\ table[Search(table, n)].name = n
           /\ \A t \in 1..(Search(table, n) - 1) : table[t].name # n
<1>1. Named(table, n) \subseteq Slots /\ Named(table, n) # {}
  BY DEF InUse, Named
<1>2. PICK s \in Named(table, n) : \A t \in Named(table, n) : s <= t
  BY <1>1, FirstSlot
<1>3. s \in Slots /\ table[s].name = n /\ \A t \in 1..(s - 1) : table[t].name # n
  BY <1>2, SizeAssumption DEF Named, Slots
<1> QED
  BY <1>3 DEF Search

LEMMA RecordFacts ==
    /\ NoRecord \in Records /\ NoRecord.name = NoName /\ NoRecord.devid = 0
    /\ NoRecord.login = FALSE /\ NoRecord.online = FALSE
    /\ \A n \in AnyName : /\ Fresh(n) \in Records
                          /\ Fresh(n).name = n /\ Fresh(n).devid = 0
                          /\ Fresh(n).login = FALSE /\ Fresh(n).online = FALSE
    /\ \A r \in Records : /\ Durable(r) \in Records /\ Durable(r).name = r.name
                          /\ Durable(r).devid = 0 /\ Durable(r).login = FALSE
                          /\ Durable(r).online = r.online
<1>1. 0 \in 0..MaxHandle
  BY SizeAssumption
<1>2. /\ NoRecord \in Records /\ NoRecord.name = NoName /\ NoRecord.devid = 0
      /\ NoRecord.login = FALSE /\ NoRecord.online = FALSE
  BY <1>1 DEF NoRecord, Records, AnyName
<1>3. ASSUME NEW n \in AnyName
      PROVE  /\ Fresh(n) \in Records
             /\ Fresh(n).name = n /\ Fresh(n).devid = 0
             /\ Fresh(n).login = FALSE /\ Fresh(n).online = FALSE
  BY <1>2 DEF Fresh, Records
<1>4. ASSUME NEW r \in Records
      PROVE  /\ Durable(r) \in Records /\ Durable(r).name = r.name
             /\ Durable(r).devid = 0 /\ Durable(r).login = FALSE
             /\ Durable(r).online = r.online
  BY <1>1 DEF Durable, Records
<1> QED
  BY <1>2, <1>3, <1>4

\* What the two changes of the table give.
LEMMA AddFacts ==
    ASSUME NEW table \in Tables, NEW n \in AnyName
    PROVE  /\ Add(table, n) \in Tables
           /\ \/ Malloc(table) = {} /\ Add(table, n) = table
              \/ \E s \in Slots : /\ table[s].name = NoName
                                  /\ Add(table, n) = [table EXCEPT ![s] = Fresh(n)]
<1>1. Fresh(n) \in Records
  BY RecordFacts
<1>2. Add(table, n) \in Tables
  BY <1>1 DEF Add, Tables
<1>3. CASE Malloc(table) = {}
  BY <1>2, <1>3 DEF Add, Tables
<1>4. CASE Malloc(table) # {}
  <2>1. PICK s \in Malloc(table) : TRUE
    BY <1>4
  <2>2. s \in Slots /\ table[s].name = NoName
    BY <2>1 DEF Malloc
  <2>3. \A t \in Malloc(table) : t = s
    BY <2>1, SizeAssumption DEF Malloc, Slots
  <2>4. Add(table, n) = [table EXCEPT ![s] = Fresh(n)]
    BY <2>1, <2>2, <2>3 DEF Add, Tables
  <2> QED
    BY <1>2, <2>2, <2>4
<1> QED
  BY <1>2, <1>3, <1>4

LEMMA DelFacts ==
    ASSUME NEW table \in Tables, NEW n \in AnyName
    PROVE  /\ Del(table, n) \in Tables
           /\ \/ n \notin InUse(table) /\ Del(table, n) = table
              \/ \E s \in Slots : /\ n \in InUse(table) /\ s = Search(table, n)
                                  /\ table[s].name = n
                                  /\ Del(table, n) = [table EXCEPT ![s] = NoRecord]
<1>1. CASE n \notin InUse(table)
  BY <1>1 DEF Del
<1>2. CASE n \in InUse(table)
  <2>1. Search(table, n) \in Slots /\ table[Search(table, n)].name = n
    BY <1>2, SearchFacts
  <2> QED
    BY <1>2, <2>1, RecordFacts DEF Del, Tables
<1> QED
  BY <1>1, <1>2

LEMMA SavedFacts ==
    ASSUME NEW table \in Tables, Saved(table)
    PROVE  subs' = table /\ disk' \in Tables /\ disk' = [s \in Slots |-> Durable(table[s])]
  BY RecordFacts DEF Saved, Tables

---------------------------------------------------------------------------
(* Types. *)

LEMMA PlaceFacts ==
    /\ Idle \in MainPlaces /\ IdleSdk \in SdkPlaces
    /\ Idle.pc = "idle" /\ IdleSdk.pc = "idle" /\ Idle.op = "report"
    /\ main \in MainPlaces =>
         \A pc \in MainAt, id \in 0..MaxHandle :
            /\ At(pc, id) \in MainPlaces /\ At(pc, id).pc = pc /\ At(pc, id).op = "report"
            /\ At(pc, id).slot = main.slot /\ At(pc, id).id = id /\ At(pc, id).name = NoName
<1>1. /\ 0 \in 0..MaxHandle /\ 1 \in Slots
      /\ Ids \subseteq 0..MaxHandle
  BY SizeAssumption DEF Slots, Ids
<1>2. Idle \in MainPlaces /\ IdleSdk \in SdkPlaces
  BY <1>1 DEF Idle, IdleSdk, MainPlaces, SdkPlaces, MainAt, SdkAt, AnyName
<1>3. Idle.pc = "idle" /\ IdleSdk.pc = "idle" /\ Idle.op = "report"
  BY DEF Idle, IdleSdk
<1>4. /\ Idle.name = NoName /\ Idle.id = 0
  BY DEF Idle
<1>5. ASSUME main \in MainPlaces, NEW pc \in MainAt, NEW id \in 0..MaxHandle
      PROVE  /\ At(pc, id) \in MainPlaces /\ At(pc, id).pc = pc /\ At(pc, id).op = "report"
             /\ At(pc, id).slot = main.slot /\ At(pc, id).id = id /\ At(pc, id).name = NoName
  <2>1. main.slot \in Slots
    BY <1>5 DEF MainPlaces
  <2> QED
    BY <1>2, <1>3, <1>4, <2>1 DEF At, MainPlaces
<1> QED
  BY <1>2, <1>3, <1>4, <1>5

\* The main thread goes on with the record it works on.
LEMMA MoveFacts ==
    /\ main \in MainPlaces => \A pc \in MainAt :
         /\ \A n \in AnyName : [main EXCEPT !.pc = pc, !.name = n] \in MainPlaces
         /\ \A n \in AnyName, s \in Slots :
               [main EXCEPT !.pc = pc, !.name = n, !.slot = s] \in MainPlaces
         /\ \A id \in 0..MaxHandle : [main EXCEPT !.pc = pc, !.id = id] \in MainPlaces
    /\ \A n \in AnyName, o \in BOOLEAN :
         [Idle EXCEPT !.pc = "alloc", !.name = n, !.online = o] \in MainPlaces
<1>1. \A n \in AnyName, o \in BOOLEAN :
         [Idle EXCEPT !.pc = "alloc", !.name = n, !.online = o] \in MainPlaces
  BY PlaceFacts DEF MainPlaces, MainAt
<1> QED
  BY <1>1 DEF MainPlaces

Handles == [Ids -> [name : AnyName, slot : Slots, login : BOOLEAN]]

LEMMA HandleFacts ==
    /\ NoHandle \in [name : AnyName, slot : Slots, login : BOOLEAN]
    /\ NoHandle.name = NoName
  BY SizeAssumption DEF NoHandle, AnyName, Slots

LEMMA TypesInit == Init => TypeOK
<1>1. /\ 0 \in 0..MaxHandle
      /\ [s \in Slots |-> NoRecord] \in [Slots -> Records]
      /\ [id \in Ids |-> NoHandle] \in Handles
  BY SizeAssumption, RecordFacts, HandleFacts DEF Handles
<1> QED
  BY <1>1, PlaceFacts DEF Init, TypeOK, Handles

LEMMA MainStepTypes == TypeOK /\ MainNext => TypeOK'
<1> SUFFICES ASSUME TypeOK, MainNext PROVE TypeOK'
  OBVIOUS
<1>0a. /\ subs \in Tables /\ handles \in Handles /\ disk \in Tables
       /\ made \in 0..MaxHandle /\ main \in MainPlaces /\ sdk \in SdkPlaces
  BY DEF TypeOK, Tables, Handles
<1>0b. /\ main.slot \in Slots /\ main.id \in 0..MaxHandle /\ main.name \in AnyName
       /\ main.online \in BOOLEAN
  BY <1>0a DEF MainPlaces
<1>0c. /\ Names \subseteq AnyName /\ NoName \in AnyName
       /\ 0 \in 0..MaxHandle /\ Ids \subseteq 0..MaxHandle /\ 1 \in Slots
  BY SizeAssumption DEF AnyName, Ids, Slots
<1>0d. \A s \in Slots : /\ subs[s].devid \in 0..MaxHandle /\ subs[s].name \in AnyName
                        /\ subs[s].login \in BOOLEAN /\ subs[s].online \in BOOLEAN
                        /\ subs[s] \in Records
  BY <1>0a DEF Tables, Records
<1>0. /\ subs \in Tables /\ handles \in Handles /\ disk \in Tables
      /\ made \in 0..MaxHandle /\ main \in MainPlaces /\ sdk \in SdkPlaces
      /\ main.slot \in Slots /\ main.id \in 0..MaxHandle /\ main.name \in AnyName
      /\ main.online \in BOOLEAN /\ Names \subseteq AnyName /\ NoName \in AnyName
      /\ 0 \in 0..MaxHandle /\ Ids \subseteq 0..MaxHandle /\ 1 \in Slots
      /\ \A s \in Slots : /\ subs[s].devid \in 0..MaxHandle /\ subs[s].name \in AnyName
                          /\ subs[s] \in Records
  BY <1>0a, <1>0b, <1>0c, <1>0d
<1>1. ASSUME subs' \in Tables, disk' \in Tables, handles' \in Handles,
             made' \in 0..MaxHandle, main' \in MainPlaces, sdk' = sdk
      PROVE  TypeOK'
  BY <1>0, <1>1 DEF TypeOK, Tables, Handles
<1>2. ASSUME NEW op \in {"report", "delete", "event"}, NEW pc \in MainAt, NEW n \in AnyName,
             NEW s \in Slots, NEW o \in BOOLEAN, NEW id \in 0..MaxHandle,
             Start(op, pc, n, s, o, id)
      PROVE  TypeOK'
  BY <1>0, <1>1, <1>2 DEF Start, MainPlaces
<1>3. \A n \in Names : n \in InUse(subs) => Search(subs, n) \in Slots
  BY <1>0, SearchFacts
<1>a. ASSUME NEW n \in Names, NEW o \in BOOLEAN, RegReport(n, o)
      PROVE  TypeOK'
  <2>1. CASE n \in InUse(subs)
    <3>1. \/ Start("report", "register", NoName, Search(subs, n), o, 0)
          \/ Start("report", "update", NoName, Search(subs, n), o, 0)
      BY <1>a, <2>1 DEF RegReport
    <3> QED
      BY <1>0, <1>2, <1>3, <2>1, <3>1 DEF MainAt
  <2>2. CASE n \notin InUse(subs)
    <3>1. main' = [Idle EXCEPT !.pc = "alloc", !.name = n, !.online = o]
      BY <1>a, <2>2 DEF RegReport
    <3>2. main' \in MainPlaces
      BY <1>0, <3>1, MoveFacts DEF MainAt
    <3> QED
      BY <1>0, <1>1, <1>a, <2>2, <3>2 DEF RegReport
  <2> QED
    BY <2>1, <2>2
<1>b. ASSUME NEW n \in Names, NEW o \in BOOLEAN, StatusReport(n, o)
      PROVE  TypeOK'
  <2>1. /\ n \in InUse(subs)
        /\ Start("report", "update", NoName, Search(subs, n), o, 0)
    BY <1>b DEF StatusReport
  <2> QED
    BY <1>0, <1>2, <1>3, <2>1 DEF MainAt
<1>c. ASSUME NEW n \in Names, UnregReport(n)
      PROVE  TypeOK'
  <2>1. /\ n \in InUse(subs)
        /\ Start("delete", "destroy", n, Search(subs, n), FALSE, subs[Search(subs, n)].devid)
    BY <1>c DEF UnregReport
  <2> QED
    BY <1>0, <1>2, <1>3, <2>1 DEF MainAt
<1>d. ASSUME NEW n \in Names, EventReport(n)
      PROVE  TypeOK'
  <2>1. /\ n \in InUse(subs)
        /\ Start("event", "event", NoName, Search(subs, n), FALSE, subs[Search(subs, n)].devid)
    BY <1>d DEF EventReport
  <2> QED
    BY <1>0, <1>2, <1>3, <2>1 DEF MainAt
<1>e. CASE MainAllocates
  <2>1. CASE main.name \in Names
    <3>1. /\ Add(subs, main.name) \in Tables /\ Saved(Add(subs, main.name))
          /\ UNCHANGED <<handles, made, sdk>>
      BY <1>0, <1>e, <2>1, AddFacts DEF MainAllocates
    <3>2. subs' \in Tables /\ disk' \in Tables
      BY <3>1, SavedFacts
    <3>3. main.name \in InUse(Add(subs, main.name)) => Search(Add(subs, main.name), main.name) \in Slots
      BY <3>1, SearchFacts
    <3>4. main' \in MainPlaces
      <4>1. \/ main' = Idle
            \/ \E s \in Slots : main' = [main EXCEPT !.pc = "register", !.name = NoName, !.slot = s]
        <5>1. CASE main.name \in InUse(Add(subs, main.name))
          BY <1>e, <3>3, <5>1 DEF MainAllocates
        <5>2. CASE main.name \notin InUse(Add(subs, main.name))
          BY <1>e, <5>2 DEF MainAllocates
        <5> QED
          BY <5>1, <5>2
      <4>2. "register" \in MainAt
        BY DEF MainAt
      <4>3. \A s \in Slots : [main EXCEPT !.pc = "register", !.name = NoName, !.slot = s] \in MainPlaces
        BY <1>0, <4>2, MoveFacts
      <4>4. CASE main' = Idle
        BY <4>4, PlaceFacts
      <4>5. CASE \E s \in Slots : main' = [main EXCEPT !.pc = "register", !.name = NoName, !.slot = s]
        <5>1. PICK s \in Slots : main' = [main EXCEPT !.pc = "register", !.name = NoName, !.slot = s]
          BY <4>5
        <5>2. [main EXCEPT !.pc = "register", !.name = NoName, !.slot = s] \in MainPlaces
          BY <4>3
        <5> QED
          BY <5>1, <5>2
      <4> QED
        BY <4>1, <4>4, <4>5
    <3> QED
      BY <1>0, <1>1, <3>1, <3>2, <3>4
  <2>2. CASE main.name = NoName
    <3>1. Add(subs, NoName) \in Tables
      <4>1. Fresh(NoName) \in Records
        BY <1>0, RecordFacts
      <4> QED
        BY <1>0, <4>1 DEF Add, Tables
    <3>2. subs' \in Tables /\ disk' \in Tables /\ UNCHANGED <<handles, made, sdk>>
      BY <1>e, <2>2, <3>1, SavedFacts DEF MainAllocates
    <3>3. main' = Idle
      BY <1>e, <2>2, NameAssumption DEF MainAllocates, InUse
    <3> QED
      BY <1>0, <1>1, <3>2, <3>3, PlaceFacts
  <2> QED
    BY <1>0, <2>1, <2>2 DEF AnyName
<1>f. ASSUME NEW id \in Ids, CreateReturns(id)
      PROVE  TypeOK'
  <2>1. subs' \in Tables
    BY <1>0, <1>f DEF CreateReturns, Tables, Records
  <2>2. handles' \in Handles /\ made' \in 0..MaxHandle
    <3>1. CASE UNCHANGED <<handles, made>>
      BY <1>0, <3>1
    <3>2. CASE /\ made' = id
               /\ handles' = [handles EXCEPT ![id] = [name |-> main.name, slot |-> main.slot, login |-> FALSE]]
      BY <1>0, <3>2 DEF Handles
    <3> QED
      BY <1>f, <3>1, <3>2 DEF CreateReturns
  <2>3. main' \in MainPlaces
    BY <1>0, <1>f, MoveFacts DEF CreateReturns, MainAt
  <2> QED
    BY <1>0, <1>1, <1>f, <2>1, <2>2, <2>3 DEF CreateReturns
<1>g. CASE CreateFails
  BY <1>0, <1>1, <1>g, PlaceFacts DEF CreateFails, MainAt
<1>h. CASE LastCallReturns
  BY <1>0, <1>1, <1>h, PlaceFacts DEF LastCallReturns
<1>i. CASE UpdateRecord
  <2>1. [subs EXCEPT ![main.slot].online = main.online] \in Tables
    BY <1>0 DEF Tables, Records
  <2>2. subs' \in Tables /\ disk' \in Tables
    BY <1>i, <2>1, SavedFacts DEF UpdateRecord
  <2>3. subs[main.slot].login \in BOOLEAN
    BY <1>0 DEF Records
  <2>4. \/ main' = At("login", subs[main.slot].devid)
        \/ main' = At("logout", subs[main.slot].devid)
        \/ main' = At("post", 0)
        \/ main' = Idle
    BY <1>0, <1>i, <2>3 DEF UpdateRecord
  <2>5. main' \in MainPlaces
    BY <1>0, <2>4, PlaceFacts DEF MainAt
  <2> QED
    BY <1>0, <1>1, <1>i, <2>2, <2>5 DEF UpdateRecord
<1>j. ASSUME NEW ok \in BOOLEAN, RegisterReturns(ok)
      PROVE  TypeOK'
  <2>1. main' \in MainPlaces
    <3>1. main' = [main EXCEPT !.pc = "create", !.name = subs[main.slot].name] \/ main' = Idle
      BY <1>j DEF RegisterReturns
    <3>2. "create" \in MainAt
      BY DEF MainAt
    <3>3. [main EXCEPT !.pc = "create", !.name = subs[main.slot].name] \in MainPlaces
      BY <1>0, <3>2, MoveFacts
    <3> QED
      BY <3>1, <3>3, PlaceFacts
  <2> QED
    BY <1>0, <1>1, <1>j, <2>1 DEF RegisterReturns
<1>4. ASSUME NEW id \in 0..MaxHandle, NEW to \in BOOLEAN, NEW ok \in BOOLEAN,
             SetLogin(id, to, ok) \/ Destroy(id, ok)
      PROVE  handles' \in Handles
  BY <1>0, <1>4, HandleFacts DEF SetLogin, Destroy, Handles
<1>k. ASSUME NEW ok \in BOOLEAN, LoginReturns(ok) \/ LogoutReturns(ok)
      PROVE  TypeOK'
  <2>1. subs' \in Tables
    <3>1. \E b \in BOOLEAN : subs' = [subs EXCEPT ![main.slot].login = b]
      BY <1>k DEF LoginReturns, LogoutReturns
    <3> QED
      BY <1>0, <3>1 DEF Tables, Records
  <2>2. handles' \in Handles
    BY <1>0, <1>4, <1>k DEF LoginReturns, LogoutReturns
  <2>3. main' \in MainPlaces
    <3>1. main' = Idle \/ main' = At("post", 0)
      BY <1>k DEF LoginReturns, LogoutReturns
    <3> QED
      BY <1>0, <3>1, PlaceFacts DEF MainAt
  <2> QED
    BY <1>0, <1>1, <1>k, <2>1, <2>2, <2>3 DEF LoginReturns, LogoutReturns
<1>l. ASSUME NEW ok \in BOOLEAN, DestroyReturns(ok)
      PROVE  TypeOK'
  <2>1. handles' \in Handles
    BY <1>0, <1>4, <1>l DEF DestroyReturns
  <2>2. main' \in MainPlaces
    <3>1. main' = Idle \/ main' = [main EXCEPT !.pc = "unregister", !.id = 0]
      BY <1>l DEF DestroyReturns
    <3>2. "unregister" \in MainAt
      BY DEF MainAt
    <3>3. [main EXCEPT !.pc = "unregister", !.id = 0] \in MainPlaces
      BY <1>0, <3>2, MoveFacts
    <3> QED
      BY <3>1, <3>3, PlaceFacts
  <2> QED
    BY <1>0, <1>1, <1>l, <2>1, <2>2 DEF DestroyReturns
<1>m. ASSUME NEW ok \in BOOLEAN, UnregisterReturns(ok)
      PROVE  TypeOK'
  <2>1. Del(subs, subs[main.slot].name) \in Tables
    BY <1>0, DelFacts
  <2>2. subs' \in Tables /\ disk' \in Tables
    BY <1>0, <1>m, <2>1, SavedFacts DEF UnregisterReturns
  <2> QED
    BY <1>0, <1>1, <1>m, <2>2, PlaceFacts DEF UnregisterReturns
<1>n. CASE EventReturns
  <2>1. main' \in MainPlaces
    <3>1. main' = Idle \/ main' = [main EXCEPT !.pc = "register", !.id = 0]
      BY <1>n DEF EventReturns
    <3>2. "register" \in MainAt
      BY DEF MainAt
    <3>3. [main EXCEPT !.pc = "register", !.id = 0] \in MainPlaces
      BY <1>0, <3>2, MoveFacts
    <3> QED
      BY <3>1, <3>3, PlaceFacts
  <2> QED
    BY <1>0, <1>1, <1>n, <2>1 DEF EventReturns
<1> QED
  BY <1>a, <1>b, <1>c, <1>d, <1>e, <1>f, <1>g, <1>h, <1>i, <1>j, <1>k, <1>l, <1>m, <1>n
     DEF MainNext

LEMMA SdkStepTypes == TypeOK /\ SdkNext => TypeOK'
<1> SUFFICES ASSUME TypeOK, SdkNext PROVE TypeOK'
  OBVIOUS
<1>0. /\ subs \in Tables /\ handles \in Handles /\ disk \in Tables
      /\ made \in 0..MaxHandle /\ main \in MainPlaces /\ sdk \in SdkPlaces
  BY DEF TypeOK, Tables, Handles
<1>1. ASSUME subs' \in Tables, disk' \in Tables, handles' \in Handles,
             UNCHANGED <<made, main>>, sdk' \in SdkPlaces
      PROVE  TypeOK'
  BY <1>0, <1>1 DEF TypeOK, Tables, Handles
<1>2. /\ sdk.slot \in Slots /\ sdk.name \in AnyName /\ sdk.id \in 0..MaxHandle
      /\ 0 \in 0..MaxHandle /\ Names \subseteq AnyName
  BY <1>0, SizeAssumption DEF SdkPlaces, AnyName
<1>3. \A s \in Slots : subs[s].name \in AnyName /\ subs[s].devid \in 0..MaxHandle
  BY <1>0 DEF Tables, Records
<1>4. \A n \in Names : n \in InUse(subs) => Search(subs, n) \in Slots
  BY <1>0, SearchFacts
<1>a. ASSUME NEW n \in Names, AddSubDev(n)
      PROVE  TypeOK'
  <2>1. sdk' \in SdkPlaces
    BY <1>2, <1>a, PlaceFacts DEF AddSubDev, SdkPlaces, SdkAt
  <2> QED
    BY <1>0, <1>1, <1>a, <2>1 DEF AddSubDev
<1>b. CASE SdkAllocates
  <2>1. Add(subs, sdk.name) \in Tables
    <3>1. Fresh(sdk.name) \in Records
      BY <1>2, RecordFacts
    <3> QED
      BY <1>0, <3>1 DEF Add, Tables
  <2>2. subs' \in Tables /\ disk' \in Tables
    BY <1>b, <2>1, SavedFacts DEF SdkAllocates
  <2> QED
    BY <1>0, <1>1, <1>b, <2>2, PlaceFacts DEF SdkAllocates
<1>c. ASSUME NEW n \in Names, DelSubDev(n)
      PROVE  TypeOK'
  <2>1. Del(subs, n) \in Tables
    BY <1>0, <1>2, DelFacts
  <2>2. subs' \in Tables /\ disk' \in Tables
    BY <1>c, <2>1, SavedFacts DEF DelSubDev
  <2> QED
    BY <1>0, <1>1, <1>c, <2>2 DEF DelSubDev
<1>d. CASE ClrSubDev
  <2>1. [s \in Slots |-> NoRecord] \in Tables
    BY RecordFacts DEF Tables
  <2>2. subs' \in Tables /\ disk' \in Tables
    BY <1>d, <2>1, SavedFacts DEF ClrSubDev
  <2> QED
    BY <1>0, <1>1, <1>d, <2>2 DEF ClrSubDev
<1>e. ASSUME NEW n \in Names, DeletedEvent(n)
      PROVE  TypeOK'
  <2>1. sdk' = [IdleSdk EXCEPT !.pc = "mutex", !.name = n, !.slot = Search(subs, n)]
    BY <1>e DEF DeletedEvent
  <2>2. Search(subs, n) \in Slots /\ n \in AnyName /\ "mutex" \in SdkAt
    BY <1>2, <1>4, <1>e DEF DeletedEvent, SdkAt
  <2>3. sdk' \in SdkPlaces
    BY <2>1, <2>2, PlaceFacts DEF SdkPlaces
  <2> QED
    BY <1>0, <1>1, <1>e, <2>3 DEF DeletedEvent
<1>f. CASE DeviceSentAway
  <2>1. sdk' \in SdkPlaces
    BY <1>0, <1>2, <1>3, <1>f DEF DeviceSentAway, SdkPlaces, SdkAt
  <2> QED
    BY <1>0, <1>1, <1>f, <2>1 DEF DeviceSentAway
<1>g. ASSUME NEW ok \in BOOLEAN, SdkDestroyReturns(ok)
      PROVE  TypeOK'
  <2>1. sdk' \in SdkPlaces
    BY <1>0, <1>2, <1>g DEF SdkDestroyReturns, SdkPlaces, SdkAt
  <2>2. handles' \in Handles
    BY <1>0, <1>g, HandleFacts DEF SdkDestroyReturns, Destroy, Handles
  <2> QED
    BY <1>0, <1>1, <1>g, <2>1, <2>2 DEF SdkDestroyReturns
<1>h. CASE SdkUnregisterReturns
  <2>1. Del(subs, subs[sdk.slot].name) \in Tables
    BY <1>0, <1>2, <1>3, DelFacts
  <2>2. subs' \in Tables /\ disk' \in Tables
    BY <1>h, <2>1, SavedFacts DEF SdkUnregisterReturns
  <2> QED
    BY <1>0, <1>1, <1>h, <2>2, PlaceFacts DEF SdkUnregisterReturns
<1> QED
  BY <1>a, <1>b, <1>c, <1>d, <1>e, <1>f, <1>g, <1>h DEF SdkNext

LEMMA TypesStep == TypeOK /\ [Next]_vars => TypeOK'
<1>1. ASSUME TypeOK, Restart PROVE TypeOK'
  <2>1. [id \in Ids |-> NoHandle] \in Handles
    BY HandleFacts DEF Handles
  <2>2. subs' \in [Slots -> Records] /\ disk' \in [Slots -> Records] /\ made' \in 0..MaxHandle
    BY <1>1, SizeAssumption DEF Restart, TypeOK
  <2>3. handles' \in Handles /\ main' \in MainPlaces /\ sdk' \in SdkPlaces
    BY <1>1, <2>1, PlaceFacts DEF Restart
  <2> QED
    BY <2>2, <2>3 DEF TypeOK, Handles
<1>2. ASSUME TypeOK, UNCHANGED vars PROVE TypeOK'
  BY <1>2 DEF TypeOK, vars
<1> QED
  BY <1>1, <1>2, MainStepTypes, SdkStepTypes DEF Next

\* Every variable of the device table has its kind, for any names, sizes and
\* faults (product_sub.c, afly.c).
THEOREM TypeCorrect == Spec => []TypeOK
  BY TypesInit, TypesStep, PTL DEF Spec

---------------------------------------------------------------------------
(* The file. *)

\* The file has the devices of the table and their states, and no numbers.
DiskMatches ==
    \A s \in Slots : /\ disk[s].name = subs[s].name /\ disk[s].online = subs[s].online
                     /\ disk[s].devid = 0

LEMMA DiskStep == TypeOK /\ DiskMatches /\ [Next]_vars => DiskMatches'
<1> SUFFICES ASSUME TypeOK, DiskMatches, [Next]_vars PROVE DiskMatches'
  OBVIOUS
<1>1. TypeOK'
  BY TypesStep
<1>2. /\ subs \in Tables /\ disk \in Tables /\ subs' \in Tables /\ main.slot \in Slots
      /\ \A s \in Slots : subs[s] \in Records
  BY <1>1 DEF TypeOK, Tables, MainPlaces
<1>3. ASSUME NEW table, Saved(table)
      PROVE  DiskMatches'
  <2>1. subs' = table /\ disk' = [s \in Slots |-> Durable(table[s])] /\ table \in Tables
    BY <1>2, <1>3 DEF Saved
  <2> QED
    BY <2>1, RecordFacts DEF DiskMatches, Tables
<1>4. ASSUME UNCHANGED <<subs, disk>>
      PROVE  DiskMatches'
  BY <1>4 DEF DiskMatches
<1>5. ASSUME disk' = disk, NEW id, subs' = [subs EXCEPT ![main.slot].devid = id]
      PROVE  DiskMatches'
  BY <1>2, <1>5 DEF DiskMatches, Tables, Records
<1>6. ASSUME disk' = disk, NEW to \in BOOLEAN, subs' = [subs EXCEPT ![main.slot].login = to]
      PROVE  DiskMatches'
  BY <1>2, <1>6 DEF DiskMatches, Tables, Records
<1>7. CASE MainNext
  <2>1. CASE \E n \in Names, o \in BOOLEAN : RegReport(n, o) \/ StatusReport(n, o)
    BY <1>4, <2>1 DEF RegReport, StatusReport, Start
  <2>2. CASE \E n \in Names : UnregReport(n) \/ EventReport(n)
    BY <1>4, <2>2 DEF UnregReport, EventReport, Start
  <2>3. CASE MainAllocates
    BY <1>3, <2>3 DEF MainAllocates
  <2>4. CASE \E id \in Ids : CreateReturns(id)
    BY <1>5, <2>4 DEF CreateReturns
  <2>5. CASE CreateFails \/ LastCallReturns \/ EventReturns
    BY <1>4, <2>5 DEF CreateFails, LastCallReturns, EventReturns
  <2>6. CASE UpdateRecord
    BY <1>3, <2>6 DEF UpdateRecord
  <2>7. ASSUME NEW ok \in BOOLEAN, RegisterReturns(ok) \/ DestroyReturns(ok)
        PROVE  DiskMatches'
    BY <1>4, <2>7 DEF RegisterReturns, DestroyReturns
  <2>8. ASSUME NEW ok \in BOOLEAN, LoginReturns(ok) \/ LogoutReturns(ok)
        PROVE  DiskMatches'
    <3>1. disk' = disk /\ \E to \in BOOLEAN : subs' = [subs EXCEPT ![main.slot].login = to]
      BY <2>8 DEF LoginReturns, LogoutReturns
    <3> QED
      BY <1>6, <3>1
  <2>9. ASSUME NEW ok \in BOOLEAN, UnregisterReturns(ok)
        PROVE  DiskMatches'
    BY <1>3, <1>4, <2>9 DEF UnregisterReturns
  <2> QED
    BY <1>7, <2>1, <2>2, <2>3, <2>4, <2>5, <2>6, <2>7, <2>8, <2>9 DEF MainNext
<1>8. CASE SdkNext
  <2>1. ASSUME NEW n \in Names, AddSubDev(n) \/ DelSubDev(n) \/ DeletedEvent(n)
        PROVE  DiskMatches'
    BY <1>3, <1>4, <2>1 DEF AddSubDev, DelSubDev, DeletedEvent
  <2>2. CASE SdkAllocates \/ ClrSubDev \/ SdkUnregisterReturns
    BY <1>3, <2>2 DEF SdkAllocates, ClrSubDev, SdkUnregisterReturns
  <2>3. CASE DeviceSentAway \/ \E ok \in BOOLEAN : SdkDestroyReturns(ok)
    BY <1>4, <2>3 DEF DeviceSentAway, SdkDestroyReturns
  <2> QED
    BY <1>8, <2>1, <2>2, <2>3 DEF SdkNext
<1>9. CASE Restart
  BY <1>9 DEF Restart, DiskMatches
<1>10. CASE UNCHANGED vars
  BY <1>4, <1>10 DEF vars
<1> QED
  BY <1>7, <1>8, <1>9, <1>10 DEF Next

LEMMA DiskAlways == Spec => []DiskMatches
<1>1. Init => DiskMatches
  BY RecordFacts DEF Init, DiskMatches
<1> QED
  BY <1>1, TypesInit, TypesStep, DiskStep, PTL DEF Spec

LEMMA SameSearch ==
    ASSUME NEW a \in Tables, NEW b \in Tables, \A s \in Slots : a[s].name = b[s].name
    PROVE  /\ InUse(a) = InUse(b)
           /\ \A n \in InUse(a) : Search(a, n) = Search(b, n)
<1>1. InUse(a) = InUse(b)
  BY DEF InUse, Named
<1>2. ASSUME NEW n \in InUse(a)
      PROVE  Search(a, n) = Search(b, n)
  <2>1. /\ Search(a, n) \in Slots /\ a[Search(a, n)].name = n
        /\ \A t \in 1..(Search(a, n) - 1) : a[t].name # n
    BY <1>2, SearchFacts
  <2>2. /\ Search(b, n) \in Slots /\ b[Search(b, n)].name = n
        /\ \A t \in 1..(Search(b, n) - 1) : b[t].name # n
    BY <1>1, <1>2, SearchFacts
  <2> QED
    BY <2>1, <2>2, SizeAssumption DEF Slots
<1> QED
  BY <1>1, <1>2

\* A restart at any point finds all devices in the state last reported, however
\* the two threads clash (product_sub_save, product_sub_load_all).
THEOREM DevicesSurvive == Spec => RestartKeepsDevices
<1>1. TypeOK /\ DiskMatches => [Restart => DeviceState' = DeviceState]_vars
  <2> SUFFICES ASSUME TypeOK, DiskMatches, Restart
               PROVE  DeviceState' = DeviceState
    OBVIOUS
  <2>1. subs' = disk /\ disk \in Tables /\ subs \in Tables
    BY DEF Restart, TypeOK, Tables
  <2>2. InUse(subs) = InUse(disk) /\ \A n \in InUse(subs) : Search(subs, n) = Search(disk, n)
    BY <2>1, SameSearch DEF DiskMatches
  <2>3. \A n \in InUse(subs) : disk[Search(disk, n)].online = subs[Search(subs, n)].online
    BY <2>1, <2>2, SearchFacts DEF DiskMatches
  <2> QED
    BY <2>1, <2>2, <2>3 DEF DeviceState
<1> QED
  BY <1>1, TypeCorrect, DiskAlways, PTL DEF RestartKeepsDevices

---------------------------------------------------------------------------
(* The threads apart. *)

NoClash == "clash" \notin Faults

\* A name has one record.
Distinct ==
    \A s, t \in Slots : subs[s].name = subs[t].name /\ subs[s].name # NoName => s = t

\* A name that is about to be added is not in the table, and not about to be
\* added by the other thread.
Adding ==
    /\ main.pc = "alloc" => main.name \in Names \ InUse(subs)
    /\ sdk.pc = "alloc" => sdk.name \in Names \ InUse(subs)
    /\ main.pc = "alloc" /\ sdk.pc = "alloc" => main.name # sdk.name

\* What the main thread found out about its record before a call still holds.
MainHolds ==
    LET r == subs[main.slot] IN
    /\ main.pc \notin {"idle", "alloc"} => r.name # NoName
    /\ main.op = "delete" <=> main.pc \in {"destroy", "unregister"}
    /\ main.op = "delete" => r.name = main.name
    /\ main.pc = "create" => r.name = main.name
    /\ main.pc \in {"login", "logout", "destroy"} => r.devid = main.id
    /\ main.pc = "login" => ~r.login
    /\ main.pc = "logout" => r.login
    /\ main.pc = "unregister" => \A id \in Live : handles[id].slot # main.slot

\* So does what the library's thread found out.
SdkHolds ==
    LET r == subs[sdk.slot] IN
    /\ sdk.pc \notin {"idle", "alloc"} => r.name = sdk.name /\ r.name # NoName
    /\ sdk.pc = "destroy" => r.devid = sdk.id
    /\ sdk.pc = "unregister" => \A id \in Live : handles[id].slot # sdk.slot

\* On one record the library's thread only waits, and not for its deletion.
Apart ==
    \A s \in Slots : MainHas(s) /\ SdkHas(s) => sdk.pc = "mutex" /\ main.op # "delete"

\* A number stands in one record at most, and was given to a handle.
Numbers ==
    /\ \A id \in Live : id <= made
    /\ \A s \in Slots : subs[s].devid <= made
    /\ \A s, t \in Slots : subs[s].devid = subs[t].devid /\ subs[s].devid # 0 => s = t

Table == Distinct /\ Numbers /\ HandlesOwned /\ LoginsKnown
Places == Adding /\ MainHolds /\ SdkHolds /\ Apart

IInv == TypeOK /\ Table /\ Places

\* What the kinds of the variables say of single values.
LEMMA Values ==
    ASSUME TypeOK
    PROVE  /\ subs \in Tables /\ handles \in Handles /\ made \in Nat
           /\ main \in MainPlaces /\ sdk \in SdkPlaces
           /\ main.slot \in Slots /\ sdk.slot \in Slots
           /\ main.name \in AnyName /\ main.id \in Nat /\ sdk.id \in Nat
           /\ \A s \in Slots : /\ subs[s] \in Records /\ subs[s].devid \in Nat
                               /\ subs[s].name \in AnyName /\ subs[s].login \in BOOLEAN
           /\ Live \subseteq Ids /\ Ids \subseteq Nat \ {0}
           /\ \A id \in Ids : /\ handles[id] \in [name : AnyName, slot : Slots, login : BOOLEAN]
                              /\ handles[id].slot \in Slots /\ handles[id].login \in BOOLEAN
<1>1. /\ subs \in Tables /\ handles \in Handles /\ made \in Nat
      /\ main \in MainPlaces /\ sdk \in SdkPlaces
  BY SizeAssumption DEF TypeOK, Tables, Handles
<1>2. /\ main.slot \in Slots /\ sdk.slot \in Slots
      /\ main.name \in AnyName /\ main.id \in Nat /\ sdk.id \in Nat
  BY <1>1, SizeAssumption DEF MainPlaces, SdkPlaces
<1>3. \A s \in Slots : /\ subs[s] \in Records /\ subs[s].devid \in Nat
                       /\ subs[s].name \in AnyName /\ subs[s].login \in BOOLEAN
  BY <1>1, SizeAssumption DEF Tables, Records
<1>4. Live \subseteq Ids /\ Ids \subseteq Nat \ {0}
  BY SizeAssumption DEF Live, Ids
<1>5. \A id \in Ids : /\ handles[id] \in [name : AnyName, slot : Slots, login : BOOLEAN]
                      /\ handles[id].slot \in Slots /\ handles[id].login \in BOOLEAN
  BY <1>1 DEF Handles
<1> QED
  BY <1>1, <1>2, <1>3, <1>4, <1>5

\* A step of the main thread that only moves.
LEMMA MainMoves ==
    ASSUME Table, SdkHolds, UNCHANGED <<subs, handles, made, sdk>>, Adding', MainHolds', Apart'
    PROVE  Table' /\ Places'
  BY DEF Table, Places, Distinct, Numbers, HandlesOwned, LoginsKnown, SdkHolds, Live

LEMMA Reports ==
    ASSUME IInv, NoClash, NEW n \in Names, NEW o \in BOOLEAN,
           RegReport(n, o) \/ StatusReport(n, o) \/ UnregReport(n) \/ EventReport(n)
    PROVE  Table' /\ Places'
<1>0. /\ TypeOK /\ Table /\ Adding /\ SdkHolds /\ NoName \notin Names
      /\ UNCHANGED <<subs, handles, made, sdk>>
  BY NameAssumption DEF IInv, Places, RegReport, StatusReport, UnregReport, EventReport, Start
<1>1. ASSUME NEW op, NEW pc, NEW m, NEW s \in Slots, NEW on, NEW id,
             Start(op, pc, m, s, on, id), subs[s].name # NoName,
             op = "delete" => pc = "destroy" /\ m = subs[s].name /\ id = subs[s].devid,
             op # "delete" => pc \in {"register", "update", "event"}
      PROVE  Table' /\ Places'
  <2>1. main' = [pc |-> pc, op |-> op, name |-> m, slot |-> s, online |-> on, id |-> id]
    BY <1>1 DEF Start
  <2>2. main'.pc = pc /\ main'.op = op /\ main'.name = m /\ main'.slot = s /\ main'.id = id
    BY <2>1
  <2>3. Adding'
    BY <1>0, <1>1, <2>2 DEF Adding
  <2>4. MainHolds'
    BY <1>0, <1>1, <2>2 DEF MainHolds
  <2>5. Apart'
    BY <1>0, <1>1, <2>2 DEF Apart, Start, Clashing, NoClash, MainHas, SdkHas
  <2> QED
    BY <1>0, <2>3, <2>4, <2>5, MainMoves
<1>2. n \in InUse(subs) => Search(subs, n) \in Slots /\ subs[Search(subs, n)].name = n
  BY <1>0, SearchFacts, Values
<1>3. CASE n \in InUse(subs)
  <2> DEFINE s == Search(subs, n)
  <2>1. \/ Start("report", "register", NoName, s, o, 0)
        \/ Start("report", "update", NoName, s, o, 0)
        \/ Start("delete", "destroy", n, s, FALSE, subs[s].devid)
        \/ Start("event", "event", NoName, s, FALSE, subs[s].devid)
    BY <1>3 DEF RegReport, StatusReport, UnregReport, EventReport
  <2>2. s \in Slots /\ subs[s].name = n /\ n # NoName
    BY <1>0, <1>2, <1>3
  <2> HIDE DEF s
  <2> QED
    BY <1>1, <2>1, <2>2
<1>4. CASE n \notin InUse(subs)
  <2>1. /\ ~(sdk.pc = "alloc" /\ sdk.name = n)
        /\ main' = [Idle EXCEPT !.pc = "alloc", !.name = n, !.online = o]
    BY <1>4 DEF RegReport, StatusReport, UnregReport, EventReport, Clashing, NoClash
  <2>2. main'.pc = "alloc" /\ main'.name = n /\ main'.op = "report"
    BY <2>1, PlaceFacts DEF Idle
  <2>3. Adding'
    BY <1>0, <1>4, <2>1, <2>2 DEF Adding
  <2>4. MainHolds'
    BY <2>2 DEF MainHolds
  <2>5. Apart'
    BY <2>2 DEF Apart, MainHas
  <2> QED
    BY <1>0, <2>3, <2>4, <2>5, MainMoves
<1> QED
  BY <1>3, <1>4

\* The steps of the main thread that only move.
LEMMA Moves ==
    ASSUME IInv,
           \/ CreateFails \/ LastCallReturns \/ EventReturns
           \/ \E ok \in BOOLEAN : RegisterReturns(ok)
    PROVE  Table' /\ Places'
<1>0. /\ TypeOK /\ Table /\ Adding /\ MainHolds /\ SdkHolds /\ Apart
      /\ UNCHANGED <<subs, handles, made, sdk>>
  BY DEF IInv, Places, CreateFails, LastCallReturns, EventReturns, RegisterReturns
<1>1. /\ main'.pc = "idle" /\ main'.op = "report" /\ main'.slot \in Slots
      \/ /\ main.pc \notin {"idle", "alloc"} /\ main'.slot = main.slot
         /\ main.op # "delete" /\ main'.op # "delete"
         /\ \/ main'.pc \in {"giveup", "register"}
            \/ main'.pc = "create" /\ main'.name = subs[main.slot].name
  <2>1. Idle.slot \in Slots /\ "giveup" \in MainAt /\ 0 \in 0..MaxHandle
    BY PlaceFacts, SizeAssumption DEF MainPlaces, MainAt
  <2>2. CASE CreateFails
    BY <1>0, <2>1, <2>2, PlaceFacts, Values DEF CreateFails, MainHolds
  <2>3. CASE LastCallReturns
    BY <2>1, <2>3, PlaceFacts DEF LastCallReturns
  <2>4. CASE EventReturns
    <3>1. main' = Idle \/ main' = [main EXCEPT !.pc = "register", !.id = 0]
      BY <2>4 DEF EventReturns
    <3>2. main.pc = "event" /\ main \in MainPlaces
      BY <1>0, <2>4, Values DEF EventReturns
    <3>3. main' = [main EXCEPT !.pc = "register", !.id = 0] =>
            main'.pc = "register" /\ main'.slot = main.slot /\ main'.op = main.op
      BY <3>2 DEF MainPlaces
    <3> QED
      BY <1>0, <2>1, <3>1, <3>2, <3>3, PlaceFacts DEF MainHolds
  <2>5. CASE \E ok \in BOOLEAN : RegisterReturns(ok)
    <3>1. main' = Idle \/ main' = [main EXCEPT !.pc = "create", !.name = subs[main.slot].name]
      BY <2>5 DEF RegisterReturns
    <3>2. main.pc = "register" /\ main \in MainPlaces
      BY <1>0, <2>5, Values DEF RegisterReturns
    <3>3. main' = [main EXCEPT !.pc = "create", !.name = subs[main.slot].name] =>
            /\ main'.pc = "create" /\ main'.slot = main.slot /\ main'.op = main.op
            /\ main'.name = subs[main.slot].name
      BY <3>2 DEF MainPlaces
    <3> QED
      BY <1>0, <2>1, <3>1, <3>2, <3>3, PlaceFacts DEF MainHolds
  <2> QED
    BY <2>2, <2>3, <2>4, <2>5
<1>2. Adding'
  BY <1>0, <1>1 DEF Adding
<1>3. MainHolds'
  BY <1>0, <1>1 DEF MainHolds
<1>4. Apart'
  BY <1>0, <1>1 DEF Apart, MainHas, SdkHas
<1> QED
  BY <1>0, <1>2, <1>3, <1>4, MainMoves

\* A record is added, by either thread.
LEMMA Allocates ==
    ASSUME IInv, NEW n \in Names, n \notin InUse(subs), Saved(Add(subs, n)),
           UNCHANGED <<handles, made>>
    PROVE  /\ Table'
           /\ \/ subs' = subs
              \/ \E s \in Slots : /\ subs[s].name = NoName /\ subs'[s].name = n
                                  /\ InUse(subs') = InUse(subs) \cup {n}
                                  /\ \A t \in Slots \ {s} : subs'[t] = subs[t]
<1>0. TypeOK /\ Table /\ subs \in Tables /\ NoName \notin Names /\ subs' = Add(subs, n)
  BY Values, NameAssumption DEF IInv, Saved
<1>1. CASE subs' = subs
  BY <1>0, <1>1 DEF Table, Distinct, Numbers, HandlesOwned, LoginsKnown, Live
<1>2. CASE \E s \in Slots : subs[s].name = NoName /\ Add(subs, n) = [subs EXCEPT ![s] = Fresh(n)]
  <2>1. PICK s \in Slots : subs[s].name = NoName /\ subs' = [subs EXCEPT ![s] = Fresh(n)]
    BY <1>0, <1>2
  <2>2. /\ subs'[s].name = n /\ subs'[s].devid = 0 /\ subs'[s].login = FALSE
        /\ \A t \in Slots \ {s} : subs'[t] = subs[t]
    BY <1>0, <2>1, RecordFacts DEF Tables, AnyName
  <2>3. InUse(subs') = InUse(subs) \cup {n}
    BY <1>0, <2>1, <2>2 DEF InUse, Named
  <2>4. Distinct'
    BY <1>0, <2>2 DEF Table, Distinct, InUse, Named
  <2>5. Numbers'
    BY <1>0, <2>2, Values DEF Table, Numbers, Live
  <2>6. Live' = Live /\ \A id \in Live : handles[id].slot \in Slots \ {s}
    BY <1>0, <2>1, Values DEF Table, HandlesOwned, Live
  <2>7. HandlesOwned' /\ LoginsKnown'
    BY <1>0, <2>2, <2>6, Values DEF Table, HandlesOwned, LoginsKnown
  <2> QED
    BY <2>1, <2>2, <2>3, <2>4, <2>5, <2>7 DEF Table
<1> QED
  BY <1>0, <1>1, <1>2, AddFacts DEF AnyName

LEMMA MainAdds == IInv /\ MainAllocates => Table' /\ Places'
<1> SUFFICES ASSUME IInv, MainAllocates PROVE Table' /\ Places'
  OBVIOUS
<1>0. /\ TypeOK /\ Table /\ Adding /\ MainHolds /\ SdkHolds /\ Apart
      /\ main.pc = "alloc" /\ main.name \in Names /\ main.name \notin InUse(subs)
      /\ UNCHANGED <<handles, made, sdk>> /\ NoName \notin Names
      /\ sdk.slot \in Slots /\ subs \in Tables
  BY NameAssumption, Values DEF IInv, Places, Adding, MainAllocates
<1>1. Saved(Add(subs, main.name)) /\ subs' = Add(subs, main.name)
  BY DEF MainAllocates, Saved
<1>2. Table'
  BY <1>0, <1>1, Allocates
<1>3. CASE subs' = subs
  <2>1. main' = Idle
    BY <1>0, <1>1, <1>3 DEF MainAllocates
  <2>2. main'.pc = "idle" /\ main'.op = "report"
    BY <2>1, PlaceFacts
  <2> QED
    BY <1>0, <1>2, <1>3, <2>2 DEF Places, Adding, MainHolds, SdkHolds, Apart, MainHas, SdkHas, Live
<1>4. CASE subs' # subs
  <2>1. PICK s \in Slots : /\ subs[s].name = NoName /\ subs'[s].name = main.name
                           /\ InUse(subs') = InUse(subs) \cup {main.name}
                           /\ \A t \in Slots \ {s} : subs'[t] = subs[t]
    BY <1>0, <1>1, <1>4, Allocates
  <2>2. subs' \in Tables
    BY <1>0, <1>1, AddFacts DEF AnyName
  <2>3. Search(subs', main.name) = s
    <3>1. Search(subs', main.name) \in Slots /\ subs'[Search(subs', main.name)].name = main.name
      BY <2>1, <2>2, SearchFacts
    <3> QED
      BY <1>0, <1>2, <2>1, <3>1 DEF Table, Distinct
  <2>4. main' = [main EXCEPT !.pc = "register", !.name = NoName, !.slot = s]
    BY <1>1, <2>1, <2>3 DEF MainAllocates
  <2>5. main'.pc = "register" /\ main'.slot = s /\ main'.op = main.op
    BY <1>0, <2>4, Values DEF MainPlaces
  <2>6. sdk.pc \notin {"idle", "alloc"} => sdk.slot \in Slots \ {s}
    BY <1>0, <2>1 DEF SdkHolds
  <2>7. Adding'
    BY <1>0, <2>1, <2>5 DEF Adding
  <2>8. MainHolds'
    BY <1>0, <2>1, <2>5 DEF MainHolds
  <2>9. SdkHolds'
    BY <1>0, <2>1, <2>6 DEF SdkHolds, Live
  <2>10. Apart'
    BY <1>0, <2>5, <2>6 DEF Apart, MainHas, SdkHas
  <2> QED
    BY <1>2, <2>7, <2>8, <2>9, <2>10 DEF Places
<1> QED
  BY <1>3, <1>4

LEMMA SdkAdds == IInv /\ SdkAllocates => Table' /\ Places'
<1> SUFFICES ASSUME IInv, SdkAllocates PROVE Table' /\ Places'
  OBVIOUS
<1>0. /\ TypeOK /\ Table /\ Adding /\ MainHolds /\ SdkHolds /\ Apart
      /\ sdk.pc = "alloc" /\ sdk.name \in Names /\ sdk.name \notin InUse(subs)
      /\ UNCHANGED <<handles, made, main>> /\ NoName \notin Names
      /\ main.slot \in Slots /\ sdk'.pc = "idle" /\ Saved(Add(subs, sdk.name))
  BY NameAssumption, Values, PlaceFacts DEF IInv, Places, Adding, SdkAllocates
<1>1. Table'
  BY <1>0, Allocates
<1>2. CASE subs' = subs
  BY <1>0, <1>1, <1>2 DEF Places, Adding, MainHolds, SdkHolds, Apart, MainHas, SdkHas, Live
<1>3. CASE subs' # subs
  <2>1. PICK s \in Slots : /\ subs[s].name = NoName
                           /\ InUse(subs') = InUse(subs) \cup {sdk.name}
                           /\ \A t \in Slots \ {s} : subs'[t] = subs[t]
    BY <1>0, <1>3, Allocates
  <2>2. main.pc \notin {"idle", "alloc"} => main.slot \in Slots \ {s}
    BY <1>0, <2>1 DEF MainHolds
  <2>3. Adding'
    BY <1>0, <2>1 DEF Adding
  <2>4. MainHolds'
    BY <1>0, <2>1, <2>2 DEF MainHolds, Live
  <2>5. SdkHolds' /\ Apart'
    BY <1>0 DEF SdkHolds, Apart, SdkHas
  <2> QED
    BY <1>1, <2>3, <2>4, <2>5 DEF Places
<1> QED
  BY <1>2, <1>3

\* The record of the main thread gets other contents under the same name.
LEMMA Rewrites ==
    ASSUME IInv, main.pc \notin {"idle", "alloc"}, UNCHANGED sdk,
           \A t \in Slots \ {main.slot} : subs'[t] = subs[t],
           subs'[main.slot].name = subs[main.slot].name,
           \/ main'.pc = "idle" /\ main'.op = "report"
           \/ main'.pc \notin {"idle", "alloc", "create"} /\ main'.slot = main.slot /\ main'.op # "delete",
           main.op # "delete", MainHolds',
           sdk.pc \in {"destroy", "unregister"} /\ sdk.slot # main.slot =>
              \A id \in Live' : handles'[id].slot = sdk.slot => id \in Live /\ handles[id].slot = sdk.slot
    PROVE  Distinct' /\ InUse(subs') = InUse(subs) /\ Places'
<1>0. /\ Distinct /\ Adding /\ MainHolds /\ SdkHolds /\ Apart
      /\ main.slot \in Slots /\ sdk.slot \in Slots
  BY Values DEF IInv, Places, Table
<1>1. \A s \in Slots : subs'[s].name = subs[s].name
  OBVIOUS
<1>2. Distinct' /\ InUse(subs') = InUse(subs)
  BY <1>0, <1>1 DEF Distinct, InUse, Named
<1>3. Adding'
  BY <1>0, <1>2 DEF Adding
<1>4. sdk.pc \in {"destroy", "unregister"} => sdk.slot # main.slot
  BY <1>0 DEF Apart, MainHas, SdkHas
<1>5. SdkHolds'
  BY <1>0, <1>1, <1>4 DEF SdkHolds
<1>6. Apart'
  BY <1>0 DEF Apart, MainHas, SdkHas
<1> QED
  BY <1>2, <1>3, <1>5, <1>6 DEF Places

LEMMA Creates ==
    ASSUME IInv, NEW id \in Ids, CreateReturns(id)
    PROVE  Table' /\ Places'
<1>0. /\ TypeOK /\ Table /\ MainHolds /\ main.pc = "create" /\ main.name # NoName
      /\ subs[main.slot].name = main.name /\ main.slot \in Slots /\ main \in MainPlaces
      /\ subs \in Tables /\ handles \in Handles /\ id \in Nat \ {0} /\ UNCHANGED sdk
      /\ main.op # "delete" /\ made \in Nat
  BY Values DEF IInv, Places, CreateReturns, MainHolds
<1>v. /\ \A s \in Slots : subs[s].devid \in Nat /\ subs[s].login \in BOOLEAN
      /\ Live \subseteq Ids /\ Ids \subseteq Nat \ {0}
      /\ \A i \in Ids : handles[i].slot \in Slots
  BY <1>0, Values
<1>1. subs' = [subs EXCEPT ![main.slot].devid = id]
  BY DEF CreateReturns
<1>2. /\ subs'[main.slot].devid = id /\ subs'[main.slot].name = subs[main.slot].name
      /\ subs'[main.slot].login = subs[main.slot].login
      /\ \A t \in Slots \ {main.slot} : subs'[t] = subs[t]
  BY <1>0, <1>1 DEF Tables, Records
<1>3. main'.pc \in {"again", "update"} /\ main'.slot = main.slot /\ main'.op = main.op
  BY <1>0 DEF CreateReturns, MainPlaces
<1>4. MainHolds'
  BY <1>0, <1>2, <1>3 DEF MainHolds
<1>5. CASE id \in Of(main.name) /\ UNCHANGED <<handles, made>>
  <2>1. id \in Live /\ handles[id].name = main.name
    BY <1>5 DEF Of
  <2>2. handles[id].slot = main.slot /\ subs[main.slot].devid = id
    BY <1>0, <2>1, Values DEF Table, HandlesOwned, Distinct
  <2>3. \A s \in Slots : subs'[s].devid = subs[s].devid /\ subs'[s].name = subs[s].name
                         /\ subs'[s].login = subs[s].login
    BY <1>2, <2>2
  <2>4. Live' = Live
    BY <1>5 DEF Live
  <2>5. Numbers' /\ HandlesOwned' /\ LoginsKnown'
    <3>1. Numbers'
      BY <1>0, <1>5, <2>3, <2>4 DEF Table, Numbers
    <3>2. HandlesOwned'
      BY <1>0, <1>v, <1>5, <2>3, <2>4 DEF Table, HandlesOwned
    <3>3. LoginsKnown'
      BY <1>0, <1>v, <1>5, <2>3, <2>4 DEF Table, LoginsKnown
    <3> QED
      BY <3>1, <3>2, <3>3
  <2>6. Distinct' /\ Places'
    BY <1>0, <1>2, <1>3, <1>4, <1>5, <2>4, Rewrites
  <2> QED
    BY <2>5, <2>6 DEF Table
<1>6. CASE /\ Of(main.name) = {} /\ id = made + 1 /\ made' = id
           /\ handles' = [handles EXCEPT ![id] = [name |-> main.name, slot |-> main.slot, login |-> FALSE]]
  <2>1. /\ handles'[id].name = main.name /\ handles'[id].slot = main.slot
        /\ handles'[id].login = FALSE
        /\ \A i \in Ids \ {id} : handles'[i] = handles[i]
    BY <1>0, <1>6 DEF Handles
  <2>2. Live' = Live \cup {id} /\ id \notin Live
    BY <1>0, <1>6, <2>1, Values DEF Live, Table, Numbers
  <2>3. \A i \in Live : handles[i].slot # main.slot
    BY <1>0, <1>6 DEF Table, HandlesOwned, Of
  <2>4. Numbers'
    <3>1. Numbers
      BY <1>0 DEF Table
    <3>2. made' = made + 1 /\ id = made + 1
      BY <1>6
    <3>3. \A i \in Live' : i <= made'
      BY <1>0, <1>v, <2>2, <3>1, <3>2 DEF Numbers
    <3>4. \A s \in Slots : subs'[s].devid <= made'
      <4>1. ASSUME NEW s \in Slots
            PROVE  subs'[s].devid <= made'
        <5>1. CASE s = main.slot
          BY <1>0, <1>2, <3>2, <5>1
        <5>2. CASE s # main.slot
          <6>1. subs'[s].devid = subs[s].devid
            BY <1>2, <5>2
          <6> QED
            BY <1>0, <1>v, <3>1, <3>2, <6>1 DEF Numbers
        <5> QED
          BY <5>1, <5>2
      <4> QED
        BY <4>1
    <3>5. \A s \in Slots \ {main.slot} : subs'[s].devid # id /\ subs'[s].devid = subs[s].devid
      <4>1. \A s \in Slots \ {main.slot} : subs'[s].devid = subs[s].devid
        BY <1>2
      <4>2. \A s \in Slots : subs[s].devid <= made
        BY <3>1 DEF Numbers
      <4> QED
        BY <1>0, <1>v, <3>2, <4>1, <4>2
    <3>6. \A s, u \in Slots : subs'[s].devid = subs'[u].devid /\ subs'[s].devid # 0 => s = u
      BY <1>2, <3>1, <3>5 DEF Numbers
    <3> QED
      BY <3>3, <3>4, <3>6 DEF Numbers
  <2>5. HandlesOwned'
    <3>1. ASSUME NEW i \in Live'
          PROVE  /\ subs'[handles'[i].slot].name = handles'[i].name
                 /\ subs'[handles'[i].slot].devid = i
      <4>1. CASE i = id
        BY <1>0, <1>2, <2>1, <4>1
      <4>2. CASE i # id
        <5>1. i \in Live /\ i \in Ids \ {id}
          BY <1>v, <2>2, <3>1, <4>2
        <5>2. handles'[i] = handles[i] /\ handles[i].slot \in Slots \ {main.slot}
          BY <1>v, <2>1, <2>3, <5>1
        <5> QED
          BY <1>0, <1>2, <5>1, <5>2 DEF Table, HandlesOwned
      <4> QED
        BY <4>1, <4>2
    <3> QED
      BY <3>1 DEF HandlesOwned
  <2>6. LoginsKnown'
    <3>1. ASSUME NEW i \in Live', handles'[i].login
          PROVE  subs'[handles'[i].slot].login
      <4>1. i # id
        BY <2>1, <3>1
      <4>2. i \in Live /\ i \in Ids \ {id}
        BY <1>v, <2>2, <3>1, <4>1
      <4>3. handles'[i] = handles[i] /\ handles[i].slot \in Slots \ {main.slot}
        BY <1>v, <2>1, <2>3, <4>2
      <4> QED
        BY <1>0, <1>2, <3>1, <4>2, <4>3 DEF Table, LoginsKnown
    <3> QED
      BY <3>1 DEF LoginsKnown
  <2>7. Distinct' /\ Places'
    <3>1. \A i \in Live' : handles'[i].slot = sdk.slot /\ sdk.slot # main.slot =>
              i \in Live /\ handles[i].slot = sdk.slot
      BY <2>1, <2>2, Values, <1>0
    <3> QED
      BY <1>0, <1>2, <1>3, <1>4, <3>1, Rewrites
  <2> QED
    BY <2>4, <2>5, <2>6, <2>7 DEF Table
<1> QED
  BY <1>5, <1>6 DEF CreateReturns

LEMMA Updates == IInv /\ UpdateRecord => Table' /\ Places'
<1> SUFFICES ASSUME IInv, UpdateRecord PROVE Table' /\ Places'
  OBVIOUS
<1>0. /\ TypeOK /\ Table /\ MainHolds /\ main.pc = "update" /\ main.op # "delete"
      /\ main.slot \in Slots /\ main \in MainPlaces /\ main.online \in BOOLEAN
      /\ subs \in Tables /\ UNCHANGED <<handles, made, sdk>>
      /\ subs[main.slot].devid \in 0..MaxHandle /\ subs[main.slot].login \in BOOLEAN
      /\ subs[main.slot].name # NoName
  BY Values DEF IInv, Places, UpdateRecord, MainHolds, MainPlaces, Tables, Records
<1>1. subs' = [subs EXCEPT ![main.slot].online = main.online]
  BY DEF UpdateRecord, Saved
<1>2. \A s \in Slots : /\ subs'[s].devid = subs[s].devid /\ subs'[s].name = subs[s].name
                       /\ subs'[s].login = subs[s].login
                       /\ s # main.slot => subs'[s] = subs[s]
  BY <1>0, <1>1 DEF Tables, Records
<1>3. \/ main' = At("login", subs[main.slot].devid) /\ ~subs[main.slot].login
      \/ main' = At("logout", subs[main.slot].devid) /\ subs[main.slot].login
      \/ main' = At("post", 0)
      \/ main' = Idle
  BY <1>0 DEF UpdateRecord
<1>4. \/ main'.pc = "idle" /\ main'.op = "report"
      \/ /\ main'.pc \in {"login", "logout", "post"} /\ main'.slot = main.slot
         /\ main'.op # "delete"
         /\ main'.pc \in {"login", "logout"} => main'.id = subs[main.slot].devid
         /\ main'.pc = "login" => ~subs[main.slot].login
         /\ main'.pc = "logout" => subs[main.slot].login
  <2>1. {"login", "logout", "post"} \subseteq MainAt /\ 0 \in 0..MaxHandle
    BY SizeAssumption DEF MainAt
  <2> QED
    BY <1>0, <1>3, <2>1, PlaceFacts
<1>5. MainHolds'
  BY <1>0, <1>2, <1>4 DEF MainHolds
<1>6. Live' = Live
  BY <1>0 DEF Live
<1>7. Numbers' /\ HandlesOwned' /\ LoginsKnown'
  BY <1>0, <1>2, <1>6, Values DEF Table, Numbers, HandlesOwned, LoginsKnown
<1>8. Distinct' /\ Places'
  BY <1>0, <1>2, <1>4, <1>5, <1>6, Rewrites
<1> QED
  BY <1>7, <1>8 DEF Table

\* The two calls that change a login.
LEMMA Logins ==
    ASSUME IInv, NEW ok \in BOOLEAN, LoginReturns(ok) \/ LogoutReturns(ok)
    PROVE  Table' /\ Places'
<1>0. /\ TypeOK /\ Table /\ MainHolds /\ main.op # "delete"
      /\ main.slot \in Slots /\ main \in MainPlaces /\ main.pc \in {"login", "logout"}
      /\ subs \in Tables /\ handles \in Handles /\ UNCHANGED <<made, sdk>>
      /\ subs[main.slot].devid = main.id /\ subs[main.slot].name # NoName
      /\ main.pc = "login" => ~subs[main.slot].login
      /\ main.pc = "logout" => subs[main.slot].login
  BY Values DEF IInv, Places, LoginReturns, LogoutReturns, MainHolds
<1>1. PICK to \in BOOLEAN, now \in BOOLEAN :
        /\ SetLogin(main.id, to, ok)
        /\ subs' = [subs EXCEPT ![main.slot].login = now]
        /\ main.pc = "login" => to = TRUE
        /\ main.pc = "logout" => to = FALSE
        /\ ok => now = to
        /\ ~ok => now = ~to
  BY DEF LoginReturns, LogoutReturns
<1>2. /\ \A s \in Slots : /\ subs'[s].devid = subs[s].devid /\ subs'[s].name = subs[s].name
                          /\ s # main.slot => subs'[s] = subs[s]
      /\ subs'[main.slot].login = now
  BY <1>0, <1>1 DEF Tables, Records
<1>3. \A i \in Ids : /\ handles'[i].name = handles[i].name /\ handles'[i].slot = handles[i].slot
                     /\ i # main.id \/ ~ok => handles'[i].login = handles[i].login
                     /\ i = main.id /\ ok => handles'[i].login = to
  BY <1>0, <1>1, Values DEF SetLogin, Handles
<1>4. Live' = Live
  BY <1>3 DEF Live
<1>5. Numbers' /\ HandlesOwned'
  BY <1>0, <1>2, <1>3, <1>4, Values DEF Table, Numbers, HandlesOwned
<1>6. LoginsKnown'
  <2> SUFFICES ASSUME NEW i \in Live, handles'[i].login
               PROVE  subs'[handles[i].slot].login
    BY <1>3, <1>4, Values, <1>0 DEF LoginsKnown
  <2>1. handles[i].slot \in Slots /\ subs[handles[i].slot].devid = i
    BY <1>0, Values DEF Table, HandlesOwned
  <2>2. CASE handles[i].slot # main.slot
    <3>1. i # main.id
      BY <1>0, <2>1, <2>2, Values DEF Table, Numbers
    <3> QED
      BY <1>0, <1>2, <1>3, <2>1, <2>2, <3>1, Values DEF Table, LoginsKnown
  <2>3. CASE handles[i].slot = main.slot
    <3>1. i = main.id
      BY <1>0, <2>1, <2>3
    <3>2. CASE ok
      BY <1>1, <1>2, <1>3, <2>3, <3>1, <3>2, Values, <1>0
    <3>3. CASE ~ok
      BY <1>0, <1>1, <1>2, <1>3, <2>3, <3>1, <3>3, Values DEF Table, LoginsKnown
    <3> QED
      BY <3>2, <3>3
  <2> QED
    BY <2>2, <2>3
<1>7. \/ main'.pc = "idle" /\ main'.op = "report"
      \/ main'.pc = "post" /\ main'.slot = main.slot /\ main'.op # "delete"
  <2>1. main' = Idle \/ main' = At("post", 0)
    BY DEF LoginReturns, LogoutReturns
  <2>2. "post" \in MainAt /\ 0 \in 0..MaxHandle
    BY SizeAssumption DEF MainAt
  <2> QED
    BY <1>0, <2>1, <2>2, PlaceFacts
<1>8. MainHolds'
  BY <1>0, <1>2, <1>7 DEF MainHolds
<1>9. Distinct' /\ Places'
  <2>1. \A i \in Live' : handles'[i].slot = sdk.slot => i \in Live /\ handles[i].slot = sdk.slot
    BY <1>3, <1>4, Values, <1>0
  <2> QED
    BY <1>0, <1>2, <1>7, <1>8, <2>1, Rewrites
<1> QED
  BY <1>5, <1>6, <1>9 DEF Table

\* A handle is destroyed, or is not.
LEMMA Destroys ==
    ASSUME IInv, NEW id \in 0..MaxHandle, NEW ok \in BOOLEAN, Destroy(id, ok),
           UNCHANGED <<subs, made>>
    PROVE  /\ Table' /\ Live' \subseteq Live
           /\ \A i \in Live' : handles'[i] = handles[i]
           /\ ok \/ id \notin Live => id \notin Live'
<1>0. TypeOK /\ Table /\ handles \in Handles /\ NoHandle.name = NoName
  BY Values, HandleFacts DEF IInv
<1>1. /\ \A i \in Ids \ {id} : handles'[i] = handles[i]
      /\ ok => id \in Live /\ handles'[id] = NoHandle
      /\ ~ok => handles' = handles
  BY <1>0, Values DEF Destroy, Handles
<1>2. Live' \subseteq Live /\ \A i \in Live' : handles'[i] = handles[i]
  BY <1>0, <1>1 DEF Live
<1>3. ok \/ id \notin Live => id \notin Live'
  BY <1>0, <1>1, <1>2 DEF Live
<1>4. Table'
  BY <1>0, <1>2 DEF Table, Distinct, Numbers, HandlesOwned, LoginsKnown
<1> QED
  BY <1>2, <1>3, <1>4

\* The record of a handle that is gone is freed.
LEMMA Frees ==
    ASSUME IInv, NEW s \in Slots, subs' = [subs EXCEPT ![s] = NoRecord],
           UNCHANGED <<handles, made>>, \A id \in Live : handles[id].slot # s
    PROVE  /\ Table' /\ InUse(subs') \subseteq InUse(subs) /\ Live' = Live
           /\ subs'[s] = NoRecord
           /\ \A t \in Slots \ {s} : subs'[t] = subs[t]
<1>0. TypeOK /\ Table /\ subs \in Tables /\ NoName \notin Names /\ made \in Nat
  BY Values, NameAssumption DEF IInv
<1>1. /\ subs'[s].name = NoName /\ subs'[s].devid = 0 /\ subs'[s].login = FALSE
      /\ subs'[s] = NoRecord
      /\ \A t \in Slots \ {s} : subs'[t] = subs[t]
  BY <1>0, RecordFacts DEF Tables
<1>2. InUse(subs') \subseteq InUse(subs)
  BY <1>0, <1>1 DEF InUse, Named
<1>3. Live' = Live
  BY DEF Live
<1>4. Distinct'
  BY <1>0, <1>1 DEF Table, Distinct
<1>5. Numbers'
  BY <1>0, <1>1, <1>3 DEF Table, Numbers
<1>6. \A id \in Live : handles[id].slot \in Slots \ {s}
  BY <1>0, Values
<1>7. HandlesOwned' /\ LoginsKnown'
  BY <1>0, <1>1, <1>3, <1>6 DEF Table, HandlesOwned, LoginsKnown
<1> QED
  BY <1>1, <1>2, <1>3, <1>4, <1>5, <1>7 DEF Table

\* Freeing by name frees the record that was meant.
LEMMA FreesOwn ==
    ASSUME IInv, NEW s \in Slots, subs[s].name # NoName
    PROVE  /\ Search(subs, subs[s].name) = s
           /\ Del(subs, subs[s].name) = [subs EXCEPT ![s] = NoRecord]
<1>0. TypeOK /\ Distinct /\ subs \in Tables /\ subs[s].name \in Names
  BY Values DEF IInv, Table, AnyName
<1>1. subs[s].name \in InUse(subs)
  BY <1>0 DEF InUse, Named
<1>2. Search(subs, subs[s].name) = s
  BY <1>0, <1>1, SearchFacts DEF Distinct
<1> QED
  BY <1>1, <1>2 DEF Del

LEMMA MainDestroys ==
    ASSUME IInv, NEW ok \in BOOLEAN, DestroyReturns(ok)
    PROVE  Table' /\ Places'
<1>0. /\ TypeOK /\ Table /\ Adding /\ MainHolds /\ SdkHolds /\ Apart /\ main.op = "delete"
      /\ main.pc = "destroy" /\ main.slot \in Slots /\ sdk.slot \in Slots
      /\ main.id \in 0..MaxHandle /\ main \in MainPlaces
      /\ subs[main.slot].devid = main.id /\ UNCHANGED <<subs, made, sdk>>
  BY Values DEF IInv, Places, DestroyReturns, MainHolds, MainPlaces
<1>1. /\ Table' /\ Live' \subseteq Live
      /\ \A i \in Live' : handles'[i] = handles[i]
      /\ ok \/ main.id \notin Live => main.id \notin Live'
  BY <1>0, Destroys DEF DestroyReturns
<1>2. SdkHolds'
  BY <1>0, <1>1 DEF SdkHolds
<1>3. CASE ok
  <2>1. main'.pc = "unregister" /\ main'.slot = main.slot /\ main'.name = main.name
        /\ main'.op = "delete"
    BY <1>0, <1>3 DEF DestroyReturns, MainPlaces
  <2>2. \A i \in Live' : handles'[i].slot # main.slot
    BY <1>0, <1>1, <1>3 DEF Table, HandlesOwned
  <2>3. MainHolds'
    BY <1>0, <2>1, <2>2 DEF MainHolds
  <2>4. Adding' /\ Apart'
    BY <1>0, <2>1 DEF Adding, Apart, MainHas, SdkHas
  <2> QED
    BY <1>1, <1>2, <2>3, <2>4 DEF Places
<1>4. CASE ~ok
  <2>1. main'.pc = "idle" /\ main'.op = "report"
    BY <1>4, PlaceFacts DEF DestroyReturns
  <2> QED
    BY <1>0, <1>1, <1>2, <2>1 DEF Places, Adding, MainHolds, Apart, MainHas
<1> QED
  BY <1>3, <1>4

LEMMA MainFrees ==
    ASSUME IInv, NEW ok \in BOOLEAN, UnregisterReturns(ok)
    PROVE  Table' /\ Places'
<1>0. /\ TypeOK /\ Table /\ Adding /\ MainHolds /\ SdkHolds /\ Apart /\ main.op = "delete"
      /\ main.pc = "unregister" /\ main.slot \in Slots /\ sdk.slot \in Slots
      /\ subs[main.slot].name # NoName /\ UNCHANGED <<handles, made, sdk>>
      /\ \A id \in Live : handles[id].slot # main.slot
      /\ main'.pc = "idle" /\ main'.op = "report"
  BY Values, PlaceFacts DEF IInv, Places, UnregisterReturns, MainHolds
<1>1. CASE ok
  <2>1. subs' = [subs EXCEPT ![main.slot] = NoRecord]
    BY <1>0, <1>1, FreesOwn DEF UnregisterReturns, Saved
  <2>2. /\ Table' /\ InUse(subs') \subseteq InUse(subs) /\ Live' = Live
        /\ \A t \in Slots \ {main.slot} : subs'[t] = subs[t]
    BY <1>0, <2>1, Frees
  <2>3. sdk.pc \notin {"idle", "alloc"} => sdk.slot # main.slot
    BY <1>0 DEF Apart, MainHas, SdkHas
  <2>4. SdkHolds'
    BY <1>0, <2>2, <2>3 DEF SdkHolds
  <2> QED
    BY <1>0, <2>2, <2>4 DEF Places, Adding, MainHolds, Apart, MainHas
<1>2. CASE ~ok
  <2>1. UNCHANGED subs
    BY <1>2 DEF UnregisterReturns
  <2>2. MainHolds' /\ Adding' /\ Apart'
    BY <1>0, <2>1 DEF Adding, MainHolds, Apart, MainHas
  <2> QED
    BY <1>0, <2>1, <2>2, MainMoves
<1> QED
  BY <1>1, <1>2

LEMMA MainStep == IInv /\ NoClash /\ MainNext => Table' /\ Places'
<1> SUFFICES ASSUME IInv, NoClash, MainNext PROVE Table' /\ Places'
  OBVIOUS
<1>1. CASE \E n \in Names, o \in BOOLEAN : RegReport(n, o) \/ StatusReport(n, o)
  BY <1>1, Reports
<1>2. CASE \E n \in Names : UnregReport(n) \/ EventReport(n)
  <2>1. PICK n \in Names : UnregReport(n) \/ EventReport(n)
    BY <1>2
  <2>2. TRUE \in BOOLEAN
    OBVIOUS
  <2> QED
    BY <2>1, <2>2, Reports
<1>3. CASE CreateFails \/ LastCallReturns \/ EventReturns \/ \E ok \in BOOLEAN : RegisterReturns(ok)
  BY <1>3, Moves
<1>4. CASE MainAllocates
  BY <1>4, MainAdds
<1>5. CASE \E id \in Ids : CreateReturns(id)
  BY <1>5, Creates
<1>6. CASE UpdateRecord
  BY <1>6, Updates
<1>7. CASE \E ok \in BOOLEAN : LoginReturns(ok) \/ LogoutReturns(ok)
  BY <1>7, Logins
<1>8. CASE \E ok \in BOOLEAN : DestroyReturns(ok)
  BY <1>8, MainDestroys
<1>9. CASE \E ok \in BOOLEAN : UnregisterReturns(ok)
  BY <1>9, MainFrees
<1> QED
  BY <1>1, <1>2, <1>3, <1>4, <1>5, <1>6, <1>7, <1>8, <1>9 DEF MainNext

\* A step of the library's thread that only moves.
LEMMA SdkMoves ==
    ASSUME Table, MainHolds, UNCHANGED <<subs, handles, made, main>>, Adding', SdkHolds', Apart'
    PROVE  Table' /\ Places'
  BY DEF Table, Places, Distinct, Numbers, HandlesOwned, LoginsKnown, MainHolds, Live

LEMMA Services ==
    ASSUME IInv, NoClash, NEW n \in Names, AddSubDev(n) \/ DelSubDev(n) \/ DeletedEvent(n)
    PROVE  Table' /\ Places'
<1>0. /\ TypeOK /\ Table /\ Adding /\ MainHolds /\ SdkHolds /\ Apart
      /\ sdk.pc = "idle" /\ UNCHANGED <<handles, made, main>> /\ sdk \in SdkPlaces
      /\ NoName \notin Names /\ main.slot \in Slots /\ subs \in Tables
  BY Values, NameAssumption DEF IInv, Places, AddSubDev, DelSubDev, DeletedEvent
<1>1. n \in InUse(subs) => Search(subs, n) \in Slots /\ subs[Search(subs, n)].name = n
  BY <1>0, SearchFacts
<1>2. CASE AddSubDev(n)
  <2>1. sdk'.pc = "alloc" /\ sdk'.name = n /\ n \notin InUse(subs) /\ UNCHANGED subs
        /\ ~(main.pc = "alloc" /\ main.name = n)
    BY <1>2, PlaceFacts DEF AddSubDev, NoClash, Clashing, IdleSdk
  <2>2. Adding' /\ SdkHolds' /\ Apart'
    BY <1>0, <2>1 DEF Adding, SdkHolds, Apart, SdkHas
  <2> QED
    BY <1>0, <2>1, <2>2, SdkMoves
<1>3. CASE DelSubDev(n)
  <2>1. PICK s \in Slots : s = Search(subs, n) /\ subs[s].name = n /\ ~Tied(s)
    BY <1>1, <1>3 DEF DelSubDev, NoClash, Clashing
  <2>2. subs' = [subs EXCEPT ![s] = NoRecord] /\ UNCHANGED sdk
    BY <1>3, <2>1 DEF DelSubDev, Del, Saved
  <2>3. /\ Table' /\ InUse(subs') \subseteq InUse(subs) /\ Live' = Live
        /\ \A t \in Slots \ {s} : subs'[t] = subs[t]
    BY <1>0, <2>1, <2>2, Frees DEF Tied
  <2>4. main.pc \notin {"idle", "alloc"} => main.slot \in Slots \ {s}
    BY <1>0, <2>1 DEF Tied, MainHas
  <2>5. MainHolds'
    BY <1>0, <2>3, <2>4 DEF MainHolds
  <2>6. Adding' /\ SdkHolds' /\ Apart'
    BY <1>0, <2>2, <2>3 DEF Adding, SdkHolds, Apart, SdkHas
  <2> QED
    BY <2>3, <2>5, <2>6 DEF Places
<1>4. CASE DeletedEvent(n)
  <2>1. PICK s \in Slots : s = Search(subs, n) /\ subs[s].name = n
    BY <1>1, <1>4 DEF DeletedEvent
  <2>2. /\ sdk' = [IdleSdk EXCEPT !.pc = "mutex", !.name = n, !.slot = s] /\ UNCHANGED subs
        /\ ~(MainHas(s) /\ main.op = "delete")
    BY <1>4, <2>1 DEF DeletedEvent, NoClash, Clashing
  <2>3. sdk'.pc = "mutex" /\ sdk'.name = n /\ sdk'.slot = s
    BY <2>2, PlaceFacts DEF SdkPlaces
  <2>4. Adding' /\ SdkHolds' /\ Apart'
    BY <1>0, <2>1, <2>2, <2>3 DEF Adding, SdkHolds, Apart, MainHas, SdkHas
  <2> QED
    BY <1>0, <2>2, <2>4, SdkMoves
<1> QED
  BY <1>2, <1>3, <1>4

LEMMA Clears == IInv /\ NoClash /\ ClrSubDev => Table' /\ Places'
<1> SUFFICES ASSUME IInv, NoClash, ClrSubDev PROVE Table' /\ Places'
  OBVIOUS
<1>0. /\ TypeOK /\ Table /\ Adding /\ MainHolds /\ SdkHolds /\ Apart
      /\ sdk.pc = "idle" /\ UNCHANGED <<handles, made, main, sdk>>
      /\ NoName \notin Names /\ main.slot \in Slots
      /\ subs' = [s \in Slots |-> NoRecord]
      /\ \A s \in Slots : ~Tied(s)
  BY Values, NameAssumption DEF IInv, Places, ClrSubDev, NoClash, Clashing, Saved
<1>1. Live' = {} /\ main.pc \in {"idle", "alloc"}
  BY <1>0, Values DEF Tied, MainHas, Live
<1>2. \A s \in Slots : subs'[s].name = NoName /\ subs'[s].devid = 0
  BY <1>0, RecordFacts
<1>3. InUse(subs') = {}
  BY <1>0, <1>2 DEF InUse, Named
<1>4. Table'
  BY <1>0, <1>1, <1>2, Values DEF Table, Distinct, Numbers, HandlesOwned, LoginsKnown
<1>5. Adding' /\ MainHolds' /\ SdkHolds' /\ Apart'
  BY <1>0, <1>1, <1>3 DEF Adding, MainHolds, SdkHolds, Apart, SdkHas
<1> QED
  BY <1>4, <1>5 DEF Places

LEMMA Deletes ==
    ASSUME IInv, NoClash,
           DeviceSentAway \/ SdkUnregisterReturns \/ \E ok \in BOOLEAN : SdkDestroyReturns(ok)
    PROVE  Table' /\ Places'
<1>0. /\ TypeOK /\ Table /\ Adding /\ MainHolds /\ SdkHolds /\ Apart
      /\ UNCHANGED <<made, main>> /\ sdk \in SdkPlaces /\ main.slot \in Slots /\ sdk.slot \in Slots
      /\ sdk.pc \in {"mutex", "destroy", "unregister"} /\ sdk.id \in 0..MaxHandle
      /\ subs[sdk.slot].name = sdk.name /\ subs[sdk.slot].name # NoName
  BY Values DEF IInv, Places, DeviceSentAway, SdkUnregisterReturns, SdkDestroyReturns, SdkHolds, SdkPlaces
<1>1. sdk.pc # "mutex" /\ main.pc \notin {"idle", "alloc"} => main.slot # sdk.slot
  BY <1>0 DEF Apart, MainHas, SdkHas
<1>2. CASE DeviceSentAway
  <2>1. /\ sdk'.pc = "destroy" /\ sdk'.slot = sdk.slot /\ sdk'.name = sdk.name
        /\ sdk'.id = subs[sdk.slot].devid
        /\ main.pc = "idle" /\ UNCHANGED <<subs, handles>>
    BY <1>0, <1>2 DEF DeviceSentAway, MutexFree, SdkPlaces
  <2>2. Adding' /\ SdkHolds' /\ Apart'
    BY <1>0, <2>1 DEF Adding, SdkHolds, Apart, MainHas
  <2> QED
    BY <1>0, <2>1, <2>2, SdkMoves
<1>3. ASSUME NEW ok \in BOOLEAN, SdkDestroyReturns(ok)
      PROVE  Table' /\ Places'
  <2>1. /\ sdk.pc = "destroy" /\ sdk'.pc = "unregister" /\ sdk'.slot = sdk.slot
        /\ sdk'.name = sdk.name /\ UNCHANGED subs /\ Destroy(sdk.id, ok)
        /\ subs[sdk.slot].devid = sdk.id
        /\ ok \/ sdk.id \notin Live
    BY <1>0, <1>3 DEF SdkDestroyReturns, NoClash, Clashing, SdkPlaces, SdkHolds
  <2>2. /\ Table' /\ Live' \subseteq Live
        /\ \A i \in Live' : handles'[i] = handles[i]
        /\ sdk.id \notin Live'
    BY <1>0, <2>1, Destroys
  <2>3. \A i \in Live' : handles'[i].slot # sdk.slot
    <3>1. subs[sdk.slot].devid = sdk.id
      BY <1>0, <2>1 DEF SdkHolds
    <3>2. \A i \in Live : subs[handles[i].slot].devid = i
      BY <1>0 DEF Table, HandlesOwned
    <3> QED
      BY <2>2, <3>1, <3>2
  <2>4. MainHolds'
    BY <1>0, <2>1, <2>2 DEF MainHolds
  <2>5. Adding' /\ SdkHolds' /\ Apart'
    BY <1>0, <1>1, <2>1, <2>3 DEF Adding, SdkHolds, Apart, MainHas, SdkHas
  <2> QED
    BY <2>2, <2>4, <2>5 DEF Places
<1>4. CASE SdkUnregisterReturns
  <2>1. /\ sdk.pc = "unregister" /\ sdk'.pc = "idle" /\ UNCHANGED handles
        /\ subs' = [subs EXCEPT ![sdk.slot] = NoRecord]
        /\ \A i \in Live : handles[i].slot # sdk.slot
    BY <1>0, <1>4, FreesOwn, PlaceFacts DEF SdkUnregisterReturns, Saved, SdkHolds
  <2>2. /\ Table' /\ InUse(subs') \subseteq InUse(subs) /\ Live' = Live
        /\ \A t \in Slots \ {sdk.slot} : subs'[t] = subs[t]
    BY <1>0, <2>1, Frees
  <2>3. main.pc \notin {"idle", "alloc"} => main.slot \in Slots \ {sdk.slot}
    BY <1>0, <1>1, <2>1
  <2>4. MainHolds'
    BY <1>0, <2>1, <2>2, <2>3 DEF MainHolds
  <2>5. Adding' /\ SdkHolds' /\ Apart'
    BY <1>0, <2>1, <2>2 DEF Adding, SdkHolds, Apart, SdkHas
  <2> QED
    BY <2>2, <2>4, <2>5 DEF Places
<1> QED
  BY <1>2, <1>3, <1>4

\* After a restart there are no handles, and no numbers of handles.
LEMMA Restarts == IInv /\ DiskMatches /\ Restart => Table' /\ Places'
<1> SUFFICES ASSUME IInv, DiskMatches, Restart PROVE Table' /\ Places'
  OBVIOUS
<1>0. TypeOK /\ Distinct /\ subs \in Tables /\ made' = 0
      /\ main' = Idle /\ sdk' = IdleSdk /\ handles' = [id \in Ids |-> NoHandle]
  BY Values DEF IInv, Table, Restart
<1>1. \A s \in Slots : subs'[s].name = subs[s].name /\ subs'[s].devid = 0
  BY DEF DiskMatches, Restart
<1>2. Live' = {}
  BY <1>0, HandleFacts DEF Live
<1>3. Table'
  BY <1>0, <1>1, <1>2 DEF Table, Distinct, Numbers, HandlesOwned, LoginsKnown
<1>4. main'.pc = "idle" /\ main'.op = "report" /\ sdk'.pc = "idle"
  BY <1>0, PlaceFacts
<1> QED
  BY <1>3, <1>4 DEF Places, Adding, MainHolds, SdkHolds, Apart, MainHas, SdkHas

LEMMA Invariant == NoClash => (Spec => [](IInv /\ DiskMatches))
<1> SUFFICES ASSUME NoClash PROVE Spec => [](IInv /\ DiskMatches)
  OBVIOUS
<1>1. Init => Table /\ Places
  <2> SUFFICES ASSUME Init PROVE Table /\ Places
    OBVIOUS
  <2>1. /\ \A s \in Slots : subs[s].name = NoName /\ subs[s].devid = 0
        /\ Live = {} /\ main.pc = "idle" /\ main.op = "report" /\ sdk.pc = "idle" /\ made = 0
    BY RecordFacts, HandleFacts, PlaceFacts DEF Init, Live
  <2> QED
    BY <2>1 DEF Table, Places, Distinct, Numbers, HandlesOwned, LoginsKnown, Adding, MainHolds,
                SdkHolds, Apart, MainHas, SdkHas
<1>2. IInv /\ DiskMatches /\ [Next]_vars => Table' /\ Places'
  <2> SUFFICES ASSUME IInv, DiskMatches, [Next]_vars PROVE Table' /\ Places'
    OBVIOUS
  <2>1. CASE SdkNext
    <3>1. CASE \E n \in Names : AddSubDev(n) \/ DelSubDev(n) \/ DeletedEvent(n)
      BY <3>1, Services
    <3>2. CASE DeviceSentAway \/ SdkUnregisterReturns \/ \E ok \in BOOLEAN : SdkDestroyReturns(ok)
      BY <3>2, Deletes
    <3> QED
      BY <2>1, <3>1, <3>2, SdkAdds, Clears DEF SdkNext
  <2>2. CASE UNCHANGED vars
    BY <2>2 DEF vars, IInv, Table, Places, Distinct, Numbers, HandlesOwned, LoginsKnown, Adding,
                MainHolds, SdkHolds, Apart, MainHas, SdkHas, Live
  <2> QED
    BY <2>1, <2>2, MainStep, Restarts DEF Next
<1>3. IInv /\ DiskMatches /\ [Next]_vars => IInv' /\ DiskMatches'
  BY <1>2, TypesStep, DiskStep DEF IInv
<1>4. Init => IInv /\ DiskMatches
  BY <1>1, TypesInit, RecordFacts DEF IInv, Init, DiskMatches
<1> QED
  BY <1>3, <1>4, PTL DEF Spec

\* No device has two records, while the threads keep off each other's work: the
\* searches before an addition are enough (product_sub_add).
THEOREM NamesAreUnique == NoClash => (Spec => []UniqueNames)
<1> SUFFICES ASSUME NoClash PROVE Spec => []UniqueNames
  OBVIOUS
<1>1. IInv => UniqueNames
  <2> SUFFICES ASSUME IInv, NEW n \in Names
               PROVE  Cardinality({s \in Slots : subs[s].name = n}) <= 1
    BY DEF UniqueNames
  <2> DEFINE S == {s \in Slots : subs[s].name = n}
  <2>1. \A s, t \in S : s = t
    BY NameAssumption DEF IInv, Table, Distinct
  <2> HIDE DEF S
  <2>2. CASE S = {}
    BY <2>2, FS_EmptySet DEF S
  <2>3. CASE S # {}
    <3>1. PICK s \in S : TRUE
      BY <2>3
    <3>2. S = {s}
      BY <2>1, <3>1
    <3>3. Cardinality(S) = 1
      BY <3>2, FS_Singleton
    <3> QED
      BY <3>3 DEF S
  <2> QED
    BY <2>2, <2>3
<1> QED
  BY <1>1, Invariant, PTL

\* Under the same assumption the context of every handle is a record in use, of
\* the same device, that knows the handle (afly_nxp_reg, afly_nxp_unreg).
THEOREM HandlesAreOwned == NoClash => (Spec => []HandlesOwned)
<1> SUFFICES ASSUME NoClash PROVE Spec => []HandlesOwned
  OBVIOUS
<1>1. IInv => HandlesOwned
  BY DEF IInv, Table
<1> QED
  BY <1>1, Invariant, PTL

\* Under the same assumption no failure of a call leaves a login the gateway
\* does not know of (afly_nxp_upt_online).
THEOREM LoginsAreKnown == NoClash => (Spec => []LoginsKnown)
<1> SUFFICES ASSUME NoClash PROVE Spec => []LoginsKnown
  OBVIOUS
<1>1. IInv => LoginsKnown
  BY DEF IInv, Table
<1> QED
  BY <1>1, Invariant, PTL

\* Under the same assumption a deletion frees the record of the device that was
\* to be deleted, over two calls to the library (afly_nxp_unreg, event_handler).
THEOREM RightOneLeaves == NoClash => (Spec => RightDeviceLeaves)
<1> SUFFICES ASSUME NoClash PROVE Spec => RightDeviceLeaves
  OBVIOUS
<1> DEFINE A == /\ UnregisterReturns(TRUE) => InUse(subs) \ InUse(subs') \subseteq {main.name}
                /\ SdkUnregisterReturns    => InUse(subs) \ InUse(subs') \subseteq {sdk.name}
<1>1. IInv => [A]_vars
  <2> SUFFICES ASSUME IInv PROVE A
    OBVIOUS
  <2>1. TypeOK /\ MainHolds /\ SdkHolds /\ main.slot \in Slots /\ sdk.slot \in Slots /\ subs \in Tables
    BY Values DEF IInv, Places
  <2>2. ASSUME NEW s \in Slots, subs' = [subs EXCEPT ![s] = NoRecord]
        PROVE  InUse(subs) \ InUse(subs') \subseteq {subs[s].name}
    <3>1. \A t \in Slots \ {s} : subs'[t] = subs[t]
      BY <2>1, <2>2 DEF Tables
    <3> QED
      BY <3>1 DEF InUse, Named
  <2>3. ASSUME UnregisterReturns(TRUE)
        PROVE  InUse(subs) \ InUse(subs') \subseteq {main.name}
    <3>1. subs[main.slot].name = main.name /\ main.name # NoName
      BY <2>1, <2>3 DEF UnregisterReturns, MainHolds
    <3>2. subs' = [subs EXCEPT ![main.slot] = NoRecord]
      BY <2>1, <2>3, <3>1, FreesOwn DEF UnregisterReturns, Saved
    <3> QED
      BY <2>1, <2>2, <3>1, <3>2
  <2>4. ASSUME SdkUnregisterReturns
        PROVE  InUse(subs) \ InUse(subs') \subseteq {sdk.name}
    <3>1. subs[sdk.slot].name = sdk.name /\ sdk.name # NoName
      BY <2>1, <2>4 DEF SdkUnregisterReturns, SdkHolds
    <3>2. subs' = [subs EXCEPT ![sdk.slot] = NoRecord]
      BY <2>1, <2>4, <3>1, FreesOwn DEF SdkUnregisterReturns, Saved
    <3> QED
      BY <2>1, <2>2, <3>1, <3>2
  <2> QED
    BY <2>3, <2>4
<1> QED
  BY <1>1, Invariant, PTL DEF RightDeviceLeaves

---------------------------------------------------------------------------
(* The table implements the map, however the threads clash.                *)

\* DeviceState of any table.
StateOf(table) ==
    [n \in Names |-> IF n \notin InUse(table) THEN "unknown"
                     ELSE IF table[Search(table, n)].online THEN "online" ELSE "offline"]

\* What a map shows of one name depends on the records of that name.
LEMMA StateDepends ==
    ASSUME NEW a \in Tables, NEW b \in Tables, NEW n \in Names,
           \A s \in Slots : a[s].name = n <=> b[s].name = n,
           \A s \in Slots : a[s].name = n => a[s].online = b[s].online
    PROVE  StateOf(a)[n] = StateOf(b)[n]
<1>1. n \in InUse(a) <=> n \in InUse(b)
  BY DEF InUse, Named
<1>2. CASE n \notin InUse(a)
  BY <1>1, <1>2 DEF StateOf
<1>3. CASE n \in InUse(a)
  <2>1. /\ Search(a, n) \in Slots /\ a[Search(a, n)].name = n
        /\ \A t \in 1..(Search(a, n) - 1) : a[t].name # n
    BY <1>3, SearchFacts
  <2>2. /\ Search(b, n) \in Slots /\ b[Search(b, n)].name = n
        /\ \A t \in 1..(Search(b, n) - 1) : b[t].name # n
    BY <1>1, <1>3, SearchFacts
  <2>3. Search(a, n) = Search(b, n)
    BY <2>1, <2>2, SizeAssumption DEF Slots
  <2>4. a[Search(a, n)].online = b[Search(b, n)].online
    BY <2>1, <2>3
  <2> QED
    BY <1>1, <1>3, <2>4 DEF StateOf
<1> QED
  BY <1>2, <1>3

LEMMA StateFacts ==
    ASSUME NEW a \in Tables
    PROVE  /\ \A n \in Names : /\ StateOf(a)[n] \in {"unknown", "offline", "online"}
                               /\ StateOf(a)[n] = "unknown" <=> n \notin InUse(a)
           /\ InUse(a) \subseteq Names
<1>1. InUse(a) \subseteq Names
  BY DEF InUse
<1>2. \A n \in Names : /\ StateOf(a)[n] \in {"unknown", "offline", "online"}
                       /\ StateOf(a)[n] = "unknown" <=> n \notin InUse(a)
  BY DEF StateOf
<1> QED
  BY <1>1, <1>2

\* While a record is free fewer devices are known than the table has records.
LEMMA RoomLeft ==
    ASSUME NEW a \in Tables, NEW s \in Slots, a[s].name = NoName
    PROVE  Cardinality(InUse(a)) < MaxSub
<1> DEFINE others == Slots \ {s}
           f == [n \in InUse(a) |-> Search(a, n)]
<1>1. IsFiniteSet(Slots) /\ Cardinality(Slots) = MaxSub
  BY SizeAssumption, FS_Interval DEF Slots
<1>2. IsFiniteSet(others) /\ Cardinality(others) = MaxSub - 1
  BY <1>1, FS_RemoveElement
<1>3. \A n \in InUse(a) : f[n] \in others /\ a[f[n]].name = n
  BY SearchFacts, NameAssumption DEF InUse
<1>4. f \in Injection(InUse(a), others)
  BY <1>3 DEF Injection, IsInjective
<1>5. Cardinality(InUse(a)) <= MaxSub - 1 /\ IsFiniteSet(InUse(a))
  BY <1>2, <1>4, FS_Injection
<1>6. Cardinality(InUse(a)) \in Nat
  BY <1>5, FS_CardinalityType
<1> QED
  BY <1>5, <1>6, SizeAssumption

LEMMA SameCardinality == \A S : Map!Cardinality(S) = Cardinality(S)
  BY DEF Map!Cardinality, Cardinality

MapStep == [Map!Next]_DeviceState

\* The records of one name change, others do not.
LEMMA OneName ==
    ASSUME TypeOK, TypeOK', NEW n \in Names,
           \A m \in Names \ {n} : StateOf(subs')[m] = StateOf(subs)[m],
           n \notin InUse(subs) /\ n \in InUse(subs') =>
              /\ StateOf(subs')[n] = "offline"
              /\ \E s \in Slots : subs[s].name = NoName
    PROVE  MapStep
<1>0. /\ subs \in Tables /\ subs' \in Tables
      /\ DeviceState = StateOf(subs) /\ DeviceState' = StateOf(subs')
  BY DEF TypeOK, Tables, DeviceState, StateOf
<1>1. /\ DeviceState' = [DeviceState EXCEPT ![n] = StateOf(subs')[n]]
      /\ DeviceState[n] = StateOf(subs)[n]
  BY <1>0 DEF StateOf
<1>2. Map!Known = InUse(subs)
  BY <1>0, StateFacts DEF Map!Known
<1>3. CASE n \in InUse(subs) /\ n \in InUse(subs')
  <2>1. StateOf(subs')[n] \in {"offline", "online"}
    BY <1>0, <1>3, StateFacts
  <2>2. Map!Report(n)
    BY <1>1, <1>2, <1>3, <2>1 DEF Map!Report
  <2> QED
    BY <2>2 DEF MapStep, Map!Next
<1>4. CASE n \in InUse(subs) /\ n \notin InUse(subs')
  <2>1. Map!Leave(n)
    BY <1>0, <1>1, <1>2, <1>4, StateFacts DEF Map!Leave
  <2> QED
    BY <2>1 DEF MapStep, Map!Next
<1>5. CASE n \notin InUse(subs) /\ n \in InUse(subs')
  <2>1. Cardinality(Map!Known) < MaxSub
    BY <1>0, <1>2, <1>5, RoomLeft
  <2>2. Map!Enter(n)
    <3>1. StateOf(subs')[n] = "offline" /\ n \notin Map!Known
      BY <1>2, <1>5
    <3>2. DeviceState' = [DeviceState EXCEPT ![n] = "offline"]
      BY <1>1, <3>1
    <3> QED
      BY <2>1, <3>1, <3>2, SameCardinality DEF Map!Enter
  <2> QED
    BY <2>2 DEF MapStep, Map!Next
<1>6. CASE n \notin InUse(subs) /\ n \notin InUse(subs')
  <2>1. StateOf(subs')[n] = DeviceState[n]
    BY <1>0, <1>1, <1>6, StateFacts
  <2>2. DeviceState' = DeviceState
    BY <1>0, <1>1, <2>1 DEF StateOf
  <2> QED
    BY <2>2 DEF MapStep
<1> QED
  BY <1>3, <1>4, <1>5, <1>6

\* Nothing the map shows has changed.
LEMMA SameState ==
    ASSUME TypeOK, TypeOK',
           \A s \in Slots : /\ subs'[s].name = subs[s].name
                            /\ subs[s].name # NoName => subs'[s].online = subs[s].online
    PROVE  MapStep
<1>1. subs \in Tables /\ subs' \in Tables /\ NoName \notin Names
  BY NameAssumption DEF TypeOK, Tables
<1>2. \A n \in Names : StateOf(subs')[n] = StateOf(subs)[n]
  <2> SUFFICES ASSUME NEW n \in Names
               PROVE  StateOf(subs')[n] = StateOf(subs)[n]
    OBVIOUS
  <2>1. /\ \A s \in Slots : subs'[s].name = n <=> subs[s].name = n
        /\ \A s \in Slots : subs'[s].name = n => subs'[s].online = subs[s].online
    BY <1>1
  <2> QED
    BY <1>1, <2>1, StateDepends
<1>3. StateOf(subs') = StateOf(subs)
  BY <1>2 DEF StateOf
<1>4. DeviceState' = DeviceState
  BY <1>3 DEF DeviceState, StateOf
<1> QED
  BY <1>4 DEF MapStep

\* One record changes, and its name is kept, given or taken away.
LEMMA OneRecord ==
    ASSUME TypeOK, TypeOK', NEW n \in Names, NEW s \in Slots,
           {subs[s].name, subs'[s].name} \subseteq {n, NoName},
           \A t \in Slots \ {s} : subs'[t] = subs[t],
           n \notin InUse(subs) /\ n \in InUse(subs') =>
              subs[s].name = NoName /\ StateOf(subs')[n] = "offline"
    PROVE  MapStep
<1>1. subs \in Tables /\ subs' \in Tables /\ NoName \notin Names
  BY NameAssumption DEF TypeOK, Tables
<1>2. ASSUME NEW m \in Names \ {n}
      PROVE  StateOf(subs')[m] = StateOf(subs)[m]
  <2>1. \A t \in Slots : subs'[t].name = m <=> subs[t].name = m
    BY <1>1, <1>2
  <2>2. \A t \in Slots : subs'[t].name = m => subs'[t].online = subs[t].online
    BY <1>1, <1>2
  <2> QED
    BY <1>1, <2>1, <2>2, StateDepends
<1> QED
  BY <1>2, OneName

LEMMA AddMaps ==
    ASSUME TypeOK, TypeOK', NEW n \in AnyName, Saved(Add(subs, n))
    PROVE  MapStep
<1>1. /\ subs \in Tables /\ subs' \in Tables /\ NoName \notin Names
      /\ subs' = Add(subs, n)
  BY NameAssumption DEF TypeOK, Tables, Saved
<1>2. CASE subs' = subs
  BY <1>2, SameState
<1>3. CASE \E s \in Slots : subs[s].name = NoName /\ Add(subs, n) = [subs EXCEPT ![s] = Fresh(n)]
  <2>1. PICK s \in Slots : subs[s].name = NoName /\ subs' = [subs EXCEPT ![s] = Fresh(n)]
    BY <1>1, <1>3
  <2>2. /\ subs'[s].name = n /\ subs'[s].online = FALSE
        /\ \A t \in Slots \ {s} : subs'[t] = subs[t]
    BY <1>1, <2>1, RecordFacts DEF Tables
  <2>3. CASE n = NoName
    BY <2>1, <2>2, <2>3, SameState
  <2>4. CASE n \in Names
    <3>1. n \notin InUse(subs) /\ n \in InUse(subs') => StateOf(subs')[n] = "offline"
      <4> SUFFICES ASSUME n \notin InUse(subs), n \in InUse(subs')
                   PROVE  StateOf(subs')[n] = "offline"
        OBVIOUS
      <4>1. Search(subs', n) \in Slots /\ subs'[Search(subs', n)].name = n
        BY <1>1, SearchFacts
      <4>2. \A t \in Slots : subs[t].name # n
        BY <2>4 DEF InUse, Named
      <4>3. Search(subs', n) = s
        BY <2>2, <4>1, <4>2
      <4> QED
        BY <2>2, <2>4, <4>3 DEF StateOf
    <3>2. {subs[s].name, subs'[s].name} \subseteq {n, NoName}
      BY <2>1, <2>2
    <3>3. n \notin InUse(subs) /\ n \in InUse(subs')
          => subs[s].name = NoName /\ StateOf(subs')[n] = "offline"
      BY <2>1, <3>1
    <3>4. \A t \in Slots \ {s} : subs'[t] = subs[t]
      BY <2>2
    <3> QED
      BY <2>1, <2>4, <3>2, <3>3, <3>4, OneRecord
  <2> QED
    BY <2>3, <2>4 DEF AnyName
<1> QED
  BY <1>1, <1>2, <1>3, AddFacts

LEMMA DelMaps ==
    ASSUME TypeOK, TypeOK', NEW n \in AnyName, Saved(Del(subs, n))
    PROVE  MapStep
<1>1. /\ subs \in Tables /\ subs' \in Tables /\ NoName \notin Names
      /\ subs' = Del(subs, n)
  BY NameAssumption DEF TypeOK, Tables, Saved
<1>2. CASE subs' = subs
  BY <1>2, SameState
<1>3. CASE \E s \in Slots : /\ n \in InUse(subs) /\ subs[s].name = n
                            /\ Del(subs, n) = [subs EXCEPT ![s] = NoRecord]
  <2>1. PICK s \in Slots : subs[s].name = n /\ subs' = [subs EXCEPT ![s] = NoRecord]
    BY <1>1, <1>3
  <2>2. n \in Names /\ n \in InUse(subs)
    BY <1>3 DEF InUse
  <2>3. subs'[s].name = NoName /\ \A t \in Slots \ {s} : subs'[t] = subs[t]
    BY <1>1, <2>1, RecordFacts DEF Tables
  <2> QED
    BY <2>1, <2>2, <2>3, OneRecord
<1> QED
  BY <1>1, <1>2, <1>3, DelFacts

LEMMA UpdateMaps ==
    ASSUME TypeOK, TypeOK', NEW on \in BOOLEAN, Saved([subs EXCEPT ![main.slot].online = on])
    PROVE  MapStep
<1>1. /\ subs \in Tables /\ main.slot \in Slots /\ subs[main.slot].name \in AnyName
      /\ subs' = [subs EXCEPT ![main.slot].online = on]
  BY Values DEF Saved
<1>2. /\ subs'[main.slot].name = subs[main.slot].name
      /\ \A t \in Slots \ {main.slot} : subs'[t] = subs[t]
  BY <1>1 DEF Tables, Records
<1>3. CASE subs[main.slot].name = NoName
  BY <1>2, <1>3, SameState
<1>4. CASE subs[main.slot].name \in Names
  <2>1. subs[main.slot].name \in InUse(subs)
    BY <1>1, <1>4 DEF InUse, Named
  <2> QED
    BY <1>1, <1>2, <1>4, <2>1, OneRecord
<1> QED
  BY <1>1, <1>3, <1>4 DEF AnyName

LEMMA ClearMaps ==
    ASSUME TypeOK, TypeOK', Saved([s \in Slots |-> NoRecord])
    PROVE  MapStep
<1>1. subs' = [s \in Slots |-> NoRecord] /\ NoName \notin Names
  BY NameAssumption DEF Saved
<1>2. InUse(subs') = {}
  BY <1>1, RecordFacts DEF InUse, Named
<1>3. DeviceState' = Map!Empty
  BY <1>2 DEF DeviceState, Map!Empty
<1> QED
  BY <1>3 DEF MapStep, Map!Next, Map!Clear

LEMMA StepMaps == TypeOK /\ DiskMatches /\ [Next]_vars => MapStep
<1> SUFFICES ASSUME TypeOK, DiskMatches, [Next]_vars PROVE MapStep
  OBVIOUS
<1>1. /\ TypeOK' /\ subs \in Tables /\ main.slot \in Slots /\ sdk.name \in AnyName
      /\ main.name \in AnyName /\ main.online \in BOOLEAN /\ sdk.slot \in Slots
      /\ \A s \in Slots : subs[s].name \in AnyName
  BY TypesStep, Values DEF MainPlaces, SdkPlaces
<1>2. ASSUME UNCHANGED subs
      PROVE  MapStep
  BY <1>1, <1>2, SameState
<1>3. ASSUME NEW id, subs' = [subs EXCEPT ![main.slot].devid = id]
      PROVE  MapStep
  <2>1. \A s \in Slots : subs'[s].name = subs[s].name /\ subs'[s].online = subs[s].online
    BY <1>1, <1>3 DEF Tables, Records
  <2> QED
    BY <1>1, <2>1, SameState
<1>4. ASSUME NEW to \in BOOLEAN, subs' = [subs EXCEPT ![main.slot].login = to]
      PROVE  MapStep
  <2>1. \A s \in Slots : subs'[s].name = subs[s].name /\ subs'[s].online = subs[s].online
    BY <1>1, <1>4 DEF Tables, Records
  <2> QED
    BY <1>1, <2>1, SameState
<1>5. CASE MainNext
  <2>1. CASE \E n \in Names, o \in BOOLEAN : RegReport(n, o) \/ StatusReport(n, o)
    BY <1>2, <2>1 DEF RegReport, StatusReport, Start
  <2>2. CASE \E n \in Names : UnregReport(n) \/ EventReport(n)
    BY <1>2, <2>2 DEF UnregReport, EventReport, Start
  <2>3. CASE MainAllocates
    BY <1>1, <2>3, AddMaps DEF MainAllocates
  <2>4. CASE \E id \in Ids : CreateReturns(id)
    BY <1>3, <2>4 DEF CreateReturns
  <2>5. CASE CreateFails \/ LastCallReturns \/ EventReturns
    BY <1>2, <2>5 DEF CreateFails, LastCallReturns, EventReturns
  <2>6. CASE UpdateRecord
    BY <1>1, <2>6, UpdateMaps DEF UpdateRecord
  <2>7. ASSUME NEW ok \in BOOLEAN, RegisterReturns(ok) \/ DestroyReturns(ok)
        PROVE  MapStep
    BY <1>2, <2>7 DEF RegisterReturns, DestroyReturns
  <2>8. ASSUME NEW ok \in BOOLEAN, LoginReturns(ok) \/ LogoutReturns(ok)
        PROVE  MapStep
    <3>1. \E to \in BOOLEAN : subs' = [subs EXCEPT ![main.slot].login = to]
      BY <2>8 DEF LoginReturns, LogoutReturns
    <3> QED
      BY <1>4, <3>1
  <2>9. ASSUME NEW ok \in BOOLEAN, UnregisterReturns(ok)
        PROVE  MapStep
    BY <1>1, <1>2, <2>9, DelMaps DEF UnregisterReturns
  <2> QED
    BY <1>5, <2>1, <2>2, <2>3, <2>4, <2>5, <2>6, <2>7, <2>8, <2>9 DEF MainNext
<1>6. CASE SdkNext
  <2>1. ASSUME NEW n \in Names, AddSubDev(n) \/ DelSubDev(n) \/ DeletedEvent(n)
        PROVE  MapStep
    <3>1. n \in AnyName
      BY DEF AnyName
    <3> QED
      BY <1>1, <1>2, <2>1, <3>1, DelMaps DEF AddSubDev, DelSubDev, DeletedEvent
  <2>2. CASE SdkAllocates
    BY <1>1, <2>2, AddMaps DEF SdkAllocates
  <2>3. CASE ClrSubDev
    BY <1>1, <2>3, ClearMaps DEF ClrSubDev
  <2>4. CASE SdkUnregisterReturns
    BY <1>1, <2>4, DelMaps DEF SdkUnregisterReturns
  <2>5. CASE DeviceSentAway \/ \E ok \in BOOLEAN : SdkDestroyReturns(ok)
    BY <1>2, <2>5 DEF DeviceSentAway, SdkDestroyReturns
  <2> QED
    BY <1>6, <2>1, <2>2, <2>3, <2>4, <2>5 DEF SdkNext
<1>7. CASE Restart
  <2>1. \A s \in Slots : subs'[s].name = subs[s].name /\ subs'[s].online = subs[s].online
    BY <1>7 DEF Restart, DiskMatches
  <2> QED
    BY <1>1, <2>1, SameState
<1>8. CASE UNCHANGED vars
  BY <1>2, <1>8 DEF vars
<1> QED
  BY <1>5, <1>6, <1>7, <1>8 DEF Next

\* Records, slots, the file and two threads that may clash implement a map from
\* names to states, changed one device at a time or emptied (product_sub.c).
THEOREM TableImplementsMap == Spec => ImplementsMap
<1>1. Init => Map!Init
  <2> SUFFICES ASSUME Init PROVE Map!Init
    OBVIOUS
  <2>1. InUse(subs) = {}
    BY RecordFacts, NameAssumption DEF Init, InUse, Named
  <2> QED
    BY <2>1 DEF DeviceState, Map!Init, Map!Empty
<1>2. TypeOK /\ DiskMatches /\ [Next]_vars => [Map!Next]_DeviceState
  BY StepMaps DEF MapStep
<1> QED
  BY <1>1, <1>2, TypeCorrect, DiskAlways, PTL DEF Spec, ImplementsMap, Map!Spec
=============================================================================
