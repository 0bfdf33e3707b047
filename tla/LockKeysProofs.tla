--------------------------- MODULE LockKeysProofs ---------------------------
(***************************************************************************)
(* Proofs about LockKeys for every set of codes, every number of slots,    *)
(* every bound and every set of faults.                                    *)
(***************************************************************************)
EXTENDS LockKeys, TLAPS

LEMMA IdsAreNumbers == 0 \in Ids /\ Ids \subseteq Nat
  BY CodesAssumption DEF Ids, KeyId, Password

LEMMA SlotsNonEmpty == 1 \in Slots /\ Slots \subseteq Nat
  BY MaxKeyAssumption DEF Slots

LEMMA IdxInArrays == \A type : TypeIdx(type) \in Arrays
  BY DEF TypeIdx, Arrays

(* Reading and writing one slot of a table.                                *)
LEMMA SlotRead ==
  ASSUME NEW t \in Table, NEW a \in Arrays, NEW i \in Slots
  PROVE  t[a] \in [Slots -> Slot] /\ t[a][i] \in Slot
  BY DEF Table

LEMMA SlotWrite ==
  ASSUME NEW t \in Table, NEW a \in Arrays, NEW i \in Slots, NEW s \in Slot
  PROVE  [t EXCEPT ![a][i] = s] \in Table
<1>1. [t[a] EXCEPT ![i] = s] \in [Slots -> Slot]
  BY SlotRead
<1> QED  BY <1>1 DEF Table

(* A save leaves the file a table and the number of open files in range.   *)
LEMMA SaveTyped ==
  ASSUME TypeOK, NEW t \in Table, Save(t)
  PROVE  disk' \in Table /\ fds' \in 0..FdLimit
  BY BoundsAssumption DEF Save, TypeOK

(* A report that is handled leaves every variable of its kind.             *)
LEMMA HandleReportTyped ==
  ASSUME TypeOK, HandleReport
  PROVE  TypeOK'
<1> DEFINE r == Head(reports)
<1>1. r \in Reports /\ reports' \in Seq(Reports)
  BY DEF TypeOK, HandleReport
<1>2. ReportArray(r) \in Arrays /\ TypeIdx(ReportType(0)) \in Arrays
  BY IdxInArrays DEF ReportArray
<1>3. r.id \in Ids
  BY <1>1 DEF Reports
<1>4. CASE KeyAdded(r)
  <2>1. keys' \in Table
    <3>1. [state |-> "ADDED", id |-> r.id] \in Slot
      BY <1>3 DEF Slot
    <3>2. PICK i \in Slots : keys' = [keys EXCEPT ![ReportArray(r)][i] = [state |-> "ADDED", id |-> r.id]]
      BY <1>4 DEF KeyAdded
    <3> QED  BY <1>2, <3>1, <3>2, SlotWrite DEF TypeOK
  <2>2. disk' \in Table /\ fds' \in 0..FdLimit
    BY <1>4, <2>1, SaveTyped DEF KeyAdded
  <2>3. main' \in Notices
    BY <1>3, <1>4 DEF KeyAdded, Notices
  <2> QED  BY <1>1, <2>1, <2>2, <2>3 DEF HandleReport, TypeOK
<1>5. CASE KeyDeleted(r)
  <2>1. keys' \in Table
    <3>1. NoSlot \in Slot
      BY IdsAreNumbers DEF NoSlot, Slot
    <3>2. PICK i \in Slots : keys' = [keys EXCEPT ![ReportArray(r)][i] = NoSlot]
      BY <1>5 DEF KeyDeleted
    <3> QED  BY <1>2, <3>1, <3>2, SlotWrite DEF TypeOK
  <2>2. disk' \in Table /\ fds' \in 0..FdLimit
    BY <1>5, <2>1, SaveTyped DEF KeyDeleted
  <2>3. main' \in Notices
    BY <1>3, <1>5 DEF KeyDeleted, Notices
  <2> QED  BY <1>1, <2>1, <2>2, <2>3 DEF HandleReport, TypeOK
<1>6. CASE KeysCleared(r)
  <2>1. keys' \in Table
    BY <1>2, <1>6, IdsAreNumbers DEF KeysCleared, TypeOK, Table, Slot, NoSlot
  <2>2. disk' \in Table /\ fds' \in 0..FdLimit
    BY <1>6, <2>1, SaveTyped DEF KeysCleared, TypeOK
  <2>3. main' \in Notices
    BY <1>6, IdsAreNumbers DEF KeysCleared, Notices
  <2> QED  BY <1>1, <2>1, <2>2, <2>3 DEF HandleReport, TypeOK
<1>7. CASE ReportIgnored(r)
  BY <1>1, <1>7 DEF ReportIgnored, HandleReport, TypeOK
<1> QED  BY <1>4, <1>5, <1>6, <1>7 DEF HandleReport

LEMMA InitTyped == Init => TypeOK
<1> SUFFICES ASSUME Init PROVE TypeOK  OBVIOUS
<1>1. NoSlot \in Slot
  BY IdsAreNumbers DEF NoSlot, Slot
<1>2. keys \in Table /\ disk \in Table
  BY <1>1 DEF Init, Table
<1>3. svc \in Services /\ main \in Notices
  BY IdsAreNumbers, SlotsNonEmpty DEF Init, IdleSvc, Idle, Services, Notices
<1> QED  BY <1>2, <1>3, BoundsAssumption DEF Init, TypeOK

LEMMA StepTyped == TypeOK /\ [Next]_vars => TypeOK'
<1> SUFFICES ASSUME TypeOK, [Next]_vars PROVE TypeOK'  OBVIOUS
<1> USE IdsAreNumbers, SlotsNonEmpty, IdxInArrays
<1>1. ASSUME NEW c \in Codes, AddKey(c) PROVE TypeOK'
  <2>1. KeyId(Password, c) \in Ids
    BY DEF Ids
  <2>2. keys' \in Table
    <3>1. [state |-> "ADDING", id |-> KeyId(Password, c)] \in Slot
      BY <2>1 DEF Slot
    <3>2. PICK i \in Slots : keys' = [keys EXCEPT ![TypeIdx(Password)][i]
                                        = [state |-> "ADDING", id |-> KeyId(Password, c)]]
      BY <1>1 DEF AddKey
    <3> QED  BY <3>1, <3>2, SlotWrite DEF TypeOK
  <2>3. svc' \in Services
    BY <1>1 DEF AddKey, Services, First, Free
  <2> QED  BY <1>1, <2>2, <2>3 DEF AddKey, TypeOK
<1>2. ASSUME NEW c \in Codes, DelKey(c) PROVE TypeOK'
  <2>1. svc' \in Services
    BY <1>2 DEF DelKey, Services, Last, WithId, Used
  <2> QED  BY <1>2, <2>1 DEF DelKey, TypeOK
<1>3. CASE ClrKey
  <2>1. svc' \in Services
    BY <1>3 DEF ClrKey, Services
  <2> QED  BY <1>3, <2>1 DEF ClrKey, TypeOK
<1>4. CASE Deref
  <2>1. keys[TypeIdx(Password)][svc.slot].id \in Ids
    <3>1. svc.slot \in Slots /\ TypeIdx(Password) \in Arrays
      BY DEF TypeOK, Services
    <3>2. keys[TypeIdx(Password)][svc.slot] \in Slot
      BY <3>1, SlotRead DEF TypeOK
    <3> QED  BY <3>2 DEF Slot
  <2>2. svc' \in Services
    BY <1>4, <2>1 DEF Deref, Services, TypeOK
  <2> QED  BY <1>4, <2>2 DEF Deref, TypeOK
<1>5. CASE Send
  <2>1. svc' \in Services
    BY <1>5 DEF Send, IdleSvc, Services
  <2>2. cmds' \in Seq(Commands)
    BY <1>5 DEF Send, TypeOK, Commands, Services
  <2> QED  BY <1>5, <2>1, <2>2 DEF Send, TypeOK
<1>6. CASE LockExecutes
  <2>1. Head(cmds) \in Commands /\ cmds' \in Seq(Commands)
    BY <1>6 DEF LockExecutes, TypeOK
  <2>2. reports' \in Seq(Reports)
    <3>1. Head(cmds).id \in Ids
      BY <2>1 DEF Commands
    <3>2. \A add, ok \in BOOLEAN, id \in Ids : Answer(add, id, ok) => reports' \in Seq(Reports)
      <4>1. \A add, ok \in BOOLEAN, id \in Ids : [add |-> add, id |-> id, ok |-> ok] \in Reports
        BY DEF Reports
      <4> QED  BY <4>1 DEF Answer, TypeOK
    <3>3. \E add, ok \in BOOLEAN, id \in Ids : Answer(add, id, ok)
      BY <1>6, <3>1 DEF LockExecutes
    <3> QED  BY <3>2, <3>3
  <2>3. lock' \subseteq Ids /\ everStored' \subseteq Ids
    BY <1>6, <2>1 DEF LockExecutes, TypeOK, Commands
  <2> QED  BY <1>6, <2>1, <2>2, <2>3 DEF LockExecutes, TypeOK
<1>7. CASE LoseCommand
  BY <1>7 DEF LoseCommand, TypeOK
<1>8. CASE LoseReport
  BY <1>8 DEF LoseReport, TypeOK
<1>9. CASE HandleReport
  BY <1>9, HandleReportTyped
<1>10. CASE Notify
  <2>1. main \in Notices /\ main.id \in Ids
    BY DEF TypeOK, Notices, Idle
  <2>2. told' \subseteq Ids /\ untold' \subseteq Ids
    BY <1>10, <2>1 DEF Notify, ToldAfter, TypeOK, Notices, Idle
  <2>3. main' \in Notices
    BY <1>10 DEF Notify, Idle, Notices
  <2> QED  BY <1>10, <2>2, <2>3 DEF Notify, TypeOK
<1>11. CASE Restart
  <2>1. svc' \in Services /\ main' \in Notices
    BY <1>11 DEF Restart, IdleSvc, Idle, Services, Notices
  <2>2. untold' \subseteq Ids
    <3>1. main.id \in Ids
      BY DEF TypeOK, Notices, Idle
    <3> QED  BY <1>11, <3>1 DEF Restart, TypeOK
  <2>3. fds' \in 0..FdLimit /\ crashes' \in 0..MaxCrash
    BY <1>11, BoundsAssumption DEF Restart, TypeOK
  <2> QED  BY <1>11, <2>1, <2>2, <2>3 DEF Restart, TypeOK
<1>12. CASE StatusSaved
  <2>1. disk' \in Table /\ fds' \in 0..FdLimit
    BY <1>12, SaveTyped DEF StatusSaved, TypeOK
  <2>2. main' \in Notices
    BY <1>12 DEF StatusSaved, Notices
  <2> QED  BY <1>12, <2>1, <2>2 DEF StatusSaved, TypeOK
<1>13. CASE UNCHANGED vars
  BY <1>13 DEF vars, TypeOK
<1> QED
  BY <1>1, <1>2, <1>3, <1>4, <1>5, <1>6, <1>7, <1>8, <1>9, <1>10, <1>11, <1>12, <1>13 DEF Next

(* Each variable keeps its kind.                                           *)
THEOREM TypeCorrect == Spec => []TypeOK
  BY InitTyped, StepTyped, PTL DEF Spec

---------------------------------------------------------------------------
(* What the actions do to the confirmed keys of a table.                   *)

LEMMA HeldMember ==
  ASSUME NEW t \in Table, NEW id
  PROVE  id \in Held(t) <=> /\ id \in Ids
                            /\ \E a \in Arrays, i \in Slots :
                                  t[a][i] = [state |-> "ADDED", id |-> id]
  BY DEF Held

Write(t, a, i, s) == [t EXCEPT ![a][i] = s]

(* Writing one slot changes the confirmed keys by at most the old and the  *)
(* new key of that slot.                                                   *)
LEMMA HeldAfterWrite ==
  ASSUME NEW t \in Table, NEW a \in Arrays, NEW i \in Slots, NEW s \in Slot,
         NEW u, u = Write(t, a, i, s)
  PROVE  /\ Held(u) \subseteq Held(t) \cup (IF s.state = "ADDED" THEN {s.id} ELSE {})
         /\ Held(t) \subseteq Held(u) \cup (IF t[a][i].state = "ADDED" THEN {t[a][i].id} ELSE {})
         /\ s.state = "ADDED" => s.id \in Held(u)
<1>1. u \in Table
  BY SlotWrite DEF Write
<1>2. \A b \in Arrays, j \in Slots : u[b][j] = IF b = a /\ j = i THEN s ELSE t[b][j]
  BY SlotRead DEF Table, Write
<1>3. ASSUME NEW id \in Held(u)
      PROVE  id \in Held(t) \cup (IF s.state = "ADDED" THEN {s.id} ELSE {})
  <2>1. PICK b \in Arrays, j \in Slots : u[b][j] = [state |-> "ADDED", id |-> id] /\ id \in Ids
    BY <1>1, <1>3, HeldMember
  <2>2. CASE b = a /\ j = i
    BY <1>2, <2>1, <2>2
  <2>3. CASE ~(b = a /\ j = i)
    BY <1>2, <2>1, <2>3, HeldMember
  <2> QED  BY <2>2, <2>3
<1>4. ASSUME NEW id \in Held(t)
      PROVE  id \in Held(u) \cup (IF t[a][i].state = "ADDED" THEN {t[a][i].id} ELSE {})
  <2>1. PICK b \in Arrays, j \in Slots : t[b][j] = [state |-> "ADDED", id |-> id] /\ id \in Ids
    BY <1>4, HeldMember
  <2>2. CASE b = a /\ j = i
    BY <2>1, <2>2
  <2>3. CASE ~(b = a /\ j = i)
    BY <1>1, <1>2, <2>1, <2>3, HeldMember
  <2> QED  BY <2>2, <2>3
<1>5. ASSUME s.state = "ADDED"
      PROVE  s.id \in Held(u)
  <2>1. s = [state |-> "ADDED", id |-> s.id] /\ s.id \in Ids
    BY <1>5 DEF Slot
  <2> QED  BY <1>1, <1>2, <2>1, HeldMember
<1> QED  BY <1>3, <1>4, <1>5

(* A reserved slot is not a key yet.                                       *)
LEMMA AddKeyHeld ==
  ASSUME TypeOK, NEW c \in Codes, AddKey(c)
  PROVE  Held(keys') = Held(keys)
<1> DEFINE s == [state |-> "ADDING", id |-> KeyId(Password, c)]
<1>1. PICK i \in Slots : /\ keys[TypeIdx(Password)][i].state = "NONE"
                         /\ keys' = Write(keys, TypeIdx(Password), i, s)
  BY DEF Write, AddKey, First, Free
<1>2. s \in Slot
  BY DEF Slot, Ids
<1>3. keys \in Table /\ TypeIdx(Password) \in Arrays
  BY IdxInArrays DEF TypeOK
<1>4. s.state # "ADDED" /\ keys[TypeIdx(Password)][i].state # "ADDED"
  BY <1>1
<1> HIDE DEF s
<1>5. /\ Held(keys') \subseteq Held(keys) \cup {}
      /\ Held(keys) \subseteq Held(keys') \cup {}
  BY <1>1, <1>2, <1>3, <1>4, HeldAfterWrite
<1> QED  BY <1>5

(* A confirmation adds the reported key and drops none.                    *)
LEMMA KeyAddedHeld ==
  ASSUME TypeOK, NEW r \in Reports, KeyAdded(r)
  PROVE  /\ Held(keys) \subseteq Held(keys')
         /\ Held(keys') \subseteq Held(keys) \cup {r.id}
         /\ r.id \in Held(keys')
<1> DEFINE s == [state |-> "ADDED", id |-> r.id]
           a == ReportArray(r)
<1>1. PICK i \in Slots : /\ keys[a][i] = [state |-> "ADDING", id |-> r.id]
                         /\ keys' = Write(keys, a, i, s)
  BY DEF Write, KeyAdded, First, Having
<1>2. s \in Slot
  BY DEF Slot, Reports
<1>3. keys \in Table /\ a \in Arrays
  BY IdxInArrays DEF TypeOK, ReportArray
<1>4. keys[a][i].state # "ADDED" /\ s.state = "ADDED" /\ s.id = r.id
  BY <1>1
<1> HIDE DEF a, s
<1> QED  BY <1>1, <1>2, <1>3, <1>4, HeldAfterWrite

(* A deletion drops at most the reported key.                              *)
LEMMA KeyDeletedHeld ==
  ASSUME TypeOK, NEW r \in Reports, KeyDeleted(r)
  PROVE  /\ Held(keys') \subseteq Held(keys)
         /\ Held(keys) \subseteq Held(keys') \cup {r.id}
<1> DEFINE a == ReportArray(r)
<1>1. PICK i \in Slots : /\ keys[a][i] = [state |-> "ADDED", id |-> r.id]
                         /\ keys' = Write(keys, a, i, NoSlot)
  BY DEF Write, KeyDeleted, First, Having
<1>2. NoSlot \in Slot /\ NoSlot.state # "ADDED"
  BY IdsAreNumbers DEF NoSlot, Slot
<1>3. keys \in Table /\ a \in Arrays
  BY IdxInArrays DEF TypeOK, ReportArray
<1>4. keys[a][i].id = r.id
  BY <1>1
<1> HIDE DEF a
<1> QED  BY <1>1, <1>2, <1>3, <1>4, HeldAfterWrite

(* Every reserved or confirmed slot is in the array of the passwords.      *)
OnlyPasswords ==
    \A a \in Arrays \ {TypeIdx(Password)}, i \in Slots :
        keys[a][i].state = "NONE" /\ disk[a][i].state = "NONE"

(* Clearing an empty array drops no key.                                   *)
LEMMA EmptyClear ==
  ASSUME TypeOK, NEW r, KeysCleared(r),
         \A i \in Slots : keys[TypeIdx(ReportType(0))][i].state = "NONE"
  PROVE  Held(keys') = Held(keys)
<1> DEFINE z == TypeIdx(ReportType(0))
<1>1. \A a \in Arrays, i \in Slots : keys'[a][i] = IF a = z THEN NoSlot ELSE keys[a][i]
  BY IdxInArrays DEF KeysCleared, TypeOK, Table
<1>2. NoSlot.state = "NONE"
  BY DEF NoSlot
<1> QED  BY <1>1, <1>2 DEF Held

(* Clearing drops no key at all: it clears an array no service fills.      *)
LEMMA KeysClearedHeld ==
  ASSUME TypeOK, NEW r, KeysCleared(r)
  PROVE  /\ Held(keys') \subseteq Held(keys)
         /\ OnlyPasswords => Held(keys') = Held(keys)
<1> DEFINE z == TypeIdx(ReportType(0))
<1>1. z = 0 /\ TypeIdx(Password) = 1
  <2>1. ReportType(0) = 0
    BY SMT DEF ReportType
  <2>2. TypeIdx(0) = 0 /\ TypeIdx(Password) = 1
    BY SMT DEF TypeIdx, Password
  <2> QED  BY <2>1, <2>2
<1>2. \A a \in Arrays, i \in Slots : keys'[a][i] = IF a = z THEN NoSlot ELSE keys[a][i]
  BY <1>1 DEF KeysCleared, TypeOK, Table, Arrays
<1>3. NoSlot.state = "NONE"
  BY DEF NoSlot
<1> QED  BY <1>1, <1>2, <1>3 DEF Held, OnlyPasswords, Arrays

(* With descriptors left, or none counted, a save makes the file equal to  *)
(* the table; without, the file stays and no descriptor is left.           *)
LEMMA SaveOutcome ==
  ASSUME TypeOK, NEW t, Save(t)
  PROVE  \/ disk' = t
         \/ disk' = disk /\ "fd" \in Faults /\ ~(fds' < FdLimit)
  BY DEF Save

(* The steps other than these leave the table and the file alone.          *)
LEMMA TablesUnchanged ==
  ASSUME [Next]_vars,
         ~HandleReport, ~StatusSaved, ~Restart, \A c \in Codes : ~AddKey(c)
  PROVE  UNCHANGED <<keys, disk, fds>>
  BY DEF Next, vars, DelKey, ClrKey, Deref, Send, LockExecutes, LoseCommand, LoseReport, Notify

---------------------------------------------------------------------------
(* Confirmed keys were stored by the lock: true reports are the missing    *)
(* half of the induction.                                                  *)

ReportsTrue ==
    \A n \in 1..Len(reports) : reports[n].add /\ reports[n].ok => reports[n].id \in everStored

StoredInv == TypeOK /\ HeldWasStored /\ ReportsTrue

LEMMA EverStoredGrows ==
  ASSUME [Next]_vars
  PROVE  everStored \subseteq everStored'
  BY DEF Next, vars, AddKey, DelKey, ClrKey, Deref, Send, LockExecutes, LoseCommand, LoseReport,
         HandleReport, StatusSaved, Notify, Restart

LEMMA ReportsStayTrue ==
  ASSUME TypeOK, ReportsTrue, [Next]_vars
  PROVE  ReportsTrue'
<1>1. CASE LockExecutes
  <2>1. reports \in Seq(Reports)
    BY DEF TypeOK
  <2>2. everStored \subseteq everStored'
    BY <1>1 DEF LockExecutes
  <2>3. PICK q : /\ reports' = Append(reports, q)
                 /\ q.add /\ q.ok => q.id \in everStored'
    BY <1>1 DEF LockExecutes, Answer
  <2>4. /\ Len(reports') = Len(reports) + 1
        /\ \A n \in 1..Len(reports) : reports'[n] = reports[n]
        /\ reports'[Len(reports) + 1] = q
    BY <2>1, <2>3
  <2>5. \A n \in 1..Len(reports') : n \in 1..Len(reports) \/ n = Len(reports) + 1
    BY <2>1, <2>4
  <2> QED  BY <2>2, <2>3, <2>4, <2>5 DEF ReportsTrue
<1>2. CASE reports # <<>> /\ reports' = Tail(reports) /\ UNCHANGED everStored
  <2>1. /\ Len(reports') = Len(reports) - 1
        /\ \A n \in 1..Len(reports') : reports'[n] = reports[n + 1] /\ n + 1 \in 1..Len(reports)
    BY <1>2 DEF TypeOK
  <2> QED  BY <1>2, <2>1 DEF ReportsTrue
<1>3. CASE UNCHANGED <<reports, everStored>>
  BY <1>3 DEF ReportsTrue
<1> QED
  BY <1>1, <1>2, <1>3 DEF Next, vars, AddKey, DelKey, ClrKey, Deref, Send, LoseCommand, LoseReport,
                          HandleReport, StatusSaved, Notify, Restart

(* Every confirmed key, in memory and in the file, is one the lock reported *)
(* to have stored: no refused, lost or repeated request makes a key.        *)
THEOREM HeldKeysWereStored == Spec => []HeldWasStored
<1>1. Init => StoredInv
  <2> SUFFICES ASSUME Init PROVE HeldWasStored /\ ReportsTrue
    BY InitTyped DEF StoredInv
  <2>1. Held(keys) = {} /\ Held(disk) = {}
    BY DEF Init, Held, NoSlot
  <2> QED  BY <2>1 DEF Init, HeldWasStored, ReportsTrue
<1>2. StoredInv /\ [Next]_vars => StoredInv'
  <2> SUFFICES ASSUME StoredInv, [Next]_vars PROVE HeldWasStored'
    BY StepTyped, ReportsStayTrue DEF StoredInv
  <2> USE DEF HeldWasStored
  <2>1. everStored \subseteq everStored'
    BY EverStoredGrows
  <2>2. Held(keys) \subseteq everStored /\ Held(disk) \subseteq everStored
    BY DEF StoredInv
  <2>3. ASSUME NEW c \in Codes, AddKey(c) PROVE HeldWasStored'
    <3>1. Held(keys') = Held(keys)
      BY <2>3, AddKeyHeld DEF StoredInv
    <3> QED  BY <2>1, <2>2, <2>3, <3>1 DEF AddKey
  <2>4. CASE HandleReport
    <3> DEFINE r == Head(reports)
    <3>1. r \in Reports /\ (r.add /\ r.ok => r.id \in everStored)
      BY <2>4 DEF HandleReport, StoredInv, TypeOK, ReportsTrue
    <3>2. Held(keys') \subseteq everStored
      <4>1. CASE KeyAdded(r)
        BY <2>2, <3>1, <4>1, KeyAddedHeld DEF StoredInv, KeyAdded, Accepts
      <4>2. CASE KeyDeleted(r)
        BY <2>2, <3>1, <4>2, KeyDeletedHeld DEF StoredInv
      <4>3. CASE KeysCleared(r)
        BY <2>2, <4>3, KeysClearedHeld DEF StoredInv
      <4>4. CASE ReportIgnored(r)
        BY <2>2, <4>4 DEF ReportIgnored
      <4> QED  BY <2>4, <4>1, <4>2, <4>3, <4>4 DEF HandleReport
    <3>3. disk' = keys' \/ disk' = disk
      BY <2>4 DEF HandleReport, KeyAdded, KeyDeleted, KeysCleared, ReportIgnored, Save
    <3> QED  BY <2>1, <2>2, <3>2, <3>3
  <2>5. CASE Restart
    BY <2>1, <2>2, <2>5 DEF Restart
  <2>6. CASE StatusSaved
    BY <2>1, <2>2, <2>6 DEF StatusSaved, Save
  <2> QED
    <3>1. CASE ~HandleReport /\ ~StatusSaved /\ ~Restart /\ \A c \in Codes : ~AddKey(c)
      BY <2>1, <2>2, <3>1, TablesUnchanged
    <3> QED  BY <2>3, <2>4, <2>5, <2>6, <3>1
<1>3. StoredInv => HeldWasStored
  BY DEF StoredInv
<1> QED  BY <1>1, <1>2, <1>3, PTL DEF Spec

---------------------------------------------------------------------------
(* What a restart finds.                                                   *)

SavedInv == TypeOK /\ RestartKeepsKeys

LEMMA InitSaved == Init => RestartKeepsKeys
  BY DEF Init, RestartKeepsKeys

LEMMA StepSaved ==
  ASSUME SavedInv, [Next]_vars
  PROVE  RestartKeepsKeys'
<1> USE DEF RestartKeepsKeys
<1> SUFFICES ASSUME "fd" \in Faults => fds' < FdLimit
             PROVE  Held(disk') = Held(keys')
  OBVIOUS
<1>1. ASSUME NEW c \in Codes, AddKey(c) PROVE Held(disk') = Held(keys')
  BY <1>1, AddKeyHeld DEF SavedInv, AddKey
<1>2. CASE HandleReport
  <2> DEFINE r == Head(reports)
  <2>1. CASE KeysCleared(r) /\ Used(TypeIdx(ReportType(0))) = {}
    <3>1. Held(keys') = Held(keys)
      <4>1. \A i \in Slots : keys[TypeIdx(ReportType(0))][i].state = "NONE"
        BY <2>1 DEF Used
      <4> QED  BY <2>1, <4>1, EmptyClear DEF SavedInv
    <3> QED  BY <2>1, <3>1 DEF KeysCleared, SavedInv
  <2>2. CASE ReportIgnored(r)
    BY <2>2 DEF ReportIgnored, SavedInv
  <2>3. CASE Save(keys')
    <3>1. disk' = keys'
      BY <2>3, SaveOutcome DEF SavedInv
    <3> QED  BY <3>1
  <2> QED
    BY <1>2, <2>1, <2>2, <2>3 DEF HandleReport, KeyAdded, KeyDeleted, KeysCleared
<1>3. CASE Restart
  BY <1>3 DEF Restart
<1>4. CASE StatusSaved
  BY <1>4, SaveOutcome DEF StatusSaved, SavedInv, TypeOK
<1> QED
  <2>1. CASE ~HandleReport /\ ~StatusSaved /\ ~Restart /\ \A c \in Codes : ~AddKey(c)
    BY <2>1, TablesUnchanged DEF SavedInv
  <2> QED  BY <1>1, <1>2, <1>3, <1>4, <2>1

(* As long as descriptors are left, subdev.db holds exactly the confirmed  *)
(* keys of the table, at every point a restart can come.                   *)
THEOREM RestartFindsKeys == Spec => []RestartKeepsKeys
<1>1. Init => SavedInv
  BY InitTyped, InitSaved DEF SavedInv
<1>2. SavedInv /\ [Next]_vars => SavedInv'
  BY StepTyped, StepSaved DEF SavedInv
<1>3. SavedInv => RestartKeepsKeys
  BY DEF SavedInv
<1> QED  BY <1>1, <1>2, <1>3, PTL DEF Spec

---------------------------------------------------------------------------
(* What the cloud was told, unless descriptors run out and the gateway is  *)
(* restarted.  Running out does no harm by itself: the table in memory is  *)
(* right, and only a restart replaces it by the file that was not written. *)

SavesSurvive == ~({"fd", "crash"} \subseteq Faults)

NoticeTrue == main.event = "KeyAdded" => main.id \in Held(keys)

CloudInv == TypeOK /\ RestartKeepsKeys /\ OnlyPasswords /\ NoticeTrue /\ CloudKeysAreHeld

(* A report that is acted on, other than a clear, is about a password.     *)
LEMMA AcceptedIsPassword ==
  ASSUME TypeOK, OnlyPasswords, NEW r \in Reports, Accepts(r)
  PROVE  ReportArray(r) = TypeIdx(Password)
<1>1. PICK i \in Slots : keys[ReportArray(r)][i].state # "NONE"
  BY DEF Accepts, Last, WithId, Used
<1>2. ReportArray(r) \in Arrays
  BY IdxInArrays DEF ReportArray
<1> QED  BY <1>1, <1>2 DEF OnlyPasswords

LEMMA OnlyPasswordsStep ==
  ASSUME TypeOK, OnlyPasswords, [Next]_vars
  PROVE  OnlyPasswords'
<1> USE DEF OnlyPasswords
<1>1. \A s : \A t \in Table, i \in Slots : \A a \in Arrays \ {TypeIdx(Password)} :
         [t EXCEPT ![TypeIdx(Password)][i] = s][a] = t[a]
  BY DEF Table
<1>2. ASSUME NEW c \in Codes, AddKey(c) PROVE OnlyPasswords'
  BY <1>1, <1>2 DEF AddKey, TypeOK
<1>3. CASE HandleReport
  <2> DEFINE r == Head(reports)
  <2>1. r \in Reports
    BY <1>3 DEF HandleReport, TypeOK
  <2>2. \A a \in Arrays \ {TypeIdx(Password)}, i \in Slots : keys'[a][i].state = "NONE"
    <3>1. CASE KeyAdded(r)
      <4>1. ReportArray(r) = TypeIdx(Password)
        BY <2>1, <3>1, AcceptedIsPassword DEF KeyAdded
      <4> QED  BY <1>1, <3>1, <4>1 DEF KeyAdded, TypeOK
    <3>2. CASE KeyDeleted(r)
      <4>1. ReportArray(r) = TypeIdx(Password)
        BY <2>1, <3>2, AcceptedIsPassword DEF KeyDeleted
      <4> QED  BY <1>1, <3>2, <4>1 DEF KeyDeleted, TypeOK
    <3>3. CASE KeysCleared(r)
      <4>1. \A a \in Arrays, i \in Slots :
               keys'[a][i] = NoSlot \/ keys'[a][i] = keys[a][i]
        BY <3>3 DEF KeysCleared, TypeOK, Table
      <4> QED  BY <4>1 DEF NoSlot
    <3>4. CASE ReportIgnored(r)
      BY <3>4 DEF ReportIgnored
    <3> QED  BY <1>3, <3>1, <3>2, <3>3, <3>4 DEF HandleReport
  <2>3. disk' = keys' \/ disk' = disk
    BY <1>3 DEF HandleReport, KeyAdded, KeyDeleted, KeysCleared, ReportIgnored, Save
  <2> QED  BY <2>2, <2>3
<1>4. CASE Restart
  BY <1>4 DEF Restart
<1>5. CASE StatusSaved
  BY <1>5 DEF StatusSaved, Save
<1> QED
  <2>1. CASE ~HandleReport /\ ~StatusSaved /\ ~Restart /\ \A c \in Codes : ~AddKey(c)
    BY <2>1, TablesUnchanged
  <2> QED  BY <1>2, <1>3, <1>4, <1>5, <2>1

LEMMA InitCloud == Init => CloudInv
<1> SUFFICES ASSUME Init PROVE OnlyPasswords /\ NoticeTrue /\ CloudKeysAreHeld
  BY InitTyped, InitSaved DEF CloudInv
<1> QED  BY DEF Init, OnlyPasswords, NoticeTrue, CloudKeysAreHeld, Idle, NoSlot

(* What a step does to what the cloud was told, step by step.              *)
LEMMA StepTold ==
  ASSUME SavesSurvive, CloudInv, [Next]_vars
  PROVE  NoticeTrue' /\ CloudKeysAreHeld'
<1> USE DEF NoticeTrue, CloudKeysAreHeld
<1>1. ASSUME NEW c \in Codes, AddKey(c) PROVE NoticeTrue' /\ CloudKeysAreHeld'
  <2>1. Held(keys') = Held(keys)
    BY <1>1, AddKeyHeld DEF CloudInv
  <2> QED  BY <1>1, <2>1 DEF AddKey, CloudInv
<1>2. CASE HandleReport
  <2> DEFINE r == Head(reports)
  <2>1. r \in Reports /\ main = Idle /\ UNCHANGED <<told, untold>>
    BY <1>2 DEF HandleReport, MutexFree, CloudInv, TypeOK
  <2>2. told \subseteq Held(keys) \cup untold
    BY <2>1 DEF CloudInv, Idle
  <2>3. CASE KeyAdded(r)
    <3>1. Held(keys) \subseteq Held(keys') /\ r.id \in Held(keys')
      BY <2>1, <2>3, KeyAddedHeld DEF CloudInv
    <3> QED  BY <2>1, <2>2, <2>3, <3>1 DEF KeyAdded
  <2>4. CASE KeyDeleted(r)
    <3>1. Held(keys) \subseteq Held(keys') \cup {r.id}
      BY <2>1, <2>4, KeyDeletedHeld DEF CloudInv
    <3> QED  BY <2>1, <2>2, <2>4, <3>1 DEF KeyDeleted
  <2>5. CASE KeysCleared(r)
    <3>1. Held(keys') = Held(keys)
      BY <2>5, KeysClearedHeld DEF CloudInv
    <3> QED  BY <2>1, <2>2, <2>5, <3>1 DEF KeysCleared
  <2>6. CASE ReportIgnored(r)
    BY <2>1, <2>6 DEF ReportIgnored, CloudInv
  <2> QED  BY <1>2, <2>3, <2>4, <2>5, <2>6 DEF HandleReport
<1>3. CASE Notify
  <2>1. UNCHANGED keys /\ main' = Idle /\ Idle.event = "none"
    BY <1>3 DEF Notify, Idle
  <2>2. CASE main.event = "KeyAdded"
    BY <1>3, <2>1, <2>2 DEF Notify, ToldAfter, CloudInv
  <2>3. CASE main.event = "KeyDeleted"
    BY <1>3, <2>1, <2>3 DEF Notify, ToldAfter, CloudInv
  <2>4. CASE main.event = "ClearKey"
    BY <1>3, <2>1, <2>4 DEF Notify, ToldAfter, CloudInv
  <2>5. CASE main.event = "Status"
    BY <1>3, <2>1, <2>5 DEF Notify, ToldAfter, CloudInv
  <2> QED  BY <1>3, <2>2, <2>3, <2>4, <2>5 DEF Notify, CloudInv, TypeOK, Notices
<1>4. CASE Restart
  <2>1. Held(keys') = Held(keys) /\ UNCHANGED told /\ main' = Idle /\ Idle.event = "none"
    BY <1>4 DEF SavesSurvive, Restart, CloudInv, RestartKeepsKeys, Idle
  <2>2. untold' = IF main.event = "KeyDeleted" THEN untold \cup {main.id} ELSE untold
    BY <1>4 DEF Restart
  <2> QED  BY <2>1, <2>2 DEF CloudInv
<1>5. CASE StatusSaved
  BY <1>5 DEF StatusSaved, MutexFree, CloudInv, Idle
<1> QED
  <2>1. CASE ~HandleReport /\ ~StatusSaved /\ ~Restart /\ ~Notify /\ \A c \in Codes : ~AddKey(c)
    <3>1. UNCHANGED <<keys, main, told, untold>>
      BY <2>1 DEF Next, vars, DelKey, ClrKey, Deref, Send, LockExecutes, LoseCommand, LoseReport
    <3> QED  BY <3>1 DEF CloudInv
  <2> QED  BY <1>1, <1>2, <1>3, <1>4, <1>5, <2>1

LEMMA StepCloud ==
  ASSUME SavesSurvive
  PROVE  CloudInv /\ [Next]_vars => CloudInv'
<1> SUFFICES ASSUME CloudInv, [Next]_vars PROVE CloudInv'
  OBVIOUS
<1>1. TypeOK'
  BY StepTyped DEF CloudInv
<1>2. RestartKeepsKeys'
  BY StepSaved DEF CloudInv, SavedInv
<1>3. OnlyPasswords'
  BY OnlyPasswordsStep DEF CloudInv
<1>4. NoticeTrue' /\ CloudKeysAreHeld'
  BY StepTold
<1> QED  BY <1>1, <1>2, <1>3, <1>4 DEF CloudInv

(* Unless descriptors run out and the gateway is restarted, a key the cloud *)
(* was told of is held by the gateway, or its deletion is being announced,  *)
(* or that announcement was lost.                                           *)
THEOREM CloudKeysHeld ==
  ASSUME SavesSurvive
  PROVE  Spec => []CloudKeysAreHeld
<1>1. Init => CloudInv
  BY InitCloud
<1>2. CloudInv /\ [Next]_vars => CloudInv'
  BY StepCloud
<1>3. CloudInv => CloudKeysAreHeld
  BY DEF CloudInv
<1> QED  BY <1>1, <1>2, <1>3, PTL DEF Spec

(* Unless descriptors run out and the gateway is restarted, only the lock's *)
(* own report of the deletion makes the gateway forget a key: no clear, no  *)
(* failure to save and no restart does.                                     *)
THEOREM KeysForgottenOnReport ==
  ASSUME SavesSurvive
  PROVE  Spec => ForgottenOnReport
<1> DEFINE Reported(id) ==
      reports # <<>> /\ Head(reports) = [add |-> FALSE, id |-> id, ok |-> TRUE]
<1>1. Init => CloudInv
  BY InitCloud
<1>2. CloudInv /\ [Next]_vars => CloudInv'
  BY StepCloud
<1>3. CloudInv /\ [Next]_vars => [\A id \in Held(keys) \ Held(keys)' : Reported(id)]_vars
  <2> SUFFICES ASSUME CloudInv, [Next]_vars,
                      NEW id \in Held(keys), id \notin Held(keys')
               PROVE  Reported(id)
    OBVIOUS
  <2>1. ASSUME NEW c \in Codes PROVE ~AddKey(c)
    BY AddKeyHeld DEF CloudInv
  <2>2. ~Restart
    BY DEF SavesSurvive, Restart, CloudInv, RestartKeepsKeys
  <2>3. HandleReport
    <3>1. keys' # keys
      OBVIOUS
    <3>2. ~StatusSaved
      BY <3>1 DEF StatusSaved
    <3> QED  BY <2>1, <2>2, <3>1, <3>2, TablesUnchanged
  <2> DEFINE r == Head(reports)
  <2>4. r \in Reports /\ reports # <<>>
    BY <2>3 DEF HandleReport, CloudInv, TypeOK
  <2>5. KeyDeleted(r)
    BY <2>3, <2>4, KeyAddedHeld, KeysClearedHeld DEF HandleReport, ReportIgnored, CloudInv
  <2>6. r.id = id
    BY <2>4, <2>5, KeyDeletedHeld DEF CloudInv
  <2>7. ~r.add /\ r.ok
    BY <2>5 DEF KeyDeleted, Accepts
  <2>8. r = [add |-> FALSE, id |-> id, ok |-> TRUE]
    BY <2>4, <2>6, <2>7 DEF Reports
  <2> QED  BY <2>4, <2>8
<1> QED  BY <1>1, <1>2, <1>3, PTL DEF Spec, ForgottenOnReport

=============================================================================
