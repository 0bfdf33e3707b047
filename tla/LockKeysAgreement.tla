-------------------------- MODULE LockKeysAgreement --------------------------
(***************************************************************************)
(* The proof that the gateway and the lock agree once nothing is in        *)
(* flight, for every set of passwords, every number of slots and every     *)
(* length of the queues.  It holds where messages are not lost, the        *)
(* gateway does not die, and the cloud neither repeats a password nor      *)
(* clears the keys, and every password is one the report handler knows the *)
(* identifier of; requests may be refused and descriptors run out.         *)
(***************************************************************************)
EXTENDS LockKeysProofs

\* The codes whose identifiers the report handler takes for passwords: those of up
\* to six digits, and by the branch that was to be LockType 5 some of seven.  The
\* services accept others.
Answerable(c) == c <= 999999 \/ (3000000 <= c /\ c <= 3999999)

CodesInRange == \A c \in Codes : Answerable(c)

\* Where the two sides agree.
Reliable == Faults \cap {"loss", "crash", "repeat", "clear"} = {} /\ CodesInRange

P         == TypeIdx(Password)
Passwords == {i \in Nat : \/ 2000000 <= i /\ i <= 2999999
                          \/ 5000000 <= i /\ i <= 5999999}
Rows      == [Slots -> Slot]
Row       == keys[P]

---------------------------------------------------------------------------
(* What a row of slots, a queue of commands and a queue of reports say of  *)
(* an identifier.                                                          *)

Confirmed(row, i) == \E s \in Slots : row[s] = [state |-> "ADDED", id |-> i]
Reserved(row, i)  == \E s \in Slots : row[s] = [state |-> "ADDING", id |-> i]
Absent(row, i)    == \A s \in Slots : row[s].state = "NONE" \/ row[s].id # i

\* An identifier has one slot.
OneSlot(row) ==
    \A s, t \in Slots :
        (row[s].state # "NONE" /\ row[t].state # "NONE" /\ row[s].id = row[t].id) => s = t

\* A slot in use is that of a password.
PasswordsOnly(row) == \A s \in Slots : row[s].state # "NONE" => row[s].id \in Passwords

IsAdd(c, i)   == c.op = "add" /\ c.id = i
CmdAdds(q, i) == \E n \in 1..Len(q) : IsAdd(q[n], i)
OneCmd(q, i)  == \A m, n \in 1..Len(q) : (IsAdd(q[m], i) /\ IsAdd(q[n], i)) => m = n

Answers(r, i) == r.add /\ r.id = i
Added(r, i)   == r.add /\ r.ok /\ r.id = i
Deleted(r, i) == ~r.add /\ r.ok /\ r.id = i

RepAdds(q, i) == \E n \in 1..Len(q) : Answers(q[n], i)
OneRep(q, i)  == \A m, n \in 1..Len(q) : (Answers(q[m], i) /\ Answers(q[n], i)) => m = n

\* A report tells that i was deleted.
Gone(q, i) == \E n \in 1..Len(q) : Deleted(q[n], i)

\* A report tells that i was added, and none after it that i was deleted.
Live(q, i) == \E n \in 1..Len(q) :
                 /\ Added(q[n], i)
                 /\ \A m \in 1..Len(q) : m > n => ~Deleted(q[m], i)

---------------------------------------------------------------------------
(* The invariant.                                                          *)

\* The linkkit thread is about to ask for i: the slot is reserved and its
\* identifier not read yet, or it was read.
SvcAdds(i) ==
    /\ svc.op = "add"
    /\ \/ svc.pc = "deref" /\ Row[svc.slot].id = i
       \/ svc.pc = "send" /\ svc.id = i

\* An addition of i is in one place at a time.
OnePlace(i) ==
    /\ ~(SvcAdds(i) /\ CmdAdds(cmds, i))
    /\ ~(SvcAdds(i) /\ RepAdds(reports, i))
    /\ ~(CmdAdds(cmds, i) /\ RepAdds(reports, i))
    /\ OneCmd(cmds, i) /\ OneRep(reports, i)

\* A slot that is waiting accounts for every addition, and the lock has the key
\* of a slot as far as the reports still to come do not say otherwise.
Agree(i) ==
    /\ (i \in lock => Confirmed(Row, i) \/ Reserved(Row, i))
    /\ (Confirmed(Row, i) => (i \in lock <=> ~Gone(reports, i)))
    /\ (Reserved(Row, i) => (i \in lock <=> Live(reports, i)))
    /\ (SvcAdds(i) \/ CmdAdds(cmds, i) \/ RepAdds(reports, i) => Reserved(Row, i))
    /\ OnePlace(i)

\* The slot just reserved stays so until its identifier was read.
SlotWaits == svc.op = "add" /\ svc.pc = "deref" => Row[svc.slot].state = "ADDING"

NoClears ==
    /\ svc.pc # "idle" => svc.op # "clr"
    /\ \A n \in 1..Len(cmds) : cmds[n].op # "clr"

RowFits == OneSlot(Row) /\ PasswordsOnly(Row)

AgreeInv ==
    /\ TypeOK /\ OnlyPasswords
    /\ RowFits /\ SlotWaits /\ NoClears
    /\ \A i \in Ids : Agree(i)

---------------------------------------------------------------------------
(* Queues: what one more and one less element change.                      *)

LEMMA AppendParts ==
  ASSUME NEW S, NEW q \in Seq(S), NEW r \in S
  PROVE  /\ Len(Append(q, r)) = Len(q) + 1 /\ Len(q) \in Nat
         /\ Append(q, r)[Len(q) + 1] = r
         /\ \A n \in 1..Len(q) : Append(q, r)[n] = q[n]
         /\ \A n \in 1..(Len(q) + 1) : n \in 1..Len(q) \/ n = Len(q) + 1
  OBVIOUS

LEMMA TailParts ==
  ASSUME NEW S, NEW q \in Seq(S), q # <<>>
  PROVE  /\ Len(q) \in Nat /\ Len(q) >= 1 /\ Len(Tail(q)) = Len(q) - 1
         /\ q[1] = Head(q) /\ 1 \in 1..Len(q)
         /\ \A n \in 1..Len(Tail(q)) : Tail(q)[n] = q[n + 1] /\ n + 1 \in 1..Len(q) /\ n + 1 # 1
         /\ \A n \in 1..Len(q) : n = 1 \/ (n - 1 \in 1..Len(Tail(q)) /\ q[n] = Tail(q)[n - 1])
  OBVIOUS

LEMMA CmdsAppend ==
  ASSUME NEW q \in Seq(Commands), NEW c \in Commands, NEW i
  PROVE  /\ CmdAdds(Append(q, c), i) <=> CmdAdds(q, i) \/ IsAdd(c, i)
         /\ OneCmd(q, i) /\ ~(CmdAdds(q, i) /\ IsAdd(c, i)) => OneCmd(Append(q, c), i)
<1>1. CmdAdds(Append(q, c), i) <=> CmdAdds(q, i) \/ IsAdd(c, i)
  BY AppendParts DEF CmdAdds
<1>2. ASSUME OneCmd(q, i), ~(CmdAdds(q, i) /\ IsAdd(c, i)) PROVE OneCmd(Append(q, c), i)
  BY <1>2, AppendParts DEF CmdAdds, OneCmd
<1> QED  BY <1>1, <1>2

LEMMA CmdsTail ==
  ASSUME NEW q \in Seq(Commands), q # <<>>, NEW i
  PROVE  /\ CmdAdds(q, i) <=> CmdAdds(Tail(q), i) \/ IsAdd(Head(q), i)
         /\ OneCmd(q, i) => OneCmd(Tail(q), i)
         /\ OneCmd(q, i) /\ IsAdd(Head(q), i) => ~CmdAdds(Tail(q), i)
<1> DEFINE t == Tail(q)
<1>1. /\ Len(q) \in Nat /\ Len(q) >= 1 /\ Len(t) = Len(q) - 1
      /\ q[1] = Head(q) /\ 1 \in 1..Len(q)
      /\ \A n \in 1..Len(t) : t[n] = q[n + 1] /\ n + 1 \in 1..Len(q) /\ n + 1 # 1
      /\ \A n \in 1..Len(q) : n = 1 \/ (n - 1 \in 1..Len(t) /\ q[n] = t[n - 1])
  BY TailParts
<1> HIDE DEF t
<1>2. CmdAdds(q, i) <=> CmdAdds(t, i) \/ IsAdd(Head(q), i)
  BY <1>1 DEF CmdAdds
<1>3. OneCmd(q, i) => OneCmd(t, i)
  BY <1>1 DEF OneCmd
<1>4. OneCmd(q, i) /\ IsAdd(Head(q), i) => ~CmdAdds(t, i)
  BY <1>1 DEF OneCmd, CmdAdds
<1> QED  BY <1>2, <1>3, <1>4 DEF t

LEMMA RepsAppend ==
  ASSUME NEW q \in Seq(Reports), NEW r \in Reports, NEW i
  PROVE  LET p == Append(q, r) IN
         /\ RepAdds(p, i) <=> RepAdds(q, i) \/ Answers(r, i)
         /\ OneRep(q, i) /\ ~(RepAdds(q, i) /\ Answers(r, i)) => OneRep(p, i)
         /\ Gone(p, i) <=> Gone(q, i) \/ Deleted(r, i)
         /\ Live(p, i) <=> Added(r, i) \/ (Live(q, i) /\ ~Deleted(r, i))
<1> DEFINE p == Append(q, r)
<1>1. /\ Len(p) = Len(q) + 1 /\ Len(q) \in Nat
      /\ p[Len(q) + 1] = r
      /\ \A n \in 1..Len(q) : p[n] = q[n]
      /\ \A n \in 1..(Len(q) + 1) : n \in 1..Len(q) \/ n = Len(q) + 1
  BY AppendParts
<1> HIDE DEF p
<1>2. RepAdds(p, i) <=> RepAdds(q, i) \/ Answers(r, i)
  BY <1>1 DEF RepAdds
<1>3. OneRep(q, i) /\ ~(RepAdds(q, i) /\ Answers(r, i)) => OneRep(p, i)
  BY <1>1 DEF RepAdds, OneRep
<1>4. Gone(p, i) <=> Gone(q, i) \/ Deleted(r, i)
  BY <1>1 DEF Gone
<1>5. Added(r, i) => Live(p, i)
  <2> SUFFICES ASSUME Added(r, i) PROVE Live(p, i)  OBVIOUS
  <2>1. \A m \in 1..Len(p) : ~(m > Len(q) + 1)
    BY <1>1
  <2> QED  BY <1>1, <2>1 DEF Live
<1>6. Live(q, i) /\ ~Deleted(r, i) => Live(p, i)
  BY <1>1 DEF Live
<1>7. Live(p, i) => Added(r, i) \/ (Live(q, i) /\ ~Deleted(r, i))
  BY <1>1 DEF Live
<1> QED  BY <1>2, <1>3, <1>4, <1>5, <1>6, <1>7 DEF p

LEMMA RepsTail ==
  ASSUME NEW q \in Seq(Reports), q # <<>>, NEW i
  PROVE  LET t == Tail(q)  h == Head(q) IN
         /\ RepAdds(q, i) <=> RepAdds(t, i) \/ Answers(h, i)
         /\ OneRep(q, i) => OneRep(t, i)
         /\ OneRep(q, i) /\ Answers(h, i) => ~RepAdds(t, i)
         /\ Gone(q, i) <=> Gone(t, i) \/ Deleted(h, i)
         /\ Live(q, i) <=> Live(t, i) \/ (Added(h, i) /\ ~Gone(t, i))
<1> DEFINE t == Tail(q)  h == Head(q)
<1>1. /\ Len(q) \in Nat /\ Len(q) >= 1 /\ Len(t) = Len(q) - 1
      /\ q[1] = h /\ 1 \in 1..Len(q)
      /\ \A n \in 1..Len(t) : t[n] = q[n + 1] /\ n + 1 \in 1..Len(q) /\ n + 1 # 1
      /\ \A n \in 1..Len(q) : n = 1 \/ (n - 1 \in 1..Len(t) /\ q[n] = t[n - 1])
  BY TailParts
<1> HIDE DEF t, h
<1>2. RepAdds(q, i) <=> RepAdds(t, i) \/ Answers(h, i)
  BY <1>1 DEF RepAdds
<1>3. OneRep(q, i) => OneRep(t, i)
  BY <1>1 DEF OneRep
<1>4. OneRep(q, i) /\ Answers(h, i) => ~RepAdds(t, i)
  BY <1>1 DEF OneRep, RepAdds
<1>5. Gone(q, i) <=> Gone(t, i) \/ Deleted(h, i)
  BY <1>1 DEF Gone
<1>6. Live(t, i) => Live(q, i)
  <2> SUFFICES ASSUME Live(t, i) PROVE Live(q, i)  OBVIOUS
  <2>1. PICK n \in 1..Len(t) : Added(t[n], i) /\ \A m \in 1..Len(t) : m > n => ~Deleted(t[m], i)
    BY DEF Live
  <2>2. n + 1 \in 1..Len(q) /\ Added(q[n + 1], i)
    BY <1>1, <2>1
  <2>3. ASSUME NEW m \in 1..Len(q), m > n + 1 PROVE ~Deleted(q[m], i)
    <3>1. m - 1 \in 1..Len(t) /\ q[m] = t[m - 1] /\ m - 1 > n
      BY <1>1, <2>3
    <3> QED  BY <2>1, <3>1
  <2> QED  BY <2>2, <2>3 DEF Live
<1>7. Added(h, i) /\ ~Gone(t, i) => Live(q, i)
  <2> SUFFICES ASSUME Added(h, i), ~Gone(t, i) PROVE Live(q, i)  OBVIOUS
  <2>1. \A m \in 1..Len(q) : m > 1 => ~Deleted(q[m], i)
    BY <1>1 DEF Gone
  <2> QED  BY <1>1, <2>1 DEF Live
<1>8. Live(q, i) => Live(t, i) \/ (Added(h, i) /\ ~Gone(t, i))
  <2> SUFFICES ASSUME Live(q, i) PROVE Live(t, i) \/ (Added(h, i) /\ ~Gone(t, i))  OBVIOUS
  <2>1. PICK n \in 1..Len(q) : Added(q[n], i) /\ \A m \in 1..Len(q) : m > n => ~Deleted(q[m], i)
    BY DEF Live
  <2>2. CASE n = 1
    <3>1. \A m \in 1..Len(t) : ~Deleted(t[m], i)
      BY <1>1, <2>1, <2>2
    <3> QED  BY <1>1, <2>1, <2>2, <3>1 DEF Gone
  <2>3. CASE n # 1
    <3>1. n - 1 \in 1..Len(t) /\ Added(t[n - 1], i)
      BY <1>1, <2>1, <2>3
    <3>2. ASSUME NEW m \in 1..Len(t), m > n - 1 PROVE ~Deleted(t[m], i)
      BY <1>1, <2>1, <3>2
    <3> QED  BY <3>1, <3>2 DEF Live
  <2> QED  BY <2>2, <2>3
<1> QED  BY <1>2, <1>3, <1>4, <1>5, <1>6, <1>7, <1>8 DEF t, h

---------------------------------------------------------------------------
(* Rows: what the change of one slot does.                                 *)

\* The change concerns no other identifier than i.
OthersKeep(row, new, i) ==
    \A j : j # i => /\ Confirmed(new, j) <=> Confirmed(row, j)
                    /\ Reserved(new, j) <=> Reserved(row, j)

LEMMA RowWrite ==
  ASSUME NEW row \in Rows, NEW s \in Slots, NEW v \in Slot
  PROVE  /\ [row EXCEPT ![s] = v] \in Rows
         /\ \A t \in Slots : [row EXCEPT ![s] = v][t] = IF t = s THEN v ELSE row[t]
  BY DEF Rows

(* With one slot an identifier is absent, reserved or confirmed.           *)
LEMMA OneState ==
  ASSUME NEW row \in Rows, OneSlot(row), NEW i
  PROVE  /\ ~(Confirmed(row, i) /\ Reserved(row, i))
         /\ Absent(row, i) <=> ~Confirmed(row, i) /\ ~Reserved(row, i)
<1>1. \A s \in Slots : row[s] \in Slot
  BY DEF Rows
<1>2. ~(Confirmed(row, i) /\ Reserved(row, i))
  BY DEF Confirmed, Reserved, OneSlot
<1>3. Absent(row, i) => ~Confirmed(row, i) /\ ~Reserved(row, i)
  BY DEF Absent, Confirmed, Reserved
<1>4. ASSUME ~Absent(row, i) PROVE Confirmed(row, i) \/ Reserved(row, i)
  <2>1. PICK s \in Slots : row[s].state # "NONE" /\ row[s].id = i
    BY <1>4 DEF Absent
  <2>2. row[s] = [state |-> "ADDED", id |-> i] \/ row[s] = [state |-> "ADDING", id |-> i]
    BY <1>1, <2>1 DEF Slot
  <2> QED  BY <2>2 DEF Confirmed, Reserved
<1> QED  BY <1>2, <1>3, <1>4

(* A free slot is reserved for an absent identifier.                       *)
LEMMA RowReserve ==
  ASSUME NEW row \in Rows, OneSlot(row), PasswordsOnly(row), NEW s \in Slots,
         NEW i \in Passwords, [state |-> "ADDING", id |-> i] \in Slot,
         row[s].state = "NONE", Absent(row, i),
         NEW new, new = [row EXCEPT ![s] = [state |-> "ADDING", id |-> i]]
  PROVE  /\ OneSlot(new) /\ PasswordsOnly(new)
         /\ Reserved(new, i) /\ ~Confirmed(new, i)
         /\ OthersKeep(row, new, i)
<1> DEFINE v == [state |-> "ADDING", id |-> i]
<1>1. \A t \in Slots : new[t] = IF t = s THEN v ELSE row[t]
  BY RowWrite
<1>2. v.state = "ADDING" /\ v.id = i
  OBVIOUS
<1>3. \A j : j # i => v # [state |-> "ADDING", id |-> j]
  BY <1>2
<1>4. \A j : v # [state |-> "ADDED", id |-> j]
  BY <1>2
<1>5. \A j : row[s] # [state |-> "ADDED", id |-> j] /\ row[s] # [state |-> "ADDING", id |-> j]
  OBVIOUS
<1>6. Reserved(new, i)
  BY <1>1 DEF Reserved
<1> HIDE DEF v
<1>7. OneSlot(new)
  BY <1>1, <1>2 DEF OneSlot, Absent
<1>8. PasswordsOnly(new)
  BY <1>1, <1>2 DEF PasswordsOnly
<1>9. \A j : Confirmed(new, j) <=> Confirmed(row, j)
  BY <1>1, <1>4, <1>5 DEF Confirmed
<1>10. \A j : j # i => (Reserved(new, j) <=> Reserved(row, j))
  BY <1>1, <1>3, <1>5 DEF Reserved
<1>11. ~Confirmed(row, i)
  BY DEF Absent, Confirmed
<1> QED  BY <1>6, <1>7, <1>8, <1>9, <1>10, <1>11 DEF OthersKeep

(* A reserved slot is confirmed.                                           *)
LEMMA RowConfirm ==
  ASSUME NEW row \in Rows, OneSlot(row), PasswordsOnly(row), NEW s \in Slots,
         NEW i, row[s] = [state |-> "ADDING", id |-> i],
         [state |-> "ADDED", id |-> i] \in Slot,
         NEW new, new = [row EXCEPT ![s] = [state |-> "ADDED", id |-> i]]
  PROVE  /\ OneSlot(new) /\ PasswordsOnly(new)
         /\ Confirmed(new, i)
         /\ OthersKeep(row, new, i)
<1> DEFINE v == [state |-> "ADDED", id |-> i]
<1>1. \A t \in Slots : new[t] = IF t = s THEN v ELSE row[t]
  BY RowWrite
<1>2. v.state = "ADDED" /\ v.id = i /\ row[s].state = "ADDING" /\ row[s].id = i
  OBVIOUS
<1>3. \A j : j # i => /\ v # [state |-> "ADDING", id |-> j] /\ v # [state |-> "ADDED", id |-> j]
                      /\ row[s] # [state |-> "ADDING", id |-> j] /\ row[s] # [state |-> "ADDED", id |-> j]
  BY <1>2
<1>4. Confirmed(new, i)
  BY <1>1 DEF Confirmed
<1> HIDE DEF v
<1>5. OneSlot(new)
  BY <1>1, <1>2 DEF OneSlot
<1>6. PasswordsOnly(new)
  BY <1>1, <1>2 DEF PasswordsOnly
<1>7. \A j : j # i => (Confirmed(new, j) <=> Confirmed(row, j))
  BY <1>1, <1>3 DEF Confirmed
<1>8. \A j : j # i => (Reserved(new, j) <=> Reserved(row, j))
  BY <1>1, <1>3 DEF Reserved
<1> QED  BY <1>4, <1>5, <1>6, <1>7, <1>8 DEF OthersKeep

(* A confirmed slot is emptied.                                            *)
LEMMA RowDrop ==
  ASSUME NEW row \in Rows, OneSlot(row), PasswordsOnly(row), NEW s \in Slots,
         NEW i, row[s] = [state |-> "ADDED", id |-> i],
         NEW new, new = [row EXCEPT ![s] = NoSlot]
  PROVE  /\ OneSlot(new) /\ PasswordsOnly(new)
         /\ Absent(new, i)
         /\ OthersKeep(row, new, i)
<1>0. NoSlot \in Slot
  BY IdsAreNumbers DEF NoSlot, Slot
<1>1. \A t \in Slots : new[t] = IF t = s THEN NoSlot ELSE row[t]
  BY <1>0, RowWrite
<1>2. NoSlot.state = "NONE" /\ row[s].state = "ADDED" /\ row[s].id = i
  BY DEF NoSlot
<1>3. \A j : NoSlot # [state |-> "ADDED", id |-> j] /\ NoSlot # [state |-> "ADDING", id |-> j]
  BY <1>2
<1>4. \A j : j # i => row[s] # [state |-> "ADDED", id |-> j] /\ row[s] # [state |-> "ADDING", id |-> j]
  BY <1>2
<1>5. OneSlot(new)
  BY <1>1, <1>2 DEF OneSlot
<1>6. PasswordsOnly(new)
  BY <1>1, <1>2 DEF PasswordsOnly
<1>7. Absent(new, i)
  BY <1>1, <1>2 DEF Absent, OneSlot
<1>8. \A j : j # i => (Confirmed(new, j) <=> Confirmed(row, j))
  BY <1>1, <1>3, <1>4 DEF Confirmed
<1>9. \A j : j # i => (Reserved(new, j) <=> Reserved(row, j))
  BY <1>1, <1>3, <1>4 DEF Reserved
<1> QED  BY <1>5, <1>6, <1>7, <1>8, <1>9 DEF OthersKeep

---------------------------------------------------------------------------
(* The places of the passwords.                                            *)

LEMMA Places ==
  /\ P = 1 /\ P \in Arrays
  /\ \A i \in Passwords : i # 0 /\ ReportType(i) = Password
<1>1. TypeIdx(2) = 1
  BY SMT DEF TypeIdx
<1>2. \A i \in Passwords : i # 0 /\ ReportType(i) = 2
  <2> SUFFICES ASSUME NEW i \in Passwords PROVE i # 0 /\ ReportType(i) = 2  OBVIOUS
  <2>1. i \in Int /\ ((2000000 <= i /\ i <= 2999999) \/ (5000000 <= i /\ i <= 5999999))
    BY SMT DEF Passwords
  <2>2. ReportType(i) = 2
    BY <2>1, SMT DEF ReportType
  <2> QED  BY <2>1, <2>2, SMT
<1> QED  BY <1>1, <1>2 DEF P, Password, Arrays

LEMMA CodesArePasswords ==
  ASSUME Reliable, NEW c \in Codes
  PROVE  KeyId(Password, c) \in Passwords
<1>1. c \in Nat /\ (c <= 999999 \/ (3000000 <= c /\ c <= 3999999))
  BY CodesAssumption, SMT DEF Reliable, CodesInRange, Answerable
<1>2. KeyId(Password, c) = 2000000 + c
  BY <1>1, SMT DEF KeyId, Password
<1> QED  BY <1>1, <1>2, SMT DEF Passwords

LEMMA RowOfTable ==
  ASSUME TypeOK
  PROVE  Row \in Rows
  BY Places DEF Row, Rows, TypeOK, Table

LEMMA WriteRow ==
  ASSUME TypeOK, NEW s \in Slots, NEW v, keys' = [keys EXCEPT ![P][s] = v]
  PROVE  Row' = [Row EXCEPT ![s] = v]
  BY Places DEF Row, TypeOK, Table

---------------------------------------------------------------------------
(* Each step keeps the two sides fitting.                                  *)

Fits == RowFits /\ SlotWaits /\ NoClears /\ \A i \in Ids : Agree(i)

LEMMA InvParts == AgreeInv <=> TypeOK /\ OnlyPasswords /\ Fits
  BY DEF AgreeInv, Fits

LEMMA LiveAnswers ==
  ASSUME NEW q, NEW i, Live(q, i)
  PROVE  RepAdds(q, i)
  BY DEF Live, RepAdds, Added, Answers

LEMMA InitFits == Init => Fits
<1> SUFFICES ASSUME Init PROVE Fits  OBVIOUS
<1>1. \A s \in Slots : Row[s] = NoSlot
  BY Places DEF Init, Row
<1>2. NoSlot.state = "NONE"
  BY DEF NoSlot
<1>3. \A i : ~Confirmed(Row, i) /\ ~Reserved(Row, i)
  BY <1>1, <1>2 DEF Confirmed, Reserved
<1>4. RowFits
  BY <1>1, <1>2 DEF RowFits, OneSlot, PasswordsOnly
<1>5. svc.pc = "idle" /\ svc.op = "clr" /\ lock = {} /\ Len(cmds) = 0 /\ Len(reports) = 0
  BY DEF Init, IdleSvc
<1>6. SlotWaits /\ NoClears
  BY <1>5 DEF SlotWaits, NoClears
<1>7. ASSUME NEW i \in Ids PROVE Agree(i)
  <2>1. ~SvcAdds(i)
    BY <1>5 DEF SvcAdds
  <2>2. ~CmdAdds(cmds, i) /\ ~RepAdds(reports, i) /\ OneCmd(cmds, i) /\ OneRep(reports, i)
    BY <1>5 DEF CmdAdds, RepAdds, OneCmd, OneRep
  <2> QED  BY <1>3, <1>5, <2>1, <2>2 DEF Agree, OnePlace
<1> QED  BY <1>4, <1>6, <1>7 DEF Fits

LEMMA AddKeyFits ==
  ASSUME Reliable, TypeOK, Fits, NEW c \in Codes, AddKey(c)
  PROVE  Fits'
<1> DEFINE id == KeyId(Password, c)
           v  == [state |-> "ADDING", id |-> id]
<1>1. id \in Passwords /\ v \in Slot
  BY CodesArePasswords DEF Slot, Ids
<1>2. svc.pc = "idle" /\ UNCHANGED <<cmds, reports, lock>>
  BY DEF AddKey
<1>3. PICK s \in Slots : /\ Row[s].state = "NONE"
                         /\ keys' = [keys EXCEPT ![P][s] = v]
                         /\ svc' = [pc |-> "deref", op |-> "add", slot |-> s, id |-> 0]
  BY DEF AddKey, First, Free, Row, P
<1>4. Absent(Row, id)
  <2>1. WithId(P, id) = {}
    BY DEF AddKey, Reliable, P
  <2> QED  BY <2>1 DEF Absent, WithId, Used, Row
<1> HIDE DEF id, v
<1>5. Row' = [Row EXCEPT ![s] = v] /\ Row \in Rows
  BY <1>3, WriteRow, RowOfTable
<1>6. /\ OneSlot(Row') /\ PasswordsOnly(Row')
      /\ Reserved(Row', id) /\ ~Confirmed(Row', id)
      /\ OthersKeep(Row, Row', id)
  BY <1>1, <1>3, <1>4, <1>5, RowReserve DEF Fits, RowFits, v
<1>7. Row'[s] = v /\ v.state = "ADDING" /\ v.id = id
  BY <1>1, <1>5, RowWrite DEF v
<1>8. RowFits' /\ SlotWaits' /\ NoClears'
  BY <1>2, <1>3, <1>6, <1>7 DEF RowFits, SlotWaits, NoClears, Fits
<1>9. ASSUME NEW j \in Ids PROVE Agree(j)'
  <2>1. Agree(j) /\ ~SvcAdds(j)
    BY <1>2 DEF Fits, SvcAdds, TypeOK, Services
  <2>2. SvcAdds(j)' <=> j = id
    BY <1>3, <1>7 DEF SvcAdds
  <2>3. CASE j = id
    <3>1. ~Confirmed(Row, j) /\ ~Reserved(Row, j)
      BY <1>4, <1>5, <2>3, OneState DEF Fits, RowFits
    <3>2. j \notin lock /\ ~CmdAdds(cmds, j) /\ ~RepAdds(reports, j)
      BY <2>1, <3>1 DEF Agree
    <3>3. ~Live(reports, j)
      BY <3>2, LiveAnswers
    <3> QED  BY <1>2, <1>6, <2>1, <2>2, <2>3, <3>1, <3>2, <3>3 DEF Agree, OnePlace
  <2>4. CASE j # id
    BY <1>2, <1>6, <2>1, <2>2, <2>4 DEF Agree, OnePlace, OthersKeep
  <2> QED  BY <2>3, <2>4
<1> QED  BY <1>8, <1>9 DEF Fits

(* A service that searched a slot to delete adds nothing.                  *)
LEMMA DelKeyFits ==
  ASSUME Fits, NEW c \in Codes, DelKey(c)
  PROVE  Fits'
<1>1. /\ svc.pc = "idle" /\ svc'.op = "del"
      /\ UNCHANGED <<keys, cmds, reports, lock>>
  BY DEF DelKey
<1>2. Row' = Row
  BY <1>1 DEF Row
<1>3. RowFits' /\ SlotWaits' /\ NoClears'
  BY <1>1, <1>2 DEF Fits, RowFits, SlotWaits, NoClears
<1>4. ASSUME NEW i \in Ids PROVE Agree(i)'
  <2>1. ~SvcAdds(i)'
    BY <1>1 DEF SvcAdds
  <2> QED  BY <1>1, <1>2, <2>1 DEF Agree, OnePlace, Fits
<1> QED  BY <1>3, <1>4 DEF Fits

LEMMA DerefFits ==
  ASSUME TypeOK, Fits, Deref
  PROVE  Fits'
<1>1. /\ svc.pc = "deref" /\ svc'.pc = "send"
      /\ svc'.op = svc.op /\ svc'.id = Row[svc.slot].id
      /\ UNCHANGED <<keys, cmds, reports, lock>>
  BY DEF Deref, TypeOK, Services, Row, P
<1>2. Row' = Row
  BY <1>1 DEF Row
<1>3. RowFits' /\ SlotWaits' /\ NoClears'
  BY <1>1, <1>2 DEF Fits, RowFits, SlotWaits, NoClears
<1>4. ASSUME NEW i \in Ids PROVE Agree(i)'
  <2>1. SvcAdds(i)' <=> SvcAdds(i)
    BY <1>1 DEF SvcAdds
  <2> QED  BY <1>1, <1>2, <2>1 DEF Agree, OnePlace, Fits
<1> QED  BY <1>3, <1>4 DEF Fits

LEMMA SendFits ==
  ASSUME TypeOK, Fits, Send
  PROVE  Fits'
<1> DEFINE c == [op |-> svc.op, id |-> svc.id]
<1>1. /\ svc.pc = "send" /\ cmds' = Append(cmds, c) /\ svc' = IdleSvc
      /\ UNCHANGED <<keys, reports, lock>>
  BY DEF Send
<1>2. c \in Commands /\ cmds \in Seq(Commands)
  BY DEF TypeOK, Services, Commands
<1>3. Row' = Row /\ svc'.op = "clr" /\ svc'.pc = "idle"
  BY <1>1 DEF Row, IdleSvc
<1>4. c.op # "clr"
  BY <1>1 DEF Fits, NoClears
<1>5. \A i : SvcAdds(i) <=> IsAdd(c, i)
  BY <1>1 DEF SvcAdds, IsAdd
<1> HIDE DEF c
<1>6. RowFits' /\ SlotWaits'
  BY <1>3 DEF Fits, RowFits, SlotWaits
<1>7. NoClears'
  <2>1. /\ Len(cmds') = Len(cmds) + 1 /\ cmds'[Len(cmds) + 1] = c
        /\ \A n \in 1..Len(cmds) : cmds'[n] = cmds[n]
        /\ \A n \in 1..(Len(cmds) + 1) : n \in 1..Len(cmds) \/ n = Len(cmds) + 1
    BY <1>1, <1>2, AppendParts
  <2> QED  BY <1>3, <1>4, <2>1 DEF Fits, NoClears
<1>8. ASSUME NEW i \in Ids PROVE Agree(i)'
  <2>1. ~SvcAdds(i)'
    BY <1>3 DEF SvcAdds
  <2>2. /\ CmdAdds(cmds', i) <=> CmdAdds(cmds, i) \/ IsAdd(c, i)
        /\ OneCmd(cmds, i) /\ ~(CmdAdds(cmds, i) /\ IsAdd(c, i)) => OneCmd(cmds', i)
    BY <1>1, <1>2, CmdsAppend
  <2> QED  BY <1>1, <1>3, <1>5, <2>1, <2>2 DEF Agree, OnePlace, Fits
<1> QED  BY <1>6, <1>7, <1>8 DEF Fits

(* The lock's answer to a command, whatever it is, is true of the lock.    *)
LEMMA AnswerFits ==
  ASSUME TypeOK, Fits, cmds # <<>>, NEW c, c = Head(cmds), c \in Commands,
         NEW r \in Reports, r.id = c.id, r.add <=> c.op = "add",
         cmds' = Tail(cmds), reports' = Append(reports, r), UNCHANGED <<keys, svc>>,
         \/ Added(r, c.id) /\ lock' = lock \cup {c.id}
         \/ Deleted(r, c.id) /\ lock' = lock \ {c.id}
         \/ ~r.ok /\ lock' = lock,
         NEW i \in Ids
  PROVE  Agree(i)'
<1>1. Agree(i) /\ Row' = Row /\ (SvcAdds(i)' <=> SvcAdds(i))
  BY DEF Fits, Row, SvcAdds
<1>2. cmds \in Seq(Commands) /\ reports \in Seq(Reports)
  BY DEF TypeOK
<1>3. /\ CmdAdds(cmds, i) <=> CmdAdds(cmds', i) \/ IsAdd(c, i)
      /\ OneCmd(cmds, i) => OneCmd(cmds', i)
      /\ OneCmd(cmds, i) /\ IsAdd(c, i) => ~CmdAdds(cmds', i)
  BY <1>2, CmdsTail
<1>4. /\ RepAdds(reports', i) <=> RepAdds(reports, i) \/ Answers(r, i)
      /\ OneRep(reports, i) /\ ~(RepAdds(reports, i) /\ Answers(r, i)) => OneRep(reports', i)
      /\ Gone(reports', i) <=> Gone(reports, i) \/ Deleted(r, i)
      /\ Live(reports', i) <=> Added(r, i) \/ (Live(reports, i) /\ ~Deleted(r, i))
  BY <1>2, RepsAppend
<1>5. Answers(r, i) <=> IsAdd(c, i)
  BY DEF Answers, IsAdd
<1>6. (Added(r, i) => IsAdd(c, i)) /\ ~(Added(r, i) /\ Deleted(r, i))
  BY DEF Added, Deleted, IsAdd
<1>7. \/ Added(r, i) /\ i \in lock'
      \/ Deleted(r, i) /\ i \notin lock'
      \/ ~Added(r, i) /\ ~Deleted(r, i) /\ (i \in lock' <=> i \in lock)
  <2>1. CASE i = c.id
    BY <2>1 DEF Added, Deleted
  <2>2. CASE i # c.id
    BY <2>2 DEF Added, Deleted
  <2> QED  BY <2>1, <2>2
<1>8. OnePlace(i)'
  BY <1>1, <1>3, <1>4, <1>5 DEF Agree, OnePlace
<1>9. SvcAdds(i)' \/ CmdAdds(cmds', i) \/ RepAdds(reports', i) => Reserved(Row', i)
  BY <1>1, <1>3, <1>4, <1>5 DEF Agree
<1>10. ~(Confirmed(Row, i) /\ Reserved(Row, i))
  BY OneState, RowOfTable DEF Fits, RowFits
<1>11. IsAdd(c, i) => Reserved(Row, i)
  BY <1>1, <1>3 DEF Agree
<1>12. CASE Added(r, i) /\ i \in lock'
  BY <1>1, <1>4, <1>6, <1>8, <1>9, <1>10, <1>11, <1>12 DEF Agree
<1>13. CASE Deleted(r, i) /\ i \notin lock'
  BY <1>1, <1>4, <1>6, <1>8, <1>9, <1>10, <1>11, <1>13 DEF Agree
<1>14. CASE ~Added(r, i) /\ ~Deleted(r, i) /\ (i \in lock' <=> i \in lock)
  BY <1>1, <1>4, <1>6, <1>8, <1>9, <1>10, <1>11, <1>14 DEF Agree
<1> QED  BY <1>7, <1>12, <1>13, <1>14

LEMMA LockExecutesFits ==
  ASSUME TypeOK, Fits, LockExecutes
  PROVE  Fits'
<1> DEFINE c == Head(cmds)
<1>1. cmds # <<>> /\ cmds' = Tail(cmds) /\ UNCHANGED <<keys, svc>>
  BY DEF LockExecutes
<1>2. c \in Commands /\ cmds \in Seq(Commands)
  BY <1>1 DEF TypeOK
<1>3. /\ Len(cmds) \in Nat /\ 1 \in 1..Len(cmds) /\ cmds[1] = c
      /\ \A n \in 1..Len(cmds') : cmds'[n] = cmds[n + 1] /\ n + 1 \in 1..Len(cmds)
  BY <1>1, <1>2, TailParts
<1>4. c.op # "clr"
  BY <1>3 DEF Fits, NoClears
<1>5. RowFits' /\ SlotWaits' /\ NoClears'
  BY <1>1, <1>3 DEF Fits, RowFits, SlotWaits, NoClears, Row
<1>6. PICK r \in Reports :
         /\ reports' = Append(reports, r) /\ r.id = c.id /\ (r.add <=> c.op = "add")
         /\ \/ Added(r, c.id) /\ lock' = lock \cup {c.id}
            \/ Deleted(r, c.id) /\ lock' = lock \ {c.id}
            \/ ~r.ok /\ lock' = lock
  <2> DEFINE R(add, ok) == [add |-> add, id |-> c.id, ok |-> ok]
  <2>1. \A add, ok \in BOOLEAN : R(add, ok) \in Reports
    BY <1>2 DEF Reports, Commands
  <2>2. CASE c.op = "add" /\ lock' = lock \cup {c.id} /\ reports' = Append(reports, R(TRUE, TRUE))
    BY <2>1, <2>2 DEF Added
  <2>3. CASE c.op = "del" /\ lock' = lock \ {c.id} /\ reports' = Append(reports, R(FALSE, TRUE))
    BY <2>1, <2>3 DEF Deleted
  <2>4. CASE /\ c.op = "del" /\ lock' = lock \ {c.id} /\ c.id \notin lock
             /\ reports' = Append(reports, R(FALSE, FALSE))
    <3>1. lock' = lock
      BY <2>4
    <3> QED  BY <2>1, <2>4, <3>1
  <2>5. CASE lock' = lock /\ reports' = Append(reports, R(c.op = "add", FALSE))
    BY <2>1, <2>5
  <2> QED  BY <1>4, <2>2, <2>3, <2>4, <2>5 DEF LockExecutes, Answer
<1>7. ASSUME NEW i \in Ids PROVE Agree(i)'
  BY <1>1, <1>2, <1>6, AnswerFits
<1> QED  BY <1>5, <1>7 DEF Fits

(* What the first report says of an identifier it is not about.            *)
LEMMA OtherReport ==
  ASSUME TypeOK, NEW i, Agree(i), reports # <<>>, reports' = Tail(reports),
         ~Answers(Head(reports), i), ~Added(Head(reports), i), ~Deleted(Head(reports), i),
         UNCHANGED <<lock, cmds>>, SvcAdds(i)' <=> SvcAdds(i),
         Confirmed(Row', i) <=> Confirmed(Row, i), Reserved(Row', i) <=> Reserved(Row, i)
  PROVE  Agree(i)'
<1>1. reports \in Seq(Reports)
  BY DEF TypeOK
<1>2. /\ RepAdds(reports, i) <=> RepAdds(reports', i)
      /\ OneRep(reports, i) => OneRep(reports', i)
      /\ Gone(reports, i) <=> Gone(reports', i)
      /\ Live(reports, i) <=> Live(reports', i)
  BY <1>1, RepsTail
<1> QED  BY <1>2 DEF Agree, OnePlace

(* The slot that waits to be read is not the one a report changes.         *)
LEMMA WaitingSlotKept ==
  ASSUME TypeOK, Fits, reports # <<>>, NEW s \in Slots, NEW v, UNCHANGED svc,
         keys' = [keys EXCEPT ![P][s] = v],
         \/ Row[s].state = "ADDED"
         \/ Row[s].id \in Ids /\ Answers(Head(reports), Row[s].id)
  PROVE  SlotWaits' /\ \A i : SvcAdds(i)' <=> SvcAdds(i)
<1>1. Row' = [Row EXCEPT ![s] = v] /\ Row \in [Slots -> Slot] /\ svc.slot \in Slots
  BY WriteRow, RowOfTable DEF Rows, TypeOK, Services
<1>2. CASE svc.op = "add" /\ svc.pc = "deref"
  <2>1. svc.slot # s
    <3> SUFFICES ASSUME svc.slot = s PROVE FALSE  OBVIOUS
    <3>1. Row[s].state = "ADDING" /\ SvcAdds(Row[s].id)
      BY <1>2 DEF Fits, SlotWaits, SvcAdds
    <3>2. Row[s].id \in Ids /\ Answers(Head(reports), Row[s].id)
      BY <3>1
    <3>3. RepAdds(reports, Row[s].id)
      <4>1. reports \in Seq(Reports)
        BY DEF TypeOK
      <4> QED  BY <3>2, <4>1, RepsTail
    <3> QED  BY <3>1, <3>2, <3>3 DEF Fits, Agree, OnePlace
  <2>2. Row'[svc.slot] = Row[svc.slot]
    BY <1>1, <2>1
  <2> QED  BY <2>2 DEF Fits, SlotWaits, SvcAdds
<1>3. CASE ~(svc.op = "add" /\ svc.pc = "deref")
  BY <1>3 DEF SlotWaits, SvcAdds
<1> QED  BY <1>2, <1>3

LEMMA KeyAddedFits ==
  ASSUME TypeOK, OnlyPasswords, Fits, HandleReport, KeyAdded(Head(reports))
  PROVE  Fits'
<1> DEFINE r == Head(reports)
<1>1. /\ reports # <<>> /\ reports' = Tail(reports) /\ reports \in Seq(Reports) /\ r \in Reports
      /\ UNCHANGED <<svc, cmds, lock>>
  BY DEF HandleReport, TypeOK
<1>2. PICK k \in Ids : k = r.id /\ Added(r, k) /\ Answers(r, k)
  BY <1>1 DEF Reports, KeyAdded, Accepts, Added, Answers
<1> DEFINE v == [state |-> "ADDED", id |-> k]
<1>3. ReportArray(r) = P
  BY <1>1, AcceptedIsPassword DEF KeyAdded, P
<1>4. PICK s \in Slots : Row[s] = [state |-> "ADDING", id |-> k] /\ keys' = [keys EXCEPT ![P][s] = v]
  BY <1>2, <1>3 DEF KeyAdded, First, Having, Row
<1>5. \A j : j # k => ~Added(r, j) /\ ~Answers(r, j) /\ ~Deleted(r, j)
  BY <1>2 DEF Added, Answers, Deleted
<1>6. v \in Slot /\ Row[s].id = k
  BY <1>2, <1>4 DEF Slot
<1> HIDE DEF r, v
<1>7. Row' = [Row EXCEPT ![s] = v] /\ Row \in Rows
  BY <1>4, WriteRow, RowOfTable
<1>8. OneSlot(Row') /\ PasswordsOnly(Row') /\ Confirmed(Row', k) /\ OthersKeep(Row, Row', k)
  BY <1>4, <1>6, <1>7, RowConfirm DEF Fits, RowFits, v
<1>9. SlotWaits' /\ \A i : SvcAdds(i)' <=> SvcAdds(i)
  BY <1>1, <1>2, <1>4, <1>6, WaitingSlotKept DEF r
<1>10. NoClears'
  BY <1>1 DEF Fits, NoClears
<1>11. Agree(k)'
  <2>1. Agree(k) /\ Reserved(Row, k)
    BY <1>2, <1>4 DEF Fits, Reserved
  <2>2. Row' \in Rows
    BY <1>6, <1>7, RowWrite
  <2>3. ~Reserved(Row', k)
    BY <1>8, <2>2, OneState
  <2>4. /\ RepAdds(reports, k) /\ ~RepAdds(reports', k) /\ OneRep(reports', k)
        /\ Live(reports, k) <=> Live(reports', k) \/ ~Gone(reports', k)
    BY <1>1, <1>2, <2>1, RepsTail DEF r, Agree, OnePlace
  <2>5. ~Live(reports', k)
    BY <2>4, LiveAnswers
  <2>6. ~SvcAdds(k)' /\ ~CmdAdds(cmds', k) /\ OneCmd(cmds', k)
    BY <1>1, <1>9, <2>1, <2>4 DEF Agree, OnePlace
  <2> QED  BY <1>1, <1>8, <2>1, <2>3, <2>4, <2>5, <2>6 DEF Agree, OnePlace
<1>12. ASSUME NEW i \in Ids, i # k PROVE Agree(i)'
  <2>1. Agree(i) /\ (Confirmed(Row', i) <=> Confirmed(Row, i)) /\ (Reserved(Row', i) <=> Reserved(Row, i))
    BY <1>8, <1>12 DEF Fits, OthersKeep
  <2> QED  BY <1>1, <1>5, <1>9, <1>12, <2>1, OtherReport DEF r
<1> QED  BY <1>8, <1>9, <1>10, <1>11, <1>12 DEF Fits, RowFits

LEMMA KeyDeletedFits ==
  ASSUME TypeOK, OnlyPasswords, Fits, HandleReport, KeyDeleted(Head(reports))
  PROVE  Fits'
<1> DEFINE r == Head(reports)
<1>1. /\ reports # <<>> /\ reports' = Tail(reports) /\ reports \in Seq(Reports) /\ r \in Reports
      /\ UNCHANGED <<svc, cmds, lock>>
  BY DEF HandleReport, TypeOK
<1>2. PICK k \in Ids : k = r.id /\ Deleted(r, k)
  BY <1>1 DEF Reports, KeyDeleted, Accepts, Deleted
<1>3. ReportArray(r) = P
  BY <1>1, AcceptedIsPassword DEF KeyDeleted, P
<1>4. PICK s \in Slots : Row[s] = [state |-> "ADDED", id |-> k] /\ keys' = [keys EXCEPT ![P][s] = NoSlot]
  BY <1>2, <1>3 DEF KeyDeleted, First, Having, Row
<1>5. \A j : j # k => ~Added(r, j) /\ ~Answers(r, j) /\ ~Deleted(r, j)
  BY <1>2 DEF Added, Answers, Deleted
<1>6. Row[s].state = "ADDED" /\ NoSlot \in Slot
  BY <1>4, IdsAreNumbers DEF NoSlot, Slot
<1> HIDE DEF r
<1>7. Row' = [Row EXCEPT ![s] = NoSlot] /\ Row \in Rows
  BY <1>4, WriteRow, RowOfTable
<1>8. OneSlot(Row') /\ PasswordsOnly(Row') /\ Absent(Row', k) /\ OthersKeep(Row, Row', k)
  BY <1>4, <1>7, RowDrop DEF Fits, RowFits
<1>9. SlotWaits' /\ \A i : SvcAdds(i)' <=> SvcAdds(i)
  BY <1>1, <1>4, <1>6, WaitingSlotKept
<1>10. NoClears'
  BY <1>1 DEF Fits, NoClears
<1>11. Agree(k)'
  <2>1. Agree(k) /\ Confirmed(Row, k)
    BY <1>2, <1>4 DEF Fits, Confirmed
  <2>2. ~Reserved(Row, k)
    BY <1>7, <2>1, OneState DEF Fits, RowFits
  <2>3. Row' \in Rows
    BY <1>6, <1>7, RowWrite
  <2>4. ~Confirmed(Row', k) /\ ~Reserved(Row', k)
    BY <1>8, <2>3, OneState
  <2>5. Gone(reports, k) /\ (RepAdds(reports', k) => RepAdds(reports, k))
        /\ (OneRep(reports, k) => OneRep(reports', k))
    BY <1>1, <1>2, RepsTail DEF r
  <2>6. k \notin lock'
    BY <1>1, <2>1, <2>5 DEF Agree
  <2> QED  BY <1>1, <1>9, <2>1, <2>2, <2>4, <2>5, <2>6 DEF Agree, OnePlace
<1>12. ASSUME NEW i \in Ids, i # k PROVE Agree(i)'
  <2>1. Agree(i) /\ (Confirmed(Row', i) <=> Confirmed(Row, i)) /\ (Reserved(Row', i) <=> Reserved(Row, i))
    BY <1>8, <1>12 DEF Fits, OthersKeep
  <2> QED  BY <1>1, <1>5, <1>9, <1>12, <2>1, OtherReport DEF r
<1> QED  BY <1>8, <1>9, <1>10, <1>11, <1>12 DEF Fits, RowFits

(* A good report about the operation a slot waits for is acted on.         *)
LEMMA AwaitedIsAccepted ==
  ASSUME TypeOK, Fits, NEW r \in Reports, r.ok, NEW s \in Slots, Row[s].id = r.id,
         Row[s].state = IF r.add THEN "ADDING" ELSE "ADDED"
  PROVE  r.id # 0 /\ Accepts(r)
<1>1. r.id \in Passwords
  BY DEF Fits, RowFits, PasswordsOnly
<1>2. r.id # 0 /\ ReportType(r.id) = Password /\ Password # Unsupported
  BY <1>1, Places DEF Password, Unsupported
<1>3. ReportArray(r) = P
  BY <1>2 DEF ReportArray, P
<1>4. WithId(P, r.id) = {s}
  BY DEF WithId, Used, Row, Fits, RowFits, OneSlot
<1>5. Last(s, WithId(P, r.id))
  BY <1>4, SlotsNonEmpty DEF Last
<1> QED  BY <1>2, <1>3, <1>5 DEF Accepts, Row

(* A report that leaves the passwords as they are.                         *)
LEMMA SkippedFits ==
  ASSUME TypeOK, Fits, HandleReport, Row' = Row,
         \A s \in Slots : /\ Head(reports).ok /\ Row[s].id = Head(reports).id
                          /\ Row[s].state = IF Head(reports).add THEN "ADDING" ELSE "ADDED"
                          => FALSE
  PROVE  Fits'
<1> DEFINE r == Head(reports)
<1>1. /\ reports # <<>> /\ reports' = Tail(reports) /\ reports \in Seq(Reports) /\ r \in Reports
      /\ UNCHANGED <<svc, cmds, lock>>
  BY DEF HandleReport, TypeOK
<1>2. RowFits' /\ SlotWaits' /\ NoClears'
  BY <1>1 DEF Fits, RowFits, SlotWaits, NoClears
<1>3. ASSUME NEW i \in Ids PROVE Agree(i)'
  <2>1. Agree(i) /\ (SvcAdds(i)' <=> SvcAdds(i))
    BY <1>1 DEF Fits, SvcAdds
  <2>2. Confirmed(Row, i) => ~Deleted(r, i)
    BY DEF Confirmed, Deleted
  <2>3. Reserved(Row, i) => ~Added(r, i)
    BY DEF Reserved, Added
  <2> HIDE DEF r
  <2>4. /\ RepAdds(reports', i) => RepAdds(reports, i)
        /\ OneRep(reports, i) => OneRep(reports', i)
        /\ Gone(reports, i) <=> Gone(reports', i) \/ Deleted(r, i)
        /\ Live(reports, i) <=> Live(reports', i) \/ (Added(r, i) /\ ~Gone(reports', i))
    BY <1>1, RepsTail DEF r
  <2> QED  BY <1>1, <2>1, <2>2, <2>3, <2>4 DEF Agree, OnePlace
<1> QED  BY <1>2, <1>3 DEF Fits

LEMMA HandleReportFits ==
  ASSUME TypeOK, OnlyPasswords, Fits, HandleReport
  PROVE  Fits'
<1> DEFINE r == Head(reports)
<1>1. r \in Reports
  BY DEF HandleReport, TypeOK
<1>2. CASE KeyAdded(r)
  BY <1>2, KeyAddedFits
<1>3. CASE KeyDeleted(r)
  BY <1>3, KeyDeletedFits
<1>4. CASE KeysCleared(r)
  <2>1. TypeIdx(ReportType(0)) = 0
    <3>1. ReportType(0) = 0
      BY SMT DEF ReportType
    <3>2. TypeIdx(0) = 0
      BY SMT DEF TypeIdx
    <3> QED  BY <3>1, <3>2
  <2>2. Row' = Row
    BY <1>4, <2>1, Places DEF KeysCleared, Row, TypeOK, Table, Arrays
  <2>3. ASSUME r.ok, NEW s \in Slots, Row[s].id = r.id,
               Row[s].state = IF r.add THEN "ADDING" ELSE "ADDED"
        PROVE  FALSE
    BY <1>1, <1>4, <2>3, AwaitedIsAccepted DEF KeysCleared
  <2> QED  BY <2>2, <2>3, SkippedFits
<1>5. CASE ReportIgnored(r)
  <2>1. Row' = Row
    BY <1>5 DEF ReportIgnored, Row
  <2>2. ASSUME r.ok, NEW s \in Slots, Row[s].id = r.id,
               Row[s].state = IF r.add THEN "ADDING" ELSE "ADDED"
        PROVE  FALSE
    BY <1>1, <1>5, <2>2, AwaitedIsAccepted DEF ReportIgnored
  <2> QED  BY <2>1, <2>2, SkippedFits
<1> QED  BY <1>2, <1>3, <1>4, <1>5 DEF HandleReport

---------------------------------------------------------------------------
(* The theorem.                                                            *)

LEMMA StepFits ==
  ASSUME Reliable, TypeOK, OnlyPasswords, Fits, [Next]_vars
  PROVE  Fits'
<1>1. ASSUME NEW c \in Codes, AddKey(c) PROVE Fits'
  BY <1>1, AddKeyFits
<1>2. ASSUME NEW c \in Codes, DelKey(c) PROVE Fits'
  BY <1>2, DelKeyFits
<1>3. CASE Deref
  BY <1>3, DerefFits
<1>4. CASE Send
  BY <1>4, SendFits
<1>5. CASE LockExecutes
  BY <1>5, LockExecutesFits
<1>6. CASE HandleReport
  BY <1>6, HandleReportFits
<1>7. CASE UNCHANGED <<keys, svc, cmds, reports, lock>>
  BY <1>7 DEF Fits, RowFits, SlotWaits, NoClears, Agree, OnePlace, SvcAdds, Row
<1>8. ~ClrKey /\ ~LoseCommand /\ ~LoseReport /\ ~Restart
  BY DEF Reliable, ClrKey, LoseCommand, LoseReport, Restart
<1> QED
  BY <1>1, <1>2, <1>3, <1>4, <1>5, <1>6, <1>7, <1>8 DEF Next, vars, StatusSaved, Notify

(* With nothing in flight no slot waits for an answer that makes a         *)
(* difference: what the lock has is what is confirmed.                     *)
LEMMA FitsAgrees == AgreeInv => QuietAgreement
<1> SUFFICES ASSUME AgreeInv, Quiet PROVE Held(keys) = lock
  BY DEF QuietAgreement
<1>1. TypeOK /\ OnlyPasswords /\ Fits /\ Len(reports) = 0 /\ keys \in Table
  BY InvParts DEF Quiet, TypeOK
<1>2. ASSUME NEW i \in Ids PROVE i \in Held(keys) <=> Confirmed(Row, i)
  <2>1. \A a \in Arrays, s \in Slots : keys[a][s].state # "NONE" => a = P
    BY <1>1 DEF OnlyPasswords, P
  <2> QED  BY <1>1, <2>1, Places, HeldMember DEF Confirmed, Row
<1>3. ASSUME NEW i \in Ids PROVE Confirmed(Row, i) <=> i \in lock
  <2>1. ~Gone(reports, i) /\ ~Live(reports, i)
    BY <1>1 DEF Gone, Live
  <2> QED  BY <1>1, <2>1 DEF Fits, Agree
<1> QED  BY <1>1, <1>2, <1>3 DEF Held, TypeOK

(* Where messages are not lost, the gateway does not die and the cloud     *)
(* neither repeats a password nor clears the keys, and for the codes whose *)
(* identifiers it knows, the gateway's confirmed keys are the keys the     *)
(* lock stores whenever nothing is in flight: what the request / report    *)
(* protocol of afly.c is for, whatever requests are refused, overlap or    *)
(* come while reports are on their way.                                    *)
THEOREM QuietlyAgrees ==
  ASSUME Reliable
  PROVE  Spec => []QuietAgreement
<1>1. Init => AgreeInv
  <2> SUFFICES ASSUME Init PROVE AgreeInv  OBVIOUS
  <2>1. OnlyPasswords
    BY InitCloud DEF CloudInv
  <2> QED  BY <2>1, InitTyped, InitFits, InvParts
<1>2. AgreeInv /\ [Next]_vars => AgreeInv'
  <2> SUFFICES ASSUME AgreeInv, [Next]_vars PROVE AgreeInv'  OBVIOUS
  <2>1. TypeOK /\ OnlyPasswords /\ Fits
    BY InvParts
  <2>2. TypeOK' /\ OnlyPasswords' /\ Fits'
    BY <2>1, StepTyped, OnlyPasswordsStep, StepFits
  <2> QED  BY <2>2 DEF AgreeInv, Fits
<1>3. AgreeInv => QuietAgreement
  BY FitsAgrees
<1> QED  BY <1>1, <1>2, <1>3, PTL DEF Spec

---------------------------------------------------------------------------
(* No reservation stays.  Where the lock refuses nothing either, every     *)
(* slot that waits has its request on the way there or its answer on the   *)
(* way back: what AddCompletes needs besides fairness.                     *)

\* A report that i was added is to come.
Coming(q, i) == \E n \in 1..Len(q) : Added(q[n], i)

Pending(i) == SvcAdds(i) \/ CmdAdds(cmds, i) \/ Coming(reports, i)

ReservedIsPending == \A i \in Ids : Reserved(Row, i) => Pending(i)

\* With nothing in flight no slot of any array is reserved.
NothingStaysReserved == Quiet => \A a \in Arrays, s \in Slots : keys[a][s].state # "ADDING"

LEMMA ComingAppend ==
  ASSUME NEW q \in Seq(Reports), NEW r \in Reports, NEW i
  PROVE  Coming(Append(q, r), i) <=> Coming(q, i) \/ Added(r, i)
  BY AppendParts DEF Coming

LEMMA ComingTail ==
  ASSUME NEW q \in Seq(Reports), q # <<>>, NEW i
  PROVE  Coming(q, i) <=> Coming(Tail(q), i) \/ Added(Head(q), i)
<1> DEFINE t == Tail(q)  h == Head(q)
<1>1. /\ q[1] = h /\ 1 \in 1..Len(q)
      /\ \A n \in 1..Len(t) : t[n] = q[n + 1] /\ n + 1 \in 1..Len(q)
      /\ \A n \in 1..Len(q) : n = 1 \/ (n - 1 \in 1..Len(t) /\ q[n] = t[n - 1])
  BY TailParts
<1> HIDE DEF t, h
<1>2. Coming(q, i) <=> Coming(t, i) \/ Added(h, i)
  BY <1>1 DEF Coming
<1> QED  BY <1>2 DEF t, h

LEMMA ComingAnswers == \A q, i : Coming(q, i) => RepAdds(q, i)
  BY DEF Coming, RepAdds, Added, Answers

LEMMA AddKeyPending ==
  ASSUME TypeOK, ReservedIsPending, NEW c \in Codes, AddKey(c)
  PROVE  ReservedIsPending'
<1> DEFINE id == KeyId(Password, c)
           v  == [state |-> "ADDING", id |-> id]
<1>1. svc.pc = "idle" /\ UNCHANGED <<cmds, reports>>
  BY DEF AddKey
<1>2. PICK s \in Slots : /\ keys' = [keys EXCEPT ![P][s] = v]
                         /\ svc' = [pc |-> "deref", op |-> "add", slot |-> s, id |-> 0]
  BY DEF AddKey, P
<1>3. v.id = id
  OBVIOUS
<1>4. Row' = [Row EXCEPT ![s] = v] /\ Row \in [Slots -> Slot]
  BY <1>2, WriteRow, RowOfTable DEF Rows
<1> HIDE DEF id, v
<1>5. Row'[s] = v /\ \A t \in Slots : t # s => Row'[t] = Row[t]
  BY <1>4
<1> SUFFICES ASSUME NEW i \in Ids, Reserved(Row', i) PROVE Pending(i)'
  BY DEF ReservedIsPending
<1>6. PICK t \in Slots : Row'[t] = [state |-> "ADDING", id |-> i]
  BY DEF Reserved
<1>7. CASE t = s
  BY <1>2, <1>3, <1>5, <1>6, <1>7 DEF Pending, SvcAdds
<1>8. CASE t # s
  <2>1. Pending(i)
    BY <1>5, <1>6, <1>8 DEF Reserved, ReservedIsPending
  <2> QED  BY <1>1, <2>1 DEF Pending, SvcAdds
<1> QED  BY <1>7, <1>8

(* A slot waits for the lock, whose answer is positive.                    *)
LEMMA LockExecutesPending ==
  ASSUME "refuse" \notin Faults, TypeOK, ReservedIsPending, LockExecutes
  PROVE  ReservedIsPending'
<1> DEFINE c == Head(cmds)
<1>1. cmds # <<>> /\ cmds' = Tail(cmds) /\ UNCHANGED <<keys, svc>>
  BY DEF LockExecutes
<1>2. c \in Commands /\ cmds \in Seq(Commands) /\ reports \in Seq(Reports)
  BY <1>1 DEF TypeOK
<1>3. PICK r \in Reports : reports' = Append(reports, r) /\ (c.op = "add" => Added(r, c.id))
  <2> DEFINE R(add, id, ok) == [add |-> add, id |-> id, ok |-> ok]
  <2>1. \A add, ok \in BOOLEAN : R(add, c.id, ok) \in Reports /\ R(add, 0, ok) \in Reports
    BY <1>2, IdsAreNumbers DEF Reports, Commands
  <2>2. CASE c.op = "add" /\ reports' = Append(reports, R(TRUE, c.id, TRUE))
    BY <2>1, <2>2 DEF Added
  <2>3. CASE c.op # "add" /\ \E id \in {0, c.id}, ok \in BOOLEAN :
                                reports' = Append(reports, R(FALSE, id, ok))
    BY <2>1, <2>3
  <2> QED  BY <2>2, <2>3 DEF LockExecutes, Answer
<1> SUFFICES ASSUME NEW i \in Ids, Reserved(Row', i) PROVE Pending(i)'
  BY DEF ReservedIsPending
<1>4. Pending(i) /\ (SvcAdds(i)' <=> SvcAdds(i))
  BY <1>1 DEF ReservedIsPending, Row, SvcAdds
<1>5. CmdAdds(cmds, i) => CmdAdds(cmds', i) \/ IsAdd(c, i)
  BY <1>1, <1>2, CmdsTail
<1>6. Coming(reports', i) <=> Coming(reports, i) \/ Added(r, i)
  BY <1>2, <1>3, ComingAppend
<1> QED  BY <1>3, <1>4, <1>5, <1>6 DEF Pending, IsAdd

LEMMA SendPending ==
  ASSUME TypeOK, ReservedIsPending, Send
  PROVE  ReservedIsPending'
<1> DEFINE c == [op |-> svc.op, id |-> svc.id]
<1>1. svc.pc = "send" /\ cmds' = Append(cmds, c) /\ UNCHANGED <<keys, reports>>
  BY DEF Send
<1>2. c \in Commands /\ cmds \in Seq(Commands)
  BY DEF TypeOK, Services, Commands
<1>3. \A i : SvcAdds(i) => IsAdd(c, i)
  BY <1>1 DEF SvcAdds, IsAdd
<1> HIDE DEF c
<1>4. \A i : CmdAdds(cmds', i) <=> CmdAdds(cmds, i) \/ IsAdd(c, i)
  BY <1>1, <1>2, CmdsAppend
<1> QED  BY <1>1, <1>3, <1>4 DEF ReservedIsPending, Pending, Row

(* The report a slot waits for takes the reservation with it; any other    *)
(* leaves the slot to its own.                                             *)
LEMMA HandleReportPending ==
  ASSUME AgreeInv, ReservedIsPending, HandleReport
  PROVE  ReservedIsPending'
<1> DEFINE r == Head(reports)
<1>1. /\ reports # <<>> /\ reports' = Tail(reports) /\ reports \in Seq(Reports) /\ r \in Reports
      /\ UNCHANGED <<svc, cmds>>
  BY DEF HandleReport, AgreeInv, TypeOK
<1>2. TypeOK /\ OnlyPasswords /\ Fits /\ Fits'
  BY InvParts, HandleReportFits
<1>3. Row \in Rows /\ keys \in Table
  BY <1>2, RowOfTable DEF TypeOK
<1> SUFFICES ASSUME NEW i \in Ids, Reserved(Row', i) PROVE Pending(i)'
  BY DEF ReservedIsPending
<1>4. Coming(reports, i) <=> Coming(reports', i) \/ Added(r, i)
  BY <1>1, ComingTail
<1>5. ASSUME KeyAdded(r) PROVE Pending(i)'
  <2>1. PICK k \in Ids : k = r.id
    BY <1>1 DEF Reports
  <2>2. ReportArray(r) = P
    BY <1>1, <1>2, <1>5, AcceptedIsPassword DEF KeyAdded, P
  <2>3. PICK s \in Slots : /\ Row[s] = [state |-> "ADDING", id |-> k]
                           /\ keys' = [keys EXCEPT ![P][s] = [state |-> "ADDED", id |-> k]]
    BY <1>5, <2>1, <2>2 DEF KeyAdded, First, Having, Row
  <2>4. Row' = [Row EXCEPT ![s] = [state |-> "ADDED", id |-> k]]
    BY <2>3, WriteRow, <1>2
  <2>5. OneSlot(Row) /\ PasswordsOnly(Row) /\ k \in Passwords
    BY <1>2, <2>3 DEF Fits, RowFits, PasswordsOnly
  <2>6. Confirmed(Row', k) /\ OneSlot(Row') /\ OthersKeep(Row, Row', k)
    BY <1>3, <2>3, <2>4, <2>5, RowConfirm DEF Slot
  <2>7. Row' \in Rows
    BY <1>3, <2>3, <2>4 DEF Rows, Slot
  <2>8. i # k /\ Reserved(Row, i)
    BY <2>6, <2>7, OneState DEF OthersKeep
  <2>9. SvcAdds(i)' <=> SvcAdds(i)
    <3>1. Row[s].id \in Ids /\ Answers(r, Row[s].id)
      BY <1>5, <2>1, <2>3 DEF KeyAdded, Answers
    <3> QED  BY <1>1, <1>2, <2>3, <3>1, WaitingSlotKept
  <2>10. ~Added(r, i)
    BY <2>1, <2>8 DEF Added
  <2> QED  BY <1>1, <1>4, <2>8, <2>9, <2>10 DEF ReservedIsPending, Pending
<1>6. ASSUME KeyDeleted(r) PROVE Pending(i)'
  <2>1. PICK k \in Ids : k = r.id
    BY <1>1 DEF Reports
  <2>2. ReportArray(r) = P
    BY <1>1, <1>2, <1>6, AcceptedIsPassword DEF KeyDeleted, P
  <2>3. PICK s \in Slots : /\ Row[s] = [state |-> "ADDED", id |-> k]
                           /\ keys' = [keys EXCEPT ![P][s] = NoSlot]
    BY <1>6, <2>1, <2>2 DEF KeyDeleted, First, Having, Row
  <2>4. Row' = [Row EXCEPT ![s] = NoSlot]
    BY <2>3, WriteRow, <1>2
  <2>5. Reserved(Row, i)
    BY <1>3, <2>4 DEF Reserved, NoSlot, Rows
  <2>6. SvcAdds(i)' <=> SvcAdds(i)
    <3>1. Row[s].state = "ADDED"
      BY <2>3
    <3> QED  BY <1>1, <1>2, <2>3, <3>1, WaitingSlotKept
  <2>7. ~Added(r, i)
    BY <1>6 DEF KeyDeleted, Added
  <2> QED  BY <1>1, <1>4, <2>5, <2>6, <2>7 DEF ReservedIsPending, Pending
<1>7. ASSUME Row' = Row, ~Accepts(r) \/ r.id = 0 PROVE Pending(i)'
  <2>1. PICK s \in Slots : Row[s] = [state |-> "ADDING", id |-> i]
    BY <1>7 DEF Reserved
  <2>2. ~Added(r, i)
    BY <1>1, <1>2, <1>7, <2>1, AwaitedIsAccepted DEF Added
  <2>3. SvcAdds(i)' <=> SvcAdds(i)
    BY <1>1, <1>7 DEF SvcAdds
  <2>4. Pending(i)
    BY <1>7 DEF ReservedIsPending
  <2> QED  BY <1>1, <1>4, <2>2, <2>3, <2>4 DEF Pending
<1>8. ASSUME KeysCleared(r) PROVE Row' = Row /\ r.id = 0
  <2>1. TypeIdx(ReportType(0)) = 0
    <3>1. ReportType(0) = 0
      BY SMT DEF ReportType
    <3>2. TypeIdx(0) = 0
      BY SMT DEF TypeIdx
    <3> QED  BY <3>1, <3>2
  <2> QED  BY <1>3, <1>8, <2>1, Places DEF KeysCleared, Row, Table, Arrays
<1>9. ASSUME ReportIgnored(r) PROVE Row' = Row /\ ~Accepts(r)
  BY <1>9 DEF ReportIgnored, Row
<1> QED  BY <1>5, <1>6, <1>7, <1>8, <1>9 DEF HandleReport

LEMMA StepPending ==
  ASSUME Reliable, "refuse" \notin Faults, AgreeInv, ReservedIsPending, [Next]_vars
  PROVE  ReservedIsPending'
<1>1. TypeOK
  BY DEF AgreeInv
<1>2. ASSUME NEW c \in Codes, AddKey(c) PROVE ReservedIsPending'
  BY <1>1, <1>2, AddKeyPending
<1>3. ASSUME NEW c \in Codes, DelKey(c) PROVE ReservedIsPending'
  BY <1>3 DEF DelKey, ReservedIsPending, Pending, SvcAdds, Row
<1>4. CASE Deref
  <2>1. /\ svc.pc = "deref" /\ svc'.pc = "send" /\ svc'.op = svc.op /\ svc'.id = Row[svc.slot].id
        /\ UNCHANGED <<keys, cmds, reports>>
    BY <1>1, <1>4 DEF Deref, TypeOK, Services, Row, P
  <2> QED  BY <2>1 DEF ReservedIsPending, Pending, SvcAdds, Row
<1>5. CASE Send
  BY <1>1, <1>5, SendPending
<1>6. CASE LockExecutes
  BY <1>1, <1>6, LockExecutesPending
<1>7. CASE HandleReport
  BY <1>7, HandleReportPending
<1>8. CASE UNCHANGED <<keys, svc, cmds, reports>>
  BY <1>8 DEF ReservedIsPending, Pending, SvcAdds, Row
<1>9. ~ClrKey /\ ~LoseCommand /\ ~LoseReport /\ ~Restart
  BY DEF Reliable, ClrKey, LoseCommand, LoseReport, Restart
<1> QED
  BY <1>2, <1>3, <1>4, <1>5, <1>6, <1>7, <1>8, <1>9 DEF Next, vars, StatusSaved, Notify

(* Where, besides, the lock refuses nothing, no slot is reserved with      *)
(* nothing in flight: the table cannot fill up with additions that nobody  *)
(* is working on.                                                          *)
THEOREM ReservationsEnd ==
  ASSUME Reliable, "refuse" \notin Faults
  PROVE  Spec => []NothingStaysReserved
<1>1. Init => AgreeInv /\ ReservedIsPending
  <2> SUFFICES ASSUME Init PROVE AgreeInv /\ ReservedIsPending  OBVIOUS
  <2>1. OnlyPasswords
    BY InitCloud DEF CloudInv
  <2>2. \A s \in Slots : Row[s] = NoSlot
    BY DEF Init, Row, P, TypeIdx, Arrays, Password
  <2>3. ReservedIsPending
    BY <2>2 DEF ReservedIsPending, Reserved, NoSlot
  <2> QED  BY <2>1, <2>3, InitTyped, InitFits, InvParts
<1>2. AgreeInv /\ ReservedIsPending /\ [Next]_vars => (AgreeInv /\ ReservedIsPending)'
  <2> SUFFICES ASSUME AgreeInv, ReservedIsPending, [Next]_vars
               PROVE  AgreeInv' /\ ReservedIsPending'
    OBVIOUS
  <2>1. TypeOK /\ OnlyPasswords /\ Fits
    BY InvParts
  <2>2. TypeOK' /\ OnlyPasswords' /\ Fits'
    BY <2>1, StepTyped, OnlyPasswordsStep, StepFits
  <2>3. AgreeInv'
    BY <2>2 DEF AgreeInv, Fits
  <2> QED  BY <2>3, StepPending
<1>3. AgreeInv /\ ReservedIsPending => NothingStaysReserved
  <2> SUFFICES ASSUME AgreeInv, ReservedIsPending, Quiet, NEW a \in Arrays, NEW s \in Slots,
                      keys[a][s].state = "ADDING"
               PROVE  FALSE
    BY DEF NothingStaysReserved
  <2>1. a = P /\ Row[s].state = "ADDING" /\ Row \in Rows
    BY RowOfTable DEF AgreeInv, OnlyPasswords, P, Row
  <2>2. Row[s].id \in Ids /\ Reserved(Row, Row[s].id)
    <3>1. Row[s] \in Slot
      BY <2>1 DEF Rows
    <3>2. Row[s] = [state |-> "ADDING", id |-> Row[s].id]
      BY <2>1, <3>1 DEF Slot
    <3> QED  BY <3>1, <3>2 DEF Reserved, Slot
  <2>3. ~Pending(Row[s].id)
    BY DEF Quiet, IdleSvc, Pending, SvcAdds, CmdAdds, Coming
  <2> QED  BY <2>2, <2>3 DEF ReservedIsPending
<1> QED  BY <1>1, <1>2, <1>3, PTL DEF Spec

---------------------------------------------------------------------------
(* The other codes: that CodesInRange is needed, and exact.                *)

OthersNeverHeld ==
    \A c \in Codes : ~Answerable(c) => KeyId(Password, c) \notin Held(keys) \cup Held(disk)

HeldArePasswords == Held(keys) \cup Held(disk) \subseteq Passwords

LEMMA PasswordsAreAnswerable ==
  ASSUME NEW c \in Codes, KeyId(Password, c) \in Passwords
  PROVE  Answerable(c)
<1>1. c \in Nat
  BY CodesAssumption
<1>2. KeyId(Password, c) = 2000000 + c
  BY <1>1, SMT DEF KeyId, Password
<1> QED  BY <1>1, <1>2, SMT DEF Answerable, Passwords

(* A report that confirms a key is about a password.                       *)
LEMMA ConfirmedIsPassword ==
  ASSUME TypeOK, OnlyPasswords, NEW r \in Reports, Accepts(r)
  PROVE  r.id \in Passwords
<1>1. TypeIdx(ReportType(r.id)) = TypeIdx(2)
  BY AcceptedIsPassword DEF ReportArray, Password
<1>2. r.id \in Nat /\ ReportType(r.id) # 9
  BY IdsAreNumbers DEF Reports, Accepts, Unsupported
<1>3. ReportType(r.id) \in {0, 1, 2, 3, 9}
  BY <1>2, SMT DEF ReportType, Unsupported
<1>4. ReportType(r.id) = 2
  BY <1>1, <1>2, <1>3, SMT DEF TypeIdx
<1> QED  BY <1>2, <1>4, SMT DEF ReportType, Passwords, Unsupported

LEMMA StepPasswords ==
  ASSUME TypeOK, OnlyPasswords, HeldArePasswords, [Next]_vars
  PROVE  HeldArePasswords'
<1> USE DEF HeldArePasswords
<1>1. ASSUME NEW c \in Codes, AddKey(c) PROVE HeldArePasswords'
  BY <1>1, AddKeyHeld DEF AddKey
<1>2. CASE HandleReport
  <2> DEFINE r == Head(reports)
  <2>1. r \in Reports
    BY <1>2 DEF HandleReport, TypeOK
  <2>2. Held(keys') \subseteq Passwords
    <3>1. CASE KeyAdded(r)
      BY <2>1, <3>1, KeyAddedHeld, ConfirmedIsPassword DEF KeyAdded
    <3>2. CASE KeyDeleted(r)
      BY <2>1, <3>2, KeyDeletedHeld
    <3>3. CASE KeysCleared(r)
      BY <3>3, KeysClearedHeld
    <3>4. CASE ReportIgnored(r)
      BY <3>4 DEF ReportIgnored
    <3> QED  BY <1>2, <3>1, <3>2, <3>3, <3>4 DEF HandleReport
  <2>3. disk' = keys' \/ disk' = disk
    BY <1>2 DEF HandleReport, KeyAdded, KeyDeleted, KeysCleared, ReportIgnored, Save
  <2> QED  BY <2>2, <2>3
<1>3. CASE Restart
  BY <1>3 DEF Restart
<1>4. CASE StatusSaved
  BY <1>4 DEF StatusSaved, Save
<1>5. CASE ~HandleReport /\ ~StatusSaved /\ ~Restart /\ \A c \in Codes : ~AddKey(c)
  BY <1>5, TablesUnchanged
<1> QED  BY <1>1, <1>2, <1>3, <1>4, <1>5

(* A password whose identifier the report handler does not take for one is *)
(* never confirmed, whatever the lock answers and however long it takes:   *)
(* the services accept it, its slot stays reserved, and the lock may open  *)
(* to it.                                                                  *)
THEOREM OtherCodesNeverHeld == Spec => []OthersNeverHeld
<1>1. Init => TypeOK /\ OnlyPasswords /\ HeldArePasswords
  <2> SUFFICES ASSUME Init PROVE OnlyPasswords /\ HeldArePasswords
    BY InitTyped
  <2>1. OnlyPasswords
    BY InitCloud DEF CloudInv
  <2>2. Held(keys) = {} /\ Held(disk) = {}
    BY DEF Init, Held, NoSlot
  <2> QED  BY <2>1, <2>2 DEF HeldArePasswords
<1>2. TypeOK /\ OnlyPasswords /\ HeldArePasswords /\ [Next]_vars
         => (TypeOK /\ OnlyPasswords /\ HeldArePasswords)'
  BY StepTyped, OnlyPasswordsStep, StepPasswords
<1>3. HeldArePasswords => OthersNeverHeld
  BY PasswordsAreAnswerable DEF HeldArePasswords, OthersNeverHeld
<1> QED  BY <1>1, <1>2, <1>3, PTL DEF Spec

=============================================================================
