---------------------------- MODULE LockKeysKnown ----------------------------
(***************************************************************************)
(* The proof that the gateway has a slot for every password of the lock,   *)
(* for every set of passwords, every number of slots, every length of the  *)
(* queues and every fault, until the first restart.  Commands and reports  *)
(* may be lost, passwords repeated, keys cleared and requests refused, so  *)
(* an identifier may have several slots and several additions on their     *)
(* way: the additions are counted against the slots that wait for them.    *)
(***************************************************************************)
EXTENDS LockKeysAgreement, FiniteSetTheorems

---------------------------------------------------------------------------
(* The invariant.                                                          *)

\* How many elements of a queue are in T.
Hits(q, T) == {n \in 1..Len(q) : q[n] \in T}
Count(q, T)  == Cardinality(Hits(q, T))

AddCmds(i) == {c \in Commands : IsAdd(c, i)}
AddReps(i) == {r \in Reports : Answers(r, i)}

\* The slots that wait for the lock to confirm i.
Waiting(row, i) == {s \in Slots : row[s] = [state |-> "ADDING", id |-> i]}

\* The additions of i under way: in the linkkit thread, on the way to the lock, and
\* on the way back, refused or not.
UnderWay(i) == (IF SvcAdds(i) THEN 1 ELSE 0) + Count(cmds, AddCmds(i)) + Count(reports, AddReps(i))

\* An identifier that was deleted while the lock has it was added again, and that
\* report is still to come; every addition under way has a slot of its own that
\* waits for it; an identifier of the lock has a slot.
Traced(i) ==
    /\ (i \in lock /\ Gone(reports, i) => Live(reports, i))
    /\ (crashes = 0 => UnderWay(i) <= Cardinality(Waiting(Row, i)))
    /\ (crashes = 0 /\ i \in lock => ~Absent(Row, i))

KnownInv == TypeOK /\ OnlyPasswords /\ \A i \in Ids \ {0} : Traced(i)

---------------------------------------------------------------------------
(* Counting.                                                               *)

LEMMA CountFinite ==
  ASSUME NEW S, NEW q \in Seq(S), NEW T
  PROVE  IsFiniteSet(Hits(q, T)) /\ Count(q, T) \in Nat
<1>1. Len(q) \in Nat
  OBVIOUS
<1>2. IsFiniteSet(1..Len(q))
  BY <1>1, FS_Interval
<1>3. Hits(q, T) \in SUBSET (1..Len(q))
  BY DEF Hits
<1>4. IsFiniteSet(Hits(q, T))
  BY <1>2, <1>3, FS_Subset
<1> QED  BY <1>4, FS_CardinalityType DEF Count

(* One more element counts if it is in T.                                  *)
LEMMA CountAppend ==
  ASSUME NEW S, NEW q \in Seq(S), NEW r \in S, NEW T
  PROVE  Count(Append(q, r), T) = Count(q, T) + (IF r \in T THEN 1 ELSE 0)
<1> DEFINE p == Append(q, r)  k == Len(q) + 1
<1>1. /\ Len(p) = k /\ Len(q) \in Nat /\ p[k] = r
      /\ \A n \in 1..Len(q) : p[n] = q[n]
      /\ \A n \in 1..k : n \in 1..Len(q) \/ n = k
  BY AppendParts
<1>2. k \notin 1..Len(q) /\ k \in 1..k /\ 1..Len(q) \subseteq 1..k
  BY <1>1
<1> HIDE DEF p, k
<1>3. Hits(p, T) = IF r \in T THEN Hits(q, T) \cup {k} ELSE Hits(q, T)
  BY <1>1, <1>2 DEF Hits
<1>4. k \notin Hits(q, T)
  BY <1>2 DEF Hits
<1>5. IsFiniteSet(Hits(q, T)) /\ Cardinality(Hits(q, T)) \in Nat
  BY CountFinite DEF Count
<1>6. Cardinality(Hits(q, T) \cup {k}) = Cardinality(Hits(q, T)) + 1
  BY <1>4, <1>5, FS_AddElement
<1> QED  BY <1>3, <1>5, <1>6 DEF Count, p

(* One less element counts if it was in T.                                 *)
LEMMA CountTail ==
  ASSUME NEW S, NEW q \in Seq(S), q # <<>>, NEW T
  PROVE  Count(q, T) = Count(Tail(q), T) + (IF Head(q) \in T THEN 1 ELSE 0)
<1> DEFINE t == Tail(q)  A == Hits(t, T)  B == Hits(q, T) \ {1}
           f == [n \in A |-> n + 1]
<1>1. /\ Len(q) \in Nat /\ Len(q) >= 1 /\ Len(t) = Len(q) - 1
      /\ q[1] = Head(q) /\ 1 \in 1..Len(q)
      /\ \A n \in 1..Len(t) : t[n] = q[n + 1] /\ n + 1 \in 1..Len(q) /\ n + 1 # 1
      /\ \A n \in 1..Len(q) : n = 1 \/ (n - 1 \in 1..Len(t) /\ q[n] = t[n - 1])
  BY TailParts
<1>2. t \in Seq(S)
  OBVIOUS
<1>3. IsFiniteSet(A) /\ IsFiniteSet(Hits(q, T)) /\ Cardinality(Hits(q, T)) \in Nat
  BY <1>2, CountFinite DEF Count
<1> HIDE DEF t
<1>4. A \subseteq Int /\ \A n \in A : n + 1 \in B
  BY <1>1 DEF Hits
<1>5. \A m \in B : m - 1 \in A /\ (m - 1) + 1 = m
  BY <1>1 DEF Hits
<1>6. f \in [A -> B]
  BY <1>4
<1>7. \A m, n \in A : m # n => f[m] # f[n]
  BY <1>4
<1>8. \A m \in B : \E n \in A : f[n] = m
  BY <1>5
<1>9. f \in Bijection(A, B)
  BY <1>6, <1>7, <1>8 DEF Bijection, Injection, Surjection, IsInjective
<1>10. Cardinality(B) = Cardinality(A)
  BY <1>3, <1>9, FS_Bijection DEF ExistsBijection
<1>11. 1 \in Hits(q, T) <=> Head(q) \in T
  BY <1>1 DEF Hits
<1>12. Cardinality(B) = IF 1 \in Hits(q, T) THEN Cardinality(Hits(q, T)) - 1
                                              ELSE Cardinality(Hits(q, T))
  BY <1>3, FS_RemoveElement
<1> QED  BY <1>3, <1>10, <1>11, <1>12 DEF Count, t

(* What is somewhere in the queue is counted.                              *)
LEMMA CountPositive ==
  ASSUME NEW S, NEW q \in Seq(S), NEW T, NEW n \in 1..Len(q), q[n] \in T
  PROVE  Count(q, T) >= 1
<1>1. n \in Hits(q, T)
  BY DEF Hits
<1>2. IsFiniteSet(Hits(q, T)) /\ Count(q, T) \in Nat
  BY CountFinite
<1>3. Count(q, T) # 0
  BY <1>1, <1>2, FS_EmptySet DEF Count
<1> QED  BY <1>2, <1>3

LEMMA WaitingFinite ==
  ASSUME NEW row, NEW i
  PROVE  IsFiniteSet(Waiting(row, i)) /\ Cardinality(Waiting(row, i)) \in Nat
<1>1. IsFiniteSet(Slots)
  BY MaxKeyAssumption, FS_Interval DEF Slots
<1>2. Waiting(row, i) \in SUBSET Slots
  BY DEF Waiting
<1>3. IsFiniteSet(Waiting(row, i))
  BY <1>1, <1>2, FS_Subset
<1> QED  BY <1>3, FS_CardinalityType

LEMMA WaitingPresent ==
  ASSUME NEW row, NEW i, Cardinality(Waiting(row, i)) >= 1
  PROVE  ~Absent(row, i)
<1>1. Waiting(row, i) # {}
  BY FS_EmptySet
<1> QED  BY <1>1 DEF Waiting, Absent

---------------------------------------------------------------------------
(* What the steps do to one identifier.                                    *)

\* The variables an identifier is traced by.
SameElse == UNCHANGED <<keys, svc, cmds, reports, lock, crashes>>

LEMMA CountsTyped ==
  ASSUME TypeOK, NEW i
  PROVE  /\ Count(cmds, AddCmds(i)) \in Nat
         /\ Count(reports, AddReps(i)) \in Nat
         /\ Cardinality(Waiting(Row, i)) \in Nat
  BY CountFinite, WaitingFinite DEF TypeOK

(* An addition that is counted has a slot that waits.                      *)
LEMMA UnderWayPresent ==
  ASSUME TypeOK, NEW i, crashes = 0, Traced(i), UnderWay(i) >= 1
  PROVE  ~Absent(Row, i)
<1>1. Cardinality(Waiting(Row, i)) >= 1
  BY CountsTyped DEF Traced, UnderWay
<1> QED  BY <1>1, WaitingPresent

LEMMA LiveIsCounted ==
  ASSUME NEW q \in Seq(Reports), NEW i, Live(q, i)
  PROVE  Count(q, AddReps(i)) >= 1
<1>1. PICK n \in 1..Len(q) : Added(q[n], i)
  BY DEF Live
<1>2. q[n] \in AddReps(i)
  BY <1>1 DEF AddReps, Added, Answers
<1> QED  BY <1>2, CountPositive

LEMMA AddKeyTraced ==
  ASSUME TypeOK, NEW c \in Codes, AddKey(c), NEW i \in Ids \ {0}, Traced(i)
  PROVE  Traced(i)'
<1> DEFINE id == KeyId(Password, c)
           v  == [state |-> "ADDING", id |-> id]
<1>1. UNCHANGED <<cmds, reports, lock, crashes>> /\ ~SvcAdds(i)
  BY DEF AddKey, SvcAdds
<1>2. PICK s \in Slots : /\ Row[s].state = "NONE"
                         /\ keys' = [keys EXCEPT ![P][s] = v]
                         /\ svc' = [pc |-> "deref", op |-> "add", slot |-> s, id |-> 0]
  BY DEF AddKey, First, Free, Row, P
<1>3. v \in Slot /\ v.state = "ADDING" /\ v.id = id
  BY DEF Slot, Ids
<1> HIDE DEF id, v
<1>4. Row' = [Row EXCEPT ![s] = v] /\ Row \in Rows
  BY <1>2, WriteRow, RowOfTable
<1>5. \A t \in Slots : Row'[t] = IF t = s THEN v ELSE Row[t]
  BY <1>3, <1>4, RowWrite
<1>6. SvcAdds(i)' <=> i = id
  BY <1>2, <1>3, <1>5 DEF SvcAdds
<1>7. s \notin Waiting(Row, i)
  BY <1>2 DEF Waiting
<1>8. Waiting(Row', i) = IF i = id THEN Waiting(Row, i) \cup {s} ELSE Waiting(Row, i)
  <2>1. v = [state |-> "ADDING", id |-> i] <=> i = id
    BY <1>3 DEF v
  <2> QED  BY <1>2, <1>5, <2>1 DEF Waiting
<1>9. Cardinality(Waiting(Row', i)) = Cardinality(Waiting(Row, i)) + (IF i = id THEN 1 ELSE 0)
  <2>1. IsFiniteSet(Waiting(Row, i))
    BY WaitingFinite
  <2>2. Cardinality(Waiting(Row, i) \cup {s}) = Cardinality(Waiting(Row, i)) + 1
    BY <1>7, <2>1, FS_AddElement
  <2>3. Cardinality(Waiting(Row, i)) \in Nat
    BY WaitingFinite
  <2> QED  BY <1>8, <2>2, <2>3
<1>10. ~Absent(Row, i) => ~Absent(Row', i)
  BY <1>2, <1>5 DEF Absent
<1>11. crashes = 0 => UnderWay(i)' <= Cardinality(Waiting(Row', i))
  BY <1>1, <1>6, <1>9, CountsTyped DEF Traced, UnderWay
<1> QED  BY <1>1, <1>10, <1>11 DEF Traced

(* Steps of the linkkit thread that send nothing.                          *)
LEMMA ServiceTraced ==
  ASSUME TypeOK, NEW i, Traced(i), UNCHANGED <<keys, cmds, reports, lock, crashes>>,
         SvcAdds(i)' => SvcAdds(i)
  PROVE  Traced(i)'
<1>1. Row' = Row
  BY DEF Row
<1>2. crashes = 0 => UnderWay(i)' <= Cardinality(Waiting(Row', i))
  BY <1>1, CountsTyped DEF Traced, UnderWay
<1> QED  BY <1>1, <1>2 DEF Traced

LEMMA SendTraced ==
  ASSUME TypeOK, Send, NEW i, Traced(i)
  PROVE  Traced(i)'
<1> DEFINE c == [op |-> svc.op, id |-> svc.id]
<1>1. /\ svc.pc = "send" /\ cmds' = Append(cmds, c) /\ svc' = IdleSvc
      /\ UNCHANGED <<keys, reports, lock, crashes>>
  BY DEF Send
<1>2. c \in Commands /\ cmds \in Seq(Commands)
  BY DEF TypeOK, Services, Commands
<1>3. Row' = Row /\ ~SvcAdds(i)'
  BY <1>1 DEF Row, IdleSvc, SvcAdds
<1>4. SvcAdds(i) <=> c \in AddCmds(i)
  BY <1>1, <1>2 DEF SvcAdds, AddCmds, IsAdd
<1> HIDE DEF c
<1>5. Count(cmds', AddCmds(i)) = Count(cmds, AddCmds(i)) + (IF c \in AddCmds(i) THEN 1 ELSE 0)
  BY <1>1, <1>2, CountAppend
<1>6. crashes = 0 => UnderWay(i)' <= Cardinality(Waiting(Row', i))
  BY <1>1, <1>3, <1>4, <1>5, CountsTyped DEF Traced, UnderWay
<1> QED  BY <1>1, <1>3, <1>6 DEF Traced

LEMMA LockExecutesTraced ==
  ASSUME TypeOK, LockExecutes, NEW i \in Ids \ {0}, Traced(i)
  PROVE  Traced(i)'
<1> DEFINE c == Head(cmds)
           R(add, ok) == [add |-> add, id |-> c.id, ok |-> ok]
<1>1. cmds # <<>> /\ cmds' = Tail(cmds) /\ UNCHANGED <<keys, svc, crashes>>
  BY DEF LockExecutes
<1>2. c \in Commands /\ cmds \in Seq(Commands) /\ reports \in Seq(Reports)
  BY <1>1 DEF TypeOK
<1>3. PICK r \in Reports :
         /\ reports' = Append(reports, r) /\ (Answers(r, i) => IsAdd(c, i))
         /\ \/ Added(r, i) /\ IsAdd(c, i)
            \/ ~Added(r, i) /\ i \notin lock'
            \/ ~Added(r, i) /\ ~Deleted(r, i) /\ (i \in lock' => i \in lock)
  <2>0. \A add, ok \in BOOLEAN : R(add, ok) \in Reports
    BY <1>2 DEF Reports, Commands
  <2>1. CASE /\ c.op = "add" /\ lock' = lock \cup {c.id} /\ reports' = Append(reports, R(TRUE, TRUE))
    BY <2>0, <2>1 DEF Answers, Added, Deleted, IsAdd
  <2>2. CASE c.op = "del" /\ lock' = lock \ {c.id} /\ reports' = Append(reports, R(FALSE, TRUE))
    BY <2>0, <2>2 DEF Answers, Added, Deleted, IsAdd
  <2>3. CASE c.op = "del" /\ lock' = lock \ {c.id} /\ reports' = Append(reports, R(FALSE, FALSE))
    BY <2>0, <2>3 DEF Answers, Added, Deleted, IsAdd
  <2>4. CASE lock' = {} /\ reports' = Append(reports, [add |-> FALSE, id |-> 0, ok |-> TRUE])
    <3> DEFINE q == [add |-> FALSE, id |-> 0, ok |-> TRUE]
    <3>1. q \in Reports
      BY IdsAreNumbers DEF Reports
    <3>2. ~q.add /\ i \notin lock'
      BY <2>4
    <3>3. reports' = Append(reports, q)
      BY <2>4
    <3> QED  BY <3>1, <3>2, <3>3 DEF Answers, Added
  <2>5. CASE lock' = lock /\ reports' = Append(reports, R(c.op = "add", FALSE))
    BY <2>0, <2>5 DEF Answers, Added, Deleted, IsAdd
  <2> QED  BY <2>1, <2>2, <2>3, <2>4, <2>5 DEF LockExecutes, Answer
<1> HIDE DEF c
<1>4. Row' = Row /\ (SvcAdds(i)' <=> SvcAdds(i))
  BY <1>1 DEF Row, SvcAdds
<1>5. Count(cmds, AddCmds(i)) = Count(cmds', AddCmds(i)) + (IF IsAdd(c, i) THEN 1 ELSE 0)
  BY <1>1, <1>2, CountTail DEF AddCmds, c
<1>6. Count(reports', AddReps(i)) = Count(reports, AddReps(i)) + (IF Answers(r, i) THEN 1 ELSE 0)
  BY <1>2, <1>3, CountAppend DEF AddReps
<1>7. Count(cmds', AddCmds(i)) \in Nat
  <2>1. cmds' \in Seq(Commands)
    BY <1>1, <1>2
  <2> QED  BY <2>1, CountFinite
<1>8. UnderWay(i)' <= UnderWay(i) /\ (IsAdd(c, i) => UnderWay(i) >= 1)
  BY <1>3, <1>4, <1>5, <1>6, <1>7, CountsTyped DEF UnderWay
<1>9. crashes = 0 => UnderWay(i)' <= Cardinality(Waiting(Row', i))
  <2>1. UnderWay(i) \in Nat /\ UnderWay(i)' \in Int
    BY <1>5, <1>6, <1>7, CountsTyped DEF UnderWay
  <2> QED  BY <1>1, <1>4, <1>8, <2>1, CountsTyped DEF Traced
<1>10. crashes' = 0 /\ i \in lock' => ~Absent(Row', i)
  BY <1>1, <1>3, <1>4, <1>8, UnderWayPresent DEF Traced
<1>11. i \in lock' /\ Gone(reports', i) => Live(reports', i)
  <2>1. /\ Gone(reports', i) <=> Gone(reports, i) \/ Deleted(r, i)
        /\ Live(reports', i) <=> Added(r, i) \/ (Live(reports, i) /\ ~Deleted(r, i))
    BY <1>2, <1>3, RepsAppend
  <2> QED  BY <1>3, <2>1 DEF Traced
<1> QED  BY <1>1, <1>9, <1>10, <1>11 DEF Traced

LEMMA LoseCommandTraced ==
  ASSUME TypeOK, LoseCommand, NEW i, Traced(i)
  PROVE  Traced(i)'
<1>1. cmds # <<>> /\ cmds' = Tail(cmds) /\ UNCHANGED <<keys, svc, reports, lock, crashes>>
  BY DEF LoseCommand
<1>2. cmds \in Seq(Commands) /\ cmds' \in Seq(Commands)
  BY <1>1 DEF TypeOK
<1>3. Row' = Row /\ (SvcAdds(i)' <=> SvcAdds(i))
  BY <1>1 DEF Row, SvcAdds
<1>4. Count(cmds', AddCmds(i)) <= Count(cmds, AddCmds(i)) /\ Count(cmds', AddCmds(i)) \in Nat
  <2>1. Count(cmds', AddCmds(i)) \in Nat
    BY <1>2, CountFinite
  <2>2. Count(cmds, AddCmds(i)) = Count(cmds', AddCmds(i)) + (IF Head(cmds) \in AddCmds(i) THEN 1 ELSE 0)
    BY <1>1, <1>2, CountTail
  <2> QED  BY <2>1, <2>2
<1>5. crashes = 0 => UnderWay(i)' <= Cardinality(Waiting(Row', i))
  BY <1>1, <1>3, <1>4, CountsTyped DEF Traced, UnderWay
<1> QED  BY <1>1, <1>3, <1>5 DEF Traced

(* A report leaves the queue, whatever is done with it.                    *)
LEMMA ReportGone ==
  ASSUME TypeOK, NEW i, Traced(i), reports # <<>>, reports' = Tail(reports),
         UNCHANGED <<cmds, lock, crashes>>, SvcAdds(i)' => SvcAdds(i),
         \/ Waiting(Row', i) = Waiting(Row, i)
         \/ Answers(Head(reports), i) /\ \E s : Waiting(Row', i) = Waiting(Row, i) \ {s},
         crashes = 0 /\ i \in lock /\ ~Deleted(Head(reports), i) => ~Absent(Row', i)
  PROVE  Traced(i)'
<1> DEFINE h == Head(reports)
<1>1. reports \in Seq(Reports) /\ reports' \in Seq(Reports) /\ h \in Reports
  BY DEF TypeOK
<1> HIDE DEF h
<1>2. /\ Gone(reports, i) <=> Gone(reports', i) \/ Deleted(h, i)
      /\ Live(reports, i) <=> Live(reports', i) \/ (Added(h, i) /\ ~Gone(reports', i))
  BY <1>1, RepsTail DEF h
<1>3. i \in lock' /\ Gone(reports', i) => Live(reports', i)
  BY <1>2 DEF Traced
<1>4. /\ Count(reports, AddReps(i)) = Count(reports', AddReps(i)) + (IF Answers(h, i) THEN 1 ELSE 0)
      /\ Count(reports', AddReps(i)) \in Nat
  BY <1>1, CountTail, CountFinite DEF AddReps, h
<1>5. /\ Cardinality(Waiting(Row', i)) \in Nat
      /\ Cardinality(Waiting(Row', i)) >= Cardinality(Waiting(Row, i)) - (IF Answers(h, i) THEN 1 ELSE 0)
  <2>1. CASE Waiting(Row', i) = Waiting(Row, i)
    BY <2>1, WaitingFinite
  <2>2. ASSUME Answers(h, i), NEW s, Waiting(Row', i) = Waiting(Row, i) \ {s}
        PROVE  /\ Cardinality(Waiting(Row', i)) \in Nat
               /\ Cardinality(Waiting(Row', i)) >= Cardinality(Waiting(Row, i)) - 1
    <3>1. IsFiniteSet(Waiting(Row, i)) /\ Cardinality(Waiting(Row, i)) \in Nat
      BY WaitingFinite
    <3>2. Cardinality(Waiting(Row, i) \ {s}) =
             IF s \in Waiting(Row, i) THEN Cardinality(Waiting(Row, i)) - 1
                                      ELSE Cardinality(Waiting(Row, i))
      BY <3>1, FS_RemoveElement
    <3>3. Cardinality(Waiting(Row', i)) \in Nat
      BY WaitingFinite
    <3> QED  BY <2>2, <3>1, <3>2, <3>3
  <2> QED  BY <2>1, <2>2 DEF h
<1>6. crashes = 0 => UnderWay(i)' <= Cardinality(Waiting(Row', i))
  BY <1>4, <1>5, CountsTyped DEF Traced, UnderWay
<1>7. ASSUME crashes' = 0, i \in lock' PROVE ~Absent(Row', i)
  <2>1. CASE ~Deleted(h, i)
    BY <1>7, <2>1 DEF h
  <2>2. CASE Deleted(h, i)
    <3>1. ~Added(h, i) /\ Gone(reports, i)
      BY <1>2, <2>2 DEF Deleted, Added
    <3>2. Live(reports', i)
      BY <1>2, <1>7, <3>1 DEF Traced
    <3>3. Count(reports', AddReps(i)) >= 1
      BY <1>1, <3>2, LiveIsCounted
    <3>4. UnderWay(i)' >= 1
      <4>1. Count(cmds', AddCmds(i)) \in Nat
        BY CountsTyped
      <4> QED  BY <1>4, <3>3, <4>1 DEF UnderWay
    <3>5. UnderWay(i)' \in Int
      BY <1>4, CountsTyped DEF UnderWay
    <3>6. Cardinality(Waiting(Row', i)) >= 1
      BY <1>5, <1>6, <1>7, <3>4, <3>5
    <3> QED  BY <3>6, WaitingPresent
  <2> QED  BY <2>1, <2>2
<1> QED  BY <1>3, <1>6, <1>7 DEF Traced

LEMMA HandleReportTraced ==
  ASSUME TypeOK, OnlyPasswords, HandleReport, NEW i \in Ids \ {0}, Traced(i)
  PROVE  Traced(i)'
<1> DEFINE r == Head(reports)
<1>1. /\ reports # <<>> /\ reports' = Tail(reports) /\ r \in Reports
      /\ UNCHANGED <<svc, cmds, lock, crashes>>
  BY DEF HandleReport, TypeOK
<1>2. CASE Row' = Row
  BY <1>1, <1>2, ReportGone DEF Traced, SvcAdds
<1>3. CASE KeyAdded(r)
  <2> DEFINE v == [state |-> "ADDED", id |-> r.id]
  <2>1. ReportArray(r) = P /\ r.add
    BY <1>1, <1>3, AcceptedIsPassword DEF KeyAdded, P
  <2>2. PICK s \in Slots : /\ Row[s] = [state |-> "ADDING", id |-> r.id]
                           /\ keys' = [keys EXCEPT ![P][s] = v]
    BY <1>3, <2>1 DEF KeyAdded, First, Having, Row
  <2>3. v \in Slot /\ v.state = "ADDED" /\ v.id = r.id /\ Row[s].id = r.id /\ Row[s].state = "ADDING"
    BY <1>1, <2>2 DEF Slot, Reports
  <2>4. ASSUME NEW t \in Slots PROVE Row'[t] = IF t = s THEN v ELSE Row[t]
    <3>1. Row' = [Row EXCEPT ![s] = v] /\ Row \in Rows
      BY <2>2, WriteRow, RowOfTable
    <3> QED  BY <2>3, <3>1, RowWrite
  <2> HIDE DEF r, v
  <2>5. SvcAdds(i)' => SvcAdds(i)
    BY <1>1, <2>3, <2>4 DEF SvcAdds, TypeOK, Services
  <2>6. ~Absent(Row, i) => ~Absent(Row', i)
    BY <2>3, <2>4 DEF Absent
  <2>7. Waiting(Row', i) = IF i = r.id THEN Waiting(Row, i) \ {s} ELSE Waiting(Row, i)
    BY <2>2, <2>3, <2>4 DEF Waiting
  <2>8. i = r.id => Answers(r, i)
    BY <2>1 DEF Answers
  <2> QED  BY <1>1, <2>5, <2>6, <2>7, <2>8, ReportGone DEF Traced, r
<1>4. CASE KeyDeleted(r)
  <2>1. ReportArray(r) = P /\ Deleted(r, r.id)
    BY <1>1, <1>4, AcceptedIsPassword DEF KeyDeleted, Accepts, Deleted, P
  <2>2. PICK s \in Slots : /\ Row[s] = [state |-> "ADDED", id |-> r.id]
                           /\ keys' = [keys EXCEPT ![P][s] = NoSlot]
    BY <1>4, <2>1 DEF KeyDeleted, First, Having, Row
  <2>3. /\ NoSlot \in Slot /\ NoSlot.state = "NONE" /\ NoSlot.id = 0
        /\ Row[s].id = r.id /\ Row[s].state = "ADDED"
    BY <2>2, IdsAreNumbers DEF NoSlot, Slot
  <2>4. ASSUME NEW t \in Slots PROVE Row'[t] = IF t = s THEN NoSlot ELSE Row[t]
    <3>1. Row' = [Row EXCEPT ![s] = NoSlot] /\ Row \in Rows
      BY <2>2, WriteRow, RowOfTable
    <3> QED  BY <2>3, <3>1, RowWrite
  <2> HIDE DEF r
  <2>5. SvcAdds(i)' => SvcAdds(i)
    BY <1>1, <2>3, <2>4 DEF SvcAdds, TypeOK, Services
  <2>6. i # r.id => (~Absent(Row, i) => ~Absent(Row', i))
    BY <2>3, <2>4 DEF Absent
  <2>7. Waiting(Row', i) = Waiting(Row, i)
    BY <2>2, <2>3, <2>4 DEF Waiting
  <2> QED  BY <1>1, <2>1, <2>5, <2>6, <2>7, ReportGone DEF Traced, r
<1>5. CASE KeysCleared(r)
  <2>1. TypeIdx(ReportType(0)) = 0
    <3>1. ReportType(0) = 0
      BY SMT DEF ReportType
    <3>2. TypeIdx(0) = 0
      BY SMT DEF TypeIdx
    <3> QED  BY <3>1, <3>2
  <2>2. Row' = Row
    BY <1>5, <2>1, Places DEF KeysCleared, Row, TypeOK, Table, Arrays
  <2> QED  BY <1>2, <2>2
<1>6. CASE ReportIgnored(r)
  BY <1>2, <1>6 DEF ReportIgnored, Row
<1> QED  BY <1>3, <1>4, <1>5, <1>6 DEF HandleReport

---------------------------------------------------------------------------
(* The theorem.                                                            *)

LEMMA InitTraced ==
  ASSUME Init, NEW i
  PROVE  Traced(i)
<1>1. svc.op = "clr" /\ lock = {} /\ cmds = <<>> /\ reports = <<>>
  BY DEF Init, IdleSvc
<1>2. Hits(cmds, AddCmds(i)) = {} /\ Hits(reports, AddReps(i)) = {}
  BY <1>1 DEF Hits
<1>3. UnderWay(i) = 0
  BY <1>1, <1>2, FS_EmptySet DEF UnderWay, SvcAdds, Count
<1> QED  BY <1>1, <1>3, WaitingFinite DEF Traced

LEMMA StepTraced ==
  ASSUME TypeOK, OnlyPasswords, [Next]_vars, NEW i \in Ids \ {0}, Traced(i)
  PROVE  Traced(i)'
<1>1. ASSUME NEW c \in Codes, AddKey(c) PROVE Traced(i)'
  BY <1>1, AddKeyTraced
<1>2. ASSUME NEW c \in Codes, DelKey(c) PROVE Traced(i)'
  BY <1>2, ServiceTraced DEF DelKey, SvcAdds
<1>3. CASE ClrKey
  BY <1>3, ServiceTraced DEF ClrKey, SvcAdds
<1>4. CASE Deref
  <2>1. /\ svc.pc = "deref" /\ svc'.pc = "send"
        /\ svc'.op = svc.op /\ svc'.id = Row[svc.slot].id
    BY <1>4 DEF Deref, TypeOK, Services, Row, P
  <2> QED  BY <1>4, <2>1, ServiceTraced DEF Deref, SvcAdds
<1>5. CASE Send
  BY <1>5, SendTraced
<1>6. CASE LockExecutes
  BY <1>6, LockExecutesTraced
<1>7. CASE LoseCommand
  BY <1>7, LoseCommandTraced
<1>8. CASE LoseReport
  <2>1. /\ reports # <<>> /\ reports' = Tail(reports)
        /\ UNCHANGED <<keys, svc, cmds, lock, crashes>>
    BY <1>8 DEF LoseReport
  <2>2. Row' = Row /\ (SvcAdds(i)' <=> SvcAdds(i))
    BY <2>1 DEF Row, SvcAdds
  <2> QED  BY <2>1, <2>2, ReportGone DEF Traced
<1>9. CASE HandleReport
  BY <1>9, HandleReportTraced
<1>10. CASE Restart
  <2>1. crashes' # 0 /\ UNCHANGED <<reports, lock>>
    BY <1>10 DEF Restart, TypeOK
  <2> QED  BY <2>1 DEF Traced
<1>11. CASE SameElse
  BY <1>11, ServiceTraced DEF SameElse, SvcAdds, Row
<1> QED
  BY <1>1, <1>2, <1>3, <1>4, <1>5, <1>6, <1>7, <1>8, <1>9, <1>10, <1>11
     DEF Next, vars, StatusSaved, Notify, SameElse

(* Until the gateway is restarted it has a slot for every password the     *)
(* lock stores, whatever is lost, repeated, refused or cleared and however *)
(* few files can be saved: what opens the door can be found and deleted.   *)
THEOREM LocksKeysAreKnown == Spec => []KeysOfLockKnown
<1>1. Init => KnownInv
  <2> SUFFICES ASSUME Init PROVE KnownInv  OBVIOUS
  <2>1. OnlyPasswords
    BY InitCloud DEF CloudInv
  <2> QED  BY <2>1, InitTyped, InitTraced DEF KnownInv
<1>2. KnownInv /\ [Next]_vars => KnownInv'
  <2> SUFFICES ASSUME KnownInv, [Next]_vars PROVE KnownInv'  OBVIOUS
  <2>1. TypeOK' /\ OnlyPasswords'
    BY StepTyped, OnlyPasswordsStep DEF KnownInv
  <2>2. \A i \in Ids \ {0} : Traced(i)'
    BY StepTraced DEF KnownInv
  <2> QED  BY <2>1, <2>2 DEF KnownInv
<1>3. KnownInv => KeysOfLockKnown
  <2> SUFFICES ASSUME KnownInv, crashes = 0, NEW id \in lock \ {0}
               PROVE  WithId(TypeIdx(Password), id) # {}
    BY DEF KeysOfLockKnown
  <2>1. ~Absent(Row, id)
    BY DEF KnownInv, Traced, TypeOK
  <2> QED  BY <2>1 DEF Absent, WithId, Used, Row, P
<1> QED  BY <1>1, <1>2, <1>3, PTL DEF Spec

=============================================================================
