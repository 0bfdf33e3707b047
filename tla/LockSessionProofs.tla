------------------------- MODULE LockSessionProofs -------------------------
(***************************************************************************)
(* Proofs about LockSession, for any battery levels, bounds and faults.    *)
(***************************************************************************)
EXTENDS LockSession, SequenceTheorems, TLAPS

(* The inductive invariant. *)

Newest == IF cmds = << >> THEN lockSeed ELSE cmds[Len(cmds)]

\* The newest seed is recorded, or about to be recorded by the one thread that
\* sent it.
OneSeed ==
    amiss = {} =>
        /\ ~ (Recording(main) /\ Recording(lib))
        /\ Recording(main) => main.seed = Newest
        /\ Recording(lib)  => lib.seed = Newest
        /\ ~ Recording(main) /\ ~ Recording(lib) => sd.seed = Newest

Saved == sd.dynamic => disk.dynamic /\ disk.seed = sd.seed

\* What is not recorded or not saved has an answer to come.
AnswerToCome ==
    amiss = {} /\ (Recording(main) \/ Recording(lib) \/ ~ Saved) => Outstanding

\* The record and the library agree about the login.
LoginKnown ==
    /\ sd.login = session
    /\ ~ disk.login /\ ~ disk.known
    /\ main.at \in {"idle", "post", "alarm"} /\ sd.known /\ ~ failed => sd.login = sd.online

\* An interval is missing only where a restart left it so, or where it is about
\* to be recorded.
IntervalKnown ==
    /\ sd.interval = 0 /\ sd.dynamic => "restarted" \in amiss /\ lib.at \notin {"send", "record"}
    /\ sd.interval = 0 /\ ~ sd.dynamic /\ sd.known => Recording(main)
    /\ ~ sd.known /\ Outstanding => "restarted" \in amiss
    /\ lib.at \in {"code", "send", "record"} => sd.known
    /\ lib.at = "code" => sd.dynamic
    /\ lib.at = "dead" => "restarted" \in amiss

---------------------------------------------------------------------------
(* Facts about the queues. *)

LEMMA TailFacts ==
    ASSUME NEW S, NEW s \in Seq(S), s # << >>
    PROVE  /\ Len(s) \in Nat \ {0} /\ Head(s) = s[1] /\ Head(s) \in S
           /\ Tail(s) \in Seq(S) /\ Len(Tail(s)) = Len(s) - 1
           /\ \A i \in 1..Len(Tail(s)) : Tail(s)[i] = s[i + 1]
           /\ Tail(s) = << >> <=> Len(s) = 1
<1>1. Len(s) \in Nat \ {0} /\ Head(s) = s[1] /\ Head(s) \in S
  OBVIOUS
<1>2. Tail(s) \in Seq(S) /\ Len(Tail(s)) = Len(s) - 1
  OBVIOUS
<1>3. \A i \in 1..Len(Tail(s)) : Tail(s)[i] = s[i + 1]
  OBVIOUS
<1>4. \A t \in Seq(S) : t = << >> <=> Len(t) = 0
  <2>1. Len(<< >>) = 0
    OBVIOUS
  <2>2. \A t \in Seq(S) : t # << >> => Len(t) \in Nat \ {0}
    BY EmptySeq
  <2> QED
    BY <2>1, <2>2
<1>5. Tail(s) = << >> <=> Len(s) = 1
  <2>1. Tail(s) = << >> <=> Len(Tail(s)) = 0
    BY <1>2, <1>4
  <2>2. Len(Tail(s)) = 0 <=> Len(s) = 1
    BY <1>1, <1>2
  <2> QED
    BY <2>1, <2>2
<1> QED
  BY <1>1, <1>2, <1>3, <1>5

LEMMA AppendFacts ==
    ASSUME NEW S, NEW s \in Seq(S), NEW e \in S
    PROVE  /\ Append(s, e) \in Seq(S) /\ Len(Append(s, e)) = Len(s) + 1
           /\ Append(s, e) # << >> /\ Append(s, e)[Len(s) + 1] = e
           /\ \A i \in 1..Len(s) : Append(s, e)[i] = s[i]
  OBVIOUS

\* The answers that are under way, as the queue changes.
LEMMA AnswersKept ==
    ASSUME NEW q \in Seq(Report), q # << >>, Head(q) # Answer
    PROVE  (\E i \in 1..Len(q) : q[i] = Answer)
           <=> (\E i \in 1..Len(Tail(q)) : Tail(q)[i] = Answer)
<1>1. ASSUME NEW i \in 1..Len(q), q[i] = Answer
      PROVE  \E j \in 1..Len(Tail(q)) : Tail(q)[j] = Answer
  <2>1. i - 1 \in 1..Len(Tail(q)) /\ Tail(q)[i - 1] = q[(i - 1) + 1]
    BY <1>1, TailFacts
  <2> QED
    BY <1>1, <2>1
<1>2. ASSUME NEW i \in 1..Len(Tail(q)), Tail(q)[i] = Answer
      PROVE  \E j \in 1..Len(q) : q[j] = Answer
  <2>1. i + 1 \in 1..Len(q) /\ q[i + 1] = Answer
    BY <1>2, TailFacts
  <2> QED
    BY <2>1
<1> QED
  BY <1>1, <1>2

LEMMA AnswersAppended ==
    ASSUME NEW q \in Seq(Report), NEW r \in Report
    PROVE  (\E i \in 1..Len(Append(q, r)) : Append(q, r)[i] = Answer)
           <=> (r = Answer \/ \E i \in 1..Len(q) : q[i] = Answer)
<1>1. \A i \in 1..Len(Append(q, r)) :
          \/ i \in 1..Len(q) /\ Append(q, r)[i] = q[i]
          \/ i = Len(q) + 1 /\ Append(q, r)[i] = r
  BY AppendFacts
<1>2. Len(q) + 1 \in 1..Len(Append(q, r)) /\ Append(q, r)[Len(q) + 1] = r
  BY AppendFacts
<1>3. \A i \in 1..Len(q) : i \in 1..Len(Append(q, r)) /\ Append(q, r)[i] = q[i]
  BY AppendFacts
<1> QED
  BY <1>1, <1>2, <1>3

---------------------------------------------------------------------------
(* Types. *)

LEMMA ReportKinds ==
    ASSUME NEW r \in Report
    PROVE  /\ r.kind \in {"list", "status", "alarm", "dynamic"}
           /\ r.battery \in Nat /\ r.online \in BOOLEAN
           /\ r.kind = "dynamic" <=> r = Answer
<1>1. CASE r \in Statuses
  <2>1. Levels \subseteq Nat
    BY BatteriesAssumption DEF Levels
  <2>2. r.kind \in {"list", "status"} /\ r.battery \in Levels /\ r.online \in BOOLEAN
    BY <1>1 DEF Statuses
  <2>3. r.kind # "dynamic" /\ r # Answer
    BY <2>2 DEF Answer
  <2>4. r.battery \in Nat
    BY <2>1, <2>2
  <2>5. r.kind = "dynamic" <=> r = Answer
    BY <2>3
  <2>6. r.kind \in {"list", "status", "alarm", "dynamic"}
    BY <2>2
  <2> QED
    BY <2>2, <2>4, <2>5, <2>6, Zenon
<1>2. CASE r \in Others
  <2>1. r.kind \in {"alarm", "dynamic"} /\ r.battery = 0 /\ r.online = FALSE
    BY <1>2 DEF Others
  <2>2. r = [kind |-> r.kind, battery |-> r.battery, online |-> r.online]
    BY <1>2 DEF Others
  <2>3. r.kind = "dynamic" <=> r = Answer
    BY <2>1, <2>2 DEF Answer
  <2>4. r.kind \in {"list", "status", "alarm", "dynamic"}
    BY <2>1
  <2>5. r.battery \in Nat
    BY <2>1
  <2>6. r.online \in BOOLEAN
    BY <2>1, Zenon
  <2> QED
    BY <2>3, <2>4, <2>5, <2>6, Zenon
<1> QED
  BY <1>1, <1>2 DEF Report

LEMMA AnswerIsReport == Answer \in Report
  BY DEF Report, Others, Answer

LEMMA SaveType ==
    ASSUME NEW s \in Records PROVE Loaded(s) \in Records
  BY DEF Loaded, Records

LEMMA ConfirmType ==
    ASSUME TypeOK PROVE Confirm \in Records
  BY DEF TypeOK, Confirm, Records

LEMMA WaitAckType ==
    ASSUME TypeOK, NEW seed \in Seeds PROVE WaitAck(seed) \in Records
<1>1. sd \in Records
  BY DEF TypeOK
<1>2. Interval \in Intervals
  BY DEF Intervals
<1>3. ASSUME NEW s \in Records, NEW i \in Intervals
      PROVE  [s EXCEPT !.seed = seed, !.interval = i] \in Records
  BY DEF Records
<1> QED
  BY <1>1, <1>2, <1>3, Zenon DEF WaitAck

LEMMA ZeroSeed == MaxTime \in Nat /\ 0 \in Seeds
<1>1. MaxTime \in Nat
  BY BoundsAssumption
<1> QED
  BY <1>1 DEF Seeds

LEMMA AlarmPlace == [IdleMain EXCEPT !.at = "alarm"] \in Places
<1>1. IdleMain \in [at : {"idle"}, seed : Seeds, low : BOOLEAN]
  BY ZeroSeed DEF IdleMain
<1>2. \A p \in [at : {"idle"}, seed : Seeds, low : BOOLEAN] : [p EXCEPT !.at = "alarm"] \in Places
  BY DEF Places
<1> QED
  BY <1>1, <1>2

LEMMA MainFields == TypeOK => main.seed \in Seeds /\ main.low \in BOOLEAN
<1> SUFFICES ASSUME TypeOK PROVE main.seed \in Seeds /\ main.low \in BOOLEAN
  OBVIOUS
<1>1. CASE main \in Places
  BY <1>1 DEF Places
<1>2. CASE main = IdleMain
  BY <1>2, ZeroSeed DEF IdleMain
<1> QED
  BY <1>1, <1>2 DEF TypeOK

LEMMA GoPlace ==
    ASSUME NEW at \in {"record", "session", "post", "alarm"}, NEW seed \in Seeds, NEW low \in BOOLEAN
    PROVE  [at |-> at, seed |-> seed, low |-> low] \in Places
  BY DEF Places

LEMMA TakeFacts ==
    ASSUME TypeOK, NEW kind, Take(kind)
    PROVE  /\ Head(reports) \in Report /\ Head(reports).kind = kind
           /\ reports' \in Seq(Report) /\ Len(reports') = Len(reports) - 1
           /\ Len(reports) \in Nat \ {0} /\ Len(cmds) \in Nat
  BY TailFacts DEF TypeOK, Take

THEOREM TypesInit == Init => TypeOK
<1> SUFFICES ASSUME Init PROVE TypeOK
  OBVIOUS
<1>1. Unused \in Records
  BY ZeroSeed DEF Unused, Records, Intervals
<1>2. lib \in [at : {"idle", "code", "send", "record", "dead"}, seed : Seeds]
  BY ZeroSeed DEF Init, IdleLib
<1>3. cmds \in Seq(Seeds) /\ reports \in Seq(Report) /\ Len(cmds) + Len(reports) = 0
  BY DEF Init
<1>4. MaxTime \in Nat \ {0} /\ MaxMessages \in Nat \ {0}
  BY BoundsAssumption
<1>5. now \in Seeds /\ lockSeed \in Seeds
  BY <1>4, ZeroSeed DEF Init, Seeds
<1>6. Len(cmds) + Len(reports) <= MaxMessages
  BY <1>3, <1>4
<1> QED
  BY <1>1, <1>2, <1>3, <1>5, <1>6 DEF Init, TypeOK

THEOREM TypesStep == TypeOK /\ [Next]_vars => TypeOK'
<1> SUFFICES ASSUME TypeOK, [Next]_vars PROVE TypeOK'
  OBVIOUS
<1> USE BoundsAssumption
<1>m. now \in Seeds /\ now \in Nat
  BY ZeroSeed DEF TypeOK, Seeds
<1>1. CASE HandleList
  <2>1. Head(reports) \in Report /\ reports' \in Seq(Report) /\ Len(reports') = Len(reports) - 1
        /\ Len(reports) \in Nat \ {0}
    BY <1>1, TakeFacts DEF HandleList
  <2>2. sd' \in Records
    <3>1. sd' = [sd EXCEPT !.known = TRUE, !.online = Head(reports).battery # 0]
      BY <1>1 DEF HandleList
    <3> QED
      BY <3>1 DEF TypeOK, Records
  <2>3. disk' \in Records
    BY <1>1, <2>2, SaveType DEF HandleList, Save
  <2>4. said' \in BOOLEAN
    BY <1>1, <2>1, ReportKinds DEF HandleList
  <2>5. cmds' \in Seq(Seeds) /\ Len(cmds') <= Len(cmds) + 1
    <3>1. Append(cmds, now) \in Seq(Seeds) /\ Len(Append(cmds, now)) = Len(cmds) + 1
      BY <1>m, AppendFacts DEF TypeOK
    <3>2. cmds \in Seq(Seeds) /\ Len(cmds) \in Nat
      BY DEF TypeOK
    <3>3. cmds' = Append(cmds, now) \/ cmds' = cmds
      BY <1>1, Zenon DEF HandleList, Send
    <3> QED
      BY <3>1, <3>2, <3>3
  <2>6. main' \in Places \cup {IdleMain}
    BY <1>1, <1>m, MainFields, GoPlace DEF HandleList, Go
  <2>7. amiss' \subseteq {"lost", "refused", "crossed", "restarted"}
    BY <1>1 DEF HandleList, Send, TypeOK
  <2>8. Len(cmds') + Len(reports') <= MaxMessages
    BY <2>1, <2>5 DEF TypeOK
  <2> QED
    BY <1>1, <2>1, <2>2, <2>3, <2>4, <2>5, <2>6, <2>7, <2>8 DEF HandleList, TypeOK
<1>2. CASE MainRecords
  <2>1. main.seed \in Seeds
    BY MainFields
  <2>2. sd' \in Records
    BY <1>2, <2>1, WaitAckType DEF MainRecords
  <2>3. main' \in Places
    BY <1>2, ZeroSeed, GoPlace DEF MainRecords
  <2> QED
    BY <1>2, <2>2, <2>3 DEF MainRecords, TypeOK, radio, history
<1>3. CASE HandleStatus
  <2>1. Head(reports) \in Report /\ reports' \in Seq(Report) /\ Len(reports') = Len(reports) - 1
        /\ Len(reports) \in Nat \ {0}
    BY <1>3, TakeFacts DEF HandleStatus
  <2>2. sd' = sd \/ sd' = [sd EXCEPT !.online = Head(reports).battery # 0]
    BY <1>3 DEF HandleStatus
  <2>3. sd' \in Records
    BY <2>2 DEF TypeOK, Records
  <2>4. disk' \in Records
    BY <1>3, <2>3, SaveType DEF HandleStatus, Save, TypeOK
  <2>5. said' \in BOOLEAN
    BY <1>3, <2>1, ReportKinds DEF HandleStatus, TypeOK
  <2>6. main' \in Places \cup {IdleMain}
    <3>1. \A low \in BOOLEAN : [at |-> "session", seed |-> main.seed, low |-> low] \in Places
      BY MainFields, GoPlace
    <3>2. (Head(reports).battery < LowLevel /\ Head(reports).battery # 0) \in BOOLEAN
      OBVIOUS
    <3> QED
      BY <1>3, <3>1, <3>2, AlarmPlace DEF HandleStatus, Go
  <2>7. Len(cmds) \in Nat /\ cmds' = cmds
    BY <1>3 DEF HandleStatus, TypeOK
  <2>8. Len(cmds') + Len(reports') <= MaxMessages
    BY <2>1, <2>7 DEF TypeOK
  <2> QED
    BY <1>3, <2>1, <2>3, <2>4, <2>5, <2>6, <2>8 DEF HandleStatus, TypeOK
<1>4. CASE Session
  <2>1. sd' \in Records /\ session' \in BOOLEAN /\ failed' \in BOOLEAN
    BY <1>4 DEF Session, CallReturns, TypeOK, Records
  <2>2. main' \in Places \cup {IdleMain}
    <3>2. [at |-> "post", seed |-> main.seed, low |-> main.low] \in Places
      BY MainFields, GoPlace
    <3> QED
      BY <1>4, <3>2, AlarmPlace DEF Session, After, Go
  <2> QED
    BY <1>4, <2>1, <2>2 DEF Session, TypeOK, radio
<1>5. CASE Posted \/ Alarmed
  <2>1. main' \in Places \cup {IdleMain}
    BY <1>5, AlarmPlace DEF Posted, Alarmed
  <2> QED
    BY <1>5, <2>1 DEF Posted, Alarmed, TypeOK, radio, history
<1>6. CASE HandleAlarm
  <2>1. reports' \in Seq(Report) /\ Len(reports') = Len(reports) - 1 /\ Len(reports) \in Nat
        /\ Len(cmds) \in Nat
    BY <1>6, TakeFacts DEF HandleAlarm
  <2>2. main' \in Places \cup {IdleMain}
    BY <1>6, AlarmPlace DEF HandleAlarm
  <2> QED
    BY <1>6, <2>1, <2>2 DEF HandleAlarm, TypeOK, history
<1>7. CASE HandleAnswer
  <2>1. reports' \in Seq(Report) /\ Len(reports') = Len(reports) - 1 /\ Len(reports) \in Nat
        /\ Len(cmds) \in Nat
    BY <1>7, TakeFacts DEF HandleAnswer
  <2>2. sd' \in Records /\ disk' \in Records
    BY <1>7, ConfirmType, SaveType DEF HandleAnswer, Save
  <2>3. amiss' \subseteq {"lost", "refused", "crossed", "restarted"}
    BY <1>7 DEF HandleAnswer, TypeOK
  <2> QED
    BY <1>7, <2>1, <2>2, <2>3 DEF HandleAnswer, TypeOK
<1>8. CASE GetDynamic \/ LibCode
  <2>1. lib' \in [at : {"idle", "code", "send", "record", "dead"}, seed : Seeds]
    BY <1>8, <1>m, ZeroSeed DEF GetDynamic, LibCode, TypeOK, IdleLib, Records, Seeds
  <2> QED
    BY <1>8, <2>1 DEF GetDynamic, LibCode, TypeOK, radio, history
<1>9. CASE LibSends
  <2>1. cmds' \in Seq(Seeds) /\ Len(cmds') = Len(cmds) + 1
    BY <1>9, AppendFacts DEF LibSends, Send, TypeOK
  <2>2. lib' \in [at : {"idle", "code", "send", "record", "dead"}, seed : Seeds]
    BY <1>9 DEF LibSends, TypeOK
  <2>3. amiss' \subseteq {"lost", "refused", "crossed", "restarted"}
    BY <1>9 DEF LibSends, Send
  <2>4. Len(cmds') + Len(reports') <= MaxMessages
    BY <1>9, <2>1 DEF LibSends, Room, TypeOK
  <2> QED
    BY <1>9, <2>1, <2>2, <2>3, <2>4 DEF LibSends, TypeOK
<1>10. CASE LibRecords
  <2>1. sd' \in Records
    BY <1>10, WaitAckType DEF LibRecords, TypeOK
  <2>2. lib' \in [at : {"idle", "code", "send", "record", "dead"}, seed : Seeds]
    BY <1>10, ZeroSeed DEF LibRecords, IdleLib
  <2> QED
    BY <1>10, <2>1, <2>2 DEF LibRecords, TypeOK, radio, history
<1>11. CASE LockAnswers
  <2>1. Head(cmds) \in Seeds /\ cmds' \in Seq(Seeds) /\ Len(cmds') = Len(cmds) - 1 /\ Len(cmds) \in Nat
    BY <1>11, TailFacts DEF LockAnswers, TypeOK
  <2>2. reports' \in Seq(Report) /\ Len(reports') = Len(reports) + 1 /\ Len(reports) \in Nat
    BY <1>11, AnswerIsReport, AppendFacts DEF LockAnswers, TypeOK
  <2>3. Len(cmds') + Len(reports') <= MaxMessages
    BY <2>1, <2>2 DEF TypeOK
  <2>4. lockSeed' \in Seeds /\ amiss' \subseteq {"lost", "refused", "crossed", "restarted"}
    BY <1>11, <2>1 DEF LockAnswers, TypeOK
  <2> QED
    BY <1>11, <2>1, <2>2, <2>3, <2>4 DEF LockAnswers, TypeOK
<1>12. CASE LockReports
  <2>1. reports' \in Seq(Report) /\ Len(reports') = Len(reports) + 1 /\ Len(reports) \in Nat
    BY <1>12, AppendFacts DEF LockReports, TypeOK
  <2>2. Len(cmds') + Len(reports') <= MaxMessages
    BY <1>12, <2>1 DEF LockReports, Room, TypeOK
  <2> QED
    BY <1>12, <2>1, <2>2 DEF LockReports, TypeOK, history
<1>13. CASE LoseCommand
  <2>1. cmds' \in Seq(Seeds) /\ Len(cmds') = Len(cmds) - 1 /\ Len(cmds) \in Nat /\ Len(reports) \in Nat
    BY <1>13, TailFacts DEF LoseCommand, TypeOK
  <2>2. amiss' \subseteq {"lost", "refused", "crossed", "restarted"}
    BY <1>13 DEF LoseCommand, TypeOK
  <2> QED
    BY <1>13, <2>1, <2>2 DEF LoseCommand, TypeOK
<1>14. CASE LoseReport
  <2>1. reports' \in Seq(Report) /\ Len(reports') = Len(reports) - 1 /\ Len(cmds) \in Nat /\ Len(reports) \in Nat
    BY <1>14, TailFacts DEF LoseReport, TypeOK
  <2>2. amiss' \subseteq {"lost", "refused", "crossed", "restarted"}
    BY <1>14 DEF LoseReport, TypeOK
  <2> QED
    BY <1>14, <2>1, <2>2 DEF LoseReport, TypeOK
<1>15. CASE Restart
  <2>1. main' \in Places \cup {IdleMain} /\ lib' \in [at : {"idle", "code", "send", "record", "dead"}, seed : Seeds]
    BY <1>15, ZeroSeed DEF Restart, IdleLib
  <2>2. reports' \in Seq(Report) /\ Len(reports') = 0 /\ Len(reports) \in Nat /\ Len(cmds) \in Nat
    BY <1>15 DEF Restart, TypeOK
  <2>3. Len(cmds') + Len(reports') <= MaxMessages
    BY <1>15, <2>2 DEF Restart, TypeOK
  <2>4. amiss' \subseteq {"lost", "refused", "crossed", "restarted"}
    BY <1>15 DEF Restart, TypeOK
  <2> QED
    BY <1>15, <2>1, <2>2, <2>3, <2>4 DEF Restart, TypeOK
<1>16. CASE Tick
  <2>1. now' \in Seeds
    BY <1>16, <1>m, ZeroSeed DEF Tick, Seeds
  <2> QED
    BY <1>16, <2>1 DEF Tick, TypeOK, radio, history
<1>17. CASE UNCHANGED vars
  BY <1>17 DEF vars, TypeOK
<1> QED
  BY <1>1, <1>2, <1>3, <1>4, <1>5, <1>6, <1>7, <1>8, <1>9, <1>10, <1>11, <1>12, <1>13, <1>14,
     <1>15, <1>16, <1>17 DEF Next, MainStep, LibStep

\* Every variable keeps its kind, and the messages their bound.
THEOREM TypeCorrect == Spec => []TypeOK
  BY TypesInit, TypesStep, PTL DEF Spec

---------------------------------------------------------------------------
(* What the handlers do to the fields of the record. *)

LEMMA LoadedFields ==
    ASSUME NEW s \in Records
    PROVE  /\ Loaded(s).known = FALSE /\ Loaded(s).login = FALSE
           /\ Loaded(s).dynamic = s.dynamic /\ Loaded(s).seed = s.seed
  BY DEF Loaded, Records

LEMMA WaitAckFields ==
    ASSUME TypeOK, NEW seed \in Seeds
    PROVE  /\ WaitAck(seed).known = sd.known /\ WaitAck(seed).online = sd.online
           /\ WaitAck(seed).login = sd.login /\ WaitAck(seed).dynamic = sd.dynamic
           /\ WaitAck(seed).seed = seed /\ WaitAck(seed).interval = Interval
<1>1. sd \in Records
  BY DEF TypeOK
<1> QED
  BY <1>1 DEF WaitAck, Records

LEMMA ConfirmFields ==
    ASSUME TypeOK
    PROVE  /\ Confirm.known = sd.known /\ Confirm.online = sd.online /\ Confirm.login = sd.login
           /\ Confirm.dynamic = TRUE /\ Confirm.seed = sd.seed /\ Confirm.interval = sd.interval
<1>1. sd \in Records
  BY DEF TypeOK
<1> QED
  BY <1>1 DEF Confirm, Records

LEMMA StatusFields ==
    ASSUME TypeOK, NEW b \in BOOLEAN
    PROVE  LET s == [sd EXCEPT !.online = b] IN
           /\ s \in Records
           /\ s.known = sd.known /\ s.online = b /\ s.login = sd.login
           /\ s.dynamic = sd.dynamic /\ s.seed = sd.seed /\ s.interval = sd.interval
<1>1. sd \in Records
  BY DEF TypeOK
<1> QED
  BY <1>1 DEF Records

LEMMA ListFields ==
    ASSUME TypeOK, NEW b \in BOOLEAN
    PROVE  LET s == [sd EXCEPT !.known = TRUE, !.online = b] IN
           /\ s \in Records
           /\ s.known = TRUE /\ s.online = b /\ s.login = sd.login
           /\ s.dynamic = sd.dynamic /\ s.seed = sd.seed /\ s.interval = sd.interval
<1>1. sd \in Records
  BY DEF TypeOK
<1> QED
  BY <1>1 DEF Records

\* The handling of a report: what becomes of the record and of the file.
LEMMA HandledFields ==
    ASSUME TypeOK, HandleList \/ HandleStatus
    PROVE  /\ sd'.login = sd.login /\ sd'.dynamic = sd.dynamic
           /\ sd'.seed = sd.seed /\ sd'.interval = sd.interval
           /\ HandleList => sd'.known = TRUE
           /\ HandleStatus => sd'.known = sd.known
           /\ HandleStatus /\ ~ sd.known => sd' = sd /\ disk' = disk
           /\ HandleList \/ sd.known => disk' = Loaded(sd')
           /\ sd' \in Records
<1> DEFINE b == Head(reports).battery # 0
<1>1. b \in BOOLEAN
  OBVIOUS
<1>2. CASE HandleList
  <2>1. sd' = [sd EXCEPT !.known = TRUE, !.online = b] /\ disk' = Loaded(sd')
    BY <1>2 DEF HandleList, Save
  <2>2. ~ HandleStatus
    BY <1>2 DEF HandleList, HandleStatus, Take
  <2> QED
    BY <1>1, <1>2, <2>1, <2>2, ListFields
<1>3. CASE HandleStatus /\ sd.known
  <2>1. sd' = [sd EXCEPT !.online = b] /\ disk' = Loaded(sd')
    BY <1>3 DEF HandleStatus, Save
  <2>2. ~ HandleList
    BY <1>3 DEF HandleList, HandleStatus, Take
  <2> QED
    BY <1>1, <1>3, <2>1, <2>2, StatusFields
<1>4. CASE HandleStatus /\ ~ sd.known
  <2>1. sd' = sd /\ disk' = disk /\ sd \in Records
    BY <1>4 DEF HandleStatus, TypeOK
  <2>2. ~ HandleList
    BY <1>4 DEF HandleList, HandleStatus, Take
  <2> QED
    BY <1>4, <2>1, <2>2
<1> QED
  BY <1>2, <1>3, <1>4

---------------------------------------------------------------------------
(* The login. *)

LEMMA LoginInit == Init => LoginKnown
<1> SUFFICES ASSUME Init PROVE LoginKnown
  OBVIOUS
<1>1. /\ sd.login = FALSE /\ sd.known = FALSE /\ session = FALSE
      /\ disk.login = FALSE /\ disk.known = FALSE
  BY DEF Init, Unused
<1> QED
  BY <1>1 DEF LoginKnown

LEMMA LoginStep == TypeOK /\ LoginKnown /\ [Next]_vars => LoginKnown'
<1> SUFFICES ASSUME TypeOK, LoginKnown, [Next]_vars PROVE LoginKnown'
  OBVIOUS
<1>1. CASE HandleList
  <2>1. sd'.login = sd.login /\ disk'.login = FALSE /\ disk'.known = FALSE
    BY <1>1, HandledFields, LoadedFields
  <2>2. session' = session /\ main'.at \in {"record", "session"}
    BY <1>1 DEF HandleList, Go
  <2> QED
    BY <2>1, <2>2 DEF LoginKnown
<1>2. CASE MainRecords
  <2>1. sd'.login = sd.login /\ main'.at = "session" /\ session' = session /\ disk' = disk
    BY <1>2, MainFields, WaitAckFields DEF MainRecords
  <2> QED
    BY <2>1 DEF LoginKnown
<1>3. CASE HandleStatus
  <2>1. CASE sd.known
    <3>1. sd'.login = sd.login /\ disk'.login = FALSE /\ disk'.known = FALSE
      BY <1>3, <2>1, HandledFields, LoadedFields
    <3>2. session' = session /\ main'.at = "session"
      BY <1>3, <2>1 DEF HandleStatus, Go
    <3> QED
      BY <3>1, <3>2 DEF LoginKnown
  <2>2. CASE ~ sd.known
    <3>1. sd' = sd /\ disk' = disk /\ session' = session /\ ~ sd'.known
      BY <1>3, <2>2 DEF HandleStatus
    <3> QED
      BY <3>1 DEF LoginKnown
  <2> QED
    BY <2>1, <2>2
<1>4. CASE Session
  <2>1. sd \in Records /\ session \in BOOLEAN /\ disk' = disk
    BY <1>4 DEF Session, TypeOK
  <2>2. CASE sd.online # sd.login /\ \E ok \in BOOLEAN : CallReturns(ok)
    <3>1. PICK ok \in BOOLEAN : CallReturns(ok)
      BY <2>2
    <3>2. sd'.online = sd.online /\ sd'.login = (IF ok THEN sd.online ELSE ~ sd.online)
      BY <2>1, <3>1 DEF CallReturns, Records
    <3>3. session' = (IF ok THEN sd.online ELSE session) /\ failed' = ~ ok
      BY <3>1 DEF CallReturns
    <3>4. sd.online \in BOOLEAN /\ sd.login \in BOOLEAN /\ sd.login = session
      BY <2>1 DEF Records, LoginKnown
    <3> QED
      BY <2>1, <2>2, <3>2, <3>3, <3>4 DEF LoginKnown
  <2>3. CASE sd.online = sd.login /\ failed' = FALSE /\ UNCHANGED <<sd, session>>
    BY <2>1, <2>3 DEF LoginKnown
  <2> QED
    BY <1>4, <2>2, <2>3 DEF Session
<1>5. CASE Posted \/ Alarmed \/ HandleAlarm
  <2>1. main.at \in {"idle", "post", "alarm"}
    BY <1>5 DEF Posted, Alarmed, HandleAlarm, Take, MutexFree, IdleMain
  <2>2. UNCHANGED <<sd, disk, session, failed>>
    BY <1>5 DEF Posted, Alarmed, HandleAlarm, history
  <2> QED
    BY <2>1, <2>2 DEF LoginKnown
<1>6. CASE HandleAnswer
  <2>1. main.at = "idle" /\ main' = main /\ session' = session /\ failed' = failed
    BY <1>6 DEF HandleAnswer, Take, MutexFree, IdleMain
  <2>2. sd'.login = sd.login /\ sd'.known = sd.known /\ sd'.online = sd.online
    BY <1>6, ConfirmFields DEF HandleAnswer
  <2>3. disk'.login = FALSE /\ disk'.known = FALSE
    BY <1>6, ConfirmType, LoadedFields DEF HandleAnswer, Save
  <2> QED
    BY <2>1, <2>2, <2>3 DEF LoginKnown
<1>7. CASE LibRecords
  <2>1. lib.seed \in Seeds
    BY DEF TypeOK
  <2>2. sd'.login = sd.login /\ sd'.known = sd.known /\ sd'.online = sd.online
    BY <1>7, <2>1, WaitAckFields DEF LibRecords
  <2>3. UNCHANGED <<disk, main, session, failed>>
    BY <1>7 DEF LibRecords, history
  <2> QED
    <3>1. sd'.login = session'
      BY <2>2, <2>3, Zenon DEF LoginKnown
    <3>2. ~ disk'.login /\ ~ disk'.known
      BY <2>3, Zenon DEF LoginKnown
    <3>3. main'.at \in {"idle", "post", "alarm"} /\ sd'.known /\ ~ failed' => sd'.login = sd'.online
      <4>1. main'.at = main.at /\ failed' = failed
        BY <2>3
      <4> QED
        BY <2>2, <4>1, Zenon DEF LoginKnown
    <3> QED
      BY <3>1, <3>2, <3>3 DEF LoginKnown
<1>8. CASE Restart
  <2>1. sd' = disk /\ disk' = disk /\ session' = FALSE
    BY <1>8 DEF Restart
  <2>2. disk.login = FALSE /\ disk.known = FALSE
    BY DEF LoginKnown, TypeOK, Records
  <2>3. sd'.login = FALSE /\ sd'.known = FALSE /\ disk'.login = FALSE /\ disk'.known = FALSE
    BY <2>1, <2>2
  <2> QED
    BY <2>1, <2>3 DEF LoginKnown
<1>9. CASE GetDynamic \/ LibCode \/ LibSends \/ LockAnswers \/ LockReports \/ LoseCommand
           \/ LoseReport \/ Tick \/ UNCHANGED vars
  <2>1. UNCHANGED <<sd, disk, main, session, failed>>
    BY <1>9 DEF GetDynamic, LibCode, LibSends, LockAnswers, LockReports, LoseCommand, LoseReport,
       Tick, vars, history
  <2> QED
    BY <2>1 DEF LoginKnown
<1> QED
  BY <1>1, <1>2, <1>3, <1>4, <1>5, <1>6, <1>7, <1>8, <1>9 DEF Next, MainStep, LibStep

\* After a report the library has the lock logged in exactly if it is online,
\* restarts included, unless the last call failed.
THEOREM SessionsFollow == Spec => []SessionFollows
<1>1. LoginKnown => SessionFollows
  BY DEF LoginKnown, SessionFollows, MutexFree, IdleMain
<1> QED
  BY <1>1, TypeCorrect, LoginInit, LoginStep, PTL DEF Spec

---------------------------------------------------------------------------
(* The interval. *)

\* What is outstanding, as the queues change.
LEMMA TakeOutstanding ==
    ASSUME TypeOK, NEW kind \in {"list", "status", "alarm"}, Take(kind), cmds' = cmds
    PROVE  Outstanding' <=> Outstanding
<1>1. Head(reports) \in Report /\ Head(reports).kind = kind /\ reports' = Tail(reports)
  BY TakeFacts DEF Take
<1>2. Head(reports) # Answer
  BY <1>1, ReportKinds
<1>3. reports \in Seq(Report) /\ reports # << >>
  BY DEF TypeOK, Take
<1>4. (\E i \in 1..Len(reports) : reports[i] = Answer)
      <=> (\E i \in 1..Len(reports') : reports'[i] = Answer)
  BY <1>1, <1>2, <1>3, AnswersKept
<1> QED
  BY <1>4 DEF Outstanding

LEMMA SentOutstanding ==
    ASSUME TypeOK, NEW seed \in Seeds, NEW other, Send(seed, other)
    PROVE  Outstanding'
<1>1. cmds' = Append(cmds, seed) /\ cmds \in Seq(Seeds)
  BY DEF Send, TypeOK
<1>2. cmds' # << >>
  BY <1>1, AppendFacts
<1> QED
  BY <1>2 DEF Outstanding

LEMMA IntervalInit == Init => IntervalKnown
<1> SUFFICES ASSUME Init PROVE IntervalKnown
  OBVIOUS
<1>1. sd.dynamic = FALSE /\ sd.known = FALSE /\ lib.at = "idle"
  BY DEF Init, Unused, IdleLib
<1>2. ~ Outstanding
  BY DEF Init, Outstanding
<1> QED
  BY <1>1, <1>2 DEF IntervalKnown

LEMMA IntervalStep == TypeOK /\ LoginKnown /\ IntervalKnown /\ [Next]_vars => IntervalKnown'
<1> SUFFICES ASSUME TypeOK, LoginKnown, IntervalKnown, [Next]_vars PROVE IntervalKnown'
  OBVIOUS
<1>0. Interval # 0
  BY DEF Interval
<1>1. CASE HandleList
  <2>1. sd'.dynamic = sd.dynamic /\ sd'.interval = sd.interval /\ sd'.known = TRUE /\ lib' = lib
        /\ lib.at # "dead"
    BY <1>1, HandledFields DEF HandleList, Take, Alive
  <2>2. CASE sd.dynamic
    <3>1. amiss' = amiss
      BY <1>1, <2>2 DEF HandleList
    <3> QED
      BY <2>1, <2>2, <3>1 DEF IntervalKnown
  <2>3. CASE ~ sd.dynamic
    <3>1. main'.at = "record"
      <4>1. main' = [at |-> "record", seed |-> now, low |-> FALSE]
        BY <1>1, <2>3, Zenon DEF HandleList
      <4> QED
        BY <4>1
    <3> QED
      BY <2>1, <2>3, <3>1 DEF IntervalKnown, Recording
  <2> QED
    BY <2>2, <2>3
<1>2. CASE MainRecords \/ LibRecords
  <2>1. sd'.interval = Interval /\ sd'.known = sd.known /\ sd'.dynamic = sd.dynamic
    BY <1>2, MainFields, WaitAckFields DEF MainRecords, LibRecords, TypeOK
  <2>2. UNCHANGED <<cmds, reports, amiss>> /\ (lib' = lib \/ lib' = IdleLib)
    BY <1>2 DEF MainRecords, LibRecords, radio, history
  <2>3. Outstanding' <=> Outstanding
    BY <2>2 DEF Outstanding
  <2> QED
    BY <1>0, <2>1, <2>2, <2>3 DEF IntervalKnown, IdleLib
<1>3. CASE HandleStatus
  <2>1. sd'.dynamic = sd.dynamic /\ sd'.interval = sd.interval /\ sd'.known = sd.known
    BY <1>3, HandledFields
  <2>2. lib' = lib /\ amiss' = amiss /\ ~ Recording(main)
    BY <1>3 DEF HandleStatus, Take, MutexFree, IdleMain, Recording
  <2>3. Outstanding' <=> Outstanding
    BY <1>3, TakeOutstanding DEF HandleStatus
  <2> QED
    BY <2>1, <2>2, <2>3 DEF IntervalKnown
<1>4. CASE Session
  <2>1. sd \in Records
    BY DEF TypeOK
  <2>2. sd'.dynamic = sd.dynamic /\ sd'.interval = sd.interval /\ sd'.known = sd.known
    BY <1>4, <2>1 DEF Session, CallReturns, Records
  <2>3. UNCHANGED <<lib, amiss, cmds, reports>> /\ ~ Recording(main)
    BY <1>4 DEF Session, Recording, radio
  <2>4. Outstanding' <=> Outstanding
    BY <2>3 DEF Outstanding
  <2> QED
    BY <2>2, <2>3, <2>4 DEF IntervalKnown
<1>5. CASE Posted \/ Alarmed \/ HandleAlarm
  <2>1. UNCHANGED <<sd, lib, amiss>> /\ ~ Recording(main)
    BY <1>5 DEF Posted, Alarmed, HandleAlarm, Take, MutexFree, IdleMain, Recording, history
  <2>2. Outstanding' <=> Outstanding
    <3>1. CASE HandleAlarm
      BY <3>1, TakeOutstanding DEF HandleAlarm
    <3>2. CASE Posted \/ Alarmed
      BY <3>2 DEF Posted, Alarmed, radio, Outstanding
    <3> QED
      BY <1>5, <3>1, <3>2
  <2> QED
    BY <2>1, <2>2 DEF IntervalKnown
<1>6. CASE HandleAnswer
  <2>1. sd'.dynamic = TRUE /\ sd'.known = sd.known /\ sd'.interval = sd.interval /\ lib' = lib
        /\ lib.at # "dead"
    BY <1>6, ConfirmFields DEF HandleAnswer, Take, Alive
  <2>2. amiss \subseteq amiss' /\ ~ Recording(main)
    BY <1>6 DEF HandleAnswer, Take, MutexFree, IdleMain, Recording
  <2>3. Outstanding
    <3>1. reports \in Seq(Report) /\ reports # << >> /\ Head(reports) \in Report /\ Head(reports).kind = "dynamic"
      BY <1>6, TakeFacts DEF HandleAnswer, Take, TypeOK
    <3>2. 1 \in 1..Len(reports) /\ reports[1] = Head(reports)
      BY <3>1, TailFacts
    <3> QED
      BY <3>1, <3>2, ReportKinds DEF Outstanding
  <2>4. Outstanding' => "restarted" \in amiss' \/ sd.known
    BY <2>2, <2>3 DEF IntervalKnown
  <2> QED
    BY <2>1, <2>2, <2>3, <2>4 DEF IntervalKnown
<1>7. CASE GetDynamic
  <2>1. UNCHANGED <<sd, main, amiss, cmds, reports>> /\ sd.known
    BY <1>7 DEF GetDynamic, radio, history
  <2>2. IF sd.dynamic THEN lib'.at = "code" ELSE lib'.at = "send"
    BY <1>7 DEF GetDynamic
  <2> QED
    BY <2>1, <2>2 DEF IntervalKnown
<1>8. CASE LibCode
  <2>1. UNCHANGED <<sd, main, amiss, cmds, reports>> /\ lib.at = "code"
    BY <1>8 DEF LibCode, radio, history
  <2>2. IF sd.interval = 0 THEN lib'.at = "dead" ELSE lib'.at = "idle"
    BY <1>8 DEF LibCode, IdleLib
  <2>3. Outstanding' <=> Outstanding
    BY <2>1 DEF Outstanding
  <2> QED
    BY <2>1, <2>2, <2>3 DEF IntervalKnown
<1>9. CASE LibSends
  <2>1. UNCHANGED <<sd, main>> /\ lib.at = "send" /\ lib'.at = "record" /\ ~ Recording(main)
    BY <1>9 DEF LibSends, MutexFree, IdleMain, Recording, TypeOK
  <2> QED
    BY <2>1 DEF IntervalKnown
<1>10. CASE LockAnswers
  <2>1. UNCHANGED <<sd, main, lib>> /\ amiss \subseteq amiss'
    BY <1>10 DEF LockAnswers
  <2>2. Outstanding
    BY <1>10 DEF LockAnswers, Outstanding
  <2> QED
    BY <2>1, <2>2 DEF IntervalKnown
<1>11. CASE LockReports
  <2>1. UNCHANGED <<sd, main, lib, amiss, cmds>>
    BY <1>11 DEF LockReports, history
  <2>2. Outstanding' <=> Outstanding
    <3>1. PICK r \in Report \ {Answer} : reports' = Append(reports, r)
      BY <1>11 DEF LockReports
    <3> QED
      BY <2>1, <3>1, AnswersAppended DEF Outstanding, TypeOK
  <2> QED
    BY <2>1, <2>2 DEF IntervalKnown
<1>12. CASE LoseCommand
  <2>1. UNCHANGED <<sd, main, lib, reports>> /\ amiss \subseteq amiss'
    BY <1>12 DEF LoseCommand
  <2>2. Outstanding
    BY <1>12 DEF LoseCommand, Outstanding
  <2> QED
    BY <2>1, <2>2 DEF IntervalKnown
<1>13. CASE LoseReport
  <2>1. UNCHANGED <<sd, main, lib, cmds>> /\ amiss \subseteq amiss'
    BY <1>13 DEF LoseReport
  <2>2. Outstanding' => Outstanding
    <3>1. reports \in Seq(Report) /\ reports # << >> /\ reports' = Tail(reports)
      BY <1>13 DEF LoseReport, TypeOK
    <3>2. \A i \in 1..Len(Tail(reports)) : i + 1 \in 1..Len(reports) /\ Tail(reports)[i] = reports[i + 1]
      BY <3>1, TailFacts
    <3> QED
      BY <2>1, <3>1, <3>2 DEF Outstanding
  <2> QED
    BY <2>1, <2>2 DEF IntervalKnown
<1>14. CASE Restart
  <2>1. lib'.at = "idle" /\ "restarted" \in amiss' /\ sd' = disk
    BY <1>14 DEF Restart, IdleLib
  <2> QED
    BY <2>1 DEF IntervalKnown, LoginKnown
<1>15. CASE Tick \/ UNCHANGED vars
  <2>1. UNCHANGED <<sd, main, lib, amiss, cmds, reports>>
    BY <1>15 DEF Tick, vars, radio, history
  <2> QED
    BY <2>1 DEF IntervalKnown, Outstanding, Recording
<1> QED
  BY <1>1, <1>2, <1>3, <1>4, <1>5, <1>6, <1>7, <1>8, <1>9, <1>10, <1>11, <1>12, <1>13, <1>14,
     <1>15 DEF Next, MainStep, LibStep

LEMMA NeverDivides == IntervalKnown => NeverDividesByZero
  BY DEF IntervalKnown, NeverDividesByZero

\* Only a restart leads to a division by an interval that was never recorded.
THEOREM OnlyRestartsDivide == Spec => []NeverDividesByZero
  BY TypeCorrect, LoginInit, LoginStep, IntervalInit, IntervalStep, NeverDivides, PTL DEF Spec

---------------------------------------------------------------------------
(* The seeds. *)

LEMMA SentNewest ==
    ASSUME TypeOK, NEW seed \in Seeds, NEW other, Send(seed, other)
    PROVE  Newest' = seed
<1>1. cmds' = Append(cmds, seed) /\ cmds \in Seq(Seeds)
  BY DEF Send, TypeOK
<1>2. cmds' # << >> /\ cmds'[Len(cmds')] = seed
  BY <1>1, AppendFacts
<1> QED
  BY <1>2 DEF Newest

\* A command that leaves the queue as any but the last changes nothing.
LEMMA TailNewest ==
    ASSUME TypeOK, cmds # << >>, cmds' = Tail(cmds), Len(cmds) # 1
    PROVE  Newest' = Newest /\ cmds' # << >>
<1>1. cmds \in Seq(Seeds)
  BY DEF TypeOK
<1>2. cmds' # << >> /\ Len(cmds') = Len(cmds) - 1 /\ Len(cmds) \in Nat \ {0, 1}
  BY <1>1, TailFacts
<1>3. cmds'[Len(cmds')] = cmds[Len(cmds') + 1]
  BY <1>1, <1>2, TailFacts
<1> QED
  BY <1>2, <1>3 DEF Newest

LEMMA AnsweredNewest ==
    ASSUME TypeOK, cmds # << >>, cmds' = Tail(cmds), lockSeed' = Head(cmds)
    PROVE  Newest' = Newest
<1>1. CASE Len(cmds) = 1
  <2>1. cmds' = << >> /\ Head(cmds) = cmds[1]
    BY <1>1, TailFacts DEF TypeOK
  <2> QED
    BY <1>1, <2>1 DEF Newest
<1>2. CASE Len(cmds) # 1
  BY <1>2, TailNewest
<1> QED
  BY <1>1, <1>2

LEMMA SeedInit == Init => OneSeed /\ AnswerToCome
<1> SUFFICES ASSUME Init PROVE OneSeed /\ AnswerToCome
  OBVIOUS
<1>1. sd.seed = 0 /\ lockSeed = 0 /\ cmds = << >> /\ sd.dynamic = FALSE
  BY DEF Init, Unused
<1>2. ~ Recording(main) /\ ~ Recording(lib)
  BY DEF Init, IdleMain, IdleLib, Recording
<1> QED
  BY <1>1, <1>2 DEF OneSeed, AnswerToCome, Newest, Saved

\* Steps that leave the seeds, the recording threads and the commands alone.
LEMMA SeedKept ==
    ASSUME OneSeed, cmds' = cmds, lockSeed' = lockSeed, sd'.seed = sd.seed,
           Recording(main)' <=> Recording(main), main'.seed = main.seed \/ ~ Recording(main),
           Recording(lib)' <=> Recording(lib), lib'.seed = lib.seed \/ ~ Recording(lib),
           amiss' = {} => amiss = {}
    PROVE  OneSeed'
<1>1. Newest' = Newest
  BY DEF Newest
<1> QED
  BY <1>1 DEF OneSeed

LEMMA OneSeedStep == TypeOK /\ OneSeed /\ [Next]_vars => OneSeed'
<1> SUFFICES ASSUME TypeOK, OneSeed, [Next]_vars PROVE OneSeed'
  OBVIOUS
<1>m. now \in Seeds /\ lib.seed \in Seeds /\ main.seed \in Seeds
  BY MainFields DEF TypeOK
<1>1. CASE HandleList
  <2>1. sd'.seed = sd.seed /\ lib' = lib /\ lockSeed' = lockSeed /\ ~ Recording(main)
    BY <1>1, HandledFields DEF HandleList, Take, MutexFree, IdleMain, Recording
  <2>2. CASE sd.dynamic
    <3>1. main'.at = "session" /\ UNCHANGED <<cmds, amiss>>
      BY <1>1, <2>2 DEF HandleList, Go
    <3>2. Recording(lib)' <=> Recording(lib)
      BY <2>1 DEF Recording
    <3>3. ~ Recording(main)'
      BY <3>1 DEF Recording
    <3> QED
      BY <2>1, <3>1, <3>2, <3>3, SeedKept
  <2>3. CASE ~ sd.dynamic
    <3>1. Send(now, lib) /\ main' = [at |-> "record", seed |-> now, low |-> FALSE]
      BY <1>1, <2>3, Zenon DEF HandleList
    <3>2. Newest' = now
      BY <1>m, <3>1, SentNewest
    <3>3. main'.seed = now /\ Recording(main)'
      BY <3>1 DEF Recording
    <3>4. amiss' = {} => ~ Recording(lib)'
      BY <2>1, <3>1 DEF Send, Recording
    <3> QED
      BY <3>2, <3>3, <3>4 DEF OneSeed
  <2> QED
    BY <2>2, <2>3
<1>2. CASE MainRecords
  <2>1. sd'.seed = main.seed /\ Recording(main) /\ lib' = lib /\ amiss' = amiss
        /\ UNCHANGED <<cmds, lockSeed>>
    BY <1>2, <1>m, WaitAckFields DEF MainRecords, radio, history
  <2>2. Newest' = Newest /\ ~ Recording(main)' /\ (Recording(lib)' <=> Recording(lib))
    BY <1>2, <2>1 DEF MainRecords, Newest, Recording
  <2> QED
    BY <2>1, <2>2 DEF OneSeed
<1>3. CASE LibRecords
  <2>1. sd'.seed = lib.seed /\ Recording(lib) /\ main' = main /\ amiss' = amiss
        /\ UNCHANGED <<cmds, lockSeed>>
    BY <1>3, <1>m, WaitAckFields DEF LibRecords, radio, history
  <2>2. Newest' = Newest /\ ~ Recording(lib)' /\ (Recording(main)' <=> Recording(main))
    BY <1>3, <2>1 DEF LibRecords, Newest, Recording, IdleLib
  <2> QED
    BY <2>1, <2>2 DEF OneSeed
<1>4. CASE HandleStatus \/ Session \/ Posted \/ Alarmed \/ HandleAlarm
  <2>1. ~ Recording(main) /\ UNCHANGED <<lib, cmds, lockSeed, amiss>>
    BY <1>4 DEF HandleStatus, Session, Posted, Alarmed, HandleAlarm, Take, MutexFree, IdleMain,
       Recording, radio, history
  <2>2. ~ Recording(main)'
    <3>1. main'.at \in {"idle", "session", "post", "alarm"}
      BY <1>4 DEF HandleStatus, Session, Posted, Alarmed, HandleAlarm, After, Go, IdleMain
    <3> QED
      BY <3>1 DEF Recording
  <2>3. sd'.seed = sd.seed
    <3>1. CASE HandleStatus
      BY <3>1, HandledFields
    <3>2. CASE Session
      BY <3>2 DEF Session, CallReturns, TypeOK, Records
    <3>3. CASE Posted \/ Alarmed \/ HandleAlarm
      BY <3>3 DEF Posted, Alarmed, HandleAlarm
    <3> QED
      BY <1>4, <3>1, <3>2, <3>3
  <2>4. Recording(lib)' <=> Recording(lib)
    BY <2>1 DEF Recording
  <2> QED
    BY <2>1, <2>2, <2>3, <2>4, SeedKept
<1>5. CASE HandleAnswer
  <2>1. sd'.seed = sd.seed /\ UNCHANGED <<main, lib, cmds, lockSeed>> /\ (amiss' = {} => amiss = {})
    BY <1>5, ConfirmFields DEF HandleAnswer
  <2>2. (Recording(lib)' <=> Recording(lib)) /\ (Recording(main)' <=> Recording(main))
    BY <2>1 DEF Recording
  <2> QED
    BY <2>1, <2>2, SeedKept
<1>6. CASE GetDynamic \/ LibCode
  <2>1. UNCHANGED <<sd, main, cmds, lockSeed, amiss>> /\ ~ Recording(lib) /\ ~ Recording(lib)'
    BY <1>6 DEF GetDynamic, LibCode, radio, history, Recording, IdleLib
  <2>2. Recording(main)' <=> Recording(main)
    BY <2>1 DEF Recording
  <2> QED
    BY <2>1, <2>2, SeedKept
<1>7. CASE LibSends
  <2>1. Send(lib.seed, main) /\ ~ Recording(main) /\ main' = main
    BY <1>7 DEF LibSends, MutexFree, IdleMain, Recording
  <2>2. Newest' = lib.seed
    BY <1>m, <2>1, SentNewest
  <2>3. lib'.seed = lib.seed /\ Recording(lib)' /\ ~ Recording(main)'
    BY <1>7, <2>1 DEF LibSends, Recording, TypeOK
  <2> QED
    BY <2>2, <2>3 DEF OneSeed
<1>8. CASE LockAnswers
  <2>1. UNCHANGED <<sd, main, lib>> /\ cmds # << >> /\ cmds' = Tail(cmds)
    BY <1>8 DEF LockAnswers
  <2>2. amiss' = {} => Newest' = Newest /\ amiss = {}
    <3>1. CASE lockSeed' = Head(cmds) /\ amiss' = amiss
      BY <2>1, <3>1, AnsweredNewest
    <3>2. CASE amiss' = IF Len(cmds) = 1 THEN amiss \cup {"refused"} ELSE amiss
      BY <2>1, <3>2, TailNewest
    <3> QED
      BY <1>8, <3>1, <3>2 DEF LockAnswers
  <2>3. (Recording(lib)' <=> Recording(lib)) /\ (Recording(main)' <=> Recording(main))
    BY <2>1 DEF Recording
  <2> QED
    BY <2>1, <2>2, <2>3 DEF OneSeed
<1>9. CASE LoseCommand
  <2>1. UNCHANGED <<sd, main, lib>> /\ cmds # << >> /\ cmds' = Tail(cmds)
    BY <1>9 DEF LoseCommand
  <2>2. amiss' = {} => Newest' = Newest /\ amiss = {}
    BY <1>9, TailNewest DEF LoseCommand
  <2>3. (Recording(lib)' <=> Recording(lib)) /\ (Recording(main)' <=> Recording(main))
    BY <2>1 DEF Recording
  <2> QED
    BY <2>1, <2>2, <2>3 DEF OneSeed
<1>10. CASE LockReports \/ LoseReport \/ Tick \/ UNCHANGED vars
  <2>1. UNCHANGED <<sd, main, lib, cmds, lockSeed>> /\ (amiss' = {} => amiss = {})
    BY <1>10 DEF LockReports, LoseReport, Tick, vars, radio, history
  <2>2. (Recording(lib)' <=> Recording(lib)) /\ (Recording(main)' <=> Recording(main))
    BY <2>1 DEF Recording
  <2> QED
    BY <2>1, <2>2, SeedKept
<1>11. CASE Restart
  BY <1>11 DEF Restart, OneSeed
<1> QED
  BY <1>1, <1>2, <1>3, <1>4, <1>5, <1>6, <1>7, <1>8, <1>9, <1>10, <1>11 DEF Next, MainStep, LibStep

\* Once something is in the queue of answers it stays until it is handled.
LEMMA AnswerToComeStep ==
    TypeOK /\ AnswerToCome /\ [Next]_vars => AnswerToCome'
<1> SUFFICES ASSUME TypeOK, AnswerToCome, [Next]_vars PROVE AnswerToCome'
  OBVIOUS
<1>m. now \in Seeds /\ lib.seed \in Seeds /\ main.seed \in Seeds
  BY MainFields DEF TypeOK
<1>1. CASE HandleList
  <2>1. CASE ~ sd.dynamic
    <3>1. Send(now, lib)
      BY <1>1, <2>1, Zenon DEF HandleList
    <3> QED
      BY <1>m, <3>1, SentOutstanding DEF AnswerToCome
  <2>2. CASE sd.dynamic
    <3>1. UNCHANGED <<cmds, amiss, lib>> /\ main'.at = "session" /\ Take("list")
      BY <1>1, <2>2 DEF HandleList, Go
    <3>2. Outstanding' <=> Outstanding
      BY <3>1, TakeOutstanding
    <3>3. Saved'
      BY <1>1, HandledFields, LoadedFields DEF Saved
    <3>4. ~ Recording(main)' /\ (Recording(lib)' <=> Recording(lib))
      BY <3>1 DEF Recording
    <3> QED
      BY <3>1, <3>2, <3>3, <3>4 DEF AnswerToCome
  <2> QED
    BY <2>1, <2>2
<1>2. CASE MainRecords \/ LibRecords
  <2>1. Recording(main) \/ Recording(lib)
    BY <1>2 DEF MainRecords, LibRecords
  <2>2. UNCHANGED <<cmds, reports, amiss>>
    BY <1>2 DEF MainRecords, LibRecords, radio, history
  <2>3. Outstanding' <=> Outstanding
    BY <2>2 DEF Outstanding
  <2> QED
    BY <2>1, <2>2, <2>3 DEF AnswerToCome
<1>3. CASE HandleStatus
  <2>1. UNCHANGED <<cmds, amiss, lib>> /\ ~ Recording(main)' /\ Take("status")
    BY <1>3 DEF HandleStatus, Go, IdleMain, Recording
  <2>2. Outstanding' <=> Outstanding
    BY <2>1, TakeOutstanding
  <2>3. Saved => Saved'
    <3>1. CASE sd.known
      BY <1>3, <3>1, HandledFields, LoadedFields DEF Saved
    <3>2. CASE ~ sd.known
      BY <1>3, <3>2, HandledFields DEF Saved
    <3> QED
      BY <3>1, <3>2
  <2>4. Recording(lib)' <=> Recording(lib)
    BY <2>1 DEF Recording
  <2> QED
    BY <2>1, <2>2, <2>3, <2>4 DEF AnswerToCome
<1>4. CASE Session \/ Posted \/ Alarmed \/ HandleAlarm
  <2>1. UNCHANGED <<cmds, amiss, lib, disk>> /\ ~ Recording(main)'
    <3>1. main'.at \in {"idle", "post", "alarm"}
      BY <1>4 DEF Session, Posted, Alarmed, HandleAlarm, After, Go, IdleMain
    <3> QED
      BY <1>4, <3>1 DEF Session, Posted, Alarmed, HandleAlarm, Recording, radio, history
  <2>2. Outstanding' <=> Outstanding
    <3>1. CASE HandleAlarm
      BY <3>1, TakeOutstanding DEF HandleAlarm
    <3>2. CASE Session \/ Posted \/ Alarmed
      BY <3>2 DEF Session, Posted, Alarmed, radio, Outstanding
    <3> QED
      BY <1>4, <3>1, <3>2
  <2>3. sd'.seed = sd.seed /\ sd'.dynamic = sd.dynamic
    BY <1>4 DEF Session, Posted, Alarmed, HandleAlarm, CallReturns, TypeOK, Records
  <2>4. Recording(lib)' <=> Recording(lib)
    BY <2>1 DEF Recording
  <2> QED
    BY <2>1, <2>2, <2>3, <2>4 DEF AnswerToCome, Saved
<1>5. CASE HandleAnswer
  <2>1. Saved'
    BY <1>5, ConfirmType, LoadedFields DEF HandleAnswer, Save, Saved
  <2>2. ~ Recording(main)' /\ (amiss' = {} => ~ Recording(lib)')
    BY <1>5 DEF HandleAnswer, Take, MutexFree, IdleMain, Recording
  <2> QED
    BY <2>1, <2>2 DEF AnswerToCome
<1>6. CASE GetDynamic \/ LibCode
  <2>1. UNCHANGED <<sd, disk, main, cmds, reports, amiss>> /\ ~ Recording(lib)'
    BY <1>6 DEF GetDynamic, LibCode, radio, history, Recording, IdleLib
  <2>2. (Outstanding' <=> Outstanding) /\ (Saved' <=> Saved) /\ (Recording(main)' <=> Recording(main))
    BY <2>1 DEF Outstanding, Saved, Recording
  <2> QED
    BY <2>1, <2>2 DEF AnswerToCome
<1>7. CASE LibSends
  <2>1. Send(lib.seed, main)
    BY <1>7 DEF LibSends
  <2> QED
    BY <1>m, <2>1, SentOutstanding DEF AnswerToCome
<1>8. CASE LockAnswers
  <2>1. reports' = Append(reports, Answer) /\ reports \in Seq(Report)
    BY <1>8 DEF LockAnswers, TypeOK
  <2>2. Outstanding'
    BY <2>1, AnswerIsReport, AnswersAppended DEF Outstanding
  <2> QED
    BY <2>2 DEF AnswerToCome
<1>9. CASE LockReports
  <2>1. UNCHANGED <<sd, disk, main, lib, amiss, cmds>>
    BY <1>9 DEF LockReports, history
  <2>2. Outstanding' <=> Outstanding
    <3>1. PICK r \in Report \ {Answer} : reports' = Append(reports, r)
      BY <1>9 DEF LockReports
    <3> QED
      BY <2>1, <3>1, AnswersAppended DEF Outstanding, TypeOK
  <2>3. (Saved' <=> Saved) /\ (Recording(main)' <=> Recording(main)) /\ (Recording(lib)' <=> Recording(lib))
    BY <2>1 DEF Saved, Recording
  <2> QED
    BY <2>1, <2>2, <2>3 DEF AnswerToCome
<1>10. CASE LoseCommand
  <2>1. UNCHANGED <<sd, disk, main, lib, reports>> /\ cmds # << >> /\ cmds' = Tail(cmds)
    BY <1>10 DEF LoseCommand
  <2>2. amiss' = {} => cmds' # << >>
    BY <1>10, <2>1, TailNewest DEF LoseCommand
  <2> QED
    BY <2>2 DEF AnswerToCome, Outstanding
<1>11. CASE LoseReport
  <2>1. UNCHANGED <<sd, disk, main, lib, cmds>> /\ reports # << >> /\ reports' = Tail(reports)
    BY <1>11 DEF LoseReport
  <2>2. amiss' = {} => amiss = {} /\ Head(reports) # Answer
    BY <1>11 DEF LoseReport
  <2>3. Head(reports) # Answer => (Outstanding' <=> Outstanding)
    BY <2>1, AnswersKept DEF Outstanding, TypeOK
  <2>4. (Saved' <=> Saved) /\ (Recording(main)' <=> Recording(main)) /\ (Recording(lib)' <=> Recording(lib))
    BY <2>1 DEF Saved, Recording
  <2> QED
    BY <2>1, <2>2, <2>3, <2>4 DEF AnswerToCome
<1>12. CASE Restart
  BY <1>12 DEF Restart, AnswerToCome
<1>13. CASE Tick \/ UNCHANGED vars
  <2>1. UNCHANGED <<sd, disk, main, lib, amiss, cmds, reports>>
    BY <1>13 DEF Tick, vars, radio, history
  <2>2. (Outstanding' <=> Outstanding) /\ (Saved' <=> Saved) /\ (Recording(main)' <=> Recording(main))
        /\ (Recording(lib)' <=> Recording(lib))
    BY <2>1 DEF Outstanding, Saved, Recording
  <2> QED
    BY <2>1, <2>2 DEF AnswerToCome
<1> QED
  BY <1>1, <1>2, <1>3, <1>4, <1>5, <1>6, <1>7, <1>8, <1>9, <1>10, <1>11, <1>12, <1>13
     DEF Next, MainStep, LibStep

\* In quiet times the newest seed is what the lock uses.
LEMMA QuietSeeds == OneSeed /\ AnswerToCome => SeedAgrees
<1> SUFFICES ASSUME OneSeed, AnswerToCome, Quiet, amiss = {}, sd.dynamic
             PROVE  sd.seed = lockSeed /\ disk.dynamic /\ disk.seed = sd.seed
  BY DEF SeedAgrees
<1>1. sd.seed = Newest
  BY DEF OneSeed, Quiet
<1>2. Newest = lockSeed
  BY DEF Newest, Quiet, Outstanding
<1>3. Saved
  BY DEF AnswerToCome, Quiet
<1> QED
  BY <1>1, <1>2, <1>3 DEF Saved

\* When every seed sent has been answered, the lock, the gateway and its file hold
\* the same one, whatever the number of requests and listings.
THEOREM SeedsAgree == Spec => []SeedAgrees
  BY TypeCorrect, SeedInit, OneSeedStep, AnswerToComeStep, QuietSeeds, PTL DEF Spec

---------------------------------------------------------------------------
(* A seed that waits: what SeedConfirmed needs besides fairness.           *)

\* A seed was sent, and the record does not say that it is valid.
SeedWaits == ~ sd.dynamic /\ (sd.interval # 0 \/ Recording(main) \/ Recording(lib))

Unlost == amiss \cap {"lost", "restarted"} = {}

AnswerOnItsWay == SeedWaits /\ Unlost => Outstanding

\* Steps that send no seed and leave the messages that count alone.
LEMMA WaitKept ==
    ASSUME AnswerOnItsWay, Outstanding' <=> Outstanding, SeedWaits' => SeedWaits,
           amiss \subseteq amiss'
    PROVE  AnswerOnItsWay'
<1>1. Unlost' => Unlost
  BY DEF Unlost
<1> QED
  BY <1>1 DEF AnswerOnItsWay

LEMMA AnswerOnItsWayStep ==
    TypeOK /\ AnswerOnItsWay /\ [Next]_vars => AnswerOnItsWay'
<1> SUFFICES ASSUME TypeOK, AnswerOnItsWay, [Next]_vars PROVE AnswerOnItsWay'
  OBVIOUS
<1>m. now \in Seeds /\ lib.seed \in Seeds /\ main.seed \in Seeds
  BY MainFields DEF TypeOK
<1>1. CASE (HandleList /\ ~ sd.dynamic) \/ LibSends
  <2>1. Send(now, lib) \/ Send(lib.seed, main)
    BY <1>1, Zenon DEF HandleList, LibSends
  <2> QED
    BY <1>m, <2>1, SentOutstanding DEF AnswerOnItsWay
<1>2. CASE (HandleList /\ sd.dynamic) \/ HandleStatus
  <2>1. UNCHANGED <<cmds, amiss, lib>> /\ ~ Recording(main)' /\ (Take("list") \/ Take("status"))
    BY <1>2 DEF HandleList, HandleStatus, Go, IdleMain, Recording
  <2>2. sd'.dynamic = sd.dynamic /\ sd'.interval = sd.interval
    BY <1>2, HandledFields
  <2>3. SeedWaits' => SeedWaits
    BY <2>1, <2>2 DEF SeedWaits, Recording
  <2> QED
    BY <2>1, <2>3, TakeOutstanding, WaitKept
<1>3. CASE MainRecords \/ LibRecords
  <2>1. UNCHANGED <<cmds, reports, amiss>> /\ (Recording(main) \/ Recording(lib))
    BY <1>3 DEF MainRecords, LibRecords, radio, history
  <2>2. sd'.dynamic = sd.dynamic
    BY <1>m, <1>3, WaitAckFields DEF MainRecords, LibRecords
  <2>3. SeedWaits' => SeedWaits
    BY <2>1, <2>2 DEF SeedWaits
  <2>4. Outstanding' <=> Outstanding
    BY <2>1 DEF Outstanding
  <2> QED
    BY <2>1, <2>3, <2>4, WaitKept
<1>4. CASE Session \/ Posted \/ Alarmed \/ HandleAlarm
  <2>1. UNCHANGED <<cmds, amiss, lib>> /\ ~ Recording(main)'
    <3>1. main'.at \in {"idle", "post", "alarm"}
      BY <1>4 DEF Session, Posted, Alarmed, HandleAlarm, After, Go, IdleMain
    <3> QED
      BY <1>4, <3>1 DEF Session, Posted, Alarmed, HandleAlarm, Recording, radio, history
  <2>2. Outstanding' <=> Outstanding
    <3>1. CASE HandleAlarm
      BY <3>1, TakeOutstanding DEF HandleAlarm
    <3>2. CASE Session \/ Posted \/ Alarmed
      BY <3>2 DEF Session, Posted, Alarmed, radio, Outstanding
    <3> QED
      BY <1>4, <3>1, <3>2
  <2>3. sd'.interval = sd.interval /\ sd'.dynamic = sd.dynamic
    BY <1>4 DEF Session, Posted, Alarmed, HandleAlarm, CallReturns, TypeOK, Records
  <2>4. SeedWaits' => SeedWaits
    BY <2>1, <2>3 DEF SeedWaits, Recording
  <2> QED
    BY <2>1, <2>2, <2>4, WaitKept
<1>5. CASE HandleAnswer
  <2>1. sd'.dynamic = TRUE
    BY <1>5, ConfirmFields DEF HandleAnswer
  <2> QED
    BY <2>1 DEF AnswerOnItsWay, SeedWaits
<1>6. CASE GetDynamic \/ LibCode
  <2>1. UNCHANGED <<sd, main, cmds, reports, amiss>> /\ ~ Recording(lib)'
    BY <1>6 DEF GetDynamic, LibCode, radio, history, Recording, IdleLib
  <2>2. (Outstanding' <=> Outstanding) /\ (SeedWaits' => SeedWaits)
    BY <2>1 DEF Outstanding, SeedWaits, Recording
  <2> QED
    BY <2>1, <2>2, WaitKept
<1>7. CASE LockAnswers
  <2>1. reports' = Append(reports, Answer) /\ reports \in Seq(Report)
    BY <1>7 DEF LockAnswers, TypeOK
  <2>2. Outstanding'
    BY <2>1, AnswerIsReport, AnswersAppended DEF Outstanding
  <2> QED
    BY <2>2 DEF AnswerOnItsWay
<1>8. CASE LockReports
  <2>1. UNCHANGED <<sd, main, lib, amiss, cmds>>
    BY <1>8 DEF LockReports, history
  <2>2. Outstanding' <=> Outstanding
    <3>1. PICK r \in Report \ {Answer} : reports' = Append(reports, r)
      BY <1>8 DEF LockReports
    <3> QED
      BY <2>1, <3>1, AnswersAppended DEF Outstanding, TypeOK
  <2>3. SeedWaits' => SeedWaits
    BY <2>1 DEF SeedWaits, Recording
  <2> QED
    BY <2>1, <2>2, <2>3, WaitKept
<1>9. CASE LoseCommand
  <2>1. UNCHANGED <<sd, main, lib, reports>> /\ cmds # << >> /\ cmds' = Tail(cmds)
    BY <1>9 DEF LoseCommand
  <2>2. CASE Len(cmds) = 1
    <3>1. "lost" \in amiss'
      BY <1>9, <2>2 DEF LoseCommand
    <3> QED
      BY <3>1 DEF AnswerOnItsWay, Unlost
  <2>3. CASE Len(cmds) # 1
    <3>1. cmds' # << >>
      BY <2>1, <2>3, TailFacts DEF TypeOK
    <3> QED
      BY <3>1 DEF AnswerOnItsWay, Outstanding
  <2> QED
    BY <2>2, <2>3
<1>10. CASE LoseReport
  <2>1. UNCHANGED <<sd, main, lib, cmds>> /\ reports # << >> /\ reports' = Tail(reports)
    BY <1>10 DEF LoseReport
  <2>2. CASE Head(reports) = Answer
    <3>1. "lost" \in amiss'
      BY <1>10, <2>2 DEF LoseReport
    <3> QED
      BY <3>1 DEF AnswerOnItsWay, Unlost
  <2>3. CASE Head(reports) # Answer
    <3>1. Outstanding' <=> Outstanding
      BY <2>1, <2>3, AnswersKept DEF Outstanding, TypeOK
    <3>2. (SeedWaits' => SeedWaits) /\ amiss' = amiss
      BY <1>10, <2>1, <2>3 DEF LoseReport, SeedWaits, Recording
    <3> QED
      BY <3>1, <3>2, WaitKept
  <2> QED
    BY <2>2, <2>3
<1>11. CASE Restart
  BY <1>11 DEF Restart, AnswerOnItsWay, Unlost
<1>12. CASE Tick \/ UNCHANGED vars
  <2>1. UNCHANGED <<sd, main, lib, amiss, cmds, reports>>
    BY <1>12 DEF Tick, vars, radio, history
  <2>2. (Outstanding' <=> Outstanding) /\ (SeedWaits' => SeedWaits)
    BY <2>1 DEF Outstanding, SeedWaits, Recording
  <2> QED
    BY <2>1, <2>2, WaitKept
<1> QED
  BY <1>1, <1>2, <1>3, <1>4, <1>5, <1>6, <1>7, <1>8, <1>9, <1>10, <1>11, <1>12
     DEF Next, MainStep, LibStep

\* No seed is forgotten: one that was sent and is not valid has its command or an
\* answer under way, unless one was lost or the process was restarted.
THEOREM SeedsAreAnswered == Spec => [](SeedWaits /\ Unlost => Outstanding)
<1>1. Init => AnswerOnItsWay
  BY DEF Init, Unused, IdleMain, IdleLib, Recording, SeedWaits, AnswerOnItsWay
<1>2. AnswerOnItsWay <=> (SeedWaits /\ Unlost => Outstanding)
  BY DEF AnswerOnItsWay
<1> QED
  BY <1>1, <1>2, TypeCorrect, AnswerOnItsWayStep, PTL DEF Spec
=============================================================================
