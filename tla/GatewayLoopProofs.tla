------------------------- MODULE GatewayLoopProofs -------------------------
(***************************************************************************)
(* Proofs about GatewayLoop, for any devices, delays, lateness and faults; *)
(* where a theorem assumes NoPendingDelete, but for the deletion of a      *)
(* device whose task is queued.                                            *)
(***************************************************************************)
EXTENDS GatewayLoop, SequenceTheorems, TLAPS

Once(s) == \A i, j \in 1..Len(s) : s[i] = s[j] => i = j

---------------------------------------------------------------------------
(* Facts about the queue. *)

LEMMA DropFacts ==
    ASSUME list \in Seq(Tasks), Once(list), NEW t \in Tasks, Drop(t)
    PROVE  /\ list' \in Seq(Tasks) /\ Once(list')
           /\ Queued' = Queued \ {t} /\ t \in Queued
<1>1. PICK i \in 1..Len(list) :
        /\ list[i] = t
        /\ list' = SubSeq(list, 1, i - 1) \o SubSeq(list, i + 1, Len(list))
  BY DEF Drop
<1>2. Len(list) \in Nat /\ i \in Nat
  OBVIOUS
<1>3. /\ SubSeq(list, 1, i - 1) \in Seq(Tasks) /\ Len(SubSeq(list, 1, i - 1)) = i - 1
      /\ \A k \in 1..(i - 1) : SubSeq(list, 1, i - 1)[k] = list[k]
  BY <1>2, SubSeqProperties
<1>4. /\ SubSeq(list, i + 1, Len(list)) \in Seq(Tasks)
      /\ Len(SubSeq(list, i + 1, Len(list))) = Len(list) - i
      /\ \A k \in 1..(Len(list) - i) : SubSeq(list, i + 1, Len(list))[k] = list[i + k]
  BY <1>2, SubSeqProperties
<1> DEFINE a == SubSeq(list, 1, i - 1)
           b == SubSeq(list, i + 1, Len(list))
<1>5. /\ list' \in Seq(Tasks) /\ Len(list') = Len(list) - 1
      /\ \A k \in 1..Len(list') : list'[k] = IF k <= i - 1 THEN a[k] ELSE b[k - (i - 1)]
  <2>1. list' = a \o b /\ a \in Seq(Tasks) /\ b \in Seq(Tasks)
    BY <1>1, <1>3, <1>4
  <2>2. Len(a) = i - 1 /\ Len(b) = Len(list) - i
    BY <1>3, <1>4
  <2> HIDE DEF a, b
  <2>3. /\ a \o b \in Seq(Tasks) /\ Len(a \o b) = Len(a) + Len(b)
        /\ \A k \in 1..(Len(a) + Len(b)) :
             (a \o b)[k] = IF k <= Len(a) THEN a[k] ELSE b[k - Len(a)]
    BY <2>1, ConcatProperties
  <2> QED
    BY <1>2, <2>1, <2>2, <2>3
<1>6. \A k \in 1..Len(list') : list'[k] = IF k < i THEN list[k] ELSE list[k + 1]
  <2> SUFFICES ASSUME NEW k \in 1..Len(list')
               PROVE  list'[k] = IF k < i THEN list[k] ELSE list[k + 1]
    OBVIOUS
  <2>1. CASE k < i
    <3>1. k \in 1..(i - 1)
      BY <1>2, <2>1
    <3> QED
      BY <1>3, <1>5, <2>1, <3>1
  <2>2. CASE k >= i
    <3>1. /\ k - (i - 1) \in 1..(Len(list) - i) /\ i + (k - (i - 1)) = k + 1
          /\ ~(k <= i - 1) /\ ~(k < i)
      BY <1>2, <1>5, <2>2
    <3>2. list'[k] = b[k - (i - 1)]
      BY <1>5, <3>1
    <3>3. b[k - (i - 1)] = list[i + (k - (i - 1))]
      BY <1>4, <3>1
    <3> QED
      BY <3>1, <3>2, <3>3
  <2> QED
    BY <1>2, <2>1, <2>2
<1> HIDE DEF a, b
<1>7. Once(list')
  BY <1>2, <1>5, <1>6 DEF Once
<1>8. Queued' \subseteq Queued \ {t}
  <2> SUFFICES ASSUME NEW k \in 1..Len(list')
               PROVE  list'[k] \in Queued \ {t}
    BY DEF Queued
  <2>1. PICK j \in 1..Len(list) : list'[k] = list[j] /\ j # i
    BY <1>2, <1>5, <1>6
  <2> QED
    BY <1>1, <2>1 DEF Once, Queued
<1>9. Queued \ {t} \subseteq Queued'
  <2> SUFFICES ASSUME NEW j \in 1..Len(list), list[j] # t
               PROVE  \E k \in 1..Len(list') : list'[k] = list[j]
    BY DEF Queued
  <2>1. CASE j < i
    <3>1. j \in 1..Len(list')
      BY <1>2, <1>5, <2>1
    <3> QED
      BY <1>6, <2>1, <3>1
  <2>2. CASE j > i
    <3>1. j - 1 \in 1..Len(list') /\ ~(j - 1 < i) /\ (j - 1) + 1 = j
      BY <1>2, <1>5, <2>2
    <3> QED
      BY <1>6, <3>1
  <2>3. j # i
    BY <1>1
  <2> QED
    BY <1>2, <2>1, <2>2, <2>3
<1> QED
  BY <1>1, <1>5, <1>7, <1>8, <1>9 DEF Queued

LEMMA QueueFacts ==
    ASSUME list \in Seq(Tasks), Once(list), NEW t \in Tasks, Queue(t)
    PROVE  /\ list' \in Seq(Tasks) /\ Once(list')
           /\ Queued' = Queued \cup {t} /\ list' # << >>
<1>1. CASE t \in Queued
  <2>1. list' = list
    BY <1>1 DEF Queue
  <2> QED
    BY <1>1, <2>1 DEF Queued, Once
<1>2. CASE t \notin Queued
  <2>1. list' = Append(list, t)
    BY <1>2 DEF Queue
  <2>2. /\ list' \in Seq(Tasks) /\ Len(list') = Len(list) + 1 /\ Len(list) \in Nat
        /\ \A i \in 1..Len(list) : list'[i] = list[i]
        /\ list'[Len(list) + 1] = t
    BY <2>1
  <2>3. list' # << >>
    BY <2>1
  <2>4. Once(list')
    BY <1>2, <2>2 DEF Once, Queued
  <2>5. Queued' = Queued \cup {t}
    BY <2>2 DEF Queued
  <2> QED
    BY <2>2, <2>3, <2>4, <2>5
<1> QED
  BY <1>1, <1>2

---------------------------------------------------------------------------
(* Facts about deadlines and the timer. *)

LEMMA WithinFacts ==
    /\ Within(0) /\ Within(Zero)
    /\ \A d \in Delays : d \in Nat \ {0} /\ Within(d)
    /\ \A n \in Int : Within(n) => /\ NotPast(n) \in Int /\ Within(NotPast(n))
                                   /\ Nearer(n) \in Int /\ Within(Nearer(n))
<1>1. \A d \in Delays : d \in Nat \ {0}
  BY DelayAssumption DEF Delays
<1>2. Relock \in Delays /\ MaxLate \in Nat \ {0}
  BY DelayAssumption DEF Delays
<1>3. Zero \in Int /\ Zero < 0 /\ Zero < -MaxLate
  BY <1>2 DEF Zero
<1> HIDE DEF Delays, Zero
<1>4. Within(0) /\ Within(Zero)
  BY <1>1, <1>2, <1>3 DEF Within
<1>5. ASSUME NEW d \in Delays
      PROVE  Within(d)
  BY <1>1, <1>3 DEF Within
<1>6. ASSUME NEW n \in Int, Within(n)
      PROVE  /\ NotPast(n) \in Int /\ Within(NotPast(n))
             /\ Nearer(n) \in Int /\ Within(Nearer(n))
  <2>1. PICK d \in Delays : n <= d
    BY <1>6 DEF Within
  <2>2. NotPast(n) \in Int /\ Zero <= NotPast(n) /\ NotPast(n) <= d
    BY <1>1, <1>3, <1>6, <2>1 DEF Within, NotPast
  <2>3. Nearer(n) \in Int /\ Zero <= Nearer(n) /\ Nearer(n) <= d
    BY <1>1, <1>2, <1>3, <1>6, <2>1 DEF Within, Nearer
  <2> QED
    BY <2>2, <2>3 DEF Within
<1> QED
  BY <1>1, <1>4, <1>5, <1>6

LEMMA NonEmpty ==
    ASSUME NEW s \in Seq(Tasks)
    PROVE  s # << >> <=> {s[i] : i \in 1..Len(s)} # {}
<1>1. s # << >> => Len(s) \in Nat \ {0}
  BY EmptySeq
<1>2. s = << >> => Len(s) = 0
  OBVIOUS
<1> QED
  BY <1>1, <1>2

\* The timer and the queue as they stand to each other.
Serves ==
    /\ \A t \in Queued : at["task"] <= NotPast(due[t])
    /\ \E t \in Queued : due[t] <= NotPast(at["task"])

TimerTypes ==
    /\ armed \subseteq Timers
    /\ at \in [Timers -> Int] /\ \A t \in Timers : Within(at[t])

QueueTypes ==
    /\ list \in Seq(Tasks) /\ Once(list)
    /\ due \in [Tasks -> Int] /\ \A t \in Tasks : Within(due[t])

LEMMA ArmFacts ==
    ASSUME TimerTypes, QueueTypes', Arm
    PROVE  /\ TimerTypes'
           /\ list' = << >> => UNCHANGED <<armed, at>>
           /\ list' # << >> => armed' = armed \cup {"task"} /\ Serves'
<1>1. CASE list' = << >>
  BY <1>1 DEF Arm, TimerTypes
<1>2. CASE list' # << >>
  <2>1. PICK t \in Tasks : /\ IsFirst(t, list', due')
                           /\ at' = [at EXCEPT !["task"] = NotPast(due'[t])]
    BY <1>2 DEF Arm
  <2>2. armed' = armed \cup {"task"}
    BY <1>2 DEF Arm
  <2>3. t \in Queued' /\ \A u \in Queued' : due'[t] <= due'[u]
    <3>1. /\ t \in Queued'
          /\ \A u \in Queued' : due'[t] < due'[u] \/ due'[t] = due'[u]
      BY <2>1 DEF IsFirst, Queued
    <3>2. Queued' \subseteq Tasks
      BY DEF Queued, QueueTypes
    <3>3. \A u \in Tasks : due'[u] \in Int
      BY DEF QueueTypes
    <3> QED
      BY <3>1, <3>2, <3>3
  <2>4. due'[t] \in Int /\ NotPast(due'[t]) \in Int /\ Within(NotPast(due'[t]))
    BY WithinFacts DEF QueueTypes
  <2>5. at' \in [Timers -> Int] /\ at'["task"] = NotPast(due'[t]) /\ at'["sync"] = at["sync"]
    BY <2>1, <2>4 DEF TimerTypes, Timers
  <2>6. TimerTypes'
    BY <2>2, <2>4, <2>5 DEF TimerTypes, Timers
  <2>7. Serves'
    <3>1. \A u \in Queued' : due'[u] \in Int
      BY DEF QueueTypes, Queued
    <3>2. \A u \in Queued' : at'["task"] <= NotPast(due'[u])
      BY <2>3, <2>4, <2>5, <3>1 DEF NotPast
    <3>3. due'[t] <= NotPast(at'["task"])
      BY <2>4, <2>5 DEF NotPast
    <3> QED
      BY <2>3, <3>2, <3>3 DEF Serves
  <2> QED
    BY <1>2, <2>2, <2>6, <2>7
<1> QED
  BY <1>1, <1>2

LEMMA DisarmFacts ==
    ASSUME TimerTypes, NEW t \in Timers, Disarm(t)
    PROVE  /\ TimerTypes' /\ armed' = armed \ {t}
           /\ \A u \in Timers \ {t} : at'[u] = at[u]
  BY WithinFacts DEF TimerTypes, Disarm

LEMMA PutFacts ==
    ASSUME QueueTypes, NEW t \in Tasks, NEW ms \in Delays, NEW f, Put(t, ms, f)
    PROVE  /\ QueueTypes' /\ Queued' = Queued \cup {t} /\ list' # << >>
           /\ due' = [due EXCEPT ![t] = ms] /\ func' = [func EXCEPT ![t] = f]
<1>1. ms \in Nat /\ Within(ms)
  BY WithinFacts
<1>2. list' \in Seq(Tasks) /\ Once(list') /\ Queued' = Queued \cup {t} /\ list' # << >>
  BY QueueFacts DEF Put, QueueTypes
<1>3. due' = [due EXCEPT ![t] = ms] /\ func' = [func EXCEPT ![t] = f]
  BY DEF Put
<1>4. due' \in [Tasks -> Int] /\ \A u \in Tasks : Within(due'[u])
  BY <1>1, <1>3 DEF QueueTypes
<1> QED
  BY <1>2, <1>3, <1>4 DEF QueueTypes

---------------------------------------------------------------------------
(* Types. *)

\* The function of a task says what it is.
Kinds == func[Info] = "gw_info" /\ \A d \in Devices : func[d] # "gw_info"

OtherTypes ==
    /\ main \in Places
    /\ func \in [Tasks -> {"null", "gw_info", "relock"}]
    /\ status \in [Devices -> 0..1] /\ cloud \in [Devices -> 0..1]
    /\ lost \subseteq Devices
    /\ opened \in [Devices -> 0..Relock]
    /\ connected \in BOOLEAN /\ changed \in BOOLEAN

LEMMA TypeParts == TypeOK <=> TimerTypes /\ QueueTypes /\ OtherTypes
<1>1. list \in Seq(Tasks) =>
        ((\A i, j \in 1..Len(list) : list[i] = list[j] => i = j) <=> Once(list))
  BY DEF Once
<1> QED
  BY <1>1 DEF TypeOK, TimerTypes, QueueTypes, OtherTypes

TypesInv == TypeOK /\ Kinds

LEMMA PlaceFacts ==
    /\ \A p \in {"timers", "poll", "info", "dead"} : At(p) \in Places /\ At(p).pc = p
    /\ \A p \in {"opening", "notifying", "relocking"}, d \in Devices :
         In(p, d) \in Places /\ In(p, d).pc = p /\ In(p, d).dev = d
    /\ main \in Places /\ main.pc \in {"opening", "notifying", "relocking"} =>
         main.dev \in Devices /\ main = In(main.pc, main.dev)
    /\ main \in Places /\ main.pc \notin {"opening", "notifying", "relocking"} => main = At(main.pc)
  BY DEF Places, At, In

LEMMA PostedTypes ==
    ASSUME OtherTypes, NEW d \in Devices, NEW n \in 0..1, Posted(d, n)
    PROVE  cloud' \in [Devices -> 0..1] /\ lost' \subseteq Devices
  BY DEF Posted, OtherTypes

LEMMA TypesInit == Init => TypesInv
<1> SUFFICES ASSUME Init PROVE TypesInv
  OBVIOUS
<1>1. /\ Relock \in Nat \ {0} /\ Retry \in Delays /\ SyncDelay \in Delays
      /\ MaxLate \in Nat \ {0} /\ Info \notin Devices
  BY DelayAssumption, InfoAssumption DEF Delays
<1>2. PICK n \in -MaxLate .. Retry :
        /\ at = [t \in Timers |-> IF t = "task" THEN n ELSE SyncDelay]
        /\ due = [t \in Tasks |-> IF t = Info THEN n ELSE Zero]
  BY DEF Init
<1>3. n \in Int /\ Zero \in Int /\ Within(n) /\ Within(Zero) /\ Within(SyncDelay) /\ SyncDelay \in Int
  <2>1. \A d \in Delays : d \in Nat
    BY WithinFacts
  <2>2. Zero \in Int /\ Zero < -MaxLate
    BY <1>1 DEF Zero
  <2>3. Within(n)
    BY <1>1, <2>1, <2>2 DEF Within
  <2> QED
    BY <1>1, <2>1, <2>2, <2>3, WithinFacts
<1>4. TimerTypes
  BY <1>2, <1>3 DEF Init, TimerTypes
<1>5. QueueTypes
  <2>1. list = <<Info>> /\ Info \in Tasks
    BY DEF Init, Tasks
  <2>2. list \in Seq(Tasks) /\ Once(list)
    BY <2>1 DEF Once
  <2> QED
    BY <1>2, <1>3, <2>2 DEF QueueTypes
<1>6. OtherTypes
  <2>1. main \in Places
    BY PlaceFacts DEF Init
  <2> QED
    BY <1>1, <2>1 DEF Init, OtherTypes
<1>7. Kinds
  BY <1>1 DEF Init, Kinds, Tasks
<1> QED
  BY <1>4, <1>5, <1>6, <1>7, TypeParts DEF TypesInv

\* A task that runs: it leaves the queue, and its function decides what follows.
LEMMA RunFacts ==
    ASSUME TypesInv, RunTask
    PROVE  \E t \in Tasks :
             /\ t \in Queued /\ due[t] <= 0 /\ Queued' = Queued \ {t} /\ QueueTypes'
             /\ \/ t = Info /\ main' = At("info") /\ UNCHANGED status
                \/ /\ t \in Devices /\ func[t] = "relock" /\ main' = In("relocking", t)
                   /\ status' = [status EXCEPT ![t] = 0]
                \/ func[t] = "null" /\ main' = At("dead") /\ UNCHANGED status
<1>1. PICK t \in Queued :
        /\ due[t] <= 0
        /\ Drop(t)
        /\ CASE func[t] = "gw_info" -> main' = At("info") /\ UNCHANGED status
             [] func[t] = "relock"  -> main' = In("relocking", t)
                                       /\ status' = [status EXCEPT ![t] = 0]
             [] func[t] = "null"    -> main' = At("dead") /\ UNCHANGED status
  BY DEF RunTask
<1>2. QueueTypes /\ OtherTypes /\ Kinds
  BY TypeParts DEF TypesInv
<1>3. t \in Tasks
  BY <1>2 DEF Queued, QueueTypes
<1>4. list' \in Seq(Tasks) /\ Once(list') /\ Queued' = Queued \ {t}
  BY <1>1, <1>2, <1>3, DropFacts DEF QueueTypes
<1>5. QueueTypes'
  BY <1>2, <1>4 DEF QueueTypes, RunTask
<1>6. t = Info \/ t \in Devices
  BY <1>3 DEF Tasks
<1>7. \/ t = Info /\ main' = At("info") /\ UNCHANGED status
      \/ /\ t \in Devices /\ func[t] = "relock" /\ main' = In("relocking", t)
         /\ status' = [status EXCEPT ![t] = 0]
      \/ func[t] = "null" /\ main' = At("dead") /\ UNCHANGED status
  <2>1. func[t] \in {"null", "gw_info", "relock"}
    BY <1>2, <1>3 DEF OtherTypes
  <2>2. func[t] = "gw_info" <=> t = Info
    BY <1>2, <1>6, InfoAssumption DEF Kinds
  <2>3. CASE func[t] = "gw_info"
    BY <1>1, <2>2, <2>3
  <2>4. CASE func[t] = "relock"
    BY <1>1, <1>6, <2>2, <2>4
  <2>5. CASE func[t] = "null"
    BY <1>1, <2>5
  <2> QED
    BY <2>1, <2>3, <2>4, <2>5
<1> QED
  BY <1>1, <1>3, <1>4, <1>5, <1>7

LEMMA TypesStep == TypesInv /\ [Next]_vars => TypesInv'
<1> SUFFICES ASSUME TypesInv, [Next]_vars PROVE TypesInv'
  OBVIOUS
<1>0. TimerTypes /\ QueueTypes /\ OtherTypes /\ Kinds
  BY TypeParts DEF TypesInv
<1>1. ASSUME TimerTypes', QueueTypes', OtherTypes', Kinds'
      PROVE  TypesInv'
  BY <1>1, TypeParts, PTL DEF TypesInv
<1>2. \A d \in Devices : d \in Tasks /\ d # Info
  BY InfoAssumption DEF Tasks
<1>3. Info \in Tasks
  BY DEF Tasks
<1>a. CASE EnterPoll
  BY <1>0, <1>1, <1>a, PlaceFacts DEF EnterPoll, TimerTypes, QueueTypes, OtherTypes, Kinds
<1>b. CASE PollTimesOut
  BY <1>0, <1>1, <1>b, PlaceFacts DEF PollTimesOut, TimerTypes, QueueTypes, OtherTypes, Kinds
<1>c. CASE SyncList
  <2>1. TimerTypes'
    BY <1>0, <1>c, DisarmFacts DEF SyncList, Timers
  <2> QED
    BY <1>0, <1>1, <1>c, <2>1 DEF SyncList, QueueTypes, OtherTypes, Kinds
<1>d. CASE RunTask
  <2>1. TimerTypes'
    BY <1>0, <1>d, DisarmFacts DEF RunTask, Timers
  <2>2. /\ QueueTypes'
        /\ main' \in Places /\ status' \in [Devices -> 0..1]
    <3>1. status \in [Devices -> 0..1]
      BY <1>0 DEF OtherTypes
    <3> QED
      BY <1>d, <3>1, RunFacts, PlaceFacts
  <2> QED
    BY <1>0, <1>1, <1>d, <2>1, <2>2 DEF RunTask, OtherTypes, Kinds
<1>e. CASE Relocked
  <2>1. main.dev \in Devices
    BY <1>0, <1>e, PlaceFacts DEF Relocked, OtherTypes
  <2>2. QueueTypes'
    BY <1>0, <1>e DEF Relocked, QueueTypes
  <2>3. TimerTypes'
    BY <1>0, <1>e, <2>2, ArmFacts DEF Relocked
  <2>4. cloud' \in [Devices -> 0..1] /\ lost' \subseteq Devices
    BY <1>0, <1>e, <2>1, PostedTypes DEF Relocked
  <2> QED
    BY <1>0, <1>1, <1>e, <2>2, <2>3, <2>4, PlaceFacts DEF Relocked, OtherTypes, Kinds
<1>f. CASE InfoRead
  <2>1. PICK ms \in {Retry, Period} : Put(Info, ms, "gw_info")
    BY <1>f DEF InfoRead
  <2>2. QueueTypes' /\ func' = [func EXCEPT ![Info] = "gw_info"]
    <3>1. ms \in Delays
      BY DEF Delays
    <3> QED
      BY <1>0, <1>3, <2>1, <3>1, PutFacts
  <2>3. TimerTypes'
    BY <1>0, <1>f, <2>2, ArmFacts DEF InfoRead
  <2>4. func' \in [Tasks -> {"null", "gw_info", "relock"}] /\ Kinds'
    BY <1>0, <1>2, <1>3, <2>2 DEF OtherTypes, Kinds
  <2> QED
    BY <1>0, <1>1, <1>f, <2>2, <2>3, <2>4, PlaceFacts DEF InfoRead, OtherTypes
<1>g. CASE AskRelock
  <2>1. main.dev \in Devices
    BY <1>0, <1>g, PlaceFacts DEF AskRelock, OtherTypes
  <2>2. QueueTypes' /\ func' = [func EXCEPT ![main.dev] = "relock"]
    <3>1. Relock \in Delays
      BY DEF Delays
    <3> QED
      BY <1>0, <1>2, <1>g, <2>1, <3>1, PutFacts DEF AskRelock
  <2>3. TimerTypes'
    BY <1>0, <1>g, <2>2, ArmFacts DEF AskRelock
  <2>4. func' \in [Tasks -> {"null", "gw_info", "relock"}] /\ Kinds'
    BY <1>0, <1>2, <1>3, <2>1, <2>2 DEF OtherTypes, Kinds
  <2>5. cloud' \in [Devices -> 0..1] /\ lost' \subseteq Devices
    BY <1>0, <1>g, <2>1, PostedTypes DEF AskRelock
  <2>6. opened' \in [Devices -> 0..Relock]
    BY <1>0, <1>g, <2>1, DelayAssumption DEF AskRelock, OtherTypes
  <2> QED
    BY <1>0, <1>1, <1>g, <2>1, <2>2, <2>3, <2>4, <2>5, <2>6, PlaceFacts
       DEF AskRelock, OtherTypes
<1>h. CASE Notified
  BY <1>0, <1>1, <1>h, PlaceFacts DEF Notified, TimerTypes, QueueTypes, OtherTypes, Kinds
<1>i. ASSUME NEW d \in Devices, DoorOpens(d)
      PROVE  TypesInv'
  BY <1>0, <1>1, <1>i, PlaceFacts DEF DoorOpens, TimerTypes, QueueTypes, OtherTypes, Kinds
<1>j. ASSUME NEW d \in Devices, DeleteDevice(d)
      PROVE  TypesInv'
  <2>1. list' \in Seq(Tasks) /\ Once(list')
    <3>1. CASE d \in Queued
      <4>1. PICK n \in 1..Len(list) : list' = SubSeq(list, 1, n)
        BY <1>j, <3>1 DEF DeleteDevice
      <4>2. /\ list' \in Seq(Tasks) /\ Len(list') = n
            /\ \A k \in 1..n : list'[k] = list[k]
        BY <1>0, <4>1, SubSeqProperties DEF QueueTypes
      <4> QED
        BY <1>0, <4>2 DEF Once, QueueTypes
    <3>2. CASE d \notin Queued
      BY <1>0, <1>j, <3>2 DEF DeleteDevice, QueueTypes
    <3> QED
      BY <3>1, <3>2
  <2>2. due' \in [Tasks -> Int] /\ \A t \in Tasks : Within(due'[t])
    <3>1. Zero \in Int
      BY DelayAssumption DEF Zero
    <3> QED
      BY <1>0, <1>2, <1>j, <3>1, WithinFacts DEF DeleteDevice, QueueTypes
  <2>3. func' \in [Tasks -> {"null", "gw_info", "relock"}] /\ Kinds'
    BY <1>0, <1>2, <1>3, <1>j DEF DeleteDevice, OtherTypes, Kinds
  <2>4. status' \in [Devices -> 0..1]
    BY <1>0, <1>j DEF DeleteDevice, OtherTypes
  <2>5. TimerTypes'
    BY <1>0, <1>j DEF DeleteDevice, TimerTypes
  <2> QED
    BY <1>0, <1>1, <1>j, <2>1, <2>2, <2>3, <2>4, <2>5 DEF DeleteDevice, OtherTypes, QueueTypes
<1>k. CASE CloudConnected
  BY <1>0, <1>1, <1>k DEF CloudConnected, TimerTypes, QueueTypes, OtherTypes, Kinds
<1>l. CASE CloudDisconnected
  BY <1>0, <1>1, <1>l DEF CloudDisconnected, TimerTypes, QueueTypes, OtherTypes, Kinds
<1>m. CASE Tick
  <2>1. TimerTypes'
    BY <1>0, <1>m, WithinFacts DEF Tick, TimerTypes
  <2>2. QueueTypes'
    BY <1>0, <1>m, WithinFacts DEF Tick, QueueTypes
  <2>3. opened' \in [Devices -> 0..Relock]
    BY <1>0, <1>m, DelayAssumption DEF Tick, OtherTypes
  <2> QED
    BY <1>0, <1>1, <1>m, <2>1, <2>2, <2>3 DEF Tick, OtherTypes, Kinds
<1>n. CASE UNCHANGED vars
  BY <1>0, <1>1, <1>n DEF vars, TimerTypes, QueueTypes, OtherTypes, Kinds
<1> QED
  BY <1>a, <1>b, <1>c, <1>d, <1>e, <1>f, <1>g, <1>h, <1>i, <1>j, <1>k, <1>l, <1>m, <1>n
     DEF Next, MainStep

LEMMA TypesAlways == Spec => []TypesInv
  BY TypesInit, TypesStep, PTL DEF Spec

\* Every variable keeps its kind, and no task is linked twice into the queue,
\* for any number of doors and any faults (schedue_add, schedue_del).
THEOREM TypeCorrect == Spec => []TypeOK
  BY TypesAlways, PTL DEF TypesInv

---------------------------------------------------------------------------
(* No task without a function is queued, so that none is called.           *)

NoPendingDelete == "delete_pending" \notin Faults

Callable ==
    /\ main.pc # "dead"
    /\ \A t \in Queued : func[t] # "null"

\* What a deletion leaves: the queue, and the other tasks.
LEMMA DeleteFacts ==
    ASSUME TypesInv, NoPendingDelete, NEW d \in Devices, DeleteDevice(d)
    PROVE  /\ d \notin Queued /\ list' = list /\ Queued' = Queued
           /\ \A t \in Tasks \ {d} : due'[t] = due[t] /\ func'[t] = func[t]
           /\ status' = [status EXCEPT ![d] = 0]
           /\ UNCHANGED <<main, armed, at, cloud, lost, opened>>
<1>1. d \notin Queued
  BY DEF DeleteDevice, NoPendingDelete
<1>2. list' = list
  BY <1>1 DEF DeleteDevice
<1>3. QueueTypes /\ OtherTypes
  BY TypeParts DEF TypesInv
<1> QED
  BY <1>1, <1>2, <1>3 DEF DeleteDevice, Queued, QueueTypes, OtherTypes

\* What queueing by one of the two handlers leaves.
LEMMA InfoReadFacts ==
    ASSUME TypesInv, InfoRead
    PROVE  /\ QueueTypes' /\ Queued' = Queued \cup {Info} /\ list' # << >>
           /\ \A d \in Devices : due'[d] = due[d] /\ func'[d] = func[d]
           /\ func'[Info] = "gw_info" /\ main' = At("timers")
<1>1. QueueTypes /\ OtherTypes /\ Info \in Tasks
  BY TypeParts DEF TypesInv, Tasks
<1>2. PICK ms \in {Retry, Period} : Put(Info, ms, "gw_info")
  BY DEF InfoRead
<1>3. ms \in Delays
  BY DEF Delays
<1>4. /\ QueueTypes' /\ Queued' = Queued \cup {Info} /\ list' # << >>
      /\ due' = [due EXCEPT ![Info] = ms] /\ func' = [func EXCEPT ![Info] = "gw_info"]
  BY <1>1, <1>2, <1>3, PutFacts
<1>5. \A d \in Devices : d \in Tasks /\ d # Info
  BY InfoAssumption DEF Tasks
<1> QED
  BY <1>1, <1>4, <1>5 DEF InfoRead, QueueTypes, OtherTypes

LEMMA AskFacts ==
    ASSUME TypesInv, AskRelock
    PROVE  /\ main.dev \in Devices /\ main = In("opening", main.dev)
           /\ QueueTypes' /\ Queued' = Queued \cup {main.dev} /\ list' # << >>
           /\ \A t \in Tasks \ {main.dev} : due'[t] = due[t] /\ func'[t] = func[t]
           /\ func'[main.dev] = "relock" /\ due'[main.dev] = Relock
           /\ main' = In("notifying", main.dev)
<1>1. QueueTypes /\ OtherTypes /\ Relock \in Delays
  BY TypeParts DEF TypesInv, Delays
<1>2. main.dev \in Devices /\ main = In("opening", main.dev)
  BY <1>1, PlaceFacts DEF AskRelock, OtherTypes
<1>3. main.dev \in Tasks
  BY <1>2 DEF Tasks
<1>4. /\ QueueTypes' /\ Queued' = Queued \cup {main.dev} /\ list' # << >>
      /\ due' = [due EXCEPT ![main.dev] = Relock]
      /\ func' = [func EXCEPT ![main.dev] = "relock"]
  BY <1>1, <1>3, PutFacts DEF AskRelock
<1> QED
  BY <1>1, <1>2, <1>3, <1>4 DEF AskRelock, QueueTypes, OtherTypes

LEMMA CallableStep ==
    TypesInv /\ NoPendingDelete /\ Callable /\ [Next]_vars => Callable'
<1> SUFFICES ASSUME TypesInv, NoPendingDelete, Callable, [Next]_vars
             PROVE  Callable'
  OBVIOUS
<1>0. OtherTypes /\ QueueTypes /\ Queued \subseteq Tasks
  BY TypeParts DEF TypesInv, QueueTypes, Queued
<1>1. ASSUME UNCHANGED <<list, func>>, main'.pc # "dead"
      PROVE  Callable'
  BY <1>1 DEF Callable, Queued
<1>a. CASE EnterPoll
  BY <1>1, <1>a, PlaceFacts DEF EnterPoll
<1>b. CASE PollTimesOut
  BY <1>1, <1>b, PlaceFacts DEF PollTimesOut
<1>c. CASE SyncList
  BY <1>1, <1>c DEF SyncList, Callable
<1>d. CASE RunTask
  <2>1. PICK t \in Tasks :
             /\ t \in Queued /\ due[t] <= 0 /\ Queued' = Queued \ {t} /\ QueueTypes'
             /\ \/ t = Info /\ main' = At("info") /\ UNCHANGED status
                \/ /\ t \in Devices /\ func[t] = "relock" /\ main' = In("relocking", t)
                   /\ status' = [status EXCEPT ![t] = 0]
                \/ func[t] = "null" /\ main' = At("dead") /\ UNCHANGED status
    BY <1>d, RunFacts
  <2>2. main'.pc # "dead"
    BY <2>1, PlaceFacts DEF Callable
  <2> QED
    BY <1>d, <2>1, <2>2 DEF Callable, RunTask
<1>e. CASE Relocked
  BY <1>1, <1>e, PlaceFacts DEF Relocked
<1>f. CASE InfoRead
  BY <1>0, <1>f, InfoReadFacts, PlaceFacts DEF Callable, Tasks
<1>g. CASE AskRelock
  BY <1>0, <1>g, AskFacts, PlaceFacts DEF Callable
<1>h. CASE Notified
  BY <1>1, <1>h, PlaceFacts DEF Notified
<1>i. ASSUME NEW d \in Devices, DoorOpens(d)
      PROVE  Callable'
  BY <1>1, <1>i, PlaceFacts DEF DoorOpens
<1>j. ASSUME NEW d \in Devices, DeleteDevice(d)
      PROVE  Callable'
  BY <1>0, <1>j, DeleteFacts DEF Callable
<1>k. CASE CloudConnected
  BY <1>1, <1>k DEF CloudConnected, Callable
<1>l. CASE CloudDisconnected
  BY <1>1, <1>l DEF CloudDisconnected, Callable
<1>m. CASE Tick
  BY <1>1, <1>m DEF Tick, Callable
<1>n. CASE UNCHANGED vars
  BY <1>1, <1>n DEF vars, Callable
<1> QED
  BY <1>a, <1>b, <1>c, <1>d, <1>e, <1>f, <1>g, <1>h, <1>i, <1>j, <1>k, <1>l, <1>m, <1>n
     DEF Next, MainStep

LEMMA InitQueue ==
    Init => list = <<Info>> /\ Queued = {Info} /\ func[Info] = "gw_info" /\ main.pc = "timers"
  BY PlaceFacts DEF Init, Queued, Tasks

LEMMA CallableAlways == NoPendingDelete => (Spec => []Callable)
<1> SUFFICES ASSUME NoPendingDelete PROVE Spec => []Callable
  OBVIOUS
<1>1. Init => Callable
  BY InitQueue DEF Callable
<1>2. TypesInv /\ Callable /\ [Next]_vars => Callable'
  BY CallableStep
<1> QED
  BY <1>1, <1>2, TypesAlways, PTL DEF Spec

\* The queue never calls a null function, though the linkkit thread zeroes the
\* records that tasks lie in, if it zeroes none whose task is queued
\* (product_sub_free, afly_handler_task_run).
THEOREM TasksAreCallable == NoPendingDelete => (Spec => []TasksCallable)
<1> SUFFICES ASSUME NoPendingDelete PROVE Spec => []TasksCallable
  OBVIOUS
<1>1. Callable => TasksCallable
  BY DEF Callable, TasksCallable
<1> QED
  BY <1>1, CallableAlways, PTL

---------------------------------------------------------------------------
(* The timer behind the queue.                                             *)

\* Inside afly_handler_task_run the timer is off; everywhere else it is set
\* while tasks are queued, and never for later than the first of them or for
\* earlier.
TimerServesQueue ==
    /\ main.pc \in {"relocking", "info"} => "task" \notin armed
    /\ main.pc \notin {"relocking", "info"} /\ Queued # {} => "task" \in armed
    /\ "task" \in armed => Serves

LEMMA TimerStep ==
    TypesInv /\ Callable /\ NoPendingDelete /\ TimerServesQueue /\ [Next]_vars => TimerServesQueue'
<1> SUFFICES ASSUME TypesInv, Callable, NoPendingDelete, TimerServesQueue, [Next]_vars
             PROVE  TimerServesQueue'
  OBVIOUS
<1>0. TimerTypes /\ QueueTypes /\ OtherTypes /\ Queued \subseteq Tasks
  BY TypeParts DEF TypesInv, QueueTypes, Queued
<1>1. ASSUME UNCHANGED <<armed, list, due>>, at'["task"] = at["task"],
             main.pc \in {"relocking", "info"} <=> main'.pc \in {"relocking", "info"}
      PROVE  TimerServesQueue'
  BY <1>1 DEF TimerServesQueue, Serves, Queued
<1>2. ASSUME QueueTypes', Arm, main'.pc \notin {"relocking", "info"},
             main.pc \in {"relocking", "info"} \/ list' # << >>
      PROVE  TimerServesQueue'
  <2>1. CASE list' = << >>
    <3>1. Queued' = {}
      BY <2>1 DEF Queued
    <3>2. "task" \notin armed'
      BY <1>0, <1>2, <2>1, ArmFacts DEF TimerServesQueue
    <3> QED
      BY <1>2, <3>1, <3>2 DEF TimerServesQueue
  <2>2. CASE list' # << >>
    BY <1>0, <1>2, <2>2, ArmFacts DEF TimerServesQueue
  <2> QED
    BY <2>1, <2>2
<1>a. CASE EnterPoll
  BY <1>1, <1>a, PlaceFacts DEF EnterPoll
<1>b. CASE PollTimesOut
  BY <1>1, <1>b, PlaceFacts DEF PollTimesOut
<1>c. CASE SyncList
  <2>1. TimerTypes' /\ armed' = armed \ {"sync"} /\ at'["task"] = at["task"]
    BY <1>0, <1>c, DisarmFacts DEF SyncList, Timers
  <2>2. UNCHANGED <<main, list, due>>
    BY <1>c DEF SyncList
  <2> QED
    BY <2>1, <2>2 DEF TimerServesQueue, Serves, Queued
<1>d. CASE RunTask
  <2>1. "task" \notin armed'
    BY <1>0, <1>d, DisarmFacts DEF RunTask, Timers
  <2>2. main'.pc \in {"relocking", "info"}
    BY <1>d, RunFacts, PlaceFacts DEF Callable
  <2> QED
    BY <2>1, <2>2 DEF TimerServesQueue
<1>e. CASE Relocked
  <2>1. QueueTypes'
    BY <1>0, <1>e DEF Relocked, QueueTypes
  <2> QED
    BY <1>2, <1>e, <2>1, PlaceFacts DEF Relocked
<1>f. CASE InfoRead
  BY <1>2, <1>f, InfoReadFacts, PlaceFacts DEF InfoRead
<1>g. CASE AskRelock
  BY <1>2, <1>g, AskFacts, PlaceFacts DEF AskRelock
<1>h. CASE Notified
  BY <1>1, <1>h, PlaceFacts DEF Notified
<1>i. ASSUME NEW d \in Devices, DoorOpens(d)
      PROVE  TimerServesQueue'
  BY <1>1, <1>i, PlaceFacts DEF DoorOpens
<1>j. ASSUME NEW d \in Devices, DeleteDevice(d)
      PROVE  TimerServesQueue'
  <2>1. /\ Queued' = Queued /\ \A t \in Queued : due'[t] = due[t]
        /\ UNCHANGED <<main, armed, at>>
    BY <1>0, <1>j, DeleteFacts
  <2> QED
    BY <2>1 DEF TimerServesQueue, Serves
<1>k. CASE CloudConnected
  BY <1>1, <1>k DEF CloudConnected
<1>l. CASE CloudDisconnected
  BY <1>1, <1>l DEF CloudDisconnected
<1>m. CASE Tick
  <2>1. UNCHANGED <<main, armed>> /\ Queued' = Queued
    BY <1>m DEF Tick, Queued
  <2>2. ASSUME "task" \in armed
        PROVE  Serves'
    <3>1. /\ at'["task"] = Nearer(at["task"]) /\ at["task"] \in Int
          /\ \A t \in Queued : due'[t] = Nearer(due[t]) /\ due[t] \in Int
      BY <1>0, <1>m, <2>2 DEF Tick, TimerTypes, Timers, QueueTypes
    <3>2. MaxLate \in Nat \ {0}
      BY DelayAssumption
    <3>3. at["task"] > -MaxLate /\ Serves
      BY <1>m, <2>2 DEF Tick, TimerServesQueue
    <3>4. ASSUME NEW t \in Queued
          PROVE  at'["task"] <= NotPast(due'[t])
      BY <3>1, <3>2, <3>3, <3>4 DEF Serves, Nearer, NotPast
    <3>5. PICK t \in Queued : due[t] <= NotPast(at["task"])
      BY <3>3 DEF Serves
    <3>6. due[t] # -MaxLate
      BY <1>m DEF Tick
    <3>7. due'[t] <= NotPast(at'["task"])
      BY <3>1, <3>2, <3>3, <3>5, <3>6 DEF Nearer, NotPast
    <3> QED
      BY <2>1, <3>4, <3>7 DEF Serves
  <2> QED
    BY <2>1, <2>2 DEF TimerServesQueue
<1>n. CASE UNCHANGED vars
  BY <1>1, <1>n DEF vars
<1> QED
  BY <1>a, <1>b, <1>c, <1>d, <1>e, <1>f, <1>g, <1>h, <1>i, <1>j, <1>k, <1>l, <1>m, <1>n
     DEF Next, MainStep

LEMMA TimerInit == Init => TimerServesQueue
<1> SUFFICES ASSUME Init PROVE TimerServesQueue
  OBVIOUS
<1>1. PICK n \in -MaxLate .. Retry :
        /\ at = [t \in Timers |-> IF t = "task" THEN n ELSE SyncDelay]
        /\ due = [t \in Tasks |-> IF t = Info THEN n ELSE Zero]
  BY DEF Init
<1>2. n \in Int /\ at["task"] = n /\ due[Info] = n
  BY <1>1, DelayAssumption DEF Timers, Tasks
<1>3. Serves
  BY <1>2, InitQueue DEF Serves, NotPast
<1> QED
  BY <1>3, InitQueue DEF Init, TimerServesQueue, Timers

\* Whenever tasks are queued the one timer behind them is set, and not for later
\* than the first of them is due; when it fires a task is due (schedue_add,
\* afly_schedue_task_add, afly_handler_task_run).
THEOREM TimerAlwaysCovers == NoPendingDelete => (Spec => []TimerCoversQueue)
<1> SUFFICES ASSUME NoPendingDelete PROVE Spec => []TimerCoversQueue
  OBVIOUS
<1>1. TypesInv /\ Callable /\ TimerServesQueue /\ [Next]_vars => TimerServesQueue'
  BY TimerStep
<1>2. TypesInv /\ TimerServesQueue => TimerCoversQueue
  <2> SUFFICES ASSUME TypesInv, TimerServesQueue PROVE TimerCoversQueue
    OBVIOUS
  <2>1. TimerTypes /\ QueueTypes /\ Queued \subseteq Tasks
    BY TypeParts DEF TypesInv, QueueTypes, Queued
  <2>2. list # << >> => Queued # {}
    BY <2>1, NonEmpty DEF QueueTypes, Queued
  <2>3. at["task"] \in Int /\ \A t \in Queued : due[t] \in Int
    BY <2>1 DEF TimerTypes, Timers, QueueTypes
  <2> QED
    BY <2>2, <2>3 DEF TimerServesQueue, Serves, TimerCoversQueue, NotPast
<1> QED
  BY <1>1, <1>2, TimerInit, TypesAlways, CallableAlways, PTL DEF Spec

---------------------------------------------------------------------------
(* Open doors and their relocking.                                         *)

\* A door is closed as soon as its relocking has begun.
RelocksClosed == main.pc = "relocking" => status[main.dev] = 0

DoorsInv == OpenDoorHasTask /\ RelocksClosed

\* OpenDoorHasTask for one door.
HasTask(d) ==
    (status[d] = 1 \/ cloud[d] = 1) =>
        \/ d \in Queued /\ func[d] = "relock"
        \/ main \in {In("opening", d), In("relocking", d)}
        \/ status[d] = 0 /\ d \in lost

LEMMA DoorsStep ==
    TypesInv /\ Callable /\ NoPendingDelete /\ DoorsInv /\ [Next]_vars => DoorsInv'
<1> SUFFICES ASSUME TypesInv, Callable, NoPendingDelete, DoorsInv, [Next]_vars
             PROVE  DoorsInv'
  OBVIOUS
<1>0. /\ QueueTypes /\ OtherTypes /\ Queued \subseteq Tasks
      /\ \A d \in Devices : d \in Tasks /\ d # Info /\ HasTask(d)
      /\ RelocksClosed
  BY TypeParts, InfoAssumption
     DEF TypesInv, QueueTypes, Queued, Tasks, DoorsInv, HasTask, OpenDoorHasTask
<1>1. ASSUME \A d \in Devices : HasTask(d)', RelocksClosed'
      PROVE  DoorsInv'
  BY <1>1 DEF DoorsInv, HasTask, OpenDoorHasTask
<1>2. ASSUME UNCHANGED <<list, func, status, cloud, lost>>,
             main.pc \notin {"opening", "relocking"}, main'.pc # "relocking"
      PROVE  DoorsInv'
  <2>1. \A d \in Devices : main \notin {In("opening", d), In("relocking", d)}
    BY <1>2, PlaceFacts
  <2> QED
    BY <1>0, <1>1, <1>2, <2>1 DEF HasTask, RelocksClosed, Queued
<1>3. ASSUME UNCHANGED <<main, list, func, status, cloud, lost>>
      PROVE  DoorsInv'
  BY <1>0, <1>1, <1>3 DEF HasTask, RelocksClosed, Queued
<1>a. CASE EnterPoll
  BY <1>2, <1>a, PlaceFacts DEF EnterPoll
<1>b. CASE PollTimesOut
  BY <1>2, <1>b, PlaceFacts DEF PollTimesOut
<1>c. CASE SyncList
  BY <1>3, <1>c DEF SyncList
<1>d. CASE RunTask
  <2>1. PICK t \in Tasks :
             /\ t \in Queued /\ due[t] <= 0 /\ Queued' = Queued \ {t} /\ QueueTypes'
             /\ \/ t = Info /\ main' = At("info") /\ UNCHANGED status
                \/ /\ t \in Devices /\ func[t] = "relock" /\ main' = In("relocking", t)
                   /\ status' = [status EXCEPT ![t] = 0]
                \/ func[t] = "null" /\ main' = At("dead") /\ UNCHANGED status
    BY <1>d, RunFacts
  <2>2. /\ UNCHANGED <<func, cloud, lost>>
        /\ \A d \in Devices : main \notin {In("opening", d), In("relocking", d)}
    BY <1>d, PlaceFacts DEF RunTask
  <2>3. CASE t = Info /\ main' = At("info") /\ UNCHANGED status
    BY <1>0, <1>1, <2>1, <2>2, <2>3, PlaceFacts DEF HasTask, RelocksClosed
  <2>4. CASE /\ t \in Devices /\ main' = In("relocking", t)
             /\ status' = [status EXCEPT ![t] = 0]
    <3>1. \A d \in Devices \ {t} : status'[d] = status[d]
      BY <1>0, <2>4 DEF OtherTypes
    <3>2. status'[t] = 0 /\ main'.pc = "relocking" /\ main'.dev = t
      BY <1>0, <2>4, PlaceFacts DEF OtherTypes
    <3> QED
      BY <1>0, <1>1, <2>1, <2>2, <2>4, <3>1, <3>2 DEF HasTask, RelocksClosed
  <2> QED
    BY <2>1, <2>3, <2>4 DEF Callable
<1>e. CASE Relocked
  <2>1. PICK d \in Devices : d = main.dev /\ main = In("relocking", d) /\ Posted(d, 0)
    BY <1>0, <1>e, PlaceFacts DEF Relocked, OtherTypes
  <2>2. UNCHANGED <<func, status>> /\ Queued' = Queued /\ main'.pc # "relocking"
    BY <1>e, PlaceFacts DEF Relocked, Queued
  <2>3. ASSUME NEW e \in Devices \ {d}
        PROVE  HasTask(e)'
    <3>1. cloud'[e] = cloud[e] /\ (e \in lost => e \in lost')
      BY <1>0, <2>1 DEF Posted, OtherTypes
    <3>2. main \notin {In("opening", e), In("relocking", e)}
      BY <2>1 DEF In
    <3> QED
      BY <1>0, <2>2, <3>1, <3>2 DEF HasTask
  <2>4. HasTask(d)'
    <3>1. status'[d] = 0
      BY <1>0, <2>1, <2>2, PlaceFacts DEF RelocksClosed
    <3>2. cloud'[d] = 0 \/ d \in lost'
      BY <1>0, <2>1 DEF Posted, OtherTypes
    <3> QED
      BY <3>1, <3>2 DEF HasTask
  <2> QED
    BY <1>1, <2>2, <2>3, <2>4 DEF RelocksClosed
<1>f. CASE InfoRead
  <2>1. /\ Queued' = Queued \cup {Info} /\ main'.pc # "relocking"
        /\ \A d \in Devices : func'[d] = func[d]
    BY <1>f, InfoReadFacts, PlaceFacts
  <2>2. /\ UNCHANGED <<status, cloud, lost>>
        /\ \A d \in Devices : main \notin {In("opening", d), In("relocking", d)}
    BY <1>f, PlaceFacts DEF InfoRead
  <2> QED
    BY <1>0, <1>1, <2>1, <2>2 DEF HasTask, RelocksClosed
<1>g. CASE AskRelock
  <2>1. PICK d \in Devices :
          /\ d = main.dev /\ main = In("opening", d) /\ main'.pc # "relocking"
          /\ Queued' = Queued \cup {d} /\ func'[d] = "relock"
          /\ \A t \in Tasks \ {d} : func'[t] = func[t]
    BY <1>g, AskFacts, PlaceFacts
  <2>2. UNCHANGED status /\ Posted(d, 1)
    BY <1>g, <2>1 DEF AskRelock
  <2>3. ASSUME NEW e \in Devices \ {d}
        PROVE  HasTask(e)'
    <3>1. cloud'[e] = cloud[e] /\ (e \in lost => e \in lost')
      BY <1>0, <2>2 DEF Posted, OtherTypes
    <3>2. main \notin {In("opening", e), In("relocking", e)}
      BY <2>1 DEF In
    <3>3. e \in Tasks \ {d}
      BY <1>0
    <3> QED
      BY <1>0, <2>1, <2>2, <3>1, <3>2, <3>3 DEF HasTask
  <2>4. HasTask(d)'
    BY <2>1 DEF HasTask
  <2> QED
    BY <1>1, <2>1, <2>3, <2>4 DEF RelocksClosed
<1>h. CASE Notified
  BY <1>2, <1>h, PlaceFacts DEF Notified
<1>i. ASSUME NEW d \in Devices, DoorOpens(d)
      PROVE  DoorsInv'
  <2>1. /\ main' = In("opening", d) /\ main'.pc # "relocking"
        /\ UNCHANGED <<func, cloud, lost>> /\ Queued' = Queued
        /\ \A e \in Devices : main \notin {In("opening", e), In("relocking", e)}
        /\ \A e \in Devices \ {d} : status'[e] = status[e]
    BY <1>0, <1>i, PlaceFacts DEF DoorOpens, OtherTypes, Queued
  <2> QED
    BY <1>0, <1>1, <2>1 DEF HasTask, RelocksClosed
<1>j. ASSUME NEW d \in Devices, DeleteDevice(d)
      PROVE  DoorsInv'
  <2>1. /\ d \notin Queued /\ Queued' = Queued
        /\ \A t \in Tasks \ {d} : func'[t] = func[t]
        /\ status' = [status EXCEPT ![d] = 0]
        /\ UNCHANGED <<main, cloud, lost>>
    BY <1>j, DeleteFacts
  <2>2. status'[d] = 0 /\ \A e \in Devices \ {d} : status'[e] = status[e]
    BY <1>0, <2>1 DEF OtherTypes
  <2>3. HasTask(d)'
    BY <1>0, <2>1, <2>2 DEF HasTask
  <2>4. ASSUME NEW e \in Devices \ {d}
        PROVE  HasTask(e)'
    BY <1>0, <2>1, <2>2 DEF HasTask
  <2>5. RelocksClosed'
    <3>1. main.pc = "relocking" => main.dev \in Devices
      BY <1>0, PlaceFacts DEF OtherTypes
    <3> QED
      BY <1>0, <2>1, <2>2, <3>1 DEF RelocksClosed
  <2> QED
    BY <1>1, <2>3, <2>4, <2>5
<1>k. CASE CloudConnected
  BY <1>3, <1>k DEF CloudConnected
<1>l. CASE CloudDisconnected
  BY <1>3, <1>l DEF CloudDisconnected
<1>m. CASE Tick
  BY <1>3, <1>m DEF Tick
<1>n. CASE UNCHANGED vars
  BY <1>3, <1>n DEF vars
<1> QED
  BY <1>a, <1>b, <1>c, <1>d, <1>e, <1>f, <1>g, <1>h, <1>i, <1>j, <1>k, <1>l, <1>m, <1>n
     DEF Next, MainStep

LEMMA DoorsAlways == NoPendingDelete => (Spec => []DoorsInv)
<1> SUFFICES ASSUME NoPendingDelete PROVE Spec => []DoorsInv
  OBVIOUS
<1>1. Init => DoorsInv
  BY PlaceFacts DEF Init, DoorsInv, OpenDoorHasTask, RelocksClosed
<1>2. TypesInv /\ Callable /\ DoorsInv /\ [Next]_vars => DoorsInv'
  BY DoorsStep
<1> QED
  BY <1>1, <1>2, TypesAlways, CallableAlways, PTL DEF Spec

\* A door that counts as open, for the gateway or for the cloud, has its
\* relocking queued, or a handler is at work on it, or the cloud missed the post
\* (subdev_timeout_func and the two handlers that open doors).
THEOREM OpenDoorsHaveTasks == NoPendingDelete => (Spec => []OpenDoorHasTask)
<1> SUFFICES ASSUME NoPendingDelete PROVE Spec => []OpenDoorHasTask
  OBVIOUS
<1>1. DoorsInv => OpenDoorHasTask
  BY DEF DoorsInv
<1> QED
  BY <1>1, DoorsAlways, PTL

---------------------------------------------------------------------------
(* The delay of a relocking.                                               *)

\* What is left of a queued relocking's delay and what has passed since the door
\* was opened make up the whole delay.  A task whose record was zeroed is no
\* relocking any more.
DelayRuns ==
    \A d \in Devices :
        d \in Queued /\ func[d] = "relock" => opened[d] = Relock \/ due[d] + opened[d] >= Relock

\* What a deletion leaves, whether the task of the device is queued or not.
LEMMA DeleteShrinks ==
    ASSUME TypesInv, NEW d \in Devices, DeleteDevice(d)
    PROVE  /\ Queued' \subseteq Queued /\ func'[d] = "null"
           /\ \A t \in Tasks \ {d} : due'[t] = due[t] /\ func'[t] = func[t]
           /\ status' = [status EXCEPT ![d] = 0]
           /\ UNCHANGED <<main, opened>>
<1>1. QueueTypes /\ d \in Tasks
  BY TypeParts DEF TypesInv, Tasks
<1>2. Queued' \subseteq Queued
  <2>1. CASE UNCHANGED list
    BY <2>1 DEF Queued
  <2>2. ASSUME NEW n \in 1..Len(list), list' = SubSeq(list, 1, n)
        PROVE  Queued' \subseteq Queued
    <3>1. list \in Seq(Tasks) /\ Len(list) \in Nat
      BY <1>1 DEF QueueTypes
    <3>2. Len(list') = n /\ \A k \in 1..n : list'[k] = list[k] /\ k \in 1..Len(list)
      BY <2>2, <3>1, SubSeqProperties
    <3> QED
      BY <3>2 DEF Queued
  <2> QED
    BY <2>1, <2>2 DEF DeleteDevice
<1>3. /\ due' = [due EXCEPT ![d] = Zero] /\ func' = [func EXCEPT ![d] = "null"]
      /\ status' = [status EXCEPT ![d] = 0] /\ UNCHANGED <<main, opened>>
  BY DEF DeleteDevice
<1>4. OtherTypes
  BY TypeParts DEF TypesInv
<1>5. func'[d] = "null" /\ \A t \in Tasks \ {d} : due'[t] = due[t] /\ func'[t] = func[t]
  BY <1>1, <1>3, <1>4 DEF QueueTypes, OtherTypes
<1> QED
  BY <1>2, <1>3, <1>5

LEMMA ClosedStep ==
    TypesInv /\ RelocksClosed /\ [Next]_vars => RelocksClosed'
<1> SUFFICES ASSUME TypesInv, RelocksClosed, [Next]_vars, main'.pc = "relocking"
             PROVE  status'[main'.dev] = 0
  BY DEF RelocksClosed
<1>0. QueueTypes /\ OtherTypes
  BY TypeParts DEF TypesInv
<1>1. CASE UNCHANGED <<main, status>>
  BY <1>1 DEF RelocksClosed
<1>2. CASE RunTask
  BY <1>0, <1>2, RunFacts, PlaceFacts DEF OtherTypes
<1>3. CASE EnterPoll \/ PollTimesOut \/ Relocked \/ InfoRead \/ AskRelock \/ Notified
  <2>1. main' = At("poll") \/ main' = At("timers") \/ main'.pc = "notifying"
    BY <1>3, AskFacts, PlaceFacts
       DEF EnterPoll, PollTimesOut, Relocked, InfoRead, Notified
  <2> QED
    BY <2>1, PlaceFacts
<1>4. ASSUME NEW d \in Devices, DoorOpens(d)
      PROVE  FALSE
  BY <1>4, PlaceFacts DEF DoorOpens
<1>5. ASSUME NEW d \in Devices, DeleteDevice(d)
      PROVE  status'[main'.dev] = 0
  <2>1. main' = main /\ status' = [status EXCEPT ![d] = 0]
    BY <1>5, DeleteShrinks
  <2>2. status[main.dev] = 0 /\ main.dev \in Devices
    BY <1>0, <2>1, PlaceFacts DEF RelocksClosed, OtherTypes
  <2> QED
    BY <1>0, <2>1, <2>2 DEF OtherTypes
<1>6. CASE SyncList \/ CloudConnected \/ CloudDisconnected \/ Tick \/ UNCHANGED vars
  BY <1>1, <1>6 DEF SyncList, CloudConnected, CloudDisconnected, Tick, vars
<1> QED
  BY <1>2, <1>3, <1>4, <1>5, <1>6 DEF Next, MainStep

LEMMA ClosedAlways == Spec => []RelocksClosed
<1>1. Init => RelocksClosed
  BY PlaceFacts DEF Init, RelocksClosed
<1>2. TypesInv /\ RelocksClosed /\ [Next]_vars => RelocksClosed'
  BY ClosedStep
<1> QED
  BY <1>1, <1>2, TypesAlways, PTL DEF Spec

LEMMA DelayStep ==
    TypesInv /\ DelayRuns /\ [Next]_vars => DelayRuns'
<1> SUFFICES ASSUME TypesInv, DelayRuns, [Next]_vars
             PROVE  DelayRuns'
  OBVIOUS
<1>0. /\ QueueTypes /\ OtherTypes /\ Queued \subseteq Tasks /\ Relock \in Nat \ {0}
      /\ \A d \in Devices : /\ d \in Tasks /\ d # Info
                            /\ due[d] \in Int /\ opened[d] \in 0..Relock
  BY TypeParts, InfoAssumption, DelayAssumption
     DEF TypesInv, QueueTypes, OtherTypes, Queued, Tasks
<1>1. ASSUME UNCHANGED <<list, due, func, opened>>
      PROVE  DelayRuns'
  BY <1>1 DEF DelayRuns, Queued
<1>a. CASE EnterPoll
  BY <1>1, <1>a DEF EnterPoll
<1>b. CASE PollTimesOut
  BY <1>1, <1>b DEF PollTimesOut
<1>c. CASE SyncList
  BY <1>1, <1>c DEF SyncList
<1>d. CASE RunTask
  <2>1. Queued' \subseteq Queued /\ UNCHANGED <<due, func, opened>>
    BY <1>d, RunFacts DEF RunTask
  <2> QED
    BY <2>1 DEF DelayRuns
<1>e. CASE Relocked
  BY <1>1, <1>e DEF Relocked
<1>f. CASE InfoRead
  <2>1. Queued' = Queued \cup {Info} /\ \A d \in Devices : due'[d] = due[d] /\ func'[d] = func[d]
    BY <1>f, InfoReadFacts
  <2>2. UNCHANGED opened
    BY <1>f DEF InfoRead
  <2> QED
    BY <1>0, <2>1, <2>2 DEF DelayRuns
<1>g. CASE AskRelock
  <2>1. /\ main.dev \in Devices /\ Queued' = Queued \cup {main.dev}
        /\ due'[main.dev] = Relock
        /\ \A t \in Tasks \ {main.dev} : due'[t] = due[t] /\ func'[t] = func[t]
    BY <1>g, AskFacts
  <2>2. opened' = [opened EXCEPT ![main.dev] = 0]
    BY <1>g DEF AskRelock
  <2>3. opened'[main.dev] = 0 /\ \A d \in Devices \ {main.dev} : opened'[d] = opened[d]
    BY <1>0, <2>1, <2>2 DEF OtherTypes
  <2> QED
    BY <1>0, <2>1, <2>3 DEF DelayRuns
<1>h. CASE Notified
  BY <1>1, <1>h DEF Notified
<1>i. ASSUME NEW d \in Devices, DoorOpens(d)
      PROVE  DelayRuns'
  BY <1>1, <1>i DEF DoorOpens
<1>j. ASSUME NEW d \in Devices, DeleteDevice(d)
      PROVE  DelayRuns'
  <2>1. /\ Queued' \subseteq Queued /\ func'[d] = "null" /\ UNCHANGED opened
        /\ \A e \in Devices \ {d} : due'[e] = due[e] /\ func'[e] = func[e]
    BY <1>0, <1>j, DeleteShrinks
  <2> QED
    BY <1>0, <2>1 DEF DelayRuns
<1>k. CASE CloudConnected
  BY <1>1, <1>k DEF CloudConnected
<1>l. CASE CloudDisconnected
  BY <1>1, <1>l DEF CloudDisconnected
<1>m. CASE Tick
  <2>1. /\ Queued' = Queued /\ UNCHANGED func
        /\ \A d \in Devices : /\ due'[d] = Nearer(due[d])
                              /\ opened'[d] = IF opened[d] < Relock THEN opened[d] + 1 ELSE Relock
    BY <1>0, <1>m DEF Tick, Queued
  <2>2. MaxLate \in Nat
    BY DelayAssumption
  <2> QED
    BY <1>0, <2>1, <2>2 DEF DelayRuns, Nearer
<1>n. CASE UNCHANGED vars
  BY <1>1, <1>n DEF vars
<1> QED
  BY <1>a, <1>b, <1>c, <1>d, <1>e, <1>f, <1>g, <1>h, <1>i, <1>j, <1>k, <1>l, <1>m, <1>n
     DEF Next, MainStep

LEMMA DelayAlways == Spec => []DelayRuns
<1>1. Init => DelayRuns
  BY InitQueue, InfoAssumption DEF DelayRuns
<1>2. TypesInv /\ DelayRuns /\ [Next]_vars => DelayRuns'
  BY DelayStep
<1> QED
  BY <1>1, <1>2, TypesAlways, PTL DEF Spec

\* Only a task whose time has come begins the relocking of an open door.
LEMMA RelockStarts ==
    ASSUME TypesInv, RelocksClosed, [Next]_vars, NEW d \in Devices,
           status[d] = 1, main' = In("relocking", d)
    PROVE  d \in Queued /\ due[d] <= 0 /\ func[d] = "relock"
<1>0. main'.pc = "relocking" /\ main'.dev = d
  BY PlaceFacts
<1>1. main' # main
  BY <1>0 DEF RelocksClosed
<1>2. CASE RunTask
  <2>1. PICK t \in Tasks :
             /\ t \in Queued /\ due[t] <= 0
             /\ \/ main' = At("info")
                \/ t \in Devices /\ func[t] = "relock" /\ main' = In("relocking", t)
                \/ main' = At("dead")
    BY <1>2, RunFacts
  <2>2. t = d /\ func[d] = "relock"
    BY <1>0, <2>1, PlaceFacts
  <2> QED
    BY <2>1, <2>2
<1>3. CASE EnterPoll \/ PollTimesOut \/ SyncList \/ Relocked \/ InfoRead \/ AskRelock \/ Notified
  <2>1. main' = main \/ main' = At("poll") \/ main' = At("timers") \/ main'.pc = "notifying"
    <3>1. AskRelock => main'.pc = "notifying"
      BY PlaceFacts, AskFacts
    <3> QED
      BY <1>3, <3>1 DEF EnterPoll, PollTimesOut, SyncList, Relocked, InfoRead, Notified
  <2> QED
    BY <1>0, <1>1, <2>1, PlaceFacts
<1>4. ASSUME NEW e \in Devices, DoorOpens(e) \/ DeleteDevice(e)
      PROVE  FALSE
  <2>1. main' = main \/ main' = In("opening", e)
    BY <1>4 DEF DoorOpens, DeleteDevice
  <2> QED
    BY <1>0, <1>1, <2>1, PlaceFacts
<1>5. CASE CloudConnected \/ CloudDisconnected \/ Tick \/ UNCHANGED vars
  BY <1>1, <1>5 DEF CloudConnected, CloudDisconnected, Tick, vars
<1> QED
  BY <1>2, <1>3, <1>4, <1>5 DEF Next, MainStep

\* A door is never relocked before its delay has passed, counted from the last
\* time it was opened, however often it is opened (schedue_add), and even if the
\* linkkit thread zeroes records whose tasks are queued.
THEOREM NeverRelockedEarly == Spec => NotRelockedEarly
<1> DEFINE A == \A d \in Devices : status[d] = 1 /\ main' = In("relocking", d) => opened[d] >= Relock
<1>1. TypesInv /\ RelocksClosed /\ DelayRuns /\ [Next]_vars => [A]_vars
  <2> SUFFICES ASSUME TypesInv, RelocksClosed, DelayRuns, [Next]_vars,
                      NEW d \in Devices, status[d] = 1, main' = In("relocking", d)
               PROVE  opened[d] >= Relock
    OBVIOUS
  <2>1. d \in Queued /\ due[d] <= 0 /\ func[d] = "relock"
    BY RelockStarts
  <2>2. due[d] \in Int /\ opened[d] \in 0..Relock /\ Relock \in Nat
    BY TypeParts, DelayAssumption DEF TypesInv, QueueTypes, OtherTypes, Tasks
  <2> QED
    BY <2>1, <2>2 DEF DelayRuns
<1> QED
  BY <1>1, TypesAlways, ClosedAlways, DelayAlways, PTL DEF Spec, NotRelockedEarly
---------------------------------------------------------------------------
(* The queue is the abstract one.                                          *)

\* A queued task is late by no more than the bound.
InTime == \A t \in Queued : -MaxLate <= due[t]

LEMMA TickFacts ==
    ASSUME TypesInv, InTime, Tick
    PROVE  /\ Queued' = Queued
           /\ \A t \in Queued : due[t] > -MaxLate /\ due'[t] = due[t] - 1
<1>1. QueueTypes /\ Queued \subseteq Tasks /\ MaxLate \in Nat
  BY TypeParts, DelayAssumption DEF TypesInv, QueueTypes, Queued
<1>2. Queued' = Queued
  BY <1>1 DEF Tick, Queued
<1>3. ASSUME NEW t \in Queued
      PROVE  due[t] > -MaxLate /\ due'[t] = due[t] - 1
  <2>1. t \in Tasks /\ due[t] \in Int /\ due[t] # -MaxLate /\ -MaxLate <= due[t]
    BY <1>1, <1>3 DEF Tick, QueueTypes, InTime
  <2>2. due[t] > -MaxLate
    BY <1>1, <2>1
  <2>3. due'[t] = Nearer(due[t])
    BY <2>1 DEF Tick
  <2> QED
    BY <1>1, <2>1, <2>2, <2>3 DEF Nearer
<1> QED
  BY <1>2, <1>3

\* What a handler asks for is one of the three delays.
LEMMA InfoDelay ==
    ASSUME TypesInv, InfoRead
    PROVE  due'[Info] \in {Retry, Period}
<1>1. PICK ms \in {Retry, Period} : Put(Info, ms, "gw_info")
  BY DEF InfoRead
<1>2. QueueTypes /\ Info \in Tasks
  BY TypeParts DEF TypesInv, Tasks
<1> QED
  BY <1>1, <1>2 DEF Put, QueueTypes

Promised == {Relock, Retry, Period}

LEMMA Lefts ==
    ASSUME TypesInv, NoPendingDelete, InTime, [Next]_vars
    PROVE  /\ InTime'
           /\ [Promise!Next]_Left
<1>0. /\ QueueTypes /\ OtherTypes /\ Queued \subseteq Tasks /\ MaxLate \in Nat
      /\ Promised \subseteq Nat \ {0}
      /\ \A t \in Queued : t \in Tasks /\ due[t] \in Int
  BY TypeParts, DelayAssumption
     DEF TypesInv, QueueTypes, OtherTypes, Queued, Promised
<1>1. ASSUME Queued' = Queued, \A t \in Queued : due'[t] = due[t]
      PROVE  InTime' /\ [Promise!Next]_Left
  <2>1. Left' = Left
    BY <1>1 DEF Left
  <2> QED
    BY <1>1, <2>1 DEF InTime
<1>2. ASSUME UNCHANGED <<list, due>>
      PROVE  InTime' /\ [Promise!Next]_Left
  BY <1>1, <1>2 DEF Queued
<1>3. ASSUME NEW t \in Tasks, due'[t] \in Promised, Queued' = Queued \cup {t},
             \A u \in Queued \ {t} : due'[u] = due[u]
      PROVE  InTime' /\ [Promise!Next]_Left
  <2>1. Left' = [u \in DOMAIN Left \cup {t} |-> IF u = t THEN due'[t] ELSE Left[u]]
    BY <1>3 DEF Left
  <2>2. Promise!Ask(t, due'[t])
    BY <2>1 DEF Promise!Ask, Promise!Asked
  <2>3. Promise!Next
    BY <1>3, <2>2 DEF Promise!Next, Promised
  <2>4. -MaxLate <= due'[t]
    <3>1. due'[t] \in Nat
      BY <1>0, <1>3
    <3> QED
      BY <1>0, <3>1
  <2>5. \A u \in Queued \ {t} : -MaxLate <= due'[u]
    BY <1>3 DEF InTime
  <2>6. \A u \in Queued' : -MaxLate <= due'[u]
    BY <1>3, <2>4, <2>5
  <2>7. InTime'
    BY <2>6 DEF InTime
  <2> QED
    BY <2>3, <2>7
<1>a. CASE EnterPoll \/ PollTimesOut \/ SyncList \/ Relocked \/ Notified
  BY <1>2, <1>a DEF EnterPoll, PollTimesOut, SyncList, Relocked, Notified
<1>b. CASE RunTask
  <2>1. PICK t \in Queued : IsFirst(t, list, due) /\ due[t] <= 0 /\ Drop(t)
    BY <1>b DEF RunTask
  <2>2. Queued' = Queued \ {t} /\ due' = due
    BY <1>0, <1>b, <2>1, DropFacts DEF QueueTypes, RunTask
  <2>3. \A u \in Queued : due[t] <= due[u]
    <3>1. \A u \in Queued : due[t] < due[u] \/ due[t] = due[u]
      BY <2>1 DEF IsFirst, Queued
    <3> QED
      BY <1>0, <3>1
  <2>4. Left' = [u \in DOMAIN Left \ {t} |-> Left[u]]
    BY <2>2 DEF Left
  <2>5. Promise!Run(t)
    BY <2>1, <2>3, <2>4 DEF Promise!Run, Promise!Asked, Left
  <2>6. Promise!Next
    BY <1>0, <2>5 DEF Promise!Next
  <2>7. InTime'
    BY <2>2 DEF InTime
  <2> QED
    BY <2>6, <2>7
<1>c. CASE InfoRead
  <2>1. /\ Queued' = Queued \cup {Info} /\ Info \in Tasks /\ due'[Info] \in Promised
        /\ \A d \in Devices : due'[d] = due[d]
    BY <1>c, InfoReadFacts, InfoDelay DEF Tasks, Promised
  <2>2. \A u \in Queued \ {Info} : due'[u] = due[u]
    BY <1>0, <2>1 DEF Tasks
  <2> QED
    BY <1>3, <2>1, <2>2
<1>d. CASE AskRelock
  <2>1. /\ Queued' = Queued \cup {main.dev} /\ main.dev \in Tasks /\ due'[main.dev] \in Promised
        /\ \A t \in Tasks \ {main.dev} : due'[t] = due[t]
    BY <1>d, AskFacts DEF Tasks, Promised
  <2>2. \A u \in Queued \ {main.dev} : due'[u] = due[u]
    BY <1>0, <2>1
  <2> QED
    BY <1>3, <2>1, <2>2
<1>e. ASSUME NEW d \in Devices, DoorOpens(d)
      PROVE  InTime' /\ [Promise!Next]_Left
  BY <1>2, <1>e DEF DoorOpens
<1>f. ASSUME NEW d \in Devices, DeleteDevice(d)
      PROVE  InTime' /\ [Promise!Next]_Left
  <2>1. d \notin Queued /\ Queued' = Queued /\ \A t \in Tasks \ {d} : due'[t] = due[t]
    BY <1>f, DeleteFacts
  <2> QED
    BY <1>0, <1>1, <2>1
<1>g. CASE CloudConnected \/ CloudDisconnected \/ UNCHANGED vars
  BY <1>2, <1>g DEF CloudConnected, CloudDisconnected, vars
<1>h. CASE Tick
  <2>1. /\ Queued' = Queued
        /\ \A t \in Queued : due[t] > -MaxLate /\ due'[t] = due[t] - 1
    BY <1>h, TickFacts
  <2>2. Left' = [t \in DOMAIN Left |-> Left[t] - 1] /\ \A t \in DOMAIN Left : Left[t] > -MaxLate
    BY <2>1 DEF Left
  <2>3. Promise!Pass
    BY <2>2 DEF Promise!Pass, Promise!Asked
  <2>4. InTime'
    BY <1>0, <2>1 DEF InTime
  <2> QED
    BY <2>3, <2>4 DEF Promise!Next
<1> QED
  BY <1>a, <1>b, <1>c, <1>d, <1>e, <1>f, <1>g, <1>h DEF Next, MainStep

\* List, timer and handlers are the abstract queue: a task stays, with the time
\* last given, until it runs at its turn (schedule.c, afly_handler_task_run).
THEOREM TasksImplementQueue == NoPendingDelete => (Spec => ImplementsQueue)
<1> SUFFICES ASSUME NoPendingDelete PROVE Spec => ImplementsQueue
  OBVIOUS
<1>1. Init => InTime /\ Promise!Init
  <2> SUFFICES ASSUME Init PROVE InTime /\ Promise!Init
    OBVIOUS
  <2>1. PICK n \in -MaxLate .. Retry : due = [t \in Tasks |-> IF t = Info THEN n ELSE Zero]
    BY DEF Init
  <2>2. Queued = {Info} /\ Info \in Tasks /\ due[Info] = n
    BY <2>1, InitQueue DEF Tasks
  <2>3. Left = [u \in {Info} |-> n]
    BY <2>2 DEF Left
  <2>4. Promise!Init
    BY <2>1, <2>2, <2>3 DEF Promise!Init
  <2>5. -MaxLate <= n
    BY <2>1, DelayAssumption
  <2> QED
    BY <2>2, <2>4, <2>5 DEF InTime
<1>2. TypesInv /\ InTime /\ [Next]_vars => InTime' /\ [Promise!Next]_Left
  BY Lefts
<1> QED
  BY <1>1, <1>2, TypesAlways, PTL DEF Spec, ImplementsQueue, Promise!Spec

---------------------------------------------------------------------------
(* The network data: what InfoKeepsRunning needs besides fairness.         *)

InfoAhead == main.pc # "info" => Info \in Queued /\ (due[Info] <= Retry \/ due[Info] <= Period)

\* The next reading is under way, or asked for in no more than the longer delay,
\* with the timer set for it or to be set by the relocking that runs.
NextReadIsSet ==
    \/ main.pc = "info"
    \/ /\ Info \in Queued /\ func[Info] = "gw_info"
       /\ due[Info] <= Retry \/ due[Info] <= Period
       /\ main.pc = "relocking" \/ ("task" \in armed /\ at["task"] <= NotPast(due[Info]))

LEMMA InfoStep ==
    ASSUME TypesInv, Callable, NoPendingDelete, InfoAhead, [Next]_vars
    PROVE  InfoAhead'
<1>0. QueueTypes /\ OtherTypes /\ Info \in Tasks /\ \A d \in Devices : d # Info /\ d \in Tasks
  BY TypeParts, InfoAssumption DEF TypesInv, Tasks
<1>1. ASSUME Queued \subseteq Queued', due'[Info] = due[Info], main.pc # "info"
      PROVE  InfoAhead'
  BY <1>1 DEF InfoAhead
<1>2. ASSUME UNCHANGED <<list, due>>, main'.pc # "info" => main.pc # "info"
      PROVE  InfoAhead'
  BY <1>2 DEF InfoAhead, Queued
<1>a. CASE EnterPoll \/ PollTimesOut
  BY <1>2, <1>a, PlaceFacts DEF EnterPoll, PollTimesOut
<1>b. CASE SyncList \/ CloudConnected \/ CloudDisconnected \/ UNCHANGED vars
  BY <1>2, <1>b DEF SyncList, CloudConnected, CloudDisconnected, vars
<1>c. CASE RunTask
  <2>1. PICK t \in Tasks :
             /\ Queued' = Queued \ {t}
             /\ \/ t = Info /\ main' = At("info")
                \/ t \in Devices
                \/ func[t] = "null" /\ t \in Queued
    BY <1>c, RunFacts
  <2>2. CASE main' = At("info")
    BY <2>2, PlaceFacts DEF InfoAhead
  <2>3. CASE t \in Devices
    <3>1. main.pc # "info" /\ UNCHANGED due
      BY <1>c, PlaceFacts DEF RunTask
    <3> QED
      BY <1>0, <2>1, <2>3, <3>1 DEF InfoAhead
  <2> QED
    BY <2>1, <2>2, <2>3 DEF Callable
<1>d. CASE Relocked \/ Notified
  BY <1>2, <1>d, PlaceFacts DEF Relocked, Notified
<1>e. CASE InfoRead
  <2>1. due'[Info] \in {Retry, Period} /\ Info \in Queued'
    BY <1>e, InfoReadFacts, InfoDelay
  <2>2. Retry \in Nat /\ Period \in Nat
    BY DelayAssumption
  <2> QED
    BY <2>1, <2>2 DEF InfoAhead
<1>f. CASE AskRelock
  <2>1. Queued \subseteq Queued' /\ due'[Info] = due[Info] /\ main.pc # "info"
    BY <1>0, <1>f, AskFacts, PlaceFacts
  <2> QED
    BY <1>1, <2>1
<1>g. ASSUME NEW d \in Devices, DoorOpens(d)
      PROVE  InfoAhead'
  BY <1>2, <1>g, PlaceFacts DEF DoorOpens
<1>h. ASSUME NEW d \in Devices, DeleteDevice(d)
      PROVE  InfoAhead'
  BY <1>0, <1>h, DeleteFacts DEF InfoAhead
<1>i. CASE Tick
  <2>1. Queued' = Queued /\ main' = main /\ due'[Info] = Nearer(due[Info])
    BY <1>0, <1>i DEF Tick, Queued
  <2>2. Nearer(due[Info]) <= due[Info]
    BY <1>0 DEF QueueTypes, Nearer
  <2>3. due[Info] \in Int /\ due'[Info] \in Int /\ Retry \in Int /\ Period \in Int
    BY <1>0, <2>1, DelayAssumption DEF QueueTypes, Nearer
  <2> QED
    BY <2>1, <2>2, <2>3 DEF InfoAhead
<1> QED
  BY <1>a, <1>b, <1>c, <1>d, <1>e, <1>f, <1>g, <1>h, <1>i DEF Next, MainStep

\* While no device is deleted whose task is queued, the next reading of the
\* network data is always set, however doors are opened and devices deleted:
\* gw_info_func queues itself again, on every path and behind any other task.
THEOREM NextReadAlwaysSet == NoPendingDelete => (Spec => []NextReadIsSet)
<1> SUFFICES ASSUME NoPendingDelete PROVE Spec => []NextReadIsSet
  OBVIOUS
<1>1. Init => InfoAhead
  <2> SUFFICES ASSUME Init PROVE InfoAhead
    OBVIOUS
  <2>1. PICK n \in -MaxLate .. Retry : due = [t \in Tasks |-> IF t = Info THEN n ELSE Zero]
    BY DEF Init
  <2>2. Queued = {Info} /\ due[Info] = n /\ n <= Retry
    BY <2>1, InitQueue, DelayAssumption DEF Tasks
  <2> QED
    BY <2>2 DEF InfoAhead
<1>2. TypesInv /\ Callable /\ InfoAhead /\ [Next]_vars => InfoAhead'
  BY InfoStep
<1>3. TypesInv /\ InfoAhead /\ TimerCoversQueue => NextReadIsSet
  <2> SUFFICES ASSUME TypesInv, InfoAhead, TimerCoversQueue, main.pc # "info"
               PROVE  NextReadIsSet
    BY DEF NextReadIsSet
  <2>1. Info \in Queued /\ func[Info] = "gw_info"
    BY DEF InfoAhead, TypesInv, Kinds
  <2>2. list # << >>
    BY <2>1 DEF Queued
  <2> QED
    BY <2>1, <2>2 DEF InfoAhead, TimerCoversQueue, NextReadIsSet
<1> QED
  BY <1>1, <1>2, <1>3, TypesAlways, CallableAlways, TimerAlwaysCovers, PTL DEF Spec
=============================================================================
