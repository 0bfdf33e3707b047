---------------------------- MODULE HalTcpProofs ----------------------------
(***************************************************************************)
(* Proofs about HalTcp for any lengths, timeouts and buffers.              *)
(***************************************************************************)
EXTENDS HalTcp, TLAPS

(* What the system took, or the buffer holds, is what was counted and what *)
(* the running send has taken.                                             *)
CountIsData ==
    /\ Len(data) = moved + taken
    /\ at # "io" \/ op = "read" => taken = 0

(* The bytes waiting come after those that a read has counted.             *)
QueueNumbered ==
    /\ given = IF op = "read" THEN moved ELSE 0
    /\ \A i \in 1..Len(queue) : queue[i] = given + i

(* The time is accounted for, except past the end in a send that waits.    *)
TimeIsCounted ==
    at # "idle" =>
        \/ spent + left = wait
        \/ op = "write" /\ at = "io" /\ left = 0

(* An error of recv kept for the next read: the connection has nothing     *)
(* else.                                                                   *)
OwedIsBroken ==
    owed = "io" => /\ conn # "open" /\ queue = << >>
                   /\ at # "idle" /\ op = "read" => moved = 0

IInv ==
    /\ TypeOK
    /\ CountIsData
    /\ QueueNumbered
    /\ TimeIsCounted
    /\ OwedIsBroken
    /\ InOrder

LEMMA InitIInv == Init => IInv
<1> SUFFICES ASSUME Init PROVE IInv
  OBVIOUS
<1>1. /\ data = << >> /\ Len(data) = 0 /\ data \in Seq(Nat)
      /\ queue = << >> /\ Len(queue) = 0 /\ queue \in Seq(Nat)
  BY DEF Init
<1>2. ready \in BOOLEAN /\ owed = "no"
  BY DEF Init
<1>3. TypeOK
  BY <1>1, <1>2, BoundsAssumption DEF Init, TypeOK
<1>4. CountIsData /\ QueueNumbered /\ TimeIsCounted
  BY <1>1 DEF Init, CountIsData, QueueNumbered, TimeIsCounted
<1>5. OwedIsBroken /\ InOrder
  BY <1>1, <1>2 DEF OwedIsBroken, InOrder
<1> QED  BY <1>3, <1>4, <1>5 DEF IInv

(* Returning, or going on, with what was counted.                          *)
LEMMA ReturnKinds ==
  ASSUME IInv, at # "idle", NEW n \in 0..len, NEW err \in {-2, -1, 0}, Return(n, err)
  PROVE  /\ at' = "idle" /\ res' \in -2..MaxLen /\ owed' \in {"no", "select", "io"}
         /\ owed' = "io" => owed = "io" \/ (at = "io" /\ op = "read" /\ n # 0 /\ err # 0)
<1>1. res' \in -2..MaxLen
  <2>1. n \in -2..MaxLen /\ err \in -2..MaxLen
    BY BoundsAssumption DEF IInv, TypeOK
  <2> QED  BY <2>1 DEF Return, Result
<1>2. at \in {"loop", "select", "io"} /\ op \in {"read", "write"} /\ owed \in {"no", "select", "io"}
  BY DEF IInv, TypeOK
<1>3. owed' \in {"no", "select", "io"}
  BY <1>2 DEF Return
<1>4. owed' = "io" => owed = "io" \/ (at = "io" /\ op = "read" /\ n # 0 /\ err # 0)
  BY <1>2 DEF Return
<1> QED  BY <1>1, <1>3, <1>4 DEF Return

LEMMA GoOnKinds ==
  ASSUME IInv, at # "idle", NEW n \in 0..len, GoOn(n)
  PROVE  /\ at' \in {"idle", "loop"} /\ res' \in -2..MaxLen /\ owed' \in {"no", "select", "io"}
         /\ owed' = "io" => owed = "io"
         /\ op = "write" /\ at' = "loop" => left > 0
<1>1. CASE Stay /\ (op = "read" \/ left > 0)
  <2>1. op = "read" => op # "write"
    OBVIOUS
  <2> QED  BY <1>1, <2>1 DEF Stay, IInv, TypeOK
<1>2. CASE Return(n, 0)
  BY <1>2, ReturnKinds
<1> QED  BY <1>1, <1>2 DEF GoOn

(* A piece of the stream, put where the buffer ends.                       *)
LEMMA PiecePut ==
  ASSUME IInv, op = "read", NEW n \in 0..Len(queue)
  PROVE  LET piece == SubSeq(queue, 1, n)
         IN  /\ Put(piece) \in Seq(Nat) /\ Len(Put(piece)) = moved + n
             /\ \A i \in 1..(moved + n) : Put(piece)[i] = i
<1> DEFINE piece == SubSeq(queue, 1, n)  m == moved + n
<1>1. /\ queue \in Seq(Nat) /\ Len(queue) \in Nat /\ n \in Nat /\ moved \in Nat /\ m \in Nat
      /\ Len(data) = moved
  BY DEF IInv, TypeOK, CountIsData
<1>2. Len(piece) = n /\ \A k \in 1..n : piece[k] = moved + k
  <2>1. \A k \in 1..n : queue[k] = moved + k
    BY <1>1 DEF IInv, QueueNumbered
  <2> QED  BY <1>1, <2>1
<1> HIDE DEF piece
<1>3. moved + Len(piece) > Len(data) \/ (n = 0 /\ m = Len(data))
  BY <1>1, <1>2
<1>4. Put(piece) = [i \in 1..m |-> IF moved < i /\ i <= m THEN piece[i - moved] ELSE data[i]]
  BY <1>1, <1>2, <1>3 DEF Put, Written
<1>5. \A i \in 1..m : (IF moved < i /\ i <= m THEN piece[i - moved] ELSE data[i]) = i
  <2> SUFFICES ASSUME NEW i \in 1..m
               PROVE  (IF moved < i /\ i <= m THEN piece[i - moved] ELSE data[i]) = i
    OBVIOUS
  <2>1. CASE moved < i
    <3>1. i - moved \in 1..n /\ moved + (i - moved) = i /\ i <= m
      BY <1>1, <2>1
    <3> QED  BY <1>2, <2>1, <3>1
  <2>2. CASE ~(moved < i)
    <3>1. i \in 1..Len(data)
      BY <1>1, <2>2
    <3> QED  BY <2>2, <3>1 DEF IInv, InOrder
  <2> QED  BY <2>1, <2>2
<1>6. \A i \in 1..m : i \in Nat
  BY <1>1
<1> HIDE DEF m
<1>7. Put(piece) \in Seq(Nat) /\ Len(Put(piece)) = m /\ \A i \in 1..m : Put(piece)[i] = i
  <2>1. Put(piece) = [i \in 1..m |-> i]
    BY <1>4, <1>5
  <2> QED  BY <1>1, <1>6, <2>1
<1> QED  BY <1>7 DEF piece, m

LEMMA CallIInv == IInv /\ Call => IInv'
<1> SUFFICES ASSUME IInv, Call PROVE IInv'
  OBVIOUS
<1>1. data' = << >> /\ Len(data') = 0 /\ data' \in Seq(Nat)
  BY DEF Call
<1>2. conn' = conn /\ space' = space /\ taken' = taken /\ owed' = owed /\ ready' \in BOOLEAN
  BY DEF Call
<1>3. /\ op' \in {"write", "read"} /\ len' \in 1..MaxLen /\ wait' \in 0..MaxWait
      /\ left' = wait' /\ spent' = 0 /\ moved' = 0 /\ res' = 0 /\ at' = "loop" /\ given' = 0
  BY DEF Call
<1>4. taken = 0
  BY DEF Call, IInv, CountIsData
<1>5. left' \in 0..wait' /\ spent' \in 0..(wait' + 1) /\ moved' \in 0..len'
      /\ Len(data') <= len' /\ res' \in -2..MaxLen /\ spent' + left' = wait'
      /\ taken' \in 0..(len' - moved') /\ given' \in 0..MaxLen
  <2>1. wait' \in Nat /\ len' \in Nat /\ MaxLen \in Nat
    BY <1>3, BoundsAssumption
  <2>2. left' \in 0..wait' /\ spent' \in 0..(wait' + 1) /\ spent' + left' = wait'
    <3>1. \A w \in Nat : w \in 0..w /\ 0 \in 0..(w + 1) /\ 0 + w = w
      OBVIOUS
    <3>2. left' = wait' /\ spent' = 0
      BY <1>3
    <3> QED  BY <2>1, <3>1, <3>2, Zenon
  <2>3. moved' \in 0..len' /\ res' \in -2..MaxLen /\ given' \in 0..MaxLen
    BY <1>3, <2>1
  <2>4. Len(data') <= len' /\ taken' \in 0..(len' - moved')
    <3>1. \A n \in Nat : 0 <= n /\ 0 \in 0..(n - 0)
      OBVIOUS
    <3>2. Len(data') = 0 /\ taken' = 0 /\ moved' = 0
      BY <1>1, <1>2, <1>3, <1>4
    <3> QED  BY <2>1, <3>1, <3>2, Zenon
  <2> QED  BY <2>2, <2>3, <2>4
<1>6. /\ queue' \in Seq(Nat) /\ Len(queue') = Len(queue) /\ Len(queue') <= Capacity
      /\ \A i \in 1..Len(queue') : queue'[i] = given' + i
  <2>1. queue \in Seq(Nat) /\ Len(queue) <= Capacity /\ queue' = [i \in 1..Len(queue) |-> i]
    BY DEF Call, IInv, TypeOK
  <2> QED  BY <1>3, <2>1
<1>7. TypeOK'
  BY <1>1, <1>2, <1>3, <1>5, <1>6 DEF IInv, TypeOK
<1>8. CountIsData' /\ TimeIsCounted' /\ QueueNumbered'
  <2>1. Len(data') = moved' + taken' /\ taken' = 0
    <3>1. Len(data') = 0 /\ taken' = 0 /\ moved' = 0 /\ 0 + 0 = 0
      BY <1>1, <1>2, <1>3, <1>4
    <3> QED  BY <3>1, Zenon
  <2>2. given' = IF op' = "read" THEN moved' ELSE 0
    BY <1>3
  <2> QED  BY <1>5, <1>6, <2>1, <2>2, Zenon DEF CountIsData, TimeIsCounted, QueueNumbered
<1>9. OwedIsBroken'
  <2>1. queue = << >> => queue' = << >>
    BY DEF Call
  <2> QED  BY <1>2, <1>3, <2>1 DEF IInv, OwedIsBroken
<1>10. InOrder'
  BY <1>1 DEF InOrder
<1> QED  BY <1>7, <1>8, <1>9, <1>10 DEF IInv

(* Steps of a call that move no bytes.                                     *)
LEMMA NothingMoves ==
  ASSUME IInv, UNCHANGED <<space, queue, given, taken, op, len, wait, left, spent, moved, data>>,
         at' \in {"idle", "loop", "select", "io"}, ready' \in BOOLEAN,
         res' \in -2..MaxLen, owed' \in {"no", "select", "io"},
         conn' = conn \/ (conn' = "dead" /\ conn # "open"),
         at' # "io" /\ op = "write" => taken = 0,
         (at # "idle" /\ spent + left = wait) \/ at' = "idle",
         owed' = "io" => \/ owed = "io" /\ at # "idle"
                         \/ conn # "open" /\ queue = << >> /\ at' = "idle"
  PROVE  IInv'
<1>1. TypeOK'
  BY DEF IInv, TypeOK
<1>2. CountIsData' /\ QueueNumbered' /\ TimeIsCounted'
  BY DEF IInv, TypeOK, CountIsData, QueueNumbered, TimeIsCounted
<1>3. OwedIsBroken'
  BY DEF IInv, OwedIsBroken
<1>4. InOrder'
  BY DEF IInv, InOrder
<1> QED  BY <1>1, <1>2, <1>3, <1>4 DEF IInv

LEMMA LoopIInv == IInv /\ Loop => IInv'
<1> SUFFICES ASSUME IInv, Loop PROVE IInv'
  OBVIOUS
<1>1. moved \in 0..len /\ UNCHANGED <<conn, space, queue, given, taken, op, len, wait, left, spent, ready, moved, data>>
  BY DEF IInv, TypeOK, Loop, network, params
<1>2. /\ at' \in {"idle", "select", "io"} /\ res' \in -2..MaxLen
      /\ owed' \in {"no", "select", "io"}
      /\ owed' = "io" => owed = "io"
  <2>1. CASE Return(moved, 0)
    BY <1>1, <2>1, ReturnKinds DEF Loop
  <2>2. CASE at' \in {"select", "io"} /\ UNCHANGED <<res, owed>>
    BY <2>2 DEF IInv, TypeOK
  <2> QED  BY <2>1, <2>2 DEF Loop
<1>3. at = "loop" /\ taken = 0 /\ spent + left = wait /\ ready' \in BOOLEAN
  BY <1>1 DEF Loop, IInv, TypeOK, CountIsData, TimeIsCounted
<1> QED  BY <1>1, <1>2, <1>3, NothingMoves

LEMMA SelectIInv == IInv /\ (SelectReady \/ SelectTimesOut \/ SelectFails) => IInv'
<1> SUFFICES ASSUME IInv, SelectReady \/ SelectTimesOut \/ SelectFails PROVE IInv'
  OBVIOUS
<1>1. moved \in 0..len /\ UNCHANGED <<conn, space, queue, given, taken, op, len, wait, left, spent, moved, data>>
  BY DEF IInv, TypeOK, SelectReady, SelectTimesOut, SelectFails, network, params
<1>2. at = "select" /\ taken = 0 /\ spent + left = wait
  BY DEF SelectReady, SelectTimesOut, SelectFails, IInv, CountIsData, TimeIsCounted
<1>3. /\ at' \in {"idle", "loop", "io"} /\ res' \in -2..MaxLen /\ ready' \in BOOLEAN
      /\ owed' \in {"no", "select", "io"}
      /\ owed' = "io" => owed = "io"
  <2>1. CASE SelectReady
    BY <2>1 DEF SelectReady, IInv, TypeOK
  <2>2. CASE SelectTimesOut
    BY <1>1, <1>2, <2>2, ReturnKinds DEF SelectTimesOut, IInv, TypeOK
  <2>3. CASE SelectFails
    <3>1. ready' \in BOOLEAN
      BY <2>3 DEF SelectFails
    <3>2. Return(moved, 0) \/ Return(moved, -2) \/ GoOn(moved)
      BY <2>3 DEF SelectFails
    <3> QED  BY <1>1, <1>2, <3>1, <3>2, ReturnKinds, GoOnKinds
  <2> QED  BY <2>1, <2>2, <2>3
<1> QED  BY <1>1, <1>2, <1>3, NothingMoves

LEMMA SendTakesIInv == IInv /\ SendTakes => IInv'
<1> SUFFICES ASSUME IInv, SendTakes PROVE IInv'
  OBVIOUS
<1> DEFINE n == moved + taken
<1>1. /\ at = "io" /\ op = "write" /\ n < len /\ data \in Seq(Nat) /\ Len(data) = n
      /\ UNCHANGED <<conn, queue, given, op, len, wait, at, left, spent, ready, moved, res, owed>>
      /\ space' = space - 1 /\ space > 0 /\ taken' = taken + 1
  BY DEF SendTakes, params, IInv, TypeOK, CountIsData
<1>2. moved \in 0..len /\ taken \in 0..(len - moved) /\ len \in 1..MaxLen /\ MaxLen \in Nat
  BY BoundsAssumption DEF IInv, TypeOK
<1>3. n \in Nat /\ NextByte = n + 1 /\ data' = Append(data, n + 1)
  BY <1>2 DEF SendTakes, NextByte
<1>4. taken' \in 0..(len' - moved') /\ n + 1 <= len /\ moved' + taken' = n + 1
  BY <1>1, <1>2
<1> HIDE DEF n
<1>5. /\ data' \in Seq(Nat) /\ Len(data') = n + 1
      /\ \A i \in 1..(n + 1) : data'[i] = IF i <= n THEN data[i] ELSE n + 1
  BY <1>1, <1>3
<1>6. TypeOK'
  <2>1. space' \in 0..Capacity
    BY <1>1, BoundsAssumption DEF IInv, TypeOK
  <2> QED  BY <1>1, <1>3, <1>4, <1>5, <2>1 DEF IInv, TypeOK
<1>7. CountIsData' /\ TimeIsCounted' /\ QueueNumbered'
  BY <1>1, <1>4, <1>5 DEF IInv, CountIsData, TimeIsCounted, QueueNumbered
<1>8. OwedIsBroken'
  BY <1>1 DEF IInv, OwedIsBroken
<1>9. InOrder'
  BY <1>1, <1>3, <1>5 DEF IInv, InOrder
<1> QED  BY <1>6, <1>7, <1>8, <1>9 DEF IInv

LEMMA SendReturnsIInv == IInv /\ SendReturns => IInv'
<1> SUFFICES ASSUME IInv, SendReturns PROVE IInv'
  OBVIOUS
<1>1. /\ at = "io" /\ op = "write" /\ Counted = moved + taken
      /\ moved' = moved + taken /\ taken' = 0 /\ ready' = TRUE
      /\ UNCHANGED <<conn, space, queue, given, op, len, wait, left, spent, data>>
  BY DEF SendReturns, params, Counted
<1>2. moved \in 0..len /\ taken \in 0..(len - moved) /\ len \in 1..MaxLen /\ MaxLen \in Nat
  BY BoundsAssumption DEF IInv, TypeOK
<1>3. Counted \in 0..len /\ moved' \in 0..len /\ 0 \in 0..(len - moved')
  BY <1>1, <1>2
<1>4. /\ at' \in {"idle", "loop"} /\ res' \in -2..MaxLen /\ owed' \in {"no", "select", "io"}
      /\ owed' = "io" => owed = "io"
      /\ at' = "loop" => left > 0
  BY <1>1, <1>3, GoOnKinds DEF SendReturns
<1>5. TypeOK'
  BY <1>1, <1>3, <1>4 DEF IInv, TypeOK
<1>6. CountIsData' /\ QueueNumbered'
  BY <1>1, <1>2 DEF IInv, CountIsData, QueueNumbered
<1>7. TimeIsCounted'
  BY <1>1, <1>4 DEF IInv, TypeOK, TimeIsCounted
<1>8. OwedIsBroken' /\ InOrder'
  BY <1>1, <1>4 DEF IInv, OwedIsBroken, InOrder
<1> QED  BY <1>5, <1>6, <1>7, <1>8 DEF IInv

LEMMA SendEndsIInv == IInv /\ (SendInterrupted \/ SendFails) => IInv'
<1> SUFFICES ASSUME IInv, SendInterrupted \/ SendFails PROVE IInv'
  OBVIOUS
<1>1. /\ at = "io" /\ op = "write" /\ taken = 0 /\ moved \in 0..len /\ ready' \in BOOLEAN
      /\ UNCHANGED <<space, queue, given, taken, op, len, wait, left, spent, moved, data>>
      /\ conn' = conn \/ (conn' = "dead" /\ conn # "open")
      /\ GoOn(moved) \/ Return(moved, 0)
  BY DEF SendInterrupted, SendFails, network, params, Broken, IInv, TypeOK
<1>2. /\ at' \in {"idle", "loop"} /\ res' \in -2..MaxLen /\ owed' \in {"no", "select", "io"}
      /\ owed' = "io" => owed = "io"
      /\ at' = "loop" => left > 0
  BY <1>1, ReturnKinds, GoOnKinds
<1>3. spent + left = wait \/ at' = "idle"
  BY <1>1, <1>2 DEF IInv, TypeOK, TimeIsCounted
<1> QED  BY <1>1, <1>2, <1>3, NothingMoves

LEMMA RecvReturnsIInv == IInv /\ RecvReturns => IInv'
<1> SUFFICES ASSUME IInv, RecvReturns PROVE IInv'
  OBVIOUS
<1> DEFINE n == IF Len(queue) < Asked THEN Len(queue) ELSE Asked
           m == moved + n
<1>1. /\ at = "io" /\ op = "read" /\ queue # << >> /\ taken = 0 /\ given = moved
      /\ UNCHANGED <<conn, space, taken, op, len, wait, left, spent, ready>>
      /\ queue' = SubSeq(queue, n + 1, Len(queue)) /\ moved' = m /\ given' = given + n /\ GoOn(m)
      /\ data' = Put(SubSeq(queue, 1, n))
  BY DEF RecvReturns, params, IInv, CountIsData, QueueNumbered
<1>2. /\ queue \in Seq(Nat) /\ Len(queue) \in Nat /\ moved \in 0..len /\ len \in 1..MaxLen
      /\ Len(queue) <= Capacity /\ MaxLen \in Nat /\ Capacity \in Nat
  BY BoundsAssumption DEF IInv, TypeOK
<1>3. n \in 0..Len(queue) /\ n \in Nat /\ m \in 0..len /\ m \in 0..MaxLen
  BY <1>2 DEF Asked
<1> HIDE DEF n
<1>4. data' \in Seq(Nat) /\ Len(data') = m /\ \A i \in 1..m : data'[i] = i
  BY <1>1, <1>3, PiecePut
<1>5. /\ queue' \in Seq(Nat) /\ Len(queue') = Len(queue) - n
      /\ \A i \in 1..Len(queue') : queue'[i] = queue[n + i] /\ n + i \in 1..Len(queue)
  BY <1>1, <1>2, <1>3
<1>6. \A i \in 1..Len(queue') : queue'[i] = m + i
  <2>1. \A i \in 1..Len(queue) : queue[i] = moved + i
    BY <1>1 DEF IInv, QueueNumbered
  <2> SUFFICES ASSUME NEW i \in 1..Len(queue') PROVE queue'[i] = m + i
    OBVIOUS
  <2>2. queue'[i] = moved + (n + i)
    BY <1>5, <2>1
  <2>3. i \in Nat
    BY <1>2, <1>3, <1>5
  <2> QED  BY <1>2, <1>3, <2>2, <2>3
<1>7. at' \in {"idle", "loop"} /\ res' \in -2..MaxLen /\ owed' \in {"no", "select", "io"}
      /\ (owed' = "io" => owed = "io")
  BY <1>1, <1>3, GoOnKinds
<1>8. owed # "io"
  BY <1>1 DEF IInv, OwedIsBroken
<1>9. Len(queue') <= Capacity /\ m <= len /\ 0 \in 0..(len - m)
  BY <1>2, <1>3, <1>5
<1> HIDE DEF m
<1>10. TypeOK'
  <2>1. given' = m
    BY <1>1 DEF m
  <2> QED  BY <1>1, <1>3, <1>4, <1>5, <1>7, <1>9, <2>1 DEF IInv, TypeOK
<1>11. CountIsData' /\ QueueNumbered'
  <2>1. given' = moved' /\ m + 0 = m
    BY <1>1, <1>3 DEF m
  <2> QED  BY <1>1, <1>4, <1>6, <2>1 DEF CountIsData, QueueNumbered
<1>12. TimeIsCounted'
  BY <1>1, <1>7 DEF IInv, TimeIsCounted
<1>13. OwedIsBroken' /\ InOrder'
  BY <1>4, <1>7, <1>8 DEF OwedIsBroken, InOrder
<1> QED  BY <1>10, <1>11, <1>12, <1>13 DEF IInv

LEMMA RecvEndsIInv == IInv /\ (RecvClosed \/ RecvFails) => IInv'
<1> SUFFICES ASSUME IInv, RecvClosed \/ RecvFails PROVE IInv'
  OBVIOUS
<1>1. /\ at = "io" /\ op = "read" /\ queue = << >> /\ conn # "open" /\ moved \in 0..len
      /\ UNCHANGED <<space, queue, given, taken, op, len, wait, left, spent, ready, moved, data>>
      /\ conn' = conn \/ conn' = "dead"
      /\ Return(moved, -1) \/ Return(moved, -2)
  BY DEF RecvClosed, RecvFails, network, params, IInv, TypeOK
<1>2. at' = "idle" /\ res' \in -2..MaxLen /\ owed' \in {"no", "select", "io"} /\ ready' \in BOOLEAN
  BY <1>1, ReturnKinds DEF IInv, TypeOK
<1>3. op # "write"
  BY <1>1
<1> QED  BY <1>1, <1>2, <1>3, NothingMoves

LEMMA WorldIInv == IInv /\ (PeerSends \/ PeerTakes \/ ConnectionEnds \/ Reconnect) => IInv'
<1> SUFFICES ASSUME IInv, PeerSends \/ PeerTakes \/ ConnectionEnds \/ Reconnect PROVE IInv'
  OBVIOUS
<1>1. UNCHANGED <<given, taken, op, len, wait, at, left, spent, ready, moved, data, res>>
  BY DEF PeerSends, PeerTakes, ConnectionEnds, Reconnect, call, params
<1>2. queue \in Seq(Nat) /\ Len(queue) \in Nat /\ given \in Nat
      /\ \A i \in 1..Len(queue) : queue[i] = given + i
  BY BoundsAssumption DEF IInv, TypeOK, QueueNumbered
<1>3. /\ conn' \in {"open", "fin", "reset", "dead"} /\ space' \in 0..Capacity
      /\ queue' \in Seq(Nat) /\ Len(queue') <= Capacity
      /\ \A i \in 1..Len(queue') : queue'[i] = given + i
      /\ owed' \in {"no", "select", "io"}
      /\ owed' = "io" => owed = "io" /\ queue' = << >> /\ conn' # "open"
  <2>1. CASE PeerSends
    <3>1. given + Len(queue) + 1 \in Nat /\ queue' = Append(queue, given + Len(queue) + 1)
      BY <1>2, <2>1 DEF PeerSends
    <3>2. /\ queue' \in Seq(Nat) /\ Len(queue') = Len(queue) + 1
          /\ \A i \in 1..(Len(queue) + 1) :
                 queue'[i] = IF i <= Len(queue) THEN queue[i] ELSE given + Len(queue) + 1
      BY <1>2, <3>1
    <3>3. \A i \in 1..Len(queue') : queue'[i] = given + i
      <4> SUFFICES ASSUME NEW i \in 1..Len(queue') PROVE queue'[i] = given + i
        OBVIOUS
      <4>1. i \in 1..(Len(queue) + 1)
        BY <3>2
      <4>2. CASE i <= Len(queue)
        <5>1. i \in 1..Len(queue)
          BY <1>2, <4>1, <4>2
        <5>2. queue'[i] = queue[i]
          BY <3>2, <4>1, <4>2
        <5> QED  BY <1>2, <5>1, <5>2, Zenon
      <4>3. CASE ~(i <= Len(queue))
        <5>1. i = Len(queue) + 1 /\ given + Len(queue) + 1 = given + i
          BY <1>2, <4>1, <4>3
        <5>2. queue'[i] = given + Len(queue) + 1
          BY <3>2, <4>1, <4>3
        <5> QED  BY <5>1, <5>2, Zenon
      <4> QED  BY <4>2, <4>3
    <3>4. Len(queue') <= Capacity
      BY <1>2, <2>1, <3>2, BoundsAssumption DEF PeerSends
    <3>5. UNCHANGED <<conn, space, owed>> /\ owed # "io"
      BY <2>1 DEF PeerSends, IInv, OwedIsBroken
    <3> QED  BY <3>2, <3>3, <3>4, <3>5 DEF IInv, TypeOK
  <2>2. CASE PeerTakes
    <3>1. UNCHANGED <<conn, queue, owed>>
      BY <2>2 DEF PeerTakes
    <3>2. space' \in 0..Capacity
      BY <2>2, BoundsAssumption DEF PeerTakes, IInv, TypeOK
    <3> QED  BY <1>2, <3>1, <3>2 DEF IInv, TypeOK, OwedIsBroken
  <2>3. CASE ConnectionEnds
    BY <1>2, <2>3 DEF ConnectionEnds, IInv, TypeOK, OwedIsBroken
  <2>4. CASE Reconnect
    <3>1. conn' = "open" /\ space' = Capacity /\ queue' = << >> /\ owed' = "no"
      BY <2>4 DEF Reconnect
    <3>2. Capacity \in 0..Capacity /\ Len(<< >>) <= Capacity /\ << >> \in Seq(Nat)
      BY BoundsAssumption
    <3>3. \A i \in 1..Len(<< >>) : FALSE
      OBVIOUS
    <3> QED  BY <3>1, <3>2, <3>3, Zenon
  <2> QED  BY <2>1, <2>2, <2>3, <2>4
<1>4. TypeOK'
  BY <1>1, <1>3 DEF IInv, TypeOK
<1>5. CountIsData' /\ TimeIsCounted' /\ InOrder'
  BY <1>1 DEF IInv, CountIsData, TimeIsCounted, InOrder
<1>6. QueueNumbered'
  BY <1>1, <1>3 DEF IInv, QueueNumbered
<1>7. OwedIsBroken'
  BY <1>1, <1>3 DEF IInv, OwedIsBroken
<1> QED  BY <1>4, <1>5, <1>6, <1>7 DEF IInv

LEMMA TickIInv == IInv /\ Tick => IInv'
<1> SUFFICES ASSUME IInv, Tick PROVE IInv'
  OBVIOUS
<1>1. UNCHANGED <<conn, space, queue, given, taken, op, len, wait, at, ready, moved, data, res, owed>>
  BY DEF Tick, network, params
<1>2. left \in 0..wait /\ spent \in 0..(wait + 1) /\ wait \in Nat
  BY BoundsAssumption DEF IInv, TypeOK
<1>3. /\ at # "idle"
      /\ left' = (IF left > 0 THEN left - 1 ELSE 0)
      /\ spent' = (IF spent <= wait THEN spent + 1 ELSE spent)
      /\ left = 0 => op = "write" /\ at = "io"
  BY <1>2 DEF Tick, SendWaits
<1>4. left' \in 0..wait /\ spent' \in 0..(wait + 1)
  BY <1>2, <1>3
<1>5. TimeIsCounted'
  BY <1>1, <1>2, <1>3 DEF IInv, TimeIsCounted
<1>6. TypeOK'
  BY <1>1, <1>4 DEF IInv, TypeOK
<1>7. CountIsData' /\ QueueNumbered' /\ OwedIsBroken' /\ InOrder'
  BY <1>1 DEF IInv, CountIsData, QueueNumbered, OwedIsBroken, InOrder
<1> QED  BY <1>5, <1>6, <1>7 DEF IInv

LEMMA NextIInv == IInv /\ [Next]_vars => IInv'
<1>1. ASSUME IInv, UNCHANGED vars PROVE IInv'
  BY <1>1 DEF vars, network, params, IInv, TypeOK, CountIsData, QueueNumbered, TimeIsCounted, OwedIsBroken, InOrder
<1> QED  BY <1>1, CallIInv, LoopIInv, SelectIInv, SendTakesIInv, SendReturnsIInv, SendEndsIInv, RecvReturnsIInv,
            RecvEndsIInv, WorldIInv, TickIInv DEF Next, Step

LEMMA Invariance == Spec => []IInv
  BY InitIInv, NextIInv, PTL DEF Spec

---------------------------------------------------------------------------
(* The theorems.                                                           *)

(* The variables keep their kinds; no call moves more than it was given.   *)
THEOREM TypeCorrect == Spec => []TypeOK
<1>1. IInv => TypeOK
  BY DEF IInv
<1> QED  BY <1>1, Invariance, PTL

(* The bytes sent are those of the caller's buffer, and the bytes in the   *)
(* buffer read into those of the stream, in their order, each once: the    *)
(* pointers are computed from the counts, and the counts from the results  *)
(* of send and recv.                                                       *)
THEOREM BytesInOrder == Spec => []InOrder
<1>1. IInv => InOrder
  BY DEF IInv
<1> QED  BY <1>1, Invariance, PTL

(* No read blocks longer than its timeout.                                 *)
THEOREM ReadsInTime == Spec => []ReadInTime
<1>1. IInv => ReadInTime
  <2> SUFFICES ASSUME IInv, at # "idle", op = "read" PROVE spent <= wait
    BY DEF ReadInTime
  <2>1. left \in Nat /\ spent \in Nat /\ wait \in Nat
    BY BoundsAssumption DEF IInv, TypeOK
  <2>2. spent + left = wait
    BY DEF IInv, TimeIsCounted
  <2> QED  BY <2>1, <2>2
<1> QED  BY <1>1, Invariance, PTL

(* Where a write is late, against what iot_import.h:299 says, it is in     *)
(* send: the loop and select keep to the time.                             *)
THEOREM LateInSendOnly == Spec => [](at # "idle" /\ spent > wait => op = "write" /\ at = "io")
<1>1. IInv => (at # "idle" /\ spent > wait => op = "write" /\ at = "io")
  <2> SUFFICES ASSUME IInv, at # "idle", spent > wait PROVE op = "write" /\ at = "io"
    OBVIOUS
  <2>1. left \in Nat /\ spent \in Nat /\ wait \in Nat
    BY BoundsAssumption DEF IInv, TypeOK
  <2>2. spent + left # wait
    BY <2>1
  <2> QED  BY <2>2 DEF IInv, TimeIsCounted
<1> QED  BY <1>1, Invariance, PTL

(* The result of a call is the number of bytes it moved, if it moved any.  *)
THEOREM ResultsCountBytes == Spec => BytesCounted
<1> DEFINE A == at # "idle" /\ at' = "idle" =>
                  /\ Len(data') > 0 => res' = Len(data')
                  /\ Len(data') = 0 => res' <= 0
<1>1. ASSUME IInv, [Next]_vars PROVE [A]_vars
  <2>1. SUFFICES ASSUME Next, at # "idle", at' = "idle"
                 PROVE  /\ Len(data') > 0 => res' = Len(data')
                        /\ Len(data') = 0 => res' <= 0
    BY <1>1
  <2>2. ASSUME NEW n \in Nat, NEW err \in {-2, -1, 0}, Return(n, err), Len(data') = n
        PROVE  /\ Len(data') > 0 => res' = Len(data')
               /\ Len(data') = 0 => res' <= 0
    BY <2>2 DEF Return, Result
  <2>3. ASSUME NEW n \in Nat, GoOn(n), Len(data') = n
        PROVE  Return(n, 0)
    BY <2>1, <2>3 DEF GoOn, Stay
  <2>4. moved \in Nat /\ Len(data) \in Nat
    BY <1>1 DEF IInv, TypeOK
  <2>5. CASE Loop \/ SelectTimesOut \/ SelectFails
    <3>1. Len(data') = moved
      BY <1>1, <2>4, <2>5 DEF Loop, SelectTimesOut, SelectFails, IInv, CountIsData
    <3>2. Return(moved, 0) \/ Return(moved, -2) \/ GoOn(moved)
      BY <2>1, <2>5 DEF Loop, SelectTimesOut, SelectFails
    <3> QED  BY <2>2, <2>3, <2>4, <3>1, <3>2
  <2>6. CASE SendReturns \/ SendInterrupted \/ SendFails
    <3>1. GoOn(Len(data)) \/ Return(Len(data), 0)
      <4>1. Len(data) = moved + taken /\ moved \in Nat /\ taken \in Nat
        BY <1>1, BoundsAssumption DEF IInv, TypeOK, CountIsData
      <4>2. moved + 0 = moved
        BY <4>1
      <4> QED  BY <2>6, <4>1, <4>2 DEF SendReturns, SendInterrupted, SendFails, Counted
    <3>2. Len(data') = Len(data)
      BY <2>6 DEF SendReturns, SendInterrupted, SendFails
    <3> QED  BY <2>2, <2>3, <2>4, <3>1, <3>2
  <2>7. CASE RecvReturns
    <3>1. GoOn(moved')
      BY <2>7 DEF RecvReturns
    <3>2. Len(data') = moved' /\ moved' \in Nat
      <4>1. op' = "read" /\ IInv'
        BY <1>1, <2>7, RecvReturnsIInv DEF RecvReturns, params
      <4>2. Len(data') = moved' + taken' /\ taken' = 0
        BY <4>1 DEF IInv, CountIsData
      <4>3. moved' \in 0..len' /\ len' \in 1..MaxLen
        BY <4>1 DEF IInv, TypeOK
      <4>4. moved' \in Nat
        BY <4>3, BoundsAssumption
      <4> HIDE DEF A
      <4>5. \A n \in Nat : n + 0 = n
        OBVIOUS
      <4> QED  BY <4>2, <4>4, <4>5, Zenon
    <3> QED  BY <2>2, <2>3, <3>1, <3>2
  <2>8. CASE RecvClosed \/ RecvFails
    <3>1. Len(data') = moved
      BY <1>1, <2>4, <2>8 DEF RecvClosed, RecvFails, IInv, CountIsData
    <3>2. Return(moved, -1) \/ Return(moved, -2)
      BY <2>8 DEF RecvClosed, RecvFails
    <3> QED  BY <2>2, <2>4, <3>1, <3>2
  <2>9. ~(Call \/ SelectReady \/ SendTakes \/ PeerSends \/ PeerTakes \/ ConnectionEnds \/ Reconnect \/ Tick)
    BY <2>1 DEF Call, SelectReady, SendTakes, PeerSends, PeerTakes, ConnectionEnds, Reconnect, Tick, call
  <2> QED  BY <2>1, <2>5, <2>6, <2>7, <2>8, <2>9 DEF Next, Step
<1>2. Spec => [][A]_vars
  BY <1>1, Invariance, PTL DEF Spec
<1> QED  BY <1>2 DEF BytesCounted

(* An error of recv that gave way to data - the connection was closed or   *)
(* broke - is returned by the next read that looks at the connection, as   *)
(* "It will get error code on next calling" says.  An error of select is   *)
(* not: see the run HalTcpSelectError.                                     *)
THEOREM EndsAreKept == Spec => EndIsKept
<1> DEFINE A == owed = "io" /\ Looks /\ at' = "idle" => res' < 0
<1>1. ASSUME IInv, [Next]_vars PROVE [A]_vars
  <2>1. SUFFICES ASSUME Next, owed = "io", op = "read", at \in {"select", "io"}, at' = "idle" PROVE res' < 0
    BY <1>1 DEF Looks
  <2>2. conn # "open" /\ queue = << >> /\ moved = 0
    BY <1>1, <2>1 DEF IInv, OwedIsBroken
  <2>3. ~(Call \/ Loop \/ SelectReady \/ SendTakes \/ SendReturns \/ SendInterrupted \/ SendFails)
    BY <2>1 DEF Call, Loop, SelectReady, SendTakes, SendReturns, SendInterrupted, SendFails
  <2>4. ~(PeerSends \/ PeerTakes \/ ConnectionEnds \/ Reconnect \/ Tick)
    BY <2>1 DEF PeerSends, PeerTakes, ConnectionEnds, Reconnect, Tick, call
  <2>5. ~SelectTimesOut
    BY <2>1, <2>2 DEF SelectTimesOut, Readable
  <2>6. ~RecvReturns
    BY <2>2 DEF RecvReturns
  <2>7. SelectFails \/ RecvClosed \/ RecvFails
    BY <2>1, <2>3, <2>4, <2>5, <2>6 DEF Next, Step
  <2>8. Return(0, -1) \/ Return(0, -2)
    BY <2>1, <2>2, <2>7 DEF SelectFails, RecvClosed, RecvFails
  <2>9. res' = -1 \/ res' = -2
    BY <2>1, <2>8 DEF Return, Result
  <2> QED  BY <2>9
<1>2. Spec => [][A]_vars
  BY <1>1, Invariance, PTL DEF Spec
<1> QED  BY <1>2 DEF EndIsKept

---------------------------------------------------------------------------
(* Why a read returns.  Liveness is beyond these provers; what they can    *)
(* check is the argument: recv never blocks, and every turn of the thread  *)
(* and every tick uses up something a read has only so much of.            *)

(* A read goes on while there is room, and comes to recv when select saw   *)
(* something.                                                              *)
ReadHasWork ==
    op = "read" /\ at # "idle" =>
        /\ moved < len
        /\ at = "io" => Readable

(* Steps to go before the buffer is full, at most three for each byte, and *)
(* the time left.                                                          *)
Stage   == IF at = "loop" THEN 2 ELSE IF at = "select" THEN 1 ELSE 0
Measure == 3 * (len - moved) + Stage + left

(* A step of a read ends it, or leaves less to do; one of the peer leaves  *)
(* it as it was.                                                           *)
ReadSpends ==
    at # "idle" /\ op = "read" =>
        \/ at' = "idle"
        \/ op' = "read" /\ Measure' < Measure
        \/ (PeerSends \/ PeerTakes \/ ConnectionEnds) /\ op' = "read" /\ Measure' = Measure

LEMMA MeasureBounded ==
  ASSUME IInv PROVE Measure \in 0..(3 * MaxLen + 2 + MaxWait)
<1>1. /\ len \in 1..MaxLen /\ moved \in 0..len
      /\ left \in 0..wait /\ wait \in 0..MaxWait /\ Stage \in 0..2
  BY DEF IInv, TypeOK, Stage
<1> QED  BY <1>1, BoundsAssumption DEF Measure

LEMMA ReadWorkKept ==
  ASSUME IInv, ReadHasWork, [Next]_vars PROVE ReadHasWork'
<1>1. CASE UNCHANGED vars
  BY <1>1 DEF vars, ReadHasWork, Readable
<1>2. CASE Call
  <2>1. moved' < len'
    BY <1>2, BoundsAssumption DEF Call
  <2> QED  BY <1>2, <2>1 DEF Call, ReadHasWork
<1>3. CASE Loop \/ SelectTimesOut \/ SelectFails
  BY <1>3 DEF Loop, SelectTimesOut, SelectFails, GoOn, Stay, Return, params, ReadHasWork
<1>4. CASE SelectReady
  BY <1>4 DEF SelectReady, network, params, Readable, ReadHasWork
<1>5. CASE SendTakes \/ SendReturns \/ SendInterrupted \/ SendFails
  BY <1>5 DEF SendTakes, SendReturns, SendInterrupted, SendFails, params, ReadHasWork
<1>6. CASE RecvReturns
  BY <1>6 DEF RecvReturns, GoOn, Stay, Return, params, ReadHasWork
<1>7. CASE RecvClosed \/ RecvFails
  BY <1>7 DEF RecvClosed, RecvFails, Return, ReadHasWork
<1>8. CASE PeerSends \/ PeerTakes \/ ConnectionEnds \/ Reconnect
  <2>1. UNCHANGED <<op, at, len, moved>>
    BY <1>8 DEF PeerSends, PeerTakes, ConnectionEnds, Reconnect, call, params
  <2>2. at # "idle" /\ Readable => Readable'
    <3>1. queue # << >> => Append(queue, given + Len(queue) + 1) # << >>
      BY DEF IInv, TypeOK
    <3> QED  BY <1>8, <3>1 DEF PeerSends, PeerTakes, ConnectionEnds, Reconnect, Readable
  <2> QED  BY <2>1, <2>2 DEF ReadHasWork
<1>9. CASE Tick
  BY <1>9 DEF Tick, network, params, Readable, ReadHasWork
<1> QED  BY <1>1, <1>2, <1>3, <1>4, <1>5, <1>6, <1>7, <1>8, <1>9 DEF Next, Step

LEMMA ReadWork == Spec => []ReadHasWork
<1>1. Init => ReadHasWork
  BY DEF Init, ReadHasWork
<1> QED  BY <1>1, ReadWorkKept, Invariance, PTL DEF Spec

(* recv is called, on a socket that blocks, only when there are bytes or   *)
(* an end of the connection to report: select waits, with the timeout, and *)
(* recv never does.                                                        *)
THEOREM RecvNeverBlocks == Spec => [](op = "read" /\ at = "io" => Readable)
<1>1. ReadHasWork => (op = "read" /\ at = "io" => Readable)
  BY DEF ReadHasWork
<1> QED  BY <1>1, ReadWork, PTL

(* Every step of a read ends it or lessens Measure, a natural number that  *)
(* nothing raises: no read goes round more than its length and its timeout *)
(* allow, however small the pieces the peer sends.                         *)
THEOREM ReadsAreFinite ==
    Spec => /\ [](Measure \in 0..(3 * MaxLen + 2 + MaxWait))
            /\ [][ReadSpends]_vars
<1>1. ASSUME IInv, ReadHasWork, [Next]_vars PROVE [ReadSpends]_vars
  <2> SUFFICES ASSUME Next, at # "idle", op = "read", at' # "idle"
               PROVE  \/ op' = "read" /\ Measure' < Measure
                      \/ (PeerSends \/ PeerTakes \/ ConnectionEnds) /\ op' = "read" /\ Measure' = Measure
    BY <1>1 DEF ReadSpends
  <2>1. /\ len \in Nat /\ moved \in Nat /\ left \in Nat /\ Len(queue) \in Nat
        /\ moved < len
    BY <1>1, BoundsAssumption DEF IInv, TypeOK, ReadHasWork
  <2>2. CASE Loop
    <3>1. at = "loop" /\ at' = "select" /\ UNCHANGED <<op, len, moved, left>>
      BY <2>2 DEF Loop, Return, params
    <3> QED  BY <2>1, <3>1 DEF Measure, Stage
  <2>3. CASE SelectReady
    <3>1. at = "select" /\ at' = "io" /\ UNCHANGED <<op, len, moved, left>>
      BY <2>3 DEF SelectReady, params
    <3> QED  BY <2>1, <3>1 DEF Measure, Stage
  <2>4. CASE RecvReturns
    <3> DEFINE n == IF Len(queue) < Asked THEN Len(queue) ELSE Asked
    <3>q. Len(queue) >= 1
      BY <1>1, <2>4 DEF RecvReturns, IInv, TypeOK
    <3>1. /\ at = "io" /\ at' = "loop" /\ UNCHANGED <<op, len, left>>
          /\ moved' = moved + n /\ n >= 1
      BY <2>1, <2>4, <3>q DEF RecvReturns, GoOn, Stay, Return, params, Asked
    <3>2. n \in Nat
      BY <2>1 DEF Asked
    <3> HIDE DEF n
    <3> QED  BY <2>1, <3>1, <3>2 DEF Measure, Stage
  <2>5. CASE PeerSends \/ PeerTakes \/ ConnectionEnds
    <3>1. UNCHANGED <<op, at, len, moved, left>>
      BY <2>5 DEF PeerSends, PeerTakes, ConnectionEnds, call, params
    <3> QED  BY <2>5, <3>1 DEF Measure, Stage
  <2>6. CASE Tick
    <3>1. left > 0 /\ left' = left - 1 /\ UNCHANGED <<op, at, len, moved>>
      BY <2>6 DEF Tick, SendWaits, params
    <3> QED  BY <2>1, <3>1 DEF Measure, Stage
  <2>7. ~(Call \/ SelectTimesOut \/ SelectFails \/ RecvClosed \/ RecvFails \/ Reconnect)
    BY DEF Call, SelectTimesOut, SelectFails, RecvClosed, RecvFails, Reconnect, Return
  <2>8. ~(SendTakes \/ SendReturns \/ SendInterrupted \/ SendFails)
    BY DEF SendTakes, SendReturns, SendInterrupted, SendFails
  <2> QED  BY <2>2, <2>3, <2>4, <2>5, <2>6, <2>7, <2>8 DEF Next, Step
<1> QED  BY <1>1, MeasureBounded, ReadWork, Invariance, PTL DEF Spec
=============================================================================
