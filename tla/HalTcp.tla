------------------------------- MODULE HalTcp -------------------------------
(***************************************************************************)
(* HAL_TCP_Write and HAL_TCP_Read (HAL_TCP_linux.c), through which the     *)
(* linkkit library talks to the cloud: loops over select and send or recv  *)
(* that move a buffer in pieces until it is done or the time is up.        *)
(*                                                                         *)
(* One thread calls, one call after the other, on a blocking socket.       *)
(* Around it the network takes and brings bytes, the peer closes or resets *)
(* the connection, signals interrupt whatever waits, and time passes.      *)
(*                                                                         *)
(* A byte is its number: in the buffer a write is called with, or in the   *)
(* stream, from the first byte a read can be given.  The numbers travel    *)
(* with the bytes, through the pointers buf + len_sent and buf + len_recv, *)
(* so that a byte lost, repeated or displaced shows.  A call is for at     *)
(* least one byte.                                                         *)
(*                                                                         *)
(* Time is counted in ticks, and left is what _linux_time_left returns.    *)
(* While there is time, any step may take some; afterwards only a system   *)
(* call that waits does.                                                   *)
(***************************************************************************)
EXTENDS Integers, Sequences

CONSTANTS
    MaxLen,     \* bound: bytes of a call
    MaxWait,    \* bound: timeout_ms of a call, in ticks
    Capacity    \* bound: bytes in a buffer of the system

ASSUME BoundsAssumption ==
    /\ MaxLen \in Nat \ {0} /\ MaxWait \in Nat /\ Capacity \in Nat \ {0}

VARIABLES
    conn,       \* the connection: "open", "fin", "reset" (not reported yet), "dead"
    space,      \* room in the system's buffer for what is sent
    queue,      \* bytes received and waiting
    given,      \* bytes recv gave since the call began
    taken,      \* bytes the system took of the running send
    at,         \* where the call is: "idle", "loop", "select", "io"
    op,         \* "write" or "read"
    len,        \* length of the caller's buffer
    wait,       \* timeout_ms
    left,       \* time to t_end
    spent,      \* history: ticks since the call began
    ready,      \* the variable ret of HAL_TCP_Write is positive
    moved,      \* len_sent, len_recv
    data,       \* the bytes the system took, in that order, or the buffer read into
    res,        \* result of the last call
    owed        \* history: the last read that looked at the connection returned data in
                \* place of an error of "select" or of recv ("io"); "no" if it did not

vars == <<conn, space, queue, given, taken, at, op, len, wait, left, spent, ready, moved,
          data, res, owed>>

network == <<conn, space, queue, given, taken>>
params  == <<op, len, wait>>

Broken   == conn \in {"reset", "dead"}

Init ==
    /\ conn = "open" /\ space = Capacity /\ queue = << >> /\ given = 0 /\ taken = 0
    /\ at = "idle" /\ op = "read" /\ len = 1 /\ wait = 0
    /\ left = 0 /\ spent = 0 /\ ready = TRUE
    /\ moved = 0 /\ data = << >> /\ res = 0 /\ owed = "no"

---------------------------------------------------------------------------
(* A call begins, goes round its loop, and returns.                        *)

\* The bytes waiting are those the call will get first.
Call ==
    /\ at = "idle" /\ at' = "loop"
    /\ op' \in {"write", "read"} /\ len' \in 1..MaxLen /\ wait' \in 0..MaxWait
    /\ left' = wait' /\ spent' = 0
    /\ ready' = TRUE
    /\ moved' = 0 /\ data' = << >> /\ res' = 0
    /\ queue' = [i \in 1..Len(queue) |-> i] /\ given' = 0
    /\ UNCHANGED <<conn, space, taken, owed>>

\* A slip: HAL_TCP_Read returns its error first.
ErrorFirst(n, err) == IF err # 0 THEN err ELSE n

\* What HAL_TCP_Read returns for n bytes and an error.
Result(n, err) == IF n # 0 THEN n ELSE err

\* The call returns; HAL_TCP_Write has no error to return.  A read that returns
\* at the beginning of a turn has not looked at the connection.
Return(n, err) ==
    /\ at' = "idle"
    /\ res' = IF op = "read" THEN Result(n, err) ELSE n
    /\ owed' = IF op = "write" \/ at = "loop" THEN owed
               ELSE IF n # 0 /\ err # 0 THEN at ELSE "no"

Stay == at' = "loop" /\ UNCHANGED <<res, owed>>

\* The end of the loop, with n bytes moved: HAL_TCP_Read looks at the time at
\* the beginning of the next turn only.
GoOn(n) ==
    IF n < len /\ (op = "read" \/ left > 0) THEN Stay ELSE Return(n, 0)

\* A slip: the time is counted from each turn of the loop.
LoopAnew ==
    /\ at = "loop"
    /\ at' = "select"
    /\ left' = wait
    /\ UNCHANGED <<network, params, spent, ready, moved, data, res, owed>>

\* The beginning of the loop.  Without time HAL_TCP_Read returns, and
\* HAL_TCP_Write sends without waiting if nothing stood against it before
\* ("send one time if timeout_ms is value 0").
Loop ==
    /\ at = "loop"
    /\ \/ /\ left > 0
          /\ at' = "select" /\ UNCHANGED <<res, owed>>
       \/ /\ left = 0 /\ op = "write" /\ ready
          /\ at' = "io" /\ UNCHANGED <<res, owed>>
       \/ /\ left = 0 /\ op = "read"
          /\ Return(moved, 0)
       \/ /\ left = 0 /\ op = "write" /\ ~ready
          /\ Return(moved, 0)
    /\ UNCHANGED <<network, params, left, spent, ready, moved, data>>

Readable == queue # << >> \/ conn # "open"
Writable == space > 0 \/ Broken

SelectReady ==
    /\ at = "select"
    /\ IF op = "read" THEN Readable ELSE Writable
    /\ at' = "io" /\ ready' = TRUE
    /\ UNCHANGED <<network, params, left, spent, moved, data, res, owed>>

\* A slip: with no time left select is given no timeout at all.
SelectWaitsOn == FALSE

SelectTimesOut ==
    /\ at = "select" /\ left = 0
    /\ ~(IF op = "read" THEN Readable ELSE Writable)
    /\ Return(moved, 0)
    /\ UNCHANGED <<network, params, left, spent, ready, moved, data>>

\* A signal, or an error of select: HAL_TCP_Write goes on after a signal,
\* HAL_TCP_Read takes both for an error of the connection.
SelectFails ==
    /\ at = "select"
    /\ \/ op = "write" /\ GoOn(moved)
       \/ op = "write" /\ Return(moved, 0)
       \/ op = "read" /\ Return(moved, -2)
    /\ ready' = FALSE
    /\ UNCHANGED <<network, params, left, spent, moved, data>>

---------------------------------------------------------------------------
(* send waits until the system took all bytes, a signal comes, or the      *)
(* connection breaks; the bytes taken until then are its result.           *)

\* A slip: every send begins at the beginning of the buffer.
NextByteAnew == taken + 1

\* The byte at buf + len_sent, and the ones after it.
NextByte == moved + taken + 1

SendTakes ==
    /\ at = "io" /\ op = "write"
    /\ ~Broken /\ space > 0 /\ moved + taken < len
    /\ data' = Append(data, NextByte)
    /\ taken' = taken + 1
    /\ space' = space - 1
    /\ UNCHANGED <<conn, queue, given, params, at, left, spent, ready, moved, res, owed>>

\* A slip: the bytes sent are not counted when more are to follow.
CountedAtEnd == IF moved + taken < len THEN moved ELSE moved + taken

\* len_sent += ret
Counted == moved + taken

\* All was taken, or some when a signal or an error came.
SendReturns ==
    /\ at = "io" /\ op = "write" /\ taken > 0
    /\ moved' = Counted /\ taken' = 0 /\ ready' = TRUE
    /\ GoOn(Counted)
    /\ UNCHANGED <<conn, space, queue, given, params, left, spent, data>>

\* A signal before anything was taken.
SendInterrupted ==
    /\ at = "io" /\ op = "write" /\ taken = 0 /\ ~Broken
    /\ ready' = FALSE
    /\ GoOn(moved)
    /\ UNCHANGED <<network, params, left, spent, moved, data>>

SendFails ==
    /\ at = "io" /\ op = "write" /\ taken = 0 /\ Broken
    /\ conn' = "dead"
    /\ ready' = FALSE
    /\ Return(moved, 0)
    /\ UNCHANGED <<space, queue, given, taken, params, left, spent, moved, data>>

---------------------------------------------------------------------------
(* recv takes what there is, in order, up to the length asked for.         *)

\* A slip: every recv asks for the whole length.
AskedAnew == len

Asked == len - moved

\* What a piece written at position from of the buffer makes of it.
Written(piece, from) ==
    LET end == IF from + Len(piece) > Len(data) THEN from + Len(piece) ELSE Len(data)
    IN  [i \in 1..end |-> IF from < i /\ i <= from + Len(piece) THEN piece[i - from] ELSE data[i]]

\* A slip: every recv writes to the beginning of the buffer.
PutAnew(piece) == Written(piece, 0)

\* The bytes go to buf + len_recv.
Put(piece) == Written(piece, moved)

RecvReturns ==
    /\ at = "io" /\ op = "read" /\ queue # << >>
    /\ LET n == IF Len(queue) < Asked THEN Len(queue) ELSE Asked
       IN  /\ data' = Put(SubSeq(queue, 1, n))
           /\ queue' = SubSeq(queue, n + 1, Len(queue))
           /\ given' = given + n
           /\ moved' = moved + n
           /\ GoOn(moved + n)
    /\ UNCHANGED <<conn, space, taken, params, left, spent, ready>>

\* A slip: a closed connection is one on which nothing has arrived.
RecvClosedUnseen ==
    /\ at = "io" /\ op = "read" /\ queue = << >> /\ conn \in {"fin", "dead"}
    /\ Return(moved, 0)
    /\ UNCHANGED <<network, params, left, spent, ready, moved, data>>

\* Nothing more: the peer closed the connection, or the error was reported.
RecvClosed ==
    /\ at = "io" /\ op = "read" /\ queue = << >> /\ conn \in {"fin", "dead"}
    /\ Return(moved, -1)
    /\ UNCHANGED <<network, params, left, spent, ready, moved, data>>

RecvFails ==
    /\ at = "io" /\ op = "read" /\ queue = << >> /\ conn = "reset"
    /\ conn' = "dead"
    /\ Return(moved, -2)
    /\ UNCHANGED <<space, queue, given, taken, params, left, spent, ready, moved, data>>

---------------------------------------------------------------------------
(* The world outside.                                                      *)

call == <<params, taken, at, left, spent, ready, moved, data, res>>

PeerSends ==
    /\ conn = "open" /\ Len(queue) < Capacity
    /\ queue' = Append(queue, given + Len(queue) + 1)
    /\ UNCHANGED <<conn, space, given, call, owed>>

PeerTakes ==
    /\ ~Broken /\ space < Capacity
    /\ space' = space + 1
    /\ UNCHANGED <<conn, queue, given, call, owed>>

ConnectionEnds ==
    /\ \/ conn = "open" /\ conn' = "fin"
       \/ ~Broken /\ conn' = "reset"
    /\ UNCHANGED <<space, queue, given, call, owed>>

\* HAL_TCP_Destroy and HAL_TCP_Establish: a connection ends, a new one begins.
Reconnect ==
    /\ at = "idle" /\ conn # "open"
    /\ conn' = "open" /\ space' = Capacity /\ queue' = << >> /\ owed' = "no"
    /\ UNCHANGED <<given, call>>

\* send waits for room for the rest.
SendWaits == at = "io" /\ op = "write" /\ ~Broken /\ space = 0 /\ moved + taken < len

Tick ==
    /\ at # "idle"
    /\ left > 0 \/ SendWaits
    /\ left' = IF left > 0 THEN left - 1 ELSE 0
    /\ spent' = IF spent <= wait THEN spent + 1 ELSE spent
    /\ UNCHANGED <<network, params, at, ready, moved, data, res, owed>>

\* What the code and the system calls do by themselves.
Step ==
    \/ Loop \/ SelectReady \/ SelectTimesOut
    \/ SendTakes \/ SendReturns \/ SendFails
    \/ RecvReturns \/ RecvClosed \/ RecvFails

Next ==
    \/ Call \/ Step
    \/ SelectFails \/ SendInterrupted
    \/ PeerSends \/ PeerTakes \/ ConnectionEnds \/ Reconnect
    \/ Tick

\* The caller's thread runs, and time passes.
Fairness == WF_vars(Step) /\ WF_vars(Tick)

Spec == Init /\ [][Next]_vars /\ Fairness

---------------------------------------------------------------------------
(* Properties.                                                             *)

TypeOK ==
    /\ conn \in {"open", "fin", "reset", "dead"}
    /\ space \in 0..Capacity
    /\ queue \in Seq(Nat) /\ Len(queue) <= Capacity /\ given \in 0..MaxLen
    /\ at \in {"idle", "loop", "select", "io"}
    /\ op \in {"write", "read"} /\ len \in 1..MaxLen /\ wait \in 0..MaxWait
    /\ left \in 0..wait /\ spent \in 0..(wait + 1)
    /\ ready \in BOOLEAN
    /\ moved \in 0..len /\ taken \in 0..(len - moved)
    /\ data \in Seq(Nat) /\ Len(data) <= len
    /\ res \in -2..MaxLen
    /\ owed \in {"no", "select", "io"}

\* The bytes the system was given are those of the caller's buffer, and the
\* bytes in the buffer read into those of the stream, in their order, none of
\* them twice and none left out, however many pieces they were moved in: the
\* pointers buf + len_sent and buf + len_recv and the counts they are computed
\* from (HAL_TCP_linux.c:191-193, 237-239).
InOrder == \A i \in 1..Len(data) : data[i] = i

\* The result of a call is the number of bytes it moved, if it moved any: no
\* byte the system took, and none it gave, is left out of the count by an
\* error, a signal or the end of the time.
BytesCounted ==
    [][at # "idle" /\ at' = "idle" =>
          /\ Len(data') > 0 => res' = Len(data')
          /\ Len(data') = 0 => res' <= 0]_vars

Looks == op = "read" /\ at \in {"select", "io"}

\* After a read that returned data in place of an error of recv, the next read
\* that comes to look at the connection returns an error: that the connection
\* was closed or broke is not forgotten with the variable err_code.
EndIsKept == [][owed = "io" /\ Looks /\ at' = "idle" => res' < 0]_vars

\* "priority to return data bytes if any data be received from TCP
\* connection. It will get error code on next calling"
\* (HAL_TCP_linux.c:262-263), whichever error gave way to the data.
ErrorIsKept == [][owed # "no" /\ Looks /\ at' = "idle" => res' < 0]_vars

\* A read blocks no longer than its timeout, though the time for each piece is
\* computed anew.
ReadInTime == at # "idle" /\ op = "read" => spent <= wait

\* The documentation says the same of a write: "the time it blocks does not
\* exceed the time given" (iot_import.h:299, in Chinese).  It does not hold:
\* send waits until the system took all bytes.
WriteInTime == at # "idle" /\ op = "write" => spent <= wait

\* "< 0: an error or an exception came up in sending" (iot_import.h:306, in
\* Chinese), at least where nothing was sent.  It does not hold: the result is
\* len_sent.
WriteErrorsTold ==
    [][at = "io" /\ op = "write" /\ at' = "idle" /\ Broken /\ data' = << >> => res' < 0]_vars

\* A read returns, whatever the peer does.
ReadReturns == (at # "idle" /\ op = "read") ~> (at = "idle")
=============================================================================
