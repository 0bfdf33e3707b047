------------------------------ MODULE KVStore ------------------------------
(***************************************************************************)
(* The key-value store of the platform layer under the linkkit library:    *)
(* HAL_Kv_Set, HAL_Kv_Get and HAL_Kv_Del (HAL_OS_linux.c) on one file that *)
(* kv.c keeps as a JSON tree in memory and writes anew at every change,    *)
(* into a temporary file that is then renamed.                             *)
(*                                                                         *)
(* Any thread of the gateway may call.  The first caller opens the file,   *)
(* with no lock; a handle has a mutex, held from the change of the tree to *)
(* the end of the writing.  The disk may be full at any writing, and the   *)
(* process may stop between any two steps and start again.                 *)
(*                                                                         *)
(* A value is a number of bytes, and its length is all that is kept of it: *)
(* the file holds it in base64, and the reader's buffer may be too short.  *)
(***************************************************************************)
EXTENDS Integers, FiniteSets

CONSTANTS
    Keys,       \* keys of the store
    Values,     \* values given to HAL_Kv_Set, by their length in bytes
    Rooms,      \* lengths of the buffers given to HAL_Kv_Get
    Threads,    \* threads that call
    Nobody,     \* no thread
    Faults      \* which of AllFaults may happen

\* The process stops and starts; the disk is full; two threads open the file
\* at the same time.
AllFaults == {"crash", "full", "race"}

ASSUME KeyAssumption    == Keys # {}
ASSUME ValueAssumption  == Values \subseteq Nat \ {0}
\* In a shorter buffer ABase64_DecodeLen looks at characters before the first.
ASSUME RoomAssumption   == Rooms \subseteq Nat \ 0..2
ASSUME ThreadAssumption == Nobody \notin Threads
ASSUME FaultsAssumption == Faults \subseteq AllFaults

VARIABLES
    file,       \* what KVFILE_DEFAULT_PATH names
    kvfile,     \* the handle of HAL_OS_linux.c: the thread that opened it
    root,       \* by handle: the JSON tree
    lock,       \* by handle: the thread that holds its mutex
    at,         \* by thread: the next step of its call
    call,       \* by thread: what it was called with
    handle,     \* by thread: the handle the call works on
    res,        \* by thread: the result of its last call
    may         \* history: by key, what a caller may expect it to hold

vars == <<file, kvfile, root, lock, at, call, handle, res, may>>

Nothing  == 0
Contents == Values \cup {Nothing}
Maps     == [Keys -> Contents]
Empty    == [k \in Keys |-> Nothing]
Handles  == Threads \cup {Nobody}

\* A file that does not exist, and one that was made and is not written yet.
NoFile == [is |-> "none",  map |-> Empty]
Blank  == [is |-> "blank", map |-> Empty]
Whole(map) == [is |-> "whole", map |-> map]

Files == [is : {"none", "blank", "whole"}, map : Maps]

\* A change (Nothing deletes the key), or a read if there is a buffer.
Calls  == [key : Keys, val : Contents, room : Rooms \cup {0}]
NoCall == [key |-> CHOOSE k \in Keys : TRUE, val |-> Nothing, room |-> 0]

Reads(t) == call[t].room # 0

Fault(f) == f \in Faults

---------------------------------------------------------------------------
(* The codec.                                                              *)

EncodedText(n) == ((n + 2) \div 3) * 4

Padding(n) == IF n % 3 = 0 THEN 0 ELSE 3 - (n % 3)

\* A slip: the padding counts as data.
DecodeLenPadded(n, text) == (text * 3) \div 4

\* ABase64_DecodeLen of the first text characters of the encoding of n bytes:
\* up to two padding characters at the end are taken off, if they are there.
DecodeLen(n, text) ==
    LET data == EncodedText(n) - Padding(n)
    IN  (text * 3) \div 4 - (IF text > data THEN text - data ELSE 0)

\* kv_get copies as much of the text as the buffer has room for with its
\* terminator; kv_get_blob decodes that in place.
ReadInto(room, n) ==
    DecodeLen(n, IF EncodedText(n) < room THEN EncodedText(n) ELSE room - 1)

---------------------------------------------------------------------------
Init ==
    /\ file \in {NoFile, Whole(Empty)}
    /\ kvfile = Nobody
    /\ root = [h \in Threads |-> Empty]
    /\ lock = [h \in Threads |-> Nobody]
    /\ at = [t \in Threads |-> "idle"]
    /\ call = [t \in Threads |-> NoCall]
    /\ handle = [t \in Threads |-> Nobody]
    /\ res = [t \in Threads |-> 0]
    /\ may = [k \in Keys |-> {Nothing}]

Goto(t, step) == at' = [at EXCEPT ![t] = step]

Return(t, r) ==
    /\ Goto(t, "idle")
    /\ res' = [res EXCEPT ![t] = r]
    /\ call' = [call EXCEPT ![t] = NoCall]
    /\ handle' = [handle EXCEPT ![t] = Nobody]

Opening(t) == at[t] \in {"access", "create", "read"}

\* Nothing in the code keeps two first calls apart.
MayOpen(t) == Fault("race") \/ \A u \in Threads : ~Opening(u)

\* HAL_Kv_Set, HAL_Kv_Get, HAL_Kv_Del: a file not open yet is opened first.
Call(t) ==
    /\ at[t] = "idle"
    /\ \E c \in Calls :
         /\ c.room # 0 => c.val = Nothing
         /\ call' = [call EXCEPT ![t] = c]
    /\ IF kvfile = Nobody
       THEN MayOpen(t) /\ Goto(t, "access") /\ UNCHANGED handle
       ELSE Goto(t, "enter") /\ handle' = [handle EXCEPT ![t] = kvfile]
    /\ res' = [res EXCEPT ![t] = 0]
    /\ UNCHANGED <<file, kvfile, root, lock, may>>

\* A slip: the call goes on without a handle.
OpenFailsUnseen(t) ==
    /\ kvfile' = Nobody
    /\ Goto(t, "enter")
    /\ UNCHANGED <<root, lock, call, handle, res, may>>

\* kv_open failed: HAL_Kv_... stores the null pointer and returns.
OpenFails(t) ==
    /\ kvfile' = Nobody
    /\ Return(t, -1)
    /\ UNCHANGED <<root, lock, may>>

\* kv_open: is there a file?
Access(t) ==
    /\ at[t] = "access"
    /\ Goto(t, IF file = NoFile THEN "create" ELSE "read")
    /\ UNCHANGED <<file, kvfile, root, lock, call, handle, res, may>>

\* create_json_file writes "{}" over the first bytes of the file, which is
\* empty unless another thread has made it meanwhile.
Create(t) ==
    /\ at[t] = "create"
    /\ \/ /\ file' = Whole(Empty)
          /\ Goto(t, "read")
          /\ UNCHANGED <<kvfile, root, lock, call, handle, res, may>>
       \/ /\ Fault("full")
          /\ file' = IF file = NoFile THEN Blank ELSE file
          /\ OpenFails(t)

\* A slip: the tree begins without what the file has.
OpenedEmpty(t, map) ==
    /\ kvfile' = t
    /\ root' = [root EXCEPT ![t] = Empty]
    /\ lock' = [lock EXCEPT ![t] = Nobody]
    /\ handle' = [handle EXCEPT ![t] = t]
    /\ Goto(t, "enter")
    /\ UNCHANGED <<file, call, res, may>>

\* The file was read into the tree: kvfile is set, and read again for the
\* call that follows.
Opened(t, map) ==
    /\ kvfile' = t
    /\ root' = [root EXCEPT ![t] = map]
    /\ lock' = [lock EXCEPT ![t] = Nobody]
    /\ handle' = [handle EXCEPT ![t] = t]
    /\ Goto(t, "enter")
    /\ UNCHANGED <<file, call, res, may>>

\* read_file and cJSON_Parse.  Of a blank file the text is memory that was
\* never written: parsing it fails or gives an object without these keys.
Read(t) ==
    /\ at[t] = "read"
    /\ \/ Opened(t, file.map)
       \/ file = Blank /\ OpenFails(t) /\ UNCHANGED file

\* A slip: the mutex keeps nobody out.
EntersAnyway(h) == TRUE

LockFree(h) == lock[h] = Nobody

\* kv_get under the mutex, and the decoding after it.
Get(t) ==
    /\ at[t] = "enter" /\ Reads(t)
    /\ LockFree(handle[t])
    /\ LET n == root[handle[t]][call[t].key]
       IN  Return(t, IF n = Nothing THEN -1 ELSE ReadInto(call[t].room, n))
    /\ UNCHANGED <<file, kvfile, root, lock, may>>

\* kv_set and kv_del take the mutex and change the tree, before any writing.
Change(t) ==
    /\ at[t] = "enter" /\ ~Reads(t)
    /\ LockFree(handle[t])
    /\ lock' = [lock EXCEPT ![handle[t]] = t]
    /\ root' = [root EXCEPT ![handle[t]][call[t].key] = call[t].val]
    /\ may' = [may EXCEPT ![call[t].key] = @ \cup {call[t].val}]
    /\ Goto(t, "write")
    /\ UNCHANGED <<file, kvfile, call, handle, res>>

Unlock(t) == lock' = [lock EXCEPT ![handle[t]] = Nobody]

\* A slip: the error return leaves the mutex locked.
SyncFailsLocked(t) ==
    /\ Fault("full")
    /\ Return(t, -1)
    /\ UNCHANGED <<file, kvfile, root, lock, may>>

\* kv_sync failed; the tree keeps the change.
SyncFails(t) ==
    /\ Fault("full")
    /\ Unlock(t)
    /\ Return(t, -1)
    /\ UNCHANGED <<file, kvfile, root, may>>

\* A slip: the file is written in place, first emptied and then filled.
WriteInPlace(t) ==
    /\ at[t] = "write"
    /\ file' = Blank
    /\ Goto(t, "rename")
    /\ UNCHANGED <<kvfile, root, lock, call, handle, res, may>>

\* kv_sync: the tree is written to a file of its own.
WriteTemp(t) ==
    /\ at[t] = "write"
    /\ \/ /\ Goto(t, "rename")
          /\ UNCHANGED <<file, kvfile, root, lock, call, handle, res, may>>
       \/ SyncFails(t)

\* kv_sync: that file takes the place of the other.
Rename(t) ==
    /\ at[t] = "rename"
    /\ \/ /\ file' = Whole(root[handle[t]])
          /\ may' = [may EXCEPT ![call[t].key] = {call[t].val}]
          /\ Unlock(t)
          /\ Return(t, 0)
          /\ UNCHANGED <<kvfile, root>>
       \/ SyncFails(t)

\* The process stops and starts.  create_json_file may have made the file and
\* not written it.
Crash ==
    /\ Fault("crash")
    /\ \/ UNCHANGED file
       \/ /\ file = NoFile /\ file' = Blank
          /\ \E t \in Threads : at[t] = "create"
    /\ kvfile' = Nobody
    /\ root' = [h \in Threads |-> Empty]
    /\ lock' = [h \in Threads |-> Nobody]
    /\ at' = [t \in Threads |-> "idle"]
    /\ call' = [t \in Threads |-> NoCall]
    /\ handle' = [t \in Threads |-> Nobody]
    /\ res' = [t \in Threads |-> 0]
    /\ UNCHANGED may

\* What a thread does by itself once it was called.
Step(t) == Access(t) \/ Create(t) \/ Read(t) \/ Get(t) \/ Change(t) \/ WriteTemp(t) \/ Rename(t)

Next ==
    \/ \E t \in Threads : Call(t) \/ Step(t)
    \/ Crash

\* Every thread is scheduled.
Fairness == \A t \in Threads : WF_vars(Step(t))

Spec == Init /\ [][Next]_vars /\ Fairness

---------------------------------------------------------------------------
(* Properties.                                                             *)

\* The variables keep their kinds, and no call works on the store without a
\* handle (the null pointer that kv_open returns when it fails).
TypeOK ==
    /\ file \in Files
    /\ file.is # "whole" => file.map = Empty
    /\ kvfile \in Handles
    /\ root \in [Threads -> Maps]
    /\ lock \in [Threads -> Handles]
    /\ at \in [Threads -> {"idle", "access", "create", "read", "enter", "write", "rename"}]
    /\ call \in [Threads -> Calls]
    /\ handle \in [Threads -> Handles]
    /\ res \in [Threads -> Int]
    /\ may \in [Keys -> SUBSET Contents]
    /\ \A t \in Threads : at[t] \in {"enter", "write", "rename"} => handle[t] \in Threads

\* What the file holds of a key is the value of the last change that was
\* reported as done, or of a change begun since then: no change reported as
\* done is lost, by a crash, by a change of another key, or by a change of
\* another thread (kv_sync, under the mutex of kv_set).
DoneIsDurable == \A k \in Keys : file.map[k] \in may[k]

\* A file once written stays whole, whenever the process stops ("update KV
\* file atomically").
FileStaysWhole == [][file.is = "whole" => file'.is = "whole"]_file

\* A read that succeeds returns such a value, or, in a buffer too short for
\* its encoding, less of it than there is; never more than the buffer holds.
\* (kv_get's copy, ABase64_DecodeLen, and the reader among the writers.)
ReadsAPromise ==
    [][\A t \in Threads :
         LET k == call[t].key
             room == call[t].room
         IN  (at[t] = "enter" /\ Reads(t) /\ at'[t] = "idle" /\ res'[t] > 0) =>
                /\ res'[t] <= room
                /\ \E n \in may[k] :
                     \/ res'[t] = n
                     \/ res'[t] < n /\ 3 * (room - 1) < 4 * n]_vars

\* Whoever takes the mutex of a handle gives it back, on every path (kv_set,
\* kv_del; the process may also stop).
LockGivenBack == \A h \in Threads : (lock[h] # Nobody) ~> (lock[h] = Nobody)

\* The store is the abstract map: what callers read is the tree, or what the
\* file holds while it is not open; what is safe is the file.
Map == INSTANCE KVMap WITH
         seen <- IF kvfile = Nobody THEN file.map ELSE root[kvfile],
         safe <- file.map

ImplementsMap == Map!Spec
=============================================================================
