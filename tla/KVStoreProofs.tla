---------------------------- MODULE KVStoreProofs ----------------------------
(***************************************************************************)
(* Proofs about KVStore for any keys, values, buffers and threads, with    *)
(* the process stopping and the disk full at any step.  That the file is   *)
(* whole and that nobody waits for ever on a mutex needs no more; that the *)
(* store is a map needs that no two threads open it at the same time.      *)
(***************************************************************************)
EXTENDS KVStore, TLAPS

---------------------------------------------------------------------------
(* The inductive invariant.                                                *)

Working(t)  == at[t] \in {"enter", "write", "rename"}
Changing(t) == at[t] \in {"write", "rename"}

\* The thread that opens the file is the only one in a call.
OneOpens ==
    \A t \in Threads : Opening(t) =>
        kvfile = Nobody /\ \A u \in Threads : u # t => at[u] = "idle"

\* The calls work on the handle of HAL_OS_linux.c, on no older one.
OneHandle == \A t \in Threads : Working(t) => kvfile \in Threads /\ handle[t] = kvfile

\* A thread between its change and the end of kv_sync holds the mutex.
OneChanges == \A t \in Threads : Changing(t) => lock[handle[t]] = t

\* The tree holds the change a thread is about to write.
ChangeIsInTree ==
    \A t \in Threads : Changing(t) => /\ ~Reads(t)
                                      /\ root[handle[t]][call[t].key] = call[t].val

\* The tree holds nothing that was not promised.
TreeIsPromised == kvfile \in Threads => \A k \in Keys : root[kvfile][k] \in may[k]

\* Nobody makes a file that exists.
MakesNewFile == \A t \in Threads : at[t] = "create" => file = NoFile

IInv ==
    /\ TypeOK
    /\ OneOpens
    /\ OneHandle
    /\ OneChanges
    /\ ChangeIsInTree
    /\ TreeIsPromised
    /\ MakesNewFile
    /\ DoneIsDurable

(* The codec and the idle call have their kinds.                           *)
LEMMA CallKinds ==
    /\ Nothing \in Contents
    /\ Empty \in Maps
    /\ NoCall \in Calls /\ ~(NoCall.room # 0)
  BY KeyAssumption DEF Contents, Empty, Maps, NoCall, Calls

LEMMA ReadIntoKind ==
  ASSUME NEW room \in Rooms, NEW n \in Values
  PROVE  ReadInto(room, n) \in Int
<1>1. room \in Nat /\ n \in Nat
  BY RoomAssumption, ValueAssumption
<1> QED  BY <1>1 DEF ReadInto, DecodeLen, EncodedText, Padding

---------------------------------------------------------------------------
(* The kinds of the variables, whatever happens.                           *)

Steps == {"idle", "access", "create", "read", "enter", "write", "rename"}

LEMMA InitTyped == Init => TypeOK
  BY CallKinds, ThreadAssumption
     DEF Init, TypeOK, Files, NoFile, Whole, Handles, Empty, Maps, Contents

(* The end of a call.                                                      *)
LEMMA ReturnTyped ==
  ASSUME TypeOK, NEW t \in Threads, NEW r \in Int, Return(t, r)
  PROVE  /\ at' \in [Threads -> Steps] /\ call' \in [Threads -> Calls]
         /\ handle' \in [Threads -> Handles] /\ res' \in [Threads -> Int]
         /\ \A u \in Threads : at'[u] \in {"enter", "write", "rename"} => handle'[u] \in Threads
<1>1. /\ at' = [at EXCEPT ![t] = "idle"] /\ call' = [call EXCEPT ![t] = NoCall]
      /\ handle' = [handle EXCEPT ![t] = Nobody] /\ res' = [res EXCEPT ![t] = r]
  BY DEF Return, Goto
<1> QED  BY <1>1, CallKinds DEF TypeOK, Handles, Steps

LEMMA UnlockTyped ==
  ASSUME TypeOK, NEW t \in Threads, Unlock(t)
  PROVE  lock' \in [Threads -> Handles]
  BY DEF Unlock, TypeOK, Handles

LEMMA OpenFailsTyped ==
  ASSUME TypeOK, NEW t \in Threads, OpenFails(t),
         file' \in Files, file'.is # "whole" => file'.map = Empty
  PROVE  TypeOK'
<1>1. Return(t, -1) /\ kvfile' \in Handles /\ UNCHANGED <<root, lock, may>>
  BY DEF OpenFails, Handles
<1> QED  BY <1>1, ReturnTyped DEF TypeOK, Steps

LEMMA SyncFailsTyped ==
  ASSUME TypeOK, NEW t \in Threads, SyncFails(t)
  PROVE  TypeOK'
<1>1. Return(t, -1) /\ Unlock(t) /\ UNCHANGED <<file, kvfile, root, may>>
  BY DEF SyncFails
<1> QED  BY <1>1, ReturnTyped, UnlockTyped DEF TypeOK, Steps

LEMMA StepTyped == TypeOK /\ [Next]_vars => TypeOK'
<1> SUFFICES ASSUME TypeOK, [Next]_vars PROVE TypeOK'
  OBVIOUS
<1>1. CASE UNCHANGED vars
  BY <1>1 DEF vars, TypeOK
<1>2. ASSUME NEW t \in Threads, Call(t) PROVE TypeOK'
  <2>1. call' \in [Threads -> Calls]
    BY <1>2 DEF Call, TypeOK
  <2>2. handle' \in [Threads -> Handles] /\ at' \in [Threads -> Steps]
    BY <1>2 DEF Call, TypeOK, Goto, Steps
  <2>3. \A u \in Threads : at'[u] \in {"enter", "write", "rename"} => handle'[u] \in Threads
    BY <1>2 DEF Call, TypeOK, Goto, Handles
  <2> QED  BY <1>2, <2>1, <2>2, <2>3 DEF Call, TypeOK, Steps
<1>3. ASSUME NEW t \in Threads, Access(t) PROVE TypeOK'
  BY <1>3 DEF Access, Goto, TypeOK
<1>4. ASSUME NEW t \in Threads, Create(t) PROVE TypeOK'
  <2>1. CASE file' = Whole(Empty) /\ Goto(t, "read")
             /\ UNCHANGED <<kvfile, root, lock, call, handle, res, may>>
    BY <2>1, CallKinds DEF Goto, TypeOK, Files, Whole
  <2>2. CASE file' = (IF file = NoFile THEN Blank ELSE file) /\ OpenFails(t)
    <3>1. file' \in Files /\ (file'.is # "whole" => file'.map = Empty)
      BY <2>2, CallKinds DEF Files, Blank, TypeOK
    <3> QED  BY <2>2, <3>1, OpenFailsTyped
  <2> QED  BY <1>4, <2>1, <2>2 DEF Create
<1>5. ASSUME NEW t \in Threads, Read(t) PROVE TypeOK'
  <2>1. CASE Opened(t, file.map) /\ UNCHANGED file
    <3>1. file.map \in Maps
      BY DEF TypeOK, Files
    <3> QED  BY <2>1, <3>1 DEF Opened, Goto, TypeOK, Handles
  <2>2. CASE OpenFails(t) /\ UNCHANGED file
    BY <2>2, OpenFailsTyped DEF TypeOK
  <2> QED  BY <1>5, <2>1, <2>2 DEF Read, Opened
<1>6. ASSUME NEW t \in Threads, Get(t) PROVE TypeOK'
  <2> DEFINE n == root[handle[t]][call[t].key]
             r == IF n = Nothing THEN -1 ELSE ReadInto(call[t].room, n)
  <2>1. call[t].room \in Rooms /\ n \in Contents
    BY <1>6 DEF Get, Reads, TypeOK, Calls, Maps
  <2>2. r \in Int
    BY <2>1, ReadIntoKind DEF Contents
  <2>3. Return(t, r) /\ UNCHANGED <<file, kvfile, root, may, lock>>
    BY <1>6 DEF Get
  <2> HIDE DEF r
  <2> QED  BY <2>2, <2>3, ReturnTyped DEF TypeOK, Steps
<1>7. ASSUME NEW t \in Threads, Change(t) PROVE TypeOK'
  <2> DEFINE h == handle[t]
             k == call[t].key
             v == call[t].val
  <2>1. h \in Threads /\ k \in Keys /\ v \in Contents /\ at[t] = "enter"
    BY <1>7 DEF Change, TypeOK, Calls
  <2>2. at' = [at EXCEPT ![t] = "write"] /\ root' = [root EXCEPT ![h][k] = v]
        /\ lock' = [lock EXCEPT ![h] = t] /\ may' = [may EXCEPT ![k] = @ \cup {v}]
        /\ UNCHANGED <<file, kvfile, call, handle, res>>
    BY <1>7 DEF Change, Goto
  <2>3. root' \in [Threads -> Maps]
    <3>1. root[h] \in [Keys -> Contents]
      BY <2>1 DEF TypeOK, Maps
    <3> QED  BY <2>1, <2>2, <3>1 DEF TypeOK, Maps
  <2>4. may' \in [Keys -> SUBSET Contents]
    BY <2>1, <2>2 DEF TypeOK
  <2>5. lock' \in [Threads -> Handles]
    BY <2>1, <2>2 DEF TypeOK, Handles
  <2> QED  BY <2>1, <2>2, <2>3, <2>4, <2>5 DEF TypeOK
<1>8. ASSUME NEW t \in Threads, WriteTemp(t) PROVE TypeOK'
  <2>1. CASE Goto(t, "rename") /\ UNCHANGED <<file, kvfile, root, lock, call, handle, res, may>>
    BY <1>8, <2>1 DEF WriteTemp, Goto, TypeOK
  <2> QED  BY <1>8, <2>1, SyncFailsTyped DEF WriteTemp
<1>9. ASSUME NEW t \in Threads, Rename(t) PROVE TypeOK'
  <2>1. CASE /\ file' = Whole(root[handle[t]])
             /\ may' = [may EXCEPT ![call[t].key] = {call[t].val}]
             /\ Unlock(t) /\ Return(t, 0)
             /\ UNCHANGED <<kvfile, root>>
    <3>1. handle[t] \in Threads /\ call[t].key \in Keys /\ call[t].val \in Contents
      BY <1>9 DEF Rename, TypeOK, Calls
    <3>2. file' \in Files /\ file'.is = "whole"
      BY <2>1, <3>1 DEF TypeOK, Files, Whole
    <3>3. may' \in [Keys -> SUBSET Contents]
      BY <2>1, <3>1 DEF TypeOK
    <3> QED  BY <2>1, <3>2, <3>3, ReturnTyped, UnlockTyped DEF TypeOK, Steps
  <2> QED  BY <1>9, <2>1, SyncFailsTyped DEF Rename
<1>10. CASE Crash
  <2>1. file' \in Files /\ (file'.is # "whole" => file'.map = Empty)
    BY <1>10, CallKinds DEF Crash, TypeOK, Files, Blank
  <2> QED  BY <1>10, <2>1, CallKinds DEF Crash, TypeOK, Handles
<1> QED
  BY <1>1, <1>2, <1>3, <1>4, <1>5, <1>6, <1>7, <1>8, <1>9, <1>10 DEF Next, Step

(* The variables keep their kinds, and no call works without a handle,     *)
(* even if several threads open the file at the same time.                 *)
THEOREM TypeCorrect == Spec => []TypeOK
  BY InitTyped, StepTyped, PTL DEF Spec

(* A file that was once written stays whole, even if several threads open  *)
(* it and write it at the same time.                                       *)
THEOREM FileIsWhole == Spec => FileStaysWhole
<1>1. ASSUME [Next]_vars PROVE [file.is = "whole" => file'.is = "whole"]_file
  <2>1. CASE UNCHANGED vars
    BY <2>1 DEF vars
  <2>2. ASSUME NEW t \in Threads, Call(t) \/ Step(t)
        PROVE  file' = file \/ file'.is = "whole" \/ file.is # "whole"
    BY <2>2 DEF Call, Step, Access, Create, Read, Opened, Get, Change, WriteTemp, Rename,
         SyncFails, Whole, NoFile
  <2>3. CASE Crash
    BY <2>3 DEF Crash, NoFile
  <2> QED  BY <1>1, <2>1, <2>2, <2>3 DEF Next
<1> QED  BY <1>1, PTL DEF Spec, FileStaysWhole

---------------------------------------------------------------------------
(* The mutex.                                                              *)

\* Whoever holds the mutex of a handle is writing the file from it.
HolderWrites == \A h \in Threads : lock[h] # Nobody =>
                    lock[h] \in Threads /\ Changing(lock[h]) /\ handle[lock[h]] = h

(* The end of a call, with or without its mutex.                           *)
LEMMA ReturnHolder ==
  ASSUME TypeOK, HolderWrites, NEW t \in Threads, NEW r, Return(t, r),
         \/ Unlock(t) /\ Changing(t)
         \/ UNCHANGED lock /\ ~Changing(t)
  PROVE  HolderWrites'
<1>1. at' = [at EXCEPT ![t] = "idle"] /\ handle' = [handle EXCEPT ![t] = Nobody]
  BY DEF Return, Goto
<1> SUFFICES ASSUME NEW h \in Threads, lock'[h] # Nobody
             PROVE  /\ lock'[h] \in Threads /\ handle'[lock'[h]] = h
                    /\ at'[lock'[h]] \in {"write", "rename"}
  BY DEF HolderWrites, Changing
<1>2. lock'[h] = lock[h] /\ lock[h] # t
  <2>1. CASE Unlock(t) /\ Changing(t)
    <3>1. handle[t] \in Threads /\ lock' = [lock EXCEPT ![handle[t]] = Nobody]
      BY <2>1 DEF Unlock, Changing, TypeOK
    <3>2. h # handle[t] /\ lock'[h] = lock[h]
      BY <3>1 DEF TypeOK
    <3> QED  BY <3>2 DEF HolderWrites
  <2>2. CASE UNCHANGED lock /\ ~Changing(t)
    BY <2>2 DEF HolderWrites
  <2> QED  BY <2>1, <2>2
<1>3. lock[h] \in Threads /\ Changing(lock[h]) /\ handle[lock[h]] = h
  BY <1>2 DEF HolderWrites
<1>4. at'[lock[h]] = at[lock[h]] /\ handle'[lock[h]] = handle[lock[h]]
  BY <1>1, <1>2, <1>3 DEF TypeOK
<1> QED  BY <1>2, <1>3, <1>4 DEF Changing

LEMMA HolderStep == TypeOK /\ HolderWrites /\ [Next]_vars => HolderWrites'
<1> SUFFICES ASSUME TypeOK, HolderWrites, [Next]_vars PROVE HolderWrites'
  OBVIOUS
<1>1. ASSUME NEW t \in Threads, UNCHANGED lock, ~Changing(t),
             \A u \in Threads \ {t} : at'[u] = at[u] /\ handle'[u] = handle[u]
      PROVE  HolderWrites'
  <2>1. ASSUME NEW h \in Threads, lock[h] # Nobody
        PROVE  /\ lock[h] \in Threads \ {t} /\ handle[lock[h]] = h
               /\ at[lock[h]] \in {"write", "rename"}
    BY <1>1, <2>1 DEF HolderWrites, Changing
  <2>2. ASSUME NEW h \in Threads, lock'[h] # Nobody
        PROVE  /\ lock'[h] \in Threads /\ handle'[lock'[h]] = h
               /\ at'[lock'[h]] \in {"write", "rename"}
    BY <1>1, <2>1, <2>2
  <2> QED  BY <2>2 DEF HolderWrites, Changing
<1>2. CASE UNCHANGED vars
  BY <1>2 DEF vars, HolderWrites, Changing
<1>3. ASSUME NEW t \in Threads, Call(t) PROVE HolderWrites'
  BY <1>1, <1>3 DEF Call, Goto, TypeOK, Changing
<1>4. ASSUME NEW t \in Threads, Access(t) PROVE HolderWrites'
  BY <1>1, <1>4 DEF Access, Goto, TypeOK, Changing
<1>5. ASSUME NEW t \in Threads, OpenFails(t), Opening(t) PROVE HolderWrites'
  <2>1. ~Changing(t)
    BY <1>5 DEF Opening, Changing
  <2> QED  BY <1>5, <2>1, ReturnHolder DEF OpenFails
<1>6. ASSUME NEW t \in Threads, Create(t) PROVE HolderWrites'
  BY <1>1, <1>5, <1>6 DEF Create, Goto, TypeOK, Changing, Opening
<1>7. ASSUME NEW t \in Threads, Read(t) PROVE HolderWrites'
  <2>1. CASE Opened(t, file.map)
    <3>1. at[t] = "read" /\ lock' = [lock EXCEPT ![t] = Nobody]
          /\ at' = [at EXCEPT ![t] = "enter"] /\ handle' = [handle EXCEPT ![t] = t]
      BY <1>7, <2>1 DEF Read, Opened, Goto
    <3>2. ~Changing(t)
      BY <3>1 DEF Changing
    <3> QED  BY <3>1, <3>2 DEF HolderWrites, Changing, TypeOK
  <2> QED  BY <1>5, <1>7, <2>1 DEF Read, Opening
<1>8. ASSUME NEW t \in Threads, Get(t) PROVE HolderWrites'
  <2>1. ~Changing(t) /\ UNCHANGED lock /\ \E r : Return(t, r)
    BY <1>8 DEF Get, Changing
  <2> QED  BY <2>1, ReturnHolder
<1>9. ASSUME NEW t \in Threads, Change(t) PROVE HolderWrites'
  <2>1. /\ at[t] = "enter" /\ lock' = [lock EXCEPT ![handle[t]] = t] /\ handle[t] \in Threads
        /\ at' = [at EXCEPT ![t] = "write"] /\ UNCHANGED handle
    BY <1>9 DEF Change, Goto, TypeOK
  <2>2. \A h \in Threads : lock[h] # t
    BY <2>1, ThreadAssumption DEF HolderWrites, Changing
  <2> QED  BY <2>1, <2>2 DEF HolderWrites, Changing, TypeOK
<1>10. ASSUME NEW t \in Threads, SyncFails(t), Changing(t) PROVE HolderWrites'
  BY <1>10, ReturnHolder DEF SyncFails
<1>11. ASSUME NEW t \in Threads, WriteTemp(t) PROVE HolderWrites'
  <2>1. CASE Goto(t, "rename") /\ UNCHANGED <<lock, handle>>
    <3>1. at' = [at EXCEPT ![t] = "rename"]
      BY <2>1 DEF Goto
    <3> QED  BY <2>1, <3>1 DEF HolderWrites, Changing, TypeOK
  <2> QED  BY <1>10, <1>11, <2>1 DEF WriteTemp, Changing
<1>12. ASSUME NEW t \in Threads, Rename(t) PROVE HolderWrites'
  <2>1. Changing(t)
    BY <1>12 DEF Rename, Changing
  <2> QED  BY <1>10, <1>12, <2>1, ReturnHolder DEF Rename
<1>13. CASE Crash
  BY <1>13 DEF Crash, HolderWrites
<1> QED
  BY <1>2, <1>3, <1>4, <1>6, <1>7, <1>8, <1>9, <1>11, <1>12, <1>13 DEF Next, Step

\* A call that cannot go on waits for one that can: both steps of a call that holds
\* the mutex, WriteTemp and Rename, have no other condition.
WaitsForWriter ==
    \A t \in Threads : at[t] = "enter" /\ ~LockFree(handle[t]) =>
        \E u \in Threads : u # t /\ handle[u] = handle[t] /\ at[u] \in {"write", "rename"}

(* No thread waits for a mutex that nobody is about to give back, on any   *)
(* of the error returns of kv_set, kv_del and kv_sync: there is no         *)
(* deadlock, even if several threads open the file at the same time.       *)
THEOREM NobodyWaitsForNobody == Spec => []WaitsForWriter
<1>1. Init => HolderWrites
  BY DEF Init, HolderWrites
<1>2. TypeOK /\ HolderWrites => WaitsForWriter
  <2> SUFFICES ASSUME TypeOK, HolderWrites, NEW t \in Threads, at[t] = "enter", ~LockFree(handle[t])
               PROVE  \E u \in Threads : u # t /\ handle[u] = handle[t] /\ at[u] \in {"write", "rename"}
    BY DEF WaitsForWriter
  <2>1. handle[t] \in Threads /\ lock[handle[t]] # Nobody
    BY DEF TypeOK, LockFree
  <2> QED  BY <2>1 DEF HolderWrites, Changing
<1> QED  BY <1>1, <1>2, HolderStep, TypeCorrect, PTL DEF Spec

---------------------------------------------------------------------------
(* The induction without a race.                                           *)

LEMMA InitIInv == Init => IInv
<1> SUFFICES ASSUME Init PROVE IInv
  OBVIOUS
<1>1. TypeOK
  BY CallKinds, ThreadAssumption
     DEF Init, TypeOK, Files, NoFile, Whole, Handles, Empty, Maps, Contents
<1>2. OneOpens /\ OneHandle /\ OneChanges /\ ChangeIsInTree /\ MakesNewFile
  BY DEF Init, OneOpens, OneHandle, OneChanges, ChangeIsInTree, MakesNewFile,
         Opening, Working, Changing
<1>3. TreeIsPromised /\ DoneIsDurable
  BY ThreadAssumption DEF Init, TreeIsPromised, DoneIsDurable, NoFile, Whole, Empty
<1> QED  BY <1>1, <1>2, <1>3 DEF IInv

LEMMA CallIInv ==
  ASSUME IInv, ~Fault("race"), NEW t \in Threads, Call(t)
  PROVE  IInv'
<1> USE DEF IInv
<1>1. TypeOK'
  <2>1. call' \in [Threads -> Calls]
    BY DEF Call, TypeOK
  <2>2. handle' \in [Threads -> Handles] /\ at' \in [Threads -> {"idle", "access", "create", "read", "enter", "write", "rename"}]
    BY DEF Call, TypeOK, Goto
  <2>3. res' \in [Threads -> Int]
    BY DEF Call, TypeOK
  <2>4. \A u \in Threads : at'[u] \in {"enter", "write", "rename"} => handle'[u] \in Threads
    BY DEF Call, TypeOK, Goto, Handles
  <2> QED  BY <2>1, <2>2, <2>3, <2>4 DEF Call, TypeOK
<1>2. OneOpens'
  <2>1. CASE kvfile = Nobody
    <3>1. \A u \in Threads : at[u] = "idle"
      BY <2>1, ThreadAssumption DEF Call, TypeOK, OneHandle, Opening, Working, MayOpen
    <3> QED  BY <2>1, <3>1 DEF Call, TypeOK, Goto, OneOpens, Opening
  <2>2. CASE kvfile # Nobody
    BY <2>2 DEF Call, TypeOK, Goto, OneOpens, Opening
  <2> QED  BY <2>1, <2>2
<1>3. OneHandle' /\ OneChanges'
  BY DEF Call, TypeOK, Goto, OneHandle, OneChanges, Working, Changing, Handles
<1>4. ChangeIsInTree' /\ MakesNewFile'
  BY DEF Call, TypeOK, Goto, ChangeIsInTree, MakesNewFile, Changing, Reads
<1>5. TreeIsPromised' /\ DoneIsDurable'
  BY DEF Call, TreeIsPromised, DoneIsDurable
<1> QED  BY <1>1, <1>2, <1>3, <1>4, <1>5

(* kv_open failed: every part of the call is taken back.                   *)
LEMMA OpenFailsIInv ==
  ASSUME IInv, NEW t \in Threads, Opening(t), OpenFails(t),
         file' \in Files, file'.is # "whole" => file'.map = Empty,
         file'.map = file.map
  PROVE  IInv'
<1> USE DEF IInv
<1>1. kvfile = Nobody /\ \A u \in Threads : u # t => at[u] = "idle"
  BY DEF OneOpens
<1>2. \A u \in Threads : at'[u] = "idle"
  BY <1>1 DEF OpenFails, Return, Goto, TypeOK
<1>3. TypeOK'
  BY <1>2, CallKinds DEF OpenFails, Return, Goto, TypeOK, Handles
<1>4. OneOpens' /\ OneHandle' /\ OneChanges' /\ ChangeIsInTree' /\ MakesNewFile'
  BY <1>2 DEF OneOpens, OneHandle, OneChanges, ChangeIsInTree, MakesNewFile,
              Opening, Working, Changing
<1>5. TreeIsPromised' /\ DoneIsDurable'
  BY ThreadAssumption DEF OpenFails, TreeIsPromised, DoneIsDurable
<1> QED  BY <1>3, <1>4, <1>5

LEMMA AccessIInv ==
  ASSUME IInv, NEW t \in Threads, Access(t)
  PROVE  IInv'
<1> USE DEF IInv
<1>1. TypeOK'
  BY DEF Access, Goto, TypeOK
<1>2. OneOpens' /\ OneHandle' /\ OneChanges' /\ ChangeIsInTree' /\ MakesNewFile'
  BY DEF Access, Goto, TypeOK, OneOpens, OneHandle, OneChanges, ChangeIsInTree,
         MakesNewFile, Opening, Working, Changing, Reads
<1>3. TreeIsPromised' /\ DoneIsDurable'
  BY DEF Access, TreeIsPromised, DoneIsDurable
<1> QED  BY <1>1, <1>2, <1>3

LEMMA CreateIInv ==
  ASSUME IInv, NEW t \in Threads, Create(t)
  PROVE  IInv'
<1> USE DEF IInv
<1>1. Opening(t) /\ file = NoFile
  BY DEF Create, Opening, MakesNewFile
<1>2. CASE file' = Whole(Empty) /\ Goto(t, "read")
           /\ UNCHANGED <<kvfile, root, lock, call, handle, res, may>>
  <2>1. TypeOK'
    BY <1>2, CallKinds DEF Goto, TypeOK, Files, Whole
  <2>2. OneOpens' /\ OneHandle' /\ OneChanges' /\ ChangeIsInTree' /\ MakesNewFile'
    BY <1>1, <1>2 DEF Goto, TypeOK, OneOpens, OneHandle, OneChanges, ChangeIsInTree,
         MakesNewFile, Opening, Working, Changing, Reads
  <2>3. TreeIsPromised' /\ DoneIsDurable'
    BY <1>1, <1>2 DEF TreeIsPromised, DoneIsDurable, NoFile, Whole
  <2> QED  BY <2>1, <2>2, <2>3
<1>3. CASE file' = (IF file = NoFile THEN Blank ELSE file) /\ OpenFails(t)
  <2>1. file' = Blank
    BY <1>1, <1>3
  <2>2. file' \in Files /\ file'.map = Empty /\ file.map = Empty
    BY <1>1, <2>1, CallKinds DEF Files, Blank, NoFile
  <2> QED  BY <1>1, <1>3, <2>2, OpenFailsIInv
<1> QED  BY <1>2, <1>3 DEF Create

LEMMA ReadIInv ==
  ASSUME IInv, NEW t \in Threads, Read(t)
  PROVE  IInv'
<1> USE DEF IInv
<1>1. Opening(t) /\ at[t] = "read"
  BY DEF Read, Opening
<1>2. \A u \in Threads : u # t => at[u] = "idle"
  BY <1>1 DEF OneOpens
<1>3. CASE Opened(t, file.map)
  <2>1. at' = [at EXCEPT ![t] = "enter"] /\ \A u \in Threads : u # t => at'[u] = "idle"
    BY <1>2, <1>3 DEF Opened, Goto, TypeOK
  <2>2. TypeOK'
    <3>1. file.map \in Maps
      BY DEF TypeOK, Files
    <3> QED  BY <1>3, <2>1, <3>1 DEF Opened, TypeOK, Handles
  <2>3. at'[t] = "enter"
    BY <2>1 DEF TypeOK
  <2>4. OneOpens' /\ OneChanges' /\ ChangeIsInTree' /\ MakesNewFile'
    BY <2>1, <2>3 DEF OneOpens, OneChanges, ChangeIsInTree, MakesNewFile, Opening, Changing
  <2>5. OneHandle'
    BY <1>3, <2>1, <2>3 DEF Opened, OneHandle, Working, TypeOK
  <2>6. TreeIsPromised' /\ DoneIsDurable'
    BY <1>3 DEF Opened, TreeIsPromised, DoneIsDurable, TypeOK
  <2> QED  BY <2>2, <2>4, <2>5, <2>6
<1>4. CASE OpenFails(t) /\ UNCHANGED file
  BY <1>1, <1>4, OpenFailsIInv DEF TypeOK
<1> QED  BY <1>3, <1>4 DEF Read

(* A call that returns and leaves the tree, the file and kvfile as they    *)
(* are, holding no mutex afterwards.                                       *)
LEMMA ReturnIInv ==
  ASSUME IInv, NEW t \in Threads, NEW r \in Int, Working(t), Return(t, r),
         UNCHANGED <<file, kvfile, root, may>>,
         \/ UNCHANGED lock
         \/ lock[handle[t]] = t /\ Unlock(t)
  PROVE  IInv'
<1> USE DEF IInv
<1>1. at' = [at EXCEPT ![t] = "idle"] /\ call' = [call EXCEPT ![t] = NoCall]
      /\ handle' = [handle EXCEPT ![t] = Nobody]
  BY DEF Return, Goto
<1>2. TypeOK'
  <2>1. lock' \in [Threads -> Handles]
    BY DEF Unlock, TypeOK, Handles
  <2>2. res' \in [Threads -> Int]
    BY DEF Return, TypeOK
  <2> QED  BY <1>1, <2>1, <2>2, CallKinds DEF TypeOK, Handles
<1>3. OneOpens' /\ OneHandle' /\ MakesNewFile'
  BY <1>1 DEF TypeOK, OneOpens, OneHandle, MakesNewFile, Opening, Working
<1>4. ASSUME NEW u \in Threads, Changing(u)'
      PROVE  u # t /\ Changing(u) /\ handle'[u] = handle[u] /\ lock'[handle[u]] = u
  <2>1. u # t /\ Changing(u) /\ handle'[u] = handle[u]
    BY <1>1, <1>4 DEF Changing, TypeOK
  <2>2. lock[handle[u]] = u
    BY <2>1 DEF OneChanges
  <2>3. handle[u] = kvfile /\ handle[t] = kvfile /\ kvfile \in Threads
    BY <2>1 DEF OneHandle, Working, Changing
  <2>4. lock'[handle[u]] = u
    BY <2>1, <2>2, <2>3 DEF Unlock, TypeOK
  <2> QED  BY <2>1, <2>4
<1>5. OneChanges'
  BY <1>4 DEF OneChanges
<1>6. ChangeIsInTree'
  BY <1>1, <1>4 DEF ChangeIsInTree, Reads, TypeOK
<1>7. TreeIsPromised' /\ DoneIsDurable'
  BY DEF TreeIsPromised, DoneIsDurable
<1> QED  BY <1>2, <1>3, <1>5, <1>6, <1>7

LEMMA GetIInv ==
  ASSUME IInv, NEW t \in Threads, Get(t)
  PROVE  IInv'
<1> DEFINE n == root[handle[t]][call[t].key]
           r == IF n = Nothing THEN -1 ELSE ReadInto(call[t].room, n)
<1>1. call[t].room \in Rooms /\ n \in Contents
  BY DEF Get, Reads, IInv, TypeOK, Calls, Maps, OneHandle, Working
<1>2. r \in Int
  BY <1>1, ReadIntoKind DEF Contents
<1>3. Return(t, r) /\ Working(t) /\ UNCHANGED <<file, kvfile, root, may, lock>>
  BY DEF Get, Working
<1> HIDE DEF r
<1> QED  BY <1>2, <1>3, ReturnIInv

LEMMA SyncFailsIInv ==
  ASSUME IInv, NEW t \in Threads, Changing(t), SyncFails(t)
  PROVE  IInv'
<1>1. Working(t) /\ lock[handle[t]] = t
  BY DEF Changing, Working, IInv, OneChanges
<1> QED  BY <1>1, ReturnIInv DEF SyncFails

LEMMA ChangeIInv ==
  ASSUME IInv, NEW t \in Threads, Change(t)
  PROVE  IInv'
<1> USE DEF IInv
<1> DEFINE h == handle[t]
           k == call[t].key
           v == call[t].val
<1>1. h = kvfile /\ h \in Threads /\ k \in Keys /\ v \in Contents
  BY DEF Change, OneHandle, Working, TypeOK, Calls
<1>2. at' = [at EXCEPT ![t] = "write"] /\ root' = [root EXCEPT ![h][k] = v]
      /\ lock' = [lock EXCEPT ![h] = t] /\ may' = [may EXCEPT ![k] = @ \cup {v}]
      /\ UNCHANGED <<file, kvfile, call, handle, res>>
  BY DEF Change, Goto
<1>3. TypeOK'
  <2>1. root' \in [Threads -> Maps]
    <3>1. root[h] \in [Keys -> Contents]
      BY <1>1 DEF TypeOK, Maps
    <3> QED  BY <1>1, <1>2, <3>1 DEF TypeOK, Maps
  <2>2. may' \in [Keys -> SUBSET Contents]
    BY <1>1, <1>2 DEF TypeOK
  <2>3. lock' \in [Threads -> Handles]
    BY <1>1, <1>2 DEF TypeOK, Handles
  <2>4. at[t] = "enter"
    BY DEF Change
  <2> QED  BY <1>1, <1>2, <2>1, <2>2, <2>3, <2>4 DEF TypeOK
<1>4. at[t] = "enter" /\ LockFree(h) /\ ~Reads(t)
  BY DEF Change
<1>5. \A u \in Threads : ~Changing(u)
  BY <1>1, <1>4, ThreadAssumption DEF Changing, Working, OneChanges, OneHandle, LockFree
<1>6. \A u \in Threads : Changing(u)' => u = t
  BY <1>2, <1>5 DEF Changing, TypeOK
<1>7. OneOpens' /\ OneHandle' /\ MakesNewFile'
  BY <1>2, <1>4 DEF TypeOK, OneOpens, OneHandle, MakesNewFile, Opening, Working
<1>8. OneChanges'
  BY <1>1, <1>2, <1>6 DEF OneChanges, TypeOK
<1>9. root'[h][k] = v /\ \A j \in Keys : j # k => root'[h][j] = root[h][j]
  BY <1>1, <1>2 DEF TypeOK, Maps
<1>10. ChangeIsInTree'
  BY <1>2, <1>4, <1>6, <1>9 DEF ChangeIsInTree, Reads
<1>11. v \in may'[k] /\ \A j \in Keys : may[j] \subseteq may'[j]
  BY <1>1, <1>2 DEF TypeOK
<1>12. TreeIsPromised' /\ DoneIsDurable'
  BY <1>1, <1>2, <1>9, <1>11 DEF TreeIsPromised, DoneIsDurable
<1> QED  BY <1>3, <1>7, <1>8, <1>10, <1>12

LEMMA RenameIInv ==
  ASSUME IInv, NEW t \in Threads, Rename(t)
  PROVE  IInv'
<1> USE DEF IInv
<1> DEFINE h == handle[t]
           k == call[t].key
           v == call[t].val
<1>1. Changing(t) /\ Working(t) /\ h = kvfile /\ h \in Threads /\ k \in Keys /\ v \in Contents
  BY DEF Rename, OneHandle, Working, Changing, TypeOK, Calls
<1>2. lock[h] = t /\ root[h][k] = v
  BY <1>1 DEF OneChanges, ChangeIsInTree
<1>3. CASE /\ file' = Whole(root[h])
           /\ may' = [may EXCEPT ![k] = {v}]
           /\ Unlock(t) /\ Return(t, 0)
           /\ UNCHANGED <<kvfile, root>>
  <2>1. at' = [at EXCEPT ![t] = "idle"] /\ call' = [call EXCEPT ![t] = NoCall]
        /\ handle' = [handle EXCEPT ![t] = Nobody] /\ lock' = [lock EXCEPT ![h] = Nobody]
        /\ res' = [res EXCEPT ![t] = 0]
    BY <1>3 DEF Return, Goto, Unlock
  <2>2. \A u \in Threads : ~Changing(u)'
    BY <1>1, <1>2, <2>1 DEF Changing, Working, OneChanges, OneHandle, TypeOK
  <2>3. TypeOK'
    <3>1. file' \in Files /\ file'.is = "whole"
      BY <1>1, <1>3 DEF TypeOK, Files, Whole
    <3>2. may' \in [Keys -> SUBSET Contents]
      BY <1>1, <1>3 DEF TypeOK
    <3>3. kvfile' \in Handles /\ root' \in [Threads -> Maps]
      BY <1>3 DEF TypeOK
    <3>4. lock' \in [Threads -> Handles] /\ handle' \in [Threads -> Handles]
      BY <2>1 DEF TypeOK, Handles
    <3>5. /\ at' \in [Threads -> {"idle", "access", "create", "read", "enter", "write", "rename"}]
          /\ call' \in [Threads -> Calls] /\ res' \in [Threads -> Int]
      BY <2>1, CallKinds DEF TypeOK
    <3>6. \A u \in Threads : at'[u] \in {"enter", "write", "rename"} => handle'[u] \in Threads
      BY <2>1 DEF TypeOK
    <3> QED  BY <3>1, <3>2, <3>3, <3>4, <3>5, <3>6 DEF TypeOK
  <2>4. OneOpens' /\ OneHandle' /\ MakesNewFile'
    BY <1>1, <1>3, <2>1, ThreadAssumption
       DEF TypeOK, OneOpens, OneHandle, MakesNewFile, Opening, Working, Changing
  <2>5. OneChanges' /\ ChangeIsInTree'
    BY <2>2 DEF OneChanges, ChangeIsInTree
  <2>6. \A j \in Keys : root[h][j] \in may'[j]
    BY <1>1, <1>2, <1>3 DEF TreeIsPromised, TypeOK
  <2>7. TreeIsPromised' /\ DoneIsDurable'
    BY <1>1, <1>3, <2>6 DEF TreeIsPromised, DoneIsDurable, Whole
  <2> QED  BY <2>3, <2>4, <2>5, <2>7
<1>4. CASE SyncFails(t)
  BY <1>1, <1>4, SyncFailsIInv
<1> QED  BY <1>3, <1>4 DEF Rename

LEMMA WriteTempIInv ==
  ASSUME IInv, NEW t \in Threads, WriteTemp(t)
  PROVE  IInv'
<1> USE DEF IInv
<1>1. CASE Goto(t, "rename") /\ UNCHANGED <<file, kvfile, root, lock, call, handle, res, may>>
  <2>1. at[t] = "write" /\ at' = [at EXCEPT ![t] = "rename"]
    BY <1>1 DEF WriteTemp, Goto
  <2>2. TypeOK'
    BY <1>1, <2>1 DEF TypeOK
  <2>3. OneOpens' /\ OneHandle' /\ OneChanges' /\ ChangeIsInTree' /\ MakesNewFile'
    BY <1>1, <2>1 DEF TypeOK, OneOpens, OneHandle, OneChanges, ChangeIsInTree,
         MakesNewFile, Opening, Working, Changing, Reads
  <2>4. TreeIsPromised' /\ DoneIsDurable'
    BY <1>1 DEF TreeIsPromised, DoneIsDurable
  <2> QED  BY <2>2, <2>3, <2>4
<1>2. CASE SyncFails(t)
  BY <1>2, SyncFailsIInv DEF WriteTemp, Changing
<1> QED  BY <1>1, <1>2 DEF WriteTemp

LEMMA CrashIInv ==
  ASSUME IInv, Crash
  PROVE  IInv'
<1> USE DEF IInv
<1>1. file' \in Files /\ (file'.is # "whole" => file'.map = Empty) /\ file'.map = file.map
  BY CallKinds DEF Crash, TypeOK, Files, NoFile, Blank
<1>2. TypeOK'
  BY <1>1, CallKinds DEF Crash, TypeOK, Handles
<1>3. OneOpens' /\ OneHandle' /\ OneChanges' /\ ChangeIsInTree' /\ MakesNewFile'
  BY DEF Crash, OneOpens, OneHandle, OneChanges, ChangeIsInTree, MakesNewFile,
         Opening, Working, Changing
<1>4. TreeIsPromised' /\ DoneIsDurable'
  BY <1>1, ThreadAssumption DEF Crash, TreeIsPromised, DoneIsDurable
<1> QED  BY <1>2, <1>3, <1>4

LEMMA NextIInv ==
  ASSUME IInv, ~Fault("race"), [Next]_vars
  PROVE  IInv'
<1>1. CASE UNCHANGED vars
  BY <1>1 DEF vars, IInv, TypeOK, OneOpens, OneHandle, OneChanges, ChangeIsInTree,
     TreeIsPromised, MakesNewFile, DoneIsDurable, Opening, Working, Changing, Reads
<1>2. ASSUME NEW t \in Threads, Call(t) PROVE IInv'
  BY <1>2, CallIInv
<1>3. ASSUME NEW t \in Threads, Step(t) PROVE IInv'
  BY <1>3, AccessIInv, CreateIInv, ReadIInv, GetIInv, ChangeIInv, WriteTempIInv, RenameIInv DEF Step
<1>4. CASE Crash
  BY <1>4, CrashIInv
<1> QED  BY <1>1, <1>2, <1>3, <1>4 DEF Next

LEMMA Invariance == ~Fault("race") => (Spec => []IInv)
<1> SUFFICES ASSUME ~Fault("race") PROVE Spec => []IInv
  OBVIOUS
<1>1. IInv /\ [Next]_vars => IInv'
  BY NextIInv
<1> QED  BY <1>1, InitIInv, PTL DEF Spec

---------------------------------------------------------------------------
(* The theorems.                                                           *)

(* No change that was reported as done is lost, whatever other threads do, *)
(* wherever the process stops, and whenever the disk is full.              *)
THEOREM ChangesAreDurable == ~Fault("race") => (Spec => []DoneIsDurable)
<1> SUFFICES ASSUME ~Fault("race") PROVE Spec => []DoneIsDurable
  OBVIOUS
<1>1. IInv => DoneIsDurable
  BY DEF IInv
<1> QED  BY <1>1, Invariance, PTL

(* What a reader's buffer receives of a value of n bytes.                  *)
LEMMA ReadIntoBounds ==
  ASSUME NEW room \in Rooms, NEW n \in Values
  PROVE  /\ ReadInto(room, n) <= room
         /\ \/ ReadInto(room, n) = n
            \/ ReadInto(room, n) < n /\ 3 * (room - 1) < 4 * n
<1>1. room \in Nat /\ n \in Nat /\ room >= 3 /\ n >= 1
  BY RoomAssumption, ValueAssumption
<1>2. PICK q \in Nat, m \in 0..2 : n = 3 * q + m
  <2>1. n = 3 * (n \div 3) + (n % 3) /\ n \div 3 \in Nat /\ n % 3 \in 0..2
    BY <1>1
  <2> QED  BY <2>1, Zenon
<1>3. n % 3 = m /\ (n + 2) \div 3 = IF m = 0 THEN q ELSE q + 1
  BY <1>1, <1>2
<1>4. EncodedText(n) = 4 * (IF m = 0 THEN q ELSE q + 1)
      /\ Padding(n) = IF m = 0 THEN 0 ELSE 3 - m
  BY <1>2, <1>3 DEF EncodedText, Padding
<1>5. CASE EncodedText(n) < room
  BY <1>1, <1>2, <1>4, <1>5 DEF ReadInto, DecodeLen
<1>6. CASE ~(EncodedText(n) < room)
  BY <1>1, <1>2, <1>4, <1>6 DEF ReadInto, DecodeLen
<1> QED  BY <1>5, <1>6

(* How long a reader's buffer must be: a value comes back whole exactly if *)
(* the buffer is longer than its base64 text without the padding, and the  *)
(* terminator takes the last byte.  A buffer as long as the value is never *)
(* long enough, though HAL_Kv_Get reports success.                         *)
THEOREM BufferNeeded ==
  ASSUME NEW room \in Rooms, NEW n \in Values
  PROVE  /\ ReadInto(room, n) = n <=> room > EncodedText(n) - Padding(n)
         /\ ReadInto(n, n) # n
<1>1. room \in Nat /\ n \in Nat /\ room >= 3 /\ n >= 1
  BY RoomAssumption, ValueAssumption
<1>2. PICK q \in Nat, m \in 0..2 : n = 3 * q + m
  <2>1. n = 3 * (n \div 3) + (n % 3) /\ n \div 3 \in Nat /\ n % 3 \in 0..2
    BY <1>1
  <2> QED  BY <2>1, Zenon
<1>3. n % 3 = m /\ (n + 2) \div 3 = IF m = 0 THEN q ELSE q + 1
  BY <1>1, <1>2
<1>4. EncodedText(n) = 4 * (IF m = 0 THEN q ELSE q + 1)
      /\ Padding(n) = IF m = 0 THEN 0 ELSE 3 - m
  BY <1>2, <1>3 DEF EncodedText, Padding
<1>5. CASE EncodedText(n) < room
  BY <1>1, <1>2, <1>4, <1>5 DEF ReadInto, DecodeLen
<1>6. CASE ~(EncodedText(n) < room)
  BY <1>1, <1>2, <1>4, <1>6 DEF ReadInto, DecodeLen
<1>7. ReadInto(n, n) # n
  BY <1>1, <1>2, <1>4 DEF ReadInto, DecodeLen
<1> QED  BY <1>5, <1>6, <1>7

(* A read returns what was promised, or less in a buffer that is too short. *)
THEOREM ReadsPromises == ~Fault("race") => (Spec => ReadsAPromise)
<1> SUFFICES ASSUME ~Fault("race") PROVE Spec => ReadsAPromise
  OBVIOUS
<1> DEFINE A == \A t \in Threads :
         LET k == call[t].key
             room == call[t].room
         IN  (at[t] = "enter" /\ Reads(t) /\ at'[t] = "idle" /\ res'[t] > 0) =>
                /\ res'[t] <= room
                /\ \E n \in may[k] :
                     \/ res'[t] = n
                     \/ res'[t] < n /\ 3 * (room - 1) < 4 * n
<1>1. ASSUME IInv, [Next]_vars PROVE [A]_vars
  <2>1. SUFFICES ASSUME NEW t \in Threads, Next,
                        at[t] = "enter", Reads(t), at'[t] = "idle", res'[t] > 0
                 PROVE  /\ res'[t] <= call[t].room
                        /\ \E n \in may[call[t].key] :
                             \/ res'[t] = n
                             \/ res'[t] < n /\ 3 * (call[t].room - 1) < 4 * n
    BY <1>1
  <2>2. Get(t)
    <3>1. ~Crash
      BY <2>1 DEF Crash
    <3>2. ASSUME NEW u \in Threads, u # t, Call(u) \/ Step(u) PROVE at'[t] = at[t]
      <4> USE DEF IInv, TypeOK, Goto
      <4>1. CASE Call(u)
        BY <1>1, <3>2, <4>1 DEF Call
      <4>2. CASE Access(u) \/ Create(u)
        BY <1>1, <3>2, <4>2 DEF Access, Create, OpenFails, Return
      <4>3. CASE Read(u) \/ Get(u)
        BY <1>1, <3>2, <4>3 DEF Read, Opened, OpenFails, Get, Return
      <4>4. CASE Change(u)
        BY <1>1, <3>2, <4>4 DEF Change
      <4>5. CASE WriteTemp(u) \/ Rename(u)
        BY <1>1, <3>2, <4>5 DEF WriteTemp, Rename, SyncFails, Return
      <4> QED  BY <3>2, <4>1, <4>2, <4>3, <4>4, <4>5 DEF Step
    <3>3. Call(t) \/ Step(t)
      BY <2>1, <3>1, <3>2 DEF Next
    <3> QED  BY <2>1, <3>3 DEF Call, Step, Access, Create, Read, Change, WriteTemp, Rename
  <2> DEFINE n == root[handle[t]][call[t].key]
  <2>3. call[t].room \in Rooms /\ n \in Contents /\ call[t].key \in Keys /\ n \in may[call[t].key]
    BY <1>1, <2>1 DEF Reads, IInv, TypeOK, Calls, Maps, OneHandle, Working, TreeIsPromised
  <2>4. res'[t] = IF n = Nothing THEN -1 ELSE ReadInto(call[t].room, n)
    BY <1>1, <2>2 DEF Get, Return, IInv, TypeOK
  <2>5. n \in Values
    BY <2>1, <2>3, <2>4 DEF Contents
  <2> QED  BY <2>1, <2>3, <2>4, <2>5, ReadIntoBounds
<1>2. Spec => [][A]_vars
  BY <1>1, Invariance, PTL DEF Spec
<1> QED  BY <1>2 DEF ReadsAPromise

---------------------------------------------------------------------------
(* The store implements the abstract map.                                  *)

SeenNow == IF kvfile = Nobody THEN file.map ELSE root[kvfile]

LEMMA InitImplements == Init => Map!Init
  BY CallKinds DEF Init, Map!Init, Map!Maps, NoFile, Whole, Maps, Map!Maps

(* Steps that change neither what is seen nor what is safe.                *)
LEMMA OpeningStutters ==
  ASSUME IInv, NEW t \in Threads, Access(t) \/ Create(t) \/ Read(t)
  PROVE  SeenNow' = SeenNow /\ file'.map = file.map
<1>1. kvfile = Nobody
  BY DEF IInv, OneOpens, Opening, Access, Create, Read
<1>2. CASE Access(t)
  BY <1>2 DEF Access, SeenNow
<1>3. CASE Create(t)
  <2>1. file = NoFile
    BY <1>3 DEF Create, IInv, MakesNewFile
  <2> QED  BY <1>1, <1>3, <2>1 DEF Create, OpenFails, SeenNow, NoFile, Blank, Whole
<1>4. CASE Read(t)
  <2>1. CASE Opened(t, file.map)
    <3>1. kvfile' = t /\ t # Nobody /\ root'[t] = file.map /\ file' = file
      BY <2>1, ThreadAssumption DEF Opened, IInv, TypeOK
    <3> QED  BY <1>1, <3>1 DEF SeenNow
  <2>2. CASE OpenFails(t) /\ UNCHANGED file
    BY <1>1, <2>2 DEF OpenFails, SeenNow
  <2> QED  BY <1>4, <2>1, <2>2 DEF Read
<1> QED  BY <1>2, <1>3, <1>4

LEMMA ChangeImplements ==
  ASSUME IInv, NEW t \in Threads, Change(t)
  PROVE  \E k \in Keys : \E v \in Contents : Map!Change(k, v)
<1> DEFINE k == call[t].key
           v == call[t].val
<1>1. handle[t] = kvfile /\ kvfile \in Threads /\ kvfile # Nobody /\ k \in Keys /\ v \in Contents
  BY ThreadAssumption DEF Change, IInv, OneHandle, Working, TypeOK, Calls
<1>2. root'[kvfile] = [root[kvfile] EXCEPT ![k] = v] /\ kvfile' = kvfile /\ file' = file
  BY <1>1 DEF Change, IInv, TypeOK
<1>3. Map!Change(k, v)
  BY <1>1, <1>2 DEF Map!Change
<1> QED  BY <1>1, <1>3

LEMMA RenameImplements ==
  ASSUME IInv, NEW t \in Threads, Rename(t)
  PROVE  Map!Commit \/ (SeenNow' = SeenNow /\ file' = file)
<1>1. handle[t] = kvfile /\ kvfile \in Threads /\ kvfile # Nobody
  BY ThreadAssumption DEF Rename, IInv, OneHandle, Working
<1>2. CASE SyncFails(t)
  BY <1>2 DEF SyncFails, SeenNow
<1>3. CASE file' = Whole(root[handle[t]]) /\ UNCHANGED <<kvfile, root>>
  BY <1>1, <1>3 DEF Map!Commit, Whole
<1> QED  BY <1>2, <1>3 DEF Rename

LEMMA StepImplements ==
  ASSUME IInv, [Next]_vars
  PROVE  Map!Next \/ (SeenNow' = SeenNow /\ file'.map = file.map)
<1>1. CASE UNCHANGED vars
  BY <1>1 DEF vars, SeenNow
<1>2. ASSUME NEW t \in Threads, Call(t)
      PROVE  SeenNow' = SeenNow /\ file'.map = file.map
  BY <1>2 DEF Call, SeenNow
<1>3. ASSUME NEW t \in Threads, Step(t)
      PROVE  Map!Next \/ (SeenNow' = SeenNow /\ file'.map = file.map)
  <2>1. CASE Access(t) \/ Create(t) \/ Read(t)
    BY <2>1, OpeningStutters
  <2>2. CASE Get(t)
    BY <2>2 DEF Get, SeenNow
  <2>3. CASE Change(t)
    BY <2>3, ChangeImplements DEF Map!Next
  <2>4. CASE WriteTemp(t)
    BY <2>4 DEF WriteTemp, SyncFails, SeenNow
  <2>5. CASE Rename(t)
    BY <2>5, RenameImplements DEF Map!Next
  <2> QED  BY <1>3, <2>1, <2>2, <2>3, <2>4, <2>5 DEF Step
<1>4. CASE Crash
  <2>1. Map!Crash
    BY <1>4 DEF Crash, Map!Crash, NoFile, Blank
  <2> QED  BY <2>1 DEF Map!Next
<1> QED  BY <1>1, <1>2, <1>3, <1>4 DEF Next

(* Callers and the file see one map, changed one key at a time and made    *)
(* safe as a whole; a crash loses what was not safe and nothing else.      *)
THEOREM StoreImplementsMap == ~Fault("race") => (Spec => ImplementsMap)
<1> SUFFICES ASSUME ~Fault("race") PROVE Spec => ImplementsMap
  OBVIOUS
<1>1. IInv /\ [Next]_vars => [Map!Next]_<<SeenNow, file.map>>
  BY StepImplements
<1>2. Spec => Map!Init /\ [][Map!Next]_<<SeenNow, file.map>>
  BY <1>1, InitImplements, Invariance, PTL DEF Spec
<1> QED  BY <1>2 DEF ImplementsMap, Map!Spec, SeenNow
=============================================================================
