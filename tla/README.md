# A TLA+ model of the afly gateway

afly runs on a router board between door locks, reached through an NXP radio
module and its ubus daemon, and Alibaba's Feiyan cloud, reached through the
closed `linkkit` library. This directory models the parts of it where several
parties hold copies of one fact and change them in different orders.

- [1 Inventory](#1-inventory)
- [2 Modules and runs](#2-modules-and-runs)
- [3 LockKeys](#3-lockkeys)
- [4 GatewayLoop](#4-gatewayloop)
- [5 SubDevices](#5-subdevices)
- [6 LockSession](#6-locksession)
- [7 KVStore](#7-kvstore)
- [8 HalTcp](#8-haltcp)
- [9 Proofs](#9-proofs)
- [10 Known deviations](#10-known-deviations)
- [11 Not modelled](#11-not-modelled)
- [12 Plan](#12-plan)

Paths are relative to `src/`.

## 1 Inventory

The process has two kinds of threads.

- The **main thread** runs `timer_advance` and `file_event_poll` in turn
  (`main.c:220-226`). Everything the radio module reports arrives here, as a ubus
  event, and so do the timers and the scheduled tasks.
- The **library's threads** call back: property and service calls
  (`gateway_call_service`, `subdev_call_service`) and connection events
  (`event_handler`). They also call down, into the platform layer that the
  repository has in source (`ilop_sdk/src/hal`): the key-value store and TCP.

They share the sub-device table, the queues and `gw` without a lock; the lock in
`libs/osi/src/mutex.c` is empty. Only `ue.mutex` of the message router is real.
The main thread holds it while it handles an event, up to the end of the blocking
calls to the cloud it makes on the way; a service takes it to send a command.

| part | state | operations | talks to | hard behaviour | what makes it correct |
|---|---|---|---|---|---|
| lock key table (`rbx/src/product_sub.c:446-684`, `rbx/src/afly.c:223-411`, `1938-2042`) | four arrays of 128 slots per lock, each NONE / ADDING / ADDED, in memory and in `subdev.db` | add, delete, clear, confirm, save, load | cloud (services, notifications), lock (commands, reports) | two threads, lost and repeated messages, restart, files running out | only keys the lock has; a restart finds them; the cloud knows them; an add completes |
| tasks and timers (`rbx/src/schedule.c`, `libs/osi/src/timer.c`, `rbx/src/afly.c:69-87`, `175-194`) | a linked queue, one timer for all of it | add, delete, run | door state, network information | overdue deadlines, tasks that queue themselves, a task inside a deleted record | no queued task is forgotten, early or uncallable |
| door state (`rbx/src/afly.c:1810-1815`, `1923-1934`, `1979-1998`) | `lock_status`, LockState at the cloud | open, relock | tasks, cloud | posts that fail, reopening while the relocking is due | an open door is relocked after five seconds |
| cloud connection (`rbx/src/afly.c:157-173`, `1247-1261`) | `connected`, `afly_connect_change_on` | connect, disconnect, list devices | timer, router | a flag raised by one thread and taken by another | every reconnection is followed by a listing |
| sub-device table and life cycle (`rbx/src/product_sub.c:61-407`, `rbx/src/afly.c:773-946`, `1263-1299`, `1578-1803`) | 40 records: name, product key, linkkit handle, login, online | register, create, log in, log out, destroy, unregister, delete, clear | linkkit, radio module, `subdev.db` | deletion by three parties, handles of records that are gone, a full table | handles and records correspond; logged in iff online |
| message router (`rbx/src/uproto.c`, `libs/osi/src/lockqueue.c`) | `ue.mutex`, an event queue, one outstanding call | call, hand on a report | ubus, all handlers | mutex held over blocking calls; the queue of events and the waiting calls are dead code in this build: nobody queues an event, and every `uproto_call` has timeout 0 | a command is sent between two events, never during one |
| dynamic passwords and the session of a lock (`rbx/src/afly.c:414-514`, `1578-1689`, `1746-1803`, `rbx/src/product_sub.c:651-660`, `rbx/src/uproto.c:803-1006`) | seed, interval, `dynamic` flag, online, login | listing, status, answer 999999, compute code | lock, cloud | two threads choose seeds; a restart before the flag is saved; calls that fail | gateway, file and lock use the same seed; logged in iff online |
| key-value store (`ilop_sdk/src/hal/kv.c`, `HAL_OS_linux.c:632-735`, `base64.c`) | a JSON tree, its file, a mutex | open, set, get, delete | the linkkit library, the file system | threads, crashes at any step, a full disk, short buffers | no change reported as done is lost; a crash leaves a whole file |
| TCP (`ilop_sdk/src/hal/HAL_TCP_linux.c`) | none between two calls | write, read | the socket | pieces, signals, timeouts, a peer that closes | each byte once and counted; errors are reported; a read ends in time |
| gateway properties, network information (`rbx/src/product.c`, `rbx/src/afly.c:984-1240`) | `gw` record | read file, post | cloud | none worth a model beyond its timing | read again and again |
| command line (`rbx/src/cmd.c`) | none | calls the other parts | all | none | - |
| platform, HMAC, SHA-1, logging, formatting | none | pure input, output or byte functions | - | none | - |
| the rest of `ilop_sdk`, `libs/third`, `rbx/src/zigbee.c`, `rb/` | - | vendored, or not in this build | - | - | - |

The behaviours that a test would hardly reach are listed, each at its line, under
`hazards` in `PROJECT.json`.

## 2 Modules and runs

| module | what it is |
|---|---|
| `LockKeys` | the passwords of one lock: services, commands, reports, table, file, notifications, restart |
| `GatewayLoop` | the main loop: timers, task queue, relocking, network information, device listing |
| `TaskQueue` | what the task queue of `GatewayLoop` promises: tasks with deadlines that are kept |
| `SubDevices` | the devices: records, file, handles and logins, the main thread and the library's thread |
| `DeviceMap` | what the table of `SubDevices` promises: a map from names to states |
| `LockSession` | one lock: online state, login, and the seed of its time-based password |
| `KVStore` | the key-value store: threads, tree, file, temporary file, crashes |
| `KVMap` | what `KVStore` promises: a map whose changes are seen at once and become safe together |
| `HalTcp` | the write and read loops of the TCP platform layer |
| `LockKeysProofs`, `LockKeysAgreement`, `LockKeysKnown`, `GatewayLoopProofs`, `SubDevicesProofs`, `LockSessionProofs`, `KVStoreProofs`, `HalTcpProofs` | theorems about each of them, for all values of the constants |

| run | instance | asks | outcome |
|---|---|---|---|
| `LockKeysFaults` | 1 password, 2 slots, 1 command and 2 reports under way, 1 restart; loss, crash, repeat, clear, refuse | do the safety properties survive every fault but running out of files | holds |
| `LockKeysQuiet` | 2 passwords (codes 0 and 123456), 2 slots, 2 messages each way, no fault, fair | do the two threads and the protocol work when nothing goes wrong | holds |
| `LockKeysClear` | 1 password, `clear` | does the table agree with the lock after a clear | violated |
| `GatewayLoop` | 2 doors, delays 2 / 1 / 3 / 1, lateness 1; reconnections, failing posts, deletion of devices that wait for nothing; fair | timer and queue, relocking, network information; is the queue the abstract one | holds |
| `GatewayLoopReconnect` | 1 door, reconnections, fair | is a reconnection followed by a listing | violated |
| `SubDevices` | 3 devices, 2 records, 3 handles; failing calls, deletions by the cloud, restarts; no clashes | are records, handles and logins kept in step | holds |
| `SubDevicesClash` | 2 devices, 2 records, 1 handle; all that and clashes | is the table a map, and does a restart find it | holds |
| `SubDevicesList` | 2 devices, 2 records, deletions by the cloud | does the list name all devices | violated |
| `LockSession` | battery levels 0, 20 and 80, 2 seconds, 2 messages; loss, refusal, restart; fair | do lock and gateway agree on the seed, and the cloud on the login | holds |
| `KVStore` | 2 keys, values of 1 and 3 bytes, buffers of 4 and 5, 2 threads; crashes, full disk; fair | is what was reported as done kept, and is the store a map | holds |
| `HalTcp` | 4 bytes, 3 ticks, system buffers of 3 bytes; fair | are all bytes moved once, in place and counted, is the end of a connection reported, and does a read end in time | holds |
| `HalTcpSelectError` | 2 bytes, 2 ticks, system buffers of 1 byte | is every error that gave way to data returned by the next read | violated |

The four violated properties are what comments or the repository's README say of
the program; `findings` in `PROJECT.json` quotes each and says what the run shows.

Every property of a passing run is also tried against a slip in the model (a
definition above the one it would replace, marked "A slip"), and the run finds
the property violated: the save that is skipped, the code of a report not looked
at, the timer set for the wrong task. The pointers and counts of `InOrder` are tried
one by one, with three slips.

## 3 LockKeys

**State.** `keys` is `sd->aset.lock.keys`, `disk` the same in `subdev.db`, `fds`
the files `product_sub_save` left open. `svc` is the library's thread inside a
service: searching is one step, reading the slot that was found is another
(`Deref`), sending is a third, because the main thread can change the table in
between. `main` is the notification the main thread is blocked in. `cmds` and
`reports` are the messages under way, `lock` and `told` what the lock stores and
the cloud was told. `everStored` and `untold` are history: they change no step.

**Actions.**

| action | code |
|---|---|
| `AddKey`, `DelKey`, `ClrKey` | `subdev_add_key`, `subdev_del_key`, `subdev_clr_key` up to the search of the slot |
| `Deref`, `Send` | the argument `key->id`; `nxp_lock_*` and `uproto_call`, which waits for `ue.mutex` |
| `LockExecutes`, `LoseCommand`, `LoseReport` | the lock and the radio, outside this repository |
| `HandleReport` | `EVENT_NXP_ADD_DEL_PASS_RET`, up to the blocking notification, saves included |
| `StatusSaved` | the save in `afly_nxp_upt_online` and `afly_nxp_reg`, which writes the whole record; a blocking post follows |
| `Notify` | the notification or post returns, with success or not |
| `Restart` | the process dies and `product_sub_load_all` reads the file |

**Abstractions.** A password is the number `atoi` makes of it, and its
identifier `1000000 * type + number` is computed as in the code. The services accept
no other LockType than 2, so the array of the passwords is the one that fills; the
other three are kept, because a clear hits one of them. Start and end times,
limits and the text of the key are data no property looks at; a KeyStr with a
use count ("123456,3") has the same identifier as one without. A request that the
service refuses changes nothing and is not a step. 888888 (one-key opening) and
999999 (dynamic password) reports do not touch the keys.

`Save` writes the file at once. The code never closes the file after writing, so that
what the C library buffers may be missing from it; the buffer keeps at most the last
4095 bytes of the record, which lie behind the array of the passwords. A restart is a
restart of the process, not a loss of power.

**The lock** is assumed to execute commands in order and to report once on each: an
add with success, a deletion with success (or failure if it has no such key), a
clear with passId 0. With `refuse` it may refuse anything.

**Properties.**

- `HeldWasStored`: a confirmed slot is a key the lock stored at some time.
  Duplicates, stale reservations and reports that answer another request make this
  less than obvious.
- `RestartKeepsKeys`: the confirmed keys of file and memory are equal at every
  moment, though reserved slots are written only by the way.
- `CloudKeysAreHeld`: what the cloud counts as a key is held, except while or
  after its deletion went unannounced.
- `ForgottenOnReport`: the only step that loses a key is the handling of the
  lock's report of its deletion. That a clear loses none is the finding of `LockKeysClear`
  seen from the other side: the table keeps keys the lock no longer has.
- `KeysOfLockKnown`: a password that opens the lock has a slot, so that it can be listed
  and deleted, whatever was lost, repeated, cleared or refused. Not after a restart,
  which forgets the slots that still wait; and not identifier 0, a password nobody asked for, which
  `Deref` reads from a slot the main thread has emptied.
- `QuietAgreement`: with nothing in flight, table and lock agree.
- `AddCompletes`: a reserved slot becomes a confirmed key.

**Bounds.** Two slots are enough for a duplicate, a full array and a hole before a
used slot. Two reports under way are enough for one that answers an earlier request,
with a command behind it and both threads in the middle of something. One restart can
come at any point. Code 0 and 123456 are the two ends of interest of the range
the report handler accepts: 2000000 itself and an inner value.

**Fairness** (`LockKeysQuiet` only). Weak fairness of `Deref` (the library's thread
runs on), of `Notify` (blocking calls have timeouts) and of `LockExecutes`, an assumption
on the lock. Strong fairness of `HandleReport`: the main thread reads events in the order
they come, so that reports of the lock's state, which may never stop, cannot pass the
report of a key for ever. Strong fairness of `Send`: the mutex is free between two
events, which come minutes apart, and a thread that waits for it gets it in the end.
Weak fairness would not be enough, as every event takes the mutex away for a while.
Nothing is assumed of the cloud: nobody has to request anything.

## 4 GatewayLoop

**State.** `main` is where the main thread is: in `timer_advance`, in the poll, or in
a blocking call of one of three handlers. `armed` and `at` are the list of
`timer.c`; `list`, `due` and `func` are the queue of `schedule.c` and the fields of the
tasks in it; `status` and `cloud` are LockState here and there. `lost` and `opened` are
history.

**Time.** `at` and `due` say how far away a deadline is, negative when it has
passed; `Tick` brings all nearer. That keeps the model finite with no bound on
how long it runs. `MaxLate` bounds how late a timer or a task is served: the handlers block for up to
ten seconds, and while they do, deadlines pass. Ties between timers are left open;
ties between tasks are decided as in the code, for the last in the list.

**Actions.** `EnterPoll` and `PollTimesOut` are the loop of `run_main`, one event per
poll. `RunTask` is `afly_handler_task_run`, `Relocked` and
`InfoRead` its end after the blocking call of the two task functions. `DoorOpens`,
`AskRelock` and `Notified` are the three parts of the handling of an opened door,
split at its two blocking calls. `SyncList` is `afly_handler_sync_list_run`.
`CloudConnected`, `CloudDisconnected` and `DeleteDevice` are steps of the library's
thread; a deletion empties a record wherever the main thread is.

**Properties.**

- `TimerCoversQueue`: the timer is set whenever a task is queued, and not for later than
  the first is due. Four places must keep this, and one of them runs while the timer
  is off. It also says that the timer never fires before a task is due, so that the
  branch of the handler for that case is dead and the model has no action for it.
- `OpenDoorHasTask`: a door that is open for the gateway or the cloud has its
  relocking queued, unless it is being opened or relocked now, or the post of
  the relocking failed. The exception is what the code does about a failed post: nothing.
- `NotRelockedEarly`: a door opened again gets the full delay, even when the old
  deadline had passed already.
- `DoorRelocks`: an opened door is relocked or opened again.
- `InfoKeepsRunning`: the task that queues itself is never lost.
- `TasksCallable`: no null function is called. A task lies inside the record of its
  device, which another thread may zero; the run has the deletions of devices whose task is not
  queued. Deleting one that waits for its relocking breaks the property (section 10).
- `ImplementsQueue`: list, timer and blocking handlers implement `TaskQueue`: a task that was
  asked for stays, with the time last given for it, and runs at its turn, in the order of the
  deadlines and not early. That it is late by no more than `MaxLate` is the assumption about time
  above, the same in both modules.
- `ReconnectLists`: violated, see the findings.

**Bounds.** Two doors and the information task make three tasks: one to run, one to be first
next, one behind it. The delays are chosen apart from each other so that
the orders of deadlines all occur, and with `MaxLate = 1` a deadline can be in the future,
now, or past.

**Fairness.** Weak fairness of the main thread's own steps (the loop goes round, the
blocking calls have timeouts) and of time. None of the openings, which people
cause, nor of the library's thread. With `MaxLate`, `Tick` waits for an overdue
timer to be served: the assumption that the main thread is late by a bounded time.

## 5 SubDevices

**State.** `subs` is the array `subdevs` of `product_sub.c`, with the fields this
module is about; `disk` is `subdev.db`. `handles` are the library's devices, with the
record whose address each has as its context, and whether the cloud has it logged in.
`main` and `sdk` say in which blocking call a thread is, for which record, with which
argument.

**Actions.**

| action | code |
|---|---|
| `RegReport`, `MainAllocates`, `RegisterReturns`, `CreateReturns`, `CreateFails` | `afly_nxp_reg`, one step per call of the library |
| `UpdateRecord`, `LoginReturns`, `LogoutReturns` | its second half, which `afly_nxp_upt_online` (`StatusReport`) has too |
| `UnregReport`, `DestroyReturns`, `UnregisterReturns` | `afly_nxp_unreg` |
| `EventReport`, `EventReturns` | `afly_nxp_rpt_event`: the call, and the recovery from -520, which goes on with `RegisterReturns` and `CreateReturns` |
| `LastCallReturns` | the calls whose results are not looked at |
| `AddSubDev`, `SdkAllocates`, `DelSubDev`, `ClrSubDev` | the three services, for one device of their list |
| `DeletedEvent`, `DeviceSentAway`, `SdkDestroyReturns`, `SdkUnregisterReturns` | `LINKKIT_EVENT_SUBDEV_DELETED`; the second step waits for `ue.mutex` |
| `Restart` | the process dies; `product_sub_load_all` |

Each of them does all the code does between two blocking calls. The search of
`product_sub_add` and its allocation are two steps, as both threads may call it; the
searches before it are one with its own. Two threads inside `product_sub_malloc` at
once are not modelled: they would have to meet within one test and assignment.

**The library** is not part of the repository. Assumed of it: handles get new numbers;
creating a handle for a device that has one gives that handle or fails; a call that
fails changes nothing, and calls for a handle that is gone fail. It calls
services and events from one thread.

**Clashes.** The code has no rule that keeps the threads off each other's records. The runs
take two views of that. Without `clash`, the cloud adds no device the main
thread is just adding, deletes no device with a handle through a service (only through
the event, which destroys the handle), and no thread starts to work on a record the other is
deleting; waiting for the mutex while the main thread works on the same device is
allowed. Then everything should be in order, whatever fails and whenever the
process dies. With `clash` all of it may happen; what survives is what
`SubDevicesClash` checks.

**Properties.**

- `UniqueNames`: no device has two records. The test and the addition are apart.
- `HandlesOwned`: the context of each handle is the record of its device, and has its number.
  Registration has five places to fail, a report goes on where the last one stopped, and a
  rejected event creates handles too. With clashes it fails (section 10).
- `LoginsKnown`: who is logged in at the cloud is known to be. The converse does not hold: after an
  unregistration that failed, the flag may claim a login that is gone.
- `RightDeviceLeaves`: the record is found at the beginning of a deletion and freed two
  blocking calls later.
- `ImplementsMap`: the table implements `DeviceMap`, though records may be doubled, written to
  after they were freed, or freed for another device: one device at a time.
- `RestartKeepsDevices`: a restart finds each device in its last state. Each change is
  saved in the step that makes it.
- `ListComplete`: see the findings.

**Bounds.** Three devices for two records: full tables, gaps, and reuse of a record by another
device. Three handles for a start: each device one, or one device a second and
third. The number of restarts is not bounded. With clashes one handle, so that a stale
one and a device without one occur together. Duplicates need the second device.

## 6 LockSession

**State.** `sd` is the record of one lock, as far as `known` (it has a handle of the
library), `online`, `login`, `dynamic`, `seed` and `interval` go; `disk` is what
a start would load of it. `main` and `lib` are where the main thread is in a report and
the library's thread in `GetDynamic`. `cmds`, `reports` and `lockSeed` are the seeds under
way, the reports under way, and what the lock uses; `session` is whether the library has
the lock logged in. A seed is the time it was chosen at. `said`, `failed` and `amiss` are
history: the field `online` of the last report, whether the last login or logout failed,
and what went wrong since a seed was last sent.

| action | code |
|---|---|
| `HandleList`, `MainRecords` | `rpt_nxp_list`, `afly_nxp_reg`: the online state, the save, a new seed if none is confirmed, and its recording after it was sent |
| `HandleStatus` | `rpt_nxp_status`, `afly_nxp_upt_online` |
| `Session`, `Posted` | login or logout, and the post of all properties |
| `HandleAlarm`, `Alarmed` | `EVENT_NXP_SYS_STATUS`: the event of a low battery |
| `HandleAnswer` | `EVENT_NXP_ADD_DEL_PASS_RET` with passId 999999 |
| `GetDynamic`, `LibCode`, `LibSends`, `LibRecords` | `subdev_get_dynamic`: the flag is read without the mutex, the mutex is held while the command is sent, the seed is recorded after that |
| `LockAnswers`, `LockReports`, `LoseCommand`, `LoseReport` | the lock and the radio |
| `Restart`, `Tick` | the process dies and `product_sub_load_all` runs; time passes |

**Properties.**

- `SeedAgrees`: once every seed sent is answered and recorded, memory, file and lock hold
  the same one, in whatever order two threads sent theirs and the answers came.
  `amiss` names the exceptions, each of which breaks it: the newest seed lost or refused, a
  restart, or one thread's report handled between the other's sending and recording.
- `NeverDividesByZero`: the interval `GetDynamic` divides by was recorded, unless a
  restart lost it (section 10). No crossing of the two threads does that.
- `SessionFollows`: a lock is logged in exactly if it is online, unless the last call failed.
  The flag that decides is what the last call returned, and is saved with the record.
- `SeedConfirmed`: a seed that was sent becomes valid, unless it was lost or the process restarted.
- `OnlineAsReported`: does not hold, section 10.

**Bounds.** Two messages are enough for two seeds under way and for an answer behind another
report; two times for two different seeds. Battery 0, low and charged are the three the
code tells apart.

**Fairness.** Weak fairness of the main thread's steps, of the service (its calls have
timeouts) and of the lock's answering. None of reports, requests, or time.

## 7 KVStore

**State.** `file` is what the path of the store names: no file, one that was made and not
written, or a whole map. `kvfile` is the handle of `HAL_OS_linux.c`; `root` and
`lock` are the tree and the mutex of each handle, named by the thread that opened it.
`at`, `call`, `handle` and `res` are where each thread's call is and what it works on. `may`
is history: for each key the value of the last change reported as done, and of those
begun since.

| action | code |
|---|---|
| `Call` | `HAL_Kv_Set`, `HAL_Kv_Get`, `HAL_Kv_Del` up to the test of `kvfile` |
| `Access`, `Create`, `Read` | `kv_open`: `access`, `create_json_file`, `read_file` and the parser |
| `Get` | `kv_get` under the mutex, `kv_get_blob`'s decoding |
| `Change` | `kv_set`, `kv_del`: the mutex and the tree |
| `WriteTemp`, `Rename` | `kv_sync`: the temporary file, and the rename after it |
| `Crash` | the process stops and starts |

A value is its length. What `Get` returns is computed as the code does it: length
of the base64 text, cut to the buffer, decoded. A set with the value the tree has is
an ordinary change.

**Properties.**

- `DoneIsDurable`: no change reported as done is lost.
- `FileStaysWhole`: the file is never half written, at any moment a crash could come.
- `ReadsAPromise`: a read returns a value that was promised, or, in a buffer too short for
  the text, less of it; never more than the buffer holds.
- `LockGivenBack`: on every path out of a change the mutex is given back.
- `ImplementsMap`: the store implements `KVMap`. What callers see is the tree, what is safe is
  the file; a change that failed stays in the tree and becomes safe with the next.

**Bounds.** Two keys and two threads: a change of one key written while another is under
way. Lengths 1 and 3 have two and no padding characters; buffers of 4 and 5
are one too short and just long enough for four characters and the terminator.

**Fairness.** Each thread's own steps: it is scheduled. None for calls or crashes.

## 8 HalTcp

**State.** `conn`, `space` and `queue` are the connection and the system's two buffers, `given`
and `taken` what `recv` has given of the stream and `send` has taken of its piece. `at`,
`op`, `len`, `wait`, `left`, `ready`, `moved` and `data` are the call: where it is, its
arguments, the time left to its end, the variable `ret`, `len_sent` or `len_recv`, and the
bytes the system took or the buffer that is read into. `spent` and `owed` are history.

A byte is a number, which it keeps from one end to the other: its place in the buffer that
is written, or in the stream that is read. The network numbers the stream by itself, and the call
finds its place by `len_sent` and `len_recv` alone; that the two agree is a property.

| action | code |
|---|---|
| `Call`, `Loop` | the arguments, and the beginning of a turn: the time, "send one time" |
| `SelectReady`, `SelectTimesOut`, `SelectFails` | the three results of `select` |
| `SendTakes`, `SendReturns`, `SendInterrupted`, `SendFails` | `send`, which blocks until all bytes are taken, a signal comes or the connection breaks |
| `RecvReturns`, `RecvClosed`, `RecvFails` | the results of `recv` |
| `PeerSends`, `PeerTakes`, `ConnectionEnds`, `Reconnect`, `Tick` | the network, a new connection, time |

**Properties.**

- `InOrder`: byte `i` of the buffer that is written is the `i`-th the system takes, and byte `i` of
  the stream comes to place `i` of the buffer that is read, however many pieces, signals and
  turns of the loop there were between.
- `BytesCounted`: the result of a call is the number of bytes the system took or gave, whatever
  ended the call.
- `EndIsKept`: an end of the connection, or an error of `recv`, that gave way to data is the
  result of the next read that looks at the connection. The code forgets it; what keeps it
  is the connection.
- `ErrorIsKept`: the same of every error, as the comment at `HAL_TCP_linux.c:262` says.
  Violated, see the findings: nothing keeps an error of `select`, or a signal in it.
- `ReadInTime`: no read takes longer than its timeout.
- `WriteInTime`, `WriteErrorsTold`: no write takes longer than its timeout, and one that failed and
  sent nothing returns a negative number, as the header says. Neither holds (section 10).
- `ReadReturns`: a read ends, whatever the peer does.

**Bounds.** Four bytes through a buffer of three: a call needs more than one piece. Three
ticks let time end between any two steps.

**Fairness.** The thread's own steps and time. Signals, the peer and the network may or may not
act.

## 9 Proofs

Each module that models a component has a module of proofs (`LockKeys` three): for every set of devices, keys,
codes, levels, every size, delay and bound that its assumptions on the constants allow. The
inductive invariants were checked by TLC on the instances of the runs before they were
proved.

| module | theorem: property | inductive invariant, and why it is needed | besides the assumptions on constants |
|---|---|---|---|
| `LockKeysProofs` | `TypeCorrect`: `TypeOK` | itself | - |
| | `HeldKeysWereStored`: `HeldWasStored` | `StoredInv`: also every positive report of an add under way names a key the lock stored | - |
| | `RestartFindsKeys`: `RestartKeepsKeys` | `SavedInv`: itself with the types; the descriptors are a condition of the property | - |
| | `CloudKeysHeld`: `CloudKeysAreHeld`; `KeysForgottenOnReport`: `ForgottenOnReport` | `CloudInv`: also only the array of the passwords is used, and an addition being announced is of a key held | `SavesSurvive`: not both `"fd"` and `"crash"` |
| `LockKeysAgreement` | `QuietlyAgrees`: `QuietAgreement` | `AgreeInv`: a password has one slot; an addition under way is in one place, with the service, in a command or in a report, and its slot is waiting; the lock has the key of a confirmed slot unless a report of the deletion is still to come, that of a waiting slot if the last report that counts says so | `Reliable`: none of `"loss"`, `"crash"`, `"repeat"`, `"clear"`; every code `Answerable` |
| | `ReservationsEnd`: with nothing in flight no slot is reserved | `ReservedIsPending`: a reserved slot has its addition with the service, in a command, or in a positive report | `Reliable`, no `"refuse"` |
| | `OtherCodesNeverHeld`: a code that is not `Answerable` is never confirmed | `HeldArePasswords`: what is confirmed has an identifier `HandleReport` takes for a password's | - |
| `LockKeysKnown` | `LocksKeysAreKnown`: `KeysOfLockKnown` | `KnownInv`: a password may have several slots and several additions under way, so they are counted: until a restart there are no more additions of it under way than slots waiting for it, and a password of the lock has a slot. If a positive report of its deletion is to come, a later one of its addition follows | - |
| `GatewayLoopProofs` | `TypeCorrect`: `TypeOK` | with `Kinds`: the functions tasks can have | - |
| | `TimerAlwaysCovers`: `TimerCoversQueue`; `TasksAreCallable`: `TasksCallable` | `TimerServesQueue`: the timer is set for the first task, and not before it; `Callable`: queued tasks have their function | `"delete_pending" \notin Faults` |
| | `OpenDoorsHaveTasks`: `OpenDoorHasTask` | `DoorsInv`: also a door's task does nothing but relock | the same |
| | `NeverRelockedEarly`: `NotRelockedEarly` | `DelayRuns`: the deadline of a task that relocks and the time since the opening make up the delay | -: a deletion makes it no relocking |
| | `NextReadAlwaysSet`: the network information is being read, or its next reading is queued and the timer set for it | `InfoAhead`: outside the reading, the task is queued with one of its two delays | `"delete_pending" \notin Faults` |
| | `TasksImplementQueue`: `ImplementsQueue` | `InTime`: a queued task is late by no more than the bound | the same |
| `SubDevicesProofs` | `TypeCorrect`: `TypeOK` | itself | - |
| | `DevicesSurvive`: `RestartKeepsDevices`; `TableImplementsMap`: `ImplementsMap` | the file is the table without handles and logins | -, clashes included |
| | `NamesAreUnique`, `HandlesAreOwned`, `LoginsAreKnown`, `RightOneLeaves`: `UniqueNames`, `HandlesOwned`, `LoginsKnown`, `RightDeviceLeaves` | `Table`: records and numbers are distinct, handles owned, logins known. `Places`: what each thread found out before a blocking call still holds after it, and the two are apart | `"clash" \notin Faults` |
| `LockSessionProofs` | `TypeCorrect`: `TypeOK` | itself | - |
| | `SeedsAgree`: `SeedAgrees` | `OneSeed`: the newest seed is recorded, or with the one thread that sent it; `AnswerToCome`: what is not saved has an answer to come | - |
| | `SeedsAreAnswered`: a seed that was sent and is not valid has its command or an answer under way, unless one was lost or a restart came | `AnswerOnItsWay`: itself | - |
| | `SessionsFollow`: `SessionFollows` | `LoginKnown`: flag and library agree | - |
| | `OnlyRestartsDivide`: `NeverDividesByZero` | `IntervalKnown`: an interval is missing only before the first seed, while one is recorded, or after a restart | - |
| `KVStoreProofs` | `TypeCorrect`: `TypeOK`; `FileIsWhole`: `FileStaysWhole` | itself; each step by itself | -, two openings at once included |
| | `NobodyWaitsForNobody`: who waits for a mutex waits for a thread that can write | `HolderWrites`: the holder of a mutex is in the writing of the same handle, so that no error return kept it | -, the same |
| | `ChangesAreDurable`, `ReadsPromises`, `StoreImplementsMap`: `DoneIsDurable`, `ReadsAPromise`, `ImplementsMap` | `IInv`: one thread opens and nobody works meanwhile, all work on one handle, who changes holds its mutex and finds the change in the tree, the tree holds what was promised | no `"race"` |
| | `BufferNeeded`: a value of `n` bytes comes back whole exactly if the buffer is longer than its text without padding | none: about `ReadInto`, for every length | - |
| `HalTcpProofs` | `TypeCorrect`, `BytesInOrder`, `ReadsInTime`, `ResultsCountBytes`, `EndsAreKept`: `TypeOK`, `InOrder`, `ReadInTime`, `BytesCounted`, `EndIsKept`; `LateInSendOnly`: a write that is late is in `send` | `IInv`: what moved is what was counted and what the running `send` took (`CountIsData`), the bytes that wait continue those counted (`QueueNumbered`: without it the next piece could be any), time spent and time left make up the timeout, an error of `recv` owed means a connection with nothing else in it | - |
| | `RecvNeverBlocks`: `recv` finds bytes or an end of the connection; `ReadsAreFinite`: each step of a read ends it or lessens `Measure`, which is bounded, and no step of the peer raises it | `ReadHasWork`: a read goes on while there is room in the buffer, and comes to `recv` when there is something to take | - |

The assumptions of the last column are faults left out, named in the theorem, because with
any one of them the property fails: section 10 says how, the run `LockKeysClear` for a clear;
a lost message, a repeated password and a restart (with `MaxCrash` 1), each added to
`LockKeysQuiet.cfg` under `Spec`, give a trace to a quiet state in which gateway and lock differ.
That the codes of `Reliable` are all that can be allowed is itself a theorem, `OtherCodesNeverHeld`.

Only model-checked: liveness, which is out of the prover's reach, as is `ENABLED`. The argument
for each is proved as far as it is safety, that is, that what has to happen is always still
under way:

| liveness, by TLC | what is proved for every instance |
|---|---|
| `AddCompletes` | `ReservationsEnd`: a slot that still waits has something under way |
| `DoorRelocks` | `OpenDoorsHaveTasks`, `TimerAlwaysCovers`: the relocking is queued, and the timer set for it |
| `InfoKeepsRunning` | `NextReadAlwaysSet`: the next reading is queued, and the timer set for it, at the latest by the relocking that runs |
| `LockGivenBack` | `NobodyWaitsForNobody`: the holder of the mutex is at a step that nothing blocks |
| `ReadReturns` | `RecvNeverBlocks`, `ReadsAreFinite`: no step blocks, and there are only so many |
| `SeedConfirmed` | `SeedsAreAnswered`: a seed that waits has something under way |

But for the two of `DoorRelocks`, no run lists these statements, nor that of
`OtherCodesNeverHeld`, as a property; TLC found no violation of them on the instances of the
runs before they were proved. The same holds of `LateInSendOnly`. `BufferNeeded` is about an operator.

## 10 Known deviations

Besides the findings, three statements of comments and headers are not what the code does. Each
is a property of its module, and TLC finds a counterexample when it is added to the `.cfg` named:

| where | what the document says, and what the code does |
|---|---|
| `rbx/src/uproto.c:965` | (also `819`, `865`) the comments at `rbx/src/uproto.c:813` and `859` give a message the fields "battery", "online" and "rssi"; the code fills the online state, and the last two rssi too, from "battery": a lock that says it is not online, with a charged battery, is taken as online and logged in (`OnlineAsReported`, `LockSession.cfg` with the fault `asleep`) |
| `ilop_sdk/src/hal/HAL_TCP_linux.c:191` | `iot_import.h:299` and `304`: a write blocks no longer than its timeout; `send` waits, on a blocking socket, until all bytes are taken, also when the timeout is 0 or has passed (`WriteInTime`, `HalTcp.cfg`; `LateInSendOnly` proves that a write is late nowhere else) |
| `ilop_sdk/src/hal/HAL_TCP_linux.c:208` | `iot_import.h:306`: a write returns a negative number for an error; the code returns the count, 0 on a broken connection as for a full buffer (`WriteErrorsTold`, `HalTcp.cfg`) |

What else the models show, or reading the code showed, is against no document, or is left out
of the models. Faults are those of the module's constant `Faults`; adding one to a `.cfg` gives
the trace.

| where | what |
|---|---|
| `rbx/src/afly.c:365` | a deletion whose slot the main thread empties in between sends passId 0, the number of a clear: the lock reports a clear |
| `rbx/src/product_sub.c:540` | a password of 1000000 or more has an identifier the report handler does not take for a password's, except from 3000000 to 3999999, where its branch for identifiers of five million takes it for one (`afly.c:1952`): the others are never confirmed (`OtherCodesNeverHeld`; `LockKeys` with such a code: `QuietAgreement` and `AddCompletes` fail) |
| `rbx/src/product_sub.c:200` | a save that succeeds does not close the file; without descriptors nothing is saved any more (faults `fd` and `crash`: `CloudKeysAreHeld` and `ForgottenOnReport` fail; `RestartKeepsKeys` excepts it) |
| `rbx/src/product_sub.c:75` | deleting a device whose relocking is queued cuts the queue off behind it and leaves a null function in it (fault `delete_pending`: `TasksCallable` fails) |
| `rbx/src/product_sub.c:116` | a door open at a restart stays open for the gateway: `lock_status` is loaded, the task is not |
| `rbx/src/afly.c:906` | `DelSubDev` and `ClrSubDev` empty records and leave the library's handles (fault `clash`: `HandlesOwned` fails) |
| `rbx/src/afly.c:484` | after a restart, the answer to the old process makes a seed valid that nobody recorded, with interval 0: the next `GetDynamic` divides by it |
| `rbx/src/afly.c:484` | between sending a seed and recording it nothing keeps the other thread from doing the same, or from confirming: the lock may then use one seed and the gateway have recorded the other, valid (`SeedAgrees` excepts it as `"crossed"` in `amiss`) |
| `rbx/src/afly.c:1973` | passId 999999 counts as success whatever its code: a refused seed is valid for the gateway |
| `rbx/src/afly.c:2091` | "Must wait device has login ok", says the comment, and nothing waits |
| `rbx/src/afly.c:1219` | `EXT_PAN_ID` is posted with the value of `ZB_PAN_ID` |
| `ilop_sdk/src/hal/HAL_OS_linux.c:666` | two first calls may both open the store; one's changes are lost (fault `race`: `DoneIsDurable` and `ImplementsMap` fail) |
| `ilop_sdk/src/hal/kv.c:204` | a buffer as long as the value is too short for its text; what is read is cut without an error. `ReadsAPromise` allows it, `BufferNeeded` says what length is enough |
| `ilop_sdk/src/hal/HAL_OS_linux.c:391-406` | a wait for a semaphore computes its deadline anew after each signal, and can last longer than its timeout |
| `ilop_sdk/src/hal/HAL_TCP_linux.c:256` | a signal during the `select` of a read is reported as an error of the connection |
| `ilop_sdk/src/hal/HAL_TCP_linux.c:226` | a read with timeout 0 returns 0 without looking for data |
| `ilop_sdk/src/hal/HAL_TCP_linux.c:240` | a read of no bytes on a connection with data takes the 0 of `recv` for its end, and returns -1; `HalTcp` leaves such calls out |
| `ilop_sdk/src/hal/HAL_TCP_linux.c:41` | time is the wall clock, which may be set; the model's clock only advances |

## 11 Not modelled

- Formatting and parsing of messages, logging, memory management. `atoi` beyond
  what an int holds. HMAC and SHA-1: the code a seed gives is a pure function.
- A service call for one lock is made by one thread at a time.
- A restart in `GatewayLoop`. The contents of the network data.
- In `SubDevices`: product keys and secrets, what the cloud has registered, a limit of
  open files (`LockKeys` has it as the fault `fd`). Two threads inside `product_sub_malloc` at once.
- In `LockSession`: the registration and the recovery from -520 (in `SubDevices`), messages with
  missing fields (dropped by the code), the other properties that are posted.
- In `KVStore`: loss of power (`kv.c:71` and `124` flush the files, nothing flushes the
  directory that the rename changes), files changed by
  others, values of no bytes, buffers shorter than three bytes (the decoder then looks at
  characters before the text), failures of memory allocation.
- In `HalTcp`: looking up the host and connecting (`HAL_TCP_Establish`), and calls for no bytes.
- The message router's own queue and its waiting calls: the two functions that queue an event
  (`rbx/src/uproto.c:380`, `411`) have no caller and every call of the build is made with
  timeout 0, so that no order of steps reaches them.
- The debugging command line (`rbx/src/cmd.c`), which calls what the other parts have, and
  pure helpers (`platform.c`, `hmac.c`, `sha1.c`, `log.c`, `hex.c`, `list.c`).
- Files outside the build or switched off: `rbx/src/zigbee.c`, `rbx/src/afly_profile.c` (all of it under
  `#if 0`), `rb/`, `libs/osi/src/tcp.c`, `hashmap.c`, `libs/third/libhttpd`.
- Vendored code: the headers of `mbedtls` and `linkkit`, cJSON, jansson. Most lines of the
  repository are of this kind: the map of definitions to lines covers most of what decides
  anything in `product_sub.c`, `schedule.c`, `kv.c` and `HAL_TCP_linux.c`, about half of
  `afly.c`, and little of the total.

## 12 Plan

1. *(done)* `LockKeys`, `GatewayLoop`, `SubDevices` and `DeviceMap` with their runs.
2. *(done)* `LockSession`, `KVStore` and `KVMap`, `HalTcp` with their runs.
3. *(done)* Proofs of the safety properties of all six modules, and of the safety parts of their
   liveness.
4. *(done)* `TaskQueue`, which the list and timer of `GatewayLoop` implement.
5. A restart in `GatewayLoop`, should the code say what becomes of an open door.
6. *(done)* The proofs of `QuietAgreement` and `KeysOfLockKnown`.
7. The message router's queue, should a build use it.
