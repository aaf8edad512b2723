# Formal models of the hexapod's control program

TLA+ models of the program that moves the six-legged robot: the firmware that
runs on the NIOS II processor under FreeRTOS
(`src/HexapodHW/Software/HexapodCtl`, C++), and the driver on the PC that talks
to it (`src/Driver`, Java). TLC checks the models on small instances; TLAPS
proves the theorems for every value of the constants.

Paths below without a leading `src/` are relative to
`src/HexapodHW/Software/HexapodCtl/`.

## The system

```
 driver (PC)                        robot (firmware)

 RobotManager ── Flow (Java) ═════ Channel ── Flow ── UartManager ── MovementManager
 ClientManager   JobQueue   serial             │    (request handlers)  │ movement thread
   │                        line        timeout threads                 │
 client library                                │                  operations, adjusters
                                     NotificationSender ◄──────────  "movement ended"
```

The peers exchange *requests* and *replies* over a serial radio link. A request
carries an id, and its reply carries the same id. The driver sends requests to
set, start and halt movements; the robot sends one request, a notification,
when a movement ended. Either may get no answer.

### Components

For each component: the state it keeps, what it does, what is hard about it,
and what would make it correct. The list in `PROJECT.json` also names the parts
that are left out.

| Component | State | Operations | What is hard | Correct when |
|---|---|---|---|---|
| **Flow** `protocol/Flow.cpp` | list of requests without an answer, sorted by expiry; the current timeout thread; last id; one mutex | `send`, `onMessage`, `onChannelClosed`, `receive` (timeout thread) | a reply, a timeout, the end of the channel and a failed write race for one request; callbacks run outside the mutex, from chains of nodes already unlinked, and may send again; the timeout thread ends while others insert | each request is answered exactly once, with the right verdict, and not before its time |
| **NotificationSender** `bot/firmware/NotificationSender.cpp` | attempts left, the message, the callback | `send`, `onReply` | attempts run in any of three kinds of threads, share one message object, and start from inside Flow's callbacks | at most 16 attempts, one at a time, none after the reply, and an end |
| **UartManager** `bot/firmware/UartManager.cpp` | the movement staged, the adjustment staged | handlers of `SetMovement`, `Move`, `Halt`, `Handshake`, `CheckStatus`, `FetchSensor`; `sendNotification` | runs in the receive thread, beside the movement thread | what is started is what was staged |
| **MovementManager** `bot/firmware/MovementManager.cpp` | posted, current operation, their adjust flags, the adjuster | `run` (movement thread), `move`, `adjust`, `halt`, `shouldStop`, `isMoving` | requests arrive between any two steps of `run` | each movement begun is notified once, correctly; halts halt |
| **Operations** `bot/firmware/movement/` | parameters | `run`: go to the start, loop over steps, go to rest | look at what is posted only between cycles | stop soon after something is posted |
| **MagnetometerAdjuster** `bot/firmware/MagnetometerAdjuster.cpp` | extremes measured, a stop flag | `run`, `stop` | outlives the movement that started it | measures while its movement runs, then corrects |
| **SensorsManager** `bot/firmware/SensorsManager.cpp` | last readings, corrections, what is captured | capture thread, `refresh`, `setCorrection` | read outside the mutex, stored under it, by two threads | a reading is not overwritten by an older one |
| **Channel** `protocol/Channel.cpp` | stream, receive thread, buffer of 256 bytes | `send`, `receive`, `start`, `stop`, `join` | damaged headers, bodies too long, closing from several threads | the loop finds the next message again; the end is reported once |
| **Reference counting** `base/`, `concurrent/managed/` | control blocks: object, count, weak count; stacks of free blocks | get, drop, upgrade a weak reference, obtain and release an object | two threads drop the last references, or one upgrades meanwhile | finalized once, not used afterwards, blocks recycled once |
| **Pools** `base/TypedPool.hpp` | objects of a fixed number, free stack | `obtain`, `recycle` | no check that one is left | never asked for more than it has |
| **Threads** `concurrent.thread.cpp` | task handle, pool of 12 | `start`, `run`, `join`, `sleep` | a task deletes itself before it frees its object | threads that end give back what they took |
| **Driver** `src/Driver/BotDriverJava/hexapod/bot/driver/` | the state of the robot's connection, the clients, their flows | jobs, callbacks, retries, notifications passed on | callbacks of several threads queue jobs; clients close while they are notified | notifications reach connected clients; jobs are not lost |
| **JobQueue** `src/Driver/LowLevelLibJava/src/concurrent/jobs/JobQueue.java` | queue, worker thread | `enqueue`, `run` | a job arrives while the worker decides to end | every job runs once, in order |

Left out for good: leg kinematics and bus drivers (sequential register I/O),
the streams' system calls, user interfaces, the two older drivers
(`src/Driver/HexapodDriver`, `src/Driver/HexapodDriverC++`), the FPGA design
and the vendored FreeRTOS.

### How the parts interact

- **Calls.** The receive thread of `Channel` calls `Flow::onMessage`, which
  either answers a waiting request (its callback runs in the receive thread) or
  hands the request to `UartManager`. The handlers call `MovementManager`.
- **Threads.** Movement thread, receive thread, up to a few timeout threads,
  adjusters, sensor capture. Every one of them may end up in
  `NotificationSender::onReply`.
- **Shared state.** `Flow::m_mutex` guards the list; `MovementManager::m_mutex`
  guards what is posted.
- **Messages.** They may be lost or damaged; answers may come after the
  requester gave up.

## Modules

| Module | Models | Extends / uses |
|---|---|---|
| `RequestReply` | what a Flow promises to the callers of `send` (abstract) | — |
| `Flow` | the firmware's Flow with all threads that run its code | refines `RequestReply` |
| `MCFlow` | symmetry for TLC | `Flow` |
| `Notifications` | NotificationSender as the callback of every request | `Flow` |
| `JavaFlow` | the driver's Flow where it differs | `Flow` |
| `Movement` | handlers, movement thread, adjusters | — |
| `SharedObject` | what counted references promise to those who hold them (abstract) | — |
| `RefCount` | control blocks, strong and weak references, the pools they come from | refines `SharedObject` |
| `MCRefCount` | symmetry for TLC | `RefCount` |
| `JobService` | what a queue of jobs promises (abstract) | — |
| `JobQueue` | the driver's list of jobs and its worker thread | refines `JobService` |
| `Driver` | RobotManager and ClientManager, the threads that run their code, both peers | `JobQueue` |
| `MCDriver` | the jobs, for TLC | `Driver` |
| `Channel` | one direction of a Channel: senders, the line, the receive thread | — |
| `MCChannel` | sizes of messages for TLC | `Channel` |
| `ListLemmas` | facts about inserting into and cutting sequences | — |
| `FlowProofs` | invariants of `Flow` and of its Java twin, refinement; the list, the timeout threads, the mutex | `JavaFlow`, `ListLemmas` |
| `NotificationProofs` | invariants of `Notifications`; it uses `Flow` as `Flow` allows | `Notifications`, `FlowProofs` |
| `MovementProofs` | invariants of `Movement` | `Movement` |
| `RefCountProofs` | invariants of `RefCount`, refinement | `RefCount` |
| `JobQueueProofs` | invariant of `JobQueue`, refinement | `JobQueue` |
| `DriverProofs` | invariants of `Driver`; `Driver` uses its queue as `JobQueue` says | `Driver`, `JobQueueProofs` |
| `ChannelProofs` | invariants of `Channel` | `Channel` |

`PROJECT.json` ("map") gives the source lines of every definition.

### Flow

One step is what one thread does between two points at which others can
interfere: a section under `m_mutex`, a write to the stream, a callback.

- `waiting` is the linked list `m_waitingReply`, `timer` is `m_timeoutThread`,
  `lastId` is `m_lastId`. `owed[t]` is the chain of nodes a thread unlinked and
  still walks, outside the mutex, calling callbacks. `sending[t]` is the request
  a thread is sending.
- `Lock`, `Written` or `NotWritten`, `Insert` or `FailedCallback` are the parts
  of `Flow::send`; `mutex` stays with the thread throughout, as in the code.
  `Call` is a thread deciding to send.
- `ReceiveReply` is `onMessage` with a reply; `OnChannelClosed`; `Check` and
  `Wake` are the locked pass of `Flow::receive` and the end of its sleep.
- `Deliver` runs one callback, `Finish` ends the walk.
- Timers are identities for timeout threads; `Insert` takes an idle one where
  the code creates a thread.
- Time: `left[n]` is what remains until `absoluteTimeout`, `nap[k]` what remains
  of a sleep, `Tick` lets time pass for all. A thread may be late by any
  amount: `Tick` does not wait for anyone.
- The peer and the radio: a reply may arrive once the request is written, or
  never; `inflight` holds the ones that may. `Close` closes the stream at any
  time.
- `verdict` and `calls` record what callbacks are told and how often they ran.

Two simplifications of replies. The receive loop looks at the stream between two
messages only, so `onMessage` may see one more reply after the stream was closed:
`Close` leaves at most one in `inflight`, and `ReceiveReply` does not ask whether
the stream is open. A reply comes at most once: a serial line and TCP do not
duplicate, the handlers reply once to a request, and a retry is sent under a new id. A
second copy would find no node and be dropped, as one that comes too late is.

`JavaFlow` replaces `FailedCallback`: the Java `send` returns from that branch
without `m_mutex.up()`. Everything else of the Java class is the same code. Any
callback may send again, as the one of `BotUtils.RequestRepeater` does
(`JavaCallback`); the one told of a failed send then waits for the mutex that its
own thread left down.

### Notifications

`NotificationSender::onReply` is conjoined to every step of Flow that runs a
callback, and so decides whether that callback sends again. `remaining` is
`m_remaining`. Two numbers are scaled: 16 attempts become `Tries`, and the
timeout of 100 ms, which Flow raises to its minimum of 128, becomes a request
for 0 that is raised to 1.

### Movement

- Handlers, in the receive thread: `OnSetMovementRequest` stages a movement of
  one of three kinds (`walk`: it may first turn; `adjust`: asks `isMoving` and
  has an adjuster; `turn`: any other), `OnMoveRequest` posts it,
  `OnHaltRequest` posts `Halt` (handshakes do the same). `operation`,
  `adjustNext`, `adjustId` are the members of `UartManager`; `next`,
  `willAdjust`, `current`, `isAdjusting`, `held` those of `MovementManager`.
- Movement thread: `pc` walks through `MovementManager::run` and the operation
  it calls. `Begin` is the transition to a posted movement. `Cycle`,
  `LoopOver`, `StopEarly` are the loops of the operations, `Guard` is the
  question "still moving?" of `WalkOperation` and `AdjustOperation`.
  `StopAdjuster`, `Verify`, `Report`, `Advance` follow the code from the return
  of the operation on, in its order.
- A loop over steps counts its cycles down (`todo`). A rotation does not
  (`Rotates`, `Remaining`): it goes on until the magnetometer reports the target
  angle, so what is left after a cycle is any number, and it need not end.
- `Correct` is an adjuster that notices its stop flag and corrects the
  magnetometer. `run` waits at most 10 ms for it, the adjuster looks every
  100 ms: the model does not make `run` wait.
- Each section under `MovementManager::m_mutex` is one step: no thread waits
  for another inside one.
- `cut`, `halted`, `started`, `told` are history for the properties.
- `m_currentId` is left out: only `shouldStop` reads it, and ignores it.
  `CheckStatus` changes nothing; its answer is `IsMoving`.

### RefCount

- A reference is a variable of the program of type `TypedStrongRef` (`Strong`)
  or `TypedWeakRef` (`Weak`); `obj` is `m_obj`, `blk` is `m_ctrlBlk`, `counter`
  is an object's `m_counter`; `target`, `strongCount`, `count` are the members
  of a `ControlBlock`. `pool` and `stack` hold what is free.
- Each reference takes its steps on its own, as if in a thread of its own, and
  `pc` says where it is. A step is a critical section (`enterCritical` masks
  interrupts) or an access outside of one.
- A new object is `Obtain` (pool), `GetControlBlock` (obtain, reset, pop),
  `FirstReference`. `Copy` and `Weaken` make a reference from another.
- A weak reference is made strong in two steps, as the code does it: `Upgrade`
  counts, `GetTarget` then reads `m_target` outside of the critical section. It
  may find nothing, or an object of another class (`dynamic_cast`, a choice of
  the model); then the reference is dropped.
- `DecrementStrong` and `DecrementWeak` are the critical sections;
  what they decide is done after it, by `Finalize` and `Recycle`, in that order.
- An assignment is a copy into a fresh reference and the end of the old one.
- Copies always count. The counting copy constructors and assignments of
  `TypedStrongRef` and `TypedWeakRef` are templates or take a source that is not
  const; a const source or a temporary of the same type would select the implicit
  ones, which copy the pointers without counting. No copy in the firmware does:
  it has no const references and no function that returns one by value, the one
  parameter taken by value (`MovementManager::move`) is given a member, which is
  not const, and initialisations from temporaries are elided. The one weak
  reference (`FlowReplier::m_channel`) is assigned from a strong one.

A reference variable is used by one thread at a time, and a reference that
another is made from stays until that is done. The model assumes this of the
code that uses references: arguments and locals belong to a thread, and members
that threads share are meant to be read and written under their owner's mutex.

### JobQueue

`jobs` is the list from `m_first` to `m_last`, `worker` is `m_thread`; `pc` and
`node` say where a worker thread is and which job it runs. `Enqueue` is the
locked section of `enqueue`, which starts a thread if `m_thread` is null. `Take`
and `End` are the two outcomes of the locked section of the loop. `Return` is
the end of a job; `Throw` is an exception that leaves it, which ends the thread
and leaves `m_thread` as it is.

### Driver

- `RobotManager` does everything in jobs of one queue. A job is a record of what
  it does and for which client (`0` for the robot's notifications). The client
  of a job is not in the code, which passes a closure; the model keeps it to say
  which job may touch which connection.
- `rmState`, `rmFlow` are `RobotManager`'s `m_state`, `m_flow`; `cmState`,
  `cmFlow` those of `ClientManager`. A Flow is named after the client it was
  opened for, `NoFlow` is null.
- `at` is where a job is. `OpenPort`, `Handshake`, `CheckStatus`, `OpenFails`,
  `OpenRefused` are `internalOpen` request by request; `BeginMove`,
  `HaltFirst`, `SetMovement`, `Move` are `internalMove`; `BeginAsk`, `Ask` are
  `internalHalt` and `internalReadSensor`; `RequestFails` is each of them
  without a reply, or with one that refuses; `Close` is `internalClose`.
- `BotUtils.sendRequestAndRetry` is one step: `Replied`, or `GivesUp` after its
  tries. In between, the worker waits, and everybody else may act. A failed
  `send` leaves the Java Flow's mutex down (finding 2): `rmHeld`, `held`; who
  sends next on that Flow is `stuck`.
- `Accept`, `AcceptFails`, `ClientConnects`, `StartFlow` are
  `ClientManager.accept`, run by a thread of its own; `m_state` is set before
  `m_flow`, outside of one lock. `ClientRequest` is the receive thread of the
  client's channel, which queues a job; `onFlowClosed` the same thread at its
  end: it queues the close and starts the next `accept`.
- A notification is a job: `NotifyNobody` and `NotifyClient` are the look at
  `m_flow` under the lock; `SecondLook` reads the field again without it, into
  `target`, or finds it null (`NullFlow`). `SendNotification` and
  `NotificationFails` then use what was read, which may be the Flow of a client
  that has left since.
- `robot` is whether the robot was told to move since it was told to halt, which
  the driver cannot see; `unsure` whether the reply to a `Move` was lost.

### Channel

- A frame is a header of `Header` bytes (16 in the code) and a body; `frame[s]`
  is the byte a sender writes next, so that header and body are the two writes
  of `send`, and `MutexFree` is `m_sendMutex`. A byte knows the message it
  belongs to and its place in the frame, `at = 0` when damaged: that is all the
  receiver can tell from magic word and checksums if these are perfect, which
  the model assumes.
- `mode` is where `receive` is: reading a header, flushing, reading a body,
  in the handler, at its end. `ReadSome`, `ReadHeader`, `ReadBody`, `Flush` take
  one byte off the line; `GiveUp` is a read that comes out short.
- `BodyRead` cuts a body at `MaxBody` (256). What was cut has the wrong checksum,
  and its rest is taken for headers.
- `Silence` is one byte timeout with nothing on the line. It bounds the sender
  as well: a sender that is still inside its frame has been too slow.
- `Fault` loses or damages a byte; `ShortWrite` is a `write` that takes less
  than it was given, after which `send` returns false; `StreamFails`, `stop`.
- `trouble` and `due` are history: whether anything went wrong since the line
  was last silent for two byte timeouts, and what was sent whole while nothing
  had. Two, since the first ends the read of a header and only the second the
  flush after it (`Channel.cpp` 213-222).

## What is checked

| Run | Bounds | Checks | Shows |
|---|---|---|---|
| `flow_races` | 2 callers, 3 sends, timeouts 1 and 3 with a minimum of 2, writes that fail, closing; timers and callers symmetric | `TypeOK` `AtMostOnce` `NeverForgotten` `Custody` `DeadlineOrder` `TimerPresent` `OneTimer` `RegisteredBeforeReply` `ReplyReachesItsRequest` `NoEarlyTimeout` | requests are answered at most once, by who unlinked them, with the right verdict and not early; the list stays sorted; a timeout thread watches it while anything waits, and only one does |
| `flow_live` | 2 callers, 2 sends, timeouts 1 and 2 | `SendProceeds` `ImplementsFairPromise` | if callbacks do not send, no `send` blocks for good, and Flow implements `RequestReply` with its liveness |
| `notifications` | 2 notifications of 2 attempts from one thread, 4 sends | `RetryAccounting` `OneAttemptAtATime` `SilentOnceTold` `EverySendSettles` | attempts are counted right, never overlap, end with the reply, and come to an end |
| `movement` | 3 movements, loops of up to 2 cycles, rotations of any number | `TypeOK` `CutIsAborted` `StartedIsToldOnce` `AdjusterPaired` `HaltCancels` `HaltStops` `StartedIsTold` `AdjusterEnds` | notifications of movements are right, unique and in order; adjusters go with adjusting movements; halts cancel, and stop rotations that would never end too |
| `ref_count` | 2 objects, 5 blocks, 3 strong and 2 weak references; all symmetric | `TypeOK` `CountsMatch` `HeldIsAlive` `ReturnedOnce` `NothingLeaks` `WeakKeepsIdentity` `ImplementsSharedObject` | counts are right; an object ends once, after its last holder, and nobody gets it afterwards; nothing is lost; blocks change their object only when nobody refers to them |
| `driver` | 2 clients, 3 requests of any kind, 1 notification, 2 threads for the worker, sends that may fail | `FlowMatchesState` `RobotOfItsClient` `MovingIsKnown` `OneWorker` `ServesInOrder` `ServesAll` `GoneClientReleasesRobot` | state and Flow agree in every job; a client's jobs, its close included, never touch the next client's robot; jobs begin in order and all of them; a robot is released when its client is gone, if nothing broke |
| `channel` | 2 senders, an empty, a short and a too long message, header of 2 bytes, 2 faults | `SoundMessagesArrive` `Recovers` | frames do not mix; what is sent whole over a line in order is handled; the receiver never stays off the headers |
| `driver_notify` | 2 clients, 1 request, 1 notification | `QueuedJobsBegin` | **violated**, see findings |
| `send_failure` | 1 notification, 2 attempts | `SendProceeds` | **violated**, see findings |
| `java_send` | 2 callers, 2 sends, callbacks that may send again | `SendProceeds` | **violated** |
| `id_wrap` | ids of 1 bit, 3 sends | `ReplyReachesItsRequest` | **violated** |
| `still_moving` | 3 movements, 1 cycle | `StillMeansStill` | **violated** |

Each property of a passing run has mutants in `PROJECT.json`: definitions named
`Slip...` are plausible mistakes, and each property notices at least one.

### Why the bounds are enough

- `MaxSends`: with three requests a list has a head, a middle and a tail; a
  thread can insert before, between and after nodes that others unlink; a
  second and third timeout thread can be created while the first still runs
  callbacks. The invariants relate at most two requests and two threads.
- `Timeouts`: one below the minimum and one above it, so that both orders of
  insertion and both branches of the minimum occur. A sleeping thread can be
  overtaken by a request that expires earlier.
- `IdSpace`: larger than `MaxSends` except in `id_wrap`, so that ids do not
  collide; in the code this is true of the first 65535 sends.
- `Timers`: as many as sends in `flow_races`; the theorem `TimersSuffice` says that
  no send needs more. `notifications` has three for four sends, to keep TLC's time
  down: it leaves out that three of them still run callbacks while a fourth is
  created. Its invariants are proved without that limit.
- `Tries` = 2: a first, a repeated and a last attempt are distinguished by 1
  and 2; two notifications, so that attempts of one meet answers of the other.
- `MaxOps` = 3: one movement current, one posted and one staged. A request that
  names an unknown movement changes nothing and is not modelled.
- `MaxCycles` = 2: a loop can end at once, be cut in its first or a later cycle.
  It does not bound how long a rotation lasts.
- `Object`, `Strong`, `Weak`: two objects, so that a block can be reused for
  another; three strong references, so that one is dropped and one upgraded
  while a third holds; two weak ones, so that either may be the last. `Block`:
  each reference can keep at most one block from the stack, so five blocks are
  never exhausted by five references.
- `MaxClients` = 2: one that leaves and one that comes; `MaxRequests` = 3: an open,
  a movement and one more wait behind the close of the other client.
  `MaxNotices` = 1: a notification crosses any other step. `Thread`: a worker
  that ends and the next one.
- `Message`: one message for each branch of `receive` (no body, a body, one that
  is cut). A header of two bytes has a first byte, waited for without limit, and
  a later one. Two faults can spoil two frames, or one twice, and a third frame
  follows.
- Symmetry is used only by `flow_races` and `ref_count`, which check no
  liveness.
- `CHECK_DEADLOCK FALSE` in the runs of Flow and its users: the robot may be
  idle when the sends are used up. The same holds of `Driver` and `Channel`. `Movement` runs on: a halt can always come.

### Fairness

- Flow: weak fairness of each thread that can take a step and of time. The
  mutex is a counting semaphore without a guaranteed order, yet weak fairness
  suffices here: sends are bounded, so that nobody is overtaken forever. The
  peer and the radio get none: replies need never come. `Receive` of a reply is
  unfair for that reason, `OnChannelClosed` is fair since a closed stream ends
  the receive loop.
- Movement: weak fairness of the movement thread and of each adjuster. No
  request need arrive. `StartedIsTold` assumes that no rotation goes on for ever
  (`LoopsEnd`): nothing in the code makes it end but the readings of the
  magnetometer, or something posted. `HaltStops` assumes nothing of the kind,
  since every loop looks at what is posted.

- Driver: weak fairness of the thread that accepts, of the receive thread of each
  client at its end, and of the worker. The peers get none: a client need not
  connect, ask or leave, a robot need not answer. `GoneClientReleasesRobot`
  assumes that nothing broke (`Broken`): no Flow with a lost mutex, no worker that
  ended with an exception. Those are findings 2 and 5.
- Channel: weak fairness of the receive thread and of time. Senders are finitely
  many messages, so they fall silent in the end. That is what the code relies on:
  a peer that never pauses for a byte timeout keeps the receiver flushing.

## Findings

1. **A failed write stops the firmware's Flow** (`send_failure`).
   `Flow::send` runs the callback of a message it could not send before it
   releases `m_mutex` (`protocol/Flow.cpp:136`). `NotificationSender::onReply`
   sends again from there and waits for the mutex its own thread holds. From
   then on the movement thread, replies and timeouts wait as well.
2. **A failed write stops the driver's Flow** (`java_send`). `Flow.java:142`
   releases the mutex only if the message was sent. Where the callback sends again
   (`BotUtils.java:92`), its own thread is the first to wait.
3. **Replies are lost after 65535 sends** (`id_wrap`). `m_lastId` is compared
   whole with the 16 bits the header carries.
4. **"Not moving" while the legs move** (`still_moving`). `isMoving` is false
   as soon as a halt is pending, while the operation still finishes its cycle.

5. **A notification ends the driver's job queue** (`driver_notify`).
   `ClientManager.sendNotification` looks at `m_flow` under the lock and then uses
   the field again (`ClientManager.java:341`). If the client leaves in between,
   the worker ends with a `NullPointerException`, `JobQueue.m_thread` still names
   it, and no job is ever run again.

Seen while reading, without a run: `accept` that fails once is never tried again
(`ClientManager.java:114-140`); a robot whose link dies stays `Idle` or `Moving`
for `RobotManager`, and only the client can close it, by leaving;
`TCPSocketStream.read` never clears its selected keys, so that a pause inside a
message closes the socket, and never closes its `Selector`s; in
`RobotConnection` the end of an old Flow can disconnect a new connection.

## What is proved

`FlowProofs`, for any threads, timeouts, number of sends and size of the ids,
whether or not callbacks send again, writes fail or the channel closes:

- `TypeCorrect`, `RequestsInCustody`, `CallbackAtMostOnce`,
  `NoRequestForgotten`: `TypeOK`, `Custody`, `AtMostOnce`, `NeverForgotten`.
- `FlowImplementsPromise`: every step of Flow is a step of `RequestReply` or
  leaves what callers know unchanged.

The argument: "the callback ran at most once" is not inductive. A callback runs
because some thread holds the request, so one must know that only one thread
does and that it has not run the callback before. `Custody` says where a
request may be (being sent by the holder of the mutex; in the list; in one
thread's chain; answered) and that these places exclude each other.
`IInv` adds types. `UnlinkPreserves` treats the two places where nodes leave
the list in bulk (timeouts, closing) at once: both cut the list into a chain
and a rest. `ListLemmas` proves what is needed of `InsertAt`, `RemoveAt` and
`SubSeq`: which elements the result has, and that no element occurs twice.

On top of `IInv`, in the same module:

- `ListIsSorted`: `DeadlineOrder`. A node goes before the first that expires
  later, unlinking keeps the order of the others, and time takes the same from
  all of them until they have expired.
- `TimerIsPresent`, `TimerIsOne`: `TimerPresent`, `OneTimer`, from `TimerInv`: the
  thread that `m_timeoutThread` names is the one that sleeps, is about to, or looks
  at the list, and there is one whenever the list is not empty.
- `RepliesFindTheirRequest`: `RegisteredBeforeReply`, from `Reachable`: a reply
  that can arrive belongs to a resolved request, to one in the list, or to one its
  sender is about to insert, who then holds the mutex.
- `NoTimeoutIsEarly`, `RepliesReachTheirRequest`: the action properties
  `NoEarlyTimeout` and `ReplyReachesItsRequest`, the latter for fewer sends than
  there are ids (`MaxSends < IdSpace`): with more it fails, as `id_wrap` shows.
  `WrappedRequestsGetNoReply` is the other half: a request whose number does not fit
  into the header is never told of a reply, whatever arrives.
- `TimersSuffice`: with as many identities for timeout threads as sends, `Insert`
  always finds one. Each thread was created for a request that is in the list or
  was, and the request being sent has none yet (`TimersCounted`). So the bound on
  `Timers` hides nothing. `SleepIsBounded`: no sleep is longer than the longest
  timeout, which is how late a request that expires earlier may be noticed.
- `MutexHolderSends`: `m_mutex` is held only by a thread inside `send` that will
  get to `up()`, or by one that waits for itself (`WaitsForItself`).
  `SelfDeadlockIsForGood` and `SelfDeadlockHasItsCause` say what finding 1 amounts
  to: such a thread waits for good and nothing is numbered, inserted or resolved
  any more; and it takes both a callback that sends and a message that is not
  written.
- `JavaInvariance`, `JavaImplementsPromise`: `IInv` and the refinement hold of
  `JavaFlow` too, from one more case (`FailureToldPreserves` treats both versions of
  the failure path at once). `JavaLockIsLostForGood`: finding 2 costs no wrong
  answer, but once the mutex is left down it is never free again and what waits
  in the list stays there.

`NotificationProofs`, for any number of notifications and attempts, and any
threads, timeouts and failures below them:

- `NotificationsUseFlow`: `NotifySpec => Spec`. What is proved of `Flow` holds below
  `NotificationSender`, in particular `IInv`.
- `AttemptsAreCounted`, `AttemptsDoNotOverlap`, `ToldIsOver`: `RetryAccounting`,
  `OneAttemptAtATime`, `SilentOnceTold`.
- `RetriesDeadlockOnlyAfterFailure`, `StuckNotificationsStaySo`: finding 1 for the
  notifications.

The argument: a request is open until its callback ran, and by `Custody` and
`NeverForgotten` the open requests are those that can be found anywhere
(`OutstandingIsOpen`). `NInv` says that a notification is in one place: one open
request, one thread about to send, or over (`Lives`); that a thread sends on behalf of a
notification that was begun, and only a thread at `down()` does (`Attribution`);
and counts. `OnReplyPreserves` treats a callback once, whichever thread runs it and
with the mutex or without: it closes the one open request, so that an attempt
begun there overlaps with no other, and adds one to the sends exactly if
it takes one from `m_remaining`.

`MovementProofs`, for any number of movements and cycles:

- `MovementTypeCorrect`, `CutMovementsAreAborted`, `MovementsAreToldOnce`,
  `AdjustersArePaired`: `TypeOK`, `CutIsAborted`, `StartedIsToldOnce`,
  `AdjusterPaired`.
- `HaltsCancel`: `HaltCancels`, an action property, from `HaltPosted`: since a
  halt, what is posted is not a movement.

- `MovementsBeginInOrder`, `NoMovementIsToldTwice`: labels begin in ascending
  order, none twice, and none is notified twice. `Ordered` says that what is
  staged is younger than what is posted, and that younger than all that began.
- `StillUnlessHalting`: finding 4 needs a pending halt; at any other time "not
  moving" is true.

The argument: that an adjuster measures exactly while an adjusting movement runs
needs the two flags `m_willAdjust` to agree with the movement they are for, from
the request on (`FlagsAgree`), and that a movement's label keeps its meaning
(`Requested`). That a cut movement is reported as aborted needs what cut it to
stay posted through the rest of `run` (`CutStays`).

`RefCountProofs`, for any objects and blocks and any finite number of
references:

- `RefCountTypeCorrect`, `CountsAreRight`, `HeldObjectsLive`,
  `NothingReturnedTwice`, `NothingIsLost`, `WeakIdentity`: all that `ref_count`
  checks.
- `CountingImplementsSharing`: every step of `RefCount` is a step of
  `SharedObject` or one that holders cannot tell.

The argument: that a held object is alive rests on `CountsMatch`, since the
thread that counts down to zero must be the only one left; and `CountsMatch` is
kept only if every counted reference goes to a block in use. So `IInv` adds who
knows what: an object before its first and after its last reference is known to
one reference only (`SoleOwner`), a block that leads to an object is led to by
that object and has a strong reference (`TargetAlive`, `Linked`), and who
recycles a block is the last to know it (`BlocksApart`). `StrongAdded`,
`WeakAdded`, `StrongRemoved`, `WeakRemoved` prove the counting once for all
actions, from the library's facts on finite sets; `OnlyStrong` and `OnlyWeak`
say what a count of one means. `CountingPreserves` treats the three ways to
make a strong reference at once.

`JobQueueProofs`, for any jobs and threads:

- `WorkersAreOne`, `QueueServesInOrder`: `OneWorker` and `ServesInOrder`.
  `OneWorker` is inductive: who is not off is named by `m_thread`, and while the
  list is not empty `m_thread` names someone, because the worker clears it in
  the section in which it finds the list empty. With it every step of
  `JobQueue` is a step of `JobService`: a job is served only when none is, since
  there is nobody else to run one.
- `DeadWorkersAreNotReplaced`: after an exception that leaves a job, no job begins.

`DriverProofs`, for any number of clients, requests and notifications, with sends
that fail or not:

- `DriverServesInOrder`: each step of `Driver` is a step of `JobQueue` or leaves
  the queue alone, so that what is proved of `JobQueue` holds in `Driver`.
- `DriverTypeCorrect`, `FlowAndStateAgree`, `MovingRobotsAreKnown`,
  `RobotsKeepTheirClient`: `TypeOK`, `FlowMatchesState`, `MovingIsKnown`,
  `RobotOfItsClient`.

- `DriverStopsForGood`: once the worker died or waits for a lost mutex, no job of
  any client begins. `OnlyNullFlowKills`, `OnlyFailedSendsBreak`: it dies only where
  finding 5 says, and everything else that `Broken` means goes back to a failed send
  (finding 2). So what `GoneClientReleasesRobot` assumes is that neither happens.

The argument for `RobotOfItsClient`: a client's receive thread queues all its requests
before its close, and the next client is accepted only after that. So the jobs
in the queue, with the one that runs in front, are ordered by client, each
client's close is behind its requests, and if the robot is open for a client
whose jobs are behind another's, a close is still between them.

`ChannelProofs`, for any senders, messages, sizes, and number of faults:

- `ChannelTypeCorrect`, `SoundMessagesAreNotLost`: `TypeOK` and
  `SoundMessagesArrive`.

The argument: take the bytes the reader holds followed by those on the line. The
first so many of them are the *sound part* (`SoundPart`): frames one after the
other, undamaged and not too long, starting where the reader is. Every message
that is due and not handled has its last byte in it. While there is no trouble
the sound part is everything, and the sender goes on where it ends
(`ToWriter`). A fault, a slow sender or a short write does not touch it; what is
written afterwards is simply not counted to it. Each action of the reader takes
the first byte of the sound part and does with it what its place in the frame
says, so that nothing of it is ever flushed. A silence finds the line empty, so
it can only cut a message that is not due; two silences bring the reader to a
header (`QuietReader`), and from then on the sound part is everything again.

**Assumptions.** The named `ASSUME`s: sets of threads are disjoint, constants
for "nobody" and "halt" are neither threads nor movements, sizes are natural
numbers, the minimal timeout is positive (128 in the code), there are finitely
many references. TLC evaluates them in the runs.

**Only model-checked.** Liveness (fairness and ENABLED are beyond the prover):
`SendProceeds` and `ImplementsFairPromise` of Flow, `EverySendSettles`, `HaltStops`,
`StartedIsTold` and `AdjusterEnds` of Movement, `ServesAll`,
`GoneClientReleasesRobot`, `Recovers`. Every invariant and action property of a
passing run is proved. What the runs find violated stays a run: the theorems above
say when it happens and what follows.

## What is not modelled

- Pools that run empty: `Flow` and `Movement` create nodes, threads and
  operations without limit; in `RefCount` an object or a block is taken only
  when there is one (`obtain` and `pop` do not look). The clock's wrap after 49 days.
- Nodes and operations of `Flow` and `Movement` as counted references:
  `RefCount` shows on its own that references do what these two assume.
- References shared by threads without a lock, and cycles of strong references,
  which no count can free. The double check of `m_counter` in `getControlBlock`
  is moot: a new object is known to one thread.
- The positions of the legs, the readings of the sensors, the text of messages.
- Start-up and shutdown of the firmware: it is constructed once and never ends.

- What a perfect checksum would be: that the 16-bit sums of `Channel` and the magic
  word tell a damaged or shifted frame from a whole one is assumed.
- `SensorsManager` and what overlapping corrections measure; the life cycle of
  `ThreadImpl` and its pool of 12; the client library `RobotConnection`, a user
  of the same `JobQueue` and `Flow`; the system calls of the streams.
- Most lines of the repository: vendored FreeRTOS and board support
  (`HexapodCtl_bsp`), the older drivers, user interfaces, the FPGA design, and
  the sequential kinematics of the legs (`drivers/`, `movement/movements.cpp`
  but for its loops). They are not this program's logic or have no states worth
  checking.

## Plan

What would come next, in this order:

1. `Sensors`: capture thread, refresh, corrections. Property: a reading is not
   overwritten by an older one.
2. `Pools`: how many `AdjustOperation`, `MagnetometerAdjuster`, nodes and threads
   `Movement` and `Flow` have alive, against the sizes in `globaldefs.h`.
   `ThreadLife`: start, end and `join` of `ThreadImpl`.
3. `RobotConnection`: the client library on `JobQueue`, with the order of
   disconnects and the ends of Flows.
4. `RobotEnd`: `Movement` with `Notifications` for the thread that reports, so
   that a failed notification's effect on movements is seen.
5. More proofs: each message of `Channel` is handled at most once and, without
   faults, in the order of sending.
