# Verification of async_io_framework

TLA+ models of the coroutine I/O framework in `include/async_frame/`, TLC
configurations that check them on small instances, and TLAPS proofs of what they check
for every instance: of the timer, of the framework with any programs on any number of
sockets, of accept, connect and close, and of descriptor ownership. Paths are relative to
the repository; line numbers are those of the modelled commit.

## 1. The system

| part | state | operations | modelled by |
|---|---|---|---|
| `TimerEvent` (`timer.h`) | `cur`, `waiting_queue`, `next_timer_id`, `active_timer_ids`, `cancelled_timer_ids`, one timerfd | `set_timer`, `cancel`, `operator++`, `refresh_current_timer`, `consume`, `get_timer`, `refresh_timer_registration` | `TimerTasks`, `TimerEvent`, `TimerService` |
| `Scheduler` (`scheduler.h`, `epoll_manager.h`) | `fd_to_op`: descriptor -> interest mask, one `read_op*`, one `write_op*`; the epoll instance | `submit_*`, `remove_*`, `running` | `InterestTable`, `AsyncIO` |
| completions (`single_operator.h`) | inner and outer coroutine handle; the cancel slot's `read_op` | `complete`, `cancel_slot::submit/remove/consume` | `AsyncIO` |
| reads (`async_read.h`, `async_read_some.h`, `do_read.h`) | progress of the buffer | two awaiters with and without a timer, the loops over them, `try_read` | `AsyncIO` |
| writes (`async_write.h`, `do_write.h`) | progress of the buffer, `total_len` | the same for sending | `AsyncIO` |
| `wait_for` (`wait_for.h`) | - | one awaiter on the timer | `AsyncIO`, `TimerEvent` |
| `cancel_token` (`cancellation_token.h`) | atomic flag, non-blocking eventfd | `request_cancel`, `cancel`, `consume` | `AsyncIO` |
| accept, connect (`async_accept.h`, `async_connect.h`, `try_connect.h`) | - | one wait each on the table; `accept4`, `connect`, `SO_ERROR` | `Connections` |
| `with_timeout` (`with_timeout.h`) | a third coroutine between the operation and its caller | turns a read or write into its timed version | `AsyncIO` |
| `Task` (`task.h`) | coroutine frame, result or exception | starts at once, stays at its final suspend point; moves, destruction | control points of `AsyncIO`, `Ownership` |
| buffers (`buffer.h`) | capacity, offset | `remain`, `+=` | `Remain`, `Await` of `AsyncIO` |
| `Connection`, `fdo`, `MakeSocket`, `Acceptor` (`connection.h`, `fd_object.h`, `connector.hpp`) | a descriptor number | construction, moves, assignment, swap, close (`fdo`'s keeps the number), destruction | `Ownership`, `Connections` |
| builders (`connecting.h`) | - | `create_sock`, `bind`, `listen`; no socket, a bad address and other failures, which throw | `Ownership`, `Connections` |
| earlier executors (`async_executor.h`, `operator.h`, `multiple_coro.hpp`, `intermiate.h`, `drop_last.h`, `async_frame.hpp`, the rest of `connector.hpp`) | | | no: not called by the scheduler |

How they interact. A user coroutine `co_await`s an operation. The operation's
coroutine runs at once and reaches an inner awaiter, whose `await_suspend` puts a
pointer to the awaiter's `read_op`/`write_op` into the scheduler's slot for the
socket, starts a timer if there is a timeout, and puts another `read_op` into the
slot of the token's eventfd. Control goes back to whoever resumed the coroutine:
`main`, or the loop. `Scheduler::running` waits for a batch of events and calls
`complete()` on the pointers in the slots; this runs `await_resume`, which takes
the registrations out, decides who won (cancellation before timeout before the
socket), moves bytes, and either suspends again or returns to the user's
coroutine, which goes on **inside** that `complete()` call, until it suspends. All
timers share one timerfd, so whoever removes the current timer must register the
next one.

What makes it hard:

* one thread, but no order: events of a batch come in any order, and each runs
  user code that changes the table, the timers and the tokens the rest of the
  batch is about;
* three registrations per operation, each shared with other operations (socket
  entry, timerfd, token), all to be taken out by whichever event comes first;
* a single timer registration handed from operation to operation;
* awaiters are addresses that are reused, and tombstones outlive the timers they
  cancel;
* cancellation by other threads, between any two steps;
* operations that end after some of their bytes have moved;
* descriptor numbers that are closed and reused while the loop holds events for them.

What makes each part correct: a timer is never lost, early or out of order; the
table holds a pointer exactly for what is waiting; every suspended operation can
still be woken; every byte is reported once; whatever is cancelled, timed or has
data does end. `PROJECT.json` lists the hazards line by line with the properties
about them.

## 2. Modules

`TimerTasks` has the data of class `TimerEvent` as one record and each member
function as an operator on it. The timerfd is the field `alarm`: the absolute time
it is armed for, 0 when it is disarmed or its expiration has been read. A heap is a
set: tasks with equal times come off it in any order, which is also all one can say
of a comparator that uses `>=` (`timer.h:44`). Operators that leave something open
return the set of possible results; `ActivateNextTimer` leaves open which of the
tied live tasks comes first and how many tombstoned ties are popped before it.

`TimerEvent` is the component with its callers: the two ways an operation uses the
timer (`wait_for`, a timeout), the timerfd's event travelling in a batch, and its
dispatch to whoever is registered then. `event` stays set while other operations are
resumed, which is how stale events arise.

`TimerService` is what the component promises: timers end by expiring no earlier
than due and in the order of their deadlines, or, timeouts only, by being
withdrawn. `TimerEvent` implements it under the mapping `deadline`, `purpose`.

`InterestTable` is `fd_to_op`. epoll's interest set is changed by the same functions
at the same time, so it is the same table.

`AsyncIO` composes everything. Its control state follows the thread: `main`, `user`
(a coroutine's own code), `suspend` and `slot` (two halves of `await_suspend`, with
the second test of the token between them), `resume` (`await_resume`), `loop`,
`exit`. One action is one stretch of code that nothing else can observe in part:
`await_suspend` up to `cancel_slot::submit`, `cancel_slot::submit`, `await_resume`
together with the loop of the operation that called it, one half of a turn of the
event loop. A coroutine awaits one operation at a time, so the pointers of its
awaiter are the coroutine itself.

| code | definition in `AsyncIO` |
|---|---|
| `inner_*_awaiter::await_suspend` / `await_resume` | `RecvSuspend`/`RecvResume`, `RecvTimeout...`, `RecvSome...`, `Send...`, `SendTimeout...`, `Wait...` |
| `async_read_impl`, `async_write_impl` and the timeout versions | `ReadLoop`, `WriteLoop` |
| `try_read`, `try_write` | `TryRead`, `TryWrite` |
| `cancel_slot` | `CancelSlotSubmit`, `RemoveCancel`, `Cancelled`, `ConsumeCancel` |
| `with_timeout_impl` | `wrapped` operations, `Return`, `EndWithTimeout` |
| a buffer's `remain()` | `Remain`; `start` is the offset it came with |
| `request_cancel` | `RequestCancelHere` on the loop's thread; `RequestCancel` then `SignalCancel` on another |
| `running` | `EnterRunning`, `Poll`, `Dispatch`, `CompleteWrite`, `LeaveRunning` |
| kernel and peers | `Peer*`, `Tick`, `InReady`, `OutReady`, `BrokenFd`, `ReadyEvents` |

`Dispatch` and `CompleteWrite` are the two halves of a turn: the loop reads both
pointers first (`scheduler.h:81-82`), so the write pointer travels in `control.next`
while the read completion runs.

`Poll` takes `MaxEvents` of what is ready, in no particular order: 128 in the code, 2 in
`AsyncIODuplex` so that events are left for the next call.

`Connections` adds to `AsyncIO` the operations that make and end connections, as more
disjuncts of the next-state relation. A socket has a `link` (as the kernel sees it) and an
`owner`, the coroutine that holds its Connection; a number whose link is `closed` is free
for the next `socket()` or `accept4()`. `create_sock` parses the address after `socket()` has
succeeded (`connecting.h:179`), and nothing closes the descriptor when that throws: its link is
then `lost`, for good. An operation whose descriptor is `Own` runs on the
connection its coroutine holds.

| code | definition in `Connections` |
|---|---|
| `BuilderClient`, `create_sock` | `BeginConnect`; `SocketFails` and `AddressFails`, which end the coroutine with an exception |
| `try_connect`, `async_connect_impl` up to the wait | `ConnectSuspend`: connected, failed, or in progress |
| `inner_connect_awaiter::await_resume`, `connect_error` | `ConnectResume`, `ConnectError` |
| `connect_await::await_resume` | `EndConnect` |
| `inner_accept_awaiter` | `AcceptSuspend`, `Accept`, `AcceptResume` |
| `Connection::close_fd`, `~Connection` | `Close`; `End` of a coroutine in `AsyncIO` |
| the other side | `PeerConnects`, `PeerAnswers` |

`Ownership` is apart from the loop: objects of the five owning classes, the numbers they
hold and the files those name. A `Task` owns a frame by its address in the way the others own
a descriptor by its number, and both are reused, so one model serves; `Fds` and `Frames` are
apart, as closing a descriptor cannot hit a frame. `got[o]` remembers which file the number
named when it was handed out, `lost` the files a builder had opened when it threw.

`close_fd` of `Connection` and `Acceptor` resets the number (`CloseFd`); that of `fdo` is `const`
and keeps it (`CloseFdo`, `fd_object.h:14-19`), so that the destructor closes it again, whoever
has it by then. Nothing in the repository calls it but `fdo`'s destructor and the move
constructor of `Epoll_Manager` (`EpollMove`), which copies the number and then closes it for
both, and which nothing uses. Both are steps of the model: after them `got` is 0.
`robbed` has the files that were closed by an object they did not belong to.

`MCTimerEvent`, `MCAsyncIO`, `MCConnections` and `MCOwnership` give the constants their
values. `AsyncIOInv` has the inductive invariants of `AsyncIO` and `Connections`, apart from
the proofs so that TLC can check them. The proofs are in `TimerTasksProofs`,
`TimerEventProofs`, `OwnershipProofs`, and, each extending the one before, `AsyncIOTables`,
`AsyncIOSteps`, `AsyncIOProofs`, `ConnectionsProofs` and `BytesProofs` (section 5). Definitions whose name has a suffix after
an underscore (`Remove_KeepSlot`, ...) are plausible slips: each is put in the place
of the definition it is named after to see that a property notices.

### Data

Bytes are counted, not stored: `sent`/`inbox` on the way in, `taken`/`drained` on the
way out, `told` for what results have reported. A buffer is its capacity, the offset it
came with and the bytes moved so far. On a listener the same fields count connections. A send buffer has room for one byte more than the peer has taken, so
a write of two bytes blocks half way.

## 3. Properties

Timer component: `NoTimerLost`, `EarliestIsArmed`, `TombstonesCoverQueue`, `NeverEarly`
(an action property), `ServiceSpec` (refinement), `EveryTimerEnds` (liveness), and
`IInv`, the inductive invariant of the proofs, checked here too.

Framework:

* `NoOrphan` - a suspended operation still has its socket slot and interest bit, its
  token's slot and, if it is timed, a pending timer for its own deadline.
* `SlotsLive` - every pointer in the table, and the one the loop holds across a
  completion, is a live awaiter on that descriptor; bits and slots agree.
* `RunsWhileNeeded` - in the loop, the table is empty exactly when nothing is
  suspended.
* `BytesReported` - conservation of bytes, and of accepted connections, between peer, kernel, operations in flight
  and results, through cancellations, timeouts, partial transfers and resets.
* `ShortReadMeansEof` - a successful `async_read` filled its buffer or the peer is
  gone. Proved where no read has a timeout; refuted where one has (section 4).
* `NeverEarly`, `TimerSpec` - results are never early, and the awaiters drive the timer
  as `TimerEvent` has it, so what is proved there holds of the framework.
* `NoLostWakeup` - while the loop runs, `epoll_wait(-1)` has an event for every suspended
  operation that can go on: its socket is ready or broken, or its registered token was
  cancelled and signalled; and when a timer is due, one that completes a due operation.
* `CancelReported` - with private tokens and no other threads, for every cancelled one.
* `TInv`, `BInv`, `WInv` - the inductive invariants of the proofs, checked here too (section 5).
* `LeavesTimerClean` - when `running()` returns, the process-wide timer has no task and its
  timerfd is not armed.
* `CancelWakes`, `RegisteredCancelWakes`, `DataWakes`, `TimedOpsEnd`, `WithTimeoutReturns` -
  liveness.

Connections:

* `NoStaleEntry` - a number that is closed, just made or lost is not in the table: every
  `epoll_ctl` is about the socket it was meant for.
* `DescriptorsOwned` - what `socket()` and `accept4()` have returned is held by a coroutine
  that still runs or by a connect in progress, but for what a bad address lost.
* `ConnectedMeansConnected` - a Connection handed over has been connected. Refuted in general
  (section 4), proved where no operation on a connection has a timeout or a token.
* `CInv` - for those programs, what makes it inductive: an event in the batch for a number
  that is used again is about the operation that waits on the number now.
* `MainsInv` - on the streams that `main` holds and no code reads with a timeout, an event that
  says there is something to read stays true until the read that it completes runs, and short
  reads mean that the peer is gone, whatever is accepted and closed meanwhile.
* `ConnectEnds` - a connect ends, whatever the answer (liveness).

Ownership. What `fdo`'s `close_fd` does makes rogues (`Rogue`): an `fdo` whose number was closed so,
and whoever was hit by a rogue's close, or by that of one who was hit.

* `HoldsOwnFile` - who holds a number holds its own file by it or is a rogue, and a `Task` is
  never one: all that goes wrong goes back to a `close_fd` of an `fdo`, and no frame is hit.
* `OneOwner` - every open file, but for the lost ones, has one owner that will close it; any other
  holder of its number is a rogue.
* `OwnInv` - the inductive invariant of the proofs.

## 4. Runs

| run | instance | shows |
|---|---|---|
| `TimerEvent` | 3 addresses, delays 0..2, 3 timers, clock to 3 | the safety of the timer, the refinement of `TimerService`, and that every timer ends |
| `AsyncIODuplex` | reader and writer on one socket, with a token each or a buffer in part used; 2 operations each, 2 bytes, all peer moves, batches of 2, cancellation by threads at any moment | registrations, bytes, exit, short reads; a registered token wakes |
| `AsyncIOTimers` | timed read, timed write, two sleeps, a read without room, cancellation, 2 operations each | the same with timers; refinement of `TimerEvent`; the timer is left clean |
| `Connections` | a server and a client with 3 operations each, a listener and one more number, all peer moves | table, bytes, descriptors and wake-ups while connections come, fail and go, numbers are reused and one may be lost to a bad address |
| `ConnectionsLive` | a server and a client with 2 operations each take turns on one number, without timeouts or tokens on it, beside two timers and a stream of `main` that one reads, with a token, and the other writes | what is handed over is connected and no event is taken for another socket's; cancelled, readable, timed and connecting operations end |
| `Ownership` | 3 objects, 3 descriptor numbers, one frame, 5 files | every order of moves, closes and reuse, `fdo`'s `close_fd` included: who owns what, and whom a second close can hit |
| `AsyncIORace` | two sockets, cancellation by threads | **violated** `CancelWakes` |
| `AsyncIOShared` | two reads with one token | **violated** `CancelWakes` |
| `AsyncIOStaleTimer` | as `AsyncIOTimers` | **violated** `ShortReadMeansEof` |
| `AsyncIOCancelBytes` | as `AsyncIODuplex` | **violated** `CancelledMeansZeroBytes` |
| `AsyncIOWithTimeout` | a timed read inside `with_timeout` | **violated** `WithTimeoutReturns` |
| `ConnectionsReuse` | one client that reconnects on the same number | **violated** `ConnectedMeansConnected` |

The six violations are disagreements between the code and its documents and tests:

1. *Race.* `cancel_slot::submit` returns without registering if the token was cancelled
   since `await_suspend` tested it, and `await_suspend` suspends all the same
   (`single_operator.h:86`). The design note has a cancelled operation not wait for
   its socket (`docs/active_cancellation_design_note.md:7-9`). `RegisteredCancelWakes`
   shows that this window is the only one.
2. *Shared token.* The design note (lines 101-107) has the scheduler keep a list of
   readers per cancel fd; `submit_cancel` keeps one (`scheduler.h:162`).
3. *Stale timer event.* Another event of a batch ends the operation the timerfd fired
   for; the timerfd's event then resumes the next timed operation, which is not due. A
   timed read finds no data and returns success with a short count
   (`async_read.h:132-136`), which callers take for end of file. The note (lines
   85-86) says later events do nothing. A `wait_for` resumed this way blocks the
   thread in `consume()` until it is due; `NeverEarly` and `TimedOpsEnd` show that it
   neither returns early nor blocks for ever.
4. *Cancelled reads* report the bytes of earlier chunks (`async_read.h:66`);
   `cancellation_token.h:35` says zero. `BytesReported` is the reason to keep the code.
5. *with_timeout strands its caller.* The handle it is given is not used
   (`with_timeout.h:24`) and its `await_suspend` returns void, so the operation ends, the
   inner coroutine ends, and nobody resumes the one that waits. `TimedOpsEnd` holds of the
   wrapped operation in `ConnectionsLive`; what fails is the last step.
   `test/test_write_read_withtimeout.cpp:31-40` goes on after it.
6. *Stale event, reused number.* A read times out while the reset of its connection is
   already in the batch; the coroutine closes the connection and connects again, `socket()`
   returns the same number, and the old event completes the new connect. `SO_ERROR` of a
   connect in progress is 0, so the caller gets a Connection that is not connected. The
   remaining properties hold across the reuse (`Connections`). The timeout is what it takes, or a
   token: where no operation on a connection has either, `ConnectedMeansConnected` holds across
   the reuse too (`ConnectionsLive`, `HandedOverConnected`).

The documents also say that `async_read_some`, `async_accept`, `async_connect` and
`wait_for` take tokens and that operations arbitrate with `operation_state`
(`active_cancellation_design_note.md`, Current Coverage); in the code they do not, and the
model follows the code.

### Bounds, and why they are enough

`MaxOps` operations per coroutine, `MaxBytes` bytes per direction, `MaxTimers` timers and
`MaxTime` in the timer component. Two operations per coroutine give reuse of an
address, a token and a socket slot within one batch; two bytes against buffers of two
and a send buffer of one give full, partial and blocked transfers; three timers with
delays 0, 1, 2 give ties, overtaking and a tombstone behind a live task. In `AsyncIO`
the clock needs no bound: time moves only while some pending timer is not due, since
the code only compares the clock with deadlines. `MaxTime` and `MaxTimers` may be 0, which
means no bound; `AsyncIO` implements `TimerEvent` so. Three operations per
coroutine in `Connections` are what it takes to connect, use, close and connect again on the
same number; with one number besides the listener, server and client also run out of
descriptors. `ConnectionsLive` has only the operations whose end it asks for, one byte per
direction and one move of peers: liveness is checked on the whole state graph. Its timed operations are a write and a
`wait_for`, which share the timerfd; a timed read ends as a timed write does
(`RecvTimeoutResume`, `SendTimeoutResume`). The safety properties of both runs are theorems, under
the conditions of section 5, for any program. Three objects are enough for a chain of moves and
a bystander that is given the number in between, and for an `fdo` that closes a number twice, its new
holder and the one that is hit next; five files are one more than the three numbers and the frame. Symmetry is used
only in `Ownership`, on objects and descriptor numbers that no definition tells apart.

### Fairness

`WF(Thread)`: the thread runs as long as it has something to do; every passing step of it
is finite, and epoll reports everything that is ready, so no finer fairness is needed.
`WF(Tick)`: time passes. `WF(SignalCancel)`: a thread that has set the flag goes on to write
the eventfd. `WF(PeerAnswers)`, in `Connections`: a connect does not stay in progress for ever, the kernel
gives it up. Other peers' moves, clients, and the decision to cancel are never forced. In `TimerEvent` the steps
of the thread have fairness each, starting timers and socket events none.

`CHECK_DEADLOCK FALSE`: the loop may wait in `epoll_wait` for ever, and the program ends.

### Assumptions

* Sockets are non-blocking, as `async_connect` and `async_accept` make them.
* At most one read and one write wait on a socket: `SingleWaiter`, the limitation the
  design note states under Known Limitations.
* A coroutine runs to its end (or to an exception of `async_connect`); it holds at most one
  Connection, which it closes only between its own operations. The sockets that `main`
  holds stay open.
* `SO_ERROR` of a broken socket is its error, and 0 otherwise, also while it is connecting.
* `epoll_ctl` on an open descriptor and `timerfd_settime` succeed, and `SIGPIPE` is ignored.
* The timerfd is registered edge-triggered. Every resumption of a timer's operation
  ends in `refresh_timer_registration`, whose `epoll_ctl` re-arms the edge, so for this
  code edge and level are the same.

## 5. Proofs

`TimerTasksProofs` proves what each operator of the class does to a settled record,
whatever the number of operations: `Settled` says that ids are fresh and unique, each
tombstone covers a queued task, the map knows exactly the pending tasks, the current
task is earliest, the queue is empty when there is no current task, and the timerfd is
armed for the current task. `activate_next_timer` is called when the current task is
no longer to be counted, so it starts from a weaker fact, `QueueOK`, about the queue
alone. The lemmas `ActivateNextSettles`, `RefreshSettled`, `AdvanceSettles`,
`CancelCurrentSettles`, `CancelQueuedSettles` and `SetTimerSettles` are the steps of all
later proofs.

`TimerEventProofs` proves, from `OpsAssumption` and `BoundsAssumption` only:

| theorem | states |
|---|---|
| `Invariance` | `Spec => []IInv` |
| `TypeCorrect`, `NothingLost`, `EarliestArmed`, `TombstonesCovered` | the four invariants of the run |
| `NotEarly` | the action property `NeverEarly` |
| `Refinement` | `Spec => ServiceSpec` |

None of the four invariants is inductive: that `operator++` drops the right timer needs
to know that a resumed `wait_for` *is* the current task, although a stale event may
have resumed it. `IInv` adds that (a dispatched event resumes the registered operation,
which is the current task's) and `Settled`.

`OwnershipProofs` proves, from `NoFdAssumption` (the empty value is no number) and
`FramesAssumption` (no descriptor is a frame's address) only:

| theorem | states |
|---|---|
| `Invariance` | `Spec => []OwnInv` |
| `NobodyClosesAnothers` | `HoldsOwnFile` is an invariant |
| `NoneLeaks` | `OneOwner` is an invariant |
| `KeptFdosAreSafe` | without a `close_fd` of an `fdo` (`KeepsFdos`) there are no rogues: every holder of a number holds its own file and no file is ever robbed |

The first three hold whatever is called, `fdo`'s `close_fd` included; the last is what the
framework gets, which leaves its two `fdo`s, the timer's and the scheduler's, to their destructors.
Neither `HoldsOwnFile` nor `OneOwner` is inductive: a close is harmless only if files are told
apart and each is held by one, and a number that is handed out is free of old holders only if
those are rogues. `OwnInv` says so, and that owners are alive, that no two hold the same file,
and that what was lost or robbed is nobody's. The steps that open nothing have one shape,
`HandedOn`: what an object holds afterwards another, or itself, held before, by the same right
unless `close_fd` ended it, and at most one number was closed. `HandingOnKeeps` proves
the invariant for the shape, on `CloseRobs` (what a close does to the others); moves,
assignment, swap, closes and destruction are instances. `OpenKeeps` and `ThrowKeeps` are the
steps that open a file.

### The framework

The proofs about `AsyncIO` and `Connections` assume `NamesAssumption` (the names are
distinct, the coroutines finitely many) and `MenuAssumption` (what the programs may await:
the kinds of operations with the descriptors and tokens they take; sockets that are read or
written are connected). Both are about constants: `Menu` is any program of any size.

| theorem | states | module |
|---|---|---|
| `Inductive`, `TypeCorrect` | `Spec => []IInv`, `[]TypeOK` | `AsyncIOProofs` |
| `NoDanglingSlot` | `SlotsLive` | |
| `NobodyOrphaned` | `NoOrphan`, if no two coroutines are given the same token | |
| `LoopRunsWhileNeeded` | `RunsWhileNeeded` | |
| `NoEarlyTimeout` | `NeverEarly` | |
| `TimerLeftClean` | `LeavesTimerClean` | |
| `BatchInductive`, `UsesTimer` | `TInv`; `TimerSpec`: the framework implements `TimerEvent` | |
| `KeepsService` | hence it implements `TimerService` | |
| `SignalsStayPending`, `NoWakeupLost` | `WInv`, `NoLostWakeup` | |
| `CancelsAreReported` | `CancelReported`, with private tokens and without `CancelThreads` | |
| `ConnInductive` | `ConnSpec => []IInv` | `ConnectionsProofs` |
| `ConnectionsKeepAwaiters`, `ConnectionsOrphanNobody`, `ConnectionsUseTimer` | all of the above for `ConnSpec` | |
| `NoEntryOutlives`, `NoDescriptorLost` | `NoStaleEntry`, `DescriptorsOwned` | |
| `ConnectionsLoseNoWakeup`, `ConnectionsReportCancels` | `WInv`, `NoLostWakeup`, `CancelReported` for `ConnSpec` | |
| `NumbersReusedSafely` | `ConnSpec => []CInv` | |
| `HandedOverConnected` | `ConnectedMeansConnected`, if the program satisfies `PlainConnections` | |
| `BytesInductive`, `ConnBytesInductive` | `[]BInv` for `Spec` and `ConnSpec` | `BytesProofs` |
| `NoByteLost`, `ConnectionsLoseNoByte` | `BytesReported` for both | |
| `EventsStayTrue` | `Spec => []EofInv(Socks)` | |
| `ShortReadsMeanEof` | `ShortReadMeansEof`, if no code reads with a timeout | |
| `MainsEventsStayTrue` | `ConnSpec => []MainsInv` | |
| `MainsShortReadsMeanEof` | `ShortReadMeansEof` for `ConnSpec` on the streams of `main`, if no code reads those with a timeout | |

*The invariant.* None of the properties is inductive. That a step leaves no dangling pointer
depends on who may be in the table at all, and that depends on where the thread is: between
`await_suspend` and `await_resume` an operation is in the table, the timer or both, outside
of them it is in neither. `IInv` of `AsyncIOInv` says so, part by part: `OpsOK` (operations
are those of the program), `ThreadOK` (one thread; the coroutine it runs, the one it will
resume next, and nobody else), `OneWaiter` (one operation per direction of a socket, which
number reuse must not break), `TableOK` (whoever is in a slot belongs there), `WaitersOK`
(whoever waits is in its slots), `CancelOK` (the same for private tokens), `TimersOK` (the
timer is `Settled`, its tasks are operations under way and due when they are, and
`await_resume` finds what its `await_suspend` left), `SocksOK` (sockets and who holds them),
`ExitOK`, `NeverEarly`.

*The argument.* `AsyncIOTables` has what the operators of the table and of the timer do to
one entry and to one coroutine's timer; the facts about the timer are those of
`TimerTasksProofs`. `AsyncIOSteps` sorts the actions into a few shapes and proves that each shape
keeps `IInv`: `Registers` (an `await_suspend` that put an operation into the table and
perhaps the timer), `Withdraws` (an `await_resume` that took it out), `Begins`, completions,
and steps that leave table, timer and operations alone. Sockets come last
(`ConnectionsStay`, `HoldersStay`, and `SocketChanges` for accept, connect and close). The
operations of `Connections` fit the same shapes, so their proof reuses the lemmas.

*Timer.* Seen through `TimerUse`, `TimerReported`, `TimerResuming`, an `await_suspend` with a
timeout is `StartTimeout`, the loop's turn for the timerfd is `Dispatch`, an `await_resume`
is `TimeOut`, `Withdraw` or `FinishWait`, and all else is a stutter or a `Wake`. `BatchOK`
(one event per descriptor) is what the mapping needs besides `IInv`. Withdrawing
an operation that has no timer, because its token was cancelled first, must be a stutter:
this is the lemma `RefreshIsIdle`, that `refresh_current_timer` changes nothing on a settled
timer. The theorems of `TimerEventProofs` are then instantiated.

*Bytes.* The sum over the operations on a socket has at most one term per direction, by
`OneWaiter`; so each step has to balance one socket's books with one operation's count, and a
number is reused with empty books only when nobody is on it. `BInv` adds that an
`async_read_some` in progress has moved nothing.

*Wake-ups.* That the loop never sleeps on something it should see is the safety part of the
liveness properties. `WaitersOK` and `TimersOK` have whoever waits in its slots, so for sockets
and timers `NoLostWakeup` follows from `IInv`: a ready socket is reported to whoever is in the
slot, and when any timer is due the current one is, whose operation is in the timerfd's slot.
Tokens need `SignalsPending`: `request_cancel` sets the flag first and writes the eventfd later,
`consume` empties the eventfd, and `cancel_slot::submit` looks at the flag before it puts the
token into the table. Hence a cancelled token in the table has its signal, or gets it: whoever
consumed it took the token out in the same step. If only the loop's thread cancels, it has the
signal at once, nothing comes between the two tests of the token, and a private token stays in
the table until its operation runs, which is `CancelReported`. `AsyncIORace` and `AsyncIOShared`
show that both conditions are needed.

*Reuse.* `EventsFresh` says that each event in the batch for a number that may be used again is
about the operation suspended on that number now, and was, for a connect, reported after the
answer. An operation with a timeout or a token breaks this, for it can end, and its number be
closed and used again, while its socket's event is in the batch: this is `ConnectionsReuse`.
`PlainConnections` excludes just that. An operation without either leaves only by the
event of its socket; the batch has one event per descriptor (`BatchOK`), and the number has one
operation (the lemma `OwnAlone`), so when the operation runs there is no event of its number left
for the next socket. A program that never connects need satisfy nothing. `LinksOK` turns it into
`ConnectedMeansConnected`: a connect that runs has its answer, so that `SO_ERROR` tells the truth.

*Short reads.* `EofInv(S)` has, for each socket of `S` that no code reads with a timeout, that an event
in the batch saying the socket can be read stays true until the read that it completes runs
(`EventsTrue`): bytes leave a socket only through a read that was completed by the one event of
that socket, or else through none, since a token's event wakes cancelled reads only
(`SignalsOK`), which take nothing. With a timed read on the socket this breaks at the
timerfd's event, which is the finding of `AsyncIOStaleTimer`. The streams that `main` holds
(`Streams`) keep their numbers, so for them the argument carries over to `ConnSpec`: accept,
connect and close change the sockets of other numbers only. This is `MainsInv`, which
`ConnectionsLive` checks.

### Only model-checked

* All liveness (`EveryTimerEnds`, `CancelWakes`, `RegisteredCancelWakes`, `DataWakes`,
  `TimedOpsEnd`, `ConnectEnds`): it needs fairness and `ENABLED`, which the prover does not have.
  What is proved of it is its safety part, `NoLostWakeup` and `CancelReported`; what is left to
  TLC is that the thread goes on and gets to each event that stays ready.
* The six violations, which are single behaviours.

No module declares a recursive operator.

## 6. Not modelled, and why

* A frame that is destroyed while its operation is pending, as `test/test_timeout_event.cpp:59`
  does by dropping a `Task`: what the loop does with the freed `read_op` is undefined, and any
  property would be violated by the first step.
* `with_timeout` around anything but a read or a write: it awaits the operation as it is,
  without a timeout, and strands its caller like the other branches.
* Two schedulers at once on the one `TimerEvent`.
* What is in an address: parsing is an outcome. What leaks when it fails is `lost` in
  `Connections` and, with that of `bind` and `listen`, in `Ownership`; no document says that the
  builders do not leak, so this is no finding.
* Exceptions but those of `async_connect`, from having no socket or a bad address.
* `ConnectingNow`, `BuildServer`, `BuildClient` (two owners of one number): nothing calls them.
* `commit_to_epoll`, `register_empty_event`, `derived_read_op`, `operation_state`,
  `stop_reading_again`, `stop_writing_again`: never called.
* The earlier executors, and the programs and tests.

## 7. What is done and what is left

Done: the timer component, the table, the framework's composition, accept and connect with
reuse of descriptors, `with_timeout`, buffers, ownership; the invariants of all of them and
the refinements `AsyncIO` - `TimerEvent` - `TimerService` with their proofs. Every invariant
that a passing run checks is a theorem, under the conditions stated above.

Left:

1. Short reads on connections that are closed: `ShortReadMeansEof` speaks of a number, which
   may be another socket's by then, so there it would have to be stated of the step in which the
   read returns.
2. Two schedulers on one `TimerEvent`.
