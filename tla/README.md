# A TLA+ model of futures-intrusive

`futures-intrusive` is a Rust library of synchronisation primitives for
asynchronous programs: mutex, semaphore, manual reset event, channels and timers
whose waiting operations are `Future`s, and whose wait queues are *intrusive*: a
node of the queue lives inside the future that waits, so waiting allocates
nothing. That makes two things hard, and they are what this project is about.

* A future may be dropped at any moment (cancellation), polled at any moment and
  with any waker, and moved from task to task between polls. Its node must leave
  the queue with it, and whatever was promised to it must be passed on.
* A wake-up is a call into an executor, which the library makes partly inside and
  partly **after** the critical section of its raw lock. In between, any other
  thread may run.

## 1. Inventory

Paths are relative to `src/src/`. "Raw lock" is the `lock_api::Mutex` around each
primitive's state (a `parking_lot` mutex, or `NoopLock` on a single thread).

| component | state | operations | how it interacts |
|---|---|---|---|
| Mutex (`sync/mutex.rs`) | `is_locked`, `is_fair`, wait queue | `lock`, `try_lock`, poll, drop of the future, drop of the guard | `unlock` and `remove_waiter` return the next waker; the caller wakes it after the raw lock is released |
| Semaphore (`sync/semaphore.rs`) | `permits`, `is_fair`, wait queue with the required permits | `acquire`, `try_acquire`, poll, drop of the future, drop and `disarm` of the releaser, `release` | wakes inside the raw lock; the shared flavour holds the state in an `Arc` and runs the same code |
| MPMC channel (`channel/mpmc.rs`, `channel/channel_future.rs`) | ring buffer, queue of senders, queue of receivers, `is_closed` | `send`, `receive`, `try_send`, `try_receive`, poll, `cancel`, drop, `close` | each side returns at most one waker of the other side, woken after the raw lock is released; `close` wakes inside it |
| Shared MPMC channel (`channel/mpmc.rs`) | counts of handles | `clone` and drop of senders and receivers | the last sender's drop closes; the last receiver's drop closes **and then**, in a second lock section, clears the buffer |
| Streams (`channel/mpmc.rs`) | one receive future, whether the stream has ended | `poll_next`, `close`, drop | a sequence of receive futures |
| Manual reset event (`sync/manual_reset_event.rs`) | `is_set`, wait queue | `set`, `reset`, `wait`, poll, drop | `set` wakes all inside the raw lock |
| Oneshot channels (`channel/oneshot.rs`, `channel/oneshot_broadcast.rs`) | value, `is_fulfilled`, wait queue | `send`, `close`, `receive`, poll, drop, drop of handles | all waiters are woken on fulfilment |
| State broadcast channel (`channel/state_broadcast.rs`) | value, `state_id`, `is_closed`, wait queue | `send`, `try_receive(id)`, `receive(id)`, poll, drop, `close` | receivers ask for a state newer than the one they know |
| Timer service (`timer/inner.rs`) and clock (`timer/clock.rs`) | pairing heap of deadlines | `delay`, `deadline`, `check_expirations`, `next_expiration`, poll, drop | a clock that moves by itself; somebody outside of the library who asks for the next expiration, sleeps and checks |
| Intrusive list (`intrusive_double_linked_list.rs`) | `head`, `tail`, `prev`, `next` | `add_front`, `remove`, `remove_last`, `peek_last_mut`, `reverse_drain`, ... | the wait queue of all the above but the timer |
| Intrusive pairing heap (`intrusive_pairing_heap.rs`) | `root`, child and sibling pointers | `insert`, `peek_min`, `remove` | the timer's queue |
| Ring buffers (`buffer/ring_buffer.rs`) | `ArrayBuf`: array, size, two indices; `FixedHeapBuf`, `GrowingHeapBuf`: a `VecDeque` | `push`, `pop`, `can_push`, `len`, `capacity` | the channel's buffer |
| `update_waker_ref` (`utils/mod.rs`) | | replaces a stored waker that would not wake the current task | every poll of a waiting future |

What makes them correct, and is hard to get right:

* **Wait queues**: at every moment a queue holds exactly the nodes of the futures
  that wait, each once. A dropped future that is still linked is a dangling
  pointer; a waiting one that is not linked is never served.
* **No lost unlock, permit or value**: a resource that is free while somebody
  sleeps in the queue has been announced to somebody who is awake, also after that
  somebody was cancelled.
* **No lost wake-up**: a future taken out of a queue is woken through the waker of
  its *latest* poll, although the wake-up happens after the lock is released.
* **Fairness**: a fair mutex or semaphore serves in the order of arrival.
* **Order**: a channel is first-in-first-out across the buffer and the waiting
  senders, with cancellation and close in between.
* **No panic**: the code asserts, expects and panics on states it considers
  impossible.
* **Handles**: the channel closes when one side is gone, not earlier, although the
  counts live outside of the lock; values that nobody can receive are destroyed.
* **Time**: no timer goes off before the clock shows its deadline, the deadline is as
  late as asked for but for dropped fractions of a millisecond, and none is slept through.
* **Pointers**: list and heap stay well linked through every sequence of
  operations, since a node that was left linked is freed memory.
* **Progress**: somebody who waits gets what is there, or learns of the close.

`PROJECT.json` lists the hazards with the line at which each bites.

## 2. Modules

| module | what it is |
|---|---|
| `WaitQueue` | the intrusive list as its users see it: a sequence, oldest node first |
| `Waking` | wakers, `update_waker_ref`, and the contract with the executor |
| `Mutex` | `sync/mutex.rs` |
| `Semaphore` | `sync/semaphore.rs` |
| `Channel` | `channel/mpmc.rs` with the futures of `channel/channel_future.rs` |
| `FifoChannel` | the abstract specification of a channel: one sequence of values |
| `SharedChannel` | the counted handles and the streams of `channel/mpmc.rs`; extends `Channel` |
| `Waiters` | the wait queue of the primitives that wake everybody at once, base of the next five |
| `ManualResetEvent` | `sync/manual_reset_event.rs` |
| `ChannelState` | what the oneshot and state broadcast channels share: the value, the counted handles, waking everybody |
| `Oneshot` | `channel/oneshot.rs`; extends `ChannelState` |
| `OneshotBroadcast` | `channel/oneshot_broadcast.rs`; extends `Oneshot`, of whose code it is a copy but for what its names say |
| `StateBroadcast` | `channel/state_broadcast.rs`; extends `ChannelState` |
| `RingBuf` | the abstract specification of a channel's buffer: a bounded sequence |
| `ArrayBuf` | the array-backed buffer of `buffer/ring_buffer.rs` |
| `Timer` | `timer/inner.rs` with the clock of `timer/clock.rs` |
| `NodeList` | the abstract specification of the list: a sequence with the operators of `WaitQueue` |
| `IntrusiveList` | the pointers of `intrusive_double_linked_list.rs` |
| `PriorityQueue` | the abstract specification of the heap: a set with a least node |
| `PairingHeap` | the pointers of `intrusive_pairing_heap.rs` |
| `WaitQueueLemmas` | proved laws of the queue operators, and induction on the natural numbers |
| `MutexProofs`, `SemaphoreProofs`, `TimerProofs` | the theorems about these primitives |
| `ChannelProofs` | the theorems about `Channel` and `SharedChannel`, and that the channel implements `FifoChannel` |
| `WaitersProofs` | proved laws of the operations of `Waiters`, and the theorems about the event |
| `ChannelStateProofs` | the theorems about the oneshot channels and the state broadcast channel |
| `ContainerProofs` | the theorems about `ArrayBuf`, `IntrusiveList` and `PairingHeap`, and that they implement `RingBuf`, `NodeList` and `PriorityQueue` |
| `MCMutex`, `MCSemaphore`, `MCChannel`, `MCSharedChannel`, `MCManualResetEvent`, `MCOneshot`, `MCOneshotBroadcast`, `MCStateBroadcast`, `MCTimer` | what TLC needs on top: workloads, capacities, programs, symmetry |
| `MCContainers` | `ArrayBuf`, `IntrusiveList` and `PairingHeap` side by side: a behaviour works on one of them |

Two modules lean on the abstract side of two others: the primitives use the list as
the sequence of `WaitQueue`, which `IntrusiveList` is shown to implement through
`NodeList`; the timer uses the heap as a set of which an earliest node can be looked
at, which `PairingHeap` is shown to implement through `PriorityQueue`.

### How code becomes state and actions

* **One call is one step.** All state of a primitive is touched under its raw lock,
  so a call is atomic, except for the waker it returns. `in_hand[x]` is the waker
  that the running call on slot `x` has taken out of the state and not yet woken;
  `WakeInHand(x)` is the wake-up after the lock was released. A slot with a waker
  in hand is busy: the program cannot use it before the call returns. The
  semaphore, `close` of the channel, and the primitives on top of `Waiters` wake
  inside the lock; there a call is one step altogether.
* **Slots.** A member of `Futures`, `Senders` or `Receivers` is a place of the
  program that holds one future after the other and, for mutex and semaphore, the
  guard or releaser the future resolved to. A slot may be reused without limit, so
  a run is not bounded in length.
* **Wait nodes.** `state`, `task`, `required` and `value` are the fields of the
  node in the slot's future, by the source's names. `"Done"` stands for a future
  that has resolved or does not exist. On top of `Waiters` that is `"Gone"`, since
  `Done` is a state of a pending future of the event.
* **The executor.** `latest[x]` is the waker of the latest poll of `x`; `woken` is
  the set of pending futures whose latest waker was woken since. Waking a waker
  adds exactly the futures whose latest poll used it (`WokenBy`). A future may be
  polled at any time with any waker, woken or not: `join!` and `select!` do that.
  This is the contract of `std::task`, and it makes "the stored waker is stale" a
  behaviour that a property can see.
* **Panics.** An assertion, an `expect` or a forced removal that would fail sets
  `panicked`.
* **Slips.** A definition whose comment says "a slip" is the code with one
  plausible mistake: a dropped guard, a missing wake-up, a node left linked. No
  specification uses it; it documents which mistake a property catches, and
  `PROJECT.json` pairs each property with one.
* Left out: names, error values that are returned without a state change, failed
  `try_` calls (they change nothing), `is_terminated` and the `Debug` and accessor
  functions.

### Mutex

`Lock`, `TryLock`, `PollNew/PollWaiting/PollNotified`, `DropGuard` (unlock),
`DropNew/DropWaiting/DropNotified`, `WakeInHand`. A fair mutex leaves the notified
oldest waiter linked and an unfair one unlinks it: `ReturnLastWaiter`.

### Semaphore

`Acquire`, `TryAcquire`, `PollNew/PollWaiting/PollNotified`, `DropReleaser`,
`Disarm`, `Release`, and the drops. `wakeup_waiters` walks the queue from the
oldest waiter and stops where the permits end; the model says how many waiters it
notifies (the longest prefix that fits, or, in a fair semaphore, one) instead of
the loop. `total` counts the permits that the program has put into circulation.

### Channel

`Send`, `Receive`, `TrySend`, `TryReceive`, the polls, `CancelSend` (also the drop
of a send future), `DropReceive*`, `Close`, `WakeInHand`. With capacity 0 the same
code is a rendezvous: every send waits and its value is taken out of its node.
`received` records the value the latest successful receive returned, for the
refinement.

### Shared channel and streams

`SharedChannel` adds the handles to `Channel`, whose steps it keeps. A slot has a
`GenericSender` or `GenericReceiver` (`handle`) besides its future; a plain channel is
the case in which every slot of the program may use the channel and no handle is ever
dropped. `CloneSender` and `CloneReceiver` are the `fetch_add`, `DropSender` and
`DropReceiver` the `fetch_sub`. The drop that finds the count at one goes on:
`CloseLastSender`; `CloseLastReceiver` and then `ClearLastReceiver`. Each is a lock
section of its own and anything may happen between them. Futures need no handle, they
hold the `Arc`.

A slot may turn its receiver into a stream. `poll_next` makes a receive future if it
has none, polls it and drops it when it resolves, all in one call; `PollNextEnds` is
the poll that finds the channel closed and empty. A shared stream that is dropped
drops its receiver first, with the close and clear that this may entail, and its
future after that, in the order of the fields of `SharedStream`.

The check of the counts against `isize::MAX` is left out: it guards against leaking
handles by the billion.

### Event, oneshot channels, state broadcast channel

These four have the same queue code: a poll registers the node or updates its
waker, a drop removes it, and one call drains the whole queue, wakes everybody and
moves the nodes back to a state from which the next poll decides. `Waiters` states
it once, and each module adds what is waited for. `Drain` is the `reverse_drain`
with its closure; its order shows only in the order of wake-ups within one step, so
it is not kept.

* `ManualResetEvent`: `Set`, `Reset`, `Wait`, the polls, `DropWait`. A drained
  node is `Done` and resolves whatever the event is by then.
* `Oneshot`: `Send`, `Close` (local flavour), `DropSender`, `DropReceiver` (shared
  flavour), `Receive`, the polls, `DropReceive`. Futures of the shared flavour hold the
  state themselves and may outlive the handles.
* `OneshotBroadcast`: the same operations, with the prefix `Broadcast`, and
  `BroadcastCloneReceiver`. Where the two files have the same code the definition is
  that of `Oneshot`; a receive clones the value (`CloneValue`) where the other takes it.
* `StateBroadcast`: `StateSend`, `StateTryReceive`, `StateReceive` with an id, the
  polls, `StateDropReceive`, `StateClose` (local flavour), clones and drops of the
  shared handles. The counts are atomics outside of the raw lock: the drop that reaches
  zero closes in a step of its own, `StateFinishDrop`. Programs ask with ids that the
  channel gave them (`learned`), which is the only way to get one besides 0.

### Timer

`Delay` (with `DeadlineFromNow`, which floors the duration to whole milliseconds, cuts
it to the clock's range and saturates), `Deadline`, the polls by the state of the node,
`DropFuture`, `NextExpiration`, `CheckExpirations`. Every call is one step: `check_expirations` wakes
inside the raw lock. Its loop takes the earliest node until that is not due; the model
says which nodes that are (`Due`). `asked` is the instant the program wanted, which a
floored or saturated deadline is not; `alarm` is the latest answer of `next_expiration` and
`added` the timers registered since.

`elapsed` is the time since the start of the clock, in units of which `NanosPerMilli`
make a millisecond: a `Duration` and an `Instant` count nanoseconds. What the code
reads is `now`, the whole milliseconds of it, which is what `StdClock::now` computes.
Both conversions drop a fraction (`AsMillis`). So `delay(500 µs)` resolves at its first
poll, and 1.5 ms asked for at 0.5 ms is over at 1 ms: a timer can go off before the
instant asked for, by less than one millisecond for the duration and less than one for
the reading of the clock. The documentation of the timer speaks of "millisecond
precision" and of a future "fulfilled after the given `Duration`"
(`timer/inner.rs:186`, `:192`). `NeverEarly` states both bounds exactly: never before
the clock shows the deadline (for `deadline` that is the time asked for), and
never before the instant asked for by more than the two fractions. TLC finds the
second bound reached: with one unit less it is violated.

`SetTime` moves time forward to any instant: for `StdClock` it passes,
`MockClock::set_time` stores the timestamp a test chooses (an instant without fraction),
and the contract of `Clock` (its documentation: "Clocks must only return timestamps that
are bigger or equal than what they returned on the last call") keeps both from going
back. `0..MaxTime` stands for the range of `u64`.

### List and heap

`IntrusiveList` and `PairingHeap` have one function per pointer of a node. An
operation of the list is one action with the assignments of the function. The heap's
functions call each other, so they take the pointers as a record and return them
changed. `last_child` ends at the one node of those it meets (`Following`) that has no
next sibling. The loop of `merge_children` is a recursive function of the number of
rounds; a round (`MergeRound`) is the body of the loop, and does nothing once the loop
has returned. A `debug_assert` that would fail sets `list_panicked` or clears `heap.ok`. The callers'
obligations, which the code states as safety comments, are guards: a node is added
while it is in no list or heap, and a node removed from a heap is in it. `remove` of
the list may be given a node that is not linked, as the code allows.

### Ring buffers

`RingBuf` is the trait as `Channel` uses it, a sequence; the two heap buffers are that
sequence, kept by the standard library's `VecDeque`. `ArrayBuf` has the array, `size`
and the two indices. A cell whose value was moved out, or never written, holds
`NoValue`, so that reading uninitialised memory, overwriting a value and forgetting one
are all visible. The loop of the drop is stated by the cells it visits.

## 3. Model checking

| run | instance | distinct states | what it shows |
|---|---|---|---|
| `mutex` | 4 slots, 2 wakers, fair and unfair | 164 408 | exclusion, sound queue, no lost unlock or wake-up; first come first served and `EveryWaiterServed` when fair; `FreeMutexIsTaken` |
| `semaphore` | 3 slots, 2 wakers, at most 2 permits, requests from {0,1,2} or {1}, fair and unfair | 119 080 | permits conserved, no panic, order, progress when fair; `UniformDemandServed` when unfair |
| `semaphore_cancel` | same | | the counterexample of section 5 |
| `channel` | 2 senders, 3 receivers, 2 values, 2 wakers, capacities 0, 1, 2 | 299 505 (with symmetry) | `ValuesAnnounced`, no lost wake-up, refinement of `FifoChannel` |
| `shared_channel` | 2 senders and 1 receiver, or 1 sender and 2 receivers; 1 value, a waker for each slot, capacities 0, 1; shared and plain | 137 546 | the right drop closes and clears, an ended stream has missed nothing, `ValueReachesReceiver`, `AbandonedResolves` |
| `event` | 3 slots, 2 wakers | 368 | nobody waits at a set event, `SignalledResolves` |
| `oneshot` | 3 slots, 2 wakers, 2 values, local and shared | 3 215 | `ValueConserved`, everybody learns of the end |
| `oneshot_broadcast` | 3 slots, 2 wakers, 2 values, at most 2 receivers, local and shared | 4 080 | all receives agree, everybody learns of the end |
| `oneshot_broadcast_close` | 2 slots, 1 value, at most 2 receivers | | the second counterexample of section 5 |
| `state_broadcast` | 2 slots, 2 wakers, 2 values, ids up to 3, at most 2 handles a side, local and shared | 302 392 | ids order states, receives return newer states, nobody sleeps beside one, abandonment resolves everybody |
| `timer` | 2 slots, 2 wakers, clock readings 0 to 3, time in half milliseconds, delays of 0.5, 1.5 and 4.5 ms, all deadlines | 336 868 | no timer earlier than the dropped fractions explain, the heap holds the waiters, `SleepIsSafe`, `TimersResolve` |
| `containers` | array of 4 cells; list of 4 nodes; heap of 5 nodes with their data in every order, ties included | 9 098 | cells are initialised exactly while they store a value; all pointers sound, no assertion fails; refinement of `NodeList` and `PriorityQueue` |

**Why the bounds are enough.** Two wakers are the least with which a future can be
polled with a waker other than the stored one; more only add names. Four slots at
the mutex give a holder, a notified waiter and two waiters behind it, so the queue
has a first, a middle and a last node to cancel and a newcomer can barge. At the
semaphore three slots with requests 0, 1 and 2 on two permits give a large request
at the head with small ones behind it and with another holder. In the channel three
receivers are needed for `ValuesAnnounced`: one asleep, one notified and dropped,
one that takes the value in between; two senders on a full buffer give the refill
order; capacities 0, 1 and 2 are the rendezvous, the buffer that is both empty after
one pop and full after one push, and the one that can be partly full. Two values
tell an order from its reverse. The permit bound `MaxPermits` stands for
`usize::MAX`: a release that would exceed it is not made, as the code asks of its
caller. Three slots at an event or a oneshot channel give a first, a middle and a last
node to drop, and three racers for one value; two receiver handles are the least with
which one can be dropped and another be left. `MaxId` stands for `u64::MAX`: three
states let a receiver be two behind and let sends run into the limit. Four cells let
the values of a buffer begin anywhere, wrap around and fill it. Two handles of a side
are the least with which a drop is not the last one. Three slots at the shared channel
(two of one side, one of the other) let a second sender be in any state while the
first is closed, and a stream race another receiver; with one waker for each slot,
which is how tasks that do not hand futures around behave; stale wakers are the subject
of the run `channel`. `MaxTime` 3 with delays of 0.5, 1.5 and 4.5 ms has delays that are
over at once, in range, saturated by the sum and cut before it; two units to a
millisecond are the least with which a fraction can be dropped; two futures give an
earlier and a later one, equal ones, and one added after an answer. Four list nodes give
a first, a last and two inner ones. With five nodes in the heap a root has up to four
children, so that `merge_children` runs two rounds, in the even and in the odd case; data
that grows by 0 or 1 from node to node, with nodes inserted in any order, is every order
with ties. The types of mutex, semaphore, channel and timer, and a number of plain
invariants, are proved (section 4) and not checked again. Slots of one kind, wakers and
values are interchangeable, so symmetry is sound; it is used in the run without
liveness only.

**Fairness.** (a) a running call finishes: `WF(WakeInHand)`, since nothing blocks
between the release of the raw lock and the wake-up, and `WF(FinishDrop)`, the
close and the clear of a drop that has begun; (b) the executor polls a
future whose latest waker was woken: `WF(PollWoken)`, the contract of `std::task`;
(c) for mutex and semaphore, a guard or releaser is dropped one day:
`WF(DropGuard)`, `WF(DropReleaser)`, without which nobody can be served; (d) for the
timer, time passes (`WF(Tick)`) and somebody drives the service the way the
documentation of `next_expiration` asks for: asks again when a timer was added or the
alarm went off (`WF(AskAgain)`), and calls `check_expirations` when the time it was told
has come (`WF(CheckAtAlarm)`), not before. Nobody is
assumed to send, receive, release, close, or poll without having been woken. Only
weak fairness is used. Progress of a single waiter is claimed only where the code
gives it: for fair mutexes and semaphores. For an unfair mutex, where newcomers may
barge for ever, the claim is `FreeMutexIsTaken`.

Deadlock checking is on except for the shared, oneshot and state broadcast channels and
the containers: a program can always create another future, unless all handles of a
shared channel are gone or the buffer was dropped, and then the program may really stop.

## 4. Proofs

All theorems hold for every set of slots, wakers, values and nodes, every capacity,
array length, id limit, clock range and workload of natural numbers, under the named
assumptions of the modules: `NoWaker` is not a waker, `NoValue` is not a value, `NoNode`
and `None` are not nodes; senders and receivers are different slots; capacities, permit
amounts, delays and limits are natural numbers, and a millisecond has at least one unit
of time; and the slots of semaphore and channel
and the nodes of list and heap are finite sets, which is all that a program can have. The
data of heap nodes are natural numbers, and any order of finitely many nodes, with ties,
is that of some numbers.

`WaitQueueLemmas` states what the queue operators do: adding at the front, taking
the oldest, removing anywhere, dropping a prefix; each with its effect on the set of
nodes, on distinctness and on order. The proofs about the primitives cite these and do
not open the queue.

### The invariants of the primitives

The properties are not inductive one by one. The inductive invariant `IInv` of each
proof module is their conjunction with:

* **`StoredWakerIsLatest`**: a waiting node holds the waker of the latest poll. That
  is what makes the wake-up of the *stored* waker reach the future, and it is where
  `update_waker_ref` matters;
* mutex, **`FairNotifiedIsOldest`**: the notified waiter of a fair mutex is at the
  end of the queue and the lock is free. Needed for the assertion in
  `try_lock` (line 204) and for `NoOvertaking`; **`GuardIsDone`**: a slot with a guard
  has no pending future;
* semaphore, **`FairNotifiedCanAcquire`**: the notified waiter of a fair semaphore is
  the oldest one and the permits suffice for it;
* channel: the queue, buffer and wake-up invariants carry each other. The `expect`s
  hold because a waiting sender still has its value (a part of `TypeOK`), and the
  assertion "only an unbuffered channel takes a value from a sender" holds because
  senders wait only at a full buffer (`SendersWaitWhenFull`);
* event: `WaitersProofs` shows once that `WaitersInv` (types, sound queue, stored
  wakers, no lost wake-up) is preserved by every operation of `Waiters`; the event
  adds that the queue is empty while it is set;
* timer: **`ExpiryIsReached`** and **`ExpiryIsLateEnough`**: an expired node has reached
  its deadline, and a deadline is no earlier than the instant asked for, but for the two
  dropped fractions, unless it is the last one of the clock. `NeverEarly` is their
  composition and is not inductive. They rest on three lemmas about the floor division
  of `as_millis`: it drops less than a divisor (`AsMillisDrops`), is monotone
  (`AsMillisMonotone`) and keeps the clock in its range (`NowIsTime`). `SleepIsSafe` needs `HeapHoldsWaiters` (a deadline is
  only set while its node is in no heap).

Each module then has one lemma per action (`... Inv`), `Invariance == Spec => []IInv`,
and one theorem per property. `Fair` (mutex and semaphore) and `OnlyCancellation`
(semaphore) are action properties proved from the same invariant.

### Counting arguments

* **`PermitsConserved`** is a sum over all slots, by the recursive function behind
  `MapThenSumSet`. `SumsExist` shows, by induction on the size of the set, that there is
  such a function, and `SumsRemove` that the order in which it picks the slots does not
  matter, so that one step changes the sum by what it changes at one slot (`SumChange`). The invariant
  `ConservedInv` adds that a pending future holds no permits (`PendingHoldsNothing`):
  without it, dropping one could lose some.
* **`UniformDemandServed`** says that enough waiters are notified for the permits that
  are free. With equal requests `k` the first `n` waiters need `n * k` together
  (`UniformDemand`), so the prefix that `wakeup_waiters` notifies ends where the permits
  do; `UniformInv` adds that a node asks for what the workload allows.
* **`ValuesAnnounced`** compares a cardinality, the notified receivers, with the values
  to be had. Every step of the channel is one of three kinds: it leaves both sides
  alone (`QuietStep`), it offers a value and notifies a receiver if one sleeps
  (`OfferStep`), or a receiver takes a value away (`TakeStep`); a notified receiver that
  is dropped passes its notification on. `BalancedStep` is the arithmetic common to them.

### Shared handles and streams

`SharedInv` is the invariant of the channel with the three properties of the handles and
one more fact, **`ClearingIsClosed`**: when the last receiver comes to clear the buffer,
the channel is closed. That is what keeps the buffer empty after the clear, although
senders go on between its steps: a closed channel accepts nothing (`ClosedStep`). The
counts agree with the handles because each of the clone and drop lemmas changes one slot
(`CloneSide`, `DropSide`).

### Oneshot and state broadcast channels

All three sit on `WaitersInv`. A oneshot channel adds that its queue is empty once it is
fulfilled and that it has no value before (`FulfilledInv`); that a value is in the channel
or was returned exactly once is inductive on top of it. For the broadcast variant the
value stays and is all that any receive has returned (`BroadcastInv`). `StateInv` of
the state broadcast channel has the ids counting the states (`StatesInv`) and nobody in
the queue whom the current state would satisfy (`QueueIsUpToDate`).

### Refinements

* **`ImplementsFifo`**: the abstract sequence is the buffer followed by what the waiting
  senders offer, oldest first (`Items`). Each operation of the channel appends to it,
  takes its first element, withdraws one offer that was not stored, drops all offers, or
  leaves it alone. The step that takes from a full buffer and refills it from the oldest
  sender changes both parts: `ConcatShift` shows that the whole only loses its head. A
  withdrawn offer is found at its place behind the buffer by `OffersRemove` and
  `ConcatRemoveAt`.
* **`ImplementsRingBuf`**: `CellsHoldValues` is inductive with the types, and the
  refinement follows from it: the cells from `recv_idx` on, around the end of the array,
  are different cells and `next_idx` leads through them.
* **`ImplementsNodeList`**: the invariant `ListInv` says that *some* sequence `q` of
  different nodes is represented by the pointers: `head` and `tail` are its ends, `prev`
  and `next` of its nodes are the neighbours, and a node outside of it has neither. Each
  operation takes a represented sequence to the one that `NodeList` says. That the
  sequence is the one which the refinement mapping reads by walking along the
  pointers is `WalkIs`: the walk is a recursive function, and two functions that obey the same
  recursion agree by induction on the steps. `ListPointers` (no dangling pointer, no
  failing `debug_assert`) follows from the same invariant.
* **`ImplementsPriorityQueue`**: see the next section.

### The pairing heap

`HeapInv` says that the pointers are a `Forest`: siblings and children are linked both
ways, no child is smaller than its parent, and none of `parent`, `prev` and `next` has a
cycle. The last is stated without paths, as `Founded`: every set of nodes has a member
whose pointer leads out of the set. That is an induction principle that the provers can
use, since one only has to name the set. TLC has checked `HeapInv` on the instance of
the run `containers`.

* `HeapIsSound` alone is not inductive. It does not exclude a cycle of parents beside
  the tree, and `add_child` could make one, if it put a node below itself
  (`AddChildForest` asks for a set that is closed under `parent` and has the new parent
  in it but not the new child).
* In the middle of `remove` the children of the removed node are a list to which no
  `first_child` points. So `Forest` has that node (`open`) and its former first child as
  parameters, and each function is shown to keep it: `UnlinkForest`, `OpenForest`,
  `TakeLastForest`, `MeldForest`, `CloseForest`.
* `Merging` is the invariant of the loop of `merge_children`: of the former children,
  those not yet taken are still children of `open`, `current` is the root of all the
  others, and no other node has changed (`Loose`). A round keeps it and takes at least
  one child (`RoundMerges`), so after as many rounds as there are nodes the loop has
  returned and all children are below `current` (`MergeChildrenDone`).
* `remove` then puts `current` below the parent of the removed node. That this parent is
  not itself below `current` follows from `NotBelow`: a node's parent is not among its
  descendants.
* For the refinement, `TreeIsInserted` shows that `Tree` (what can be reached through
  `next` and `first_child`) is the set of inserted nodes, by taking an unreachable node
  whose parent is reachable and then the leftmost such sibling. `RootIsLeast`
  takes a smaller node whose parent is not smaller.

### Loops that the models state by their result

Two models state a loop by what it has done when it ends. That this is what the loop
does, round by round as the source has it, is proved for any number of rounds:
`LoopTakesDue` for `check_expirations` (`Due`), and `LoopStopsAfter` for
`wakeup_waiters` of the semaphore, where it also shows that `StopsAfter` leaves no choice
(the sums of requests grow with the number of waiters, `DemandGrows`).

### Theorems

| module | theorems |
|---|---|
| `MutexProofs` | `TypeCorrect`, `Exclusion`, `QueueIsSound`, `PanicFree`, `NoLostUnlock`, `NoLostWakeup`, `Fair` |
| `SemaphoreProofs` | `TypeCorrect`, `QueueIsSound`, `PanicFree`, `NoLostWakeup`, `PermitsAreConserved`, `PermitsAreOffered`, `Fair`, `OnlyCancellation`, `LoopStopsAfter` |
| `ChannelProofs` | of the channel: `TypeCorrect`, `QueuesAreSound`, `WaitOnlyWhenFull`, `PanicFree`, `NoLostWakeup`, `NoValueOverlooked`, `ImplementsFifo`; with handles and streams: `SharedInvariance`, `LastDropAlone`, `NothingLeftBehind`, `StreamsEndLast` |
| `WaitersProofs` | `NobodyWaitsWhenSet`, `EventWakesWaiters` |
| `ChannelStateProofs` | oneshot: `ExactlyOnce`, `OneshotWakesWaiters`; oneshot broadcast: `Agreement`, `BroadcastWakesWaiters`; state broadcast: `IdsNeverWrap`, `OnlyNewerStates`, `NobodySleepsBesideNews`, `StateWakesWaiters` |
| `TimerProofs` | `OnTime`, `HeapIsWaiters`, `NoLostWakeup`, `SafeToSleep`, `LoopTakesDue` |
| `ContainerProofs` | `CellsAreSafe`, `ImplementsRingBuf`, `ListPointers`, `ImplementsNodeList`, `HeapInvariance`, `HeapPointers`, `ImplementsPriorityQueue` |

**Only model-checked**: everything under fairness (`EveryWaiterServed`,
`FreeMutexIsTaken`, `ValueReachesReceiver`, `AbandonedResolves`, `SignalledResolves`,
`FulfilledResolves`, `TimersResolve`): reasoning from weak fairness needs `ENABLED`,
which is out of the prover's reach.

**Only proved**: a few plain invariants that the runs leave to the prover: that no
assertion of mutex and channel fails, the queues of semaphore and channel, the wake-ups
of semaphore, event, oneshot and state broadcast channels and timer, and that the array
implements a ring buffer.

## 5. Findings

**A cancelled oldest waiter of a fair semaphore leaves the next one asleep**
(`semaphore_cancel`). With one permit available, A waits for 2 and B behind it
for 1. A is dropped. `remove_waiter` (`sync/semaphore.rs:281`) passes the chance on
only when the dropped future was `Notified`, so B is not woken although one permit is
free, until somebody calls `release`. The documentation of `new` says that others
wait until the acquire attempt in front of them completes or its future is dropped.
`OnlyCancellation` proves that this is the only way to get there.

**One dropped receiver closes a oneshot broadcast channel for all**
(`oneshot_broadcast_close`). A receiver is cloned and one of the two is dropped; the
drop calls `close` (`channel/oneshot_broadcast.rs:396`), so the sender's value is
refused and the other receiver gets `None`. The documentation (lines 405-406) promises
closing when all receivers are gone; the TODO in the drop concedes the difference.

## 6. Not modelled, and the plan

Every component that keeps state is modelled, and every safety property and refinement
that a passing run checks is proved. What is left of the plan is liveness, which stays
with TLC for the reason given in section 4.

Left out for good, with the reason: `NoopLock` (it excludes nothing, and on the one
thread it is made for the calls do not overlap: its behaviours are among those
modelled); the marker trait `RealArray`, errors and re-exports (no state); how the
system keeps the time that `StdClock` reads; memory orderings of the atomic
counts (each count is one variable and every access a read-modify-write); overflow of
the counts and of the permits (no check, or a panic, far from any real program); memory
layout and pinning (the type system's business). The documentation of `send` of the
shared state broadcast sender (`channel/state_broadcast.rs:742-744`) has the wording of
the oneshot channels ("If a value had been written to the channel before, ... the new
value will be rejected"); the code replaces the state, and so does the model. The oneshot and state broadcast
channels have no streams.
