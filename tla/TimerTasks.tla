------------------------------ MODULE TimerTasks ------------------------------
(***************************************************************************)
(* The data of class TimerEvent (timer.h) as one record, and the class's   *)
(* member functions as operators on that record.                           *)
(*                                                                         *)
(* An operator whose result the code leaves open returns the SET of states *)
(* it may leave behind.  The only source of such freedom is the priority   *)
(* queue: tasks with equal time_point come off it in no particular order.  *)
(*                                                                         *)
(* A task is known by the read_op it resumes (an element of Ops).  Awaiters *)
(* live in coroutine frames, so the same address is used again for later   *)
(* timers; only the id tells two timers of one address apart.              *)
(***************************************************************************)
EXTENDS Naturals

CONSTANTS Ops,    \* addresses of the read_op members that timers resume
          NoOp    \* nullptr

ASSUME OpsAssumption == NoOp \notin Ops

\* TimerTask{}: no operation, time_point zero, id zero
NoTask == [op |-> NoOp, tp |-> 0, id |-> 0]

TimerTask == [op : Ops, tp : Nat \ {0}, id : Nat \ {0}]

\* active_timer_ids[p] = 0 stands for "p is not a key of the map".
\* alarm is the timerfd: the absolute time it is armed for, 0 when it is
\* disarmed or its one expiration has been read.
TimerState == [cur                 : TimerTask \cup {NoTask},
               waiting_queue       : SUBSET TimerTask,
               next_timer_id       : Nat \ {0},
               active_timer_ids    : [Ops -> Nat],
               cancelled_timer_ids : SUBSET (Nat \ {0}),
               alarm               : Nat]

NewTimerEvent == [cur                 |-> NoTask,
                  waiting_queue       |-> {},
                  next_timer_id       |-> 1,
                  active_timer_ids    |-> [p \in Ops |-> 0],
                  cancelled_timer_ids |-> {},
                  alarm               |-> 0]

Ids(S) == {x.id : x \in S}

\* the queued tasks that no tombstone covers
LiveTasks(t) == {x \in t.waiting_queue : x.id \notin t.cancelled_timer_ids}

\* the queued tasks a tombstone covers
Dead(t) == t.waiting_queue \ LiveTasks(t)

\* every timer that is still to fire: the current one and the live queued ones
Pending(t) ==
    {x \in t.waiting_queue \cup {t.cur} :
        x.id # 0 /\ x.id \notin t.cancelled_timer_ids}

\* when the pending timer of p is due
DueTime(t, p) == CHOOSE tp \in {x.tp : x \in {y \in Pending(t) : y.op = p}} : TRUE

-------------------------------------------------------------------------------
(* Plausible slips in the operators below, each exercised by a mutation run *)

\* erases the address whatever timer it now belongs to
ForgetActive_AnyId(active, S) ==
    [p \in Ops |-> IF \E x \in S : x.op = p THEN 0 ELSE active[p]]

\* forgets the tombstones of the tasks it pops
ActivateNextTimer_KeepTombstones(t) ==
    {[t EXCEPT !.cur = x, !.waiting_queue = @ \ {x}, !.alarm = x.tp] :
        x \in {y \in LiveTasks(t) : \A z \in LiveTasks(t) : y.tp <= z.tp}}
    \cup IF LiveTasks(t) = {}
         THEN {[t EXCEPT !.cur = NoTask, !.waiting_queue = {}, !.alarm = 0]}
         ELSE {}

\* overwrites the current timer instead of queueing it
SetTimerOn_DropCurrent(r, task) ==
    [r EXCEPT !.next_timer_id = @ + 1,
              !.active_timer_ids[task.op] = task.id,
              !.cur = IF r.cur.tp = 0 \/ r.cur.tp > task.tp THEN task ELSE @,
              !.waiting_queue = IF r.cur.tp = 0 \/ r.cur.tp > task.tp
                                THEN @ ELSE @ \cup {task},
              !.alarm = IF r.cur.tp = 0 \/ r.cur.tp > task.tp THEN task.tp ELSE @]

\* moves to the new task without re-arming the timerfd
SetTimerOn_NoRearm(r, task) ==
    [r EXCEPT !.next_timer_id = @ + 1,
              !.active_timer_ids[task.op] = task.id,
              !.cur = IF r.cur.tp = 0 \/ r.cur.tp > task.tp THEN task ELSE @,
              !.waiting_queue = IF r.cur.tp = 0 THEN @
                                ELSE IF r.cur.tp > task.tp THEN @ \cup {r.cur}
                                     ELSE @ \cup {task},
              !.alarm = IF r.cur.tp = 0 THEN task.tp ELSE @]

\* pushes the current task even when there is none
SetTimerOn_QueueEmpty(r, task) ==
    LET first == r.cur.tp = 0 \/ r.cur.tp > task.tp
    IN  [r EXCEPT !.next_timer_id = @ + 1,
                  !.active_timer_ids[task.op] = task.id,
                  !.cur = IF first THEN task ELSE @,
                  !.waiting_queue = @ \cup {IF first THEN r.cur ELSE task},
                  !.alarm = IF first THEN task.tp ELSE @]

\* leaves the timerfd armed for a task that has gone: no clear_timer
PopAll_LeaveArmed(t) ==
    [t EXCEPT !.cur = NoTask,
              !.waiting_queue = {},
              !.cancelled_timer_ids = @ \ Ids(t.waiting_queue)]

-------------------------------------------------------------------------------
(* The member functions *)

\* forget_active on every task of S: erase the map entry only if it still
\* belongs to that very timer
ForgetActive(active, S) ==
    [p \in Ops |-> IF \E x \in S : x.op = p /\ x.id = active[p]
                   THEN 0 ELSE active[p]]

\* the queued tasks of a set of tasks that may come off the heap first
Earliest(S) == {x \in S : \A y \in S : x.tp <= y.tp}

\* the loop of activate_next_timer ends on x, having popped the tombstoned tasks
PopUntil(t, x, popped) ==
    [t EXCEPT !.cur = x,
              !.waiting_queue = @ \ (popped \cup {x}),
              !.cancelled_timer_ids = @ \ Ids(popped),
              !.active_timer_ids = ForgetActive(@, popped),
              !.alarm = x.tp]

\* the loop pops everything: no current task, clear_timer
PopAll(t) ==
    [t EXCEPT !.cur = NoTask,
              !.waiting_queue = {},
              !.cancelled_timer_ids = @ \ Ids(t.waiting_queue),
              !.active_timer_ids = ForgetActive(@, t.waiting_queue),
              !.alarm = 0]

\* activate_next_timer: pop until a task without tombstone comes off.  With an
\* earliest live task x, every tombstoned task before x is popped too, and of
\* the tombstoned ties of x any number.
ActivateNextTimer(t) ==
    IF LiveTasks(t) = {}
    THEN {PopAll(t)}
    ELSE UNION {{PopUntil(t, x, popped) :
                    popped \in {d \in SUBSET Dead(t) :
                                  /\ \A y \in d : y.tp <= x.tp
                                  /\ \A y \in Dead(t) \ d : y.tp >= x.tp}} :
                x \in Earliest(LiveTasks(t))}

\* refresh_current_timer
RefreshCurrentTimer(t) ==
    IF t.cur.tp = 0 \/ t.cur.id \in t.cancelled_timer_ids
    THEN ActivateNextTimer(
            [t EXCEPT !.cancelled_timer_ids = @ \ {t.cur.id},
                      !.active_timer_ids = ForgetActive(@, {t.cur})])
    ELSE {t}

\* operator++
Advance(t) ==
    ActivateNextTimer([t EXCEPT !.active_timer_ids = ForgetActive(@, {t.cur})])

\* cancel(read_op*): leave a tombstone, the heap is not touched
Cancel(t, p) ==
    IF t.active_timer_ids[p] = 0
    THEN t
    ELSE [t EXCEPT !.cancelled_timer_ids = @ \cup {t.active_timer_ids[p]},
                   !.active_timer_ids[p] = 0]

\* set_timer after its refresh: file the task, arm the timerfd if it is first
SetTimerOn(r, task) ==
    LET first == r.cur.tp = 0 \/ r.cur.tp > task.tp
    IN  [r EXCEPT !.next_timer_id = @ + 1,
                  !.active_timer_ids[task.op] = task.id,
                  !.cur = IF first THEN task ELSE @,
                  !.waiting_queue = IF r.cur.tp = 0 THEN @
                                    ELSE IF first THEN @ \cup {r.cur}
                                         ELSE @ \cup {task},
                  !.alarm = IF first THEN task.tp ELSE @]

\* set_timer
SetTimer(t, p, tp) ==
    {SetTimerOn(r, [op |-> p, tp |-> tp, id |-> r.next_timer_id]) :
        r \in RefreshCurrentTimer(t)}

\* get_timer: the time left until the timerfd expires, 0 when it is disarmed
GetTimer(t, now) == IF t.alarm > now THEN t.alarm - now ELSE 0

\* the timerfd has an expiration to read
TimerFdReadable(t, now) == t.alarm # 0 /\ t.alarm <= now

\* consume: the read that takes the expiration.  The timerfd is a blocking
\* descriptor: callers guard this with TimerFdReadable, the read waits for it.
Consume(t) == [t EXCEPT !.alarm = 0]

\* is_current
IsCurrent(t, p) == t.cur.op = p

\* current_empty
CurrentEmpty(t) == t.cur.tp = 0

-------------------------------------------------------------------------------
(* What holds of the record between two calls of the class *)

\* ids are unique and below the counter
IdsFresh(S, t) == /\ \A x \in S : x.id < t.next_timer_id
                  /\ \A x, y \in S : x.id = y.id => x = y

\* the map knows exactly the tasks of S, each under its own id
MapKnows(S, t) ==
    /\ \A x \in S : t.active_timer_ids[x.op] = x.id
    /\ \A p \in Ops : t.active_timer_ids[p] # 0 => \E x \in S : x.op = p

\* what activate_next_timer relies on: it does not look at the current task
QueueOK(t) == /\ t \in TimerState
              /\ IdsFresh(t.waiting_queue, t)
              /\ t.cancelled_timer_ids \subseteq Ids(t.waiting_queue)
              /\ MapKnows(LiveTasks(t), t)

\* what every operation of the framework leaves behind
Settled(t) == /\ t \in TimerState
              /\ t.cur \notin t.waiting_queue
              /\ IdsFresh(t.waiting_queue \cup {t.cur}, t)
              /\ t.cancelled_timer_ids \subseteq Ids(t.waiting_queue)
              /\ MapKnows(Pending(t), t)
              /\ \A x \in t.waiting_queue : t.cur.tp <= x.tp
              /\ t.cur = NoTask => t.waiting_queue = {}
              /\ t.alarm = t.cur.tp
===============================================================================
