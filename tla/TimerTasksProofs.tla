--------------------------- MODULE TimerTasksProofs ---------------------------
(***************************************************************************)
(* What each member function of TimerEvent leaves behind, for every set of *)
(* operations and every content of the queue: a settled record, and        *)
(* exactly the pending timers the call should leave.                       *)
(***************************************************************************)
EXTENDS TimerTasks, TLAPS

\* The empty task is no task of the queue.
LEMMA NoTaskFacts ==
    /\ NoTask \notin TimerTask
    /\ \A x \in TimerTask : x.op \in Ops /\ x.tp \in Nat /\ x.tp # 0
                            /\ x.id \in Nat /\ x.id # 0 /\ x # NoTask
    /\ NoTask.op = NoOp /\ NoTask.tp = 0 /\ NoTask.id = 0
BY OpsAssumption DEF NoTask, TimerTask

\* A record put together from typed parts is typed.
LEMMA StateTyped ==
    ASSUME NEW c \in TimerTask \cup {NoTask}, NEW Q \in SUBSET TimerTask,
           NEW n \in Nat \ {0}, NEW a \in [Ops -> Nat],
           NEW k \in SUBSET (Nat \ {0}), NEW l \in Nat
    PROVE  [cur |-> c, waiting_queue |-> Q, next_timer_id |-> n,
            active_timer_ids |-> a, cancelled_timer_ids |-> k, alarm |-> l]
               \in TimerState
BY DEF TimerState

\* No popped task owns a map entry when the map knows exactly the live tasks
\* (forget_active, consume_cancelled): forgetting them changes nothing.
LEMMA ForgetDead ==
    ASSUME NEW t, QueueOK(t), NEW D \in SUBSET Dead(t)
    PROVE  ForgetActive(t.active_timer_ids, D) = t.active_timer_ids
<1>1. /\ t.active_timer_ids \in [Ops -> Nat] /\ t.waiting_queue \subseteq TimerTask
      /\ D \subseteq t.waiting_queue /\ D \cap LiveTasks(t) = {}
  BY DEF Dead, QueueOK, TimerState
<1>2. SUFFICES ASSUME NEW p \in Ops, NEW x \in D, x.op = p, x.id = t.active_timer_ids[p]
               PROVE  FALSE
  BY <1>1 DEF ForgetActive
<1>3. t.active_timer_ids[p] # 0
  BY <1>1, <1>2, NoTaskFacts
<1>4. PICK y \in LiveTasks(t) : y.op = p
  BY <1>3 DEF QueueOK, MapKnows
<1>5. y.id = x.id /\ y \in t.waiting_queue
  BY <1>2, <1>4 DEF QueueOK, MapKnows, LiveTasks
<1>6. x = y
  BY <1>1, <1>5 DEF QueueOK, IdsFresh
<1> QED
  BY <1>1, <1>4, <1>6

\* Tombstones that covered the queue still cover what is left of it when the
\* tombstones of the tasks popped go with them.
LEMMA CoverRest ==
    ASSUME NEW t, QueueOK(t), NEW D \in SUBSET t.waiting_queue
    PROVE  /\ t.cancelled_timer_ids \ Ids(D) \subseteq Ids(t.waiting_queue \ D)
           /\ \A x \in t.waiting_queue \ D : x.id \notin Ids(D)
BY DEF QueueOK, Ids, IdsFresh

\* What taking x as the current task and dropping the tombstoned tasks D from
\* the queue leaves behind.
LEMMA PopSettles ==
    ASSUME NEW t, QueueOK(t),
           NEW x \in Earliest(LiveTasks(t)),
           NEW D \in SUBSET Dead(t),
           \A y \in Dead(t) \ D : y.tp >= x.tp,
           NEW u, u = PopUntil(t, x, D)
    PROVE  /\ Settled(u)
           /\ Pending(u) = LiveTasks(t)
           /\ u.next_timer_id = t.next_timer_id
           /\ u.active_timer_ids = t.active_timer_ids
<1> DEFINE Q == t.waiting_queue \ (D \cup {x})
<1>1. /\ t.waiting_queue \subseteq TimerTask
      /\ t.next_timer_id \in Nat \ {0}
      /\ t.active_timer_ids \in [Ops -> Nat]
      /\ t.cancelled_timer_ids \subseteq Nat \ {0}
  BY DEF QueueOK, TimerState
<1>2. /\ u.cur = x
      /\ u.waiting_queue = Q
      /\ u.next_timer_id = t.next_timer_id
      /\ u.active_timer_ids = t.active_timer_ids
      /\ u.cancelled_timer_ids = t.cancelled_timer_ids \ Ids(D)
      /\ u.alarm = x.tp
  BY ForgetDead DEF QueueOK, TimerState, PopUntil
<1>3. /\ x \in TimerTask /\ x \in t.waiting_queue /\ x # NoTask
      /\ x.id \notin t.cancelled_timer_ids /\ x.id # 0 /\ x.tp \in Nat
      /\ x \in LiveTasks(t) /\ \A z \in LiveTasks(t) : x.tp <= z.tp
  BY <1>1, NoTaskFacts DEF LiveTasks, Earliest
<1>popped. D \in SUBSET t.waiting_queue /\ D \cap LiveTasks(t) = {}
  BY DEF Dead
<1>4. u \in TimerState
  <2>1. u = [cur |-> x, waiting_queue |-> Q, next_timer_id |-> t.next_timer_id,
             active_timer_ids |-> t.active_timer_ids,
             cancelled_timer_ids |-> t.cancelled_timer_ids \ Ids(D),
             alarm |-> x.tp]
    BY ForgetDead DEF QueueOK, TimerState, PopUntil
  <2>2. /\ x \in TimerTask \cup {NoTask}
        /\ Q \in SUBSET TimerTask
        /\ t.cancelled_timer_ids \ Ids(D) \in SUBSET (Nat \ {0})
        /\ x.tp \in Nat
    BY <1>1, <1>3
  <2> HIDE DEF Q
  <2>3. [cur |-> x, waiting_queue |-> Q, next_timer_id |-> t.next_timer_id,
         active_timer_ids |-> t.active_timer_ids,
         cancelled_timer_ids |-> t.cancelled_timer_ids \ Ids(D),
         alarm |-> x.tp] \in TimerState
    BY <1>1, <2>2, StateTyped, Zenon
  <2> QED
    BY <2>1, <2>3, Zenon
<1>5. IdsFresh(u.waiting_queue \cup {u.cur}, u)
  BY <1>2, <1>3 DEF QueueOK, IdsFresh
<1>6. t.cancelled_timer_ids \ Ids(D) \subseteq Ids(Q)
  <2>1. t.cancelled_timer_ids \ Ids(D) \subseteq Ids(t.waiting_queue \ D)
    BY <1>popped, CoverRest
  <2> QED
    BY <1>3, <2>1 DEF Ids
<1>7. \A y \in Q : y.id \in t.cancelled_timer_ids \ Ids(D)
                      <=> y.id \in t.cancelled_timer_ids
  BY <1>popped, CoverRest
<1>8. Pending(u) = LiveTasks(t)
  <2>1. \A y : y \in Pending(u)
                 <=> y = x \/ (y \in Q /\ y.id \notin t.cancelled_timer_ids)
    <3>1. \A y \in Q : y.id # 0
      BY <1>1, NoTaskFacts
    <3> QED
      BY <1>2, <1>3, <1>7, <3>1 DEF Pending
  <2> QED
    BY <1>3, <1>popped, <2>1 DEF LiveTasks
<1>9. \A y \in Q : x.tp <= y.tp
  BY <1>1, <1>3, NoTaskFacts DEF Dead
<1> QED
  <2>1. MapKnows(Pending(u), u)
    BY <1>2, <1>8 DEF QueueOK, MapKnows
  <2> HIDE DEF Q
  <2>2. x \notin Q
    BY DEF Q
  <2> QED
    BY <1>2, <1>3, <1>4, <1>5, <1>6, <1>8, <1>9, <2>1, <2>2 DEF Settled

\* What an empty queue leaves behind: no current task, a disarmed timerfd.
LEMMA PopAllSettles ==
    ASSUME NEW t, QueueOK(t), LiveTasks(t) = {},
           NEW u, u = PopAll(t)
    PROVE  /\ Settled(u)
           /\ Pending(u) = {}
           /\ u.next_timer_id = t.next_timer_id
           /\ u.active_timer_ids = t.active_timer_ids
<1>1. /\ t.next_timer_id \in Nat \ {0}
      /\ t.active_timer_ids \in [Ops -> Nat]
      /\ t.cancelled_timer_ids \ Ids(t.waiting_queue) = {}
      /\ ForgetActive(t.active_timer_ids, t.waiting_queue) = t.active_timer_ids
  <2>1. t.waiting_queue \in SUBSET Dead(t)
    BY DEF Dead
  <2> QED
    BY <2>1, ForgetDead DEF QueueOK, TimerState
<1>2. u = [cur |-> NoTask, waiting_queue |-> {}, next_timer_id |-> t.next_timer_id,
           active_timer_ids |-> t.active_timer_ids,
           cancelled_timer_ids |-> {}, alarm |-> 0]
  BY <1>1 DEF QueueOK, TimerState, PopAll
<1>3. u \in TimerState
  <2>1. /\ NoTask \in TimerTask \cup {NoTask}
        /\ {} \in SUBSET TimerTask /\ {} \in SUBSET (Nat \ {0}) /\ 0 \in Nat
    OBVIOUS
  <2>2. [cur |-> NoTask, waiting_queue |-> {}, next_timer_id |-> t.next_timer_id,
         active_timer_ids |-> t.active_timer_ids,
         cancelled_timer_ids |-> {}, alarm |-> 0] \in TimerState
    BY <1>1, <2>1, StateTyped, Zenon
  <2> QED
    BY <1>2, <2>2, Zenon
<1>4. /\ u.cur = NoTask /\ u.waiting_queue = {} /\ u.cancelled_timer_ids = {}
      /\ u.next_timer_id = t.next_timer_id
      /\ u.active_timer_ids = t.active_timer_ids
      /\ u.alarm = 0
  BY <1>1 DEF QueueOK, TimerState, PopAll
<1>5. Pending(u) = {}
  BY <1>4, NoTaskFacts DEF Pending
<1>6. IdsFresh(u.waiting_queue \cup {u.cur}, u)
  BY <1>1, <1>4, NoTaskFacts DEF IdsFresh
<1>7. MapKnows(Pending(u), u)
  BY <1>4, <1>5 DEF QueueOK, MapKnows
<1> QED
  BY <1>3, <1>4, <1>5, <1>6, <1>7, NoTaskFacts DEF Settled

\* activate_next_timer settles the record and loses no live task.
LEMMA ActivateNextSettles ==
    ASSUME NEW t, QueueOK(t), NEW u \in ActivateNextTimer(t)
    PROVE  /\ Settled(u)
           /\ Pending(u) = LiveTasks(t)
           /\ u.next_timer_id = t.next_timer_id
           /\ u.active_timer_ids = t.active_timer_ids
<1>1. CASE LiveTasks(t) = {}
  <2>1. u = PopAll(t)
    BY <1>1 DEF ActivateNextTimer
  <2> QED
    BY <1>1, <2>1, PopAllSettles
<1>2. CASE LiveTasks(t) # {}
  <2>1. PICK x \in Earliest(LiveTasks(t)), D \in SUBSET Dead(t) :
          (\A y \in Dead(t) \ D : y.tp >= x.tp) /\ u = PopUntil(t, x, D)
    BY <1>2 DEF ActivateNextTimer
  <2> QED
    BY <2>1, PopSettles
<1> QED
  BY <1>1, <1>2

\* A settled record in terms of its queue: the tombstones are the queue's, so
\* the current task, if there is one, is pending.
LEMMA SettledFacts ==
    ASSUME NEW t, Settled(t)
    PROVE  /\ t.cur # NoTask => /\ t.cur \in TimerTask
                                /\ t.cur \in Pending(t)
                                /\ t.active_timer_ids[t.cur.op] = t.cur.id
           /\ t.cur = NoTask => Pending(t) = {} /\ LiveTasks(t) = {}
           /\ t.cur.id \notin t.cancelled_timer_ids
           /\ (t.cur.tp = 0) <=> (t.cur = NoTask)
           /\ LiveTasks(t) = Pending(t) \ {t.cur}
           /\ IdsFresh(t.waiting_queue, t)
           /\ Pending(t) \subseteq TimerTask
<1>1. /\ t.cur \in TimerTask \cup {NoTask} /\ t.waiting_queue \subseteq TimerTask
      /\ t.cancelled_timer_ids \subseteq Nat \ {0}
  BY DEF Settled, TimerState
<1>2. t.cur.id \notin t.cancelled_timer_ids
  <2>1. SUFFICES ASSUME t.cur.id \in t.cancelled_timer_ids PROVE FALSE
    OBVIOUS
  <2>2. PICK y \in t.waiting_queue : y.id = t.cur.id
    BY <2>1 DEF Settled, Ids
  <2>3. y = t.cur
    BY <2>2 DEF Settled, IdsFresh
  <2> QED
    BY <2>2, <2>3 DEF Settled
<1>3. (t.cur.tp = 0) <=> (t.cur = NoTask)
  BY <1>1, NoTaskFacts
<1>4. t.cur # NoTask => /\ t.cur \in TimerTask
                        /\ t.cur \in Pending(t)
                        /\ t.active_timer_ids[t.cur.op] = t.cur.id
  BY <1>1, <1>2, NoTaskFacts DEF Pending, Settled, MapKnows
<1>5. t.cur = NoTask => Pending(t) = {} /\ LiveTasks(t) = {}
  BY <1>2, NoTaskFacts DEF Pending, LiveTasks, Settled
<1>6. LiveTasks(t) = Pending(t) \ {t.cur}
  <2>1. t.cur \notin t.waiting_queue
    BY DEF Settled
  <2> QED
    BY <1>1, <2>1, NoTaskFacts DEF LiveTasks, Pending
<1>7. IdsFresh(t.waiting_queue, t)
  BY DEF Settled, IdsFresh
<1>8. Pending(t) \subseteq TimerTask
  BY <1>1, NoTaskFacts DEF Pending
<1> QED
  BY <1>2, <1>3, <1>4, <1>5, <1>6, <1>7, <1>8

\* refresh_current_timer finds nothing to do between two calls of the class: the
\* current task is never one that was cancelled, and without one nothing is queued.
LEMMA RefreshIsIdle ==
    ASSUME NEW t, Settled(t)
    PROVE  RefreshCurrentTimer(t) = {t}
<1>1. CASE t.cur = NoTask
  <2> DEFINE v == [t EXCEPT !.cancelled_timer_ids = @ \ {t.cur.id},
                            !.active_timer_ids = ForgetActive(@, {t.cur})]
  <2>1. /\ t.waiting_queue = {} /\ t.cancelled_timer_ids = {} /\ t.alarm = 0
        /\ t \in TimerState
    BY <1>1, NoTaskFacts DEF Settled, Ids
  <2>2. ForgetActive(t.active_timer_ids, {t.cur}) = t.active_timer_ids
    BY <1>1, <2>1, OpsAssumption, NoTaskFacts DEF ForgetActive, TimerState
  <2>3. v = t
    BY <2>1, <2>2 DEF TimerState
  <2>4. RefreshCurrentTimer(t) = ActivateNextTimer(t)
    BY <1>1, <2>3, NoTaskFacts DEF RefreshCurrentTimer
  <2>5. ActivateNextTimer(t) = {PopAll(t)}
    BY <2>1 DEF ActivateNextTimer, LiveTasks
  <2>6. ForgetActive(t.active_timer_ids, {}) = t.active_timer_ids
    BY <2>1 DEF ForgetActive, TimerState
  <2>7. PopAll(t) = t
    BY <1>1, <2>1, <2>6 DEF PopAll, TimerState, Ids
  <2> QED
    BY <2>4, <2>5, <2>7
<1>2. CASE t.cur # NoTask
  BY <1>2, SettledFacts DEF RefreshCurrentTimer
<1> QED
  BY <1>1, <1>2

\* The code refreshes again after every operator++ and set_timer.
LEMMA RefreshSettled ==
    ASSUME NEW t, Settled(t), NEW u \in RefreshCurrentTimer(t)
    PROVE  /\ Settled(u)
           /\ Pending(u) = Pending(t)
           /\ u.next_timer_id = t.next_timer_id
           /\ u.active_timer_ids = t.active_timer_ids
BY RefreshIsIdle

\* Once the map has forgotten the current task, the queue is all that counts.
LEMMA ForgetCurrent ==
    ASSUME NEW t, Settled(t), t.cur # NoTask,
           NEW v \in TimerState,
           v.waiting_queue = t.waiting_queue,
           v.next_timer_id = t.next_timer_id,
           v.cancelled_timer_ids = t.cancelled_timer_ids,
           v.active_timer_ids = [t.active_timer_ids EXCEPT ![t.cur.op] = 0]
    PROVE  /\ QueueOK(v)
           /\ LiveTasks(v) = {x \in Pending(t) : x.op # t.cur.op}
<1>1. /\ t.cur \in TimerTask /\ t.cur \in Pending(t)
      /\ Pending(t) \subseteq TimerTask
      /\ LiveTasks(t) = Pending(t) \ {t.cur}
      /\ t.active_timer_ids \in [Ops -> Nat]
  BY SettledFacts DEF Settled, TimerState
<1>2. \A x \in Pending(t) : x.op = t.cur.op => x = t.cur
  <2>1. SUFFICES ASSUME NEW x \in Pending(t), x.op = t.cur.op PROVE x = t.cur
    OBVIOUS
  <2>2. x.id = t.cur.id
    BY <1>1, <2>1 DEF Settled, MapKnows
  <2> QED
    BY <2>2 DEF Settled, IdsFresh, Pending
<1>3. LiveTasks(v) = LiveTasks(t)
  BY DEF LiveTasks
<1>4. LiveTasks(v) = {x \in Pending(t) : x.op # t.cur.op}
  BY <1>1, <1>2, <1>3
<1>5. MapKnows(LiveTasks(v), v)
  <2>1. \A x \in LiveTasks(v) : v.active_timer_ids[x.op] = x.id
    BY <1>1, <1>4, NoTaskFacts DEF Settled, MapKnows
  <2>2. ASSUME NEW p \in Ops, v.active_timer_ids[p] # 0
        PROVE  \E x \in LiveTasks(v) : x.op = p
    <3>1. p # t.cur.op /\ t.active_timer_ids[p] # 0
      BY <1>1, <2>2
    <3>2. PICK x \in Pending(t) : x.op = p
      BY <3>1 DEF Settled, MapKnows
    <3> QED
      BY <1>4, <3>1, <3>2
  <2> QED
    BY <2>1, <2>2 DEF MapKnows
<1>6. IdsFresh(v.waiting_queue, v)
  BY SettledFacts DEF IdsFresh
<1> QED
  BY <1>4, <1>5, <1>6 DEF QueueOK, Settled

\* operator++ after consume (wait_for): the current timer is gone, the others
\* are pending as before, and the next one is armed.
LEMMA AdvanceSettles ==
    ASSUME NEW t, Settled(t), t.cur # NoTask, NEW u \in Advance(Consume(t))
    PROVE  /\ Settled(u)
           /\ Pending(u) = {x \in Pending(t) : x.op # t.cur.op}
           /\ u.next_timer_id = t.next_timer_id
           /\ u.active_timer_ids = [t.active_timer_ids EXCEPT ![t.cur.op] = 0]
<1> DEFINE v == [Consume(t) EXCEPT
                    !.active_timer_ids = ForgetActive(@, {Consume(t).cur})]
<1>1. t.active_timer_ids \in [Ops -> Nat] /\ t.cur \in TimerTask
      /\ t.active_timer_ids[t.cur.op] = t.cur.id
  BY SettledFacts DEF Settled, TimerState
<1>2. ForgetActive(t.active_timer_ids, {t.cur})
        = [t.active_timer_ids EXCEPT ![t.cur.op] = 0]
  BY <1>1, NoTaskFacts DEF ForgetActive
<1>3. v = [t EXCEPT !.alarm = 0,
                     !.active_timer_ids = [@ EXCEPT ![t.cur.op] = 0]]
  BY <1>2 DEF Settled, TimerState, Consume
<1>4. [t.active_timer_ids EXCEPT ![t.cur.op] = 0] \in [Ops -> Nat]
  BY <1>1
<1>5. /\ v.waiting_queue = t.waiting_queue
      /\ v.next_timer_id = t.next_timer_id
      /\ v.cancelled_timer_ids = t.cancelled_timer_ids
      /\ v.active_timer_ids = [t.active_timer_ids EXCEPT ![t.cur.op] = 0]
      /\ v \in TimerState
  <2> HIDE DEF v
  <2> QED
    BY <1>3, <1>4 DEF Settled, TimerState
<1>6. u \in ActivateNextTimer(v)
  BY DEF Advance
<1> HIDE DEF v
<1> QED
  BY <1>5, <1>6, ForgetCurrent, ActivateNextSettles

\* cancel of the current timer, whether or not its expiration was consumed
\* (cancelled, timed out, or completed while first in line): the tombstone is
\* used up at once and the next timer is armed.
LEMMA CancelCurrentSettles ==
    ASSUME NEW t, Settled(t), t.cur # NoTask,
           NEW a \in Nat,
           NEW u \in RefreshCurrentTimer(Cancel([t EXCEPT !.alarm = a], t.cur.op))
    PROVE  /\ Settled(u)
           /\ Pending(u) = {x \in Pending(t) : x.op # t.cur.op}
           /\ u.next_timer_id = t.next_timer_id
           /\ u.active_timer_ids = [t.active_timer_ids EXCEPT ![t.cur.op] = 0]
<1> DEFINE c == Cancel([t EXCEPT !.alarm = a], t.cur.op)
           A == [t.active_timer_ids EXCEPT ![t.cur.op] = 0]
           v == [c EXCEPT !.cancelled_timer_ids = @ \ {c.cur.id},
                          !.active_timer_ids = ForgetActive(@, {c.cur})]
<1>1. /\ t.active_timer_ids \in [Ops -> Nat] /\ t.cur \in TimerTask
      /\ t.active_timer_ids[t.cur.op] = t.cur.id
      /\ t.cur.id \notin t.cancelled_timer_ids
      /\ t.cur.id # 0 /\ t.cur.tp # 0 /\ t.cur.op \in Ops
  BY SettledFacts, NoTaskFacts DEF Settled, TimerState
<1>2. c = [t EXCEPT !.alarm = a,
                    !.cancelled_timer_ids = @ \cup {t.cur.id},
                    !.active_timer_ids = A]
  BY <1>1 DEF Settled, TimerState, Cancel
<1>3. A \in [Ops -> Nat] /\ ForgetActive(A, {t.cur}) = A
  BY <1>1 DEF ForgetActive
<1>4. (t.cancelled_timer_ids \cup {t.cur.id}) \ {t.cur.id} = t.cancelled_timer_ids
  BY <1>1
<1> HIDE DEF A
<1>5. v = [t EXCEPT !.alarm = a, !.active_timer_ids = A]
  <2>1. /\ c.cur = t.cur /\ c.active_timer_ids = A
        /\ c.cancelled_timer_ids = t.cancelled_timer_ids \cup {t.cur.id}
    BY <1>2 DEF Settled, TimerState
  <2>2. v = [c EXCEPT !.cancelled_timer_ids = t.cancelled_timer_ids,
                      !.active_timer_ids = A]
    BY <1>3, <1>4, <2>1
  <2> HIDE DEF v, c
  <2> QED
    BY <1>2, <2>2 DEF Settled, TimerState
<1>6. u \in ActivateNextTimer(v)
  <2>1. c.cur = t.cur /\ c.cur.id \in c.cancelled_timer_ids
    BY <1>2 DEF Settled, TimerState
  <2> QED
    BY <2>1 DEF RefreshCurrentTimer
<1> HIDE DEF v, c
<1>7. /\ v.waiting_queue = t.waiting_queue
      /\ v.next_timer_id = t.next_timer_id
      /\ v.cancelled_timer_ids = t.cancelled_timer_ids
      /\ v.active_timer_ids = A
      /\ v \in TimerState
  BY <1>3, <1>5 DEF Settled, TimerState
<1> QED
  BY <1>6, <1>7, ForgetCurrent, ActivateNextSettles DEF A

\* cancel of a queued timer: a tombstone is left, nothing else moves.
LEMMA CancelQueuedSettles ==
    ASSUME NEW t, Settled(t), NEW p \in Ops, t.active_timer_ids[p] # 0, p # t.cur.op,
           NEW u \in RefreshCurrentTimer(Cancel(t, p))
    PROVE  /\ Settled(u)
           /\ Pending(u) = {x \in Pending(t) : x.op # p}
           /\ u.next_timer_id = t.next_timer_id
           /\ u.active_timer_ids = [t.active_timer_ids EXCEPT ![p] = 0]
<1>1. PICK x \in Pending(t) : x.op = p
  BY DEF Settled, MapKnows
<1>2. /\ t.active_timer_ids[p] = x.id
      /\ x # t.cur /\ x \in t.waiting_queue /\ x.id # t.cur.id
      /\ t.cur # NoTask
  <2>1. t.active_timer_ids[p] = x.id
    BY <1>1 DEF Settled, MapKnows
  <2>2. x # t.cur /\ x \in t.waiting_queue
    BY <1>1 DEF Pending
  <2>3. x.id # t.cur.id
    BY <2>2 DEF Settled, IdsFresh
  <2>4. t.cur # NoTask
    BY <2>2 DEF Settled
  <2> QED
    BY <2>1, <2>2, <2>3, <2>4
<1> DEFINE A == [t.active_timer_ids EXCEPT ![p] = 0]
<1>3. Cancel(t, p) = [t EXCEPT !.cancelled_timer_ids = @ \cup {x.id},
                               !.active_timer_ids = A]
  BY <1>2 DEF Cancel
<1>4. A \in [Ops -> Nat] /\ x.id \in Nat \ {0}
  BY <1>1, SettledFacts, NoTaskFacts DEF Settled, TimerState
<1>5. /\ \A q \in Ops : A[q] = IF q = p THEN 0 ELSE t.active_timer_ids[q]
  BY DEF Settled, TimerState
<1> HIDE DEF A
<1>6. u = [t EXCEPT !.cancelled_timer_ids = @ \cup {x.id},
                    !.active_timer_ids = A]
  <2> DEFINE c == Cancel(t, p)
  <2>1. c.cur = t.cur /\ c.cancelled_timer_ids = t.cancelled_timer_ids \cup {x.id}
    BY <1>3 DEF Settled, TimerState
  <2>2. t.cur.tp # 0 /\ t.cur.id \notin t.cancelled_timer_ids
    BY <1>2, SettledFacts
  <2>3. u = c
    BY <1>2, <2>1, <2>2 DEF RefreshCurrentTimer
  <2> QED
    BY <1>3, <2>3
<1>7. /\ u.cur = t.cur /\ u.waiting_queue = t.waiting_queue
      /\ u.next_timer_id = t.next_timer_id /\ u.active_timer_ids = A
      /\ u.cancelled_timer_ids = t.cancelled_timer_ids \cup {x.id}
      /\ u.alarm = t.alarm
      /\ u \in TimerState
  BY <1>4, <1>6 DEF Settled, TimerState
<1>8. Pending(u) = {y \in Pending(t) : y.op # p}
  <2>1. \A y \in Pending(t) : (y.id = x.id) <=> (y.op = p)
    BY <1>1, <1>2 DEF Settled, MapKnows, IdsFresh, Pending
  <2>2. Pending(u) = {y \in Pending(t) : y.id # x.id}
    BY <1>7 DEF Pending
  <2> QED
    BY <2>1, <2>2
<1>9. MapKnows(Pending(u), u)
  <2>1. \A y \in Pending(u) : u.active_timer_ids[y.op] = y.id
    BY <1>5, <1>7, <1>8, SettledFacts, NoTaskFacts DEF Settled, MapKnows
  <2>2. ASSUME NEW q \in Ops, u.active_timer_ids[q] # 0
        PROVE  \E y \in Pending(u) : y.op = q
    <3>1. q # p /\ t.active_timer_ids[q] # 0
      BY <1>5, <1>7, <2>2
    <3>2. PICK y \in Pending(t) : y.op = q
      BY <3>1 DEF Settled, MapKnows
    <3> QED
      BY <1>8, <3>1, <3>2
  <2> QED
    BY <2>1, <2>2 DEF MapKnows
<1>10. IdsFresh(u.waiting_queue \cup {u.cur}, u)
  BY <1>7 DEF Settled, IdsFresh
<1>11. u.cancelled_timer_ids \subseteq Ids(u.waiting_queue)
  BY <1>2, <1>7 DEF Settled, Ids
<1> QED
  BY <1>7, <1>8, <1>9, <1>10, <1>11 DEF Settled, A

\* Filing a task of an operation that has none: it is pending besides all the
\* others, first in line exactly if it is due before the current one.
LEMMA SetTimerOnSettles ==
    ASSUME NEW r, Settled(r), NEW p \in Ops, r.active_timer_ids[p] = 0,
           NEW tp \in Nat \ {0},
           NEW k, k = [op |-> p, tp |-> tp, id |-> r.next_timer_id],
           NEW u, u = SetTimerOn(r, k)
    PROVE  /\ Settled(u)
           /\ Pending(u) = Pending(r) \cup {k}
           /\ u.next_timer_id = r.next_timer_id + 1
           /\ u.active_timer_ids = [r.active_timer_ids EXCEPT ![p] = k.id]
<1> DEFINE first == r.cur.tp = 0 \/ r.cur.tp > tp
           A == [r.active_timer_ids EXCEPT ![p] = k.id]
           C == IF first THEN k ELSE r.cur
           Q == IF r.cur.tp = 0 THEN r.waiting_queue
                ELSE IF first THEN r.waiting_queue \cup {r.cur}
                     ELSE r.waiting_queue \cup {k}
           L == IF first THEN tp ELSE r.alarm
<1>1. /\ k.op = p /\ k.tp = tp /\ k.id = r.next_timer_id
      /\ k \in TimerTask /\ k # NoTask
  BY NoTaskFacts DEF TimerTask, Settled, TimerState
<1>2. /\ r.cur \in TimerTask \cup {NoTask} /\ r.waiting_queue \subseteq TimerTask
      /\ r.next_timer_id \in Nat \ {0}
      /\ r.active_timer_ids \in [Ops -> Nat]
      /\ r.cancelled_timer_ids \subseteq Nat \ {0}
      /\ r.alarm \in Nat
      /\ r.cur.tp \in Nat
  BY NoTaskFacts DEF Settled, TimerState
<1>3. /\ u.cur = C /\ u.waiting_queue = Q
      /\ u.next_timer_id = r.next_timer_id + 1
      /\ u.active_timer_ids = A
      /\ u.cancelled_timer_ids = r.cancelled_timer_ids
      /\ u.alarm = L
  BY <1>1 DEF Settled, TimerState, SetTimerOn
<1>4. u \in TimerState
  <2>1. /\ C \in TimerTask \cup {NoTask} /\ Q \in SUBSET TimerTask
        /\ r.next_timer_id + 1 \in Nat \ {0} /\ A \in [Ops -> Nat]
        /\ L \in Nat
    BY <1>1, <1>2, NoTaskFacts
  <2>2. u = [cur |-> C, waiting_queue |-> Q,
             next_timer_id |-> r.next_timer_id + 1,
             active_timer_ids |-> A,
             cancelled_timer_ids |-> r.cancelled_timer_ids, alarm |-> L]
    BY <1>1 DEF Settled, TimerState, SetTimerOn
  <2> HIDE DEF C, Q, A, L
  <2>3. [cur |-> C, waiting_queue |-> Q,
         next_timer_id |-> r.next_timer_id + 1,
         active_timer_ids |-> A,
         cancelled_timer_ids |-> r.cancelled_timer_ids, alarm |-> L]
            \in TimerState
    BY <1>2, <2>1, StateTyped, Zenon
  <2> QED
    BY <2>2, <2>3, Zenon
<1>5. \A x \in r.waiting_queue \cup {r.cur} : x.id < k.id /\ x # k
  BY <1>1, <1>2, NoTaskFacts DEF Settled, IdsFresh
\* the tasks held, the empty one left out, are the old ones and the new one
<1>6. (Q \cup {C}) \ {NoTask} = ((r.waiting_queue \cup {r.cur}) \ {NoTask}) \cup {k}
  <2>1. r.cur.tp = 0 => r.cur = NoTask
    BY SettledFacts
  <2> QED
    BY <1>1, <2>1
<1>7. \A x \in Q \cup {C} : x \in r.waiting_queue \cup {r.cur} \cup {k}
  OBVIOUS
<1>8. IdsFresh(Q \cup {C}, u)
  <2>1. \A x, y \in r.waiting_queue \cup {r.cur} \cup {k} : x.id = y.id => x = y
    BY <1>1, <1>2, <1>5, NoTaskFacts DEF Settled, IdsFresh
  <2>2. \A x \in r.waiting_queue \cup {r.cur} \cup {k} : x.id < r.next_timer_id + 1
    BY <1>1, <1>2, <1>5, NoTaskFacts DEF Settled, IdsFresh
  <2> HIDE DEF Q, C
  <2> QED
    BY <1>3, <1>7, <2>1, <2>2 DEF IdsFresh
<1>9. Pending(u) = Pending(r) \cup {k}
  <2>1. k.id # 0 /\ k.id \notin r.cancelled_timer_ids
    <3>1. SUFFICES ASSUME k.id \in r.cancelled_timer_ids PROVE FALSE
      BY <1>1, <1>2
    <3>2. PICK x \in r.waiting_queue : x.id = k.id
      BY <3>1 DEF Settled, Ids
    <3> QED
      BY <1>1, <1>2, <1>5, <3>2, NoTaskFacts
  <2>2. Pending(u) = {x \in (Q \cup {C}) \ {NoTask} :
                        x.id # 0 /\ x.id \notin r.cancelled_timer_ids}
    <3> HIDE DEF Q, C
    <3> QED
      BY <1>3, NoTaskFacts DEF Pending
  <2>3. Pending(r) = {x \in (r.waiting_queue \cup {r.cur}) \ {NoTask} :
                        x.id # 0 /\ x.id \notin r.cancelled_timer_ids}
    BY NoTaskFacts DEF Pending
  <2> HIDE DEF Q, C
  <2> QED
    BY <1>6, <2>1, <2>2, <2>3
<1>10. MapKnows(Pending(u), u)
  <2>1. \A q \in Ops : A[q] = IF q = p THEN k.id ELSE r.active_timer_ids[q]
    BY <1>2
  <2>2. \A x \in Pending(r) : x.op # p /\ x.op \in Ops
                             /\ r.active_timer_ids[x.op] = x.id
    BY SettledFacts, NoTaskFacts DEF Settled, MapKnows
  <2>3. \A q \in Ops : r.active_timer_ids[q] # 0 => \E x \in Pending(r) : x.op = q
    BY DEF Settled, MapKnows
  <2> HIDE DEF A
  <2> QED
    BY <1>1, <1>3, <1>9, <2>1, <2>2, <2>3 DEF MapKnows
<1>11. \A x \in Q : C.tp <= x.tp
  <2>1. r.cur.tp = 0 => Q = {}
    BY SettledFacts DEF Settled
  <2>2. \A x \in r.waiting_queue : x.tp \in Nat /\ r.cur.tp <= x.tp
    BY <1>2, NoTaskFacts DEF Settled
  <2> QED
    BY <1>1, <1>2, <2>1, <2>2
<1>12. C \notin Q /\ C # NoTask
  BY <1>1, <1>2, <1>5, SettledFacts DEF Settled
<1>13. r.cancelled_timer_ids \subseteq Ids(Q)
  BY DEF Settled, Ids
<1>14. L = C.tp
  BY <1>1 DEF Settled
<1> HIDE DEF Q, C, L, A
<1> QED
  BY <1>1, <1>3, <1>4, <1>8, <1>9, <1>10, <1>11, <1>12, <1>13, <1>14
     DEF Settled, A

\* set_timer for an operation that has no timer
LEMMA SetTimerSettles ==
    ASSUME NEW t, Settled(t), NEW p \in Ops, t.active_timer_ids[p] = 0,
           NEW tp \in Nat \ {0}, NEW u \in SetTimer(t, p, tp)
    PROVE  LET k == [op |-> p, tp |-> tp, id |-> t.next_timer_id]
           IN  /\ Settled(u)
               /\ Pending(u) = Pending(t) \cup {k}
               /\ u.next_timer_id = t.next_timer_id + 1
               /\ u.active_timer_ids = [t.active_timer_ids EXCEPT ![p] = k.id]
<1>1. PICK r \in RefreshCurrentTimer(t) :
         u = SetTimerOn(r, [op |-> p, tp |-> tp, id |-> r.next_timer_id])
  BY DEF SetTimer
<1>2. /\ Settled(r) /\ Pending(r) = Pending(t)
      /\ r.next_timer_id = t.next_timer_id
      /\ r.active_timer_ids = t.active_timer_ids
  BY RefreshSettled
<1> QED
  BY <1>1, <1>2, SetTimerOnSettles

\* A new TimerEvent is settled and has no timer (timer.h:123-126).
LEMMA InitSettled == Settled(NewTimerEvent)
<1>1. NewTimerEvent \in TimerState
  <2>1. /\ NoTask \in TimerTask \cup {NoTask} /\ {} \in SUBSET TimerTask
        /\ 1 \in Nat \ {0} /\ [p \in Ops |-> 0] \in [Ops -> Nat]
        /\ {} \in SUBSET (Nat \ {0}) /\ 0 \in Nat
    OBVIOUS
  <2> QED
    BY <2>1, StateTyped, Zenon DEF NewTimerEvent
<1>2. Pending(NewTimerEvent) = {}
  BY NoTaskFacts DEF Pending, NewTimerEvent
<1>3. MapKnows(Pending(NewTimerEvent), NewTimerEvent)
  BY <1>2 DEF MapKnows, NewTimerEvent
<1>4. IdsFresh({NoTask}, NewTimerEvent)
  BY NoTaskFacts DEF IdsFresh, NewTimerEvent
<1> QED
  BY <1>1, <1>3, <1>4, NoTaskFacts DEF Settled, NewTimerEvent

===============================================================================
