----------------------------- MODULE AsyncIOTables -----------------------------
(***************************************************************************)
(* What the steps of the framework do to its two shared data structures,   *)
(* the scheduler's table and the timer, stated for any contents of either. *)
(***************************************************************************)
EXTENDS AsyncIOInv, TLAPS

TP == INSTANCE TimerTasksProofs WITH Ops <- Coros, NoOp <- NoCo

\* what TimerTasks assumes of its constants
LEMMA NoCoFacts == TP!OpsAssumption
BY NamesAssumption DEF TP!OpsAssumption

-------------------------------------------------------------------------------
(* The timer: the lemmas of TimerTasksProofs, about the instance AsyncIO uses *)

\* The timer's states are the same in both instances,
LEMMA SameState ==
    /\ T!TimerState = TP!TimerState
    /\ T!NoTask = TP!NoTask /\ T!TimerTask = TP!TimerTask
    /\ T!NewTimerEvent = TP!NewTimerEvent
    /\ \A t : /\ T!Pending(t) = TP!Pending(t)
              /\ T!Settled(t) <=> TP!Settled(t)
BY DEF T!TimerState, TP!TimerState, T!TimerTask, TP!TimerTask, T!NoTask, TP!NoTask,
       T!Settled, TP!Settled, T!Pending, TP!Pending, T!IdsFresh, TP!IdsFresh,
       T!MapKnows, TP!MapKnows, T!Ids, TP!Ids, T!NewTimerEvent, TP!NewTimerEvent

\* and so are its operators.
LEMMA SameOperators ==
    \A t : /\ T!RefreshCurrentTimer(t) = TP!RefreshCurrentTimer(t)
           /\ T!Advance(t) = TP!Advance(t)
           /\ T!Consume(t) = TP!Consume(t)
           /\ \A p : T!Cancel(t, p) = TP!Cancel(t, p)
           /\ \A p, tp : T!SetTimer(t, p, tp) = TP!SetTimer(t, p, tp)
BY DEF T!SetTimer, TP!SetTimer, T!SetTimerOn, TP!SetTimerOn,
       T!RefreshCurrentTimer, TP!RefreshCurrentTimer, T!Advance, TP!Advance,
       T!ActivateNextTimer, TP!ActivateNextTimer, T!LiveTasks, TP!LiveTasks,
       T!PopAll, TP!PopAll, T!PopUntil, TP!PopUntil, T!Dead, TP!Dead,
       T!Earliest, TP!Earliest, T!Ids, TP!Ids, T!ForgetActive, TP!ForgetActive,
       T!NoTask, TP!NoTask, T!Cancel, TP!Cancel, T!Consume, TP!Consume

\* A new TimerEvent has no timer.
LEMMA NewTimerSettled ==
    /\ T!Settled(T!NewTimerEvent)
    /\ T!NewTimerEvent.cur = T!NoTask
    /\ T!NewTimerEvent.active_timer_ids = [c \in Coros |-> 0]
BY SameState, TP!InitSettled, NoCoFacts DEF T!NewTimerEvent

\* A settled timer in terms of its current task and its pending tasks
LEMMA TimerFacts ==
    ASSUME NEW t, T!Settled(t)
    PROVE  /\ t \in T!TimerState
           /\ t.active_timer_ids \in [Coros -> Nat]
           /\ t.cur.op \in Coros \cup {NoCo}
           /\ t.cur.tp = 0 <=> t.cur.op = NoCo
           /\ t.cur.op = NoCo <=> t.cur = T!NoTask
           /\ t.cur.op = NoCo => T!Pending(t) = {}
           /\ t.cur.op # NoCo => t.cur \in T!Pending(t)
           /\ t.alarm = t.cur.tp /\ t.alarm \in Nat
           /\ \A x \in T!Pending(t) : /\ x.op \in Coros /\ x.tp \in Nat /\ x.tp # 0
                                      /\ t.active_timer_ids[x.op] # 0
           /\ \A p \in Coros : t.active_timer_ids[p] # 0 => \E x \in T!Pending(t) : x.op = p
<1>1. TP!Settled(t)
  BY SameState
<1>2. /\ t.cur # TP!NoTask => t.cur \in TP!TimerTask /\ t.cur \in TP!Pending(t)
      /\ t.cur = TP!NoTask => TP!Pending(t) = {}
      /\ TP!Pending(t) \subseteq TP!TimerTask
  BY <1>1, TP!SettledFacts, NoCoFacts
<1>3. /\ TP!NoTask.op = NoCo /\ TP!NoTask.tp = 0
      /\ \A x \in TP!TimerTask : /\ x.op \in Coros /\ x.tp \in Nat /\ x.tp # 0
                                 /\ x.id # 0 /\ x # TP!NoTask
  BY TP!NoTaskFacts, NoCoFacts
<1>4. /\ t \in TP!TimerState /\ t.active_timer_ids \in [Coros -> Nat]
      /\ t.alarm = t.cur.tp /\ t.alarm \in Nat
  BY <1>1 DEF TP!Settled, TP!TimerState
<1>5. /\ \A x \in TP!Pending(t) : t.active_timer_ids[x.op] = x.id
      /\ \A p \in Coros : t.active_timer_ids[p] # 0 => \E x \in TP!Pending(t) : x.op = p
  BY <1>1 DEF TP!Settled, TP!MapKnows
<1> QED
  BY <1>2, <1>3, <1>4, <1>5, NamesAssumption, SameState

\* refresh_current_timer on a settled timer has nothing to do.
LEMMA RefreshIdle ==
    ASSUME NEW t, T!Settled(t)
    PROVE  T!RefreshCurrentTimer(t) = {t}
BY SameState, SameOperators, TP!RefreshIsIdle, NoCoFacts

\* u is t with one more timer, of c and for the time tp
TimerAdded(t, u, c, tp) ==
    /\ T!Settled(u)
    /\ \E k : /\ k.op = c /\ k.tp = tp /\ k.id \in Nat \ {0}
             /\ T!Pending(u) = T!Pending(t) \cup {k}
             /\ u.active_timer_ids = [t.active_timer_ids EXCEPT ![c] = k.id]

\* u is t without the timer of c, if it had one
TimerDropped(t, u, c) ==
    /\ T!Settled(u)
    /\ T!Pending(u) = {x \in T!Pending(t) : x.op # c}
    /\ u.active_timer_ids = [t.active_timer_ids EXCEPT ![c] = 0]

\* set_timer for a coroutine without a timer
LEMMA TimerStarts ==
    ASSUME NEW t, T!Settled(t), NEW c \in Coros, t.active_timer_ids[c] = 0,
           NEW tp \in Nat \ {0}, NEW u \in T!SetTimer(t, c, tp)
    PROVE  TimerAdded(t, u, c, tp)
<1>1. TP!Settled(t) /\ u \in TP!SetTimer(t, c, tp)
  BY SameState, SameOperators
<1>2. t.next_timer_id \in Nat \ {0}
  BY <1>1 DEF TP!Settled, TP!TimerState
<1> DEFINE k == [op |-> c, tp |-> tp, id |-> t.next_timer_id]
<1>3. /\ TP!Settled(u)
      /\ TP!Pending(u) = TP!Pending(t) \cup {k}
      /\ u.active_timer_ids = [t.active_timer_ids EXCEPT ![c] = k.id]
  BY <1>1, TP!SetTimerSettles, NoCoFacts
<1>4. k.op = c /\ k.tp = tp /\ k.id \in Nat \ {0}
  BY <1>2
<1> HIDE DEF k
<1> QED
  BY <1>3, <1>4, SameState DEF TimerAdded

\* The refresh_timer_registration that follows finds nothing to do.
LEMMA StaysAdded ==
    ASSUME NEW t, NEW v, NEW c, NEW tp, TimerAdded(t, v, c, tp),
           NEW u \in T!RefreshCurrentTimer(v)
    PROVE  TimerAdded(t, u, c, tp)
<1>1. T!Settled(v)
  BY DEF TimerAdded
<1>2. T!Settled(u) /\ T!Pending(u) = T!Pending(v) /\ u.active_timer_ids = v.active_timer_ids
  BY <1>1, RefreshIdle
<1> QED
  BY <1>2 DEF TimerAdded

\* operator++ after the current timer was consumed (wait_for)
LEMMA TimerWaited ==
    ASSUME NEW t, T!Settled(t), t.cur.op # NoCo,
           NEW v \in T!Advance(T!Consume(t)), NEW u \in T!RefreshCurrentTimer(v)
    PROVE  TimerDropped(t, u, t.cur.op)
<1>1. TP!Settled(t) /\ v \in TP!Advance(TP!Consume(t))
  BY SameState, SameOperators
<1>2. t.cur # TP!NoTask
  BY TimerFacts, SameState
<1>3. /\ TP!Settled(v)
      /\ TP!Pending(v) = {x \in TP!Pending(t) : x.op # t.cur.op}
      /\ v.active_timer_ids = [t.active_timer_ids EXCEPT ![t.cur.op] = 0]
  BY <1>1, <1>2, TP!AdvanceSettles, NoCoFacts
<1> QED
  BY <1>3, RefreshIdle, SameState DEF TimerDropped

\* What the awaiters with a timeout leave behind, whichever way they end: timed out,
\* consumed first; or not, and then perhaps without having started a timer.
LEMMA TimerGivenUp ==
    ASSUME NEW t, T!Settled(t), NEW c \in Coros,
           NEW v, \/ v = T!Cancel(t, c)
                  \/ v = T!Cancel(T!Consume(t), c) /\ t.cur.op = c,
           NEW u \in T!RefreshCurrentTimer(v)
    PROVE  TimerDropped(t, u, c)
<1>1. TP!Settled(t) /\ u \in TP!RefreshCurrentTimer(v) /\ t.active_timer_ids \in [Coros -> Nat]
  BY SameState, SameOperators, TimerFacts
<1>2. CASE t.cur.op = c
  <2>1. t.cur # TP!NoTask
    BY <1>2, TimerFacts, SameState, NamesAssumption
  <2>2. PICK a \in Nat : v = TP!Cancel([t EXCEPT !.alarm = a], c)
    <3>1. t = [t EXCEPT !.alarm = t.alarm] /\ t.alarm \in Nat
      BY <1>1 DEF TP!Settled, TP!TimerState
    <3>2. TP!Consume(t) = [t EXCEPT !.alarm = 0]
      BY DEF TP!Consume
    <3> QED
      BY <3>1, <3>2, SameOperators
  <2>3. u \in TP!RefreshCurrentTimer(TP!Cancel([t EXCEPT !.alarm = a], t.cur.op))
    BY <1>1, <1>2, <2>2
  <2>4. /\ TP!Settled(u)
        /\ TP!Pending(u) = {x \in TP!Pending(t) : x.op # t.cur.op}
        /\ u.active_timer_ids = [t.active_timer_ids EXCEPT ![t.cur.op] = 0]
    BY <1>1, <2>1, <2>3, TP!CancelCurrentSettles, NoCoFacts
  <2> QED
    BY <1>2, <2>4, SameState DEF TimerDropped
<1>3. CASE t.cur.op # c /\ t.active_timer_ids[c] # 0
  <2>1. u \in TP!RefreshCurrentTimer(TP!Cancel(t, c))
    BY <1>1, <1>3, SameOperators
  <2>2. /\ TP!Settled(u)
        /\ TP!Pending(u) = {x \in TP!Pending(t) : x.op # c}
        /\ u.active_timer_ids = [t.active_timer_ids EXCEPT ![c] = 0]
    BY <1>1, <1>3, <2>1, TP!CancelQueuedSettles, NoCoFacts
  <2> QED
    BY <2>2, SameState DEF TimerDropped
<1>4. CASE t.cur.op # c /\ t.active_timer_ids[c] = 0
  <2>1. v = t
    BY <1>4 DEF T!Cancel
  <2>2. \A x \in T!Pending(t) : x.op # c
    BY <1>4, TimerFacts
  <2>3. [t.active_timer_ids EXCEPT ![c] = 0] = t.active_timer_ids
    BY <1>1, <1>4
  <2> QED
    BY <2>1, <2>2, <2>3, RefreshIdle DEF TimerDropped
<1> QED
  BY <1>2, <1>3, <1>4

-------------------------------------------------------------------------------
(* The table *)

Table == [Fds -> I!FdState]

\* submit_event_impl for reading fills the read slot of fd, and nothing else.
LEMMA SubmitsRead ==
    ASSUME NEW table \in Table, NEW fd \in Fds, Slots(table, fd), NEW c \in Coros,
           NEW u, u = I!Submit(table, fd, c, I!EVENT_READ)
    PROVE  /\ u \in Table /\ Slots(u, fd)
           /\ u[fd].read = c /\ u[fd].write = table[fd].write
           /\ \A g \in Fds \ {fd} : u[g] = table[g]
<1> DEFINE e == [events |-> table[fd].events \cup {"IN"}, read |-> c, write |-> table[fd].write]
<1>1. e \in I!FdState
  BY DEF I!FdState, Table
<1>2. u = [table EXCEPT ![fd] = e]
  BY DEF I!Submit, I!EVENT_READ
<1>3. u[fd] = e /\ u \in Table /\ \A g \in Fds \ {fd} : u[g] = table[g]
  <2> HIDE DEF e
  <2> QED
    BY <1>1, <1>2 DEF Table
<1> QED
  BY <1>3, NamesAssumption DEF Slots

\* ... and for writing the write slot
LEMMA SubmitsWrite ==
    ASSUME NEW table \in Table, NEW fd \in Fds, Slots(table, fd), NEW c \in Coros,
           NEW u, u = I!Submit(table, fd, c, I!EVENT_WRITE)
    PROVE  /\ u \in Table /\ Slots(u, fd)
           /\ u[fd].write = c /\ u[fd].read = table[fd].read
           /\ \A g \in Fds \ {fd} : u[g] = table[g]
<1> DEFINE e == [events |-> table[fd].events \cup {"OUT"}, read |-> table[fd].read, write |-> c]
<1>1. e \in I!FdState
  BY DEF I!FdState, Table
<1>2. u = [table EXCEPT ![fd] = e]
  BY DEF I!Submit, I!EVENT_WRITE
<1>3. u[fd] = e /\ u \in Table /\ \A g \in Fds \ {fd} : u[g] = table[g]
  <2> HIDE DEF e
  <2> QED
    BY <1>1, <1>2 DEF Table
<1> QED
  BY <1>3, NamesAssumption DEF Slots

\* remove_op_impl for reading empties the read slot of fd, and nothing else.
LEMMA RemovesRead ==
    ASSUME NEW table \in Table, NEW fd \in Fds, Slots(table, fd), fd # TimerFd,
           NEW u, u = I!Remove(table, fd, I!EVENT_READ)
    PROVE  /\ u \in Table /\ Slots(u, fd)
           /\ u[fd].read = NoCo /\ u[fd].write = table[fd].write
           /\ \A g \in Fds \ {fd} : u[g] = table[g]
<1> DEFINE rest == table[fd].events \ {"IN"}
           e == IF rest = {} THEN I!NoEntry
                ELSE [events |-> rest, read |-> NoCo, write |-> table[fd].write]
<1>1. table[fd] \in I!FdState
  BY DEF Table
<1>2. e \in I!FdState /\ e.read = NoCo /\ e.events = rest
  BY <1>1 DEF I!FdState, I!NoEntry
<1>3. e.write = table[fd].write
  BY <1>1 DEF I!FdState, I!NoEntry, Slots
<1>4. u = [table EXCEPT ![fd] = e]
  BY DEF I!Remove, I!EVENT_READ
<1>5. u[fd] = e /\ u \in Table /\ \A g \in Fds \ {fd} : u[g] = table[g]
  <2> HIDE DEF e
  <2> QED
    BY <1>2, <1>4 DEF Table
<1> HIDE DEF e
<1> QED
  BY <1>2, <1>3, <1>5 DEF Slots

\* ... and for writing the write slot
LEMMA RemovesWrite ==
    ASSUME NEW table \in Table, NEW fd \in Fds, Slots(table, fd), fd # TimerFd,
           NEW u, u = I!Remove(table, fd, I!EVENT_WRITE)
    PROVE  /\ u \in Table /\ Slots(u, fd)
           /\ u[fd].write = NoCo /\ u[fd].read = table[fd].read
           /\ \A g \in Fds \ {fd} : u[g] = table[g]
<1> DEFINE rest == table[fd].events \ {"OUT"}
           e == IF rest = {} THEN I!NoEntry
                ELSE [events |-> rest, read |-> table[fd].read, write |-> NoCo]
<1>1. table[fd] \in I!FdState
  BY DEF Table
<1>2. e \in I!FdState /\ e.write = NoCo /\ e.events = rest
  BY <1>1 DEF I!FdState, I!NoEntry
<1>3. e.read = table[fd].read
  BY <1>1 DEF I!FdState, I!NoEntry, Slots
<1>4. u = [table EXCEPT ![fd] = e]
  BY DEF I!Remove, I!EVENT_WRITE
<1>5. u[fd] = e /\ u \in Table /\ \A g \in Fds \ {fd} : u[g] = table[g]
  <2> HIDE DEF e
  <2> QED
    BY <1>2, <1>4 DEF Table
<1> HIDE DEF e
<1> QED
  BY <1>2, <1>3, <1>5 DEF Slots

\* What a table looks like whose timer entry serves timer t
ServesTimer(table, t) == /\ Slots(table, TimerFd)
                         /\ table[TimerFd].read = t.cur.op
                         /\ table[TimerFd].write = NoCo

\* submit_timer and remove_timer: the entry of the timerfd follows the timer, and
\* the others stay.
LEMMA TimerFollowed ==
    ASSUME NEW table \in Table, Slots(table, TimerFd), table[TimerFd].write = NoCo,
           NEW t, T!Settled(t),
           NEW u, \/ u = I!Submit(table, TimerFd, t.cur.op, I!EVENT_TIMER) /\ t.cur.op # NoCo
                  \/ u = I!Remove(table, TimerFd, I!EVENT_TIMER) /\ t.cur.op = NoCo
    PROVE  /\ u \in Table /\ ServesTimer(u, t)
           /\ \A g \in Fds \ {TimerFd} : u[g] = table[g]
<1>1. TimerFd \in Fds /\ table[TimerFd] \in I!FdState /\ t.cur.op \in Coros \cup {NoCo}
  BY TimerFacts DEF Fds, Table
<1>2. "OUT" \notin table[TimerFd].events
  BY DEF Slots
<1>3. CASE t.cur.op # NoCo
  <2> DEFINE e == [events |-> table[TimerFd].events \cup {"IN", "ET"},
                   read |-> t.cur.op, write |-> table[TimerFd].write]
  <2>1. e \in I!FdState
    BY <1>1 DEF I!FdState
  <2>2. u = [table EXCEPT ![TimerFd] = e]
    BY <1>3 DEF I!Submit, I!EVENT_TIMER
  <2>3. u[TimerFd] = e /\ u \in Table /\ \A g \in Fds \ {TimerFd} : u[g] = table[g]
    <3> HIDE DEF e
    <3> QED
      BY <1>1, <2>1, <2>2 DEF Table
  <2> QED
    BY <1>2, <1>3, <2>3 DEF Slots, ServesTimer
<1>4. CASE t.cur.op = NoCo
  <2>1. table[TimerFd].events \ {"IN", "ET"} = {}
    BY <1>1, <1>2 DEF I!FdState
  <2>2. u = [table EXCEPT ![TimerFd] = I!NoEntry]
    BY <1>4, <2>1 DEF I!Remove, I!EVENT_TIMER
  <2>3. I!NoEntry \in I!FdState
    BY DEF I!NoEntry, I!FdState
  <2>4. /\ u[TimerFd] = I!NoEntry /\ u \in Table
        /\ \A g \in Fds \ {TimerFd} : u[g] = table[g]
    BY <1>1, <2>2, <2>3 DEF Table
  <2> QED
    BY <1>4, <2>4 DEF Slots, ServesTimer, I!NoEntry
<1> QED
  BY <1>3, <1>4

===============================================================================
