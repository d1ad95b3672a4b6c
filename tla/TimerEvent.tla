------------------------------ MODULE TimerEvent ------------------------------
(***************************************************************************)
(* The timer component (timer.h) driven by the awaiters that use it        *)
(* (wait_for.h, async_read.h, async_write.h) on the event loop thread.     *)
(*                                                                         *)
(* One timerfd serves every timer.  Only the current task's read_op is in  *)
(* the scheduler's slot for the timerfd (registered), so whoever removes   *)
(* the current task must put the next one in its place.  Events come in    *)
(* batches: between epoll_wait returning the timerfd (event) and its       *)
(* dispatch, other events of the batch resume other operations.            *)
(***************************************************************************)
EXTENDS TimerTasks

CONSTANTS Delays,     \* delays a timer may be started with
          MaxTime,    \* bound on the clock; 0 for no bound
          MaxTimers   \* bound on the number of timers ever started; 0 for none

ASSUME BoundsAssumption == /\ Delays \subseteq Nat
                           /\ MaxTime \in Nat
                           /\ MaxTimers \in Nat

VARIABLES now,         \* CLOCK_MONOTONIC
          tm,          \* the TimerEvent singleton
          awaiting,    \* awaiting[p]: what the operation at p is suspended for
          registered,  \* the read_op in the scheduler's slot of the timerfd
          event,       \* the batch holds an event of the timerfd
          resuming     \* the operation whose await_resume is running

vars == <<now, tm, awaiting, registered, event, resuming>>

Purposes == {"no", "wait", "timeout"}

TypeOK == /\ now \in Nat \ {0}
          /\ tm \in TimerState
          /\ awaiting \in [Ops -> Purposes]
          /\ registered \in Ops \cup {NoOp}
          /\ event \in BOOLEAN
          /\ resuming \in Ops \cup {NoOp}

Init == /\ now = 1
        /\ tm = NewTimerEvent
        /\ awaiting = [p \in Ops |-> "no"]
        /\ registered = NoOp
        /\ event = FALSE
        /\ resuming = NoOp

-------------------------------------------------------------------------------
(* Plausible slips, each exercised by a mutation run *)

\* hands the timer back without looking for the next one
RefreshTimerRegistration_Stale(t) ==
    \E u \in RefreshCurrentTimer(t) : tm' = u /\ UNCHANGED registered

\* takes the expiration without waiting for it
FinishWait_NonBlocking(p) ==
    /\ resuming = p
    /\ awaiting[p] = "wait"
    /\ \E t \in Advance(Consume(tm)) : tm' = t /\ registered' = t.cur.op
    /\ awaiting' = [awaiting EXCEPT ![p] = "no"]
    /\ resuming' = NoOp
    /\ UNCHANGED <<now, event>>

\* calls any timeout operation that is current timed out
TimeOut_NoRemainingCheck(p) ==
    /\ resuming = p
    /\ awaiting[p] = "timeout"
    /\ IsCurrent(tm, p)
    /\ \E t \in RefreshCurrentTimer(Cancel(Consume(tm), p)) :
          tm' = t /\ registered' = t.cur.op
    /\ awaiting' = [awaiting EXCEPT ![p] = "no"]
    /\ resuming' = NoOp
    /\ UNCHANGED <<now, event>>

-------------------------------------------------------------------------------
\* refresh_timer_registration: submit_timer for the current task, or
\* remove_timer when there is none (NoTask.op is NoOp)
RefreshTimerRegistration(t) ==
    \E u \in RefreshCurrentTimer(t) : tm' = u /\ registered' = u.cur.op

Within(n, bound) == bound = 0 \/ n <= bound

Tick == /\ Within(now + 1, MaxTime)
        /\ now' = now + 1
        /\ UNCHANGED <<tm, awaiting, registered, event, resuming>>

\* epoll_wait returns the timerfd
Report == /\ resuming = NoOp
          /\ registered # NoOp
          /\ ~event
          /\ TimerFdReadable(tm, now)
          /\ event' = TRUE
          /\ UNCHANGED <<now, tm, awaiting, registered, resuming>>

\* the loop reaches the timerfd's event: whoever is in the slot is resumed
Dispatch == /\ resuming = NoOp
            /\ event
            /\ event' = FALSE
            /\ resuming' = registered
            /\ UNCHANGED <<now, tm, awaiting, registered>>

\* the operation's socket or cancel event resumes it
Wake(p) == /\ resuming = NoOp
           /\ awaiting[p] = "timeout"
           /\ resuming' = p
           /\ UNCHANGED <<now, tm, awaiting, registered, event>>

\* timer_awaiter::await_suspend
StartWait(p, d) ==
    /\ resuming = NoOp
    /\ awaiting[p] = "no"
    /\ Within(tm.next_timer_id, MaxTimers) /\ Within(now + d, MaxTime)
    /\ \E t \in SetTimer(tm, p, now + d) : tm' = t /\ registered' = t.cur.op
    /\ awaiting' = [awaiting EXCEPT ![p] = "wait"]
    /\ UNCHANGED <<now, event, resuming>>

\* the timer part of inner_recv_timeout_awaiter::await_suspend
StartTimeout(p, d) ==
    /\ resuming = NoOp
    /\ awaiting[p] = "no"
    /\ Within(tm.next_timer_id, MaxTimers) /\ Within(now + d, MaxTime)
    /\ \E t \in SetTimer(tm, p, now + d) : RefreshTimerRegistration(t)
    /\ awaiting' = [awaiting EXCEPT ![p] = "timeout"]
    /\ UNCHANGED <<now, event, resuming>>

\* timer_awaiter::await_resume: consume blocks the thread until the timerfd
\* expires, whatever it is armed for
FinishWait(p) ==
    /\ resuming = p
    /\ awaiting[p] = "wait"
    /\ TimerFdReadable(tm, now)
    /\ \E t \in Advance(Consume(tm)) : RefreshTimerRegistration(t)
    /\ awaiting' = [awaiting EXCEPT ![p] = "no"]
    /\ resuming' = NoOp
    /\ UNCHANGED <<now, event>>

\* inner_recv_timeout_awaiter::await_resume, timed out
TimeOut(p) ==
    /\ resuming = p
    /\ awaiting[p] = "timeout"
    /\ IsCurrent(tm, p) /\ GetTimer(tm, now) = 0
    /\ RefreshTimerRegistration(Cancel(Consume(tm), p))
    /\ awaiting' = [awaiting EXCEPT ![p] = "no"]
    /\ resuming' = NoOp
    /\ UNCHANGED <<now, event>>

\* inner_recv_timeout_awaiter::await_resume, cancelled (tested before the
\* timeout, so at any time) or completed by the socket
Withdraw(p) ==
    /\ resuming = p
    /\ awaiting[p] = "timeout"
    /\ RefreshTimerRegistration(Cancel(tm, p))
    /\ awaiting' = [awaiting EXCEPT ![p] = "no"]
    /\ resuming' = NoOp
    /\ UNCHANGED <<now, event>>

Resume(p) == FinishWait(p) \/ TimeOut(p) \/ Withdraw(p)

Next == \/ Tick
        \/ Report
        \/ Dispatch
        \/ \E p \in Ops :
              \/ Wake(p)
              \/ \E d \in Delays : StartWait(p, d) \/ StartTimeout(p, d)
              \/ Resume(p)

Spec == Init /\ [][Next]_vars

\* The thread runs on (await_resume returns, a reported event is dispatched,
\* epoll_wait returns a readable timerfd) and time passes.  Starting timers
\* and socket events are left to the environment.
Fairness == /\ WF_vars(Tick)
            /\ WF_vars(Report)
            /\ WF_vars(Dispatch)
            /\ WF_vars(\E p \in Ops : Resume(p))

FairSpec == Spec /\ Fairness

-------------------------------------------------------------------------------
(* Properties *)

\* No timer is lost and none lives on: the suspended operations are exactly
\* those with a pending task, each has one, and queued tasks are never stranded
\* behind an empty current task (activate_next_timer, set_timer, cancel).
NoTimerLost ==
    /\ \A p \in Ops : (awaiting[p] # "no") <=> (\E x \in Pending(tm) : x.op = p)
    /\ \A x, y \in Pending(tm) : x.op = y.op => x = y
    /\ CurrentEmpty(tm) => tm.waiting_queue = {}

\* The one registration serves the earliest pending timer: the slot of the
\* timerfd holds the current task's operation, the timerfd is armed for its
\* time_point, and no pending task is due before it.
EarliestIsArmed ==
    /\ registered = tm.cur.op
    /\ tm.alarm = tm.cur.tp
    /\ \A x \in Pending(tm) : tm.cur.tp <= x.tp

\* Tombstones do not pile up: each one covers a task still in the queue, and
\* the map knows exactly the ids of the pending tasks (the address reuse that
\* timer_event_design_note.md introduces ids for).
TombstonesCoverQueue ==
    /\ tm.cancelled_timer_ids \subseteq Ids(tm.waiting_queue)
    /\ \A p \in Ops : tm.active_timer_ids[p] # 0 =>
          \E x \in Pending(tm) : x.op = p /\ x.id = tm.active_timer_ids[p]

\* The inductive invariant behind the three above and NeverEarly: the class is
\* settled between two calls, its map mirrors the suspended operations, and a
\* wait_for that is being resumed is the current task, so that operator++
\* forgets its timer and nobody else's.
IInv == /\ TypeOK
        /\ Settled(tm)
        /\ \A p \in Ops : (awaiting[p] # "no") <=> (tm.active_timer_ids[p] # 0)
        /\ registered = tm.cur.op
        /\ resuming # NoOp =>
              /\ awaiting[resuming] # "no"
              /\ awaiting[resuming] = "wait" => tm.cur.op = resuming

\* An operation that is told "timed out", and a wait_for that returns, were due.
NeverEarly ==
    [][\A p \in Ops : TimeOut(p) \/ FinishWait(p) => DueTime(tm, p) <= now]_vars

\* Every started timer ends: it expires or its operation gives it up.
EveryTimerEnds == \A p \in Ops : awaiting[p] # "no" ~> awaiting[p] = "no"

\* The timer component keeps the promises of TimerService.
Service == INSTANCE TimerService
              WITH deadline <- [p \in Ops |-> IF awaiting[p] = "no"
                                              THEN 0 ELSE DueTime(tm, p)],
                   purpose <- awaiting
ServiceSpec == Service!Spec
===============================================================================
