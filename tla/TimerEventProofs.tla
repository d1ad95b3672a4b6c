--------------------------- MODULE TimerEventProofs ---------------------------
(***************************************************************************)
(* The timer component for any number of operations, any delays and any    *)
(* bounds: its inductive invariant, the safety properties that follow from *)
(* it, and the refinement of TimerService.                                 *)
(***************************************************************************)
EXTENDS TimerEvent, TimerTasksProofs

\* Starting a timer, for a wait and for a timeout, files one task for p: the
\* further refresh_timer_registration of the timeout awaiters is idle.
LEMMA StartFiles ==
    ASSUME IInv, NEW p \in Ops, NEW d \in Delays,
           StartWait(p, d) \/ StartTimeout(p, d)
    PROVE  LET k == [op |-> p, tp |-> now + d, id |-> tm.next_timer_id]
           IN  /\ Settled(tm')
               /\ registered' = tm'.cur.op
               /\ Pending(tm') = Pending(tm) \cup {k}
               /\ tm'.active_timer_ids = [tm.active_timer_ids EXCEPT ![p] = k.id]
<1>1. Settled(tm) /\ tm.active_timer_ids[p] = 0
  BY DEF IInv, StartWait, StartTimeout
<1>2. now + d \in Nat \ {0}
  BY BoundsAssumption DEF IInv, TypeOK
<1>3. PICK t \in SetTimer(tm, p, now + d) :
         \/ tm' = t /\ registered' = t.cur.op
         \/ \E u \in RefreshCurrentTimer(t) : tm' = u /\ registered' = u.cur.op
  BY DEF StartWait, StartTimeout, RefreshTimerRegistration
<1> QED
  BY <1>1, <1>2, <1>3, SetTimerSettles, RefreshSettled

\* Ending the await of p, by any of the three awaiters' await_resume, takes p's
\* task away and leaves the others.
LEMMA ResumeEnds ==
    ASSUME IInv, NEW p \in Ops, Resume(p)
    PROVE  /\ Settled(tm')
           /\ registered' = tm'.cur.op
           /\ Pending(tm') = {x \in Pending(tm) : x.op # p}
           /\ tm'.active_timer_ids = [tm.active_timer_ids EXCEPT ![p] = 0]
<1>1. /\ Settled(tm) /\ tm.active_timer_ids[p] # 0 /\ p # NoOp
      /\ resuming = p /\ awaiting[p] # "no"
  BY OpsAssumption DEF IInv, Resume, FinishWait, TimeOut, Withdraw
<1>2. CASE FinishWait(p)
  <2>1. tm.cur.op = p /\ tm.cur # NoTask
    BY <1>1, <1>2, NoTaskFacts DEF IInv, FinishWait
  <2>2. PICK t \in Advance(Consume(tm)) :
           \E u \in RefreshCurrentTimer(t) : tm' = u /\ registered' = u.cur.op
    BY <1>2 DEF FinishWait, RefreshTimerRegistration
  <2> QED
    BY <1>1, <2>1, <2>2, AdvanceSettles, RefreshSettled
<1>3. CASE TimeOut(p)
  <2>1. tm.cur.op = p /\ tm.cur # NoTask
    BY <1>1, <1>3, NoTaskFacts DEF TimeOut, IsCurrent
  <2>2. tm' \in RefreshCurrentTimer(Cancel([tm EXCEPT !.alarm = 0], tm.cur.op))
        /\ registered' = tm'.cur.op
    BY <1>3, <2>1 DEF TimeOut, RefreshTimerRegistration, Consume
  <2> QED
    BY <1>1, <2>1, <2>2, CancelCurrentSettles
<1>4. CASE Withdraw(p)
  <2>1. tm' \in RefreshCurrentTimer(Cancel(tm, p)) /\ registered' = tm'.cur.op
    BY <1>4 DEF Withdraw, RefreshTimerRegistration
  <2>2. CASE tm.cur.op = p
    <3>1. tm = [tm EXCEPT !.alarm = tm.alarm] /\ tm.alarm \in Nat
      BY <1>1 DEF Settled, TimerState
    <3>2. tm.cur # NoTask
      BY <1>1, <2>2, NoTaskFacts
    <3>3. tm' \in RefreshCurrentTimer(Cancel([tm EXCEPT !.alarm = tm.alarm], tm.cur.op))
      BY <2>1, <2>2, <3>1
    <3> QED
      BY <1>1, <2>1, <2>2, <3>1, <3>2, <3>3, CancelCurrentSettles
  <2>3. CASE tm.cur.op # p
    BY <1>1, <2>1, <2>3, CancelQueuedSettles
  <2> QED
    BY <2>2, <2>3
<1> QED
  BY <1>2, <1>3, <1>4 DEF Resume

\* The invariant is inductive.
THEOREM Invariance == Spec => []IInv
<1>1. Init => IInv
  <2> SUFFICES ASSUME Init PROVE IInv
    OBVIOUS
  <2>1. /\ Settled(tm) /\ tm.cur = NoTask /\ tm \in TimerState
        /\ \A p \in Ops : tm.active_timer_ids[p] = 0
    BY InitSettled DEF Init, NewTimerEvent, Settled
  <2>2. now = 1 /\ registered = NoOp /\ resuming = NoOp
    BY DEF Init
  <2>4. event \in BOOLEAN
    BY Zenon DEF Init
  <2>3. awaiting \in [Ops -> Purposes] /\ \A p \in Ops : awaiting[p] = "no"
    BY DEF Init, Purposes
  <2>5. TypeOK
    BY <2>1, <2>2, <2>3, <2>4 DEF TypeOK
  <2> QED
    BY <2>1, <2>2, <2>3, <2>5, NoTaskFacts DEF IInv
<1>2. IInv /\ [Next]_vars => IInv'
  <2> SUFFICES ASSUME IInv, [Next]_vars PROVE IInv'
    OBVIOUS
  <2> USE OpsAssumption
  <2>t. tm.active_timer_ids \in [Ops -> Nat] /\ tm.next_timer_id \in Nat \ {0}
    BY DEF IInv, TypeOK, TimerState
  <2>1. CASE Tick
    BY <2>1 DEF IInv, TypeOK, Tick
  <2>2. CASE Report
    BY <2>2 DEF IInv, TypeOK, Report
  <2>3. CASE Dispatch
    <3>1. registered # NoOp => /\ registered \in Ops
                               /\ tm.active_timer_ids[registered] # 0
      <4>1. tm.cur.op # NoOp => tm.cur # NoTask
        BY NoTaskFacts
      <4> QED
        BY <4>1, SettledFacts, NoTaskFacts DEF IInv
    <3> QED
      BY <2>3, <3>1 DEF IInv, TypeOK, Dispatch
  <2>4. ASSUME NEW p \in Ops, Wake(p) PROVE IInv'
    BY <2>4 DEF IInv, TypeOK, Wake
  <2>5. ASSUME NEW p \in Ops, NEW d \in Delays, StartWait(p, d) \/ StartTimeout(p, d)
        PROVE  IInv'
    <3>1. /\ Settled(tm') /\ registered' = tm'.cur.op
          /\ tm'.active_timer_ids
                = [tm.active_timer_ids EXCEPT ![p] = tm.next_timer_id]
      BY <2>5, StartFiles
    <3>2. /\ awaiting' \in [Ops -> Purposes]
          /\ \A q \in Ops : (awaiting'[q] # "no") <=> (q = p \/ awaiting[q] # "no")
          /\ UNCHANGED <<now, event, resuming>> /\ resuming = NoOp
      BY <2>5 DEF IInv, TypeOK, StartWait, StartTimeout, Purposes
    <3>3. tm' \in TimerState /\ registered' \in Ops \cup {NoOp}
      BY <3>1, NoTaskFacts DEF Settled, TimerState
    <3> QED
      BY <2>t, <3>1, <3>2, <3>3 DEF IInv, TypeOK
  <2>6. ASSUME NEW p \in Ops, Resume(p) PROVE IInv'
    <3>1. /\ Settled(tm') /\ registered' = tm'.cur.op
          /\ tm'.active_timer_ids = [tm.active_timer_ids EXCEPT ![p] = 0]
      BY <2>6, ResumeEnds
    <3>2. /\ awaiting' \in [Ops -> Purposes]
          /\ \A q \in Ops : (awaiting'[q] # "no") <=> (q # p /\ awaiting[q] # "no")
          /\ UNCHANGED <<now, event>> /\ resuming' = NoOp
      BY <2>6 DEF IInv, TypeOK, Resume, FinishWait, TimeOut, Withdraw, Purposes
    <3>3. tm' \in TimerState /\ registered' \in Ops \cup {NoOp}
      BY <3>1, NoTaskFacts DEF Settled, TimerState
    <3> QED
      BY <2>t, <3>1, <3>2, <3>3 DEF IInv, TypeOK
  <2>7. CASE UNCHANGED vars
    BY <2>7 DEF IInv, TypeOK, vars
  <2> QED
    BY <2>1, <2>2, <2>3, <2>4, <2>5, <2>6, <2>7 DEF Next
<1> QED
  BY <1>1, <1>2, PTL DEF Spec

\* Types (TimerEvent's fields, the scheduler's slot, who is suspended for what).
THEOREM TypeCorrect == Spec => []TypeOK
<1>1. IInv => TypeOK
  BY DEF IInv
<1> QED
  BY <1>1, Invariance, PTL

\* No set_timer, cancel, operator++ or refresh_current_timer ever loses or
\* doubles a pending timer.
THEOREM NothingLost == Spec => []NoTimerLost
<1>1. IInv => NoTimerLost
  <2> SUFFICES ASSUME IInv PROVE NoTimerLost
    OBVIOUS
  <2>1. \A p \in Ops : (awaiting[p] # "no") <=> (\E x \in Pending(tm) : x.op = p)
    <3>1. \A x \in Pending(tm) : x.id # 0
      BY DEF Pending
    <3> QED
      BY <3>1 DEF IInv, Settled, MapKnows
  <2>2. \A x, y \in Pending(tm) : x.op = y.op => x = y
    <3>1. \A x, y \in Pending(tm) : x.op = y.op => x.id = y.id
      BY DEF IInv, Settled, MapKnows
    <3> QED
      BY <3>1 DEF IInv, Settled, IdsFresh, Pending
  <2>3. CurrentEmpty(tm) => tm.waiting_queue = {}
    BY SettledFacts DEF CurrentEmpty, IInv, Settled
  <2> QED
    BY <2>1, <2>2, <2>3 DEF NoTimerLost
<1> QED
  BY <1>1, Invariance, PTL

\* The slot of the timerfd and the timerfd itself always serve the earliest
\* pending timer.
THEOREM EarliestArmed == Spec => []EarliestIsArmed
<1>1. IInv => EarliestIsArmed
  <2> SUFFICES ASSUME IInv PROVE EarliestIsArmed
    OBVIOUS
  <2>1. tm.cur.tp \in Nat
    BY NoTaskFacts DEF IInv, Settled, TimerState
  <2>2. \A x \in Pending(tm) : tm.cur.tp <= x.tp
    BY <2>1 DEF IInv, Settled, Pending
  <2> QED
    BY <2>2 DEF EarliestIsArmed, IInv, Settled
<1> QED
  BY <1>1, Invariance, PTL

\* Tombstones and map entries never outlive the task they belong to.
THEOREM TombstonesCovered == Spec => []TombstonesCoverQueue
<1>1. IInv => TombstonesCoverQueue
  BY DEF IInv, Settled, MapKnows, TombstonesCoverQueue
<1> QED
  BY <1>1, Invariance, PTL

\* With one pending task per operation, its time_point is the due time.
LEMMA DueTimeIs ==
    ASSUME NEW t, Settled(t), NEW x \in Pending(t)
    PROVE  DueTime(t, x.op) = x.tp
<1>1. \A y \in Pending(t) : y.op = x.op => y = x
  <2>1. \A y \in Pending(t) : y.op = x.op => y.id = x.id
    BY DEF Settled, MapKnows
  <2> QED
    BY <2>1 DEF Settled, IdsFresh, Pending
<1>2. {y.tp : y \in {z \in Pending(t) : z.op = x.op}} = {x.tp}
  BY <1>1
<1> QED
  BY <1>2 DEF DueTime

\* An operation whose pending tasks are the same in two states is due at the
\* same time in both.
LEMMA DueTimeSame ==
    ASSUME NEW t, NEW u, NEW q,
           {x \in Pending(t) : x.op = q} = {x \in Pending(u) : x.op = q}
    PROVE  DueTime(t, q) = DueTime(u, q)
BY DEF DueTime

\* Whoever is told that time is up is due, and nobody is due before.
LEMMA ExpiresInOrder ==
    ASSUME IInv, NEW p \in Ops, TimeOut(p) \/ FinishWait(p)
    PROVE  /\ DueTime(tm, p) <= now
           /\ \A q \in Ops : awaiting[q] # "no" => DueTime(tm, p) <= DueTime(tm, q)
<1>1. /\ Settled(tm) /\ now \in Nat
      /\ tm.cur.op = p /\ tm.cur # NoTask
      /\ tm.alarm = tm.cur.tp /\ tm.alarm \in Nat
  BY OpsAssumption, NoTaskFacts
     DEF IInv, TypeOK, Settled, TimerState, TimeOut, FinishWait, IsCurrent
<1>2. tm.cur \in Pending(tm)
  BY <1>1, SettledFacts
<1>3. DueTime(tm, p) = tm.cur.tp
  BY <1>1, <1>2, DueTimeIs
<1>4. tm.alarm <= now
  BY <1>1 DEF TimeOut, FinishWait, GetTimer, TimerFdReadable
<1>5. ASSUME NEW q \in Ops, awaiting[q] # "no"
      PROVE  tm.cur.tp <= DueTime(tm, q)
  <2>1. PICK x \in Pending(tm) : x.op = q
    BY <1>1, <1>5 DEF IInv, Settled, MapKnows
  <2>2. DueTime(tm, q) = x.tp
    BY <1>1, <2>1, DueTimeIs
  <2> QED
    BY <1>1, <2>1, <2>2 DEF Settled, Pending
<1> QED
  BY <1>1, <1>3, <1>4, <1>5

\* "timed out" is never reported, and wait_for never returns, before its time.
THEOREM NotEarly == Spec => NeverEarly
<1>1. IInv /\ [Next]_vars
        => [\A p \in Ops : TimeOut(p) \/ FinishWait(p) => DueTime(tm, p) <= now]_vars
  BY ExpiresInOrder
<1> QED
  BY <1>1, Invariance, PTL DEF Spec, NeverEarly

\* The deadline an operation has in TimerService
Deadline(p) == IF awaiting[p] = "no" THEN 0 ELSE DueTime(tm, p)

\* Starting a timer changes p's deadline alone.
LEMMA StartDeadlines ==
    ASSUME IInv, NEW p \in Ops, NEW d \in Delays,
           StartWait(p, d) \/ StartTimeout(p, d)
    PROVE  /\ Deadline(p)' = now + d
           /\ \A q \in Ops \ {p} : Deadline(q)' = Deadline(q)
<1> DEFINE k == [op |-> p, tp |-> now + d, id |-> tm.next_timer_id]
<1>1. Settled(tm') /\ Pending(tm') = Pending(tm) \cup {k} /\ k.op = p /\ k.tp = now + d
  BY StartFiles
<1>2. \A q \in Ops : awaiting'[q] = IF q = p THEN awaiting'[p] ELSE awaiting[q]
  BY DEF IInv, TypeOK, StartWait, StartTimeout
<1>3. awaiting'[p] # "no"
  BY DEF IInv, TypeOK, StartWait, StartTimeout
<1> HIDE DEF k
<1>4. DueTime(tm', p) = now + d
  BY <1>1, DueTimeIs
<1>5. ASSUME NEW q \in Ops \ {p} PROVE DueTime(tm', q) = DueTime(tm, q)
  <2>1. {x \in Pending(tm) : x.op = q} = {x \in Pending(tm') : x.op = q}
    BY <1>1
  <2> QED
    BY <2>1, DueTimeSame
<1> QED
  BY <1>2, <1>3, <1>4, <1>5 DEF Deadline

\* Ending p's await clears p's deadline alone.
LEMMA ResumeDeadlines ==
    ASSUME IInv, NEW p \in Ops, Resume(p)
    PROVE  /\ Deadline(p)' = 0
           /\ \A q \in Ops \ {p} : Deadline(q)' = Deadline(q)
<1>1. Pending(tm') = {x \in Pending(tm) : x.op # p}
  BY ResumeEnds
<1>2. \A q \in Ops : awaiting'[q] = IF q = p THEN "no" ELSE awaiting[q]
  BY DEF IInv, TypeOK, Resume, FinishWait, TimeOut, Withdraw
<1>3. ASSUME NEW q \in Ops \ {p} PROVE DueTime(tm', q) = DueTime(tm, q)
  <2>1. {x \in Pending(tm) : x.op = q} = {x \in Pending(tm') : x.op = q}
    BY <1>1
  <2> QED
    BY <2>1, DueTimeSame
<1> QED
  BY <1>2, <1>3 DEF Deadline

\* The component implements TimerService: every start, expiry and withdrawal is
\* one of the service's, in deadline order, and all bookkeeping is invisible.
THEOREM Refinement == Spec => ServiceSpec
<1>1. Init => Service!Init
  BY DEF Init, Service!Init
<1>2. IInv /\ [Next]_vars => [Service!Next]_(Service!vars)
  <2> SUFFICES ASSUME IInv, [Next]_vars PROVE [Service!Next]_(Service!vars)
    OBVIOUS
  <2> DEFINE deadline == [p \in Ops |-> IF awaiting[p] = "no"
                                        THEN 0 ELSE DueTime(tm, p)]
  <2>d. /\ deadline = [p \in Ops |-> Deadline(p)]
        /\ deadline' = [p \in Ops |-> Deadline(p)']
    BY DEF Deadline
  <2>1. CASE Tick
    BY <2>1 DEF Tick, Service!Next, Service!Tick
  <2>2. CASE Report \/ Dispatch \/ (\E p \in Ops : Wake(p)) \/ UNCHANGED vars
    BY <2>2 DEF Report, Dispatch, Wake, vars, Service!vars
  <2>3. ASSUME NEW p \in Ops, NEW d \in Delays, StartWait(p, d) \/ StartTimeout(p, d)
        PROVE  Service!Next
    <3>1. deadline' = [deadline EXCEPT ![p] = now + d]
      <4>1. /\ Deadline(p)' = now + d
            /\ \A q \in Ops \ {p} : Deadline(q)' = Deadline(q)
        BY <2>3, StartDeadlines
      <4> HIDE DEF deadline
      <4> QED
        BY <2>d, <4>1
    <3>2. PICK why \in {"wait", "timeout"} :
             awaiting' = [awaiting EXCEPT ![p] = why]
      BY <2>3 DEF StartWait, StartTimeout
    <3>3. awaiting[p] = "no" /\ now' = now
      BY <2>3 DEF StartWait, StartTimeout
    <3>4. Service!Start(p, why, d)
      BY <3>1, <3>2, <3>3 DEF Service!Start, Service!Running
    <3> QED
      BY <3>4 DEF Service!Next
  <2>4. ASSUME NEW p \in Ops, Resume(p) PROVE Service!Next
    <3>1. deadline' = [deadline EXCEPT ![p] = 0]
      <4>1. /\ Deadline(p)' = 0
            /\ \A q \in Ops \ {p} : Deadline(q)' = Deadline(q)
        BY <2>4, ResumeDeadlines
      <4> HIDE DEF deadline
      <4> QED
        BY <2>d, <4>1
    <3>2. /\ awaiting' = [awaiting EXCEPT ![p] = "no"] /\ now' = now
          /\ awaiting[p] # "no"
      BY <2>4 DEF Resume, FinishWait, TimeOut, Withdraw
    <3>3. Service!End(p)
      BY <3>1, <3>2 DEF Service!End
    <3>4. CASE TimeOut(p) \/ FinishWait(p)
      <4>1. deadline[p] <= now /\ \A q \in Ops : awaiting[q] # "no" => deadline[p] <= deadline[q]
        BY <3>2, <3>4, ExpiresInOrder
      <4>2. Service!Expire(p)
        BY <3>2, <3>3, <4>1 DEF Service!Expire, Service!Running
      <4> QED
        BY <4>2 DEF Service!Next
    <3>5. CASE Withdraw(p)
      BY <3>3, <3>5 DEF Withdraw, Service!Withdraw, Service!Next
    <3> QED
      BY <2>4, <3>4, <3>5 DEF Resume
  <2> QED
    BY <2>1, <2>2, <2>3, <2>4 DEF Next
<1> QED
  BY <1>1, <1>2, Invariance, PTL DEF Spec, ServiceSpec, Service!Spec

===============================================================================
