----------------------------- MODULE AsyncIOSteps ------------------------------
(***************************************************************************)
(* What the framework's steps do to the table, the timer and the awaited   *)
(* operations, and that each of them keeps the type and Core, for any      *)
(* number of coroutines, sockets and tokens and any programs.              *)
(***************************************************************************)
EXTENDS AsyncIOTables

\* An awaited operation, as the code's menus allow it
LEMMA OperationFacts ==
    ASSUME TypeOK, OpsOK, NEW c \in Coros, Busy(c)
    PROVE  /\ op[c] \in Operation /\ op[c].kind \in Kinds
           /\ op[c].kind = "wait_for" <=> op[c].fd = TimerFd
           /\ op[c].kind # "wait_for" => op[c].fd \in Socks
           /\ op[c].kind = "accept" => op[c].fd \in Listeners
           /\ op[c].kind = "connect" => op[c].fd \in Unused
           /\ op[c].kind \in Reads \cup Writes => op[c].fd \notin Listeners
           /\ op[c].token # NoToken =>
                 /\ op[c].token \in Tokens
                 /\ op[c].kind \in {"read", "read_timeout", "write", "write_timeout"}
           /\ op[c].wrapped => op[c].kind \in {"read_timeout", "write_timeout"}
           /\ op[c].delay \in Nat /\ op[c].size \in Nat /\ op[c].start \in Nat
           /\ op[c].got \in Nat /\ Remain(c) \in Nat
<1>1. op[c] \in Operation
  BY DEF TypeOK, Busy
<1>2. PICK o \in Menu[c] :
         /\ op[c].kind = o.kind /\ op[c].token = o.token
         /\ op[c].size = o.size /\ op[c].start = o.start
         /\ op[c].delay = o.delay /\ op[c].wrapped = o.wrapped
         /\ Names(o, op[c].fd)
  BY DEF OpsOK
<1>3. /\ o \in Await
      /\ o.kind = "wait_for" <=> o.fd = TimerFd
      /\ o.kind \in Reads \cup Writes => o.fd \notin Listeners \cup Unused
      /\ o.kind \notin {"read", "read_timeout", "write", "write_timeout"} => o.token = NoToken
      /\ o.wrapped => o.kind \in {"read_timeout", "write_timeout"}
      /\ o.kind = "accept" => o.fd \in Listeners
      /\ o.kind = "connect" => o.fd = Own
      /\ Listeners \subseteq Socks /\ Unused \subseteq Socks \ Listeners
  BY MenuAssumption
<1>4. op[c].fd \in Socks \cup {TimerFd}
  BY <1>1 DEF Operation
<1>5. op[c].kind = "wait_for" <=> op[c].fd = TimerFd
  BY <1>2, <1>3, NamesAssumption DEF Names
<1>6. /\ op[c].kind = "accept" => op[c].fd \in Listeners
      /\ op[c].kind = "connect" => op[c].fd \in Unused
      /\ op[c].kind \in Reads \cup Writes => op[c].fd \notin Listeners
  BY <1>2, <1>3, NamesAssumption DEF Names
<1>7. Remain(c) \in Nat
  BY <1>1 DEF OpsOK, Operation, Remain
<1> QED
  BY <1>1, <1>2, <1>3, <1>4, <1>5, <1>6, <1>7 DEF Operation

\* the kinds of operations, spelled out
LEMMA KindFacts ==
    /\ Kinds = {"read", "read_timeout", "read_some", "write", "write_timeout",
                "wait_for", "accept", "connect"}
    /\ Ins = {"read", "read_timeout", "read_some", "accept"}
    /\ Outs = {"write", "write_timeout", "connect"}
    /\ Timed = {"read_timeout", "write_timeout", "wait_for"}
    /\ Idle.kind = "none"
BY DEF Kinds, Ins, Outs, Timed, Reads, Writes, Idle

-------------------------------------------------------------------------------
(* await_suspend *)

\* What await_suspend leaves behind when it registers c: c in its slot on its
\* socket, c's timer among the others, and the rest of the table as it was.
Registers(c) ==
    /\ Runs(c, "suspend") /\ Busy(c)
    /\ fd_to_op' \in Table
    /\ \A g \in Fds \ {op[c].fd, TimerFd} : fd_to_op'[g] = fd_to_op[g]
    /\ op[c].fd # TimerFd => Slots(fd_to_op', op[c].fd)
    /\ op[c].kind \in Ins => /\ fd_to_op'[op[c].fd].read = c
                             /\ fd_to_op'[op[c].fd].write = fd_to_op[op[c].fd].write
    /\ op[c].kind \in Outs => /\ fd_to_op'[op[c].fd].write = c
                              /\ fd_to_op'[op[c].fd].read = fd_to_op[op[c].fd].read
    /\ op[c].kind \notin Timed => /\ fd_to_op'[TimerFd] = fd_to_op[TimerFd]
                                  /\ UNCHANGED <<tm, op>>
    /\ op[c].kind \in Timed =>
          /\ TimerAdded(tm, tm', c, now + op[c].delay) /\ ServesTimer(fd_to_op', tm')
          /\ op' = [op EXCEPT ![c].due = now + op[c].delay]
    /\ Suspend(c)
    /\ UNCHANGED <<now, batch, left, result, token>>

\* at the start of await_suspend c has nothing in the table and no timer
LEMMA Unplaced ==
    ASSUME IInv, NEW c \in Coros, Runs(c, "suspend")
    PROVE  Busy(c) /\ tm.active_timer_ids[c] = 0 /\ control.co = c /\ at[c] = "running"
BY DEF IInv, Core, ThreadOK, TimersOK, Placed, Runs

\* await_suspend without a timeout
LEMMA PlainRegisters ==
    ASSUME IInv, NEW c \in Coros,
           \/ RecvSuspend(c) /\ ~Cancelled(c)
           \/ RecvSomeSuspend(c)
           \/ SendSuspend(c) /\ ~Cancelled(c)
    PROVE  Registers(c)
<1>1. /\ Runs(c, "suspend") /\ op[c].kind \in {"read", "read_some", "write"}
      /\ op[c].kind = "write" => fd_to_op' = I!Submit(fd_to_op, op[c].fd, c, I!EVENT_WRITE)
      /\ op[c].kind # "write" => fd_to_op' = I!Submit(fd_to_op, op[c].fd, c, I!EVENT_READ)
      /\ Suspend(c) /\ UNCHANGED <<now, tm, batch, op, left, result, token>>
  BY DEF RecvSuspend, RecvSomeSuspend, SendSuspend, AlreadyCancelled
<1>2. Busy(c)
  BY <1>1, Unplaced
<1>3. /\ op[c].fd \in Socks /\ op[c].fd \in Fds /\ op[c].fd # TimerFd
      /\ op[c].kind \notin Timed
      /\ op[c].kind \in Ins <=> op[c].kind # "write"
      /\ op[c].kind \in Outs <=> op[c].kind = "write"
  BY <1>1, <1>2, OperationFacts, KindFacts, NamesAssumption DEF IInv, Core, Fds
<1>4. fd_to_op \in Table /\ Slots(fd_to_op, op[c].fd)
  BY <1>3 DEF IInv, Core, TypeOK, TableOK, Table
<1>5. TimerFd \in Fds
  BY DEF Fds
<1>6. /\ fd_to_op' \in Table /\ Slots(fd_to_op', op[c].fd)
      /\ \A g \in Fds \ {op[c].fd} : fd_to_op'[g] = fd_to_op[g]
      /\ op[c].kind # "write" => /\ fd_to_op'[op[c].fd].read = c
                                 /\ fd_to_op'[op[c].fd].write = fd_to_op[op[c].fd].write
      /\ op[c].kind = "write" => /\ fd_to_op'[op[c].fd].write = c
                                 /\ fd_to_op'[op[c].fd].read = fd_to_op[op[c].fd].read
  BY <1>1, <1>3, <1>4, SubmitsRead, SubmitsWrite
<1> QED
  BY <1>1, <1>2, <1>3, <1>5, <1>6 DEF Registers

\* await_suspend with a timeout
LEMMA TimedRegisters ==
    ASSUME IInv, NEW c \in Coros,
           \/ RecvTimeoutSuspend(c) /\ ~Cancelled(c)
           \/ SendTimeoutSuspend(c) /\ ~Cancelled(c)
    PROVE  Registers(c)
<1> DEFINE fd == op[c].fd
           mid == IF op[c].kind = "write_timeout"
                  THEN I!Submit(fd_to_op, fd, c, I!EVENT_WRITE)
                  ELSE I!Submit(fd_to_op, fd, c, I!EVENT_READ)
<1>1. /\ Runs(c, "suspend") /\ op[c].kind \in {"read_timeout", "write_timeout"}
      /\ StartTimeout(c, mid)
      /\ UNCHANGED <<now, batch, left, result, token>>
  BY DEF RecvTimeoutSuspend, SendTimeoutSuspend, AlreadyCancelled
<1>2. Busy(c) /\ tm.active_timer_ids[c] = 0
  BY <1>1, Unplaced
<1>3. /\ fd \in Socks /\ fd \in Fds /\ fd # TimerFd
      /\ op[c].kind \in Timed
      /\ op[c].kind \in Ins <=> op[c].kind # "write_timeout"
      /\ op[c].kind \in Outs <=> op[c].kind = "write_timeout"
      /\ op[c].delay \in Nat
  BY <1>1, <1>2, OperationFacts, KindFacts, NamesAssumption DEF IInv, Core, Fds
<1>4. /\ fd_to_op \in Table /\ Slots(fd_to_op, fd)
      /\ TimerFd \in Fds /\ Slots(fd_to_op, TimerFd) /\ fd_to_op[TimerFd].write = NoCo
  BY <1>3 DEF IInv, Core, TypeOK, TableOK, Table, Fds
<1>5. /\ mid \in Table /\ Slots(mid, fd)
      /\ \A g \in Fds \ {fd} : mid[g] = fd_to_op[g]
      /\ op[c].kind # "write_timeout" => mid[fd].read = c /\ mid[fd].write = fd_to_op[fd].write
      /\ op[c].kind = "write_timeout" => mid[fd].write = c /\ mid[fd].read = fd_to_op[fd].read
  BY <1>1, <1>3, <1>4, SubmitsRead, SubmitsWrite
<1> HIDE DEF mid
<1>6. Slots(mid, TimerFd) /\ mid[TimerFd].write = NoCo
  BY <1>3, <1>4, <1>5 DEF Slots
<1>7. PICK t \in T!SetTimer(tm, c, now + op[c].delay) : RefreshTimerRegistration(t, mid)
  BY <1>1 DEF StartTimeout
<1>8. now + op[c].delay \in Nat \ {0} /\ T!Settled(tm)
  BY <1>3 DEF IInv, Core, TypeOK, TimersOK
<1>9. TimerAdded(tm, t, c, now + op[c].delay)
  <2>1. t \in T!SetTimer(tm, c, now + op[c].delay)
    BY <1>7
  <2> QED
    BY <1>2, <1>8, <2>1, TimerStarts
<1>10. /\ tm' \in T!RefreshCurrentTimer(t)
       /\ fd_to_op' = IF T!CurrentEmpty(tm')
                      THEN I!Remove(mid, TimerFd, I!EVENT_TIMER)
                      ELSE I!Submit(mid, TimerFd, tm'.cur.op, I!EVENT_TIMER)
  BY <1>7 DEF RefreshTimerRegistration
<1>11. TimerAdded(tm, tm', c, now + op[c].delay) /\ T!Settled(tm')
  <2>1. TimerAdded(tm, tm', c, now + op[c].delay)
    BY <1>9, <1>10, StaysAdded
  <2> QED
    BY <2>1 DEF TimerAdded
<1>12. /\ fd_to_op' \in Table /\ ServesTimer(fd_to_op', tm')
       /\ \A g \in Fds \ {TimerFd} : fd_to_op'[g] = mid[g]
  BY <1>5, <1>6, <1>10, <1>11, TimerFacts, TimerFollowed DEF T!CurrentEmpty
<1>13. op' = [op EXCEPT ![c].due = now + op[c].delay] /\ Suspend(c)
  BY <1>1 DEF StartTimeout
<1>14. Slots(fd_to_op', fd)
  BY <1>3, <1>5, <1>12 DEF Slots
<1> QED
  BY <1>1, <1>2, <1>3, <1>5, <1>11, <1>12, <1>13, <1>14 DEF Registers

\* wait_for's await_suspend
LEMMA WaitRegisters ==
    ASSUME IInv, NEW c \in Coros, WaitSuspend(c)
    PROVE  Registers(c)
<1>1. /\ Runs(c, "suspend") /\ op[c].kind = "wait_for"
      /\ op' = [op EXCEPT ![c].due = now + op[c].delay] /\ Suspend(c)
      /\ UNCHANGED <<now, batch, left, result, token>>
  BY DEF WaitSuspend
<1>2. Busy(c) /\ tm.active_timer_ids[c] = 0
  BY <1>1, Unplaced
<1>3. /\ op[c].fd = TimerFd /\ op[c].kind \in Timed /\ op[c].kind \notin Ins \cup Outs
      /\ op[c].delay \in Nat
  BY <1>1, <1>2, OperationFacts, KindFacts DEF IInv, Core
<1>4. /\ fd_to_op \in Table
      /\ TimerFd \in Fds /\ Slots(fd_to_op, TimerFd) /\ fd_to_op[TimerFd].write = NoCo
  BY DEF IInv, Core, TypeOK, TableOK, Table, Fds
<1>5. /\ tm' \in T!SetTimer(tm, c, now + op[c].delay)
      /\ fd_to_op' = I!Submit(fd_to_op, TimerFd, tm'.cur.op, I!EVENT_TIMER)
  BY DEF WaitSuspend
<1>6. now + op[c].delay \in Nat \ {0} /\ T!Settled(tm)
  BY <1>3 DEF IInv, Core, TypeOK, TimersOK
<1>7. TimerAdded(tm, tm', c, now + op[c].delay)
  BY <1>2, <1>5, <1>6, TimerStarts
<1>8. T!Settled(tm') /\ tm'.cur.op # NoCo
  BY <1>7, TimerFacts DEF TimerAdded
<1>9. /\ fd_to_op' \in Table /\ ServesTimer(fd_to_op', tm')
      /\ \A g \in Fds \ {TimerFd} : fd_to_op'[g] = fd_to_op[g]
  BY <1>4, <1>5, <1>8, TimerFollowed
<1> QED
  BY <1>1, <1>2, <1>3, <1>7, <1>9 DEF Registers

\* Every coroutine still awaits what it did, up to progress and due times
SameAwait ==
    /\ op' \in [Coros -> Operation \cup {Idle}]
    /\ \A d \in Coros :
          /\ Busy(d)' <=> Busy(d)
          /\ op'[d].kind = op[d].kind /\ op'[d].fd = op[d].fd /\ op'[d].token = op[d].token
          /\ op'[d].size = op[d].size /\ op'[d].start = op[d].start
          /\ op'[d].delay = op[d].delay /\ op'[d].wrapped = op[d].wrapped

\* The control points, and what Goto changes
Points == {"main", "user", "suspend", "slot", "resume", "final", "loop", "exit"}

\* where the thread is after Goto
LEMMA GotoFacts ==
    ASSUME control \in Control, NEW p \in Points, NEW c \in Coros \cup {NoCo}, Goto(p, c)
    PROVE  /\ control' \in Control
           /\ control'.at = p /\ control'.co = c
           /\ control'.next = control.next /\ control'.running = control.running
<1>1. control' = [control EXCEPT !.at = p, !.co = c]
  BY DEF Goto
<1>2. control' = [at |-> p, co |-> c, next |-> control.next, running |-> control.running]
  BY <1>1 DEF Control
<1> QED
  BY <1>2 DEF Control, Points

\* Where the thread goes when a coroutine has suspended or ended
LEMMA YieldFacts ==
    ASSUME control \in Control, Yield
    PROVE  /\ control' \in Control /\ control'.co = NoCo
           /\ control.running => control'.at = "loop"
           /\ ~control.running => control'.at = "main"
           /\ control'.next = control.next /\ control'.running = control.running
<1>1. CASE control.running
  <2>1. Goto("loop", NoCo) /\ "loop" \in Points
    BY <1>1 DEF Yield, Points
  <2> QED
    BY <1>1, <2>1, GotoFacts
<1>2. CASE ~control.running
  <2>1. Goto("main", NoCo) /\ "main" \in Points
    BY <1>2 DEF Yield, Points
  <2> QED
    BY <1>2, <2>1, GotoFacts
<1> QED
  BY <1>1, <1>2

\* ... or has its token yet to submit
LEMMA SuspendControl ==
    ASSUME TypeOK, NEW c \in Coros, Suspend(c), at[c] = "running"
    PROVE  /\ control' \in Control
           /\ at' \in [Coros -> {"created", "running", "suspended", "stranded", "done", "threw"}]
           /\ control'.next = control.next /\ control'.running = control.running
           /\ \A d \in Coros \ {c} : at'[d] = at[d]
           /\ \/ /\ op[c].token = NoToken
                 /\ at'[c] = "suspended" /\ control'.co = NoCo
                 /\ control.running => control'.at = "loop"
                 /\ ~control.running => control'.at = "main"
              \/ /\ op[c].token # NoToken
                 /\ at'[c] = "running" /\ control'.co = c /\ control'.at = "slot"
<1>1. CASE op[c].token = NoToken
  <2>1. at' = [at EXCEPT ![c] = "suspended"] /\ Yield
    BY <1>1 DEF Suspend
  <2> QED
    BY <1>1, <2>1, YieldFacts DEF TypeOK
<1>2. CASE op[c].token # NoToken
  <2>1. at' = at /\ Goto("slot", c)
    BY <1>2 DEF Suspend
  <2> QED
    BY <1>2, <2>1, GotoFacts DEF TypeOK, Points
<1> QED
  BY <1>1, <1>2

\* An await_suspend that registers keeps the invariant.
LEMMA RegistersKeepsCore ==
    ASSUME IInv, NEW c \in Coros, Registers(c), sock' \in [Socks -> SocketState]
    PROVE  TypeOK' /\ Core'
<1> USE KindFacts
<1>1. /\ Runs(c, "suspend") /\ Busy(c) /\ control.at = "suspend" /\ control.co = c
      /\ UNCHANGED <<now, batch, left, result, token>>
  BY DEF Registers, Runs
<1>2. /\ control' \in Control
      /\ at' \in [Coros -> {"created", "running", "suspended", "stranded", "done", "threw"}]
      /\ control'.next = control.next /\ control'.running = control.running
      /\ \A d \in Coros \ {c} : at'[d] = at[d]
      /\ \/ /\ op[c].token = NoToken
            /\ at'[c] = "suspended" /\ control'.co = NoCo
            /\ control.running => control'.at = "loop"
            /\ ~control.running => control'.at = "main"
         \/ /\ op[c].token # NoToken
            /\ at'[c] = "running" /\ control'.co = c /\ control'.at = "slot"
  BY <1>1, SuspendControl, Unplaced DEF IInv, Registers
<1>3. /\ SameAwait /\ \A d \in Coros : op'[d].got = op[d].got
      /\ \A d \in Coros \ {c} : op'[d].due = op[d].due
  <2>1. CASE op[c].kind \notin Timed
    <3>1. op' = op
      BY <2>1 DEF Registers
    <3> QED
      BY <3>1 DEF SameAwait, IInv, TypeOK, Busy
  <2>2. CASE op[c].kind \in Timed
    <3>1. op' = [op EXCEPT ![c].due = now + op[c].delay] /\ now + op[c].delay \in Nat
      BY <1>1, <2>2, OperationFacts DEF Registers, IInv, Core, TypeOK
    <3>2. op[c] \in Operation
      BY <1>1, OperationFacts DEF IInv, Core
    <3>3. op'[c] = [op[c] EXCEPT !.due = now + op[c].delay] /\ \A d \in Coros \ {c} : op'[d] = op[d]
      BY <3>1 DEF IInv, TypeOK
    <3>4. op'[c] \in Operation
      BY <3>1, <3>2, <3>3 DEF Operation
    <3> QED
      BY <1>1, <3>1, <3>2, <3>3, <3>4 DEF SameAwait, Busy, IInv, TypeOK, Operation, Idle
  <2> QED
    BY <2>1, <2>2
<1>4. /\ op[c].kind = "wait_for" <=> op[c].fd = TimerFd
      /\ op[c].kind # "wait_for" => op[c].fd \in Socks
      /\ op[c].token # NoToken => op[c].token \in Tokens
  BY <1>1, OperationFacts DEF IInv, Core
<1>5. \A d \in Coros : Placed(d)' <=> Placed(d) \/ d = c
  BY <1>1, <1>2, <1>3 DEF Placed, Runs, SameAwait, IInv, Core, ThreadOK, TypeOK
<1>6. TypeOK'
  <2>1. tm' \in T!TimerState
    BY TimerFacts DEF IInv, TypeOK, Registers, TimerAdded
  <2> QED
    BY <1>1, <1>2, <1>3, <2>1 DEF IInv, TypeOK, SameAwait, Registers, Table
<1>7. OpsOK'
  BY <1>3 DEF IInv, Core, OpsOK, SameAwait
<1>8. ThreadOK'
  <2>1. \A d \in Coros :
           /\ at'[d] = "running" <=> control'.co = d
           /\ Busy(d)' <=> \/ at'[d] = "suspended"
                           \/ control'.co = d /\ control'.at \in {"suspend", "slot", "resume"}
    BY <1>1, <1>2, <1>3, NamesAssumption DEF IInv, Core, ThreadOK, SameAwait
  <2>2. control'.next # NoCo => /\ control'.running
                                /\ at'[control'.next] = "suspended"
                                /\ op'[control'.next].kind \in Outs
    <3>1. control.next \in Coros \cup {NoCo}
      BY DEF IInv, TypeOK, Control
    <3>2. at[c] # "suspended"
      BY <1>1, Unplaced
    <3> QED
      BY <1>2, <1>3, <3>1, <3>2 DEF IInv, Core, ThreadOK, SameAwait
  <2> QED
    BY <1>1, <1>2, <1>3, <2>1, <2>2, NamesAssumption DEF IInv, Core, ThreadOK, SameAwait
<1>9. OneWaiter'
  BY <1>3 DEF IInv, Core, OneWaiter, SameAwait
<1>10. Slots(fd_to_op, TimerFd) /\ ServesTimer(fd_to_op', tm')
  <2>1. ServesTimer(fd_to_op, tm)
    BY DEF IInv, Core, TableOK, ServesTimer, Fds
  <2>2. CASE op[c].kind \notin Timed
    BY <2>1, <2>2 DEF Registers, ServesTimer, Slots
  <2>3. CASE op[c].kind \in Timed
    BY <2>1, <2>3 DEF Registers, ServesTimer
  <2> QED
    BY <2>1, <2>2, <2>3 DEF ServesTimer
<1>11. TableOK'
  <2>1. \A fd \in Fds : Slots(fd_to_op', fd)
    <3> SUFFICES ASSUME NEW fd \in Fds PROVE Slots(fd_to_op', fd)
      OBVIOUS
    <3>1. CASE fd = TimerFd
      BY <1>10, <3>1 DEF ServesTimer
    <3>2. CASE fd # TimerFd /\ fd = op[c].fd
      BY <3>2 DEF Registers
    <3>3. CASE fd # TimerFd /\ fd # op[c].fd
      BY <3>3 DEF Registers, IInv, Core, TableOK, Slots
    <3> QED
      BY <3>1, <3>2, <3>3
  <2>2. ASSUME NEW d \in Coros, NEW s \in Socks
        PROVE  /\ fd_to_op'[s].read = d => Placed(d)' /\ op'[d].fd = s /\ op'[d].kind \in Ins
               /\ fd_to_op'[s].write = d => Placed(d)' /\ op'[d].fd = s /\ op'[d].kind \in Outs
    <3>1. s \in Fds /\ s # TimerFd
      BY NamesAssumption DEF Fds
    <3>2. /\ fd_to_op[s].read = d => Placed(d) /\ op[d].fd = s /\ op[d].kind \in Ins
          /\ fd_to_op[s].write = d => Placed(d) /\ op[d].fd = s /\ op[d].kind \in Outs
      BY DEF IInv, Core, TableOK
    <3>3. CASE s # op[c].fd
      <4>1. fd_to_op'[s] = fd_to_op[s]
        BY <3>1, <3>3 DEF Registers
      <4> QED
        BY <3>2, <4>1, <1>3, <1>5 DEF SameAwait
    <3>4. CASE s = op[c].fd
      <4>1. \/ /\ op[c].kind \in Ins /\ fd_to_op'[s].read = c
               /\ fd_to_op'[s].write = fd_to_op[s].write
            \/ /\ op[c].kind \in Outs /\ fd_to_op'[s].write = c
               /\ fd_to_op'[s].read = fd_to_op[s].read
        BY <3>1, <3>4, <1>1, <1>4, OperationFacts DEF Registers, IInv, Core
      <4> QED
        BY <3>2, <3>4, <4>1, <1>3, <1>5 DEF SameAwait
    <3> QED
      BY <3>3, <3>4
  <2>3. ASSUME NEW t \in Tokens
        PROVE  /\ fd_to_op'[t].write = NoCo
               /\ \A d \in Coros : fd_to_op'[t].read = d => Placed(d)' /\ op'[d].token = t
    <3>1. t \in Fds /\ t # TimerFd /\ t # op[c].fd
      BY <1>4, NamesAssumption DEF Fds
    <3>2. fd_to_op'[t] = fd_to_op[t]
      BY <3>1 DEF Registers
    <3> QED
      BY <3>2, <1>3, <1>5 DEF IInv, Core, TableOK, SameAwait
  <2> QED
    BY <1>10, <2>1, <2>2, <2>3 DEF TableOK, ServesTimer
<1>12. \A d \in Coros \ {c} : tm'.active_timer_ids[d] = tm.active_timer_ids[d]
  <2>1. tm.active_timer_ids \in [Coros -> Nat]
    BY TimerFacts DEF IInv, Core, TimersOK
  <2> QED
    BY <2>1 DEF Registers, TimerAdded
<1>13. op[c].kind \in Timed => tm'.active_timer_ids[c] # 0
  <2>1. tm.active_timer_ids \in [Coros -> Nat]
    BY TimerFacts DEF IInv, Core, TimersOK
  <2> QED
    BY <2>1 DEF Registers, TimerAdded
<1>14. WaitersOK'
  <2> SUFFICES ASSUME NEW d \in Coros, at'[d] = "suspended" \/ Runs(d, "slot")'
               PROVE  /\ op'[d].kind \in Ins => fd_to_op'[op'[d].fd].read = d
                      /\ op'[d].kind \in Outs => fd_to_op'[op'[d].fd].write = d
                      /\ op'[d].kind \in Timed => tm'.active_timer_ids[d] # 0
    BY DEF WaitersOK
  <2>1. CASE d = c
    BY <2>1, <1>3, <1>13 DEF Registers, SameAwait
  <2>2. CASE d # c
    <3>1. at[d] = "suspended" /\ Busy(d)
      BY <1>2, <2>2, NamesAssumption DEF Runs, IInv, Core, ThreadOK
    <3>2. /\ op[d].kind \in Ins => fd_to_op[op[d].fd].read = d
          /\ op[d].kind \in Outs => fd_to_op[op[d].fd].write = d
          /\ op[d].kind \in Timed => tm.active_timer_ids[d] # 0
      BY <3>1 DEF IInv, Core, WaitersOK
    <3>3. op[d].kind \in Ins \cup Outs => op[d].fd \in Socks
      BY <3>1, OperationFacts DEF IInv, Core
    <3>4. CASE op[d].fd # op[c].fd
      <4>1. op[d].kind \in Ins \cup Outs => fd_to_op'[op[d].fd] = fd_to_op[op[d].fd]
        BY <3>3, <3>4, NamesAssumption DEF Registers, Fds
      <4> QED
        BY <2>2, <3>2, <4>1, <1>3, <1>12 DEF SameAwait
    <3>5. CASE op[d].fd = op[c].fd
      <4>1. op[d].kind \in Ins \cup Outs => (op[c].kind \in Ins) # (op[d].kind \in Ins)
        BY <1>1, <2>2, <3>1, <3>3, <3>5 DEF IInv, Core, OneWaiter
      <4>2. op[d].kind \in Ins \cup Outs => op[c].kind \in Ins \cup Outs
        BY <1>1, <1>4, <3>3, <3>5, NamesAssumption, OperationFacts DEF IInv, Core
      <4> QED
        BY <2>2, <3>2, <3>5, <4>1, <4>2, <1>3, <1>12 DEF SameAwait, Registers
    <3> QED
      BY <3>4, <3>5
  <2> QED
    BY <2>1, <2>2
<1>15. TimersOK'
  <2>1. T!Settled(tm) /\ T!Settled(tm')
    BY DEF IInv, Core, TimersOK, Registers, TimerAdded
  <2>2. \A d \in Coros : tm'.active_timer_ids[d] # 0 => Placed(d)' /\ op'[d].kind \in Timed
    <3>1. CASE op[c].kind \in Timed
      BY <3>1, <1>3, <1>5, <1>12 DEF IInv, Core, TimersOK, SameAwait
    <3>2. CASE op[c].kind \notin Timed
      BY <3>2, <1>3, <1>5, <1>12 DEF IInv, Core, TimersOK, SameAwait, Registers
    <3> QED
      BY <3>1, <3>2
  <2>3. control'.at # "resume"
    BY <1>2
  <2>4. \A x \in T!Pending(tm') : op'[x.op].due = x.tp
    <3>1. CASE op[c].kind \notin Timed
      BY <3>1 DEF Registers, IInv, Core, TimersOK
    <3>2. CASE op[c].kind \in Timed
      <4>1. PICK k : /\ k.op = c /\ k.tp = now + op[c].delay
                     /\ T!Pending(tm') = T!Pending(tm) \cup {k}
        BY <3>2 DEF Registers, TimerAdded
      <4>2. op[c] \in Operation /\ op' = [op EXCEPT ![c].due = now + op[c].delay]
        BY <1>1, <3>2, OperationFacts DEF Registers, IInv, Core
      <4>3. op'[c].due = now + op[c].delay
        BY <4>2 DEF IInv, TypeOK, Operation
      <4>4. \A x \in T!Pending(tm) : x.op \in Coros \ {c}
        BY <1>1, <2>1, TimerFacts, Unplaced
      <4> QED
        BY <4>1, <4>3, <4>4, <1>3 DEF IInv, Core, TimersOK
    <3> QED
      BY <3>1, <3>2
  <2> QED
    BY <2>1, <2>2, <2>3, <2>4 DEF TimersOK, Runs
<1>16. CancelOK'
  <2> SUFFICES ASSUME PrivateTokens, NEW d \in Coros, at'[d] = "suspended",
                      op'[d].token # NoToken, ~Cancelled(d)'
               PROVE  fd_to_op'[op'[d].token].read = d
    BY DEF CancelOK
  <2>1. d # c /\ at[d] = "suspended" /\ Busy(d)
    BY <1>2, <1>3 DEF SameAwait, IInv, Core, ThreadOK
  <2>2. op[d].token \in Tokens /\ op'[d].token = op[d].token
    BY <2>1, <1>3, OperationFacts DEF IInv, Core, SameAwait
  <2>3. fd_to_op[op[d].token].read = d
    BY <1>1, <2>1, <2>2 DEF IInv, Core, CancelOK, Cancelled
  <2>4. fd_to_op'[op[d].token] = fd_to_op[op[d].token]
    BY <1>4, <2>2, NamesAssumption DEF Registers, Fds
  <2> QED
    BY <2>2, <2>3, <2>4
<1>17. NeverEarly' /\ ExitOK'
  BY <1>1, <1>2 DEF IInv, Core, NeverEarly, ExitOK
<1> QED
  BY <1>6, <1>7, <1>8, <1>9, <1>11, <1>14, <1>15, <1>16, <1>17 DEF Core

-------------------------------------------------------------------------------
(* await_resume *)

\* The operation of c has returned {ec, n}, never early.
Ends(c, ec, n) ==
    /\ ec \in Errors /\ n \in Nat
    /\ ec = "timed_out" \/ op[c].kind = "wait_for" => op[c].due <= now
    /\ Return(c, ec, n)

\* The loop around the inner awaiter goes on, with k bytes moved so far.
GoesOn(c, k) ==
    /\ k \in Nat /\ op[c].start + k <= op[c].size
    /\ op' = [op EXCEPT ![c].got = k]
    /\ Goto("suspend", c)
    /\ UNCHANGED result

\* What await_resume leaves behind: nothing of c in the table nor in the timer, and
\* the rest as it was.
Withdraws(c) ==
    /\ Busy(c) /\ control.co = c /\ control.at \in {"suspend", "resume"}
    /\ fd_to_op' \in Table
    /\ \A g \in Fds \ {op[c].fd, op[c].token, TimerFd} : fd_to_op'[g] = fd_to_op[g]
    /\ op[c].fd # TimerFd => Slots(fd_to_op', op[c].fd)
    /\ op[c].kind \in Ins => /\ fd_to_op'[op[c].fd].read = NoCo
                             /\ fd_to_op'[op[c].fd].write = fd_to_op[op[c].fd].write
    /\ op[c].kind \in Outs => /\ fd_to_op'[op[c].fd].write = NoCo
                              /\ fd_to_op'[op[c].fd].read = fd_to_op[op[c].fd].read
    /\ op[c].token # NoToken => /\ Slots(fd_to_op', op[c].token)
                                /\ fd_to_op'[op[c].token].read = NoCo
                                /\ fd_to_op'[op[c].token].write = NoCo
    /\ op[c].kind \notin Timed => /\ fd_to_op'[TimerFd] = fd_to_op[TimerFd]
                                  /\ UNCHANGED tm
    /\ op[c].kind \in Timed => TimerDropped(tm, tm', c) /\ ServesTimer(fd_to_op', tm')
    /\ (\E ec, n : Ends(c, ec, n)) \/ (\E k : GoesOn(c, k))
    /\ token' \in [Tokens -> [cancelled : BOOLEAN, eventfd : {"empty", "due", "readable"}]]
    /\ \A t \in Tokens : token'[t].cancelled = token[t].cancelled
    /\ UNCHANGED <<now, batch, at, left>>

\* What happens to the operation, and where the thread goes
LEMMA WithdrawControl ==
    ASSUME TypeOK, NEW c \in Coros, op[c] \in Operation, Withdraws(c)
    PROVE  /\ control' \in Control
           /\ control'.next = control.next /\ control'.running = control.running
           /\ control'.co = c
           /\ op' \in [Coros -> Operation \cup {Idle}]
           /\ result' \in [Coros -> Result \cup {NoResult}]
           /\ \A d \in Coros \ {c} : op'[d] = op[d] /\ result'[d] = result[d]
           /\ \/ control'.at = "suspend" /\ op'[c] # Idle
              \/ control'.at \in {"user", "final"} /\ op'[c] = Idle
           /\ op'[c] # Idle =>
                 /\ op'[c].kind = op[c].kind /\ op'[c].token = op[c].token
                 /\ op'[c].fd = op[c].fd /\ op'[c].size = op[c].size
                 /\ op'[c].start = op[c].start /\ op'[c].delay = op[c].delay
                 /\ op'[c].wrapped = op[c].wrapped
                 /\ op'[c].start + op'[c].got <= op'[c].size
           /\ \/ result'[c] = result[c]
              \/ result'[c].ec = "timed_out" \/ result'[c].op.kind = "wait_for"
                    => result'[c].op.due <= now
<1>1. CASE \E k : GoesOn(c, k)
  <2>1. PICK k : GoesOn(c, k)
    BY <1>1
  <2>2. /\ k \in Nat /\ op[c].start + k <= op[c].size
        /\ op' = [op EXCEPT ![c].got = k] /\ Goto("suspend", c) /\ result' = result
    BY <2>1 DEF GoesOn
  <2>3. op'[c] = [op[c] EXCEPT !.got = k] /\ \A d \in Coros \ {c} : op'[d] = op[d]
    BY <2>2 DEF TypeOK
  <2>4. /\ op'[c] \in Operation /\ op'[c].got = k
        /\ op'[c].kind = op[c].kind /\ op'[c].token = op[c].token
        /\ op'[c].fd = op[c].fd /\ op'[c].size = op[c].size
        /\ op'[c].start = op[c].start /\ op'[c].delay = op[c].delay
        /\ op'[c].wrapped = op[c].wrapped
    BY <2>2, <2>3 DEF Operation
  <2>5. op'[c] # Idle
    BY <2>4, KindFacts DEF Operation
  <2>6. "suspend" \in Points
    BY DEF Points
  <2>7. /\ control' \in Control /\ control'.next = control.next
        /\ control'.running = control.running
        /\ control'.co = c /\ control'.at = "suspend"
    BY <2>2, <2>6, GotoFacts DEF TypeOK
  <2>8. op' \in [Coros -> Operation \cup {Idle}]
    BY <2>2, <2>3, <2>4 DEF TypeOK
  <2> QED
    BY <2>2, <2>3, <2>4, <2>5, <2>7, <2>8 DEF TypeOK
<1>2. CASE \E ec, n : Ends(c, ec, n)
  <2>1. PICK ec, n : Ends(c, ec, n)
    BY <1>2
  <2> DEFINE r == [op |-> op[c], ec |-> ec, n |-> n]
             p == IF op[c].wrapped THEN "final" ELSE "user"
  <2>2. /\ ec \in Errors /\ n \in Nat
        /\ ec = "timed_out" \/ op[c].kind = "wait_for" => op[c].due <= now
        /\ result' = [result EXCEPT ![c] = r]
        /\ op' = [op EXCEPT ![c] = Idle]
        /\ Goto(p, c)
    BY <2>1 DEF Ends, Return
  <2>3. p \in Points /\ p \in {"user", "final"}
    BY DEF Points
  <2>4. /\ r \in Result
        /\ r.ec = "timed_out" \/ r.op.kind = "wait_for" => r.op.due <= now
    BY <2>2 DEF Result
  <2> HIDE DEF r, p
  <2>5. /\ control' \in Control /\ control'.next = control.next
        /\ control'.running = control.running
        /\ control'.co = c /\ control'.at = p
    BY <2>2, <2>3, GotoFacts DEF TypeOK
  <2>6. /\ op' \in [Coros -> Operation \cup {Idle}] /\ op'[c] = Idle
        /\ \A d \in Coros \ {c} : op'[d] = op[d]
    BY <2>2 DEF TypeOK
  <2>7. /\ result' \in [Coros -> Result \cup {NoResult}]
        /\ result'[c] = r
        /\ \A d \in Coros \ {c} : result'[d] = result[d]
    BY <2>2, <2>4 DEF TypeOK
  <2> QED
    BY <2>3, <2>4, <2>5, <2>6, <2>7
<1> QED
  BY <1>1, <1>2 DEF Withdraws

\* An await_resume keeps the invariant.
LEMMA WithdrawsKeepsCore ==
    ASSUME IInv, NEW c \in Coros, Withdraws(c), sock' \in [Socks -> SocketState]
    PROVE  TypeOK' /\ Core'
<1> USE KindFacts
<1>1. /\ Busy(c) /\ control.co = c /\ control.at \in {"suspend", "resume"} /\ at[c] = "running"
      /\ UNCHANGED <<now, batch, at, left>>
      /\ token' \in [Tokens -> [cancelled : BOOLEAN, eventfd : {"empty", "due", "readable"}]]
      /\ \A t \in Tokens : token'[t].cancelled = token[t].cancelled
  BY DEF Withdraws, IInv, Core, ThreadOK
<1>2. /\ op[c] \in Operation
      /\ op[c].kind = "wait_for" <=> op[c].fd = TimerFd
      /\ op[c].kind # "wait_for" => op[c].fd \in Socks
      /\ op[c].token # NoToken => op[c].token \in Tokens
      /\ op[c].kind \in Kinds
  BY <1>1, OperationFacts DEF IInv, Core
<1>3. /\ control' \in Control
      /\ control'.next = control.next /\ control'.running = control.running
      /\ control'.co = c
      /\ op' \in [Coros -> Operation \cup {Idle}]
      /\ result' \in [Coros -> Result \cup {NoResult}]
      /\ \A d \in Coros \ {c} : op'[d] = op[d] /\ result'[d] = result[d]
      /\ \/ control'.at = "suspend" /\ op'[c] # Idle
         \/ control'.at \in {"user", "final"} /\ op'[c] = Idle
      /\ op'[c] # Idle =>
            /\ op'[c].kind = op[c].kind /\ op'[c].token = op[c].token
            /\ op'[c].fd = op[c].fd /\ op'[c].size = op[c].size
            /\ op'[c].start = op[c].start /\ op'[c].delay = op[c].delay
            /\ op'[c].wrapped = op[c].wrapped
            /\ op'[c].start + op'[c].got <= op'[c].size
      /\ \/ result'[c] = result[c]
         \/ result'[c].ec = "timed_out" \/ result'[c].op.kind = "wait_for"
               => result'[c].op.due <= now
  BY <1>2, WithdrawControl DEF IInv
<1>4. ~Placed(c)' /\ \A d \in Coros \ {c} : Placed(d)' <=> Placed(d)
  BY <1>1, <1>3 DEF Placed, Runs, Busy
<1>5. T!Settled(tm) /\ tm.active_timer_ids \in [Coros -> Nat]
  BY TimerFacts DEF IInv, Core, TimersOK
<1>6. /\ T!Settled(tm') /\ tm'.active_timer_ids[c] = 0
      /\ \A d \in Coros \ {c} : tm'.active_timer_ids[d] = tm.active_timer_ids[d]
      /\ \A x \in T!Pending(tm') : x \in T!Pending(tm) /\ x.op \in Coros \ {c}
  <2>1. CASE op[c].kind \notin Timed
    <3>1. tm' = tm /\ tm.active_timer_ids[c] = 0
      BY <2>1 DEF Withdraws, IInv, Core, TimersOK
    <3> QED
      BY <3>1, <1>5, TimerFacts
  <2>2. CASE op[c].kind \in Timed
    <3>1. TimerDropped(tm, tm', c)
      BY <2>2 DEF Withdraws
    <3>2. \A x \in T!Pending(tm) : x.op \in Coros
      BY <1>5, TimerFacts
    <3> QED
      BY <3>1, <3>2, <1>5 DEF TimerDropped
  <2> QED
    BY <2>1, <2>2
<1>7. TypeOK'
  <2>1. tm' \in T!TimerState
    BY <1>6, TimerFacts
  <2> QED
    BY <1>1, <1>3, <2>1 DEF IInv, TypeOK, Withdraws, Table
<1>8. OpsOK'
  <2> SUFFICES ASSUME NEW d \in Coros, Busy(d)'
               PROVE  /\ \E o \in Menu[d] :
                            /\ op'[d].kind = o.kind /\ op'[d].token = o.token
                            /\ op'[d].size = o.size /\ op'[d].start = o.start
                            /\ op'[d].delay = o.delay /\ op'[d].wrapped = o.wrapped
                            /\ Names(o, op'[d].fd)
                      /\ op'[d].start + op'[d].got <= op'[d].size
    BY DEF OpsOK
  <2>1. CASE d = c
    BY <2>1, <1>1, <1>3 DEF IInv, Core, OpsOK, Busy
  <2>2. CASE d # c
    BY <2>2, <1>3 DEF IInv, Core, OpsOK, Busy
  <2> QED
    BY <2>1, <2>2
<1>9. ThreadOK'
  <2>1. \A d \in Coros :
           /\ at'[d] = "running" <=> control'.co = d
           /\ Busy(d)' <=> \/ at'[d] = "suspended"
                           \/ control'.co = d /\ control'.at \in {"suspend", "slot", "resume"}
    BY <1>1, <1>3 DEF IInv, Core, ThreadOK, Busy
  <2>2. control'.next # NoCo => /\ control'.running
                                /\ at'[control'.next] = "suspended"
                                /\ op'[control'.next].kind \in Outs
    <3>1. control.next \in Coros \cup {NoCo}
      BY DEF IInv, TypeOK, Control
    <3> QED
      BY <1>1, <1>3, <3>1 DEF IInv, Core, ThreadOK
  <2>3. control'.co # NoCo /\ control'.at \notin {"main", "loop", "exit", "slot"}
    BY <1>3, NamesAssumption
  <2> QED
    BY <2>1, <2>2, <2>3 DEF ThreadOK
<1>10. OneWaiter'
  <2> SUFFICES ASSUME NEW d \in Coros, NEW e \in Coros, d # e, Busy(d)', Busy(e)',
                      op'[d].fd = op'[e].fd, op'[d].fd \in Socks
               PROVE  (op'[d].kind \in Ins) # (op'[e].kind \in Ins)
    BY DEF OneWaiter
  <2>1. \A i \in {d, e} : Busy(i) /\ op'[i].fd = op[i].fd /\ op'[i].kind = op[i].kind
    BY <1>1, <1>3 DEF Busy
  <2> QED
    BY <2>1 DEF IInv, Core, OneWaiter
<1>11. Slots(fd_to_op, TimerFd) /\ ServesTimer(fd_to_op', tm')
  <2>1. ServesTimer(fd_to_op, tm)
    BY DEF IInv, Core, TableOK, ServesTimer, Fds
  <2>2. CASE op[c].kind \notin Timed
    BY <2>1, <2>2 DEF Withdraws, ServesTimer, Slots
  <2>3. CASE op[c].kind \in Timed
    BY <2>1, <2>3 DEF Withdraws, ServesTimer
  <2> QED
    BY <2>1, <2>2, <2>3 DEF ServesTimer
<1>12. TableOK'
  <2>1. \A fd \in Fds : Slots(fd_to_op', fd)
    <3> SUFFICES ASSUME NEW fd \in Fds PROVE Slots(fd_to_op', fd)
      OBVIOUS
    <3>1. CASE fd = TimerFd
      BY <1>11, <3>1 DEF ServesTimer
    <3>2. CASE fd # TimerFd /\ fd \in {op[c].fd, op[c].token}
      BY <3>2, NamesAssumption DEF Withdraws, Fds
    <3>3. CASE fd # TimerFd /\ fd \notin {op[c].fd, op[c].token}
      BY <3>3 DEF Withdraws, IInv, Core, TableOK, Slots
    <3> QED
      BY <3>1, <3>2, <3>3
  <2>2. ASSUME NEW d \in Coros, NEW s \in Socks
        PROVE  /\ fd_to_op'[s].read = d => Placed(d)' /\ op'[d].fd = s /\ op'[d].kind \in Ins
               /\ fd_to_op'[s].write = d => Placed(d)' /\ op'[d].fd = s /\ op'[d].kind \in Outs
    <3>1. s \in Fds /\ s # TimerFd /\ s # op[c].token /\ d # NoCo
      BY <1>2, NamesAssumption DEF Fds
    <3>2. /\ fd_to_op[s].read = d => Placed(d) /\ op[d].fd = s /\ op[d].kind \in Ins
          /\ fd_to_op[s].write = d => Placed(d) /\ op[d].fd = s /\ op[d].kind \in Outs
      BY DEF IInv, Core, TableOK
    <3>3. CASE s # op[c].fd
      <4>1. fd_to_op'[s] = fd_to_op[s]
        BY <3>1, <3>3 DEF Withdraws
      <4> QED
        BY <3>2, <3>3, <4>1, <1>3, <1>4
    <3>4. CASE s = op[c].fd
      <4>1. \/ /\ op[c].kind \in Ins /\ fd_to_op'[s].read = NoCo
               /\ fd_to_op'[s].write = fd_to_op[s].write
            \/ /\ op[c].kind \in Outs /\ fd_to_op'[s].write = NoCo
               /\ fd_to_op'[s].read = fd_to_op[s].read
        BY <3>1, <3>4, <1>2 DEF Withdraws
      <4> QED
        BY <3>1, <3>2, <3>4, <4>1, <1>3, <1>4
    <3> QED
      BY <3>3, <3>4
  <2>3. ASSUME NEW t \in Tokens
        PROVE  /\ fd_to_op'[t].write = NoCo
               /\ \A d \in Coros : fd_to_op'[t].read = d => Placed(d)' /\ op'[d].token = t
    <3>1. t \in Fds /\ t # TimerFd /\ t # op[c].fd
      BY <1>2, NamesAssumption DEF Fds
    <3>2. CASE t = op[c].token
      BY <3>2, NamesAssumption DEF Withdraws
    <3>3. CASE t # op[c].token
      <4>1. fd_to_op'[t] = fd_to_op[t]
        BY <3>1, <3>3 DEF Withdraws
      <4> QED
        BY <3>3, <4>1, <1>3, <1>4 DEF IInv, Core, TableOK
    <3> QED
      BY <3>2, <3>3
  <2> QED
    BY <1>11, <2>1, <2>2, <2>3 DEF TableOK, ServesTimer
<1>13. WaitersOK'
  <2> SUFFICES ASSUME NEW d \in Coros, at'[d] = "suspended" \/ Runs(d, "slot")'
               PROVE  /\ op'[d].kind \in Ins => fd_to_op'[op'[d].fd].read = d
                      /\ op'[d].kind \in Outs => fd_to_op'[op'[d].fd].write = d
                      /\ op'[d].kind \in Timed => tm'.active_timer_ids[d] # 0
    BY DEF WaitersOK
  <2>1. d # c /\ at[d] = "suspended" /\ Busy(d) /\ op'[d] = op[d]
    BY <1>1, <1>3 DEF Runs, IInv, Core, ThreadOK
  <2>2. /\ op[d].kind \in Ins => fd_to_op[op[d].fd].read = d
        /\ op[d].kind \in Outs => fd_to_op[op[d].fd].write = d
        /\ op[d].kind \in Timed => tm.active_timer_ids[d] # 0
    BY <2>1 DEF IInv, Core, WaitersOK
  <2>3. op[d].kind \in Ins \cup Outs => op[d].fd \in Socks
    BY <2>1, OperationFacts DEF IInv, Core
  <2>4. CASE op[d].fd # op[c].fd
    <3>1. op[d].kind \in Ins \cup Outs => fd_to_op'[op[d].fd] = fd_to_op[op[d].fd]
      BY <1>2, <2>3, <2>4, NamesAssumption DEF Withdraws, Fds
    <3> QED
      BY <2>1, <2>2, <3>1, <1>6
  <2>5. CASE op[d].fd = op[c].fd
    <3>1. op[d].kind \in Ins \cup Outs => (op[c].kind \in Ins) # (op[d].kind \in Ins)
      BY <1>1, <2>1, <2>3, <2>5 DEF IInv, Core, OneWaiter
    <3>2. op[d].kind \in Ins \cup Outs => op[c].kind \in Ins \cup Outs
      BY <1>2, <2>3, <2>5, NamesAssumption
    <3> QED
      BY <2>1, <2>2, <2>5, <3>1, <3>2, <1>6 DEF Withdraws
  <2> QED
    BY <2>4, <2>5
<1>14. TimersOK'
  <2>1. \A d \in Coros : tm'.active_timer_ids[d] # 0 => Placed(d)' /\ op'[d].kind \in Timed
    BY <1>3, <1>4, <1>6 DEF IInv, Core, TimersOK
  <2>2. control'.at # "resume"
    BY <1>3
  <2>3. \A x \in T!Pending(tm') : op'[x.op].due = x.tp
    BY <1>3, <1>6 DEF IInv, Core, TimersOK
  <2> QED
    BY <1>6, <2>1, <2>2, <2>3 DEF TimersOK, Runs
<1>15. CancelOK'
  <2> SUFFICES ASSUME PrivateTokens, NEW d \in Coros, at'[d] = "suspended",
                      op'[d].token # NoToken, ~Cancelled(d)'
               PROVE  fd_to_op'[op'[d].token].read = d
    BY DEF CancelOK
  <2>1. d # c /\ at[d] = "suspended" /\ Busy(d) /\ op'[d] = op[d]
    BY <1>1, <1>3 DEF IInv, Core, ThreadOK
  <2>2. op[d].token \in Tokens
    BY <2>1, OperationFacts DEF IInv, Core
  <2>3. fd_to_op[op[d].token].read = d
    BY <1>1, <2>1, <2>2 DEF IInv, Core, CancelOK, Cancelled
  <2>4. op[d].token # op[c].token
    <3>1. PICK o \in Menu[c] : op[c].token = o.token
      BY <1>1 DEF IInv, Core, OpsOK
    <3>2. PICK q \in Menu[d] : op[d].token = q.token
      BY <2>1 DEF IInv, Core, OpsOK
    <3> QED
      BY <2>1, <3>1, <3>2, <2>2, NamesAssumption DEF PrivateTokens
  <2>5. fd_to_op'[op[d].token] = fd_to_op[op[d].token]
    BY <1>2, <2>2, <2>4, NamesAssumption DEF Withdraws, Fds
  <2> QED
    BY <2>1, <2>3, <2>5
<1>16. NeverEarly' /\ ExitOK'
  BY <1>1, <1>3 DEF IInv, Core, NeverEarly, ExitOK
<1> QED
  BY <1>7, <1>8, <1>9, <1>10, <1>12, <1>13, <1>14, <1>15, <1>16 DEF Core

-------------------------------------------------------------------------------
(* The other steps *)

\* A step that leaves the operations, the table and the timer alone, and wakes, at
\* most, an operation that has its timer: peers, time, requests to cancel, main(),
\* the loop and what a coroutine does between two operations.
LEMMA OthersKeepCore ==
    ASSUME IInv, UNCHANGED <<tm, fd_to_op, op, left, result>>,
           now' \in Nat, now' >= now,
           batch' \subseteq [fd : Fds, in : BOOLEAN, out : BOOLEAN],
           sock' \in [Socks -> SocketState],
           token' \in [Tokens -> [cancelled : BOOLEAN, eventfd : {"empty", "due", "readable"}]],
           \A t \in Tokens : token[t].cancelled => token'[t].cancelled,
           control' \in Control,
           at' \in [Coros -> {"created", "running", "suspended", "stranded", "done", "threw"}],
           ThreadOK', ExitOK',
           \A d \in Coros :
              /\ Placed(d) => Placed(d)'
              /\ at'[d] = "suspended" => at[d] = "suspended"
              /\ ~Runs(d, "slot")' \/ UNCHANGED control
              /\ Runs(d, "resume")' /\ op[d].kind \in Timed
                    => tm.active_timer_ids[d] # 0 \/ Cancelled(d)
              /\ Runs(d, "resume")' /\ op[d].kind = "wait_for" => tm.cur.op = d
    PROVE  TypeOK' /\ Core'
<1>1. TypeOK'
  BY DEF IInv, TypeOK
<1>2. OpsOK'
  BY DEF IInv, Core, OpsOK, Busy
<1>3. OneWaiter'
  BY DEF IInv, Core, OneWaiter, Busy
<1>4. TableOK'
  BY DEF IInv, Core, TableOK, Slots
<1>5. WaitersOK'
  BY DEF IInv, Core, WaitersOK, Runs
<1>6. \A d \in Coros : Busy(d) /\ Cancelled(d) => Cancelled(d)'
  BY OperationFacts DEF Cancelled, IInv, Core
<1>7. TimersOK'
  <2>1. \A d \in Coros : Runs(d, "resume")' => Busy(d)
    BY NamesAssumption DEF Runs, ThreadOK, Busy
  <2>2. T!Settled(tm') /\ \A x \in T!Pending(tm') : op'[x.op].due = x.tp
    BY DEF IInv, Core, TimersOK
  <2>3. \A d \in Coros : tm'.active_timer_ids[d] # 0 => Placed(d)' /\ op'[d].kind \in Timed
    BY DEF IInv, Core, TimersOK
  <2>4. \A d \in Coros : /\ Runs(d, "resume")' /\ op'[d].kind \in Timed
                               => tm'.active_timer_ids[d] # 0 \/ Cancelled(d)'
                         /\ Runs(d, "resume")' /\ op'[d].kind = "wait_for" => tm'.cur.op = d
    BY <1>6, <2>1
  <2> QED
    BY <2>2, <2>3, <2>4 DEF TimersOK
<1>8. CancelOK'
  <2> SUFFICES ASSUME PrivateTokens, NEW d \in Coros, at'[d] = "suspended",
                      op'[d].token # NoToken, ~Cancelled(d)'
               PROVE  fd_to_op'[op'[d].token].read = d
    BY DEF CancelOK
  <2>1. at[d] = "suspended" /\ Busy(d)
    BY DEF IInv, Core, ThreadOK
  <2>2. ~Cancelled(d)
    BY <1>6, <2>1
  <2> QED
    BY <2>1, <2>2 DEF IInv, Core, CancelOK
<1>9. NeverEarly'
  <2> SUFFICES ASSUME NEW d \in Coros,
                      result'[d].ec = "timed_out" \/ result'[d].op.kind = "wait_for"
               PROVE  result'[d].op.due <= now'
    BY DEF NeverEarly
  <2>1. result[d].op.due <= now /\ result[d] \in Result \cup {NoResult}
    BY DEF IInv, Core, NeverEarly, TypeOK
  <2>2. result[d] # NoResult
    BY KindFacts DEF NoResult
  <2>3. result[d].op.due \in Nat /\ now \in Nat
    BY <2>1, <2>2 DEF Result, Operation, IInv, TypeOK
  <2> QED
    BY <2>1, <2>3
<1> QED
  BY <1>1, <1>2, <1>3, <1>4, <1>5, <1>7, <1>8, <1>9 DEF Core

\* cancel_slot::submit, after which the operation is suspended
LEMMA CancelSlotKeepsCore ==
    ASSUME IInv, NEW c \in Coros, CancelSlotSubmit(c)
    PROVE  TypeOK' /\ Core'
<1> USE KindFacts
<1>1. /\ Runs(c, "slot") /\ control.at = "slot" /\ control.co = c /\ at[c] = "running"
      /\ at' = [at EXCEPT ![c] = "suspended"] /\ Yield
      /\ UNCHANGED <<now, tm, batch, op, left, result, sock, token>>
  BY DEF CancelSlotSubmit, Runs, IInv, Core, ThreadOK
<1>2. /\ control' \in Control /\ control'.co = NoCo
      /\ control.running => control'.at = "loop"
      /\ ~control.running => control'.at = "main"
      /\ control'.next = control.next /\ control'.running = control.running
  BY <1>1, YieldFacts DEF IInv, TypeOK
<1>3. /\ at' \in [Coros -> {"created", "running", "suspended", "stranded", "done", "threw"}]
      /\ at'[c] = "suspended" /\ \A d \in Coros \ {c} : at'[d] = at[d]
  BY <1>1 DEF IInv, TypeOK
<1>4. /\ Busy(c) /\ op[c].token \in Tokens /\ op[c].token # NoToken
      /\ op[c].token \in Fds /\ op[c].token \notin Socks \cup {TimerFd}
  <2>1. Busy(c) /\ op[c].token # NoToken
    BY <1>1 DEF IInv, Core, ThreadOK
  <2>2. op[c].token \in Tokens
    BY <2>1, OperationFacts DEF IInv, Core
  <2> QED
    BY <2>1, <2>2, NamesAssumption DEF Fds
<1>5. /\ fd_to_op \in Table /\ \A fd \in Fds : Slots(fd_to_op, fd)
      /\ fd_to_op[op[c].token].write = NoCo
  BY <1>4 DEF IInv, Core, TypeOK, TableOK, Table
<1>6. /\ fd_to_op' \in Table /\ \A fd \in Fds : Slots(fd_to_op', fd)
      /\ fd_to_op'[op[c].token].write = NoCo
      /\ fd_to_op'[op[c].token].read \in {fd_to_op[op[c].token].read, c}
      /\ ~Cancelled(c) => fd_to_op'[op[c].token].read = c
      /\ \A g \in Fds \ {op[c].token} : fd_to_op'[g] = fd_to_op[g]
  <2>1. CASE Cancelled(c)
    <3>1. fd_to_op' = fd_to_op
      BY <2>1 DEF CancelSlotSubmit
    <3> QED
      BY <1>5, <2>1, <3>1 DEF Slots
  <2>2. CASE ~Cancelled(c)
    <3>1. fd_to_op' = I!Submit(fd_to_op, op[c].token, c, I!EVENT_READ)
      BY <2>2 DEF CancelSlotSubmit
    <3>2. /\ fd_to_op' \in Table /\ Slots(fd_to_op', op[c].token)
          /\ fd_to_op'[op[c].token].read = c
          /\ fd_to_op'[op[c].token].write = fd_to_op[op[c].token].write
          /\ \A g \in Fds \ {op[c].token} : fd_to_op'[g] = fd_to_op[g]
      BY <1>4, <1>5, <3>1, SubmitsRead
    <3> QED
      BY <1>5, <2>2, <3>2 DEF Slots
  <2> QED
    BY <2>1, <2>2
<1>7. \A d \in Coros : Placed(d)' <=> Placed(d)
  BY <1>1, <1>2 DEF Placed, Runs, Busy
<1>8. TypeOK' /\ OpsOK' /\ OneWaiter' /\ NeverEarly' /\ ExitOK'
  BY <1>1, <1>2, <1>3, <1>6
  DEF IInv, TypeOK, Core, OpsOK, Busy, OneWaiter, NeverEarly, ExitOK, Table
<1>9. ThreadOK'
  <2>1. \A d \in Coros :
           /\ at'[d] = "running" <=> control'.co = d
           /\ Busy(d)' <=> \/ at'[d] = "suspended"
                           \/ control'.co = d /\ control'.at \in {"suspend", "slot", "resume"}
    BY <1>1, <1>2, <1>3, NamesAssumption DEF IInv, Core, ThreadOK, Busy
  <2>2. control'.next # NoCo => /\ control'.running
                                /\ at'[control'.next] = "suspended"
                                /\ op'[control'.next].kind \in Outs
    <3>1. control.next \in Coros \cup {NoCo}
      BY DEF IInv, TypeOK, Control
    <3> QED
      BY <1>1, <1>2, <1>3, <3>1 DEF IInv, Core, ThreadOK
  <2> QED
    BY <1>2, <2>1, <2>2 DEF ThreadOK
<1>10. TableOK'
  <2>1. fd_to_op'[TimerFd].read = tm'.cur.op /\ fd_to_op'[TimerFd].write = NoCo
    BY <1>1, <1>4, <1>6 DEF IInv, Core, TableOK, Fds
  <2>2. \A s \in Socks : fd_to_op'[s] = fd_to_op[s]
    BY <1>4, <1>6 DEF Fds
  <2>3. ASSUME NEW t \in Tokens
        PROVE  /\ fd_to_op'[t].write = NoCo
               /\ \A d \in Coros : fd_to_op'[t].read = d => Placed(d)' /\ op'[d].token = t
    <3>1. CASE t = op[c].token
      <4>1. Placed(c)
        BY <1>1, <1>4 DEF Placed, Runs
      <4> QED
        BY <1>1, <1>6, <1>7, <3>1, <4>1 DEF IInv, Core, TableOK
    <3>2. CASE t # op[c].token
      BY <1>1, <1>6, <1>7, <3>2 DEF IInv, Core, TableOK, Fds
    <3> QED
      BY <3>1, <3>2
  <2> QED
    BY <1>1, <1>6, <1>7, <2>1, <2>2, <2>3 DEF IInv, Core, TableOK
<1>11. WaitersOK'
  <2> SUFFICES ASSUME NEW d \in Coros, at'[d] = "suspended" \/ Runs(d, "slot")'
               PROVE  /\ op'[d].kind \in Ins => fd_to_op'[op'[d].fd].read = d
                      /\ op'[d].kind \in Outs => fd_to_op'[op'[d].fd].write = d
                      /\ op'[d].kind \in Timed => tm'.active_timer_ids[d] # 0
    BY DEF WaitersOK
  <2>1. at[d] = "suspended" \/ Runs(d, "slot")
    BY <1>1, <1>2, <1>3 DEF Runs
  <2>2. op[d].kind \in Ins \cup Outs => op[d].fd \in Socks
    BY <1>1, <2>1, OperationFacts DEF IInv, Core, ThreadOK, Runs
  <2>3. op[d].kind \in Ins \cup Outs => fd_to_op'[op[d].fd] = fd_to_op[op[d].fd]
    BY <1>4, <1>6, <2>2 DEF Fds
  <2> QED
    BY <1>1, <2>1, <2>3 DEF IInv, Core, WaitersOK
<1>12. TimersOK'
  BY <1>1, <1>2, <1>7 DEF IInv, Core, TimersOK, Runs
<1>13. CancelOK'
  <2> SUFFICES ASSUME PrivateTokens, NEW d \in Coros, at'[d] = "suspended",
                      op'[d].token # NoToken, ~Cancelled(d)'
               PROVE  fd_to_op'[op'[d].token].read = d
    BY DEF CancelOK
  <2>1. ~Cancelled(d) /\ op'[d] = op[d]
    BY <1>1 DEF Cancelled
  <2>2. CASE d = c
    BY <1>6, <2>1, <2>2
  <2>3. CASE d # c
    <3>1. at[d] = "suspended" /\ Busy(d)
      BY <1>3, <2>3 DEF IInv, Core, ThreadOK
    <3>2. op[d].token \in Tokens
      BY <2>1, <3>1, OperationFacts DEF IInv, Core
    <3>3. fd_to_op[op[d].token].read = d
      BY <2>1, <3>1 DEF IInv, Core, CancelOK
    <3>4. op[d].token # op[c].token
      <4>1. PICK o \in Menu[c] : op[c].token = o.token
        BY <1>4 DEF IInv, Core, OpsOK
      <4>2. PICK q \in Menu[d] : op[d].token = q.token
        BY <3>1 DEF IInv, Core, OpsOK
      <4> QED
        BY <1>4, <2>3, <4>1, <4>2 DEF PrivateTokens
    <3> QED
      BY <1>6, <2>1, <3>2, <3>3, <3>4 DEF Fds
  <2> QED
    BY <2>2, <2>3
<1> QED
  BY <1>8, <1>9, <1>10, <1>11, <1>12, <1>13 DEF Core

\* A coroutine begins an operation o of its code's, on descriptor fd.
Begins(c, o, fd) ==
    /\ Runs(c, "user") /\ o \in Menu[c] /\ Names(o, fd) /\ fd \in Socks \cup {TimerFd}
    /\ \A d \in Coros \ {c} : Busy(d) /\ op[d].fd = fd /\ fd \in Socks =>
          (op[d].kind \in Ins) # (o.kind \in Ins)
    /\ op' = [op EXCEPT ![c] = Begun(o, fd)]
    /\ left[c] > 0 /\ left' = [left EXCEPT ![c] = @ - 1]
    /\ Goto("suspend", c)
    /\ UNCHANGED <<now, tm, fd_to_op, batch, at, result, token>>

\* The start of an operation keeps the invariant.
LEMMA BeginsKeepsCore ==
    ASSUME IInv, NEW c \in Coros, NEW o, NEW fd, Begins(c, o, fd),
           sock' \in [Socks -> SocketState]
    PROVE  TypeOK' /\ Core'
<1> USE KindFacts
<1>1. /\ control.at = "user" /\ control.co = c /\ at[c] = "running" /\ ~Busy(c)
      /\ op' = [op EXCEPT ![c] = Begun(o, fd)]
      /\ UNCHANGED <<now, tm, fd_to_op, batch, at, result, token>>
  BY DEF Begins, Runs, IInv, Core, ThreadOK
<1>2. /\ control' \in Control /\ control'.at = "suspend" /\ control'.co = c
      /\ control'.next = control.next /\ control'.running = control.running
  BY GotoFacts DEF Begins, Points, IInv, TypeOK
<1>3. left' \in [Coros -> 0..MaxOps]
  <2>1. left[c] - 1 \in 0..MaxOps
    BY MenuAssumption DEF Begins, IInv, TypeOK
  <2> QED
    BY <2>1 DEF Begins, IInv, TypeOK
<1>4. o \in Await /\ o.start <= o.size /\ Names(o, fd)
  BY MenuAssumption DEF Begins
<1> DEFINE b == Begun(o, fd)
<1>5. /\ b \in Operation
      /\ b.kind = o.kind /\ b.fd = fd /\ b.token = o.token /\ b.size = o.size
      /\ b.start = o.start /\ b.delay = o.delay /\ b.wrapped = o.wrapped
      /\ b.start + b.got <= b.size
  BY <1>4 DEF Begins, Begun, Await, Operation
<1> HIDE DEF b
<1>6. /\ op'[c] = b /\ \A d \in Coros \ {c} : op'[d] = op[d]
      /\ op' \in [Coros -> Operation \cup {Idle}]
  BY <1>1, <1>5 DEF IInv, TypeOK, b
<1>7. b # Idle
  BY <1>5 DEF Operation, Kinds, Reads, Writes
<1>8. /\ ~Placed(c) /\ ~Placed(c)' /\ \A d \in Coros \ {c} : Placed(d)' <=> Placed(d)
  BY <1>1, <1>2, <1>6 DEF Placed, Busy, Runs
<1>9. tm.active_timer_ids[c] = 0 /\ T!Settled(tm)
  BY <1>8 DEF IInv, Core, TimersOK
<1>10. TypeOK' /\ NeverEarly' /\ ExitOK'
  BY <1>1, <1>2, <1>3, <1>6 DEF IInv, TypeOK, Core, NeverEarly, ExitOK
<1>11. OpsOK'
  <2> SUFFICES ASSUME NEW d \in Coros, Busy(d)'
               PROVE  /\ \E q \in Menu[d] :
                            /\ op'[d].kind = q.kind /\ op'[d].token = q.token
                            /\ op'[d].size = q.size /\ op'[d].start = q.start
                            /\ op'[d].delay = q.delay /\ op'[d].wrapped = q.wrapped
                            /\ Names(q, op'[d].fd)
                      /\ op'[d].start + op'[d].got <= op'[d].size
    BY DEF OpsOK
  <2>1. CASE d = c
    BY <2>1, <1>4, <1>5, <1>6 DEF Begins
  <2>2. CASE d # c
    BY <2>2, <1>6 DEF IInv, Core, OpsOK, Busy
  <2> QED
    BY <2>1, <2>2
<1>12. ThreadOK'
  <2>1. \A d \in Coros :
           /\ at'[d] = "running" <=> control'.co = d
           /\ Busy(d)' <=> \/ at'[d] = "suspended"
                           \/ control'.co = d /\ control'.at \in {"suspend", "slot", "resume"}
    BY <1>1, <1>2, <1>6, <1>7 DEF IInv, Core, ThreadOK, Busy
  <2>2. control'.next # NoCo => /\ control'.running
                                /\ at'[control'.next] = "suspended"
                                /\ op'[control'.next].kind \in Outs
    <3>1. control.next \in Coros \cup {NoCo}
      BY DEF IInv, TypeOK, Control
    <3> QED
      BY <1>1, <1>2, <1>6, <3>1 DEF IInv, Core, ThreadOK
  <2>3. control'.co # NoCo /\ control'.at \notin {"main", "loop", "exit", "slot"}
    BY <1>2, NamesAssumption
  <2> QED
    BY <2>1, <2>2, <2>3 DEF ThreadOK
<1>13. OneWaiter'
  <2> SUFFICES ASSUME NEW d \in Coros, NEW e \in Coros, d # e, Busy(d)', Busy(e)',
                      op'[d].fd = op'[e].fd, op'[d].fd \in Socks
               PROVE  (op'[d].kind \in Ins) # (op'[e].kind \in Ins)
    BY DEF OneWaiter
  <2>1. ASSUME NEW i \in Coros \ {c}, Busy(i)', op'[i].fd = fd, fd \in Socks
        PROVE  (op'[i].kind \in Ins) # (o.kind \in Ins)
    BY <2>1, <1>6 DEF Begins, Busy
  <2>2. CASE d # c /\ e # c
    BY <2>2, <1>6 DEF IInv, Core, OneWaiter, Busy
  <2>3. CASE d = c
    BY <2>1, <2>3, <1>5, <1>6
  <2>4. CASE e = c
    BY <2>1, <2>4, <1>5, <1>6
  <2> QED
    BY <2>2, <2>3, <2>4
<1>14. TableOK'
  BY <1>1, <1>6, <1>8 DEF IInv, Core, TableOK, Slots
<1>15. WaitersOK'
  BY <1>1, <1>2, <1>6 DEF IInv, Core, WaitersOK, Runs
<1>16. TimersOK'
  <2>1. \A x \in T!Pending(tm) : x.op \in Coros \ {c}
    BY <1>9, TimerFacts
  <2>2. \A x \in T!Pending(tm) : op'[x.op].due = x.tp
    BY <1>6, <2>1 DEF IInv, Core, TimersOK
  <2>3. \A d \in Coros : tm'.active_timer_ids[d] # 0 => Placed(d)' /\ op'[d].kind \in Timed
    BY <1>1, <1>6, <1>8, <1>9 DEF IInv, Core, TimersOK
  <2> QED
    BY <1>1, <1>2, <1>9, <2>2, <2>3 DEF TimersOK, Runs
<1>17. CancelOK'
  BY <1>1, <1>6 DEF IInv, Core, CancelOK, Cancelled
<1> QED
  BY <1>10, <1>11, <1>12, <1>13, <1>14, <1>15, <1>16, <1>17 DEF Core

-------------------------------------------------------------------------------
(* What the awaiters' steps do: the table *)

\* u is the scheduler's table without the operation of c on a socket
Cleared(u, c) ==
    /\ u \in Table
    /\ \A g \in Fds \ {op[c].fd, op[c].token} : u[g] = fd_to_op[g]
    /\ Slots(u, op[c].fd)
    /\ op[c].kind \in Ins => /\ u[op[c].fd].read = NoCo
                             /\ u[op[c].fd].write = fd_to_op[op[c].fd].write
    /\ op[c].kind \in Outs => /\ u[op[c].fd].write = NoCo
                              /\ u[op[c].fd].read = fd_to_op[op[c].fd].read
    /\ op[c].token # NoToken => /\ Slots(u, op[c].token)
                                /\ u[op[c].token].read = NoCo
                                /\ u[op[c].token].write = NoCo

\* What await_resume removes is all that c had in the table.
LEMMA RemovalClears ==
    ASSUME IInv, NEW c \in Coros, Busy(c),
           NEW u, \/ op[c].kind \in Ins /\ u = RemoveCancel(RemoveRead(fd_to_op, c), c)
                  \/ op[c].kind \in Outs /\ u = RemoveCancel(RemoveWrite(fd_to_op, c), c)
    PROVE  Cleared(u, c)
<1> USE KindFacts
<1> DEFINE fd == op[c].fd
           tok == op[c].token
           mid == IF op[c].kind \in Ins THEN RemoveRead(fd_to_op, c) ELSE RemoveWrite(fd_to_op, c)
<1>1. /\ fd \in Socks /\ fd \in Fds /\ fd # TimerFd /\ fd # tok
      /\ tok # NoToken => tok \in Fds /\ tok \in Tokens /\ tok # TimerFd
  BY OperationFacts, NamesAssumption DEF IInv, Core, Fds
<1>2. fd_to_op \in Table /\ \A g \in Fds : Slots(fd_to_op, g)
  BY DEF IInv, Core, TypeOK, TableOK, Table
<1>3. /\ mid \in Table /\ Slots(mid, fd)
      /\ \A g \in Fds \ {fd} : mid[g] = fd_to_op[g]
      /\ op[c].kind \in Ins => mid[fd].read = NoCo /\ mid[fd].write = fd_to_op[fd].write
      /\ op[c].kind \in Outs => mid[fd].write = NoCo /\ mid[fd].read = fd_to_op[fd].read
  BY <1>1, <1>2, RemovesRead, RemovesWrite DEF RemoveRead, RemoveWrite
<1>4. u = IF tok = NoToken THEN mid ELSE I!Remove(mid, tok, I!EVENT_READ)
  BY DEF RemoveCancel
<1> HIDE DEF mid
<1>5. CASE tok = NoToken
  BY <1>1, <1>3, <1>4, <1>5 DEF Cleared
<1>6. CASE tok # NoToken
  <2>1. Slots(mid, tok) /\ mid[tok].write = NoCo
    BY <1>1, <1>2, <1>3, <1>6 DEF Slots, IInv, Core, TableOK
  <2>2. /\ u \in Table /\ Slots(u, tok)
        /\ u[tok].read = NoCo /\ u[tok].write = NoCo
        /\ \A g \in Fds \ {tok} : u[g] = mid[g]
    BY <1>1, <1>3, <1>4, <1>6, <2>1, RemovesRead
  <2>3. Slots(u, fd)
    BY <1>1, <1>3, <2>2 DEF Slots
  <2> QED
    BY <1>1, <1>3, <2>2, <2>3 DEF Cleared
<1> QED
  BY <1>5, <1>6

\* The refresh_timer_registration of an awaiter with a timeout, on the cleared table
LEMMA TimeoutWithdraws ==
    ASSUME IInv, NEW c \in Coros, Busy(c), op[c].kind \in {"read_timeout", "write_timeout"},
           NEW table, Cleared(table, c),
           NEW v, \/ v = T!Cancel(tm, c)
                  \/ v = T!Cancel(T!Consume(tm), c) /\ tm.cur.op = c,
           RefreshTimerRegistration(v, table)
    PROVE  /\ TimerDropped(tm, tm', c) /\ ServesTimer(fd_to_op', tm')
           /\ fd_to_op' \in Table /\ \A g \in Fds \ {TimerFd} : fd_to_op'[g] = table[g]
<1>1. T!Settled(tm)
  BY DEF IInv, Core, TimersOK
<1>2. /\ tm' \in T!RefreshCurrentTimer(v)
      /\ fd_to_op' = IF T!CurrentEmpty(tm')
                     THEN I!Remove(table, TimerFd, I!EVENT_TIMER)
                     ELSE I!Submit(table, TimerFd, tm'.cur.op, I!EVENT_TIMER)
  BY DEF RefreshTimerRegistration
<1>3. TimerDropped(tm, tm', c)
  BY <1>1, <1>2, TimerGivenUp
<1>4. T!Settled(tm')
  BY <1>3 DEF TimerDropped
<1>5. table \in Table /\ Slots(table, TimerFd) /\ table[TimerFd].write = NoCo
  <2>1. TimerFd \in Fds \ {op[c].fd, op[c].token}
    BY OperationFacts, NamesAssumption DEF IInv, Core, Fds
  <2>2. table[TimerFd] = fd_to_op[TimerFd] /\ table \in Table
    BY <2>1 DEF Cleared
  <2> QED
    BY <2>1, <2>2 DEF IInv, Core, TableOK, Slots
<1>6. T!CurrentEmpty(tm') <=> tm'.cur.op = NoCo
  BY <1>4, TimerFacts DEF T!CurrentEmpty
<1>7. /\ fd_to_op' \in Table /\ ServesTimer(fd_to_op', tm')
      /\ \A g \in Fds \ {TimerFd} : fd_to_op'[g] = table[g]
  BY <1>2, <1>4, <1>5, <1>6, TimerFollowed
<1> QED
  BY <1>3, <1>7

-------------------------------------------------------------------------------
(* What the awaiters' steps do: the sockets and the loops *)

\* Bytes move; the connections stay what they are.
Transfers ==
    /\ sock' \in [Socks -> SocketState]
    /\ \A s \in Socks : /\ sock'[s].link = sock[s].link /\ sock'[s].owner = sock[s].owner
                        /\ sock'[s].inbox <= sock'[s].sent
                        /\ sock'[s].taken <= 1 + sock'[s].drained

\* recv takes no more than there is,
LEMMA Receives ==
    ASSUME TypeOK, SocksOK, NEW s \in Socks, NEW n \in Nat, n <= sock[s].inbox, NEW count \in Nat,
           \/ sock' = [sock EXCEPT ![s].inbox = @ - n, ![s].told.in = @ + count]
           \/ sock' = [sock EXCEPT ![s].inbox = @ - n]
    PROVE  Transfers
<1>1. sock[s] \in SocketState
  BY DEF TypeOK
<1>2. /\ sock'[s] \in SocketState
      /\ sock'[s].link = sock[s].link /\ sock'[s].owner = sock[s].owner
      /\ sock'[s].inbox = sock[s].inbox - n /\ sock'[s].sent = sock[s].sent
      /\ sock'[s].taken = sock[s].taken /\ sock'[s].drained = sock[s].drained
  <2>1. CASE sock' = [sock EXCEPT ![s].inbox = @ - n, ![s].told.in = @ + count]
    <3>1. sock'[s] = [sent |-> sock[s].sent, inbox |-> sock[s].inbox - n,
                      drained |-> sock[s].drained, taken |-> sock[s].taken,
                      told |-> [in |-> sock[s].told.in + count, out |-> sock[s].told.out],
                      link |-> sock[s].link, owner |-> sock[s].owner]
      BY <1>1, <2>1 DEF TypeOK, SocketState
    <3> QED
      BY <1>1, <3>1 DEF SocketState
  <2>2. CASE sock' = [sock EXCEPT ![s].inbox = @ - n]
    <3>1. sock'[s] = [sent |-> sock[s].sent, inbox |-> sock[s].inbox - n,
                      drained |-> sock[s].drained, taken |-> sock[s].taken,
                      told |-> sock[s].told,
                      link |-> sock[s].link, owner |-> sock[s].owner]
      BY <1>1, <2>2 DEF TypeOK, SocketState
    <3> QED
      BY <1>1, <3>1 DEF SocketState
  <2> QED
    BY <2>1, <2>2
<1>3. \A z \in Socks \ {s} : sock'[z] = sock[z]
  BY DEF TypeOK
<1>4. sock' \in [Socks -> SocketState]
  BY <1>2, <1>3 DEF TypeOK
<1> QED
  BY <1>1, <1>2, <1>3, <1>4 DEF Transfers, SocksOK, SocketState

\* and send adds no more than there is room for.
LEMMA Sends ==
    ASSUME TypeOK, SocksOK, NEW s \in Socks, NEW n \in Nat,
           n = 0 \/ sock[s].taken + n <= 1 + sock[s].drained, NEW total \in Nat,
           \/ sock' = [sock EXCEPT ![s].taken = @ + n, ![s].told.out = @ + total]
           \/ sock' = [sock EXCEPT ![s].taken = @ + n]
    PROVE  Transfers
<1>1. sock[s] \in SocketState
  BY DEF TypeOK
<1>2. /\ sock'[s] \in SocketState
      /\ sock'[s].link = sock[s].link /\ sock'[s].owner = sock[s].owner
      /\ sock'[s].inbox = sock[s].inbox /\ sock'[s].sent = sock[s].sent
      /\ sock'[s].taken = sock[s].taken + n /\ sock'[s].drained = sock[s].drained
  <2>1. CASE sock' = [sock EXCEPT ![s].taken = @ + n, ![s].told.out = @ + total]
    <3>1. sock'[s] = [sent |-> sock[s].sent, inbox |-> sock[s].inbox,
                      drained |-> sock[s].drained, taken |-> sock[s].taken + n,
                      told |-> [in |-> sock[s].told.in, out |-> sock[s].told.out + total],
                      link |-> sock[s].link, owner |-> sock[s].owner]
      BY <1>1, <2>1 DEF TypeOK, SocketState
    <3> QED
      BY <1>1, <3>1 DEF SocketState
  <2>2. CASE sock' = [sock EXCEPT ![s].taken = @ + n]
    <3>1. sock'[s] = [sent |-> sock[s].sent, inbox |-> sock[s].inbox,
                      drained |-> sock[s].drained, taken |-> sock[s].taken + n,
                      told |-> sock[s].told,
                      link |-> sock[s].link, owner |-> sock[s].owner]
      BY <1>1, <2>2 DEF TypeOK, SocketState
    <3> QED
      BY <1>1, <3>1 DEF SocketState
  <2> QED
    BY <2>1, <2>2
<1>3. \A z \in Socks \ {s} : sock'[z] = sock[z]
  BY DEF TypeOK
<1>4. sock' \in [Socks -> SocketState]
  BY <1>2, <1>3 DEF TypeOK
<1>5. sock'[s].taken <= 1 + sock'[s].drained /\ sock'[s].inbox <= sock'[s].sent
  BY <1>1, <1>2 DEF SocksOK, SocketState
<1> QED
  BY <1>1, <1>2, <1>3, <1>4, <1>5 DEF Transfers, SocksOK

\* recv returns at most what has arrived and what the buffer has room for.
LEMMA TryReadFacts ==
    ASSUME TypeOK, NEW s \in Socks, NEW n \in Nat, NEW r \in TryRead(s, n)
    PROVE  /\ r.ec \in {"ok", "error"} /\ r.n \in Nat
           /\ r.n <= n /\ r.n <= sock[s].inbox
<1>1. sock[s].inbox \in Nat
  BY DEF TypeOK, SocketState
<1> QED
  BY <1>1 DEF TryRead

\* send takes at most what the kernel has room for and what there is to send.
LEMMA TryWriteFacts ==
    ASSUME TypeOK, SocksOK, NEW s \in Socks, NEW n \in Nat
    PROVE  LET r == TryWrite(s, n)
           IN  /\ r.ec \in {"ok", "error"} /\ r.n \in Nat
               /\ r.n <= n /\ (r.n = 0 \/ sock[s].taken + r.n <= 1 + sock[s].drained)
<1>1. sock[s].taken \in Nat /\ sock[s].drained \in Nat /\ sock[s].taken <= 1 + sock[s].drained
  BY DEF TypeOK, SocketState, SocksOK
<1>2. Room(s) \in Nat /\ (Room(s) = 0 \/ Room(s) = 1 + sock[s].drained - sock[s].taken)
  BY <1>1 DEF Room
<1> QED
  BY <1>1, <1>2 DEF TryWrite

\* The reading and writing loops either return or go on, and move bytes.
LEMMA ReadLoopSteps ==
    ASSUME IInv, NEW c \in Coros, Busy(c), op[c].fd \in Socks, op[c].kind # "wait_for",
           NEW ec \in Errors, ec = "timed_out" => op[c].due <= now,
           NEW n \in Nat, n <= Remain(c), n <= sock[op[c].fd].inbox,
           ReadLoop(c, ec, n)
    PROVE  /\ (\E e, m : Ends(c, e, m)) \/ (\E k : GoesOn(c, k))
           /\ Transfers
<1> DEFINE count == op[c].got + n
           s == op[c].fd
<1>1. /\ op[c].got \in Nat /\ op[c].start \in Nat /\ op[c].size \in Nat
      /\ count \in Nat /\ op[c].start + count \in Nat
      /\ op[c].start + count <= op[c].size
  <2>1. op[c].got \in Nat /\ op[c].start \in Nat /\ op[c].size \in Nat
    BY OperationFacts DEF IInv, Core
  <2> QED
    BY <2>1 DEF Remain
<1>2. \/ /\ Return(c, ec, op[c].start + count)
         /\ sock' = [sock EXCEPT ![s].inbox = @ - n, ![s].told.in = @ + count]
      \/ /\ op' = [op EXCEPT ![c].got = count]
         /\ sock' = [sock EXCEPT ![s].inbox = @ - n]
         /\ Goto("suspend", c) /\ result' = result
  BY DEF ReadLoop
<1> HIDE DEF count
<1>3. Transfers
  BY <1>1, <1>2, Receives DEF IInv
<1>4. CASE Return(c, ec, op[c].start + count)
  <2>1. Ends(c, ec, op[c].start + count)
    BY <1>1, <1>4 DEF Ends
  <2> QED
    BY <1>3, <2>1
<1>5. CASE op' = [op EXCEPT ![c].got = count] /\ Goto("suspend", c) /\ result' = result
  <2>1. GoesOn(c, count)
    BY <1>1, <1>5 DEF GoesOn
  <2> QED
    BY <1>3, <2>1
<1> QED
  BY <1>2, <1>4, <1>5

\* ... and so does the loop of a write.
LEMMA WriteLoopSteps ==
    ASSUME IInv, NEW c \in Coros, Busy(c), op[c].fd \in Socks, op[c].kind # "wait_for",
           NEW ec \in Errors, ec = "timed_out" => op[c].due <= now,
           NEW n \in Nat, n <= Remain(c),
           n = 0 \/ sock[op[c].fd].taken + n <= 1 + sock[op[c].fd].drained,
           NEW stat, WriteLoop(c, ec, n, stat)
    PROVE  /\ (\E e, m : Ends(c, e, m)) \/ (\E k : GoesOn(c, k))
           /\ Transfers
<1> DEFINE total == op[c].got + n
           s == op[c].fd
<1>1. /\ op[c].got \in Nat /\ op[c].start \in Nat /\ op[c].size \in Nat
      /\ total \in Nat /\ op[c].start + total <= op[c].size
  <2>1. op[c].got \in Nat /\ op[c].start \in Nat /\ op[c].size \in Nat
    BY OperationFacts DEF IInv, Core
  <2> QED
    BY <2>1 DEF Remain
<1>2. \/ /\ Return(c, ec, total)
         /\ sock' = [sock EXCEPT ![s].taken = @ + n, ![s].told.out = @ + total]
      \/ /\ op' = [op EXCEPT ![c].got = total]
         /\ sock' = [sock EXCEPT ![s].taken = @ + n]
         /\ Goto("suspend", c) /\ result' = result
  BY DEF WriteLoop
<1> HIDE DEF total
<1>3. Transfers
  BY <1>1, <1>2, Sends DEF IInv
<1>4. CASE Return(c, ec, total)
  <2>1. Ends(c, ec, total)
    BY <1>1, <1>4 DEF Ends
  <2> QED
    BY <1>3, <2>1
<1>5. CASE op' = [op EXCEPT ![c].got = total] /\ Goto("suspend", c) /\ result' = result
  <2>1. GoesOn(c, total)
    BY <1>1, <1>5 DEF GoesOn
  <2> QED
    BY <1>3, <2>1
<1> QED
  BY <1>2, <1>4, <1>5

\* consume() leaves every flag as it is.
LEMMA ConsumeKeepsFlags ==
    ASSUME TypeOK, NEW c, ConsumeCancel(c) \/ UNCHANGED token
    PROVE  /\ token' \in [Tokens -> [cancelled : BOOLEAN, eventfd : {"empty", "due", "readable"}]]
           /\ \A t \in Tokens : token'[t].cancelled = token[t].cancelled
<1>1. CASE UNCHANGED token
  BY <1>1 DEF TypeOK
<1>2. CASE ConsumeCancel(c)
  <2>1. \A t \in Tokens : token[t] \in [cancelled : BOOLEAN, eventfd : {"empty", "due", "readable"}]
    BY DEF TypeOK
  <2>2. token' = [token EXCEPT ![op[c].token].eventfd = IF @ = "readable" THEN "empty" ELSE @]
    BY <1>2 DEF ConsumeCancel
  <2>3. ASSUME NEW t \in Tokens
        PROVE  \/ token'[t] = token[t]
               \/ token'[t] = [cancelled |-> token[t].cancelled, eventfd |-> "empty"]
    BY <2>1, <2>2 DEF TypeOK
  <2>4. ASSUME NEW t \in Tokens
        PROVE  /\ token'[t] \in [cancelled : BOOLEAN, eventfd : {"empty", "due", "readable"}]
               /\ token'[t].cancelled = token[t].cancelled
    <3> DEFINE b == token[t].cancelled
    <3>1. b \in BOOLEAN /\ (token'[t] = token[t] \/ token'[t] = [cancelled |-> b, eventfd |-> "empty"])
      BY <2>1, <2>3
    <3> HIDE DEF b
    <3>2. token'[t] \in [cancelled : BOOLEAN, eventfd : {"empty", "due", "readable"}]
      BY <2>1, <3>1
    <3>3. token'[t] = token[t] \/ token'[t].cancelled = b
      BY <3>1
    <3> QED
      BY <3>2, <3>3 DEF b
  <2>5. token' \in [Tokens -> [cancelled : BOOLEAN, eventfd : {"empty", "due", "readable"}]]
    BY <2>2, <2>4 DEF TypeOK
  <2> QED
    BY <2>4, <2>5
<1> QED
  BY <1>1, <1>2

\* The timer that is current and due is that of the operation that finds it so.
LEMMA TimedOutIsDue ==
    ASSUME IInv, NEW c \in Coros, tm.cur.op = c, tm.alarm <= now
    PROVE  op[c].due <= now
<1>1. T!Settled(tm)
  BY DEF IInv, Core, TimersOK
<1>2. tm.cur \in T!Pending(tm) /\ tm.alarm = tm.cur.tp
  BY <1>1, TimerFacts, NamesAssumption
<1> QED
  BY <1>2 DEF IInv, Core, TimersOK

\* await_resume of the awaiters without a timer
LEMMA PlainWithdraws ==
    ASSUME IInv, NEW c \in Coros, RecvResume(c) \/ RecvSomeResume(c) \/ SendResume(c)
    PROVE  Withdraws(c) /\ Transfers
<1> USE KindFacts
<1>1. /\ Runs(c, "resume") /\ op[c].kind \in {"read", "read_some", "write"}
      /\ UNCHANGED <<now, tm, batch, at, left>>
  BY DEF RecvResume, RecvSomeResume, SendResume
<1>2. Busy(c) /\ control.co = c /\ control.at = "resume"
  BY <1>1 DEF Runs, IInv, Core, ThreadOK
<1>3. /\ op[c].fd \in Socks /\ op[c].fd # TimerFd /\ op[c].kind \notin Timed
      /\ op[c].got \in Nat /\ op[c].start \in Nat /\ op[c].size \in Nat /\ Remain(c) \in Nat
      /\ op[c].kind = "read_some" => op[c].token = NoToken
      /\ TimerFd \in Fds \ {op[c].fd, op[c].token}
  BY <1>1, <1>2, OperationFacts, NamesAssumption DEF IInv, Core, Fds
<1>4. Cleared(fd_to_op', c)
  <2>1. \/ op[c].kind \in Ins /\ fd_to_op' = RemoveCancel(RemoveRead(fd_to_op, c), c)
        \/ op[c].kind \in Outs /\ fd_to_op' = RemoveCancel(RemoveWrite(fd_to_op, c), c)
    BY <1>1, <1>3 DEF RecvResume, RecvSomeResume, SendResume, RemoveCancel
  <2> QED
    BY <1>2, <2>1, RemovalClears
<1>5. /\ token' \in [Tokens -> [cancelled : BOOLEAN, eventfd : {"empty", "due", "readable"}]]
      /\ \A t \in Tokens : token'[t].cancelled = token[t].cancelled
  <2>1. ConsumeCancel(c) \/ UNCHANGED token
    BY DEF RecvResume, RecvSomeResume, SendResume
  <2> QED
    BY <2>1, ConsumeKeepsFlags DEF IInv
<1>6. ((\E e, m : Ends(c, e, m)) \/ (\E k : GoesOn(c, k))) /\ Transfers
  <2>1. CASE ReadLoop(c, "canceled", 0)
    <3>1. "canceled" \in Errors /\ 0 \in Nat /\ 0 <= Remain(c) /\ 0 <= sock[op[c].fd].inbox
      BY <1>3 DEF Errors, IInv, TypeOK, SocketState
    <3> QED
      BY <1>1, <1>2, <1>3, <2>1, <3>1, ReadLoopSteps
  <2>2. CASE \E r \in TryRead(op[c].fd, Remain(c)) : ReadLoop(c, r.ec, r.n)
    <3>1. PICK r \in TryRead(op[c].fd, Remain(c)) : ReadLoop(c, r.ec, r.n)
      BY <2>2
    <3>2. /\ r.ec \in Errors /\ r.ec # "timed_out" /\ r.n \in Nat
          /\ r.n <= Remain(c) /\ r.n <= sock[op[c].fd].inbox
      BY <1>3, TryReadFacts DEF Errors, IInv
    <3> QED
      BY <1>1, <1>2, <1>3, <3>1, <3>2, ReadLoopSteps
  <2>3. CASE WriteLoop(c, "canceled", 0, "CANCELLED")
    <3>1. "canceled" \in Errors /\ 0 \in Nat /\ 0 <= Remain(c)
      BY <1>3 DEF Errors
    <3> QED
      BY <1>1, <1>2, <1>3, <2>3, <3>1, WriteLoopSteps
  <2>4. ASSUME NEW r, r = TryWrite(op[c].fd, Remain(c)), WriteLoop(c, r.ec, r.n, r.stat)
        PROVE  ((\E e, m : Ends(c, e, m)) \/ (\E k : GoesOn(c, k))) /\ Transfers
    <3>1. /\ r.ec \in Errors /\ r.ec # "timed_out" /\ r.n \in Nat
          /\ r.n <= Remain(c)
          /\ r.n = 0 \/ sock[op[c].fd].taken + r.n <= 1 + sock[op[c].fd].drained
      BY <1>3, <2>4, TryWriteFacts DEF Errors, IInv
    <3> QED
      BY <1>1, <1>2, <1>3, <2>4, <3>1, WriteLoopSteps
  <2>5. CASE RecvSomeResume(c)
    <3>1. PICK r \in TryRead(op[c].fd, Remain(c)) :
             /\ Return(c, r.ec, r.n)
             /\ sock' = [sock EXCEPT ![op[c].fd].inbox = @ - r.n, ![op[c].fd].told.in = @ + r.n]
      BY <2>5 DEF RecvSomeResume
    <3>2. /\ r.ec \in Errors /\ r.ec # "timed_out" /\ r.n \in Nat /\ r.n <= sock[op[c].fd].inbox
      BY <1>3, TryReadFacts DEF Errors, IInv
    <3>3. Ends(c, r.ec, r.n)
      BY <1>1, <3>1, <3>2 DEF Ends
    <3>4. Transfers
      BY <1>3, <3>1, <3>2, Receives DEF IInv
    <3> QED
      BY <3>3, <3>4
  <2>6. CASE RecvResume(c)
    BY <2>1, <2>2, <2>6 DEF RecvResume
  <2>7. CASE SendResume(c)
    <3>1. \/ WriteLoop(c, "canceled", 0, "CANCELLED")
          \/ LET r == TryWrite(op[c].fd, Remain(c)) IN WriteLoop(c, r.ec, r.n, r.stat)
      BY <2>7 DEF SendResume
    <3> QED
      BY <2>3, <2>4, <3>1
  <2> QED
    BY <2>5, <2>6, <2>7
<1> QED
  BY <1>1, <1>2, <1>3, <1>4, <1>5, <1>6 DEF Withdraws, Cleared

\* ... and of those with one
LEMMA TimeoutEndsWithdraw ==
    ASSUME IInv, NEW c \in Coros, RecvTimeoutResume(c) \/ SendTimeoutResume(c)
    PROVE  Withdraws(c) /\ Transfers
<1> USE KindFacts
<1> DEFINE table == IF op[c].kind = "read_timeout"
                    THEN RemoveCancel(RemoveRead(fd_to_op, c), c)
                    ELSE RemoveCancel(RemoveWrite(fd_to_op, c), c)
<1>1. /\ Runs(c, "resume") /\ op[c].kind \in {"read_timeout", "write_timeout"}
      /\ UNCHANGED <<now, batch, at, left>>
  BY DEF RecvTimeoutResume, SendTimeoutResume
<1>2. Busy(c) /\ control.co = c /\ control.at = "resume"
  BY <1>1 DEF Runs, IInv, Core, ThreadOK
<1>3. /\ op[c].fd \in Socks /\ op[c].fd \in Fds /\ op[c].fd # TimerFd /\ op[c].kind \in Timed
      /\ op[c].got \in Nat /\ op[c].start \in Nat /\ op[c].size \in Nat /\ Remain(c) \in Nat
      /\ op[c].token # NoToken => op[c].token \in Fds /\ op[c].token # TimerFd
  BY <1>1, <1>2, OperationFacts, NamesAssumption DEF IInv, Core, Fds
<1>4. Cleared(table, c)
  BY <1>1, <1>2, RemovalClears
<1>5. /\ token' \in [Tokens -> [cancelled : BOOLEAN, eventfd : {"empty", "due", "readable"}]]
      /\ \A t \in Tokens : token'[t].cancelled = token[t].cancelled
  <2>1. ConsumeCancel(c) \/ UNCHANGED token
    BY DEF RecvTimeoutResume, SendTimeoutResume
  <2> QED
    BY <2>1, ConsumeKeepsFlags DEF IInv
<1>6. \E v : /\ \/ v = T!Cancel(tm, c)
                \/ v = T!Cancel(T!Consume(tm), c) /\ tm.cur.op = c
             /\ RefreshTimerRegistration(v, table)
  <2>1. CASE RecvTimeoutResume(c)
    BY <2>1 DEF RecvTimeoutResume, TimedOut, T!IsCurrent
  <2>2. CASE SendTimeoutResume(c)
    BY <2>2 DEF SendTimeoutResume, TimedOut, T!IsCurrent
  <2> QED
    BY <2>1, <2>2
<1>7. /\ TimerDropped(tm, tm', c) /\ ServesTimer(fd_to_op', tm')
      /\ fd_to_op' \in Table /\ \A g \in Fds \ {TimerFd} : fd_to_op'[g] = table[g]
  BY <1>1, <1>2, <1>4, <1>6, TimeoutWithdraws
<1>8. TimedOut(c) => op[c].due <= now
  <2>1. tm.alarm \in Nat /\ now \in Nat
    BY TimerFacts DEF IInv, Core, TimersOK, TypeOK
  <2>2. TimedOut(c) => tm.cur.op = c /\ tm.alarm <= now
    BY <2>1 DEF TimedOut, T!IsCurrent, T!GetTimer
  <2> QED
    BY <2>2, TimedOutIsDue
<1>9. ((\E e, m : Ends(c, e, m)) \/ (\E k : GoesOn(c, k))) /\ Transfers
  <2>1. \A ec \in {"canceled", "timed_out"} :
           /\ ec \in Errors /\ 0 \in Nat /\ 0 <= Remain(c) /\ 0 <= sock[op[c].fd].inbox
    BY <1>3 DEF Errors, IInv, TypeOK, SocketState
  <2>2. ASSUME NEW ec \in {"canceled", "timed_out"}, ec = "timed_out" => TimedOut(c),
               ReadLoop(c, ec, 0) \/ \E stat : WriteLoop(c, ec, 0, stat)
        PROVE  ((\E e, m : Ends(c, e, m)) \/ (\E k : GoesOn(c, k))) /\ Transfers
    <3>1. ec = "timed_out" => op[c].due <= now
      BY <2>2, <1>8
    <3>2. CASE ReadLoop(c, ec, 0)
      BY <1>1, <1>2, <1>3, <2>1, <3>1, <3>2, ReadLoopSteps
    <3>3. ASSUME NEW stat, WriteLoop(c, ec, 0, stat)
          PROVE  ((\E e, m : Ends(c, e, m)) \/ (\E k : GoesOn(c, k))) /\ Transfers
      BY <1>1, <1>2, <1>3, <2>1, <3>1, <3>3, WriteLoopSteps
    <3> QED
      BY <2>2, <3>2, <3>3
  <2>3. CASE \E r \in TryRead(op[c].fd, Remain(c)) : ReadLoop(c, r.ec, r.n)
    <3>1. PICK r \in TryRead(op[c].fd, Remain(c)) : ReadLoop(c, r.ec, r.n)
      BY <2>3
    <3>2. /\ r.ec \in Errors /\ r.ec # "timed_out" /\ r.n \in Nat
          /\ r.n <= Remain(c) /\ r.n <= sock[op[c].fd].inbox
      BY <1>3, TryReadFacts DEF Errors, IInv
    <3> QED
      BY <1>1, <1>2, <1>3, <3>1, <3>2, ReadLoopSteps
  <2>4. ASSUME NEW r, r = TryWrite(op[c].fd, Remain(c)), WriteLoop(c, r.ec, r.n, r.stat)
        PROVE  ((\E e, m : Ends(c, e, m)) \/ (\E k : GoesOn(c, k))) /\ Transfers
    <3>1. /\ r.ec \in Errors /\ r.ec # "timed_out" /\ r.n \in Nat
          /\ r.n <= Remain(c)
          /\ r.n = 0 \/ sock[op[c].fd].taken + r.n <= 1 + sock[op[c].fd].drained
      BY <1>3, <2>4, TryWriteFacts DEF Errors, IInv
    <3> QED
      BY <1>1, <1>2, <1>3, <2>4, <3>1, WriteLoopSteps
  <2>5. CASE RecvTimeoutResume(c)
    <3>1. \/ ReadLoop(c, "canceled", 0)
          \/ TimedOut(c) /\ ReadLoop(c, "timed_out", 0)
          \/ \E r \in TryRead(op[c].fd, Remain(c)) : ReadLoop(c, r.ec, r.n)
      BY <2>5 DEF RecvTimeoutResume
    <3> QED
      BY <2>2, <2>3, <3>1
  <2>6. CASE SendTimeoutResume(c)
    <3>1. \/ WriteLoop(c, "canceled", 0, "CANCELLED")
          \/ TimedOut(c) /\ WriteLoop(c, "timed_out", 0, "TIMEOUT")
          \/ LET r == TryWrite(op[c].fd, Remain(c)) IN WriteLoop(c, r.ec, r.n, r.stat)
      BY <2>6 DEF SendTimeoutResume
    <3> QED
      BY <2>2, <2>4, <3>1
  <2> QED
    BY <2>5, <2>6
<1> HIDE DEF table
<1>10. /\ \A g \in Fds \ {op[c].fd, op[c].token, TimerFd} : fd_to_op'[g] = fd_to_op[g]
       /\ fd_to_op'[op[c].fd] = table[op[c].fd]
       /\ op[c].token # NoToken => fd_to_op'[op[c].token] = table[op[c].token]
  BY <1>3, <1>4, <1>7 DEF Cleared
<1>11. /\ Slots(fd_to_op', op[c].fd)
       /\ op[c].token # NoToken => Slots(fd_to_op', op[c].token)
  BY <1>4, <1>10 DEF Cleared, Slots
<1> QED
  BY <1>1, <1>2, <1>3, <1>4, <1>5, <1>7, <1>9, <1>10, <1>11 DEF Withdraws, Cleared

\* ... and of wait_for, which takes the current timer
LEMMA WaitWithdraws ==
    ASSUME IInv, NEW c \in Coros, WaitResume(c)
    PROVE  Withdraws(c) /\ Transfers
<1> USE KindFacts
<1>1. /\ Runs(c, "resume") /\ op[c].kind = "wait_for" /\ T!TimerFdReadable(tm, now)
      /\ Return(c, "ok", 0)
      /\ UNCHANGED <<now, batch, at, left, sock, token>>
  BY DEF WaitResume
<1>2. Busy(c) /\ control.co = c /\ control.at = "resume"
  BY <1>1 DEF Runs, IInv, Core, ThreadOK
<1>3. /\ op[c].fd = TimerFd /\ op[c].kind \in Timed /\ op[c].kind \notin Ins \cup Outs
      /\ op[c].token = NoToken
  BY <1>1, <1>2, OperationFacts DEF IInv, Core
<1>4. tm.cur.op = c /\ T!Settled(tm) /\ tm.alarm <= now /\ tm.cur.op # NoCo
  BY <1>1, NamesAssumption DEF IInv, Core, TimersOK, T!TimerFdReadable
<1>5. PICK t \in T!Advance(T!Consume(tm)) : RefreshTimerRegistration(t, fd_to_op)
  BY DEF WaitResume
<1>6. /\ tm' \in T!RefreshCurrentTimer(t)
      /\ fd_to_op' = IF T!CurrentEmpty(tm')
                     THEN I!Remove(fd_to_op, TimerFd, I!EVENT_TIMER)
                     ELSE I!Submit(fd_to_op, TimerFd, tm'.cur.op, I!EVENT_TIMER)
  BY <1>5 DEF RefreshTimerRegistration
<1>7. TimerDropped(tm, tm', c)
  <2>1. t \in T!Advance(T!Consume(tm))
    BY <1>5
  <2>2. TimerDropped(tm, tm', tm.cur.op)
    BY <1>4, <1>6, <2>1, TimerWaited
  <2> QED
    BY <1>4, <2>2
<1>8. T!Settled(tm')
  BY <1>7 DEF TimerDropped
<1>9. /\ fd_to_op \in Table
      /\ Slots(fd_to_op, TimerFd) /\ fd_to_op[TimerFd].write = NoCo
  BY DEF IInv, Core, TypeOK, TableOK, Table, Fds
<1>10. T!CurrentEmpty(tm') <=> tm'.cur.op = NoCo
  BY <1>8, TimerFacts DEF T!CurrentEmpty
<1>11. /\ fd_to_op' \in Table /\ ServesTimer(fd_to_op', tm')
       /\ \A g \in Fds \ {TimerFd} : fd_to_op'[g] = fd_to_op[g]
  BY <1>6, <1>8, <1>9, <1>10, TimerFollowed
<1>12. Ends(c, "ok", 0)
  <2>1. op[c].due <= now
    BY <1>4, TimedOutIsDue
  <2> QED
    BY <1>1, <2>1 DEF Ends, Errors
<1>13. Transfers
  BY <1>1 DEF Transfers, IInv, TypeOK, SocksOK
<1>14. /\ token' \in [Tokens -> [cancelled : BOOLEAN, eventfd : {"empty", "due", "readable"}]]
       /\ \A t2 \in Tokens : token'[t2].cancelled = token[t2].cancelled
  BY <1>1 DEF IInv, TypeOK
<1> QED
  BY <1>1, <1>2, <1>3, <1>7, <1>11, <1>12, <1>13, <1>14 DEF Withdraws

-------------------------------------------------------------------------------
(* What the other steps of the thread do *)

AtStates == {"created", "running", "suspended", "stranded", "done", "threw"}

\* Steps that the thread takes no part in, and those that leave it where it is
LEMMA QuietKeepsCore ==
    ASSUME IInv, UNCHANGED <<tm, fd_to_op, control, at, op, left, result>>,
           now' \in Nat, now' >= now,
           batch' \subseteq [fd : Fds, in : BOOLEAN, out : BOOLEAN],
           sock' \in [Socks -> SocketState],
           token' \in [Tokens -> [cancelled : BOOLEAN, eventfd : {"empty", "due", "readable"}]],
           \A t \in Tokens : token[t].cancelled => token'[t].cancelled
    PROVE  TypeOK' /\ Core'
<1>1. control' \in Control /\ at' \in [Coros -> AtStates]
  BY DEF IInv, TypeOK, AtStates
<1>2. ThreadOK' /\ ExitOK'
  BY DEF IInv, Core, ThreadOK, ExitOK, Busy
<1>3. \A d \in Coros :
         /\ Placed(d) => Placed(d)'
         /\ at'[d] = "suspended" => at[d] = "suspended"
         /\ Runs(d, "resume")' /\ op[d].kind \in Timed
               => tm.active_timer_ids[d] # 0 \/ Cancelled(d)
         /\ Runs(d, "resume")' /\ op[d].kind = "wait_for" => tm.cur.op = d
  BY DEF IInv, Core, TimersOK, Placed, Busy, Runs
<1> QED
  BY <1>1, <1>2, <1>3, OthersKeepCore DEF AtStates

\* A token that was cancelled before: await_resume at once
LEMMA ResumeAtOnceKeepsCore ==
    ASSUME IInv, NEW c \in Coros, Runs(c, "suspend"), AlreadyCancelled(c),
           UNCHANGED <<now, batch, left, result, sock, token>>
    PROVE  TypeOK' /\ Core'
<1>1. /\ control.at = "suspend" /\ control.co = c /\ at[c] = "running" /\ Busy(c)
      /\ Cancelled(c) /\ Goto("resume", c) /\ UNCHANGED <<tm, fd_to_op, at, op>>
  BY Unplaced DEF AlreadyCancelled, Runs
<1>2. /\ control' \in Control /\ control'.at = "resume" /\ control'.co = c
      /\ control'.next = control.next /\ control'.running = control.running
  BY <1>1, GotoFacts DEF Points, IInv, TypeOK
<1>3. op[c].kind # "wait_for"
  BY <1>1, OperationFacts DEF Cancelled, IInv, Core
<1>4. ThreadOK'
  <2>1. \A d \in Coros :
           /\ at'[d] = "running" <=> control'.co = d
           /\ Busy(d)' <=> \/ at'[d] = "suspended"
                           \/ control'.co = d /\ control'.at \in {"suspend", "slot", "resume"}
    BY <1>1, <1>2 DEF IInv, Core, ThreadOK, Busy
  <2>2. control'.next # NoCo => /\ control'.running
                                /\ at'[control'.next] = "suspended"
                                /\ op'[control'.next].kind \in Outs
    BY <1>1, <1>2 DEF IInv, Core, ThreadOK
  <2>3. control'.co # NoCo /\ control'.at \notin {"main", "loop", "exit", "slot"}
    BY <1>2, NamesAssumption
  <2> QED
    BY <2>1, <2>2, <2>3 DEF ThreadOK
<1>5. ExitOK' /\ now' \in Nat /\ now' >= now
  BY <1>1, <1>2 DEF ExitOK, IInv, TypeOK
<1>6. \A d \in Coros :
         /\ Placed(d) => Placed(d)'
         /\ at'[d] = "suspended" => at[d] = "suspended"
         /\ ~Runs(d, "slot")'
         /\ Runs(d, "resume")' /\ op[d].kind \in Timed
               => tm.active_timer_ids[d] # 0 \/ Cancelled(d)
         /\ Runs(d, "resume")' /\ op[d].kind = "wait_for" => tm.cur.op = d
  BY <1>1, <1>2, <1>3 DEF Placed, Busy, Runs
<1>7. /\ batch' \subseteq [fd : Fds, in : BOOLEAN, out : BOOLEAN]
      /\ sock' \in [Socks -> SocketState]
      /\ token' \in [Tokens -> [cancelled : BOOLEAN, eventfd : {"empty", "due", "readable"}]]
      /\ at' \in [Coros -> {"created", "running", "suspended", "stranded", "done", "threw"}]
      /\ \A t \in Tokens : token[t].cancelled => token'[t].cancelled
  BY <1>1 DEF IInv, TypeOK
<1> QED
  BY <1>1, <1>2, <1>4, <1>5, <1>6, <1>7, OthersKeepCore

\* complete(): the loop resumes d, and holds the write_op n of the same event
LEMMA CompleteKeepsCore ==
    ASSUME IInv, control.at = "loop", NEW d \in Coros, at[d] = "suspended",
           op[d].kind = "wait_for" => tm.cur.op = d,
           NEW n \in Coros \cup {NoCo},
           n # NoCo => n # d /\ at[n] = "suspended" /\ op[n].kind \in Outs,
           Complete(d, n),
           batch' \subseteq batch,
           UNCHANGED <<now, tm, fd_to_op, op, left, result, sock, token>>
    PROVE  TypeOK' /\ Core'
<1>1. /\ control.running /\ control.co = NoCo /\ Busy(d)
      /\ \A c \in Coros : at[c] # "running"
      /\ \A c \in Coros : Busy(c) <=> at[c] = "suspended"
  BY NamesAssumption DEF IInv, Core, ThreadOK
<1>2. /\ control' \in Control /\ control'.at = "resume" /\ control'.co = d
      /\ control'.next = n /\ control'.running
  <2>1. control' = [control EXCEPT !.at = "resume", !.co = d, !.next = n]
    BY DEF Complete
  <2>2. control' = [at |-> "resume", co |-> d, next |-> n, running |-> control.running]
    BY <2>1 DEF IInv, TypeOK, Control
  <2>3. control.running = TRUE
    BY <1>1 DEF IInv, TypeOK, Control
  <2> QED
    BY <2>2, <2>3 DEF Control
<1>3. /\ at' \in [Coros -> {"created", "running", "suspended", "stranded", "done", "threw"}]
      /\ at'[d] = "running" /\ \A c \in Coros \ {d} : at'[c] = at[c]
  BY DEF Complete, IInv, TypeOK
<1>4. ThreadOK'
  <2>1. \A c \in Coros :
           /\ at'[c] = "running" <=> control'.co = c
           /\ Busy(c)' <=> \/ at'[c] = "suspended"
                           \/ control'.co = c /\ control'.at \in {"suspend", "slot", "resume"}
    BY <1>1, <1>2, <1>3 DEF Busy
  <2>2. control'.next # NoCo => /\ control'.running
                                /\ at'[control'.next] = "suspended"
                                /\ op'[control'.next].kind \in Outs
    BY <1>2, <1>3
  <2>3. control'.co # NoCo /\ control'.at \notin {"main", "loop", "exit", "slot"}
    BY <1>2, NamesAssumption
  <2> QED
    BY <2>1, <2>2, <2>3 DEF ThreadOK
<1>5. ExitOK' /\ now' \in Nat /\ now' >= now
  BY <1>2 DEF ExitOK, IInv, TypeOK
<1>6. \A c \in Coros :
         /\ Placed(c) => Placed(c)'
         /\ at'[c] = "suspended" => at[c] = "suspended"
         /\ ~Runs(c, "slot")'
         /\ Runs(c, "resume")' /\ op[c].kind \in Timed
               => tm.active_timer_ids[c] # 0 \/ Cancelled(c)
         /\ Runs(c, "resume")' /\ op[c].kind = "wait_for" => tm.cur.op = c
  BY <1>2, <1>3 DEF Placed, Busy, Runs, IInv, Core, WaitersOK
<1>7. /\ batch' \subseteq [fd : Fds, in : BOOLEAN, out : BOOLEAN]
      /\ sock' \in [Socks -> SocketState]
      /\ token' \in [Tokens -> [cancelled : BOOLEAN, eventfd : {"empty", "due", "readable"}]]
      /\ \A t \in Tokens : token[t].cancelled => token'[t].cancelled
  BY DEF IInv, TypeOK
<1> QED
  BY <1>2, <1>3, <1>4, <1>5, <1>6, <1>7, OthersKeepCore

\* The loop of running() completes only operations that wait.
LEMMA DispatchKeepsCore ==
    ASSUME IInv, (\E e \in batch : Dispatch(e)) \/ CompleteWrite
    PROVE  TypeOK' /\ Core'
<1> USE KindFacts
<1>1. CASE CompleteWrite
  <2>1. /\ control.at = "loop" /\ control.next # NoCo /\ Complete(control.next, NoCo)
        /\ UNCHANGED <<now, tm, fd_to_op, batch, op, left, result, sock, token>>
    BY <1>1 DEF CompleteWrite
  <2>2. /\ control.next \in Coros /\ at[control.next] = "suspended"
        /\ op[control.next].kind # "wait_for"
    BY <2>1 DEF IInv, TypeOK, Control, Core, ThreadOK
  <2> QED
    BY <2>1, <2>2, CompleteKeepsCore
<1>2. ASSUME NEW e \in batch, Dispatch(e)
      PROVE  TypeOK' /\ Core'
  <2> DEFINE r == IF e.in THEN fd_to_op[e.fd].read ELSE NoCo
             w == IF e.out THEN fd_to_op[e.fd].write ELSE NoCo
  <2>1. /\ control.at = "loop" /\ control.next = NoCo /\ batch' \subseteq batch
        /\ \/ r # NoCo /\ Complete(r, w)
           \/ r = NoCo /\ w # NoCo /\ Complete(w, NoCo)
           \/ r = NoCo /\ w = NoCo /\ UNCHANGED <<control, at>>
        /\ UNCHANGED <<now, tm, fd_to_op, op, left, result, sock, token>>
    BY <1>2 DEF Dispatch
  <2>2. e.fd \in Fds
    BY DEF IInv, TypeOK
  <2>3. r \in Coros \cup {NoCo} /\ w \in Coros \cup {NoCo}
    BY <2>2 DEF IInv, TypeOK, I!FdState
  <2>4. \A d \in Coros : Placed(d) => at[d] = "suspended"
    BY <2>1, NamesAssumption DEF Placed, IInv, Core, ThreadOK
  <2>5. r # NoCo => /\ at[r] = "suspended"
                    /\ op[r].kind = "wait_for" => tm.cur.op = r
                    /\ e.fd \in Socks => op[r].kind \in Ins
    <3> SUFFICES ASSUME r # NoCo
                 PROVE  /\ at[r] = "suspended"
                        /\ op[r].kind = "wait_for" => tm.cur.op = r
                        /\ e.fd \in Socks => op[r].kind \in Ins
      OBVIOUS
    <3>1. r \in Coros /\ r = fd_to_op[e.fd].read
      BY <2>3
    <3> HIDE DEF r
    <3>2. CASE e.fd \in Socks
      BY <2>4, <3>1, <3>2 DEF IInv, Core, TableOK
    <3>3. CASE e.fd \in Tokens
      <4>1. Placed(r) /\ op[r].token = e.fd
        BY <3>1, <3>3 DEF IInv, Core, TableOK
      <4>2. op[r].kind # "wait_for"
        BY <3>1, <3>3, <4>1, OperationFacts, NamesAssumption DEF Placed, IInv, Core
      <4> QED
        BY <2>4, <3>1, <3>3, <4>1, <4>2, NamesAssumption
    <3>4. CASE e.fd = TimerFd
      <4>1. tm.cur.op = r /\ T!Settled(tm)
        BY <3>1, <3>4 DEF IInv, Core, TableOK, TimersOK
      <4>2. tm.active_timer_ids[r] # 0
        BY <3>1, <4>1, TimerFacts, NamesAssumption
      <4>3. Placed(r)
        BY <3>1, <4>2 DEF IInv, Core, TimersOK
      <4> QED
        BY <2>4, <3>1, <3>4, <4>1, <4>3, NamesAssumption
    <3> QED
      BY <2>2, <3>2, <3>3, <3>4 DEF Fds
  <2>6. w # NoCo => at[w] = "suspended" /\ op[w].kind \in Outs /\ e.fd \in Socks
    <3> SUFFICES ASSUME w # NoCo
                 PROVE  at[w] = "suspended" /\ op[w].kind \in Outs /\ e.fd \in Socks
      OBVIOUS
    <3>1. w \in Coros /\ w = fd_to_op[e.fd].write
      BY <2>3
    <3> HIDE DEF w
    <3>2. e.fd \in Socks
      BY <2>2, <3>1, NamesAssumption DEF IInv, Core, TableOK, Fds
    <3> QED
      BY <2>4, <3>1, <3>2 DEF IInv, Core, TableOK
  <2> HIDE DEF r, w
  <2>7. CASE r # NoCo /\ Complete(r, w)
    BY <2>1, <2>3, <2>5, <2>6, <2>7, CompleteKeepsCore
  <2>8. CASE w # NoCo /\ Complete(w, NoCo)
    BY <2>1, <2>3, <2>6, <2>8, CompleteKeepsCore
  <2>9. CASE UNCHANGED <<control, at>>
    <3>1. /\ now' \in Nat /\ now' >= now
          /\ batch' \subseteq [fd : Fds, in : BOOLEAN, out : BOOLEAN]
          /\ sock' \in [Socks -> SocketState]
          /\ token' \in [Tokens -> [cancelled : BOOLEAN, eventfd : {"empty", "due", "readable"}]]
          /\ \A t \in Tokens : token[t].cancelled => token'[t].cancelled
      BY <2>1 DEF IInv, TypeOK
    <3> QED
      BY <2>1, <2>9, <3>1, QuietKeepsCore
  <2> QED
    BY <2>1, <2>7, <2>8, <2>9
<1> QED
  BY <1>1, <1>2

\* main() starts a coroutine.
LEMMA LaunchKeepsCore ==
    ASSUME IInv, NEW c \in Coros, Launch(c)
    PROVE  TypeOK' /\ Core'
<1>1. /\ control.at = "main" /\ at[c] = "created" /\ control.co = NoCo
      /\ control.next = NoCo /\ ~control.running
      /\ at' = [at EXCEPT ![c] = "running"] /\ Goto("user", c)
      /\ UNCHANGED <<now, tm, fd_to_op, batch, op, left, result, sock, token>>
  BY DEF Launch, IInv, Core, ThreadOK
<1>2. /\ control' \in Control /\ control'.at = "user" /\ control'.co = c
      /\ control'.next = control.next /\ control'.running = control.running
  BY <1>1, GotoFacts DEF Points, IInv, TypeOK
<1>3. /\ at' \in [Coros -> {"created", "running", "suspended", "stranded", "done", "threw"}]
      /\ at'[c] = "running" /\ \A d \in Coros \ {c} : at'[d] = at[d]
  BY <1>1 DEF IInv, TypeOK
<1>4. ThreadOK'
  <2>1. \A d \in Coros :
           /\ at'[d] = "running" <=> control'.co = d
           /\ Busy(d)' <=> \/ at'[d] = "suspended"
                           \/ control'.co = d /\ control'.at \in {"suspend", "slot", "resume"}
    BY <1>1, <1>2, <1>3, NamesAssumption DEF IInv, Core, ThreadOK, Busy
  <2>2. /\ control'.co # NoCo /\ control'.next = NoCo
        /\ control'.at \notin {"main", "loop", "exit", "slot"}
    BY <1>1, <1>2, NamesAssumption
  <2> QED
    BY <2>1, <2>2 DEF ThreadOK
<1>5. ExitOK' /\ now' \in Nat /\ now' >= now
  BY <1>1, <1>2 DEF ExitOK, IInv, TypeOK
<1>6. \A d \in Coros :
         /\ Placed(d) => Placed(d)'
         /\ at'[d] = "suspended" => at[d] = "suspended"
         /\ ~Runs(d, "slot")' /\ ~Runs(d, "resume")'
  BY <1>1, <1>2, <1>3 DEF Placed, Busy, Runs
<1>7. /\ batch' \subseteq [fd : Fds, in : BOOLEAN, out : BOOLEAN]
      /\ sock' \in [Socks -> SocketState]
      /\ token' \in [Tokens -> [cancelled : BOOLEAN, eventfd : {"empty", "due", "readable"}]]
      /\ \A t \in Tokens : token[t].cancelled => token'[t].cancelled
  BY <1>1 DEF IInv, TypeOK
<1> QED
  BY <1>1, <1>2, <1>3, <1>4, <1>5, <1>6, <1>7, OthersKeepCore

\* A coroutine ends, one way or another.
LEMMA EndKeepsCore ==
    ASSUME IInv, NEW c \in Coros, Runs(c, "user") \/ Runs(c, "final"),
           NEW how \in {"stranded", "done", "threw"}, at' = [at EXCEPT ![c] = how], Yield,
           sock' \in [Socks -> SocketState],
           UNCHANGED <<now, tm, fd_to_op, batch, op, left, result, token>>
    PROVE  TypeOK' /\ Core'
<1>1. control.at \in {"user", "final"} /\ control.co = c /\ at[c] = "running" /\ ~Busy(c)
  BY DEF Runs, IInv, Core, ThreadOK
<1>2. /\ control' \in Control /\ control'.co = NoCo
      /\ control.running => control'.at = "loop"
      /\ ~control.running => control'.at = "main"
      /\ control'.next = control.next /\ control'.running = control.running
  BY YieldFacts DEF IInv, TypeOK
<1>3. /\ at' \in [Coros -> {"created", "running", "suspended", "stranded", "done", "threw"}]
      /\ at'[c] = how /\ \A d \in Coros \ {c} : at'[d] = at[d]
  BY DEF IInv, TypeOK
<1>4. ThreadOK'
  <2>1. \A d \in Coros :
           /\ at'[d] = "running" <=> control'.co = d
           /\ Busy(d)' <=> \/ at'[d] = "suspended"
                           \/ control'.co = d /\ control'.at \in {"suspend", "slot", "resume"}
    BY <1>1, <1>2, <1>3, NamesAssumption DEF IInv, Core, ThreadOK, Busy
  <2>2. control'.next # NoCo => /\ control'.running
                                /\ at'[control'.next] = "suspended"
                                /\ op'[control'.next].kind \in Outs
    <3>1. control.next \in Coros \cup {NoCo}
      BY DEF IInv, TypeOK, Control
    <3> QED
      BY <1>1, <1>2, <1>3, <3>1 DEF IInv, Core, ThreadOK
  <2> QED
    BY <1>2, <2>1, <2>2 DEF ThreadOK
<1>5. ExitOK' /\ now' \in Nat /\ now' >= now
  BY <1>2 DEF ExitOK, IInv, TypeOK
<1>6. \A d \in Coros :
         /\ Placed(d) => Placed(d)'
         /\ at'[d] = "suspended" => at[d] = "suspended"
         /\ ~Runs(d, "slot")' /\ ~Runs(d, "resume")'
  BY <1>1, <1>2, <1>3 DEF Placed, Busy, Runs
<1>7. /\ batch' \subseteq [fd : Fds, in : BOOLEAN, out : BOOLEAN]
      /\ token' \in [Tokens -> [cancelled : BOOLEAN, eventfd : {"empty", "due", "readable"}]]
      /\ \A t \in Tokens : token[t].cancelled => token'[t].cancelled
  BY DEF IInv, TypeOK
<1> QED
  BY <1>2, <1>3, <1>4, <1>5, <1>6, <1>7, OthersKeepCore

\* main() calls running(), and running() returns.
LEMMA RunningKeepsCore ==
    ASSUME IInv, EnterRunning \/ LeaveRunning
    PROVE  TypeOK' /\ Core'
<1>1. UNCHANGED <<now, tm, fd_to_op, batch, at, op, left, result, sock, token>>
  BY DEF EnterRunning, LeaveRunning
<1>2. /\ control.at \in {"main", "loop"} /\ control.co = NoCo /\ control.next = NoCo
      /\ control.at = "loop" => control.running = TRUE /\ I!Empty(fd_to_op)
  BY DEF EnterRunning, LeaveRunning, IInv, Core, ThreadOK, TypeOK, Control
<1>3. /\ control' \in Control /\ control'.at \in {"loop", "exit"} /\ control'.co = NoCo
      /\ control'.next = NoCo /\ control'.running
      /\ control'.at = "exit" => control.at = "loop"
  <2>1. CASE EnterRunning
    <3>1. control' = [control EXCEPT !.at = "loop", !.running = TRUE]
      BY <2>1 DEF EnterRunning
    <3>2. control' = [at |-> "loop", co |-> control.co, next |-> control.next, running |-> TRUE]
      BY <3>1 DEF IInv, TypeOK, Control
    <3> QED
      BY <1>2, <3>2 DEF Control
  <2>2. CASE LeaveRunning
    <3>1. control.at = "loop" /\ Goto("exit", NoCo)
      BY <2>2 DEF LeaveRunning
    <3>2. /\ control' \in Control /\ control'.at = "exit" /\ control'.co = NoCo
          /\ control'.next = control.next /\ control'.running = control.running
      BY <3>1, GotoFacts DEF Points, IInv, TypeOK
    <3> QED
      BY <1>2, <3>1, <3>2
  <2> QED
    BY <2>1, <2>2
<1>4. ThreadOK'
  <2>1. \A d \in Coros :
           /\ at'[d] = "running" <=> control'.co = d
           /\ Busy(d)' <=> \/ at'[d] = "suspended"
                           \/ control'.co = d /\ control'.at \in {"suspend", "slot", "resume"}
    BY <1>1, <1>2, <1>3, NamesAssumption DEF IInv, Core, ThreadOK, Busy
  <2> QED
    BY <1>3, <2>1 DEF ThreadOK
<1>5. ExitOK' /\ now' \in Nat /\ now' >= now
  BY <1>1, <1>2, <1>3 DEF ExitOK, IInv, TypeOK
<1>6. \A d \in Coros :
         /\ Placed(d) => Placed(d)'
         /\ at'[d] = "suspended" => at[d] = "suspended"
         /\ ~Runs(d, "slot")' /\ ~Runs(d, "resume")'
  BY <1>1, <1>2, <1>3 DEF Placed, Busy, Runs
<1>7. /\ batch' \subseteq [fd : Fds, in : BOOLEAN, out : BOOLEAN]
      /\ sock' \in [Socks -> SocketState]
      /\ at' \in [Coros -> {"created", "running", "suspended", "stranded", "done", "threw"}]
      /\ token' \in [Tokens -> [cancelled : BOOLEAN, eventfd : {"empty", "due", "readable"}]]
      /\ \A t \in Tokens : token[t].cancelled => token'[t].cancelled
  BY <1>1 DEF IInv, TypeOK
<1> QED
  BY <1>1, <1>3, <1>4, <1>5, <1>6, <1>7, OthersKeepCore

\* request_cancel, the flag and the eventfd, from wherever it is called
LEMMA CancelKeepsCore ==
    ASSUME IInv, NEW t \in Tokens,
           \/ RequestCancel(t) \/ SignalCancel(t)
           \/ \E c \in Coros : RequestCancelHere(c, t)
    PROVE  TypeOK' /\ Core'
<1>1. UNCHANGED <<now, tm, fd_to_op, batch, control, at, op, left, result, sock>>
  BY DEF RequestCancel, SignalCancel, RequestCancelHere
<1>2. /\ token' \in [Tokens -> [cancelled : BOOLEAN, eventfd : {"empty", "due", "readable"}]]
      /\ \A u \in Tokens : token[u].cancelled => token'[u].cancelled
  <2>1. token \in [Tokens -> [cancelled : BOOLEAN, eventfd : {"empty", "due", "readable"}]]
    BY DEF IInv, TypeOK
  <2>2. CASE SignalCancel(t)
    <3>1. token' = [token EXCEPT ![t].eventfd = "readable"]
      BY <2>2 DEF SignalCancel
    <3>2. ASSUME NEW u \in Tokens
          PROVE  \/ token'[u] = token[u]
                 \/ token'[u] = [cancelled |-> token[u].cancelled, eventfd |-> "readable"]
      BY <2>1, <3>1
    <3>3. ASSUME NEW u \in Tokens
          PROVE  /\ token'[u] \in [cancelled : BOOLEAN, eventfd : {"empty", "due", "readable"}]
                 /\ token'[u].cancelled = token[u].cancelled
      <4> DEFINE b == token[u].cancelled
      <4>1. b \in BOOLEAN /\ (token'[u] = token[u] \/ token'[u] = [cancelled |-> b, eventfd |-> "readable"])
        BY <2>1, <3>2
      <4> HIDE DEF b
      <4>2. token'[u] \in [cancelled : BOOLEAN, eventfd : {"empty", "due", "readable"}]
        BY <2>1, <4>1
      <4>3. token'[u] = token[u] \/ token'[u].cancelled = b
        BY <4>1
      <4> QED
        BY <4>2, <4>3 DEF b
    <3>4. token' \in [Tokens -> [cancelled : BOOLEAN, eventfd : {"empty", "due", "readable"}]]
      BY <2>1, <3>1, <3>3
    <3> QED
      BY <3>3, <3>4
  <2>3. CASE ~SignalCancel(t)
    <3>1. PICK e \in {"due", "readable"} :
             token' = [token EXCEPT ![t] = [cancelled |-> TRUE, eventfd |-> e]]
      BY <2>3 DEF RequestCancel, RequestCancelHere
    <3> QED
      BY <2>1, <3>1
  <2> QED
    BY <2>2, <2>3
<1>3. /\ now' \in Nat /\ now' >= now
      /\ batch' \subseteq [fd : Fds, in : BOOLEAN, out : BOOLEAN]
      /\ sock' \in [Socks -> SocketState]
  BY <1>1 DEF IInv, TypeOK
<1> QED
  BY <1>1, <1>2, <1>3, QuietKeepsCore

\* epoll_wait and the clock
LEMMA PollAndTickKeepCore ==
    ASSUME IInv, Poll \/ Tick
    PROVE  TypeOK' /\ Core'
<1>1. UNCHANGED <<tm, fd_to_op, control, at, op, left, result, sock, token>>
  BY DEF Poll, Tick
<1>2. now' \in Nat /\ now' >= now
  BY DEF Poll, Tick, IInv, TypeOK
<1>3. batch' \subseteq [fd : Fds, in : BOOLEAN, out : BOOLEAN]
  <2>1. CASE Poll
    <3>1. batch' \subseteq ReadyEvents
      BY <2>1 DEF Poll, kSubset
    <3>2. ReadyEvents \subseteq [fd : Fds, in : BOOLEAN, out : BOOLEAN]
      <4> SUFFICES ASSUME NEW e \in ReadyEvents
                   PROVE  e \in [fd : Fds, in : BOOLEAN, out : BOOLEAN]
        OBVIOUS
      <4>1. PICK fd \in {f \in Fds : I!Registered(fd_to_op, f)} :
               e = [fd  |-> fd,
                    in  |-> BrokenFd(fd) \/ ("IN" \in fd_to_op[fd].events /\ InReady(fd)),
                    out |-> BrokenFd(fd) \/ ("OUT" \in fd_to_op[fd].events /\ OutReady(fd))]
        BY DEF ReadyEvents
      <4> DEFINE i == BrokenFd(fd) \/ ("IN" \in fd_to_op[fd].events /\ InReady(fd))
                 o == BrokenFd(fd) \/ ("OUT" \in fd_to_op[fd].events /\ OutReady(fd))
      <4>2. i \in BOOLEAN /\ o \in BOOLEAN /\ fd \in Fds
        OBVIOUS
      <4>3. e = [fd |-> fd, in |-> i, out |-> o]
        BY <4>1
      <4> HIDE DEF i, o
      <4> QED
        BY <4>2, <4>3
    <3> QED
      BY <3>1, <3>2
  <2>2. CASE Tick
    BY <2>2 DEF Tick, IInv, TypeOK
  <2> QED
    BY <2>1, <2>2
<1>4. /\ sock' \in [Socks -> SocketState]
      /\ token' \in [Tokens -> [cancelled : BOOLEAN, eventfd : {"empty", "due", "readable"}]]
      /\ \A t \in Tokens : token[t].cancelled => token'[t].cancelled
  BY <1>1 DEF IInv, TypeOK
<1> QED
  BY <1>1, <1>2, <1>3, <1>4, QuietKeepsCore
===============================================================================
