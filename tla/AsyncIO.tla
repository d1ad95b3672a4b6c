------------------------------- MODULE AsyncIO -------------------------------
(***************************************************************************)
(* The framework at work: Scheduler::running (scheduler.h), the awaiters of *)
(* async_read.h, async_read_some.h, async_write.h, wait_for.h and          *)
(* with_timeout.h, the cancel_slot (single_operator.h), cancel_token and   *)
(* TimerEvent, driven by user coroutines on one thread, peers on the other *)
(* side of the sockets, time, and (optionally) threads that request        *)
(* cancellation.  Connections adds accept, connect and closing.            *)
(*                                                                         *)
(* A coroutine awaits one operation at a time, so the read_op, the timer's *)
(* read_op, the cancel_slot's read_op and the write_op of its awaiter are  *)
(* all known by the coroutine: completing any of them resumes it.          *)
(***************************************************************************)
EXTENDS Naturals, FiniteSets, FiniteSetsExt

CONSTANTS Coros,         \* user coroutines
          NoCo,          \* nullptr
          Socks,         \* descriptor numbers of non-blocking stream sockets
          Listeners,     \* those that listen from the beginning
          Unused,        \* those that are closed at the beginning
          Own,           \* stands for the connection that c's code holds
          Tokens,        \* cancel_tokens, each with its eventfd
          NoToken,       \* noop_cancel_token
          TimerFd,       \* the descriptor of the TimerEvent singleton
          Menu,          \* Menu[c]: the operations c's code may await
          MaxOps,        \* bound on the operations each coroutine awaits
          Cancellers,    \* coroutines whose code may call request_cancel
          CancelThreads, \* whether other threads call request_cancel
          PeerMoves,     \* what peers do: subset of {"send","drain","shut","reset"}
          MaxBytes,      \* bound on the bytes a peer sends or drains per socket
          MaxEvents      \* events one epoll_wait returns: 128 in the code

Reads  == {"read", "read_timeout", "read_some"}
Writes == {"write", "write_timeout"}
Timed  == {"read_timeout", "write_timeout", "wait_for"}
Kinds  == Reads \cup Writes \cup {"wait_for", "accept", "connect"}

\* operations by the direction of the slot they wait in
Ins  == Reads \cup {"accept"}
Outs == Writes \cup {"connect"}

\* What a co_await names: the buffer's capacity and its offset, which is not 0 if
\* it was used before and not cleared; the timeout; whether with_timeout wraps it
Await == [kind : Kinds, fd : Socks \cup {TimerFd, Own}, token : Tokens \cup {NoToken},
          size : Nat, start : Nat, delay : Nat, wrapped : BOOLEAN]

ASSUME NamesAssumption ==
    /\ IsFiniteSet(Coros) /\ NoCo \notin Coros
    /\ Socks \cap Tokens = {} /\ TimerFd \notin Socks \cup Tokens
    /\ {Own, NoToken} \cap (Socks \cup Tokens \cup {TimerFd}) = {}

\* The sockets main() hands out are connected and stay open; who accepts does so
\* on a listener.
ASSUME MenuAssumption ==
    /\ Menu \in [Coros -> SUBSET Await]
    /\ \A c \in Coros : \A o \in Menu[c] :
          /\ o.kind = "wait_for" <=> o.fd = TimerFd
          /\ o.kind \in Reads \cup Writes => o.fd \notin Listeners \cup Unused
          /\ o.kind \notin {"read", "read_timeout", "write", "write_timeout"} => o.token = NoToken
          /\ o.wrapped => o.kind \in {"read_timeout", "write_timeout"}
          /\ o.kind = "accept" => o.fd \in Listeners
          /\ o.kind = "connect" => o.fd = Own
          /\ o.start <= o.size
    /\ Listeners \subseteq Socks /\ Unused \subseteq Socks \ Listeners
    /\ MaxOps \in Nat /\ MaxBytes \in Nat /\ MaxEvents \in Nat \ {0}
    /\ CancelThreads \in BOOLEAN

VARIABLES now,       \* CLOCK_MONOTONIC
          tm,        \* the TimerEvent singleton
          fd_to_op,  \* the scheduler's table
          batch,     \* events epoll_wait returned and the loop has not reached
          control,   \* what the thread executes
          at,        \* at[c]: where coroutine c is
          op,        \* op[c]: the operation c awaits, with its progress
          left,      \* left[c]: how many more operations c may await
          result,    \* result[c]: what c's last co_await returned
          sock,      \* the sockets: kernel buffers and the peer
          token      \* the cancel_tokens

vars == <<now, tm, fd_to_op, batch, control, at, op, left, result, sock, token>>

T == INSTANCE TimerTasks WITH Ops <- Coros, NoOp <- NoCo
I == INSTANCE InterestTable WITH Ops <- Coros, NoOp <- NoCo

Fds == Socks \cup Tokens \cup {TimerFd}

\* An awaited operation on descriptor fd: got counts the bytes it has moved, due
\* is the time its current timer ends (0 without one).
Idle == [kind |-> "none"]
Begun(o, fd) == [kind |-> o.kind, fd |-> fd, token |-> o.token, size |-> o.size,
                 start |-> o.start, delay |-> o.delay, wrapped |-> o.wrapped,
                 got |-> 0, due |-> 0]
Operation == [kind : Kinds, fd : Socks \cup {TimerFd}, token : Tokens \cup {NoToken},
              size : Nat, start : Nat, delay : Nat, wrapped : BOOLEAN,
              got : Nat, due : Nat]

Errors == {"ok", "error", "timed_out", "canceled"}

\* what a co_await returned and for which operation; NoResult before the first
Result == [op : Operation, ec : Errors, n : Nat]
NoResult == [op |-> Idle, ec |-> "ok", n |-> 0]

\* control.next is the write_op the loop read before it completed the read_op
\* of the same event; control.running is false while main() starts coroutines
Control == [at : {"main", "user", "suspend", "slot", "resume", "final", "loop", "exit"},
            co : Coros \cup {NoCo}, next : Coros \cup {NoCo}, running : BOOLEAN]

SocketState == [sent : Nat, inbox : Nat, drained : Nat, taken : Nat,
                told : [in : Nat, out : Nat],
                link : {"closed", "new", "lost", "connecting", "refused",
                        "listening", "open", "shut", "reset"},
                owner : Coros \cup {NoCo}]

TypeOK ==
    /\ now \in Nat \ {0}
    /\ tm \in T!TimerState
    /\ fd_to_op \in [Fds -> I!FdState]
    /\ batch \subseteq [fd : Fds, in : BOOLEAN, out : BOOLEAN]
    /\ control \in Control
    /\ at \in [Coros -> {"created", "running", "suspended", "stranded", "done", "threw"}]
    /\ op \in [Coros -> Operation \cup {Idle}]
    /\ left \in [Coros -> 0..MaxOps]
    /\ result \in [Coros -> Result \cup {NoResult}]
    /\ sock \in [Socks -> SocketState]
    /\ token \in [Tokens -> [cancelled : BOOLEAN,
                             eventfd : {"empty", "due", "readable"}]]

\* sent: bytes from the peer, inbox: those recv has not taken; taken: bytes send
\* has accepted, drained: those the peer has received; told: bytes reported to
\* coroutines as read and as written; owner: the coroutine whose Connection holds
\* the number (NoCo if main() does); a socket whose link is "lost" is open and its
\* number known to nobody.  On a listening socket sent, inbox and told count
\* connections.
Socket(link, owner) ==
    [sent |-> 0, inbox |-> 0, drained |-> 0, taken |-> 0,
     told |-> [in |-> 0, out |-> 0], link |-> link, owner |-> owner]

Owned(c) == {s \in Socks : sock[s].owner = c}

Init ==
    /\ now = 1
    /\ tm = T!NewTimerEvent
    /\ fd_to_op = [fd \in Fds |-> I!NoEntry]
    /\ batch = {}
    /\ control = [at |-> "main", co |-> NoCo, next |-> NoCo, running |-> FALSE]
    /\ at = [c \in Coros |-> "created"]
    /\ op = [c \in Coros |-> Idle]
    /\ left = [c \in Coros |-> MaxOps]
    /\ result = [c \in Coros |-> NoResult]
    /\ sock = [s \in Socks |-> Socket(IF s \in Listeners THEN "listening"
                                      ELSE IF s \in Unused THEN "closed" ELSE "open",
                                      NoCo)]
    /\ token = [t \in Tokens |-> [cancelled |-> FALSE, eventfd |-> "empty"]]

-------------------------------------------------------------------------------
(* The outside: peers, time, other threads *)

Established(s) == sock[s].link \in {"open", "shut"}
Broken(s) == sock[s].link \in {"reset", "refused"}

\* the kernel's send buffer holds one byte more than the peer has received
Room(s) == IF Established(s) THEN 1 + sock[s].drained - sock[s].taken ELSE 0

PeerSend(s) == /\ "send" \in PeerMoves
               /\ sock[s].link = "open" /\ sock[s].sent < MaxBytes
               /\ sock' = [sock EXCEPT ![s].sent = @ + 1, ![s].inbox = @ + 1]

PeerDrain(s) == /\ "drain" \in PeerMoves
                /\ Established(s) /\ Room(s) = 0 /\ sock[s].drained < MaxBytes
                /\ sock' = [sock EXCEPT ![s].drained = @ + 1]

PeerShut(s) == /\ "shut" \in PeerMoves
               /\ sock[s].link = "open"
               /\ sock' = [sock EXCEPT ![s].link = "shut"]

\* a reset discards what recv has not taken
PeerReset(s) == /\ "reset" \in PeerMoves
                /\ Established(s)
                /\ sock' = [sock EXCEPT ![s].link = "reset", ![s].inbox = 0,
                                        ![s].sent = @ - sock[s].inbox]

Peer == /\ \E s \in Socks : PeerSend(s) \/ PeerDrain(s) \/ PeerShut(s) \/ PeerReset(s)
        /\ UNCHANGED <<now, tm, fd_to_op, batch, control, at, op, left, result, token>>

\* Time is compared with the due times of timers only: once all are due, more
\* time makes no difference.
Tick == /\ \E x \in T!Pending(tm) : x.tp > now
        /\ now' = now + 1
        /\ UNCHANGED <<tm, fd_to_op, batch, control, at, op, left, result, sock, token>>

\* a plausible slip: lazy cancellation, a flag that no event announces
RequestCancel_Lazy(t) ==
    /\ CancelThreads
    /\ ~token[t].cancelled
    /\ token' = [token EXCEPT ![t].cancelled = TRUE]
    /\ UNCHANGED <<now, tm, fd_to_op, batch, control, at, op, left, result, sock>>

\* request_cancel by another thread: the flag, then the eventfd
RequestCancel(t) ==
    /\ CancelThreads
    /\ ~token[t].cancelled
    /\ token' = [token EXCEPT ![t] = [cancelled |-> TRUE, eventfd |-> "due"]]
    /\ UNCHANGED <<now, tm, fd_to_op, batch, control, at, op, left, result, sock>>

SignalCancel(t) ==
    /\ token[t].eventfd = "due"
    /\ token' = [token EXCEPT ![t].eventfd = "readable"]
    /\ UNCHANGED <<now, tm, fd_to_op, batch, control, at, op, left, result, sock>>

-------------------------------------------------------------------------------
(* Plausible slips in the helpers below, each exercised by a mutation run *)

\* trusts the room in the buffer instead of what recv returned
TryRead_Remain(s, n) == {[ec |-> "ok", n |-> n]}

\* reports the last chunk only: nothing, when the operation was cancelled
ReadLoop_LastChunk(c, ec, n) ==
    LET count == op[c].got + n
        s == op[c].fd
    IN  IF ec # "ok" \/ n = 0 \/ count = op[c].size - op[c].start
        THEN /\ result' = [result EXCEPT ![c] = [op |-> op[c], ec |-> ec, n |-> n]]
             /\ op' = [op EXCEPT ![c] = Idle]
             /\ control' = [control EXCEPT !.at = "user", !.co = c]
             /\ sock' = [sock EXCEPT ![s].inbox = @ - n, ![s].told.in = @ + n]
        ELSE /\ op' = [op EXCEPT ![c].got = count]
             /\ sock' = [sock EXCEPT ![s].inbox = @ - n]
             /\ control' = [control EXCEPT !.at = "suspend", !.co = c]
             /\ UNCHANGED result

\* returns after the first chunk
ReadLoop_OneChunk(c, ec, n) ==
    /\ result' = [result EXCEPT ![c] = [op |-> op[c], ec |-> ec, n |-> n]]
    /\ op' = [op EXCEPT ![c] = Idle]
    /\ control' = [control EXCEPT !.at = "user", !.co = c]
    /\ sock' = [sock EXCEPT ![op[c].fd].inbox = @ - n, ![op[c].fd].told.in = @ + n]

\* starts counting afresh after each partial send
WriteLoop_LastChunk(c, ec, n, stat) ==
    LET s == op[c].fd
    IN  IF stat = "INPROGRESS"
        THEN /\ op' = [op EXCEPT ![c].got = @ + n]
             /\ sock' = [sock EXCEPT ![s].taken = @ + n]
             /\ control' = [control EXCEPT !.at = "suspend", !.co = c]
             /\ UNCHANGED result
        ELSE /\ result' = [result EXCEPT ![c] = [op |-> op[c], ec |-> ec, n |-> n]]
             /\ op' = [op EXCEPT ![c] = Idle]
             /\ control' = [control EXCEPT !.at = "user", !.co = c]
             /\ sock' = [sock EXCEPT ![s].taken = @ + n, ![s].told.out = @ + n]

\* leaves the cancel registration behind
RemoveCancel_Forgotten(table, c) == table

\* never registers the token
Suspend_NoCancelSlot(c) ==
    /\ at' = [at EXCEPT ![c] = "suspended"]
    /\ control' = [control EXCEPT !.at = IF control.running THEN "loop" ELSE "main",
                                  !.co = NoCo]

\* hands the timer back without registering the next one
RefreshTimerRegistration_Stale(t, table) ==
    tm' \in T!RefreshCurrentTimer(t) /\ fd_to_op' = table

\* takes "current" for "expired"
TimedOut_Current(c) == T!IsCurrent(tm, c)

-------------------------------------------------------------------------------
(* Helpers of the thread's steps *)

\* the coroutine that runs at control point point
Runs(c, point) == control.at = point /\ control.co = c

Goto(point, c) == control' = [control EXCEPT !.at = point, !.co = c]

\* the coroutine has suspended or ended: back to main() or to running()
Yield == Goto(IF control.running THEN "loop" ELSE "main", NoCo)

\* TimerEvent's refresh_timer_registration, on a table the caller has changed
RefreshTimerRegistration(t, table) ==
    \E u \in T!RefreshCurrentTimer(t) :
        /\ tm' = u
        /\ fd_to_op' = IF T!CurrentEmpty(u)
                       THEN I!Remove(table, TimerFd, I!EVENT_TIMER)
                       ELSE I!Submit(table, TimerFd, u.cur.op, I!EVENT_TIMER)

\* base_.cancel_token.cancel(); never true of a noop_cancel_token
Cancelled(c) == op[c].token # NoToken /\ token[op[c].token].cancelled

\* cancel_slot::remove
RemoveCancel(table, c) ==
    IF op[c].token = NoToken THEN table
    ELSE I!Remove(table, op[c].token, I!EVENT_READ)

RemoveRead(table, c) == I!Remove(table, op[c].fd, I!EVENT_READ)
RemoveWrite(table, c) == I!Remove(table, op[c].fd, I!EVENT_WRITE)

\* cancel_token::consume, on a non-blocking eventfd
ConsumeCancel(c) ==
    token' = [token EXCEPT ![op[c].token].eventfd = IF @ = "readable" THEN "empty" ELSE @]

\* recv: takes what there is, up to n bytes.  Without bytes an open socket
\* (EAGAIN) and a shut one (0) both give {ok, 0}, and so does a buffer without
\* room; a broken one gives an error once, then 0.
TryRead(s, n) ==
    LET k == IF sock[s].inbox < n THEN sock[s].inbox ELSE n
    IN  IF Broken(s)
        THEN {[ec |-> "error", n |-> 0], [ec |-> "ok", n |-> 0]}
        ELSE {[ec |-> "ok", n |-> k]}

\* send: accepts what there is room for, up to n bytes
TryWrite(s, n) ==
    LET k == IF Room(s) < n THEN Room(s) ELSE n
    IN  IF Broken(s)
        THEN [ec |-> "error", n |-> 0, stat |-> "ERROROUS"]
        ELSE [ec |-> "ok", n |-> k,
              stat |-> IF n = 0 THEN "SHUTDOWN"
                       ELSE IF k = n THEN "COMPLETED" ELSE "INPROGRESS"]

\* co_return {ec, n} of the operation's coroutine: its awaiter hands the pair to
\* the user's coroutine, which runs on, or to with_timeout's
Return(c, ec, n) ==
    /\ result' = [result EXCEPT ![c] = [op |-> op[c], ec |-> ec, n |-> n]]
    /\ op' = [op EXCEPT ![c] = Idle]
    /\ Goto(IF op[c].wrapped THEN "final" ELSE "user", c)

\* the buffer's remain()
Remain(c) == op[c].size - op[c].start - op[c].got

\* the loop of async_read_impl and async_read_timeout_impl, given what the inner
\* awaiter returned
ReadLoop(c, ec, n) ==
    LET count == op[c].got + n
        s == op[c].fd
    IN  IF ec # "ok" \/ n = 0 \/ n = Remain(c)
        THEN /\ Return(c, ec, op[c].start + count)
             /\ sock' = [sock EXCEPT ![s].inbox = @ - n, ![s].told.in = @ + count]
        ELSE /\ op' = [op EXCEPT ![c].got = count]
             /\ sock' = [sock EXCEPT ![s].inbox = @ - n]
             /\ Goto("suspend", c)
             /\ UNCHANGED result

\* the loop of async_write_impl and async_write_timeout_impl
WriteLoop(c, ec, n, stat) ==
    LET total == op[c].got + n
        s == op[c].fd
    IN  IF stat = "INPROGRESS"
        THEN /\ op' = [op EXCEPT ![c].got = total]
             /\ sock' = [sock EXCEPT ![s].taken = @ + n]
             /\ Goto("suspend", c)
             /\ UNCHANGED result
        ELSE /\ Return(c, ec, total)
             /\ sock' = [sock EXCEPT ![s].taken = @ + n, ![s].told.out = @ + total]

-------------------------------------------------------------------------------
(* await_suspend of the inner awaiters.  The token is tested first; if it is   *)
(* already cancelled nothing is registered and await_resume runs at once.      *)

AlreadyCancelled(c) == /\ Cancelled(c)
                       /\ Goto("resume", c)
                       /\ UNCHANGED <<tm, fd_to_op, at, op>>

\* cancel_slot::submit comes last; it tests the token again
Suspend(c) == IF op[c].token = NoToken
              THEN at' = [at EXCEPT ![c] = "suspended"] /\ Yield
              ELSE Goto("slot", c) /\ UNCHANGED at

CancelSlotSubmit(c) ==
    /\ Runs(c, "slot")
    /\ fd_to_op' = IF Cancelled(c) THEN fd_to_op
                   ELSE I!Submit(fd_to_op, op[c].token, c, I!EVENT_READ)
    /\ at' = [at EXCEPT ![c] = "suspended"]
    /\ Yield
    /\ UNCHANGED <<now, tm, batch, op, left, result, sock, token>>

\* set_timer and what the two timeout awaiters do after it
StartTimeout(c, table) ==
    /\ \E t \in T!SetTimer(tm, c, now + op[c].delay) : RefreshTimerRegistration(t, table)
    /\ op' = [op EXCEPT ![c].due = now + op[c].delay]
    /\ Suspend(c)

RecvSuspend(c) ==
    /\ Runs(c, "suspend") /\ op[c].kind = "read"
    /\ \/ AlreadyCancelled(c)
       \/ /\ ~Cancelled(c)
          /\ fd_to_op' = I!Submit(fd_to_op, op[c].fd, c, I!EVENT_READ)
          /\ Suspend(c)
          /\ UNCHANGED <<tm, op>>
    /\ UNCHANGED <<now, batch, left, result, sock, token>>

RecvTimeoutSuspend(c) ==
    /\ Runs(c, "suspend") /\ op[c].kind = "read_timeout"
    /\ \/ AlreadyCancelled(c)
       \/ /\ ~Cancelled(c)
          /\ StartTimeout(c, I!Submit(fd_to_op, op[c].fd, c, I!EVENT_READ))
    /\ UNCHANGED <<now, batch, left, result, sock, token>>

RecvSomeSuspend(c) ==
    /\ Runs(c, "suspend") /\ op[c].kind = "read_some"
    /\ fd_to_op' = I!Submit(fd_to_op, op[c].fd, c, I!EVENT_READ)
    /\ Suspend(c)
    /\ UNCHANGED <<now, tm, batch, op, left, result, sock, token>>

SendSuspend(c) ==
    /\ Runs(c, "suspend") /\ op[c].kind = "write"
    /\ \/ AlreadyCancelled(c)
       \/ /\ ~Cancelled(c)
          /\ fd_to_op' = I!Submit(fd_to_op, op[c].fd, c, I!EVENT_WRITE)
          /\ Suspend(c)
          /\ UNCHANGED <<tm, op>>
    /\ UNCHANGED <<now, batch, left, result, sock, token>>

SendTimeoutSuspend(c) ==
    /\ Runs(c, "suspend") /\ op[c].kind = "write_timeout"
    /\ \/ AlreadyCancelled(c)
       \/ /\ ~Cancelled(c)
          /\ StartTimeout(c, I!Submit(fd_to_op, op[c].fd, c, I!EVENT_WRITE))
    /\ UNCHANGED <<now, batch, left, result, sock, token>>

WaitSuspend(c) ==
    /\ Runs(c, "suspend") /\ op[c].kind = "wait_for"
    /\ \E t \in T!SetTimer(tm, c, now + op[c].delay) :
          /\ tm' = t
          /\ fd_to_op' = I!Submit(fd_to_op, TimerFd, t.cur.op, I!EVENT_TIMER)
    /\ op' = [op EXCEPT ![c].due = now + op[c].delay]
    /\ Suspend(c)
    /\ UNCHANGED <<now, batch, left, result, sock, token>>

-------------------------------------------------------------------------------
(* await_resume of the inner awaiters *)

RecvResume(c) ==
    /\ Runs(c, "resume") /\ op[c].kind = "read"
    /\ fd_to_op' = RemoveCancel(RemoveRead(fd_to_op, c), c)
    /\ \/ /\ Cancelled(c)
          /\ ConsumeCancel(c)
          /\ ReadLoop(c, "canceled", 0)
       \/ /\ ~Cancelled(c)
          /\ \E r \in TryRead(op[c].fd, Remain(c)) : ReadLoop(c, r.ec, r.n)
          /\ UNCHANGED token
    /\ UNCHANGED <<now, tm, batch, at, left>>

\* is_current and no time left on the timerfd
TimedOut(c) == T!IsCurrent(tm, c) /\ T!GetTimer(tm, now) = 0

RecvTimeoutResume(c) ==
    LET table == RemoveCancel(RemoveRead(fd_to_op, c), c)
    IN  /\ Runs(c, "resume") /\ op[c].kind = "read_timeout"
        /\ \/ /\ Cancelled(c)
              /\ ConsumeCancel(c)
              /\ RefreshTimerRegistration(T!Cancel(tm, c), table)
              /\ ReadLoop(c, "canceled", 0)
           \/ /\ ~Cancelled(c) /\ TimedOut(c)
              /\ RefreshTimerRegistration(T!Cancel(T!Consume(tm), c), table)
              /\ ReadLoop(c, "timed_out", 0)
              /\ UNCHANGED token
           \/ /\ ~Cancelled(c) /\ ~TimedOut(c)
              /\ RefreshTimerRegistration(T!Cancel(tm, c), table)
              /\ \E r \in TryRead(op[c].fd, Remain(c)) : ReadLoop(c, r.ec, r.n)
              /\ UNCHANGED token
        /\ UNCHANGED <<now, batch, at, left>>

\* async_read_some_impl has no loop
RecvSomeResume(c) ==
    LET s == op[c].fd
    IN  /\ Runs(c, "resume") /\ op[c].kind = "read_some"
        /\ fd_to_op' = RemoveRead(fd_to_op, c)
        /\ \E r \in TryRead(s, Remain(c)) :
              /\ Return(c, r.ec, r.n)
              /\ sock' = [sock EXCEPT ![s].inbox = @ - r.n, ![s].told.in = @ + r.n]
        /\ UNCHANGED <<now, tm, batch, at, left, token>>

SendResume(c) ==
    /\ Runs(c, "resume") /\ op[c].kind = "write"
    /\ fd_to_op' = RemoveCancel(RemoveWrite(fd_to_op, c), c)
    /\ \/ /\ Cancelled(c)
          /\ ConsumeCancel(c)
          /\ WriteLoop(c, "canceled", 0, "CANCELLED")
       \/ /\ ~Cancelled(c)
          /\ LET r == TryWrite(op[c].fd, Remain(c))
             IN  WriteLoop(c, r.ec, r.n, r.stat)
          /\ UNCHANGED token
    /\ UNCHANGED <<now, tm, batch, at, left>>

SendTimeoutResume(c) ==
    LET table == RemoveCancel(RemoveWrite(fd_to_op, c), c)
    IN  /\ Runs(c, "resume") /\ op[c].kind = "write_timeout"
        /\ \/ /\ Cancelled(c)
              /\ ConsumeCancel(c)
              /\ RefreshTimerRegistration(T!Cancel(tm, c), table)
              /\ WriteLoop(c, "canceled", 0, "CANCELLED")
           \/ /\ ~Cancelled(c) /\ TimedOut(c)
              /\ RefreshTimerRegistration(T!Cancel(T!Consume(tm), c), table)
              /\ WriteLoop(c, "timed_out", 0, "TIMEOUT")
              /\ UNCHANGED token
           \/ /\ ~Cancelled(c) /\ ~TimedOut(c)
              /\ RefreshTimerRegistration(T!Cancel(tm, c), table)
              /\ LET r == TryWrite(op[c].fd, Remain(c))
                 IN  WriteLoop(c, r.ec, r.n, r.stat)
              /\ UNCHANGED token
        /\ UNCHANGED <<now, batch, at, left>>

\* consume() blocks the thread until the timerfd expires
WaitResume(c) ==
    /\ Runs(c, "resume") /\ op[c].kind = "wait_for"
    /\ T!TimerFdReadable(tm, now)
    /\ \E t \in T!Advance(T!Consume(tm)) : RefreshTimerRegistration(t, fd_to_op)
    /\ Return(c, "ok", 0)
    /\ UNCHANGED <<now, batch, at, left, sock, token>>

\* with_timeout_impl has its result and ends.  The handle of the coroutine that
\* awaits it is not used, and its await_suspend returned void: nothing resumes it.
EndWithTimeout(c) ==
    /\ Runs(c, "final")
    /\ at' = [at EXCEPT ![c] = "stranded"]
    /\ Yield
    /\ UNCHANGED <<now, tm, fd_to_op, batch, op, left, result, sock, token>>

-------------------------------------------------------------------------------
(* main() and the coroutines' own code *)

Launch(c) ==
    /\ control.at = "main" /\ at[c] = "created"
    /\ at' = [at EXCEPT ![c] = "running"]
    /\ Goto("user", c)
    /\ UNCHANGED <<now, tm, fd_to_op, batch, op, left, result, sock, token>>

EnterRunning ==
    /\ control.at = "main" /\ \A c \in Coros : at[c] # "created"
    /\ control' = [control EXCEPT !.at = "loop", !.running = TRUE]
    /\ UNCHANGED <<now, tm, fd_to_op, batch, at, op, left, result, sock, token>>

\* One read and one write may be outstanding on a socket: the limitation that
\* active_cancellation_design_note.md states and user code has to keep to.
SingleWaiter(c, o) ==
    \A d \in Coros \ {c} : op[d] # Idle /\ op[d].fd = o.fd /\ o.fd \in Socks =>
        (op[d].kind \in Ins) # (o.kind \in Ins)

\* the operation's coroutine starts at once; with Own, on the connection c holds
Begin(c, o) ==
    /\ Runs(c, "user") /\ left[c] > 0
    /\ o.kind # "connect" /\ SingleWaiter(c, o)
    /\ o.kind = "accept" => Owned(c) = {}
    /\ \E fd \in IF o.fd = Own THEN Owned(c) ELSE {o.fd} :
          op' = [op EXCEPT ![c] = Begun(o, fd)]
    /\ left' = [left EXCEPT ![c] = @ - 1]
    /\ Goto("suspend", c)
    /\ UNCHANGED <<now, tm, fd_to_op, batch, at, result, sock, token>>

\* request_cancel on the loop's own thread
RequestCancelHere(c, t) ==
    /\ Runs(c, "user") /\ c \in Cancellers
    /\ ~token[t].cancelled
    /\ token' = [token EXCEPT ![t] = [cancelled |-> TRUE, eventfd |-> "readable"]]
    /\ UNCHANGED <<now, tm, fd_to_op, batch, control, at, op, left, result, sock>>

\* the coroutine's locals are destroyed before it reaches its final suspend point
End(c, how) ==
    /\ at' = [at EXCEPT ![c] = how]
    /\ sock' = [s \in Socks |-> IF s \in Owned(c) THEN Socket("closed", NoCo) ELSE sock[s]]
    /\ Yield
    /\ UNCHANGED <<now, tm, fd_to_op, batch, op, left, result, token>>

Finish(c) == Runs(c, "user") /\ End(c, "done")

-------------------------------------------------------------------------------
(* Scheduler::running *)

\* what epoll reports for a descriptor, restricted to the interest set but for
\* errors and hang-ups (Broken), which are always reported
InReady(fd) ==
    IF fd = TimerFd THEN T!TimerFdReadable(tm, now)
    ELSE IF fd \in Tokens THEN token[fd].eventfd = "readable"
    ELSE sock[fd].inbox > 0 \/ sock[fd].link = "shut"
OutReady(fd) == fd \in Socks /\ Room(fd) > 0
BrokenFd(fd) == fd \in Socks /\ Broken(fd)

ReadyEvents ==
    {e \in {[fd  |-> fd,
             in  |-> BrokenFd(fd) \/ ("IN" \in fd_to_op[fd].events /\ InReady(fd)),
             out |-> BrokenFd(fd) \/ ("OUT" \in fd_to_op[fd].events /\ OutReady(fd))] :
               fd \in {f \in Fds : I!Registered(fd_to_op, f)}} : e.in \/ e.out}

\* epoll_wait returns what is ready, at most MaxEvents, in no particular order
Poll ==
    /\ control.at = "loop" /\ control.next = NoCo /\ batch = {}
    /\ ReadyEvents # {}
    /\ batch' \in kSubset(Min({MaxEvents, Cardinality(ReadyEvents)}), ReadyEvents)
    /\ UNCHANGED <<now, tm, fd_to_op, control, at, op, left, result, sock, token>>

\* complete() of the operation in a slot
Complete(c, next) ==
    /\ control' = [control EXCEPT !.at = "resume", !.co = c, !.next = next]
    /\ at' = [at EXCEPT ![c] = "running"]

\* one turn of the for loop: both pointers are read before either is used
Dispatch(e) ==
    /\ control.at = "loop" /\ control.next = NoCo /\ e \in batch
    /\ batch' = batch \ {e}
    /\ LET read_op  == IF e.in THEN fd_to_op[e.fd].read ELSE NoCo
           write_op == IF e.out THEN fd_to_op[e.fd].write ELSE NoCo
       IN  \/ read_op # NoCo /\ Complete(read_op, write_op)
           \/ read_op = NoCo /\ write_op # NoCo /\ Complete(write_op, NoCo)
           \/ read_op = NoCo /\ write_op = NoCo /\ UNCHANGED <<control, at>>
    /\ UNCHANGED <<now, tm, fd_to_op, op, left, result, sock, token>>

\* the second half of that turn, with the pointer read before the first
CompleteWrite ==
    /\ control.at = "loop" /\ control.next # NoCo
    /\ Complete(control.next, NoCo)
    /\ UNCHANGED <<now, tm, fd_to_op, batch, op, left, result, sock, token>>

LeaveRunning ==
    /\ control.at = "loop" /\ control.next = NoCo /\ batch = {}
    /\ I!Empty(fd_to_op)
    /\ Goto("exit", NoCo)
    /\ UNCHANGED <<now, tm, fd_to_op, batch, at, op, left, result, sock, token>>

-------------------------------------------------------------------------------
Loop == Poll \/ (\E e \in batch : Dispatch(e)) \/ CompleteWrite \/ LeaveRunning

Awaiter(c) ==
    \/ RecvSuspend(c) \/ RecvTimeoutSuspend(c) \/ RecvSomeSuspend(c)
    \/ SendSuspend(c) \/ SendTimeoutSuspend(c) \/ WaitSuspend(c)
    \/ CancelSlotSubmit(c)
    \/ RecvResume(c) \/ RecvTimeoutResume(c) \/ RecvSomeResume(c)
    \/ SendResume(c) \/ SendTimeoutResume(c) \/ WaitResume(c)
    \/ EndWithTimeout(c)

User(c) ==
    \/ Launch(c) \/ Finish(c)
    \/ \E o \in Menu[c] : Begin(c, o)
    \/ \E t \in Tokens : RequestCancelHere(c, t)

Thread == EnterRunning \/ Loop \/ \E c \in Coros : Awaiter(c) \/ User(c)

Next == \/ Thread
        \/ Tick
        \/ Peer
        \/ \E t \in Tokens : RequestCancel(t) \/ SignalCancel(t)

Spec == Init /\ [][Next]_vars

\* The thread runs, time passes, and request_cancel, once begun, ends.  Peers
\* and cancellation are the environment's choice.
Fairness == /\ WF_vars(Thread)
            /\ WF_vars(Tick)
            /\ \A t \in Tokens : WF_vars(SignalCancel(t))

FairSpec == Spec /\ Fairness

-------------------------------------------------------------------------------
(* Properties *)

Suspended(c) == at[c] = "suspended"

\* what wakes a suspended operation is in place: the socket, with a timeout the
\* timer, and with a token the eventfd
Watched(c) ==
    /\ op[c].kind \in Ins => /\ fd_to_op[op[c].fd].read = c
                             /\ "IN" \in fd_to_op[op[c].fd].events
    /\ op[c].kind \in Outs => /\ fd_to_op[op[c].fd].write = c
                              /\ "OUT" \in fd_to_op[op[c].fd].events
    /\ op[c].token # NoToken /\ ~Cancelled(c) => fd_to_op[op[c].token].read = c
    /\ op[c].kind \in Timed => \E x \in T!Pending(tm) : x.op = c /\ x.tp = op[c].due

\* No suspended operation is cut off from its socket, its timer or its token,
\* whatever the operations that share the descriptor or the timerfd do as they
\* come and go (submit_event_impl, remove_op_impl, refresh_timer_registration).
\* For tokens that no two operations share.
NoOrphan == \A c \in Coros : Suspended(c) => Watched(c)

\* c's awaiter is alive and has reached the point where it registers
Alive(c) == Suspended(c) \/ Runs(c, "resume") \/ Runs(c, "slot")

\* The loop never calls complete() on a finished operation: every pointer in the
\* table, and the write_op that Scheduler::running holds across the completion
\* of the read_op, belongs to a live awaiter on that descriptor; and an interest
\* bit is set exactly when its slot is filled.
SlotsLive ==
    /\ \A fd \in Fds :
          LET e == fd_to_op[fd]
          IN  /\ ("IN" \in e.events) <=> (e.read # NoCo)
              /\ ("OUT" \in e.events) <=> (e.write # NoCo)
              /\ e.read # NoCo => /\ Alive(e.read)
                                  /\ \/ op[e.read].fd = fd /\ op[e.read].kind \notin Outs
                                     \/ op[e.read].token = fd
                                     \/ op[e.read].kind \in Timed /\ fd = TimerFd
              /\ e.write # NoCo => /\ Alive(e.write)
                                   /\ op[e.write].fd = fd /\ op[e.write].kind \in Outs
    /\ control.next # NoCo => /\ Suspended(control.next)
                              /\ op[control.next].kind \in Outs

\* running() returns exactly when nothing is suspended: no operation is abandoned
\* and no registration is left that would keep the loop in epoll_wait.
RunsWhileNeeded ==
    control.at = "loop" => (I!Empty(fd_to_op) <=> \A c \in Coros : ~Suspended(c))

\* bytes that those of the operations f hold that are of kinds K and await s
Held(f, K, s) ==
    MapThenSumSet(LAMBDA c : f[c].got, {c \in Coros : f[c].kind \in K /\ f[c].fd = s})

InFlight(K, s) == Held(op, K, s)

\* Every byte is reported once: what the peer sent is still in the kernel, in the
\* buffer of the read in progress or reported by a read that returned (timed out
\* and cancelled ones included); likewise what send accepted.
BytesReported ==
    \A s \in Socks :
        /\ sock[s].sent = sock[s].inbox + sock[s].told.in + InFlight(Reads, s)
        /\ sock[s].taken = sock[s].told.out + InFlight(Writes, s)

\* An async_read that reports success has filled its buffer, or the peer is gone
\* ("always read up to buf.capacity()", async_read.h:140-142).
ShortReadMeansEof ==
    \A c \in Coros :
        LET r == result[c]
        IN  /\ r.ec = "ok" /\ r.op.kind \in {"read", "read_timeout"}
            /\ r.n < r.op.size
            => sock[r.op.fd].link # "open"

\* A timed-out operation and a returned wait_for were due.
NeverEarly ==
    \A c \in Coros : LET r == result[c]
                     IN  r.ec = "timed_out" \/ r.op.kind = "wait_for" => r.op.due <= now

\* The awaiters use the timer the way TimerEvent has it, so what is proved there
\* holds here: each step of the framework is a step of TimerEvent or leaves its
\* variables alone.  An operation awaits its timer while the map knows it.
TimerUse == [c \in Coros |-> IF tm.active_timer_ids[c] = 0 THEN "no"
                             ELSE IF op[c].kind = "wait_for" THEN "wait"
                             ELSE "timeout"]
TimerReported == \E e \in batch : e.fd = TimerFd
TimerResuming == IF control.at = "resume" /\ tm.active_timer_ids[control.co] # 0
                 THEN control.co ELSE NoCo
TE == INSTANCE TimerEvent
         WITH Ops <- Coros, NoOp <- NoCo,
              Delays <- {o.delay : o \in UNION {Menu[c] : c \in Coros}},
              MaxTime <- 0, MaxTimers <- 0,
              awaiting <- TimerUse,
              registered <- fd_to_op[TimerFd].read,
              event <- TimerReported,
              resuming <- TimerResuming
TimerSpec == TE!Spec

\* A cancelled operation does not wait for its socket
\* (active_cancellation_design_note.md:3-11).
CancelWakes == \A c \in Coros : (Suspended(c) /\ Cancelled(c)) ~> ~Suspended(c)

\* The part of it that holds whoever requests the cancellation: once the token is
\* in the table, the request wakes the operation (cancel_token::request_cancel).
RegisteredCancelWakes ==
    \A c \in Coros :
        (/\ Suspended(c) /\ Cancelled(c)
         /\ fd_to_op[op[c].token].read = c) ~> ~Suspended(c)

\* Data, or a connection, that has arrived wakes the read or accept that waits.
DataWakes ==
    \A c \in Coros : (Suspended(c) /\ op[c].kind \in Ins /\ sock[op[c].fd].inbox > 0)
                        ~> ~Suspended(c)

\* the loop's turn for event e completes c's operation
Wakes(e, c) == \/ e.in /\ fd_to_op[e.fd].read = c
               \/ e.out /\ fd_to_op[e.fd].write = c

\* Whoever can go on is reported: epoll_wait(-1) in Scheduler::running has an event for
\* each operation whose socket is ready or, once signalled, whose registered token was
\* cancelled; and when any is due, for the timerfd, with one that is due in its slot.
NoLostWakeup ==
    control.at = "loop" => \A c \in Coros : Suspended(c) =>
        /\ \/ op[c].kind \in Ins /\ (InReady(op[c].fd) \/ BrokenFd(op[c].fd))
           \/ op[c].kind \in Outs /\ (OutReady(op[c].fd) \/ BrokenFd(op[c].fd))
           \/ /\ Cancelled(c) /\ token[op[c].token].eventfd # "due"
              /\ fd_to_op[op[c].token].read = c
           => \E e \in ReadyEvents : Wakes(e, c)
        /\ op[c].kind \in Timed /\ op[c].due <= now
           => \E e \in ReadyEvents, d \in Coros :
                 e.fd = TimerFd /\ Wakes(e, d) /\ op[d].kind \in Timed /\ op[d].due <= now

\* Without other threads every cancelled operation is among those
\* (active_cancellation_design_note.md:3-11).
CancelReported ==
    \A c \in Coros : Suspended(c) /\ Cancelled(c) => \E e \in ReadyEvents : Wakes(e, c)

\* running() leaves the process-wide TimerEvent as a later Scheduler needs it: no
\* task of a coroutine that has gone, and a timerfd that does not fire for nobody
\* (get_instance, timer.h:123-126).
LeavesTimerClean == control.at = "exit" => T!Pending(tm) = {} /\ tm.alarm = 0

\* co_await with_timeout(op, delay) ends, and its caller runs on
\* (test_write_read_withtimeout.cpp:31-40).
WithTimeoutReturns ==
    \A c \in Coros : (op[c] # Idle /\ op[c].wrapped) ~> Runs(c, "user")

\* An operation with a timeout, and a wait_for, ends whatever the peer does.
TimedOpsEnd == \A c \in Coros : op[c].kind \in Timed ~> op[c] = Idle

\* A cancelled operation reports no bytes (cancellation_token.h:34-35).
CancelledMeansZeroBytes ==
    \A c \in Coros : result[c].ec = "canceled" => result[c].n = 0
===============================================================================
