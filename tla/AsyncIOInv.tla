------------------------------ MODULE AsyncIOInv ------------------------------
(***************************************************************************)
(* What makes the invariants of AsyncIO and Connections inductive: how the *)
(* thread's control point, the awaited operations, the table, the timer    *)
(* and the descriptors hang together between any two steps.                *)
(***************************************************************************)
EXTENDS AsyncIO

\* c's coroutine is inside an operation
Busy(c) == op[c] # Idle

\* the descriptor the operation o of the code names is fd
Names(o, fd) == IF o.fd = Own THEN fd \in Unused ELSE fd = o.fd

\* An awaited operation is one of the code's, on the descriptor the code names,
\* and never moves more bytes than the buffer has room for (do_read.h).
OpsOK ==
    \A c \in Coros : Busy(c) =>
        /\ \E o \in Menu[c] :
              /\ op[c].kind = o.kind /\ op[c].token = o.token
              /\ op[c].size = o.size /\ op[c].start = o.start
              /\ op[c].delay = o.delay /\ op[c].wrapped = o.wrapped
              /\ Names(o, op[c].fd)
        /\ op[c].start + op[c].got <= op[c].size

\* There is one thread: the coroutine it runs is the one that is running, whoever
\* awaits something else is suspended, and the write_op it holds across the
\* completion of a read_op still waits.
ThreadOK ==
    /\ control.co = NoCo <=> control.at \in {"main", "loop", "exit"}
    /\ control.at = "main" => ~control.running
    /\ control.at \in {"loop", "exit"} => control.running
    /\ control.next # NoCo => /\ control.running
                              /\ at[control.next] = "suspended"
                              /\ op[control.next].kind \in Outs
    /\ \A c \in Coros :
          /\ at[c] = "running" <=> control.co = c
          /\ Busy(c) <=> \/ at[c] = "suspended"
                         \/ control.co = c /\ control.at \in {"suspend", "slot", "resume"}
    /\ control.at = "slot" => op[control.co].token # NoToken

\* One operation per direction of a socket, across the reuse of numbers.
OneWaiter ==
    \A c, d \in Coros :
        /\ c # d /\ Busy(c) /\ Busy(d)
        /\ op[c].fd = op[d].fd /\ op[c].fd \in Socks
        => (op[c].kind \in Ins) # (op[d].kind \in Ins)

\* in the entry of fd a slot and its interest bit go together
Slots(table, fd) ==
    /\ "IN" \in table[fd].events <=> table[fd].read # NoCo
    /\ "OUT" \in table[fd].events <=> table[fd].write # NoCo
    /\ "ET" \in table[fd].events => fd = TimerFd /\ "IN" \in table[fd].events

\* c is in an operation and its await_suspend has put it into the table
Placed(c) == Busy(c) /\ ~Runs(c, "suspend")

\* Who is in the table: on a socket an operation of that socket in the right
\* direction, on a token one that was given it, on the timerfd the current task's.
TableOK ==
    /\ \A fd \in Fds : Slots(fd_to_op, fd)
    /\ \A c \in Coros :
          /\ \A s \in Socks :
                /\ fd_to_op[s].read = c => Placed(c) /\ op[c].fd = s /\ op[c].kind \in Ins
                /\ fd_to_op[s].write = c => Placed(c) /\ op[c].fd = s /\ op[c].kind \in Outs
          /\ \A t \in Tokens : fd_to_op[t].read = c => Placed(c) /\ op[c].token = t
    /\ \A t \in Tokens : fd_to_op[t].write = NoCo
    /\ fd_to_op[TimerFd].read = tm.cur.op
    /\ fd_to_op[TimerFd].write = NoCo

\* And who has to be: what waits on a socket, and what waits for time.
WaitersOK ==
    \A c \in Coros : at[c] = "suspended" \/ Runs(c, "slot") =>
        /\ op[c].kind \in Ins => fd_to_op[op[c].fd].read = c
        /\ op[c].kind \in Outs => fd_to_op[op[c].fd].write = c
        /\ op[c].kind \in Timed => tm.active_timer_ids[c] # 0

\* No two coroutines are given the same token.
PrivateTokens ==
    \A c, d \in Coros : \A o \in Menu[c], q \in Menu[d] :
        c # d /\ o.token # NoToken => o.token # q.token

\* A token that no other operation uses is registered until it is cancelled.
CancelOK ==
    PrivateTokens =>
        \A c \in Coros :
            at[c] = "suspended" /\ op[c].token # NoToken /\ ~Cancelled(c)
                => fd_to_op[op[c].token].read = c

\* The timer is settled, its tasks are those of operations under way, each due
\* when its operation is, and await_resume finds what its await_suspend left: a
\* timer unless the token was cancelled before it, and the current one in wait_for.
TimersOK ==
    /\ T!Settled(tm)
    /\ \A c \in Coros :
          /\ tm.active_timer_ids[c] # 0 => Placed(c) /\ op[c].kind \in Timed
          /\ Runs(c, "resume") /\ op[c].kind \in Timed
                => tm.active_timer_ids[c] # 0 \/ Cancelled(c)
          /\ Runs(c, "resume") /\ op[c].kind = "wait_for" => tm.cur.op = c
    /\ \A x \in T!Pending(tm) : op[x.op].due = x.tp

\* The kernel's counters, the sockets that main() holds, and who holds the others:
\* a coroutine that is still there, or a connect that has its socket to itself.
SocksOK ==
    /\ \A s \in Socks :
          /\ sock[s].inbox <= sock[s].sent
          /\ sock[s].taken <= 1 + sock[s].drained
          /\ s \notin Unused => /\ sock[s].owner = NoCo
                                /\ sock[s].link \notin {"closed", "lost", "new", "connecting"}
          /\ sock[s].owner # NoCo => /\ sock[s].link \notin {"closed", "lost", "new"}
                                     /\ at[sock[s].owner] \notin {"done", "threw"}
          /\ s \in Unused /\ sock[s].link \notin {"closed", "lost"} =>
                \/ sock[s].owner # NoCo
                \/ \E c \in Coros : Busy(c) /\ op[c].kind = "connect" /\ op[c].fd = s
    /\ \A c \in Coros : Busy(c) /\ op[c].fd \in Unused =>
          IF op[c].kind = "connect"
          THEN /\ sock[op[c].fd].owner = NoCo
               /\ sock[op[c].fd].link \notin {"closed", "lost"}
               /\ sock[op[c].fd].link = "new" <=> Runs(c, "suspend")
          ELSE sock[op[c].fd].owner = c

\* running() has returned: the table is empty and stays so.
ExitOK == control.at = "exit" => I!Empty(fd_to_op)

\* The inductive invariant: TypeOK, what relates the thread, the operations, the
\* table and the timer, and what relates those to the sockets.
Core == /\ OpsOK /\ ThreadOK /\ OneWaiter /\ TableOK /\ WaitersOK /\ TimersOK
        /\ CancelOK /\ NeverEarly /\ ExitOK

IInv == TypeOK /\ Core /\ SocksOK

\* async_read_some has no loop: while it waits it has read nothing.
SomeOK == \A c \in Coros : op[c].kind = "read_some" => op[c].got = 0

\* BytesReported with what makes it inductive
BInv == IInv /\ SomeOK /\ BytesReported

\* A cancelled token in the table has its signal, or gets it.  When only the loop's
\* thread cancels it has it, no cancellation comes between the two tests of the token,
\* and a private token stays in the table until its operation is resumed.
SignalsPending ==
    /\ \A t \in Tokens :
          token[t].cancelled /\ fd_to_op[t].read # NoCo => token[t].eventfd # "empty"
    /\ ~CancelThreads =>
          /\ \A t \in Tokens : token[t].eventfd # "due"
          /\ \A c \in Coros :
                /\ Runs(c, "slot") => ~Cancelled(c)
                /\ PrivateTokens /\ at[c] = "suspended" /\ op[c].token # NoToken
                      => fd_to_op[op[c].token].read = c

\* The invariant behind NoLostWakeup and CancelReported
WInv == IInv /\ SignalsPending

\* epoll_wait reports a descriptor once, and the timerfd as readable.
BatchOK == /\ \A e, f \in batch : e.fd = f.fd => e = f
           /\ \A e \in batch : e.fd = TimerFd => e.in /\ ~e.out

\* With this the thread's steps can be read as steps of TimerEvent.
TInv == IInv /\ BatchOK

\* No code reads from s with a timeout.
Untimed(s) == \A c \in Coros : \A o \in Menu[c] : Names(o, s) => o.kind # "read_timeout"

\* There is something for a reader of s: bytes, or the end.
News(s) == sock[s].inbox > 0 \/ sock[s].link # "open"

\* The token of an event was cancelled before it was signalled.
SignalsOK == /\ \A t \in Tokens : token[t].eventfd # "empty" => token[t].cancelled
             /\ \A e \in batch : e.in /\ e.fd \in Tokens => token[e.fd].cancelled

\* An event that says s can be read still tells the truth when the loop reaches it,
\* and when the read it completes runs: it was the only event of s, and no one else
\* has read since.
EventsTrue(s) ==
    /\ \A e \in batch : e.in /\ e.fd = s => News(s)
    /\ \A c \in Coros :
          Runs(c, "resume") /\ op[c].kind \in Reads /\ op[c].fd = s /\ ~Cancelled(c)
              => News(s) /\ \A e \in batch : e.fd # s

\* ShortReadMeansEof for the reads of s
FullOrEof(s) ==
    \A c \in Coros :
        LET r == result[c]
        IN  /\ r.ec = "ok" /\ r.op.kind \in {"read", "read_timeout"}
            /\ r.op.fd = s /\ r.n < r.op.size
            => sock[s].link # "open"

\* a read returned from a socket
ReadsOnSockets ==
    \A c \in Coros : result[c].op.kind \in Reads => result[c].op.fd \in Socks

\* ShortReadMeansEof on those of the sockets S that no code reads with a timeout, with
\* what makes it inductive
EofInv(S) == /\ TInv /\ SignalsOK /\ ReadsOnSockets
             /\ \A s \in S : Untimed(s) => EventsTrue(s) /\ FullOrEof(s)

\* The streams that main() holds keep their numbers, whatever is accepted or connected.
Streams == Socks \ (Unused \cup Listeners)
MainsInv == EofInv(Streams)

-------------------------------------------------------------------------------
(* Numbers that are used again *)

Connects == \E c \in Coros : \E o \in Menu[c] : o.kind = "connect"

\* If anybody connects, no operation on a connection has a timeout or a token: such
\* an operation can end, and its number be used again, while an event of it is in the
\* batch (ConnectionsReuse.cfg).
PlainConnections ==
    Connects => \A c \in Coros : \A o \in Menu[c] :
                   o.fd = Own => o.kind \notin Timed /\ o.token = NoToken

\* A connection in somebody's hands is one, and connections do not listen.
LinksOK == \A s \in Unused : /\ sock[s].link # "listening"
                             /\ sock[s].owner # NoCo => sock[s].link \in {"open", "shut", "reset"}

\* An event for a number that is used again is about the operation that waits on it
\* now, and not about a connect without an answer; when that operation runs, its event
\* was the number's only one.
EventsFresh ==
    /\ \A e \in batch : e.fd \in Unused =>
          \E c \in Coros : /\ at[c] = "suspended" /\ op[c].fd = e.fd
                           /\ op[c].kind = "connect" => sock[e.fd].link # "connecting"
    /\ \A c \in Coros : Runs(c, "resume") /\ op[c].fd \in Unused =>
          /\ \A e \in batch : e.fd # op[c].fd
          /\ op[c].kind = "connect" => sock[op[c].fd].link # "connecting"
    /\ control.next # NoCo => op[control.next].fd \notin Unused

CInv == TInv /\ (PlainConnections => LinksOK /\ (Connects => EventsFresh))
===============================================================================
