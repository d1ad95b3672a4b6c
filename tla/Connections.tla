----------------------------- MODULE Connections -----------------------------
(***************************************************************************)
(* The framework of AsyncIO with the operations that make and end          *)
(* connections: async_accept (async_accept.h), async_connect               *)
(* (async_connect.h, try_connect.h, connecting.h) and the closing of a     *)
(* Connection (connection.h), after which its number can name a new socket *)
(* while the loop still has events for the old one.                        *)
(*                                                                         *)
(* A coroutine holds at most one Connection, in a local variable, and      *)
(* neither accepts nor connects while it does.                             *)
(***************************************************************************)
EXTENDS AsyncIO

\* the numbers socket() and accept4() may return
Free == {s \in Socks : sock[s].link = "closed"}

-------------------------------------------------------------------------------
(* The outside *)

\* a client is added to a listener's backlog
PeerConnects(l) ==
    /\ sock[l].link = "listening" /\ sock[l].sent < MaxBytes
    /\ sock' = [sock EXCEPT ![l].sent = @ + 1, ![l].inbox = @ + 1]
    /\ UNCHANGED <<now, tm, fd_to_op, batch, control, at, op, left, result, token>>

\* a connect in progress succeeds or fails (a handshake without answer fails too)
PeerAnswers(s) ==
    /\ sock[s].link = "connecting"
    /\ \E link \in {"open", "refused"} : sock' = [sock EXCEPT ![s].link = link]
    /\ UNCHANGED <<now, tm, fd_to_op, batch, control, at, op, left, result, token>>

-------------------------------------------------------------------------------
(* Plausible slips, each exercised by a mutation run *)

\* returns without a look at SO_ERROR
ConnectError_Ignored(s) == "ok"

\* leaves the descriptor open when the connect fails
EndConnect_Leak(c, ec) ==
    /\ Return(c, ec, 0)
    /\ sock' = IF ec = "ok" THEN [sock EXCEPT ![op[c].fd].owner = c] ELSE sock

\* leaves the descriptor to the table
ConnectResume_NotRemoved(c) ==
    /\ Runs(c, "resume") /\ op[c].kind = "connect"
    /\ Return(c, IF Broken(op[c].fd) THEN "error" ELSE "ok", 0)
    /\ sock' = IF Broken(op[c].fd) THEN [sock EXCEPT ![op[c].fd] = Socket("closed", NoCo)]
               ELSE [sock EXCEPT ![op[c].fd].owner = c]
    /\ UNCHANGED <<now, tm, fd_to_op, batch, at, left, token>>

\* waits for the connection to become readable
ConnectSuspend_ForRead(c) ==
    /\ Runs(c, "suspend") /\ op[c].kind = "connect"
    /\ sock' = [sock EXCEPT ![op[c].fd].link = "connecting"]
    /\ fd_to_op' = I!Submit(fd_to_op, op[c].fd, c, I!EVENT_READ)
    /\ Suspend(c)
    /\ UNCHANGED <<now, tm, batch, op, left, result, token>>

\* takes the connection from the backlog before it has a number for it
Accept_Dropped(c, l) ==
    /\ sock' = IF sock[l].inbox = 0 THEN sock ELSE [sock EXCEPT ![l].inbox = @ - 1]
    /\ Return(c, "error", 0)

-------------------------------------------------------------------------------
(* async_connect *)

\* BuilderClient: socket()
BeginConnect(c, o) ==
    /\ Runs(c, "user") /\ left[c] > 0
    /\ o.kind = "connect" /\ Owned(c) = {}
    /\ \E s \in Free : /\ op' = [op EXCEPT ![c] = Begun(o, s)]
                       /\ sock' = [sock EXCEPT ![s] = Socket("new", NoCo)]
    /\ left' = [left EXCEPT ![c] = @ - 1]
    /\ Goto("suspend", c)
    /\ UNCHANGED <<now, tm, fd_to_op, batch, at, result, token>>

\* or there is none and it throws: the promise keeps the exception and the coroutine has ended
SocketFails(c, o) ==
    /\ Runs(c, "user") /\ left[c] > 0
    /\ o.kind = "connect" /\ Owned(c) = {} /\ Free = {}
    /\ End(c, "threw")

\* or create_sock finds the address bad, when it has the socket already: its number
\* is open and known to nobody, and the coroutine has ended in the same way
AddressFails(c, o) ==
    /\ Runs(c, "user") /\ left[c] > 0
    /\ o.kind = "connect" /\ Owned(c) = {}
    /\ \E s \in Free : sock' = [sock EXCEPT ![s] = Socket("lost", NoCo)]
    /\ at' = [at EXCEPT ![c] = "threw"]
    /\ Yield
    /\ UNCHANGED <<now, tm, fd_to_op, batch, op, left, result, token>>

\* connect_await::await_resume: the caller gets a Connection or an error, and with
\* an error the descriptor is closed
EndConnect(c, ec) ==
    /\ Return(c, ec, 0)
    /\ sock' = IF ec = "ok" THEN [sock EXCEPT ![op[c].fd].owner = c]
               ELSE [sock EXCEPT ![op[c].fd] = Socket("closed", NoCo)]

\* try_connect's CONNECTED, ERROR and INPROGRESS
ConnectSuspend(c) ==
    /\ Runs(c, "suspend") /\ op[c].kind = "connect"
    /\ \/ /\ Return(c, "ok", 0)
          /\ sock' = [sock EXCEPT ![op[c].fd] = Socket("open", c)]
          /\ UNCHANGED <<fd_to_op, at>>
       \/ /\ EndConnect(c, "error")
          /\ UNCHANGED <<fd_to_op, at>>
       \/ /\ sock' = [sock EXCEPT ![op[c].fd].link = "connecting"]
          /\ fd_to_op' = I!Submit(fd_to_op, op[c].fd, c, I!EVENT_WRITE)
          /\ Suspend(c)
          /\ UNCHANGED <<op, result>>
    /\ UNCHANGED <<now, tm, batch, left, token>>

\* SO_ERROR: nothing wrong is also what it says of a connect in progress
ConnectError(s) == IF Broken(s) THEN "error" ELSE "ok"

ConnectResume(c) ==
    /\ Runs(c, "resume") /\ op[c].kind = "connect"
    /\ fd_to_op' = RemoveWrite(fd_to_op, c)
    /\ EndConnect(c, ConnectError(op[c].fd))
    /\ UNCHANGED <<now, tm, batch, at, left, token>>

-------------------------------------------------------------------------------
(* async_accept *)

AcceptSuspend(c) ==
    /\ Runs(c, "suspend") /\ op[c].kind = "accept"
    /\ fd_to_op' = I!Submit(fd_to_op, op[c].fd, c, I!EVENT_READ)
    /\ Suspend(c)
    /\ UNCHANGED <<now, tm, batch, op, left, result, sock, token>>

\* accept4: EAGAIN on an empty backlog; without a number for the connection EMFILE,
\* and the connection stays in the backlog
Accept(c, l) ==
    \/ /\ sock[l].inbox = 0 \/ Free = {}
       /\ Return(c, "error", 0)
       /\ UNCHANGED sock
    \/ /\ sock[l].inbox > 0
       /\ \E s \in Free : sock' = [sock EXCEPT ![l].inbox = @ - 1, ![l].told.in = @ + 1,
                                               ![s] = Socket("open", c)]
       /\ Return(c, "ok", 0)

AcceptResume(c) ==
    /\ Runs(c, "resume") /\ op[c].kind = "accept"
    /\ fd_to_op' = RemoveRead(fd_to_op, c)
    /\ Accept(c, op[c].fd)
    /\ UNCHANGED <<now, tm, batch, at, left, token>>

\* close_fd, or the Connection's end of scope
Close(c) ==
    /\ Runs(c, "user") /\ Owned(c) # {}
    /\ sock' = [s \in Socks |-> IF s \in Owned(c) THEN Socket("closed", NoCo) ELSE sock[s]]
    /\ UNCHANGED <<now, tm, fd_to_op, batch, control, at, op, left, result, token>>

-------------------------------------------------------------------------------
Connecting(c) ==
    \/ \E o \in Menu[c] : BeginConnect(c, o) \/ SocketFails(c, o) \/ AddressFails(c, o)
    \/ ConnectSuspend(c) \/ ConnectResume(c)
    \/ AcceptSuspend(c) \/ AcceptResume(c)
    \/ Close(c)

ConnNext == \/ Next
            \/ \E c \in Coros : Connecting(c)
            \/ \E s \in Socks : PeerConnects(s) \/ PeerAnswers(s)

ConnSpec == Init /\ [][ConnNext]_vars

\* As in AsyncIO; and a connect in progress does not stay so for ever.  Clients
\* need not come.
ConnFairSpec ==
    /\ ConnSpec
    /\ WF_vars(Thread \/ \E c \in Coros : Connecting(c))
    /\ WF_vars(Tick)
    /\ \A t \in Tokens : WF_vars(SignalCancel(t))
    /\ \A s \in Socks : WF_vars(PeerAnswers(s))

-------------------------------------------------------------------------------
(* Properties *)

\* A number that is closed, new or lost is not in the table, whichever of its events
\* ended the operations on it: so every epoll_ctl is about an open descriptor and ERR_MSG,
\* which would throw inside noexcept functions, is not reached
\* (epoll_manager.h:49-71).
NoStaleEntry ==
    \A s \in Socks : sock[s].link \in {"closed", "new", "lost"} => ~I!Registered(fd_to_op, s)

\* No descriptor is lost but for a bad address: what accept4 and socket() have returned
\* is held by a coroutine that is still there to close it, or by a connect in progress,
\* unless create_sock threw it away (connecting.h:179).
DescriptorsOwned ==
    \A s \in Unused :
        sock[s].link \notin {"closed", "lost"} =>
            \/ sock[s].owner # NoCo /\ at[sock[s].owner] \notin {"done", "threw"}
            \/ \E c \in Coros : op[c] # Idle /\ op[c].kind = "connect" /\ op[c].fd = s

\* A Connection that async_connect or async_accept hands over is connected, or was
\* (connect_error, async_connect.h:25-35).
ConnectedMeansConnected ==
    \A s \in Socks :
        sock[s].owner # NoCo => sock[s].link \in {"open", "shut", "reset"}

\* A connect ends: the event that reports its outcome, good or bad, wakes it.
ConnectEnds ==
    \A c \in Coros : (op[c] # Idle /\ op[c].kind = "connect") ~> op[c] = Idle
===============================================================================
