--------------------------- MODULE ConnectionsProofs ---------------------------
(***************************************************************************)
(* The invariants of Connections: accept, connect and closing keep IInv as *)
(* the steps of AsyncIO do, so what is proved there holds here as well,    *)
(* and no entry of the table outlives its descriptor and no descriptor its *)
(* owner.                                                                  *)
(***************************************************************************)
EXTENDS Connections, AsyncIOProofs

-------------------------------------------------------------------------------
(* Who awaits a socket *)

\* Nobody awaits a number that is closed.
LEMMA FreeUnheld ==
    ASSUME IInv, NEW s \in Free
    PROVE  /\ s \in Socks /\ s \in Unused /\ sock[s].owner = NoCo
           /\ \A d \in Coros : Busy(d) => op[d].fd # s
<1>1. s \in Socks /\ s \in Unused /\ sock[s].owner = NoCo /\ sock[s].link = "closed"
  BY DEF Free, IInv, SocksOK
<1>2. ASSUME NEW d \in Coros, Busy(d), op[d].fd = s
      PROVE  FALSE
  <2>1. /\ op[d].kind = "connect" => sock[s].link \notin {"closed", "lost"}
        /\ op[d].kind # "connect" => sock[s].owner = d
    BY <1>1, <1>2 DEF IInv, SocksOK
  <2> QED
    BY <1>1, <2>1, NamesAssumption
<1> QED
  BY <1>1, <1>2

\* A connect has its socket to itself.
LEMMA ConnectAlone ==
    ASSUME IInv, NEW c \in Coros, Busy(c), op[c].kind = "connect"
    PROVE  /\ op[c].fd \in Socks /\ op[c].fd \in Unused
           /\ sock[op[c].fd].owner = NoCo /\ sock[op[c].fd].link \notin {"closed", "lost"}
           /\ \A d \in Coros \ {c} : Busy(d) => op[d].fd # op[c].fd
<1>1. op[c].fd \in Socks /\ op[c].fd \in Unused
  BY OperationFacts, MenuAssumption DEF IInv, Core
<1>2. sock[op[c].fd].owner = NoCo /\ sock[op[c].fd].link \notin {"closed", "lost"}
  BY <1>1 DEF IInv, SocksOK
<1>3. ASSUME NEW d \in Coros \ {c}, Busy(d), op[d].fd = op[c].fd
      PROVE  FALSE
  <2>1. (op[c].kind \in Ins) # (op[d].kind \in Ins)
    BY <1>1, <1>3 DEF IInv, Core, OneWaiter
  <2>2. op[d].kind # "connect"
    BY <2>1, KindFacts
  <2>3. sock[op[c].fd].owner = d
    BY <1>1, <1>3, <2>2 DEF IInv, SocksOK
  <2> QED
    BY <1>2, <2>3, NamesAssumption
<1> QED
  BY <1>1, <1>2, <1>3

-------------------------------------------------------------------------------
(* The sockets *)

\* What a step of accept or connect does with one number that c is given, gives
\* up, or goes on connecting.
SocketChanges(c, s) ==
    /\ sock[s].owner = NoCo
    /\ \A d \in Coros \ {c} : Busy(d) => op[d].fd # s
    /\ \A z \in Socks : sock'[z].inbox <= sock'[z].sent /\ sock'[z].taken <= 1 + sock'[z].drained
    /\ \A z \in Socks \ {s} : sock'[z].link = sock[z].link /\ sock'[z].owner = sock[z].owner
    /\ control.co = c /\ control'.co \in {c, NoCo}
    /\ at'[c] \notin {"done", "threw"}
    /\ \A d \in Coros \ {c} : op'[d] = op[d] /\ at'[d] = at[d]
    /\ Busy(c) => op[c].fd = s \/ op[c].fd \notin Unused
    /\ \/ ~Busy(c)' /\ sock'[s].link = "closed" /\ sock'[s].owner = NoCo
       \/ ~Busy(c)' /\ sock'[s].link \notin {"closed", "lost", "new"} /\ sock'[s].owner = c
       \/ /\ Busy(c)' /\ op'[c].kind = "connect" /\ op'[c].fd = s
          /\ sock'[s].owner = NoCo /\ sock'[s].link \notin {"closed", "lost"}
          /\ sock'[s].link = "new" <=> Runs(c, "suspend")'

\* Such a step keeps the sockets in order.
LEMMA SocketChangesKeep ==
    ASSUME IInv, NEW c \in Coros, NEW s \in Unused, SocketChanges(c, s)
    PROVE  SocksOK'
<1>1. Unused \subseteq Socks /\ NoCo \notin Coros
      /\ \A z \in Socks : sock[z].owner \in Coros \cup {NoCo}
  BY MenuAssumption, NamesAssumption DEF IInv, TypeOK, SocketState
<1>2. \A d \in Coros \ {c} : /\ Busy(d)' <=> Busy(d)
                             /\ op'[d] = op[d] /\ at'[d] = at[d]
                             /\ ~Runs(d, "suspend") /\ ~Runs(d, "suspend")'
  BY <1>1 DEF SocketChanges, Busy, Runs
<1>3. ASSUME NEW z \in Socks
      PROVE  /\ sock'[z].inbox <= sock'[z].sent
             /\ sock'[z].taken <= 1 + sock'[z].drained
             /\ z \notin Unused => /\ sock'[z].owner = NoCo
                                   /\ sock'[z].link \notin {"closed", "lost", "new", "connecting"}
             /\ sock'[z].owner # NoCo => /\ sock'[z].link \notin {"closed", "lost", "new"}
                                         /\ at'[sock'[z].owner] \notin {"done", "threw"}
             /\ z \in Unused /\ sock'[z].link \notin {"closed", "lost"} =>
                   \/ sock'[z].owner # NoCo
                   \/ \E d \in Coros : Busy(d)' /\ op'[d].kind = "connect" /\ op'[d].fd = z
  <2>1. CASE z = s
    BY <1>1, <2>1 DEF SocketChanges
  <2>2. CASE z # s
    <3>1. sock'[z].link = sock[z].link /\ sock'[z].owner = sock[z].owner
      BY <2>2 DEF SocketChanges
    <3>2. sock[z].owner # NoCo => /\ sock[z].link \notin {"closed", "lost", "new"}
                                  /\ at'[sock[z].owner] \notin {"done", "threw"}
      BY <1>1, <1>2 DEF SocketChanges, IInv, SocksOK
    <3>3. ASSUME NEW d \in Coros, Busy(d), op[d].fd = z, z \in Unused
          PROVE  Busy(d)' /\ op'[d] = op[d]
      BY <1>2, <2>2, <3>3 DEF SocketChanges
    <3>4. z \in Unused /\ sock[z].link \notin {"closed", "lost"} =>
             \/ sock[z].owner # NoCo
             \/ \E d \in Coros : Busy(d) /\ op[d].kind = "connect" /\ op[d].fd = z
      BY DEF IInv, SocksOK
    <3>5. z \notin Unused => /\ sock[z].owner = NoCo
                             /\ sock[z].link \notin {"closed", "lost", "new", "connecting"}
      BY DEF IInv, SocksOK
    <3>6. z \in Unused /\ sock'[z].link \notin {"closed", "lost"} =>
             \/ sock'[z].owner # NoCo
             \/ \E d \in Coros : Busy(d)' /\ op'[d].kind = "connect" /\ op'[d].fd = z
      BY <3>1, <3>3, <3>4
    <3> QED
      BY <3>1, <3>2, <3>5, <3>6 DEF SocketChanges
  <2> QED
    BY <2>1, <2>2
<1>4. ASSUME NEW d \in Coros, Busy(d)', op'[d].fd \in Unused
      PROVE  IF op'[d].kind = "connect"
             THEN /\ sock'[op'[d].fd].owner = NoCo
                  /\ sock'[op'[d].fd].link \notin {"closed", "lost"}
                  /\ sock'[op'[d].fd].link = "new" <=> Runs(d, "suspend")'
             ELSE sock'[op'[d].fd].owner = d
  <2>1. CASE d = c
    BY <1>4, <2>1 DEF SocketChanges
  <2>2. CASE d # c
    <3>1. Busy(d) /\ op'[d] = op[d] /\ op[d].fd \in Socks /\ op[d].fd # s
      BY <1>1, <1>2, <1>4, <2>2 DEF SocketChanges
    <3>2. /\ sock'[op[d].fd].link = sock[op[d].fd].link
          /\ sock'[op[d].fd].owner = sock[op[d].fd].owner
      BY <3>1 DEF SocketChanges
    <3>3. IF op[d].kind = "connect"
          THEN /\ sock[op[d].fd].owner = NoCo
               /\ sock[op[d].fd].link \notin {"closed", "lost"}
               /\ sock[op[d].fd].link = "new" <=> Runs(d, "suspend")
          ELSE sock[op[d].fd].owner = d
      BY <1>4, <3>1 DEF IInv, SocksOK
    <3> QED
      BY <1>2, <2>2, <3>1, <3>2, <3>3
  <2> QED
    BY <2>1, <2>2
<1> QED
  BY <1>3, <1>4 DEF SocksOK

\* The kernel gives a number to a new socket, or takes it back.
LEMMA NewSocket ==
    \A c \in Coros \cup {NoCo} : \A l \in {"closed", "new", "lost", "open"} :
       /\ Socket(l, c) \in SocketState
       /\ Socket(l, c).link = l /\ Socket(l, c).owner = c
       /\ Socket(l, c).inbox <= Socket(l, c).sent
       /\ Socket(l, c).taken <= 1 + Socket(l, c).drained
BY DEF Socket, SocketState


-------------------------------------------------------------------------------
(* async_connect *)

\* socket() succeeds
LEMMA BeginConnectKeeps ==
    ASSUME IInv, NEW c \in Coros, NEW o \in Menu[c], BeginConnect(c, o)
    PROVE  IInv'
<1>1. /\ Runs(c, "user") /\ left[c] > 0 /\ o.kind = "connect"
      /\ left' = [left EXCEPT ![c] = @ - 1] /\ Goto("suspend", c)
      /\ UNCHANGED <<now, tm, fd_to_op, batch, at, result, token>>
  BY DEF BeginConnect
<1>2. PICK s \in Free : /\ op' = [op EXCEPT ![c] = Begun(o, s)]
                        /\ sock' = [sock EXCEPT ![s] = Socket("new", NoCo)]
  BY DEF BeginConnect
<1>3. /\ s \in Socks /\ s \in Unused /\ sock[s].owner = NoCo
      /\ \A d \in Coros : Busy(d) => op[d].fd # s
  BY <1>2, FreeUnheld
<1>4. o.fd = Own
  BY <1>1, MenuAssumption
<1>5. Begins(c, o, s)
  BY <1>1, <1>2, <1>3, <1>4 DEF Begins, Names
<1>6. /\ sock' \in [Socks -> SocketState] /\ sock'[s] = Socket("new", NoCo)
      /\ \A z \in Socks \ {s} : sock'[z] = sock[z]
  BY <1>2, <1>3, NewSocket DEF IInv, TypeOK
<1>7. TypeOK' /\ Core'
  BY <1>5, <1>6, BeginsKeepsCore
<1>8. control.co = c /\ ~Busy(c) /\ at[c] = "running"
  BY <1>1 DEF Runs, IInv, Core, ThreadOK
<1>9. control'.at = "suspend" /\ control'.co = c
  BY <1>1, GotoFacts DEF Points, IInv, TypeOK
<1>10. /\ Busy(c)' /\ op'[c].kind = "connect" /\ op'[c].fd = s
       /\ \A d \in Coros \ {c} : op'[d] = op[d]
  BY <1>1, <1>2 DEF Begun, Busy, Idle, IInv, TypeOK
<1>11. \A z \in Socks : sock'[z].inbox <= sock'[z].sent /\ sock'[z].taken <= 1 + sock'[z].drained
  BY <1>6, NewSocket DEF IInv, SocksOK
<1>12. SocketChanges(c, s)
  BY <1>1, <1>3, <1>6, <1>8, <1>9, <1>10, <1>11, NewSocket DEF SocketChanges, Runs
<1> QED
  BY <1>3, <1>7, <1>12, SocketChangesKeep DEF IInv

\* socket() fails
LEMMA SocketFailsKeeps ==
    ASSUME IInv, NEW c \in Coros, NEW o \in Menu[c], SocketFails(c, o)
    PROVE  IInv'
BY EndKeeps DEF SocketFails

\* the address is bad
LEMMA AddressFailsKeeps ==
    ASSUME IInv, NEW c \in Coros, NEW o \in Menu[c], AddressFails(c, o)
    PROVE  IInv'
<1>1. /\ Runs(c, "user") /\ Owned(c) = {} /\ at' = [at EXCEPT ![c] = "threw"] /\ Yield
      /\ UNCHANGED <<now, tm, fd_to_op, batch, op, left, result, token>>
  BY DEF AddressFails
<1>2. PICK s \in Free : sock' = [sock EXCEPT ![s] = Socket("lost", NoCo)]
  BY DEF AddressFails
<1>3. /\ s \in Socks /\ s \in Unused /\ \A d \in Coros : Busy(d) => op[d].fd # s
      /\ Unused \subseteq Socks
  BY <1>2, FreeUnheld, MenuAssumption
<1>4. /\ sock' \in [Socks -> SocketState] /\ sock'[s] = Socket("lost", NoCo)
      /\ \A z \in Socks \ {s} : sock'[z] = sock[z]
  BY <1>2, <1>3, NewSocket DEF IInv, TypeOK
<1>5. TypeOK' /\ Core'
  BY <1>1, <1>4, EndKeepsCore
<1>6. control.co = c /\ control.at = "user" /\ control'.co = NoCo
  BY <1>1, YieldFacts DEF Runs, IInv, TypeOK
<1>7. \A d \in Coros : /\ d # c => at'[d] = at[d]
                       /\ Busy(d)' <=> Busy(d)
                       /\ ~Runs(d, "suspend") /\ ~Runs(d, "suspend")'
  BY <1>1, <1>6, NamesAssumption DEF Runs, Busy, IInv, TypeOK
<1>8. \A z \in Socks : sock[z].owner # c /\ sock[z].owner \in Coros \cup {NoCo}
  BY <1>1 DEF Owned, IInv, TypeOK, SocketState
<1>9. SocksOK'
  BY <1>1, <1>3, <1>4, <1>7, <1>8, NewSocket DEF IInv, SocksOK
<1> QED
  BY <1>5, <1>9 DEF IInv

\* The connect of c is over: its slot is empty, and c has a Connection or the
\* number is closed again.
LEMMA ConnectOver ==
    ASSUME IInv, NEW c \in Coros, Busy(c), op[c].kind = "connect", control.co = c,
           control.at \in {"suspend", "resume"},
           NEW ec \in {"ok", "error"}, Return(c, ec, 0),
           fd_to_op' \in Table, Slots(fd_to_op', op[c].fd),
           fd_to_op'[op[c].fd].write = NoCo,
           fd_to_op'[op[c].fd].read = fd_to_op[op[c].fd].read,
           \A g \in Fds \ {op[c].fd} : fd_to_op'[g] = fd_to_op[g],
           sock' \in [Socks -> SocketState],
           \A z \in Socks \ {op[c].fd} : sock'[z] = sock[z],
           sock'[op[c].fd].inbox <= sock'[op[c].fd].sent,
           sock'[op[c].fd].taken <= 1 + sock'[op[c].fd].drained,
           \/ sock'[op[c].fd].link = "closed" /\ sock'[op[c].fd].owner = NoCo
           \/ sock'[op[c].fd].link \notin {"closed", "lost", "new"} /\ sock'[op[c].fd].owner = c,
           UNCHANGED <<now, tm, batch, at, left, token>>
    PROVE  IInv'
<1> DEFINE s == op[c].fd
<1>1. /\ s \in Socks /\ s \in Unused /\ sock[s].owner = NoCo
      /\ \A d \in Coros \ {c} : Busy(d) => op[d].fd # s
  BY ConnectAlone
<1>2. /\ op[c] \in Operation /\ op[c].token = NoToken /\ s # TimerFd /\ TimerFd \in Fds \ {s}
      /\ op[c].kind \notin Ins /\ op[c].kind \in Outs /\ op[c].kind \notin Timed
  BY <1>1, OperationFacts, KindFacts, NamesAssumption DEF IInv, Core, Fds
<1>3. Ends(c, ec, 0)
  BY DEF Ends, Errors
<1>4. Withdraws(c)
  BY <1>2, <1>3 DEF Withdraws, IInv, TypeOK
<1>5. TypeOK' /\ Core'
  BY <1>4, WithdrawsKeepsCore
<1>6. /\ op' = [op EXCEPT ![c] = Idle] /\ control'.co = c
      /\ at[c] = "running"
  BY <1>2, <1>4, WithdrawControl DEF Return, IInv, Core, ThreadOK
<1>7. ~Busy(c)' /\ \A d \in Coros \ {c} : op'[d] = op[d]
  BY <1>6 DEF Busy, IInv, TypeOK
<1>8. \A z \in Socks : sock'[z].inbox <= sock'[z].sent /\ sock'[z].taken <= 1 + sock'[z].drained
  BY DEF IInv, SocksOK
<1>9. SocketChanges(c, s)
  BY <1>1, <1>6, <1>7, <1>8 DEF SocketChanges
<1> QED
  BY <1>1, <1>5, <1>9, SocketChangesKeep DEF IInv

\* The kernel's record of a number whose Connection is handed over, or that begins
\* to connect
LEMMA ConnectionStates ==
    ASSUME NEW v \in SocketState, NEW c \in Coros, NEW w,
           \/ w = [v EXCEPT !.owner = c]
           \/ w = [v EXCEPT !.link = "connecting"]
    PROVE  /\ w \in SocketState /\ w.inbox = v.inbox /\ w.sent = v.sent
           /\ w.taken = v.taken /\ w.drained = v.drained
<1>1. v = [sent |-> v.sent, inbox |-> v.inbox, drained |-> v.drained, taken |-> v.taken,
           told |-> v.told, link |-> v.link, owner |-> v.owner]
  BY DEF SocketState
<1>2. CASE w = [v EXCEPT !.owner = c]
  <2>1. w = [sent |-> v.sent, inbox |-> v.inbox, drained |-> v.drained, taken |-> v.taken,
             told |-> v.told, link |-> v.link, owner |-> c]
    BY <1>1, <1>2
  <2> QED
    BY <2>1 DEF SocketState
<1>3. CASE w = [v EXCEPT !.link = "connecting"]
  <2>1. w = [sent |-> v.sent, inbox |-> v.inbox, drained |-> v.drained, taken |-> v.taken,
             told |-> v.told, link |-> "connecting", owner |-> v.owner]
    BY <1>1, <1>3
  <2> QED
    BY <2>1 DEF SocketState
<1> QED
  BY <1>2, <1>3


\* connect_await::await_resume, and try_connect's answers that need no waiting
LEMMA ConnectEndsKeep ==
    ASSUME IInv, NEW c \in Coros, Busy(c), op[c].kind = "connect", control.co = c,
           control.at \in {"suspend", "resume"},
           NEW ec \in {"ok", "error"},
           \/ EndConnect(c, ec) /\ (ec = "ok" => control.at = "resume")
           \/ Return(c, ec, 0) /\ sock' = [sock EXCEPT ![op[c].fd] = Socket("open", c)],
           fd_to_op' \in Table, Slots(fd_to_op', op[c].fd),
           fd_to_op'[op[c].fd].write = NoCo,
           fd_to_op'[op[c].fd].read = fd_to_op[op[c].fd].read,
           \A g \in Fds \ {op[c].fd} : fd_to_op'[g] = fd_to_op[g],
           UNCHANGED <<now, tm, batch, at, left, token>>
    PROVE  IInv'
<1> DEFINE s == op[c].fd
<1>1. /\ s \in Socks /\ s \in Unused /\ sock[s].link \notin {"closed", "lost"}
      /\ sock \in [Socks -> SocketState] /\ sock[s] \in SocketState
      /\ sock[s].inbox <= sock[s].sent /\ sock[s].taken <= 1 + sock[s].drained
  BY ConnectAlone DEF IInv, TypeOK, SocksOK
<1>2. sock[s].link = "new" <=> Runs(c, "suspend")
  BY <1>1 DEF IInv, SocksOK
<1>3. Return(c, ec, 0)
  BY DEF EndConnect
<1>4. PICK w \in SocketState :
         /\ sock' = [sock EXCEPT ![s] = w]
         /\ w.inbox <= w.sent /\ w.taken <= 1 + w.drained
         /\ \/ w.link = "closed" /\ w.owner = NoCo
            \/ w.link \notin {"closed", "lost", "new"} /\ w.owner = c
  <2>1. CASE sock' = [sock EXCEPT ![s].owner = c] /\ sock[s].link # "new"
    <3> DEFINE w == [sock[s] EXCEPT !.owner = c]
    <3>1. w.owner = c /\ w.link = sock[s].link
      BY <1>1 DEF SocketState
    <3>2. /\ w \in SocketState /\ w.inbox = sock[s].inbox /\ w.sent = sock[s].sent
          /\ w.taken = sock[s].taken /\ w.drained = sock[s].drained
      BY <1>1, ConnectionStates
    <3>3. sock' = [sock EXCEPT ![s] = w]
      BY <2>1
    <3> HIDE DEF w
    <3> QED
      BY <1>1, <2>1, <3>1, <3>2, <3>3
  <2>2. CASE sock' = [sock EXCEPT ![s] = Socket("closed", NoCo)]
    <3> DEFINE w == Socket("closed", NoCo)
    <3>1. /\ w \in SocketState /\ w.link = "closed" /\ w.owner = NoCo
          /\ w.inbox <= w.sent /\ w.taken <= 1 + w.drained
      BY NewSocket
    <3> HIDE DEF w
    <3>2. sock' = [sock EXCEPT ![s] = w]
      BY <2>2 DEF w
    <3> QED
      BY <3>1, <3>2
  <2>3. CASE sock' = [sock EXCEPT ![s] = Socket("open", c)]
    <3> DEFINE w == Socket("open", c)
    <3>1. /\ w \in SocketState /\ w.link = "open" /\ w.owner = c
          /\ w.inbox <= w.sent /\ w.taken <= 1 + w.drained
      BY NewSocket
    <3> HIDE DEF w
    <3>2. sock' = [sock EXCEPT ![s] = w]
      BY <2>3 DEF w
    <3> QED
      BY <3>1, <3>2
  <2> QED
    BY <1>2, <2>1, <2>2, <2>3 DEF EndConnect, Runs
<1>5. /\ sock' \in [Socks -> SocketState] /\ sock'[s] = w
      /\ \A z \in Socks \ {s} : sock'[z] = sock[z]
  BY <1>1, <1>4
<1> QED
  BY <1>3, <1>4, <1>5, ConnectOver

\* connect() in await_suspend, whatever it returns
LEMMA ConnectSuspendKeeps ==
    ASSUME IInv, NEW c \in Coros, ConnectSuspend(c)
    PROVE  IInv'
<1> DEFINE s == op[c].fd
<1>1. /\ Runs(c, "suspend") /\ op[c].kind = "connect"
      /\ UNCHANGED <<now, tm, batch, left, token>>
  BY DEF ConnectSuspend
<1>2. Busy(c) /\ control.co = c /\ control.at = "suspend" /\ at[c] = "running"
  BY <1>1, Unplaced DEF Runs
<1>3. /\ s \in Socks /\ s \in Unused /\ sock[s].owner = NoCo
      /\ \A d \in Coros \ {c} : Busy(d) => op[d].fd # s
  BY <1>1, <1>2, ConnectAlone
<1>4. /\ s \in Fds /\ s # TimerFd /\ fd_to_op \in Table /\ Slots(fd_to_op, s)
      /\ op[c].token = NoToken
      /\ op[c].kind \notin Ins /\ op[c].kind \in Outs /\ op[c].kind \notin Timed
  BY <1>1, <1>2, <1>3, OperationFacts, KindFacts, NamesAssumption
     DEF IInv, Core, TypeOK, TableOK, Table, Fds
<1>5. fd_to_op[s].write = NoCo
  <2>1. fd_to_op[s].write # NoCo =>
           /\ fd_to_op[s].write \in Coros /\ Placed(fd_to_op[s].write)
           /\ op[fd_to_op[s].write].fd = s
    BY <1>4, EntriesPlaced
  <2>2. ~Placed(c)
    BY <1>1 DEF Placed
  <2> QED
    BY <1>3, <2>1, <2>2 DEF Placed
<1>6. CASE /\ UNCHANGED <<fd_to_op, at>>
           /\ \/ EndConnect(c, "error")
              \/ Return(c, "ok", 0) /\ sock' = [sock EXCEPT ![s] = Socket("open", c)]
  <2>1. /\ fd_to_op' \in Table /\ Slots(fd_to_op', s) /\ fd_to_op'[s].write = NoCo
        /\ fd_to_op'[s].read = fd_to_op[s].read
        /\ \A g \in Fds \ {s} : fd_to_op'[g] = fd_to_op[g]
    BY <1>4, <1>5, <1>6
  <2> QED
    BY <1>1, <1>2, <1>6, <2>1, ConnectEndsKeep
<1>7. CASE /\ sock' = [sock EXCEPT ![s].link = "connecting"]
           /\ fd_to_op' = I!Submit(fd_to_op, s, c, I!EVENT_WRITE)
           /\ Suspend(c)
           /\ UNCHANGED <<op, result>>
  <2>1. /\ fd_to_op' \in Table /\ Slots(fd_to_op', s)
        /\ fd_to_op'[s].write = c /\ fd_to_op'[s].read = fd_to_op[s].read
        /\ \A g \in Fds \ {s} : fd_to_op'[g] = fd_to_op[g]
    BY <1>4, <1>7, SubmitsWrite
  <2>2. fd_to_op'[TimerFd] = fd_to_op[TimerFd]
    BY <1>4, <2>1 DEF Fds
  <2>3. Registers(c)
    BY <1>1, <1>2, <1>4, <1>7, <2>1, <2>2 DEF Registers
  <2> DEFINE w == [sock[s] EXCEPT !.link = "connecting"]
  <2>4. /\ sock \in [Socks -> SocketState] /\ sock[s] \in SocketState
        /\ sock[s].inbox <= sock[s].sent /\ sock[s].taken <= 1 + sock[s].drained
    BY <1>3 DEF IInv, TypeOK, SocksOK
  <2>5. w.link = "connecting" /\ w.owner = sock[s].owner
    BY <2>4 DEF SocketState
  <2>6. /\ w \in SocketState /\ w.inbox = sock[s].inbox /\ w.sent = sock[s].sent
        /\ w.taken = sock[s].taken /\ w.drained = sock[s].drained
    BY <1>2, <2>4, ConnectionStates
  <2>7. sock' = [sock EXCEPT ![s] = w]
    BY <1>7
  <2> HIDE DEF w
  <2>8. /\ sock' \in [Socks -> SocketState] /\ sock'[s] = w
        /\ \A z \in Socks \ {s} : sock'[z] = sock[z]
    BY <1>3, <2>4, <2>6, <2>7
  <2>9. TypeOK' /\ Core'
    BY <2>3, <2>8, RegistersKeepsCore
  <2>10. /\ at'[c] = "suspended" /\ control'.co = NoCo
         /\ \A d \in Coros \ {c} : at'[d] = at[d]
    BY <1>2, <1>4, <1>7, SuspendControl DEF IInv
  <2>11. Busy(c)' /\ op'[c].kind = "connect" /\ op'[c].fd = s /\ ~Runs(c, "suspend")'
    BY <1>1, <1>2, <1>7, <2>10, NamesAssumption DEF Busy, Runs
  <2>12. \A z \in Socks : sock'[z].inbox <= sock'[z].sent /\ sock'[z].taken <= 1 + sock'[z].drained
    BY <2>4, <2>6, <2>8 DEF IInv, SocksOK
  <2>13. SocketChanges(c, s)
    BY <1>2, <1>3, <1>7, <2>5, <2>8, <2>10, <2>11, <2>12 DEF SocketChanges
  <2> QED
    BY <1>3, <2>9, <2>13, SocketChangesKeep DEF IInv
<1> QED
  BY <1>6, <1>7 DEF ConnectSuspend

\* SO_ERROR in await_resume, whatever it says
LEMMA ConnectResumeKeeps ==
    ASSUME IInv, NEW c \in Coros, ConnectResume(c)
    PROVE  IInv'
<1> DEFINE s == op[c].fd
<1>1. /\ Runs(c, "resume") /\ op[c].kind = "connect"
      /\ fd_to_op' = RemoveWrite(fd_to_op, c)
      /\ EndConnect(c, ConnectError(s)) /\ ConnectError(s) \in {"ok", "error"}
      /\ UNCHANGED <<now, tm, batch, at, left, token>>
  BY DEF ConnectResume, ConnectError
<1>2. Busy(c) /\ control.co = c /\ control.at = "resume"
  BY <1>1 DEF Runs, IInv, Core, ThreadOK
<1>3. op[c].token = NoToken /\ op[c].kind \notin Ins /\ op[c].kind \in Outs /\ s \in Fds
  BY <1>1, <1>2, OperationFacts, KindFacts DEF IInv, Core, Fds
<1>4. fd_to_op' = RemoveCancel(RemoveWrite(fd_to_op, c), c)
  BY <1>1, <1>3 DEF RemoveCancel
<1>5. Cleared(fd_to_op', c)
  BY <1>2, <1>3, <1>4, RemovalClears
<1>6. NoToken \notin Fds
  BY NamesAssumption DEF Fds
<1>7. /\ fd_to_op' \in Table /\ Slots(fd_to_op', s) /\ fd_to_op'[s].write = NoCo
      /\ fd_to_op'[s].read = fd_to_op[s].read
      /\ \A g \in Fds \ {s} : fd_to_op'[g] = fd_to_op[g]
  BY <1>3, <1>5, <1>6 DEF Cleared
<1> QED
  BY <1>1, <1>2, <1>7, ConnectEndsKeep


-------------------------------------------------------------------------------
(* async_accept, and closing *)

\* await_suspend of an accept
LEMMA AcceptSuspendKeeps ==
    ASSUME IInv, NEW c \in Coros, AcceptSuspend(c)
    PROVE  IInv'
<1> DEFINE s == op[c].fd
<1>1. /\ Runs(c, "suspend") /\ op[c].kind = "accept"
      /\ fd_to_op' = I!Submit(fd_to_op, s, c, I!EVENT_READ)
      /\ Suspend(c)
      /\ UNCHANGED <<now, tm, batch, op, left, result, sock, token>>
  BY DEF AcceptSuspend
<1>2. Busy(c)
  BY <1>1, Unplaced
<1>3. /\ s \in Fds /\ s # TimerFd /\ fd_to_op \in Table /\ Slots(fd_to_op, s)
      /\ op[c].kind \in Ins /\ op[c].kind \notin Outs /\ op[c].kind \notin Timed
  BY <1>1, <1>2, OperationFacts, KindFacts, NamesAssumption
     DEF IInv, Core, TypeOK, TableOK, Table, Fds
<1>4. /\ fd_to_op' \in Table /\ Slots(fd_to_op', s)
      /\ fd_to_op'[s].read = c /\ fd_to_op'[s].write = fd_to_op[s].write
      /\ \A g \in Fds \ {s} : fd_to_op'[g] = fd_to_op[g]
  BY <1>1, <1>3, SubmitsRead
<1>5. fd_to_op'[TimerFd] = fd_to_op[TimerFd]
  BY <1>3, <1>4 DEF Fds
<1>6. Registers(c)
  BY <1>1, <1>2, <1>3, <1>4, <1>5 DEF Registers
<1> QED
  BY <1>1, <1>6, RegistersKeep

\* accept4 takes a connection from the backlog of l and gives it the number s.
LEMMA AcceptedSocket ==
    ASSUME IInv, NEW l \in Socks, sock[l].inbox > 0, NEW s \in Socks, s # l, NEW c \in Coros,
           sock' = [sock EXCEPT ![l].inbox = @ - 1, ![l].told.in = @ + 1, ![s] = Socket("open", c)]
    PROVE  /\ sock' \in [Socks -> SocketState] /\ sock'[s] = Socket("open", c)
           /\ \A z \in Socks \ {s} : sock'[z].link = sock[z].link /\ sock'[z].owner = sock[z].owner
           /\ \A z \in Socks : /\ sock'[z].inbox <= sock'[z].sent
                               /\ sock'[z].taken <= 1 + sock'[z].drained
<1>1. /\ sock \in [Socks -> SocketState] /\ sock[l] \in SocketState
      /\ sock[l].inbox \in Nat /\ sock[l].sent \in Nat /\ sock[l].inbox <= sock[l].sent
      /\ sock[l].taken <= 1 + sock[l].drained
  BY DEF IInv, TypeOK, SocksOK, SocketState
<1>2. sock'[l] = [sent |-> sock[l].sent, inbox |-> sock[l].inbox - 1,
                  drained |-> sock[l].drained, taken |-> sock[l].taken,
                  told |-> [in |-> sock[l].told.in + 1, out |-> sock[l].told.out],
                  link |-> sock[l].link, owner |-> sock[l].owner]
  BY <1>1 DEF SocketState
<1>3. /\ sock'[l] \in SocketState
      /\ sock'[l].link = sock[l].link /\ sock'[l].owner = sock[l].owner
      /\ sock'[l].inbox <= sock'[l].sent /\ sock'[l].taken <= 1 + sock'[l].drained
  BY <1>1, <1>2 DEF SocketState
<1>4. sock'[s] = Socket("open", c) /\ \A z \in Socks \ {s, l} : sock'[z] = sock[z]
  BY <1>1
<1>5. sock' \in [Socks -> SocketState]
  <2>1. \A z \in Socks : sock'[z] \in SocketState
    BY <1>1, <1>3, <1>4, NewSocket
  <2>2. sock' = [z \in Socks |-> sock'[z]]
    BY <1>1
  <2> QED
    BY <2>1, <2>2
<1>6. ASSUME NEW z \in Socks
      PROVE  sock'[z].inbox <= sock'[z].sent /\ sock'[z].taken <= 1 + sock'[z].drained
  <2>1. CASE z = s
    BY <1>4, <2>1, NewSocket
  <2>2. CASE z = l
    BY <1>3, <2>2
  <2>3. CASE z \notin {s, l}
    BY <1>4, <2>3 DEF IInv, SocksOK
  <2> QED
    BY <2>1, <2>2, <2>3
<1> QED
  BY <1>3, <1>4, <1>5, <1>6

\* accept4 in await_resume, whatever it returns
LEMMA AcceptResumeKeeps ==
    ASSUME IInv, NEW c \in Coros, AcceptResume(c)
    PROVE  IInv'
<1> DEFINE l == op[c].fd
<1>1. /\ Runs(c, "resume") /\ op[c].kind = "accept"
      /\ fd_to_op' = RemoveRead(fd_to_op, c) /\ Accept(c, l)
      /\ UNCHANGED <<now, tm, batch, at, left, token>>
  BY DEF AcceptResume
<1>2. Busy(c) /\ control.co = c /\ control.at = "resume" /\ at[c] = "running"
  BY <1>1 DEF Runs, IInv, Core, ThreadOK
<1>3. /\ op[c] \in Operation /\ op[c].token = NoToken /\ l \in Listeners /\ l \in Socks
      /\ l # TimerFd /\ l \notin Unused /\ TimerFd \in Fds \ {l, op[c].token}
      /\ op[c].kind \in Ins /\ op[c].kind \notin Outs /\ op[c].kind \notin Timed
  BY <1>1, <1>2, OperationFacts, KindFacts, NamesAssumption, MenuAssumption DEF IInv, Core, Fds
<1>4. fd_to_op' = RemoveCancel(RemoveRead(fd_to_op, c), c)
  BY <1>1, <1>3 DEF RemoveCancel
<1>5. Cleared(fd_to_op', c)
  BY <1>2, <1>3, <1>4, RemovalClears
<1>6. ASSUME NEW ec \in {"ok", "error"}, Return(c, ec, 0)
      PROVE  Withdraws(c)
  <2>1. Ends(c, ec, 0)
    BY <1>1, <1>6 DEF Ends, Errors
  <2> QED
    BY <1>1, <1>2, <1>3, <1>5, <2>1 DEF Withdraws, Cleared, IInv, TypeOK
<1>7. CASE Return(c, "error", 0) /\ UNCHANGED sock
  <2>1. Withdraws(c)
    BY <1>6, <1>7
  <2>2. sock' \in [Socks -> SocketState] /\ ConnectionsStay
    BY <1>7 DEF IInv, TypeOK, SocksOK, ConnectionsStay
  <2>3. TypeOK' /\ Core'
    BY <2>1, <2>2, WithdrawsKeepsCore
  <2>4. HoldersStay
    BY <1>1, <2>1, WithdrawHolders
  <2> QED
    BY <2>2, <2>3, <2>4, SocksKept DEF IInv
<1>8. CASE /\ Return(c, "ok", 0) /\ sock[l].inbox > 0
           /\ \E s \in Free : sock' = [sock EXCEPT ![l].inbox = @ - 1, ![l].told.in = @ + 1,
                                                   ![s] = Socket("open", c)]
  <2>1. PICK s \in Free : sock' = [sock EXCEPT ![l].inbox = @ - 1, ![l].told.in = @ + 1,
                                               ![s] = Socket("open", c)]
    BY <1>8
  <2>2. /\ s \in Socks /\ s \in Unused /\ sock[s].owner = NoCo /\ s # l
        /\ \A d \in Coros : Busy(d) => op[d].fd # s
    BY <1>3, <2>1, FreeUnheld
  <2>3. Withdraws(c)
    BY <1>6, <1>8
  <2>4. /\ sock' \in [Socks -> SocketState] /\ sock'[s] = Socket("open", c)
        /\ \A z \in Socks \ {s} : sock'[z].link = sock[z].link /\ sock'[z].owner = sock[z].owner
        /\ \A z \in Socks : /\ sock'[z].inbox <= sock'[z].sent
                            /\ sock'[z].taken <= 1 + sock'[z].drained
    BY <1>3, <1>8, <2>1, <2>2, AcceptedSocket
  <2>5. TypeOK' /\ Core'
    BY <2>3, <2>4, WithdrawsKeepsCore
  <2>6. op' = [op EXCEPT ![c] = Idle] /\ control'.co = c
    BY <1>3, <1>8, <2>3, WithdrawControl DEF Return, IInv
  <2>7. ~Busy(c)' /\ \A d \in Coros \ {c} : op'[d] = op[d]
    BY <2>6 DEF Busy, IInv, TypeOK
  <2>8. SocketChanges(c, s)
    BY <1>1, <1>2, <1>3, <2>2, <2>4, <2>6, <2>7, NewSocket DEF SocketChanges
  <2> QED
    BY <2>2, <2>5, <2>8, SocketChangesKeep DEF IInv
<1> QED
  BY <1>1, <1>7, <1>8 DEF Accept

\* A coroutine closes its connection between two operations.
LEMMA CloseKeeps ==
    ASSUME IInv, NEW c \in Coros, Close(c)
    PROVE  IInv'
<1>1. /\ Runs(c, "user")
      /\ sock' = [s \in Socks |-> IF s \in Owned(c) THEN Socket("closed", NoCo) ELSE sock[s]]
      /\ UNCHANGED <<now, tm, fd_to_op, batch, control, at, op, left, result, token>>
  BY DEF Close
<1>2. ~Busy(c)
  BY <1>1 DEF Runs, IInv, Core, ThreadOK
<1>3. \A d \in Coros : at'[d] = at[d] /\ (Runs(d, "suspend")' <=> Runs(d, "suspend"))
  BY <1>1 DEF Runs
<1>4. sock' \in [Socks -> SocketState] /\ SocksOK'
  BY <1>1, <1>2, <1>3, ClosesOwned
<1>5. TypeOK' /\ Core'
  BY <1>1, <1>4, QuietKeepsCore DEF IInv, TypeOK
<1> QED
  BY <1>4, <1>5 DEF IInv

\* clients, and the peers that connects reach
LEMMA ClientsKeep ==
    ASSUME IInv, NEW s \in Socks, PeerConnects(s) \/ PeerAnswers(s)
    PROVE  IInv'
<1>1. UNCHANGED <<now, tm, fd_to_op, batch, control, at, op, left, result, token>>
  BY DEF PeerConnects, PeerAnswers
<1>2. /\ sock \in [Socks -> SocketState] /\ sock[s] \in SocketState
      /\ sock[s].inbox \in Nat /\ sock[s].sent \in Nat
      /\ sock[s].inbox <= sock[s].sent /\ sock[s].taken <= 1 + sock[s].drained
  BY DEF IInv, TypeOK, SocksOK, SocketState
<1>3. /\ sock' \in [Socks -> SocketState] /\ \A z \in Socks \ {s} : sock'[z] = sock[z]
      /\ sock'[s].inbox <= sock'[s].sent /\ sock'[s].taken <= 1 + sock'[s].drained
      /\ sock'[s].owner = sock[s].owner
      /\ \/ sock'[s].link = sock[s].link
         \/ sock[s].link = "connecting" /\ sock'[s].link \in {"open", "refused"}
  <2>1. CASE PeerConnects(s)
    <3>1. sock' = [sock EXCEPT ![s].sent = @ + 1, ![s].inbox = @ + 1]
      BY <2>1 DEF PeerConnects
    <3>2. sock'[s] = [sent |-> sock[s].sent + 1, inbox |-> sock[s].inbox + 1,
                      drained |-> sock[s].drained, taken |-> sock[s].taken,
                      told |-> sock[s].told, link |-> sock[s].link, owner |-> sock[s].owner]
      BY <1>2, <3>1 DEF SocketState
    <3>3. /\ sock'[s] \in SocketState /\ sock'[s].inbox <= sock'[s].sent
          /\ sock'[s].taken <= 1 + sock'[s].drained
          /\ sock'[s].owner = sock[s].owner /\ sock'[s].link = sock[s].link
      BY <1>2, <3>2 DEF SocketState
    <3> QED
      BY <1>2, <3>1, <3>3
  <2>2. CASE PeerAnswers(s)
    <3>1. PICK k \in {"open", "refused"} : sock' = [sock EXCEPT ![s].link = k]
      BY <2>2 DEF PeerAnswers
    <3>2. sock[s].link = "connecting"
      BY <2>2 DEF PeerAnswers
    <3>3. sock'[s] = [sent |-> sock[s].sent, inbox |-> sock[s].inbox,
                      drained |-> sock[s].drained, taken |-> sock[s].taken,
                      told |-> sock[s].told, link |-> k, owner |-> sock[s].owner]
      BY <1>2, <3>1 DEF SocketState
    <3>4. /\ sock'[s] \in SocketState /\ sock'[s].inbox <= sock'[s].sent
          /\ sock'[s].taken <= 1 + sock'[s].drained
          /\ sock'[s].owner = sock[s].owner /\ sock'[s].link = k
      BY <1>2, <3>3 DEF SocketState
    <3> QED
      BY <1>2, <3>1, <3>2, <3>4
  <2> QED
    BY <2>1, <2>2
<1>4. ConnectionsStay
  BY <1>2, <1>3 DEF ConnectionsStay, IInv, SocksOK
<1> QED
  BY <1>1, <1>3, <1>4, OutsideKeeps


-------------------------------------------------------------------------------
(* IInv is an invariant of Connections, and what follows from it *)

\* A step of AsyncIO, of accept, connect or close, of a client or a peer, or none
LEMMA ConnNextKeeps == IInv /\ [ConnNext]_vars => IInv'
<1> SUFFICES ASSUME IInv, [ConnNext]_vars PROVE IInv'
  OBVIOUS
<1>1. CASE [Next]_vars
  BY <1>1, NextKeeps
<1>2. ASSUME NEW c \in Coros, Connecting(c)
      PROVE  IInv'
  <2>1. CASE \E o \in Menu[c] : BeginConnect(c, o) \/ SocketFails(c, o) \/ AddressFails(c, o)
    BY <2>1, BeginConnectKeeps, SocketFailsKeeps, AddressFailsKeeps
  <2>2. CASE ConnectSuspend(c) \/ ConnectResume(c)
    BY <2>2, ConnectSuspendKeeps, ConnectResumeKeeps
  <2>3. CASE AcceptSuspend(c) \/ AcceptResume(c)
    BY <2>3, AcceptSuspendKeeps, AcceptResumeKeeps
  <2>4. CASE Close(c)
    BY <2>4, CloseKeeps
  <2> QED
    BY <1>2, <2>1, <2>2, <2>3, <2>4 DEF Connecting
<1>3. CASE \E s \in Socks : PeerConnects(s) \/ PeerAnswers(s)
  BY <1>3, ClientsKeep
<1> QED
  BY <1>1, <1>2, <1>3 DEF ConnNext

\* IInv holds in every state of the framework with its connections.
THEOREM ConnInductive == ConnSpec => []IInv
<1>1. Init => IInv
  BY InitIInv
<1>2. IInv /\ [ConnNext]_vars => IInv'
  BY ConnNextKeeps
<1> QED
  BY <1>1, <1>2, PTL DEF ConnSpec

\* An entry's operation awaits the descriptor, and who awaits one keeps it open.
LEMMA ImpliesNoStaleEntry == IInv => NoStaleEntry
<1> SUFFICES ASSUME IInv, NEW s \in Socks, sock[s].link \in {"closed", "lost", "new"}
             PROVE  ~I!Registered(fd_to_op, s)
  BY DEF NoStaleEntry
<1>1. s \in Fds /\ fd_to_op[s].events \subseteq {"IN", "OUT", "ET"}
  BY DEF IInv, TypeOK, I!FdState, Fds
<1>2. s \in Unused /\ sock[s].owner = NoCo
  BY DEF IInv, SocksOK
<1>3. ASSUME NEW c \in Coros, Placed(c), op[c].fd = s
      PROVE  FALSE
  <2>1. IF op[c].kind = "connect"
        THEN sock[s].link \notin {"closed", "lost"} /\ (sock[s].link = "new" <=> Runs(c, "suspend"))
        ELSE sock[s].owner = c
    BY <1>2, <1>3 DEF Placed, IInv, SocksOK
  <2> QED
    BY <1>2, <1>3, <2>1, NamesAssumption DEF Placed
<1>4. /\ fd_to_op[s].read \in Coros \cup {NoCo} /\ fd_to_op[s].write \in Coros \cup {NoCo}
      /\ \A c \in Coros : fd_to_op[s].read = c \/ fd_to_op[s].write = c
                             => Placed(c) /\ op[c].fd = s
  BY <1>1 DEF IInv, TypeOK, I!FdState, Core, TableOK
<1>5. fd_to_op[s].read = NoCo /\ fd_to_op[s].write = NoCo
  BY <1>3, <1>4
<1> QED
  BY <1>1, <1>5, EntriesPlaced, NamesAssumption DEF Slots, I!Registered, Fds

\* Every open number has somebody to close it, but for those create_sock lost.
LEMMA ImpliesDescriptorsOwned == IInv => DescriptorsOwned
<1> SUFFICES ASSUME IInv, NEW s \in Unused, sock[s].link \notin {"closed", "lost"}
             PROVE  \/ sock[s].owner # NoCo /\ at[sock[s].owner] \notin {"done", "threw"}
                    \/ \E c \in Coros : op[c] # Idle /\ op[c].kind = "connect" /\ op[c].fd = s
  BY DEF DescriptorsOwned
<1>1. s \in Socks
  BY MenuAssumption
<1> QED
  BY <1>1 DEF IInv, SocksOK, Busy

\* A number that is closed, just made or lost has no entry in the table: every
\* epoll_ctl is about an open descriptor.
THEOREM NoEntryOutlives == ConnSpec => []NoStaleEntry
<1>1. IInv => NoStaleEntry
  BY ImpliesNoStaleEntry
<1> QED
  BY <1>1, ConnInductive, PTL

\* What accept4 and socket() returned is held by somebody who can close it, but for
\* what create_sock lost to a bad address (connecting.h:179).
THEOREM NoDescriptorLost == ConnSpec => []DescriptorsOwned
<1>1. IInv => DescriptorsOwned
  BY ImpliesDescriptorsOwned
<1> QED
  BY <1>1, ConnInductive, PTL

\* What is proved of AsyncIO holds while connections come and go: no pointer to an
\* awaiter that has gone, running() as long as somebody waits, no timeout before
\* its time, a timer left clean.
THEOREM ConnectionsKeepAwaiters ==
    ConnSpec => [](TypeOK /\ SlotsLive /\ RunsWhileNeeded /\ NeverEarly /\ LeavesTimerClean)
<1>1. IInv => TypeOK /\ SlotsLive /\ RunsWhileNeeded /\ NeverEarly /\ LeavesTimerClean
  BY ImpliesSlotsLive, ImpliesRunsWhileNeeded, ImpliesLeavesTimerClean DEF IInv, Core
<1> QED
  BY <1>1, ConnInductive, PTL

\* ... and with a token per operation nobody is cut off, whoever closes what.
THEOREM ConnectionsOrphanNobody ==
    ASSUME PrivateTokens
    PROVE  ConnSpec => []NoOrphan
<1>1. IInv => NoOrphan
  BY ImpliesNoOrphan
<1> QED
  BY <1>1, ConnInductive, PTL

-------------------------------------------------------------------------------
(* Accept, connect and close leave the timer alone *)

\* Accepting, connecting and closing are no steps of the timer.
LEMMA ConnectingUnseen ==
    ASSUME IInv, IInv', NEW c \in Coros, Connecting(c)
    PROVE  UNCHANGED TE!vars /\ batch' = batch
<1>1. /\ UNCHANGED <<now, tm, batch>> /\ \A d \in Coros \ {c} : op'[d] = op[d]
  BY DEF Connecting, BeginConnect, SocketFails, AddressFails, End, ConnectSuspend,
         EndConnect, Return,
         ConnectResume, AcceptSuspend, AcceptResume, Accept, Close, IInv, TypeOK
<1>2. ASSUME NEW ec, NEW n, Return(c, ec, n)
      PROVE  control'.at # "resume"
  BY <1>2, GotoFacts DEF Return, Points, IInv, TypeOK
<1>3. CASE \E o \in Menu[c] : BeginConnect(c, o) \/ SocketFails(c, o) \/ AddressFails(c, o)
  <2>1. control.co = c /\ control.at = "user" /\ (Goto("suspend", c) \/ Yield)
    BY <1>3 DEF BeginConnect, SocketFails, AddressFails, End, Runs
  <2>2. control'.at # "resume"
    BY <2>1, GotoFacts, YieldFacts DEF Points, IInv, TypeOK, Control
  <2> QED
    BY <1>1, <2>1, <2>2, OwnCodeUnseen
<1>4. CASE ConnectSuspend(c) \/ AcceptSuspend(c)
  <2>1. Runs(c, "suspend") /\ (Suspend(c) \/ \E ec, n : Return(c, ec, n))
    BY <1>4 DEF ConnectSuspend, EndConnect, AcceptSuspend
  <2>2. control'.at # "resume"
    <3>1. CASE Suspend(c)
      BY <2>1, <3>1, SuspendControl, Unplaced DEF IInv, Core, ThreadOK, TypeOK
    <3> QED
      BY <1>2, <2>1, <3>1
  <2> QED
    BY <1>1, <2>1, <2>2, PlainSuspendsUnseen
<1>5. CASE ConnectResume(c) \/ AcceptResume(c)
  <2>1. /\ control.co = c /\ op[c].kind \in {"connect", "accept"}
        /\ \E ec, n : Return(c, ec, n)
    BY <1>5 DEF ConnectResume, EndConnect, AcceptResume, Accept, Runs
  <2>2. tm.active_timer_ids[c] = 0
    BY <2>1, KindFacts DEF IInv, Core, TimersOK
  <2> QED
    BY <1>1, <1>2, <2>1, <2>2, NoTimerStep
<1>6. CASE Close(c)
  <2>1. UNCHANGED <<control, op>>
    BY <1>6 DEF Close
  <2> QED
    BY <1>1, <2>1, NoTimerStep
<1> QED
  BY <1>1, <1>3, <1>4, <1>5, <1>6 DEF Connecting

\* Each step is one of TimerEvent or leaves it alone, as without connections.
LEMMA ConnNextSeen ==
    ASSUME TInv, [ConnNext]_vars
    PROVE  TInv' /\ Seen
<1>1. IInv /\ IInv' /\ BatchOK
  BY ConnNextKeeps DEF TInv
<1>2. CASE [Next]_vars
  BY <1>2, NextSeen
<1>3. CASE \E c \in Coros : Connecting(c)
  BY <1>1, <1>3, ConnectingUnseen, BatchKept DEF TInv, Seen
<1>4. CASE \E s \in Socks : PeerConnects(s) \/ PeerAnswers(s)
  <2>1. UNCHANGED <<now, tm, batch, control, op>>
    BY <1>4 DEF PeerConnects, PeerAnswers
  <2> QED
    BY <1>1, <2>1, NoTimerStep, BatchKept DEF TInv, Seen
<1> QED
  BY <1>2, <1>3, <1>4 DEF ConnNext

\* Also while connections come and go the awaiters use the timer as TimerEvent has it,
\* and it keeps TimerService's promises.
THEOREM ConnectionsUseTimer == ConnSpec => TimerSpec /\ TE!ServiceSpec
<1>1. Init => TInv /\ TE!Init
  BY InitSeen
<1>2. TInv /\ [ConnNext]_vars => TInv' /\ [TE!Next]_TE!vars
  BY ConnNextSeen DEF Seen
<1>3. ConnSpec => TimerSpec
  BY <1>1, <1>2, PTL DEF ConnSpec, TimerSpec, TE!Spec
<1> QED
  BY <1>3, TimerSpecPromises, PTL

-------------------------------------------------------------------------------
(* Wakeups *)

\* Accepts and connects have no token, and no step of theirs touches one.
LEMMA ConnectingKeepsSignals ==
    ASSUME IInv, SignalsPending, NEW c \in Coros, Connecting(c)
    PROVE  SignalsPending'
<1>1. ASSUME NEW s \in Socks, NEW t \in Tokens
      PROVE  t \in Fds /\ t # s
  BY NamesAssumption DEF Fds
<1>2. ASSUME NEW ec, Return(c, ec, 0)
      PROVE  control'.at # "slot" /\ \A d \in Coros \ {c} : op'[d] = op[d]
  BY <1>2, GotoFacts DEF Return, Points, IInv, TypeOK
<1>3. ASSUME NEW o \in Menu[c], BeginConnect(c, o) \/ SocketFails(c, o) \/ AddressFails(c, o)
      PROVE  SignalsPending'
  <2>1. /\ Runs(c, "user") /\ UNCHANGED <<fd_to_op, token>>
        /\ Goto("suspend", c) \/ Yield
        /\ at' = at \/ at' = [at EXCEPT ![c] = "threw"]
        /\ \A d \in Coros \ {c} : op'[d] = op[d]
    BY <1>3 DEF BeginConnect, SocketFails, AddressFails, End, IInv, TypeOK
  <2>2. /\ control'.at # "slot" /\ at'[c] # "suspended"
        /\ \A d \in Coros \ {c} : at'[d] = at[d]
    BY <2>1, GotoFacts, YieldFacts DEF Runs, Points, IInv, TypeOK, Control, Core, ThreadOK
  <2> QED
    BY <2>1, <2>2, SignalsUntouched
<1>4. CASE ConnectSuspend(c) \/ AcceptSuspend(c)
  <2>1. /\ Runs(c, "suspend") /\ op[c].kind \in {"connect", "accept"} /\ UNCHANGED token
        /\ \/ Suspend(c) /\ UNCHANGED op
           \/ (\E ec : Return(c, ec, 0)) /\ UNCHANGED at
        /\ \/ UNCHANGED fd_to_op
           \/ \E ev \in {I!EVENT_READ, I!EVENT_WRITE} :
                 fd_to_op' = I!Submit(fd_to_op, op[c].fd, c, ev)
    BY <1>4 DEF ConnectSuspend, EndConnect, AcceptSuspend
  <2>2. Busy(c) /\ at[c] = "running"
    BY <2>1, Unplaced DEF Runs
  <2>3. /\ op[c].fd \in Socks /\ op[c].token = NoToken /\ fd_to_op \in Table
        /\ op[c].fd \in Fds /\ Slots(fd_to_op, op[c].fd)
    BY <2>1, <2>2, OperationFacts, MenuAssumption DEF IInv, Core, TypeOK, TableOK, Table, Fds
  <2>4. \A t \in Tokens : fd_to_op'[t] = fd_to_op[t]
    <3>1. ASSUME fd_to_op' = I!Submit(fd_to_op, op[c].fd, c, I!EVENT_READ)
          PROVE  \A g \in Fds \ {op[c].fd} : fd_to_op'[g] = fd_to_op[g]
      BY <2>3, <3>1, SubmitsRead
    <3>2. ASSUME fd_to_op' = I!Submit(fd_to_op, op[c].fd, c, I!EVENT_WRITE)
          PROVE  \A g \in Fds \ {op[c].fd} : fd_to_op'[g] = fd_to_op[g]
      BY <2>3, <3>2, SubmitsWrite
    <3> QED
      BY <1>1, <2>1, <2>3, <3>1, <3>2
  <2>5. CASE Suspend(c) /\ UNCHANGED op
    <3>1. control'.at # "slot" /\ \A d \in Coros \ {c} : at'[d] = at[d]
      BY <2>2, <2>3, <2>5, YieldFacts DEF Suspend, IInv, TypeOK, Control
    <3> QED
      BY <2>1, <2>3, <2>4, <2>5, <3>1, SignalsUntouched
  <2>6. CASE (\E ec : Return(c, ec, 0)) /\ UNCHANGED at
    BY <1>2, <2>1, <2>2, <2>4, <2>6, SignalsUntouched
  <2> QED
    BY <2>1, <2>5, <2>6
<1>5. CASE ConnectResume(c) \/ AcceptResume(c)
  <2>1. /\ Runs(c, "resume") /\ op[c].kind \in {"connect", "accept"} /\ UNCHANGED <<at, token>>
        /\ \E ec : Return(c, ec, 0)
        /\ fd_to_op' \in {RemoveRead(fd_to_op, c), RemoveWrite(fd_to_op, c)}
        /\ op[c].kind = "accept" => fd_to_op' = RemoveRead(fd_to_op, c)
        /\ op[c].kind = "connect" => fd_to_op' = RemoveWrite(fd_to_op, c)
    BY <1>5 DEF ConnectResume, EndConnect, AcceptResume, Accept
  <2>2. Busy(c) /\ at[c] = "running"
    BY <2>1 DEF Runs, IInv, Core, ThreadOK
  <2>3. op[c].fd \in Socks /\ op[c].token = NoToken /\ NoToken \notin Fds
    BY <2>1, <2>2, OperationFacts, MenuAssumption, NamesAssumption DEF IInv, Core, Fds
  <2>4. op[c].kind \in Ins <=> op[c].kind = "accept"
    BY <2>1, KindFacts
  <2>5. Cleared(RemoveCancel(fd_to_op', c), c)
    BY <2>1, <2>2, <2>3, <2>4, RemovalClears, KindFacts DEF RemoveCancel
  <2>6. RemoveCancel(fd_to_op', c) = fd_to_op'
    BY <2>3 DEF RemoveCancel
  <2>7. \A t \in Tokens : fd_to_op'[t] = fd_to_op[t]
    BY <1>1, <2>3, <2>5, <2>6 DEF Cleared
  <2> QED
    BY <1>2, <2>1, <2>2, <2>7, SignalsUntouched
<1>6. CASE Close(c)
  <2>1. UNCHANGED <<fd_to_op, control, at, op, token>>
    BY <1>6 DEF Close
  <2> QED
    BY <2>1, SignalsUntouched
<1> QED
  BY <1>3, <1>4, <1>5, <1>6 DEF Connecting

\* Each step keeps the signals, as without connections.
LEMMA ConnNextKeepsSignals == WInv /\ [ConnNext]_vars => WInv'
<1> SUFFICES ASSUME WInv, [ConnNext]_vars PROVE WInv'
  OBVIOUS
<1>1. IInv /\ IInv' /\ SignalsPending
  BY ConnNextKeeps DEF WInv
<1>2. CASE [Next]_vars
  BY <1>2, NextKeepsSignals
<1>3. CASE \E c \in Coros : Connecting(c)
  BY <1>1, <1>3, ConnectingKeepsSignals DEF WInv
<1>4. CASE \E s \in Socks : PeerConnects(s) \/ PeerAnswers(s)
  <2>1. UNCHANGED <<fd_to_op, control, at, op, token>>
    BY <1>4 DEF PeerConnects, PeerAnswers
  <2> QED
    BY <1>1, <2>1, SignalsUntouched DEF WInv
<1> QED
  BY <1>2, <1>3, <1>4 DEF ConnNext

\* Also while connections come and go nobody's wakeup is lost: not that of an accept
\* with a client in the backlog, nor that of a connect that is answered or refused.
THEOREM ConnectionsLoseNoWakeup == ConnSpec => [](WInv /\ NoLostWakeup)
<1>1. Init => WInv
  BY InitWInv
<1>2. WInv /\ [ConnNext]_vars => WInv'
  BY ConnNextKeepsSignals
<1>3. WInv => NoLostWakeup
  BY ImpliesNoLostWakeup
<1> QED
  BY <1>1, <1>2, <1>3, PTL DEF ConnSpec

\* ... and with a token per operation and no other threads, a cancelled operation is
\* woken, whoever closes what.
THEOREM ConnectionsReportCancels ==
    ASSUME PrivateTokens, ~CancelThreads
    PROVE  ConnSpec => []CancelReported
<1>1. WInv => CancelReported
  BY ImpliesCancelReported
<1>2. ConnSpec => []WInv
  BY ConnectionsLoseNoWakeup, PTL
<1> QED
  BY <1>1, <1>2, PTL

-------------------------------------------------------------------------------
(* Numbers that are used again: when operations on connections have neither timeout *)
(* nor token, an event for a number is about the operation that now awaits it.      *)

\* What is awaited on a connection then
LEMMA OwnPlain ==
    ASSUME IInv, PlainConnections, Connects, NEW c \in Coros, Busy(c), op[c].fd \in Unused
    PROVE  op[c].kind \notin Timed /\ op[c].token = NoToken /\ op[c].fd \in Socks
<1>1. PICK o \in Menu[c] : op[c].kind = o.kind /\ op[c].token = o.token /\ Names(o, op[c].fd)
  BY DEF IInv, Core, OpsOK
<1>2. o.fd = Own
  <2>1. op[c].fd \in Socks /\ op[c].fd \notin Listeners
    BY MenuAssumption
  <2>2. o.fd # Own => op[c].fd = o.fd
    BY <1>1 DEF Names
  <2>3. o \in Await
    BY <1>1, MenuAssumption
  <2>4. o.kind = "wait_for" => op[c].fd = TimerFd
    BY <2>2, <2>3, MenuAssumption, NamesAssumption
  <2>5. o.kind # "wait_for"
    BY <2>1, <2>4, NamesAssumption
  <2>6. o.kind \in Reads \cup Writes \cup {"accept", "connect"}
    BY <2>3, <2>5 DEF Await, Kinds
  <2> QED
    BY <2>1, <2>2, <2>6, MenuAssumption
<1> QED
  BY <1>1, <1>2, MenuAssumption DEF PlainConnections

\* Who connects was told to.
LEMMA ConnectsExist ==
    ASSUME IInv, NEW c \in Coros, Busy(c), op[c].kind = "connect"
    PROVE  Connects
BY DEF IInv, Core, OpsOK, Connects

\* On a connection, and on a connect's socket, there is one operation at a time.
LEMMA OwnAlone ==
    ASSUME IInv, NEW c \in Coros, NEW d \in Coros, Busy(c), Busy(d),
           op[c].fd \in Unused, op[d].fd = op[c].fd
    PROVE  c = d
<1>1. CASE op[c].kind = "connect" \/ op[d].kind = "connect"
  BY <1>1, ConnectAlone
<1>2. CASE op[c].kind # "connect" /\ op[d].kind # "connect"
  <2>1. sock[op[c].fd].owner = c /\ sock[op[d].fd].owner = d
    BY <1>2 DEF IInv, SocksOK
  <2> QED
    BY <2>1
<1> QED
  BY <1>1, <1>2

\* A number has a Connection or none, and gets one or loses it.
LinksStay ==
    \A s \in Unused :
       \/ sock'[s].owner = sock[s].owner /\ sock'[s].link = sock[s].link
       \/ sock'[s].owner = NoCo /\ sock'[s].link # "listening"
       \/ sock'[s].link \in {"open", "shut", "reset"}

\* ... which is how LinksOK is kept.
LEMMA LinksKept ==
    ASSUME LinksOK, LinksStay
    PROVE  LinksOK'
BY DEF LinksOK, LinksStay

\* no socket begins to connect
NoneConnects == \A s \in Unused : sock'[s].link = "connecting" => sock[s].link = "connecting"

\* whoever waits goes on waiting
WaitersStay == \A c \in Coros : Suspended(c) => Suspended(c)' /\ op'[c] = op[c]

\* Steps that resume nobody but, perhaps, an operation on another descriptor, and let no
\* socket connect that has an event, keep the events about those who wait.
LEMMA FreshKept ==
    ASSUME IInv, EventsFresh, batch' \subseteq batch, WaitersStay,
           control'.next = control.next,
           \/ /\ control'.at # "resume"
              /\ \A s \in Unused : sock'[s].link = "connecting" =>
                    sock[s].link = "connecting" \/ \A e \in batch : e.fd # s
           \/ NoneConnects /\ \A c \in Coros : control'.co = c => op'[c].fd \notin Unused
           \/ NoneConnects /\ UNCHANGED <<control, op>>
    PROVE  EventsFresh'
<1>1. ASSUME NEW e \in batch', e.fd \in Unused
      PROVE  \E c \in Coros : /\ at'[c] = "suspended" /\ op'[c].fd = e.fd
                              /\ op'[c].kind = "connect" => sock'[e.fd].link # "connecting"
  <2>1. PICK c \in Coros : /\ at[c] = "suspended" /\ op[c].fd = e.fd
                           /\ op[c].kind = "connect" => sock[e.fd].link # "connecting"
    BY <1>1 DEF EventsFresh
  <2>2. at'[c] = "suspended" /\ op'[c] = op[c]
    BY <2>1 DEF WaitersStay, Suspended
  <2>3. sock'[e.fd].link = "connecting" => sock[e.fd].link = "connecting"
    BY <1>1 DEF NoneConnects
  <2> QED
    BY <2>1, <2>2, <2>3
<1>2. ASSUME NEW c \in Coros, Runs(c, "resume")', op'[c].fd \in Unused
      PROVE  /\ \A e \in batch' : e.fd # op'[c].fd
             /\ op'[c].kind = "connect" => sock'[op'[c].fd].link # "connecting"
  <2>1. NoneConnects /\ UNCHANGED <<control, op>>
    BY <1>2 DEF Runs
  <2>2. Runs(c, "resume") /\ op'[c] = op[c]
    BY <1>2, <2>1 DEF Runs
  <2> QED
    BY <1>2, <2>1, <2>2 DEF EventsFresh, NoneConnects
<1>3. ASSUME control'.next # NoCo
      PROVE  op'[control'.next].fd \notin Unused
  <2>1. control.next \in Coros /\ Suspended(control.next) /\ op[control.next].fd \notin Unused
    BY <1>3 DEF EventsFresh, IInv, TypeOK, Control, Core, ThreadOK, Suspended
  <2> QED
    BY <2>1 DEF WaitersStay
<1> QED
  BY <1>1, <1>2, <1>3 DEF EventsFresh

\* The steps of AsyncIO: bytes move, peers shut and reset, and a coroutine that ends
\* closes what it holds.
LEMMA NextMovesLinks ==
    ASSUME IInv, [Next]_vars
    PROVE  LinksStay /\ NoneConnects
<1>1. Unused \subseteq Socks /\ sock \in [Socks -> SocketState]
  BY MenuAssumption DEF IInv, TypeOK
<1>2. CASE Transfers
  BY <1>1, <1>2 DEF Transfers, LinksStay, NoneConnects
<1>3. CASE UNCHANGED sock
  BY <1>3 DEF LinksStay, NoneConnects
<1>4. ASSUME NEW c \in Coros, Finish(c)
      PROVE  LinksStay /\ NoneConnects
  <2>1. \A s \in Socks : sock'[s] = sock[s] \/ sock'[s] = Socket("closed", NoCo)
    BY <1>4 DEF Finish, End
  <2> QED
    BY <1>1, <2>1, NewSocket DEF LinksStay, NoneConnects
<1>5. CASE Peer
  <2>1. PICK p \in Socks : PeerSend(p) \/ PeerDrain(p) \/ PeerShut(p) \/ PeerReset(p)
    BY <1>5 DEF Peer
  <2>2. \A s \in Socks \ {p} : sock'[s] = sock[s]
    BY <1>1, <2>1 DEF PeerSend, PeerDrain, PeerShut, PeerReset
  <2>3. /\ sock'[p].owner = sock[p].owner
        /\ sock'[p].link = sock[p].link \/ sock'[p].link \in {"shut", "reset"}
    <3>1. CASE PeerSend(p) \/ PeerDrain(p)
      BY <1>1, <3>1 DEF PeerSend, PeerDrain, SocketState
    <3>2. CASE PeerShut(p) \/ PeerReset(p)
      BY <1>1, <3>2 DEF PeerShut, PeerReset, SocketState
    <3> QED
      BY <2>1, <3>1, <3>2
  <2> QED
    BY <1>1, <2>2, <2>3 DEF LinksStay, NoneConnects
<1>6. ASSUME NEW c \in Coros, Awaiter(c) \/ User(c)
      PROVE  LinksStay /\ NoneConnects
  <2>1. CASE \/ RecvResume(c) \/ RecvSomeResume(c) \/ SendResume(c)
             \/ RecvTimeoutResume(c) \/ SendTimeoutResume(c) \/ WaitResume(c)
    BY <1>2, <2>1, PlainWithdraws, TimeoutEndsWithdraw, WaitWithdraws
  <2> QED
    BY <1>3, <1>4, <1>6, <2>1
       DEF Awaiter, RecvSuspend, RecvTimeoutSuspend, RecvSomeSuspend, SendSuspend,
           SendTimeoutSuspend, WaitSuspend, CancelSlotSubmit, EndWithTimeout,
           User, Launch, Begin, RequestCancelHere
<1> QED
  BY <1>3, <1>5, <1>6
     DEF Next, Thread, EnterRunning, Loop, Poll, Dispatch, CompleteWrite, LeaveRunning, Tick,
         RequestCancel, SignalCancel, vars

\* An awaiter whose token was cancelled is resumed at once: not one of a connection.
LEMMA AwaiterKeepsFresh ==
    ASSUME IInv, PlainConnections, Connects, EventsFresh, NEW c \in Coros, Awaiter(c)
    PROVE  EventsFresh'
<1>1. NoneConnects
  BY NextMovesLinks DEF Next, Thread
<1>2. batch' = batch
  BY DEF Awaiter, RecvSuspend, RecvTimeoutSuspend, RecvSomeSuspend, SendSuspend,
         SendTimeoutSuspend, WaitSuspend, CancelSlotSubmit, RecvResume, RecvTimeoutResume,
         RecvSomeResume, SendResume, SendTimeoutResume, WaitResume, EndWithTimeout
<1>3. CASE \/ RecvResume(c) \/ RecvTimeoutResume(c) \/ RecvSomeResume(c)
           \/ SendResume(c) \/ SendTimeoutResume(c) \/ WaitResume(c)
  <2>1. Withdraws(c) /\ at' = at
    BY <1>3, PlainWithdraws, TimeoutEndsWithdraw, WaitWithdraws
       DEF RecvResume, RecvTimeoutResume, RecvSomeResume, SendResume, SendTimeoutResume,
           WaitResume
  <2>2. at[c] = "running" /\ op[c] \in Operation
    BY <2>1, OperationFacts DEF Withdraws, IInv, Core, ThreadOK
  <2>3. /\ control'.next = control.next /\ control'.at # "resume"
        /\ \A d \in Coros \ {c} : op'[d] = op[d]
    BY <2>1, <2>2, WithdrawControl DEF IInv
  <2>4. WaitersStay
    BY <2>1, <2>2, <2>3 DEF WaitersStay, Suspended
  <2> QED
    BY <1>1, <1>2, <2>3, <2>4, FreshKept DEF NoneConnects
<1>4. CASE \/ RecvSuspend(c) \/ RecvTimeoutSuspend(c) \/ RecvSomeSuspend(c)
           \/ SendSuspend(c) \/ SendTimeoutSuspend(c) \/ WaitSuspend(c)
  <2>1. Runs(c, "suspend")
    BY <1>4 DEF RecvSuspend, RecvTimeoutSuspend, RecvSomeSuspend, SendSuspend,
                SendTimeoutSuspend, WaitSuspend
  <2>2. Busy(c) /\ at[c] = "running" /\ op[c] \in Operation
    BY <2>1, Unplaced, OperationFacts DEF IInv, Core
  <2>3. AlreadyCancelled(c) \/ (Suspend(c) /\ \A d \in Coros \ {c} : op'[d] = op[d])
    BY <1>4 DEF RecvSuspend, RecvTimeoutSuspend, RecvSomeSuspend, SendSuspend,
                SendTimeoutSuspend, WaitSuspend, StartTimeout, IInv, TypeOK
  <2>4. CASE AlreadyCancelled(c)
    <3>1. /\ Cancelled(c) /\ UNCHANGED <<at, op>>
          /\ control'.next = control.next /\ control'.co = c
      BY <2>4, GotoFacts DEF AlreadyCancelled, Points, IInv, TypeOK
    <3>2. op[c].fd \notin Unused
      BY <2>2, <3>1, OwnPlain DEF Cancelled
    <3>3. WaitersStay
      BY <3>1 DEF WaitersStay, Suspended
    <3> QED
      BY <1>1, <1>2, <3>1, <3>2, <3>3, FreshKept
  <2>5. CASE Suspend(c) /\ \A d \in Coros \ {c} : op'[d] = op[d]
    <3>1. /\ control'.next = control.next /\ control'.at # "resume"
          /\ \A d \in Coros \ {c} : at'[d] = at[d]
      BY <2>2, <2>5, SuspendControl DEF IInv, Core, ThreadOK, TypeOK
    <3>2. WaitersStay
      BY <2>2, <2>5, <3>1 DEF WaitersStay, Suspended
    <3> QED
      BY <1>1, <1>2, <3>1, <3>2, FreshKept DEF NoneConnects
  <2> QED
    BY <2>3, <2>4, <2>5
<1>5. CASE CancelSlotSubmit(c) \/ EndWithTimeout(c)
  <2>1. /\ Runs(c, "slot") \/ Runs(c, "final")
        /\ Yield /\ UNCHANGED op
        /\ at' = [at EXCEPT ![c] = "suspended"] \/ at' = [at EXCEPT ![c] = "stranded"]
    BY <1>5 DEF CancelSlotSubmit, EndWithTimeout
  <2>2. /\ control'.next = control.next /\ control'.at # "resume"
        /\ \A d \in Coros \ {c} : at'[d] = at[d]
    BY <2>1, YieldFacts DEF IInv, TypeOK, Control
  <2>3. at[c] = "running"
    BY <2>1 DEF Runs, IInv, Core, ThreadOK
  <2>4. WaitersStay
    BY <2>1, <2>2, <2>3 DEF WaitersStay, Suspended
  <2> QED
    BY <1>1, <1>2, <2>2, <2>4, FreshKept DEF NoneConnects
<1> QED
  BY <1>3, <1>4, <1>5 DEF Awaiter

\* The coroutines' own code, time, peers and other threads
LEMMA OthersKeepFresh ==
    ASSUME IInv, EventsFresh,
           \/ \E c \in Coros : User(c)
           \/ EnterRunning \/ LeaveRunning \/ Tick \/ Peer \/ UNCHANGED vars
           \/ \E t \in Tokens : RequestCancel(t) \/ SignalCancel(t)
    PROVE  EventsFresh'
<1>1. NoneConnects
  BY NextMovesLinks DEF Next, Thread, Loop
<1>2. batch' = batch
  BY DEF User, Launch, Finish, End, Begin, RequestCancelHere, EnterRunning, LeaveRunning,
         Tick, Peer, RequestCancel, SignalCancel, vars
<1>3. ASSUME NEW c \in Coros, Launch(c) \/ Finish(c) \/ \E o \in Menu[c] : Begin(c, o)
      PROVE  EventsFresh'
  <2>1. /\ at[c] # "suspended"
        /\ Goto("user", c) \/ Goto("suspend", c) \/ Yield
        /\ \A d \in Coros \ {c} : op'[d] = op[d] /\ at'[d] = at[d]
    BY <1>3 DEF Launch, Finish, End, Begin, Runs, IInv, TypeOK, Core, ThreadOK
  <2>2. control'.next = control.next /\ control'.at # "resume"
    BY <2>1, GotoFacts, YieldFacts DEF Points, IInv, TypeOK, Control
  <2>3. WaitersStay
    BY <2>1 DEF WaitersStay, Suspended
  <2> QED
    BY <1>1, <1>2, <2>2, <2>3, FreshKept DEF NoneConnects
<1>4. CASE EnterRunning \/ LeaveRunning
  <2>1. /\ UNCHANGED <<at, op>>
        /\ \/ control' = [control EXCEPT !.at = "loop", !.running = TRUE]
           \/ control' = [control EXCEPT !.at = "exit", !.co = NoCo]
    BY <1>4 DEF EnterRunning, LeaveRunning, Goto
  <2>2. control'.next = control.next /\ control'.at # "resume"
    BY <2>1 DEF IInv, TypeOK, Control
  <2>3. WaitersStay
    BY <2>1 DEF WaitersStay, Suspended
  <2> QED
    BY <1>1, <1>2, <2>2, <2>3, FreshKept DEF NoneConnects
<1>5. CASE UNCHANGED <<control, at, op>>
  <2>1. WaitersStay
    BY <1>5 DEF WaitersStay, Suspended
  <2> QED
    BY <1>1, <1>2, <1>5, <2>1, FreshKept
<1> QED
  BY <1>3, <1>4, <1>5
     DEF User, RequestCancelHere, Tick, Peer, RequestCancel, SignalCancel, vars

\* epoll_wait reports a number to the operation that waits on it, and nothing of a
\* connect in progress.
LEMMA PollKeepsFresh ==
    ASSUME IInv, Poll
    PROVE  EventsFresh'
<1>1. /\ control.at = "loop" /\ control.next = NoCo /\ batch' \subseteq ReadyEvents
      /\ UNCHANGED <<fd_to_op, control, at, op, sock>>
  BY DEF Poll, kSubset
<1> DEFINE i(fd) == BrokenFd(fd) \/ ("IN" \in fd_to_op[fd].events /\ InReady(fd))
           o(fd) == BrokenFd(fd) \/ ("OUT" \in fd_to_op[fd].events /\ OutReady(fd))
<1>2. ASSUME NEW s \in Unused, I!Registered(fd_to_op, s), i(s) \/ o(s)
      PROVE  \E c \in Coros : /\ at[c] = "suspended" /\ op[c].fd = s
                              /\ op[c].kind = "connect" => sock[s].link # "connecting"
  <2>1. s \in Socks /\ s \in Fds /\ fd_to_op[s].events \subseteq {"IN", "OUT", "ET"}
    BY MenuAssumption DEF IInv, TypeOK, I!FdState, Fds
  <2>2. /\ Slots(fd_to_op, s) /\ s # TimerFd
        /\ fd_to_op[s].read # NoCo \/ fd_to_op[s].write # NoCo
    BY <1>2, <2>1, EntriesPlaced, NamesAssumption DEF Slots, I!Registered
  <2>3. \A d \in Coros : fd_to_op[s].read = d \/ fd_to_op[s].write = d =>
           /\ Placed(d) /\ op[d].fd = s
           /\ fd_to_op[s].read = d => op[d].kind \in Ins
           /\ fd_to_op[s].write = d => op[d].kind \in Outs
    BY <2>1 DEF IInv, Core, TableOK
  <2>4. fd_to_op[s].read \in Coros \cup {NoCo} /\ fd_to_op[s].write \in Coros \cup {NoCo}
    BY <2>1 DEF IInv, TypeOK, I!FdState
  <2>5. PICK c \in Coros : fd_to_op[s].read = c \/ fd_to_op[s].write = c
    BY <2>2, <2>4
  <2>6. at[c] = "suspended" /\ op[c].fd = s /\ Busy(c)
    BY <1>1, <2>3, <2>5, PlacedIsAlive DEF Suspended, Placed
  <2>7. ASSUME op[c].kind = "connect", sock[s].link = "connecting"
        PROVE  FALSE
    <3>1. ~BrokenFd(s) /\ ~OutReady(s)
      BY <2>7 DEF BrokenFd, Broken, OutReady, Room, Established
    <3>2. fd_to_op[s].read = NoCo
      <4>1. ASSUME fd_to_op[s].read # NoCo PROVE FALSE
        <5>1. PICK d \in Coros : fd_to_op[s].read = d
          BY <2>4, <4>1
        <5>2. Busy(d) /\ op[d].fd = s /\ op[d].kind \in Ins
          BY <2>3, <5>1 DEF Placed
        <5>3. d = c
          BY <2>6, <5>2, OwnAlone
        <5> QED
          BY <2>7, <5>2, <5>3, KindFacts
      <4> QED
        BY <4>1
    <3>3. "IN" \notin fd_to_op[s].events
      BY <2>2, <3>2 DEF Slots
    <3> QED
      BY <1>2, <3>1, <3>3
  <2> QED
    BY <2>6, <2>7
<1>3. \A e \in ReadyEvents : \E fd \in Fds :
         /\ I!Registered(fd_to_op, fd) /\ e = [fd |-> fd, in |-> i(fd), out |-> o(fd)]
         /\ e.in \/ e.out
  BY DEF ReadyEvents
<1> HIDE DEF i, o
<1>4. ASSUME NEW e \in ReadyEvents, e.fd \in Unused
      PROVE  \E c \in Coros : /\ at[c] = "suspended" /\ op[c].fd = e.fd
                              /\ op[c].kind = "connect" => sock[e.fd].link # "connecting"
  <2>1. I!Registered(fd_to_op, e.fd) /\ (i(e.fd) \/ o(e.fd))
    BY <1>3
  <2> QED
    BY <1>2, <1>4, <2>1
<1>5. \A c \in Coros : ~Runs(c, "resume")'
  BY <1>1 DEF Runs
<1> QED
  BY <1>1, <1>4, <1>5 DEF EventsFresh

\* The loop's turn for a number completes the operation that waits on it, which has no
\* other event; a turn for any other descriptor completes no operation on a number.
LEMMA DispatchKeepsFresh ==
    ASSUME IInv, BatchOK, PlainConnections, Connects, EventsFresh, NEW e \in batch, Dispatch(e)
    PROVE  EventsFresh'
<1> DEFINE r == IF e.in THEN fd_to_op[e.fd].read ELSE NoCo
           w == IF e.out THEN fd_to_op[e.fd].write ELSE NoCo
<1>1. /\ control.at = "loop" /\ control.next = NoCo /\ batch' = batch \ {e} /\ e.fd \in Fds
      /\ UNCHANGED <<op, sock>>
  BY DEF Dispatch, IInv, TypeOK
<1>2. \/ r # NoCo /\ Complete(r, w)
      \/ r = NoCo /\ w # NoCo /\ Complete(w, NoCo)
      \/ UNCHANGED <<control, at>>
  BY DEF Dispatch
<1>3. r \in Coros \cup {NoCo} /\ w \in Coros \cup {NoCo}
  BY <1>1 DEF IInv, TypeOK, I!FdState
<1>4. ASSUME NEW d \in Coros, d = r \/ d = w
      PROVE  /\ Suspended(d) /\ Busy(d)
             /\ op[d].fd \in Unused => op[d].fd = e.fd
             /\ e.fd \in Unused => op[d].fd = e.fd
  <2>1. /\ Placed(d) /\ d # NoCo
        /\ \/ op[d].fd = e.fd
           \/ op[d].token = e.fd
           \/ op[d].kind \in Timed /\ e.fd = TimerFd
    BY <1>1, <1>4, EntriesPlaced, NamesAssumption
  <2>2. Suspended(d) /\ Busy(d)
    BY <1>1, <2>1, PlacedIsAlive
  <2>3. op[d].fd \in Unused => op[d].fd = e.fd
    BY <1>1, <2>1, <2>2, OwnPlain, NamesAssumption DEF Fds
  <2>4. e.fd \in Unused => op[d].fd = e.fd
    <3>1. ASSUME e.fd \in Unused PROVE op[d].fd = e.fd
      <4>1. e.fd \in Socks
        BY <3>1, MenuAssumption
      <4>2. e.fd # TimerFd /\ e.fd \notin Tokens /\ e.fd # NoToken
        BY <4>1, NamesAssumption
      <4>3. op[d].token # NoToken => op[d].token \in Tokens
        BY <2>2, OperationFacts DEF IInv, Core
      <4> QED
        BY <2>1, <4>2, <4>3
    <3> QED
      BY <3>1
  <2> QED
    BY <2>2, <2>3, <2>4
<1>5. r # NoCo /\ w # NoCo => op[w].fd \notin Unused
  <2>1. ASSUME r # NoCo, w # NoCo, op[w].fd \in Unused
        PROVE  FALSE
    <3>1. r \in Coros /\ w \in Coros /\ r = fd_to_op[e.fd].read /\ w = fd_to_op[e.fd].write
      BY <1>3, <2>1
    <3>2. op[w].fd = e.fd /\ op[r].fd = e.fd /\ Busy(r) /\ Busy(w)
      BY <1>4, <2>1, <3>1
    <3>3. r = w
      BY <2>1, <3>1, <3>2, OwnAlone
    <3>4. e.fd \in Socks
      BY <2>1, <3>2, MenuAssumption
    <3>5. op[r].kind \in Ins /\ op[w].kind \in Outs
      BY <3>1, <3>4 DEF IInv, Core, TableOK
    <3> QED
      BY <3>3, <3>5, KindFacts
  <2> QED
    BY <2>1
<1>6. \/ UNCHANGED <<control, at>>
      \/ \E d \in Coros : /\ d = r \/ d = w
                          /\ at' = [at EXCEPT ![d] = "running"]
                          /\ control'.co = d
                          /\ control'.next # NoCo => r # NoCo /\ w # NoCo /\ control'.next = w
  <2>1. CASE r # NoCo /\ Complete(r, w)
    BY <1>3, <2>1 DEF Complete, IInv, TypeOK, Control
  <2>2. CASE r = NoCo /\ w # NoCo /\ Complete(w, NoCo)
    BY <1>3, <2>2 DEF Complete, IInv, TypeOK, Control
  <2> QED
    BY <1>2, <2>1, <2>2
<1> HIDE DEF r, w
<1>7. ASSUME NEW f \in batch', f.fd \in Unused
      PROVE  \E c \in Coros : /\ at'[c] = "suspended" /\ op[c].fd = f.fd
                              /\ op[c].kind = "connect" => sock[f.fd].link # "connecting"
  <2>1. f \in batch /\ f.fd # e.fd
    BY <1>1, <1>7 DEF BatchOK
  <2>2. PICK c \in Coros : /\ at[c] = "suspended" /\ op[c].fd = f.fd
                           /\ op[c].kind = "connect" => sock[f.fd].link # "connecting"
    BY <1>7, <2>1 DEF EventsFresh
  <2>3. c # r /\ c # w
    BY <1>4, <1>7, <2>1, <2>2
  <2>4. at'[c] = "suspended"
    BY <1>6, <2>2, <2>3 DEF IInv, TypeOK
  <2> QED
    BY <2>2, <2>4
<1>8. ASSUME NEW c \in Coros, Runs(c, "resume")', op[c].fd \in Unused
      PROVE  /\ \A f \in batch' : f.fd # op[c].fd
             /\ op[c].kind = "connect" => sock[op[c].fd].link # "connecting"
  <2>1. c = r \/ c = w
    BY <1>1, <1>6, <1>8 DEF Runs
  <2>2. op[c].fd = e.fd /\ Busy(c)
    BY <1>4, <1>8, <2>1
  <2>3. \A f \in batch' : f.fd # e.fd
    BY <1>1 DEF BatchOK
  <2>4. PICK d \in Coros : /\ at[d] = "suspended" /\ op[d].fd = e.fd
                           /\ op[d].kind = "connect" => sock[e.fd].link # "connecting"
    BY <1>8, <2>2 DEF EventsFresh
  <2>5. d = c
    BY <1>8, <2>2, <2>4, PlacedIsAlive, OwnAlone DEF Suspended
  <2> QED
    BY <2>2, <2>3, <2>4, <2>5
<1>9. control'.next # NoCo => op[control'.next].fd \notin Unused
  BY <1>1, <1>5, <1>6
<1> QED
  BY <1>1, <1>7, <1>8, <1>9 DEF EventsFresh

\* The operation that the loop completes second is not on a number.
LEMMA CompleteWriteKeepsFresh ==
    ASSUME IInv, EventsFresh, CompleteWrite
    PROVE  EventsFresh'
<1> DEFINE d == control.next
<1>1. /\ d \in Coros /\ op[d].fd \notin Unused /\ UNCHANGED <<batch, op, sock>>
      /\ at' = [at EXCEPT ![d] = "running"]
      /\ control'.co = d /\ control'.next = NoCo
  BY DEF CompleteWrite, Complete, EventsFresh, IInv, TypeOK, Control
<1> HIDE DEF d
<1>2. ASSUME NEW e \in batch', e.fd \in Unused
      PROVE  \E c \in Coros : /\ at'[c] = "suspended" /\ op[c].fd = e.fd
                              /\ op[c].kind = "connect" => sock[e.fd].link # "connecting"
  <2>1. PICK c \in Coros : /\ at[c] = "suspended" /\ op[c].fd = e.fd
                           /\ op[c].kind = "connect" => sock[e.fd].link # "connecting"
    BY <1>1, <1>2 DEF EventsFresh
  <2>2. at'[c] = "suspended"
    BY <1>1, <1>2, <2>1 DEF IInv, TypeOK
  <2> QED
    BY <2>1, <2>2
<1>3. \A c \in Coros : Runs(c, "resume")' => op[c].fd \notin Unused
  BY <1>1 DEF Runs
<1> QED
  BY <1>1, <1>2, <1>3 DEF EventsFresh

\* What Connections' steps do to a number: it is given out, connected or closed.
LEMMA ConnectingMovesLinks ==
    ASSUME IInv, LinksOK, Connects => EventsFresh, NEW c \in Coros, Connecting(c)
    PROVE  LinksStay
<1>1. /\ Unused \subseteq Socks /\ sock \in [Socks -> SocketState]
      /\ \A s \in Free : s \in Socks
  BY MenuAssumption DEF IInv, TypeOK, Free
<1>2. ASSUME NEW s \in Socks, NEW v, sock' = [sock EXCEPT ![s] = v],
             s \in Unused =>
                \/ v.owner = NoCo /\ v.link # "listening"
                \/ v.link \in {"open", "shut", "reset"}
      PROVE  LinksStay
  BY <1>1, <1>2 DEF LinksStay
<1>3. ASSUME NEW o \in Menu[c], BeginConnect(c, o) \/ AddressFails(c, o)
      PROVE  LinksStay
  <2>1. PICK s \in Free, l \in {"new", "lost"} : sock' = [sock EXCEPT ![s] = Socket(l, NoCo)]
    BY <1>3 DEF BeginConnect, AddressFails
  <2>2. Socket(l, NoCo).owner = NoCo /\ Socket(l, NoCo).link # "listening"
    BY NewSocket
  <2>3. s \in Socks
    BY <1>1
  <2> QED
    BY <1>2, <2>1, <2>2, <2>3
<1>4. CASE Close(c) \/ \E o \in Menu[c] : SocketFails(c, o)
  <2>1. \A s \in Socks : sock'[s] = sock[s] \/ sock'[s] = Socket("closed", NoCo)
    BY <1>4 DEF Close, SocketFails, End
  <2> QED
    BY <1>1, <2>1, NewSocket DEF LinksStay
<1>5. CASE ConnectSuspend(c) \/ ConnectResume(c)
  <2> DEFINE s == op[c].fd
  <2>1. op[c].kind = "connect" /\ Busy(c)
    BY <1>5, KindFacts DEF ConnectSuspend, ConnectResume, Busy
  <2>2. s \in Socks /\ s \in Unused /\ sock[s].owner = NoCo /\ sock[s].link # "listening"
    BY <2>1, ConnectAlone DEF LinksOK
  <2>3. CASE \/ sock' = [sock EXCEPT ![s] = Socket("open", c)]
             \/ sock' = [sock EXCEPT ![s] = Socket("closed", NoCo)]
    BY <1>2, <2>2, <2>3, NewSocket
  <2>4. CASE sock' = [sock EXCEPT ![s].link = "connecting"]
    <3>1. /\ sock'[s].owner = NoCo /\ sock'[s].link = "connecting"
          /\ \A z \in Socks \ {s} : sock'[z] = sock[z]
      BY <1>1, <2>2, <2>4 DEF SocketState
    <3> QED
      BY <1>1, <2>2, <3>1 DEF LinksStay
  <2>5. CASE ConnectResume(c) /\ sock' = [sock EXCEPT ![s].owner = c] /\ ~Broken(s)
    <3>1. Runs(c, "resume") /\ Connects
      BY <2>1, <2>5, ConnectsExist DEF ConnectResume
    <3>2. sock[s].link \notin {"connecting", "new", "closed", "lost", "listening", "refused", "reset"}
      BY <2>1, <2>2, <2>5, <3>1 DEF EventsFresh, IInv, SocksOK, Runs, Broken
    <3>3. sock[s].link \in {"open", "shut"}
      BY <1>1, <2>2, <3>2 DEF SocketState
    <3>4. /\ sock'[s].link = sock[s].link
          /\ \A z \in Socks \ {s} : sock'[z] = sock[z]
      BY <1>1, <2>2, <2>5 DEF SocketState
    <3> QED
      BY <1>1, <2>2, <3>3, <3>4 DEF LinksStay
  <2> QED
    BY <1>5, <2>3, <2>4, <2>5 DEF ConnectSuspend, ConnectResume, EndConnect, ConnectError
<1>6. CASE AcceptSuspend(c)
  BY <1>6 DEF AcceptSuspend, LinksStay
<1>7. CASE AcceptResume(c)
  <2> DEFINE l == op[c].fd
  <2>1. op[c].kind = "accept" /\ Busy(c) /\ Accept(c, l)
    BY <1>7, KindFacts DEF AcceptResume, Busy
  <2>2. l \in Socks
    BY <2>1, OperationFacts, MenuAssumption DEF IInv, Core
  <2>3. CASE UNCHANGED sock
    BY <2>3 DEF LinksStay
  <2>4. CASE /\ sock[l].inbox > 0
             /\ \E s \in Free : sock' = [sock EXCEPT ![l].inbox = @ - 1, ![l].told.in = @ + 1,
                                                     ![s] = Socket("open", c)]
    <3>1. PICK s \in Free : sock' = [sock EXCEPT ![l].inbox = @ - 1, ![l].told.in = @ + 1,
                                                 ![s] = Socket("open", c)]
      BY <2>4
    <3>2. s # l
      <4>1. l \in Listeners /\ s \in Unused
        BY <2>1, <3>1, OperationFacts, FreeUnheld DEF IInv, Core
      <4> QED
        BY <4>1, MenuAssumption
    <3>3. /\ sock'[s] = Socket("open", c)
          /\ \A z \in Socks \ {s} : sock'[z].link = sock[z].link /\ sock'[z].owner = sock[z].owner
      BY <1>1, <2>2, <2>4, <3>1, <3>2, AcceptedSocket
    <3> QED
      BY <1>1, <3>1, <3>3, NewSocket DEF LinksStay
  <2> QED
    BY <2>1, <2>3, <2>4 DEF Accept
<1> QED
  BY <1>3, <1>4, <1>5, <1>6, <1>7 DEF Connecting

\* No event names the socket that begins to connect: nobody waits on it yet.
LEMMA ConnectingKeepsFresh ==
    ASSUME IInv, IInv', EventsFresh, NEW c \in Coros, Connecting(c)
    PROVE  EventsFresh'
<1>1. batch' = batch
  BY ConnectingUnseen
<1>2. Unused \subseteq Socks /\ sock \in [Socks -> SocketState] /\ \A s \in Free : s \in Socks
  BY MenuAssumption DEF IInv, TypeOK, Free
<1>3. ASSUME NEW ec, Return(c, ec, 0)
      PROVE  /\ control'.next = control.next /\ control'.at # "resume"
             /\ \A d \in Coros \ {c} : op'[d] = op[d]
  BY <1>3, GotoFacts DEF Return, Points, IInv, TypeOK
<1>4. at[c] # "suspended"
  BY DEF Connecting, BeginConnect, SocketFails, AddressFails, ConnectSuspend, ConnectResume,
         AcceptSuspend,
         AcceptResume, Close, Runs, IInv, Core, ThreadOK
<1>5. /\ control'.next = control.next /\ control'.at # "resume"
      /\ \A d \in Coros \ {c} : op'[d] = op[d] /\ at'[d] = at[d]
  <2>1. CASE \E o \in Menu[c] : BeginConnect(c, o) \/ SocketFails(c, o) \/ AddressFails(c, o)
    <3>1. /\ Goto("suspend", c) \/ Yield
          /\ \A d \in Coros \ {c} : op'[d] = op[d] /\ at'[d] = at[d]
      BY <2>1 DEF BeginConnect, SocketFails, AddressFails, End, IInv, TypeOK
    <3> QED
      BY <3>1, GotoFacts, YieldFacts DEF Points, IInv, TypeOK, Control
  <2>2. CASE ConnectSuspend(c) \/ AcceptSuspend(c)
    <3>1. /\ Runs(c, "suspend")
          /\ \/ Suspend(c) /\ UNCHANGED op
             \/ (\E ec : Return(c, ec, 0)) /\ UNCHANGED at
      BY <2>2 DEF ConnectSuspend, EndConnect, AcceptSuspend
    <3>2. at[c] = "running"
      BY <3>1, Unplaced
    <3> QED
      BY <1>3, <3>1, <3>2, SuspendControl DEF IInv, Core, ThreadOK, TypeOK
  <2>3. CASE ConnectResume(c) \/ AcceptResume(c)
    <3>1. (\E ec : Return(c, ec, 0)) /\ UNCHANGED at
      BY <2>3 DEF ConnectResume, EndConnect, AcceptResume, Accept
    <3> QED
      BY <1>3, <3>1
  <2>4. CASE Close(c)
    BY <2>4 DEF Close, Runs
  <2> QED
    BY <2>1, <2>2, <2>3, <2>4 DEF Connecting
<1>6. WaitersStay
  BY <1>4, <1>5 DEF WaitersStay, Suspended
<1>7. ASSUME NEW s \in Unused, sock'[s].link = "connecting", sock[s].link # "connecting"
      PROVE  \A e \in batch : e.fd # s
  <2>1. ConnectSuspend(c) /\ op[c].fd = s /\ op[c].kind = "connect"
    <3>1. CASE \/ Close(c) \/ AcceptSuspend(c)
               \/ \E o \in Menu[c] : BeginConnect(c, o) \/ SocketFails(c, o) \/ AddressFails(c, o)
      <4>1. sock'[s] \in {sock[s], Socket("closed", NoCo), Socket("new", NoCo),
                           Socket("lost", NoCo)}
        BY <1>2, <3>1 DEF Close, AcceptSuspend, BeginConnect, SocketFails, AddressFails, End
      <4> QED
        BY <1>7, <4>1, NewSocket
    <3>2. CASE ConnectSuspend(c) \/ ConnectResume(c)
      <4>1. op[c].kind = "connect" /\ Busy(c)
        BY <3>2, KindFacts DEF ConnectSuspend, ConnectResume, Busy
      <4>2. op[c].fd \in Socks
        BY <4>1, ConnectAlone
      <4>3. op[c].fd = s
        BY <1>2, <1>7, <3>2, <4>2 DEF ConnectSuspend, ConnectResume, EndConnect
      <4>4. CASE ConnectResume(c)
        <5>1. sock'[s].link = sock[s].link \/ sock'[s] = Socket("closed", NoCo)
          BY <1>2, <4>2, <4>3, <4>4 DEF ConnectResume, EndConnect, SocketState
        <5> QED
          BY <1>7, <5>1, NewSocket
      <4> QED
        BY <3>2, <4>1, <4>3, <4>4
    <3>3. CASE AcceptResume(c)
      <4>1. op[c].kind = "accept" /\ Busy(c) /\ Accept(c, op[c].fd)
        BY <3>3, KindFacts DEF AcceptResume, Busy
      <4>2. op[c].fd \in Socks /\ op[c].fd # s
        BY <4>1, OperationFacts, MenuAssumption DEF IInv, Core
      <4>3. sock'[s] = sock[s] \/ sock'[s] = Socket("open", c)
        BY <1>2, <4>1, <4>2 DEF Accept
      <4> QED
        BY <1>7, <4>3, NewSocket
    <3> QED
      BY <3>1, <3>2, <3>3 DEF Connecting
  <2>2. Busy(c) /\ op[c].fd \in Unused
    BY <2>1, KindFacts DEF Busy
  <2>3. ASSUME NEW e \in batch, e.fd = s PROVE FALSE
    <3>1. PICK d \in Coros : at[d] = "suspended" /\ op[d].fd = s
      BY <1>7, <2>3 DEF EventsFresh
    <3>2. d = c
      BY <2>1, <2>2, <3>1, PlacedIsAlive, OwnAlone DEF Suspended
    <3> QED
      BY <1>4, <3>1, <3>2
  <2> QED
    BY <2>3
<1> QED
  BY <1>1, <1>5, <1>6, <1>7, FreshKept

\* Clients come, and peers answer: nobody begins to connect.
LEMMA ClientsMoveLinks ==
    ASSUME IInv, LinksOK, NEW s \in Socks, PeerConnects(s) \/ PeerAnswers(s)
    PROVE  LinksStay /\ NoneConnects
<1>1. Unused \subseteq Socks /\ sock \in [Socks -> SocketState]
  BY MenuAssumption DEF IInv, TypeOK
<1>2. CASE PeerConnects(s)
  <2>1. \A z \in Socks : sock'[z].owner = sock[z].owner /\ sock'[z].link = sock[z].link
    BY <1>1, <1>2 DEF PeerConnects, SocketState
  <2> QED
    BY <1>1, <2>1 DEF LinksStay, NoneConnects
<1>3. CASE PeerAnswers(s)
  <2>1. /\ sock'[s].owner = sock[s].owner /\ sock'[s].link \in {"open", "refused"}
        /\ sock[s].link = "connecting" /\ \A z \in Socks \ {s} : sock'[z] = sock[z]
    BY <1>1, <1>3 DEF PeerAnswers, SocketState
  <2>2. s \in Unused => sock[s].owner = NoCo
    BY <2>1 DEF LinksOK
  <2> QED
    BY <1>1, <2>1, <2>2 DEF LinksStay, NoneConnects
<1> QED
  BY <1>2, <1>3

\* Each step keeps the events about those who wait.
LEMMA ConnNextKeepsCInv == CInv /\ [ConnNext]_vars => CInv'
<1> SUFFICES ASSUME CInv, [ConnNext]_vars PROVE CInv'
  OBVIOUS
<1>1. TInv /\ IInv /\ BatchOK /\ TInv' /\ IInv'
  BY ConnNextSeen DEF CInv, TInv
<1>2. ASSUME PlainConnections
      PROVE  LinksOK' /\ (Connects => EventsFresh')
  <2>1. LinksOK /\ (Connects => EventsFresh)
    BY <1>2 DEF CInv
  <2>2. CASE [Next]_vars
    <3>1. LinksOK'
      BY <1>1, <2>1, <2>2, NextMovesLinks, LinksKept
    <3>2. ASSUME Connects PROVE EventsFresh'
      <4>1. CASE \E c \in Coros : Awaiter(c)
        BY <1>1, <1>2, <2>1, <3>2, <4>1, AwaiterKeepsFresh
      <4>2. CASE \E e \in batch : Dispatch(e)
        BY <1>1, <1>2, <2>1, <3>2, <4>2, DispatchKeepsFresh
      <4>3. CASE Poll \/ CompleteWrite
        BY <1>1, <2>1, <3>2, <4>3, PollKeepsFresh, CompleteWriteKeepsFresh
      <4>4. CASE \/ \E c \in Coros : User(c)
                 \/ EnterRunning \/ LeaveRunning \/ Tick \/ Peer \/ UNCHANGED vars
                 \/ \E t \in Tokens : RequestCancel(t) \/ SignalCancel(t)
        BY <1>1, <2>1, <3>2, <4>4, OthersKeepFresh
      <4> QED
        BY <2>2, <4>1, <4>2, <4>3, <4>4 DEF Next, Thread, Loop
    <3> QED
      BY <3>1, <3>2
  <2>3. CASE \E c \in Coros : Connecting(c)
    <3>1. PICK c \in Coros : Connecting(c)
      BY <2>3
    <3>2. LinksOK'
      BY <1>1, <2>1, <3>1, ConnectingMovesLinks, LinksKept
    <3>3. Connects => EventsFresh'
      BY <1>1, <2>1, <3>1, ConnectingKeepsFresh
    <3> QED
      BY <3>2, <3>3
  <2>4. CASE \E s \in Socks : PeerConnects(s) \/ PeerAnswers(s)
    <3>1. UNCHANGED <<batch, control, at, op>>
      BY <2>4 DEF PeerConnects, PeerAnswers
    <3>2. LinksStay /\ NoneConnects /\ WaitersStay
      BY <1>1, <2>1, <2>4, <3>1, ClientsMoveLinks DEF WaitersStay, Suspended
    <3>3. LinksOK'
      BY <2>1, <3>2, LinksKept
    <3>4. Connects => EventsFresh'
      BY <1>1, <2>1, <3>1, <3>2, FreshKept
    <3> QED
      BY <3>3, <3>4
  <2> QED
    BY <2>2, <2>3, <2>4 DEF ConnNext
<1>3. PlainConnections' <=> PlainConnections
  BY DEF PlainConnections, Connects
<1>4. Connects' <=> Connects
  BY DEF Connects
<1> QED
  BY <1>1, <1>2, <1>3, <1>4 DEF CInv

\* At the beginning the numbers are closed and nothing has been reported.
LEMMA InitCInv == Init => CInv
<1> SUFFICES ASSUME Init PROVE LinksOK /\ EventsFresh
  BY InitSeen DEF CInv
<1>1. \A s \in Unused : sock[s] = Socket("closed", NoCo)
  BY MenuAssumption DEF Init
<1> QED
  BY <1>1, NewSocket DEF Init, LinksOK, EventsFresh, Runs

\* When nobody can leave an operation on a connection but by its own event, the loop
\* never completes an operation on a number with an event of the one before it
\* (Scheduler::running, connect_await::await_resume).
THEOREM NumbersReusedSafely == ConnSpec => []CInv
<1>1. Init => CInv
  BY InitCInv
<1>2. CInv /\ [ConnNext]_vars => CInv'
  BY ConnNextKeepsCInv
<1> QED
  BY <1>1, <1>2, PTL DEF ConnSpec

\* A Connection that async_connect or async_accept hands over is connected, or was,
\* although connect_error is silent about a connect in progress.
THEOREM HandedOverConnected ==
    ASSUME PlainConnections
    PROVE  ConnSpec => []ConnectedMeansConnected
<1>1. CInv => ConnectedMeansConnected
  <2> SUFFICES ASSUME CInv, NEW s \in Socks, sock[s].owner # NoCo
               PROVE  sock[s].link \in {"open", "shut", "reset"}
    BY DEF ConnectedMeansConnected
  <2>1. s \in Unused
    BY DEF CInv, TInv, IInv, SocksOK
  <2> QED
    BY <2>1 DEF CInv, LinksOK
<1> QED
  BY <1>1, NumbersReusedSafely, PTL
===============================================================================
