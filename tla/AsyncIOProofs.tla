----------------------------- MODULE AsyncIOProofs -----------------------------
(***************************************************************************)
(* The invariants of the framework, for any number of coroutines, sockets  *)
(* and tokens and any programs: Init makes IInv true, every step keeps it, *)
(* and it implies what AsyncIO states.                                     *)
(***************************************************************************)
EXTENDS AsyncIOSteps

-------------------------------------------------------------------------------
(* The sockets *)

\* c awaits what it awaited
SameBusy(c) == Busy(c) /\ Busy(c)' /\ op'[c].kind = op[c].kind /\ op'[c].fd = op[c].fd

\* No connection is made or closed.
ConnectionsStay ==
    \A s \in Socks :
       /\ sock'[s].inbox <= sock'[s].sent /\ sock'[s].taken <= 1 + sock'[s].drained
       /\ sock'[s].owner = sock[s].owner
       /\ \/ sock'[s].link = sock[s].link
          \/ /\ sock[s].link \notin {"closed", "lost", "new"}
             /\ sock'[s].link \notin {"closed", "lost", "new", "connecting"}

\* Connects go on, other operations begin on what their coroutine holds, and no
\* coroutine ends.
HoldersStay ==
    \A c \in Coros :
       /\ at'[c] \in {"done", "threw"} => at[c] \in {"done", "threw"}
       /\ Busy(c) /\ op[c].kind = "connect" =>
             SameBusy(c) /\ (Runs(c, "suspend")' <=> Runs(c, "suspend"))
       /\ Busy(c)' /\ op'[c].fd \in Unused =>
             \/ SameBusy(c)
             \/ op'[c].kind # "connect" /\ sock[op'[c].fd].owner = c

\* Sockets stay in order when no connection changes hands.
LEMMA SocksKept ==
    ASSUME TypeOK, SocksOK, ConnectionsStay, HoldersStay
    PROVE  SocksOK'
<1>1. Unused \subseteq Socks
  BY MenuAssumption
<1>2. \A s \in Socks : sock[s].owner \in Coros \cup {NoCo}
  BY DEF TypeOK, SocketState
<1>3. ASSUME NEW s \in Socks
      PROVE  /\ sock'[s].inbox <= sock'[s].sent
             /\ sock'[s].taken <= 1 + sock'[s].drained
             /\ s \notin Unused => /\ sock'[s].owner = NoCo
                                   /\ sock'[s].link \notin {"closed", "lost", "new", "connecting"}
             /\ sock'[s].owner # NoCo => /\ sock'[s].link \notin {"closed", "lost", "new"}
                                         /\ at'[sock'[s].owner] \notin {"done", "threw"}
             /\ s \in Unused /\ sock'[s].link \notin {"closed", "lost"} =>
                   \/ sock'[s].owner # NoCo
                   \/ \E c \in Coros : Busy(c)' /\ op'[c].kind = "connect" /\ op'[c].fd = s
  <2>1. s \in Unused /\ sock'[s].link \notin {"closed", "lost"} => sock[s].link \notin {"closed", "lost"}
    BY DEF ConnectionsStay
  <2>2. s \in Unused /\ sock[s].link \notin {"closed", "lost"} =>
           \/ sock[s].owner # NoCo
           \/ \E c \in Coros : Busy(c) /\ op[c].kind = "connect" /\ op[c].fd = s
    BY DEF SocksOK
  <2>3. \A c \in Coros : Busy(c) /\ op[c].kind = "connect" /\ op[c].fd = s =>
           Busy(c)' /\ op'[c].kind = "connect" /\ op'[c].fd = s
    BY DEF SameBusy, HoldersStay
  <2> QED
    BY <1>2, <2>1, <2>2, <2>3 DEF SocksOK, ConnectionsStay, HoldersStay
<1>4. ASSUME NEW c \in Coros, Busy(c)', op'[c].fd \in Unused
      PROVE  IF op'[c].kind = "connect"
             THEN /\ sock'[op'[c].fd].owner = NoCo
                  /\ sock'[op'[c].fd].link \notin {"closed", "lost"}
                  /\ sock'[op'[c].fd].link = "new" <=> Runs(c, "suspend")'
             ELSE sock'[op'[c].fd].owner = c
  <2>1. op'[c].fd \in Socks
    BY <1>1, <1>4
  <2>2. CASE SameBusy(c)
    <3>1. CASE op[c].kind = "connect"
      <4>1. /\ sock[op[c].fd].owner = NoCo
            /\ sock[op[c].fd].link \notin {"closed", "lost"}
            /\ sock[op[c].fd].link = "new" <=> Runs(c, "suspend")
        BY <1>4, <2>2, <3>1 DEF SocksOK, SameBusy
      <4>2. Runs(c, "suspend")' <=> Runs(c, "suspend")
        BY <2>2, <3>1 DEF SameBusy, HoldersStay
      <4> QED
        BY <2>1, <2>2, <3>1, <4>1, <4>2 DEF SameBusy, ConnectionsStay
    <3>2. CASE op[c].kind # "connect"
      BY <1>4, <2>1, <2>2, <3>2 DEF SocksOK, SameBusy, ConnectionsStay
    <3> QED
      BY <3>1, <3>2
  <2>3. CASE ~SameBusy(c)
    BY <1>4, <2>1, <2>3 DEF ConnectionsStay, HoldersStay
  <2> QED
    BY <2>2, <2>3
<1> QED
  BY <1>3, <1>4 DEF SocksOK

\* Steps that begin and end no operation, and move no byte
LEMMA SocksUntouched ==
    ASSUME IInv, UNCHANGED <<op, sock>>,
           \A c \in Coros :
              /\ at'[c] \in {"done", "threw"} => at[c] \in {"done", "threw"}
              /\ Busy(c) /\ op[c].kind = "connect" => (Runs(c, "suspend")' <=> Runs(c, "suspend"))
    PROVE  SocksOK'
<1>1. ConnectionsStay
  BY DEF ConnectionsStay, IInv, SocksOK
<1>2. HoldersStay
  BY DEF HoldersStay, SameBusy, Busy
<1> QED
  BY <1>1, <1>2, SocksKept DEF IInv

\* The Connection that c holds is closed: close_fd, or the end of its scope.
LEMMA ClosesOwned ==
    ASSUME IInv, NEW c \in Coros, ~Busy(c), op' = op,
           sock' = [s \in Socks |-> IF s \in Owned(c) THEN Socket("closed", NoCo) ELSE sock[s]],
           \A d \in Coros : /\ d # c => at'[d] = at[d]
                            /\ Runs(d, "suspend")' <=> Runs(d, "suspend")
    PROVE  sock' \in [Socks -> SocketState] /\ SocksOK'
<1> DEFINE gone == Socket("closed", NoCo)
<1>1. /\ gone \in SocketState /\ gone.link = "closed" /\ gone.owner = NoCo
      /\ gone.inbox <= gone.sent /\ gone.taken <= 1 + gone.drained
  BY DEF Socket, SocketState
<1>2. \A s \in Socks : sock'[s] = IF sock[s].owner = c THEN gone ELSE sock[s]
  BY DEF Owned
<1>3. sock' \in [Socks -> SocketState]
  <2>1. \A s \in Socks : sock'[s] \in SocketState
    BY <1>1, <1>2 DEF IInv, TypeOK
  <2>2. sock' = [s \in Socks |-> sock'[s]]
    OBVIOUS
  <2> QED
    BY <2>1, <2>2
<1> HIDE DEF gone
<1>4. \A d \in Coros : Busy(d)' <=> Busy(d)
  BY DEF Busy
<1>5. Unused \subseteq Socks /\ \A s \in Socks : sock[s].owner \in Coros \cup {NoCo}
  BY MenuAssumption DEF IInv, TypeOK, SocketState
<1>6. ASSUME NEW s \in Socks
      PROVE  /\ sock'[s].inbox <= sock'[s].sent
             /\ sock'[s].taken <= 1 + sock'[s].drained
             /\ s \notin Unused => /\ sock'[s].owner = NoCo
                                   /\ sock'[s].link \notin {"closed", "lost", "new", "connecting"}
             /\ sock'[s].owner # NoCo => /\ sock'[s].link \notin {"closed", "lost", "new"}
                                         /\ at'[sock'[s].owner] \notin {"done", "threw"}
             /\ s \in Unused /\ sock'[s].link \notin {"closed", "lost"} =>
                   \/ sock'[s].owner # NoCo
                   \/ \E d \in Coros : Busy(d)' /\ op'[d].kind = "connect" /\ op'[d].fd = s
  <2>1. CASE sock[s].owner = c
    <3>1. s \in Unused
      BY <2>1, NamesAssumption DEF IInv, SocksOK
    <3> QED
      BY <1>1, <1>2, <2>1, <3>1
  <2>2. CASE sock[s].owner # c
    <3>1. sock'[s] = sock[s]
      BY <1>2, <2>2
    <3> QED
      BY <1>4, <1>5, <2>2, <3>1 DEF IInv, SocksOK
  <2> QED
    BY <2>1, <2>2
<1>7. ASSUME NEW d \in Coros, Busy(d)', op'[d].fd \in Unused
      PROVE  IF op'[d].kind = "connect"
             THEN /\ sock'[op'[d].fd].owner = NoCo
                  /\ sock'[op'[d].fd].link \notin {"closed", "lost"}
                  /\ sock'[op'[d].fd].link = "new" <=> Runs(d, "suspend")'
             ELSE sock'[op'[d].fd].owner = d
  <2>1. Busy(d) /\ d # c /\ op'[d] = op[d]
    BY <1>4, <1>7
  <2>2. IF op[d].kind = "connect"
        THEN /\ sock[op[d].fd].owner = NoCo
             /\ sock[op[d].fd].link \notin {"closed", "lost"}
             /\ sock[op[d].fd].link = "new" <=> Runs(d, "suspend")
        ELSE sock[op[d].fd].owner = d
    BY <1>7, <2>1 DEF IInv, SocksOK
  <2>3. sock'[op[d].fd] = sock[op[d].fd]
    BY <1>2, <1>5, <1>7, <2>1, <2>2, NamesAssumption
  <2> QED
    BY <2>1, <2>2, <2>3
<1>8. SocksOK'
  BY <1>6, <1>7 DEF SocksOK
<1> QED
  BY <1>3, <1>8

-------------------------------------------------------------------------------
(* Every step of AsyncIO keeps IInv *)

\* An operation registers; connects are left to Connections
LEMMA RegistersKeep ==
    ASSUME IInv, NEW c \in Coros, Registers(c), op[c].kind # "connect", UNCHANGED sock
    PROVE  IInv'
<1>1. /\ Runs(c, "suspend") /\ UNCHANGED <<now, batch, left, result, token>>
  BY DEF Registers
<1>2. sock' \in [Socks -> SocketState] /\ control.co = c /\ Busy(c)
  BY <1>1, Unplaced DEF IInv, TypeOK
<1>3. TypeOK' /\ Core'
  BY <1>2, RegistersKeepsCore
<1>4. HoldersStay
  <2>1. op' = op \/ op' = [op EXCEPT ![c].due = now + op[c].delay]
    BY DEF Registers
  <2>2. op[c] \in Operation
    BY <1>2, OperationFacts DEF IInv, Core
  <2>3. op'[c] # Idle /\ op'[c].kind = op[c].kind /\ op'[c].fd = op[c].fd
    BY <1>2, <2>1, <2>2, KindFacts DEF IInv, TypeOK, Operation, Kinds, Reads, Writes, Busy
  <2>4. \A d \in Coros \ {c} : op'[d] = op[d]
    BY <2>1 DEF IInv, TypeOK
  <2>5. Suspend(c) /\ at[c] = "running"
    BY <1>1, Unplaced DEF Registers
  <2>6. /\ \A d \in Coros \ {c} : at'[d] = at[d]
        /\ at'[c] \in {"running", "suspended"}
        /\ control'.co \in {c, NoCo}
    BY <2>5, SuspendControl DEF IInv
  <2> QED
    BY <1>1, <1>2, <2>3, <2>4, <2>6, NamesAssumption DEF HoldersStay, SameBusy, Busy, Runs
<1>5. ConnectionsStay
  BY DEF ConnectionsStay, IInv, SocksOK
<1> QED
  BY <1>3, <1>4, <1>5, SocksKept DEF IInv

\* The awaiters' first halves
LEMMA SuspendsKeep ==
    ASSUME IInv, NEW c \in Coros,
           \/ RecvSuspend(c) \/ RecvTimeoutSuspend(c) \/ RecvSomeSuspend(c)
           \/ SendSuspend(c) \/ SendTimeoutSuspend(c) \/ WaitSuspend(c)
    PROVE  IInv'
<1>1. /\ Runs(c, "suspend") /\ op[c].kind # "connect"
      /\ UNCHANGED <<now, batch, left, result, sock, token>>
  BY DEF RecvSuspend, RecvTimeoutSuspend, RecvSomeSuspend, SendSuspend, SendTimeoutSuspend,
         WaitSuspend
<1>2. sock' \in [Socks -> SocketState] /\ control.co = c /\ Busy(c)
  BY <1>1, Unplaced DEF IInv, TypeOK
<1>3. CASE AlreadyCancelled(c)
  <2>1. TypeOK' /\ Core'
    BY <1>1, <1>3, ResumeAtOnceKeepsCore
  <2>2. op' = op /\ at' = at /\ control' = [control EXCEPT !.at = "resume", !.co = c]
    BY <1>3 DEF AlreadyCancelled, Goto
  <2>3. \A d \in Coros : d # c => ~Runs(d, "suspend") /\ ~Runs(d, "suspend")'
    BY <1>2, <2>2 DEF Runs, IInv, TypeOK, Control
  <2>4. SocksOK'
    BY <1>1, <2>2, <2>3, SocksUntouched
  <2> QED
    BY <2>1, <2>4 DEF IInv
<1>4. CASE Registers(c)
  BY <1>1, <1>4, RegistersKeep
<1>5. AlreadyCancelled(c) \/ Registers(c)
  <2>1. CASE RecvSuspend(c) \/ RecvSomeSuspend(c) \/ SendSuspend(c)
    BY <2>1, PlainRegisters DEF RecvSuspend, SendSuspend
  <2>2. CASE RecvTimeoutSuspend(c) \/ SendTimeoutSuspend(c)
    BY <2>2, TimedRegisters DEF RecvTimeoutSuspend, SendTimeoutSuspend
  <2>3. CASE WaitSuspend(c)
    BY <2>3, WaitRegisters
  <2> QED
    BY <2>1, <2>2, <2>3
<1> QED
  BY <1>3, <1>4, <1>5

\* The operations, and who has ended, after an await_resume
LEMMA WithdrawHolders ==
    ASSUME IInv, NEW c \in Coros, Withdraws(c), op[c].kind # "connect"
    PROVE  HoldersStay
<1>1. /\ Busy(c) /\ control.co = c /\ op[c] \in Operation /\ at' = at
      /\ TypeOK /\ SocksOK
  BY OperationFacts DEF Withdraws, IInv, Core
<1>2. /\ control'.co = c
      /\ \A d \in Coros \ {c} : op'[d] = op[d]
      /\ op'[c] # Idle => op'[c].kind = op[c].kind /\ op'[c].fd = op[c].fd
  BY <1>1, WithdrawControl
<1> QED
  BY <1>1, <1>2 DEF HoldersStay, SameBusy, Busy, Runs

\* ... and their second halves
LEMMA ResumesKeep ==
    ASSUME IInv, NEW c \in Coros,
           \/ RecvResume(c) \/ RecvTimeoutResume(c) \/ RecvSomeResume(c)
           \/ SendResume(c) \/ SendTimeoutResume(c) \/ WaitResume(c)
    PROVE  IInv'
<1>1. Withdraws(c) /\ Transfers
  BY PlainWithdraws, TimeoutEndsWithdraw, WaitWithdraws
<1>2. op[c].kind # "connect"
  BY DEF RecvResume, RecvTimeoutResume, RecvSomeResume, SendResume, SendTimeoutResume,
         WaitResume
<1>3. sock' \in [Socks -> SocketState] /\ ConnectionsStay
  BY <1>1 DEF Transfers, ConnectionsStay
<1>4. TypeOK' /\ Core'
  BY <1>1, <1>3, WithdrawsKeepsCore
<1>5. HoldersStay
  BY <1>1, <1>2, WithdrawHolders
<1> QED
  BY <1>3, <1>4, <1>5, SocksKept DEF IInv

\* cancel_slot::submit, and the end of a with_timeout
LEMMA SlotAndFinalKeep ==
    ASSUME IInv, NEW c \in Coros, CancelSlotSubmit(c) \/ EndWithTimeout(c)
    PROVE  IInv'
<1>1. /\ UNCHANGED <<op, sock>> /\ Yield /\ control.co = c /\ control.at \in {"slot", "final"}
      /\ at' = [at EXCEPT ![c] = "suspended"] \/ at' = [at EXCEPT ![c] = "stranded"]
  BY DEF CancelSlotSubmit, EndWithTimeout, Runs
<1>2. sock' \in [Socks -> SocketState] /\ control'.co = NoCo
  BY <1>1, YieldFacts DEF IInv, TypeOK
<1>3. TypeOK' /\ Core'
  <2>1. CASE CancelSlotSubmit(c)
    BY <2>1, CancelSlotKeepsCore
  <2>2. CASE EndWithTimeout(c)
    <3>1. /\ Runs(c, "final") /\ at' = [at EXCEPT ![c] = "stranded"] /\ Yield
          /\ UNCHANGED <<now, tm, fd_to_op, batch, op, left, result, token>>
      BY <2>2 DEF EndWithTimeout
    <3> QED
      BY <1>2, <3>1, EndKeepsCore
  <2> QED
    BY <2>1, <2>2
<1>4. SocksOK'
  <2>1. \A d \in Coros : at'[d] \in {"done", "threw"} => at[d] \in {"done", "threw"}
    BY <1>1 DEF IInv, TypeOK
  <2>2. \A d \in Coros : ~Runs(d, "suspend") /\ ~Runs(d, "suspend")'
    BY <1>1, <1>2, NamesAssumption DEF Runs
  <2> QED
    BY <1>1, <2>1, <2>2, SocksUntouched
<1> QED
  BY <1>3, <1>4 DEF IInv

\* the coroutine's own code
LEMMA BeginKeeps ==
    ASSUME IInv, NEW c \in Coros, NEW o \in Menu[c], Begin(c, o)
    PROVE  IInv'
<1>1. /\ Runs(c, "user") /\ left[c] > 0 /\ o.kind # "connect" /\ SingleWaiter(c, o)
      /\ left' = [left EXCEPT ![c] = @ - 1] /\ Goto("suspend", c)
      /\ UNCHANGED <<now, tm, fd_to_op, batch, at, result, sock, token>>
  BY DEF Begin
<1>2. PICK fd \in IF o.fd = Own THEN Owned(c) ELSE {o.fd} :
         op' = [op EXCEPT ![c] = Begun(o, fd)]
  BY DEF Begin
<1>3. /\ o \in Await
      /\ o.fd \in Socks \cup {TimerFd, Own}
      /\ o.kind \in Kinds
      /\ o.kind = "wait_for" <=> o.fd = TimerFd
      /\ o.kind \in Reads \cup Writes => o.fd \notin Listeners \cup Unused
      /\ o.kind = "accept" => o.fd \in Listeners
      /\ Unused \subseteq Socks \ Listeners
  BY MenuAssumption DEF Await
<1>4. Owned(c) \subseteq Unused
  BY NamesAssumption DEF Owned, IInv, SocksOK
<1>5. /\ Names(o, fd) /\ fd \in Socks \cup {TimerFd}
      /\ fd \in Unused => sock[fd].owner = c
  <2>1. CASE o.fd = Own
    BY <1>2, <1>3, <1>4, <2>1 DEF Names, Owned
  <2>2. CASE o.fd # Own
    <3>1. fd = o.fd
      BY <1>2, <2>2
    <3>2. fd \notin Unused
      BY <1>1, <1>3, <3>1, NamesAssumption DEF Kinds
    <3> QED
      BY <1>3, <2>2, <3>1, <3>2 DEF Names
  <2> QED
    BY <2>1, <2>2
<1>6. \A d \in Coros \ {c} : Busy(d) /\ op[d].fd = fd /\ fd \in Socks =>
         (op[d].kind \in Ins) # (o.kind \in Ins)
  <2>1. CASE o.fd = Own
    <3>1. fd \in Unused /\ sock[fd].owner = c
      BY <1>2, <1>4, <2>1 DEF Owned
    <3>2. \A d \in Coros : Busy(d) /\ op[d].fd = fd => sock[fd].owner \in {d, NoCo}
      BY <3>1 DEF IInv, SocksOK
    <3> QED
      BY <3>1, <3>2, NamesAssumption
  <2>2. CASE o.fd # Own
    BY <1>1, <1>2, <2>2 DEF SingleWaiter, Busy
  <2> QED
    BY <2>1, <2>2
<1>7. Begins(c, o, fd)
  BY <1>1, <1>2, <1>5, <1>6 DEF Begins
<1>8. TypeOK' /\ Core'
  <2>1. sock' \in [Socks -> SocketState]
    BY <1>1 DEF IInv, TypeOK
  <2> QED
    BY <1>7, <2>1, BeginsKeepsCore
<1>9. SocksOK'
  <2>1. control.co = c /\ ~Busy(c)
    BY <1>1 DEF Runs, IInv, Core, ThreadOK
  <2>2. control' = [control EXCEPT !.at = "suspend", !.co = c]
    BY <1>1 DEF Goto
  <2>3. \A d \in Coros : d # c => ~Runs(d, "suspend") /\ ~Runs(d, "suspend")'
    BY <2>1, <2>2 DEF Runs, IInv, TypeOK, Control
  <2>4. op'[c].kind = o.kind /\ op'[c].fd = fd /\ \A d \in Coros \ {c} : op'[d] = op[d]
    BY <1>2 DEF Begun, IInv, TypeOK
  <2>5. HoldersStay
    BY <1>1, <1>5, <2>1, <2>3, <2>4 DEF HoldersStay, SameBusy, Busy
  <2>6. ConnectionsStay
    BY <1>1 DEF ConnectionsStay, IInv, SocksOK
  <2> QED
    BY <2>5, <2>6, SocksKept DEF IInv
<1> QED
  BY <1>8, <1>9 DEF IInv

\* A coroutine returns, or throws, and its Connection goes with it.
LEMMA EndKeeps ==
    ASSUME IInv, NEW c \in Coros, Runs(c, "user"), NEW how \in {"done", "threw"}, End(c, how)
    PROVE  IInv'
<1>1. /\ at' = [at EXCEPT ![c] = how] /\ Yield
      /\ sock' = [s \in Socks |-> IF s \in Owned(c) THEN Socket("closed", NoCo) ELSE sock[s]]
      /\ UNCHANGED <<now, tm, fd_to_op, batch, op, left, result, token>>
  BY DEF End
<1>2. control.co = c /\ control.at = "user" /\ ~Busy(c) /\ control'.co = NoCo
  BY <1>1, YieldFacts DEF Runs, IInv, Core, ThreadOK, TypeOK
<1>3. \A d \in Coros : /\ d # c => at'[d] = at[d]
                       /\ Runs(d, "suspend")' <=> Runs(d, "suspend")
  BY <1>1, <1>2, NamesAssumption DEF Runs, IInv, TypeOK
<1>4. sock' \in [Socks -> SocketState] /\ SocksOK'
  BY <1>1, <1>2, <1>3, ClosesOwned
<1>5. TypeOK' /\ Core'
  BY <1>1, <1>4, EndKeepsCore
<1> QED
  BY <1>4, <1>5 DEF IInv

\* main() starts a coroutine, or a coroutine requests a cancellation.
LEMMA LaunchAndCancelKeep ==
    ASSUME IInv, NEW c \in Coros, Launch(c) \/ \E t \in Tokens : RequestCancelHere(c, t)
    PROVE  IInv'
<1>1. TypeOK' /\ Core'
  BY LaunchKeepsCore, CancelKeepsCore
<1>2. UNCHANGED <<op, sock>>
  BY DEF Launch, RequestCancelHere
<1>3. CASE Launch(c)
  <2>1. /\ control.at = "main" /\ at' = [at EXCEPT ![c] = "running"] /\ Goto("user", c)
    BY <1>3 DEF Launch
  <2>2. control'.at = "user"
    BY <2>1, GotoFacts DEF Points, IInv, TypeOK
  <2>3. \A d \in Coros : at'[d] \in {"done", "threw"} => at[d] \in {"done", "threw"}
    BY <2>1 DEF IInv, TypeOK
  <2>4. SocksOK'
    BY <1>2, <2>1, <2>2, <2>3, SocksUntouched DEF Runs
  <2> QED
    BY <1>1, <2>4 DEF IInv
<1>4. CASE \E t \in Tokens : RequestCancelHere(c, t)
  <2>1. UNCHANGED <<at, control>>
    BY <1>4 DEF RequestCancelHere
  <2>2. SocksOK'
    BY <1>2, <2>1, SocksUntouched DEF Runs
  <2> QED
    BY <1>1, <2>2 DEF IInv
<1> QED
  BY <1>3, <1>4

\* running()
LEMMA LoopKeeps ==
    ASSUME IInv, EnterRunning \/ Loop
    PROVE  IInv'
<1>1. TypeOK' /\ Core'
  BY RunningKeepsCore, DispatchKeepsCore, PollAndTickKeepCore DEF Loop
<1>2. UNCHANGED <<op, sock>>
  BY DEF EnterRunning, Loop, Poll, Dispatch, CompleteWrite, LeaveRunning
<1>3. /\ \A d \in Coros : at'[d] \in {"done", "threw"} => at[d] \in {"done", "threw"}
      /\ control.at \in {"main", "loop"}
      /\ control'.at \in {"loop", "exit", "resume"}
  <2>1. CASE EnterRunning \/ LeaveRunning \/ Poll
    <3>1. /\ at' = at /\ control.at \in {"main", "loop"}
          /\ \/ control' = [control EXCEPT !.at = "loop", !.running = TRUE]
             \/ control' = [control EXCEPT !.at = "exit", !.co = NoCo]
             \/ control' = control /\ control.at = "loop"
      BY <2>1 DEF EnterRunning, LeaveRunning, Poll, Goto
    <3> QED
      BY <3>1 DEF IInv, TypeOK, Control
  <2>2. ASSUME NEW d, NEW n, Complete(d, n), control.at = "loop"
        PROVE  /\ \A i \in Coros : at'[i] \in {"done", "threw"} => at[i] \in {"done", "threw"}
               /\ control'.at = "resume"
    BY <2>2 DEF Complete, IInv, TypeOK, Control
  <2>3. CASE CompleteWrite
    BY <2>2, <2>3 DEF CompleteWrite
  <2>4. ASSUME NEW e \in batch, Dispatch(e)
        PROVE  control.at = "loop" /\ ((\E d, n : Complete(d, n)) \/ UNCHANGED <<control, at>>)
    BY <2>4 DEF Dispatch
  <2>5. CASE \E e \in batch : Dispatch(e)
    BY <2>2, <2>4, <2>5
  <2> QED
    BY <2>1, <2>3, <2>5 DEF Loop
<1>4. SocksOK'
  BY <1>2, <1>3, SocksUntouched DEF Runs
<1> QED
  BY <1>1, <1>4 DEF IInv

\* Steps the thread takes no part in, and that touch the sockets only
LEMMA OutsideKeeps ==
    ASSUME IInv, UNCHANGED <<now, tm, fd_to_op, batch, control, at, op, left, result, token>>,
           sock' \in [Socks -> SocketState], ConnectionsStay
    PROVE  IInv'
<1>1. TypeOK' /\ Core'
  <2>1. /\ now' \in Nat /\ now' >= now
        /\ batch' \subseteq [fd : Fds, in : BOOLEAN, out : BOOLEAN]
        /\ token' \in [Tokens -> [cancelled : BOOLEAN, eventfd : {"empty", "due", "readable"}]]
        /\ \A t \in Tokens : token[t].cancelled => token'[t].cancelled
    BY DEF IInv, TypeOK
  <2> QED
    BY <2>1, QuietKeepsCore
<1>2. HoldersStay
  BY DEF HoldersStay, SameBusy, Busy, Runs
<1> QED
  BY <1>1, <1>2, SocksKept DEF IInv

\* what the peers of the sockets do
LEMMA PeerKeeps ==
    ASSUME IInv, Peer
    PROVE  IInv'
<1>1. UNCHANGED <<now, tm, fd_to_op, batch, control, at, op, left, result, token>>
  BY DEF Peer
<1>2. PICK s \in Socks : PeerSend(s) \/ PeerDrain(s) \/ PeerShut(s) \/ PeerReset(s)
  BY DEF Peer
<1>3. /\ sock \in [Socks -> SocketState] /\ sock[s] \in SocketState
      /\ sock[s].inbox \in Nat /\ sock[s].sent \in Nat
      /\ sock[s].drained \in Nat /\ sock[s].taken \in Nat
      /\ sock[s].inbox <= sock[s].sent /\ sock[s].taken <= 1 + sock[s].drained
  BY DEF IInv, TypeOK, SocksOK, SocketState
<1>4. /\ sock' \in [Socks -> SocketState] /\ \A z \in Socks \ {s} : sock'[z] = sock[z]
      /\ sock'[s].inbox <= sock'[s].sent /\ sock'[s].taken <= 1 + sock'[s].drained
      /\ sock'[s].owner = sock[s].owner
      /\ \/ sock'[s].link = sock[s].link
         \/ sock[s].link \in {"open", "shut"} /\ sock'[s].link \in {"shut", "reset"}
  <2>1. CASE PeerSend(s)
    <3>1. sock' = [sock EXCEPT ![s].sent = @ + 1, ![s].inbox = @ + 1]
      BY <2>1 DEF PeerSend
    <3>2. sock'[s] = [sock[s] EXCEPT !.sent = @ + 1, !.inbox = @ + 1]
      BY <1>3, <3>1
    <3> DEFINE v == sock[s]
               w == sock'[s]
    <3>3. /\ w = [v EXCEPT !.sent = v.sent + 1, !.inbox = v.inbox + 1]
          /\ v \in SocketState /\ v.sent + 1 \in Nat /\ v.inbox + 1 \in Nat
      BY <1>3, <3>2
    <3> HIDE DEF v, w
    <3>4. /\ w \in SocketState /\ w.inbox = v.inbox + 1 /\ w.sent = v.sent + 1
          /\ w.taken = v.taken /\ w.drained = v.drained /\ w.owner = v.owner /\ w.link = v.link
      <4>1. w = [sent |-> v.sent + 1, inbox |-> v.inbox + 1, drained |-> v.drained,
                 taken |-> v.taken, told |-> v.told, link |-> v.link, owner |-> v.owner]
        BY <3>3 DEF SocketState
      <4> QED
        BY <3>3, <4>1 DEF SocketState
    <3> USE DEF v, w
    <3> QED
      BY <1>3, <3>1, <3>4
  <2>2. CASE PeerDrain(s)
    <3>1. sock' = [sock EXCEPT ![s].drained = @ + 1]
      BY <2>2 DEF PeerDrain
    <3>2. sock'[s] = [sock[s] EXCEPT !.drained = @ + 1]
      BY <1>3, <3>1
    <3>3. sock'[s] \in SocketState
      BY <1>3, <3>2 DEF SocketState
    <3> QED
      BY <1>3, <3>1, <3>2, <3>3 DEF SocketState
  <2>3. CASE PeerShut(s)
    <3>1. sock' = [sock EXCEPT ![s].link = "shut"] /\ sock[s].link = "open"
      BY <2>3 DEF PeerShut
    <3>2. sock'[s] = [sock[s] EXCEPT !.link = "shut"]
      BY <1>3, <3>1
    <3>3. sock'[s] \in SocketState
      BY <1>3, <3>2 DEF SocketState
    <3> QED
      BY <1>3, <3>1, <3>2, <3>3 DEF SocketState
  <2>4. CASE PeerReset(s)
    <3>1. /\ sock' = [sock EXCEPT ![s].link = "reset", ![s].inbox = 0,
                                  ![s].sent = @ - sock[s].inbox]
          /\ sock[s].link \in {"open", "shut"}
      BY <2>4 DEF PeerReset, Established
    <3>2. sock'[s] = [sock[s] EXCEPT !.link = "reset", !.inbox = 0, !.sent = @ - sock[s].inbox]
      BY <1>3, <3>1
    <3> DEFINE v == sock[s]
               w == sock'[s]
    <3>3. /\ w = [v EXCEPT !.link = "reset", !.inbox = 0, !.sent = v.sent - v.inbox]
          /\ v \in SocketState /\ v.sent - v.inbox \in Nat
      BY <1>3, <3>2
    <3> HIDE DEF v, w
    <3>4. /\ w \in SocketState /\ w.inbox = 0 /\ w.sent \in Nat
          /\ w.taken = v.taken /\ w.drained = v.drained /\ w.owner = v.owner /\ w.link = "reset"
      <4>1. w = [sent |-> v.sent - v.inbox, inbox |-> 0, drained |-> v.drained,
                 taken |-> v.taken, told |-> v.told, link |-> "reset", owner |-> v.owner]
        BY <3>3 DEF SocketState
      <4> QED
        BY <3>3, <4>1 DEF SocketState
    <3> USE DEF v, w
    <3> QED
      BY <1>3, <3>1, <3>4
  <2> QED
    BY <1>2, <2>1, <2>2, <2>3, <2>4
<1>5. ConnectionsStay
  BY <1>3, <1>4 DEF ConnectionsStay, IInv, SocksOK
<1> QED
  BY <1>1, <1>4, <1>5, OutsideKeeps

\* time, and the threads that request cancellation
LEMMA TimeAndCancelKeep ==
    ASSUME IInv, Tick \/ \E t \in Tokens : RequestCancel(t) \/ SignalCancel(t)
    PROVE  IInv'
<1>1. TypeOK' /\ Core'
  BY PollAndTickKeepCore, CancelKeepsCore
<1>2. UNCHANGED <<op, sock, at, control>>
  BY DEF Tick, RequestCancel, SignalCancel
<1>3. SocksOK'
  BY <1>2, SocksUntouched DEF Runs
<1> QED
  BY <1>1, <1>3 DEF IInv


-------------------------------------------------------------------------------
(* IInv is an invariant *)

\* At the beginning nothing is registered and nobody waits.
LEMMA InitIInv == Init => IInv
<1> SUFFICES ASSUME Init PROVE IInv
  OBVIOUS
<1>1. /\ \A c \in Coros : at[c] = "created" /\ op[c] = Idle /\ ~Busy(c) /\ result[c] = NoResult
      /\ control.at = "main" /\ control.co = NoCo /\ control.next = NoCo /\ ~control.running
      /\ \A fd \in Fds : fd_to_op[fd].events = {} /\ fd_to_op[fd].read = NoCo
                         /\ fd_to_op[fd].write = NoCo
      /\ tm.cur.op = NoCo /\ \A c \in Coros : tm.active_timer_ids[c] = 0
  BY NewTimerSettled DEF Init, Busy, I!NoEntry, T!NoTask
<1>2. T!Settled(tm) /\ T!Pending(tm) = {} /\ tm \in T!TimerState
  BY <1>1, NewTimerSettled, TimerFacts DEF Init
<1>3. /\ Socks \subseteq Fds /\ Tokens \subseteq Fds /\ TimerFd \in Fds
      /\ NoCo \notin Coros /\ Unused \subseteq Socks \ Listeners /\ MaxOps \in Nat
  BY NamesAssumption, MenuAssumption DEF Fds
<1>4. TypeOK
  <2>1. now \in Nat \ {0} /\ tm \in T!TimerState /\ batch = {}
    BY <1>2 DEF Init
  <2>2. fd_to_op \in [Fds -> I!FdState]
    BY DEF Init, I!NoEntry, I!FdState
  <2>3. control \in Control
    BY DEF Init, Control
  <2>4. /\ at \in [Coros -> {"created", "running", "suspended", "stranded", "done", "threw"}]
        /\ op \in [Coros -> Operation \cup {Idle}]
        /\ left \in [Coros -> 0..MaxOps]
        /\ result \in [Coros -> Result \cup {NoResult}]
    BY <1>3 DEF Init
  <2>5. sock \in [Socks -> SocketState]
    <3>1. \A l \in {"listening", "closed", "open"} : Socket(l, NoCo) \in SocketState
      BY DEF Socket, SocketState
    <3> QED
      BY <3>1 DEF Init
  <2>6. token \in [Tokens -> [cancelled : BOOLEAN, eventfd : {"empty", "due", "readable"}]]
    BY DEF Init
  <2> QED
    BY <2>1, <2>2, <2>3, <2>4, <2>5, <2>6 DEF TypeOK
<1>5. Core
  <2>1. OpsOK /\ OneWaiter
    BY <1>1 DEF OpsOK, OneWaiter
  <2>2. ThreadOK
    BY <1>1, <1>3 DEF ThreadOK
  <2>3. TableOK
    BY <1>1, <1>3 DEF TableOK, Slots
  <2>4. WaitersOK /\ CancelOK
    BY <1>1 DEF WaitersOK, CancelOK, Runs
  <2>5. TimersOK
    BY <1>1, <1>2 DEF TimersOK, Runs
  <2>6. NeverEarly /\ ExitOK
    BY <1>1 DEF NeverEarly, ExitOK, NoResult, Idle
  <2> QED
    BY <2>1, <2>2, <2>3, <2>4, <2>5, <2>6 DEF Core
<1>6. SocksOK
  <2>1. \A s \in Socks :
           /\ sock[s].inbox = 0 /\ sock[s].sent = 0
           /\ sock[s].taken = 0 /\ sock[s].drained = 0
           /\ sock[s].owner = NoCo
           /\ s \notin Unused => sock[s].link \in {"listening", "open"}
           /\ s \in Unused => sock[s].link = "closed"
    BY <1>3 DEF Init, Socket
  <2> QED
    BY <1>1, <2>1 DEF SocksOK
<1> QED
  BY <1>4, <1>5, <1>6 DEF IInv

\* A step of AsyncIO, taken by the thread, by a coroutine's code, by time, a peer
\* or a canceller, or none at all
LEMMA NextKeeps == IInv /\ [Next]_vars => IInv'
<1> SUFFICES ASSUME IInv, [Next]_vars PROVE IInv'
  OBVIOUS
<1>1. CASE EnterRunning \/ Loop
  BY <1>1, LoopKeeps
<1>2. ASSUME NEW c \in Coros, Awaiter(c)
      PROVE  IInv'
  BY <1>2, SuspendsKeep, ResumesKeep, SlotAndFinalKeep DEF Awaiter
<1>3. ASSUME NEW c \in Coros, User(c)
      PROVE  IInv'
  <2>1. CASE Launch(c) \/ \E t \in Tokens : RequestCancelHere(c, t)
    BY <2>1, LaunchAndCancelKeep
  <2>2. CASE Finish(c)
    BY <2>2, EndKeeps DEF Finish
  <2>3. CASE \E o \in Menu[c] : Begin(c, o)
    BY <2>3, BeginKeeps
  <2> QED
    BY <1>3, <2>1, <2>2, <2>3 DEF User
<1>4. CASE Tick \/ \E t \in Tokens : RequestCancel(t) \/ SignalCancel(t)
  BY <1>4, TimeAndCancelKeep
<1>5. CASE Peer
  BY <1>5, PeerKeeps
<1>6. CASE UNCHANGED vars
  <2>1. UNCHANGED <<now, tm, fd_to_op, batch, control, at, op, left, result, token, sock>>
    BY <1>6 DEF vars
  <2>2. sock' \in [Socks -> SocketState] /\ ConnectionsStay
    BY <2>1 DEF IInv, TypeOK, SocksOK, ConnectionsStay
  <2> QED
    BY <2>1, <2>2, OutsideKeeps
<1> QED
  BY <1>1, <1>2, <1>3, <1>4, <1>5, <1>6 DEF Next, Thread

\* IInv holds in every state of the framework.
THEOREM Inductive == Spec => []IInv
<1>1. Init => IInv
  BY InitIInv
<1>2. IInv /\ [Next]_vars => IInv'
  BY NextKeeps
<1> QED
  BY <1>1, <1>2, PTL DEF Spec

-------------------------------------------------------------------------------
(* What IInv says of the table, the timer and the operations *)

\* Who waits is suspended, or its awaiter is on its way in or out.
LEMMA PlacedIsAlive ==
    ASSUME IInv, NEW c \in Coros
    PROVE  /\ Placed(c) => Alive(c)
           /\ Suspended(c) => Busy(c) /\ op[c] \in Operation
           /\ control.at = "loop" /\ Placed(c) => Suspended(c)
<1>1. Busy(c) <=> \/ at[c] = "suspended"
                  \/ control.co = c /\ control.at \in {"suspend", "slot", "resume"}
  BY DEF IInv, Core, ThreadOK
<1>2. Busy(c) => op[c] \in Operation
  BY OperationFacts DEF IInv, Core
<1> QED
  BY <1>1, <1>2 DEF Placed, Alive, Suspended, Runs

\* An entry of the table belongs to an operation.
LEMMA EntriesPlaced ==
    ASSUME IInv, NEW fd \in Fds
    PROVE  /\ fd_to_op[fd].read # NoCo =>
                LET c == fd_to_op[fd].read
                IN  /\ c \in Coros /\ Placed(c)
                    /\ \/ op[c].fd = fd /\ op[c].kind \notin Outs
                       \/ op[c].token = fd
                       \/ op[c].kind \in Timed /\ fd = TimerFd
           /\ fd_to_op[fd].write # NoCo =>
                LET c == fd_to_op[fd].write
                IN  c \in Coros /\ Placed(c) /\ op[c].fd = fd /\ op[c].kind \in Outs
           /\ Slots(fd_to_op, fd)
<1>1. /\ fd_to_op[fd].read \in Coros \cup {NoCo} /\ fd_to_op[fd].write \in Coros \cup {NoCo}
      /\ Slots(fd_to_op, fd)
  BY DEF IInv, TypeOK, I!FdState, Core, TableOK
<1>2. CASE fd \in Socks
  BY <1>1, <1>2, KindFacts DEF IInv, Core, TableOK
<1>3. CASE fd \in Tokens
  BY <1>1, <1>3 DEF IInv, Core, TableOK
<1>4. CASE fd = TimerFd
  <2>1. /\ fd_to_op[fd].read = tm.cur.op /\ fd_to_op[fd].write = NoCo
        /\ T!Settled(tm)
    BY <1>4 DEF IInv, Core, TableOK, TimersOK
  <2>2. tm.cur.op # NoCo => /\ tm.cur.op \in Coros
                            /\ tm.active_timer_ids[tm.cur.op] # 0
    BY <2>1, TimerFacts
  <2> QED
    BY <1>1, <1>4, <2>1, <2>2 DEF IInv, Core, TimersOK
<1> QED
  BY <1>2, <1>3, <1>4 DEF Fds

\* A suspended operation is in the table for its socket and in the timer for its delay.
LEMMA SuspendedRegistered ==
    ASSUME IInv, NEW c \in Coros, Suspended(c)
    PROVE  /\ op[c].kind \in Ins => /\ op[c].fd \in Socks /\ fd_to_op[op[c].fd].read = c
                                    /\ "IN" \in fd_to_op[op[c].fd].events
           /\ op[c].kind \in Outs => /\ op[c].fd \in Socks /\ fd_to_op[op[c].fd].write = c
                                     /\ "OUT" \in fd_to_op[op[c].fd].events
           /\ op[c].kind \in Timed => /\ tm.cur.op # NoCo
                                      /\ \E x \in T!Pending(tm) : x.op = c /\ x.tp = op[c].due
           /\ op[c].kind \in Ins \cup Outs \cup Timed
<1>1. Busy(c) /\ op[c] \in Operation
  BY PlacedIsAlive
<1>2. /\ op[c].kind \in Ins => fd_to_op[op[c].fd].read = c
      /\ op[c].kind \in Outs => fd_to_op[op[c].fd].write = c
      /\ op[c].kind \in Timed => tm.active_timer_ids[c] # 0
      /\ T!Settled(tm) /\ \A x \in T!Pending(tm) : op[x.op].due = x.tp
      /\ \A fd \in Fds : Slots(fd_to_op, fd)
  BY DEF Suspended, IInv, Core, WaitersOK, TimersOK, TableOK
<1>3. /\ op[c].kind \in Ins \cup Outs => op[c].fd \in Socks
      /\ op[c].kind \in Ins \cup Outs \cup Timed
  BY <1>1, OperationFacts, KindFacts DEF Operation, Kinds, Ins, Outs, Timed, IInv, Core
<1>4. tm.active_timer_ids[c] # 0 => tm.cur.op # NoCo /\ \E x \in T!Pending(tm) : x.op = c
  BY <1>2, TimerFacts
<1> QED
  BY <1>1, <1>2, <1>3, <1>4, NamesAssumption DEF Slots, Fds

-------------------------------------------------------------------------------
(* IInv implies the properties *)

\* Whoever is in the table is in an operation that has registered.
LEMMA ImpliesSlotsLive == IInv => SlotsLive
<1> SUFFICES ASSUME IInv PROVE SlotsLive
  OBVIOUS
<1>1. ASSUME NEW fd \in Fds
      PROVE  LET e == fd_to_op[fd]
             IN  /\ ("IN" \in e.events) <=> (e.read # NoCo)
                 /\ ("OUT" \in e.events) <=> (e.write # NoCo)
                 /\ e.read # NoCo => /\ Alive(e.read)
                                     /\ \/ op[e.read].fd = fd /\ op[e.read].kind \notin Outs
                                        \/ op[e.read].token = fd
                                        \/ op[e.read].kind \in Timed /\ fd = TimerFd
                 /\ e.write # NoCo => /\ Alive(e.write)
                                      /\ op[e.write].fd = fd /\ op[e.write].kind \in Outs
  BY EntriesPlaced, PlacedIsAlive DEF Slots
<1>2. control.next # NoCo => Suspended(control.next) /\ op[control.next].kind \in Outs
  BY DEF IInv, Core, ThreadOK, Suspended
<1> QED
  BY <1>1, <1>2 DEF SlotsLive

\* Whoever waits is in the table, and its timer runs.
LEMMA ImpliesNoOrphan == IInv /\ PrivateTokens => NoOrphan
<1> SUFFICES ASSUME IInv, PrivateTokens, NEW c \in Coros, Suspended(c)
             PROVE  Watched(c)
  BY DEF NoOrphan
<1>1. op[c].token # NoToken /\ ~Cancelled(c) => fd_to_op[op[c].token].read = c
  BY DEF Suspended, IInv, Core, CancelOK
<1> QED
  BY <1>1, SuspendedRegistered DEF Watched

\* The table is empty when nobody waits.
LEMMA ImpliesRunsWhileNeeded == IInv => RunsWhileNeeded
<1> SUFFICES ASSUME IInv, control.at = "loop"
             PROVE  I!Empty(fd_to_op) <=> \A c \in Coros : ~Suspended(c)
  BY DEF RunsWhileNeeded
<1>1. DOMAIN fd_to_op = Fds /\ \A fd \in Fds : fd_to_op[fd].events \subseteq {"IN", "OUT", "ET"}
  BY DEF IInv, TypeOK, I!FdState
<1>2. ASSUME I!Empty(fd_to_op), NEW c \in Coros, Suspended(c)
      PROVE  FALSE
  <2>1. \A fd \in Fds : "IN" \notin fd_to_op[fd].events /\ "OUT" \notin fd_to_op[fd].events
    BY <1>1, <1>2 DEF I!Empty, I!Registered
  <2>2. op[c].kind \in Timed /\ tm.cur.op # NoCo
    BY <1>2, <2>1, SuspendedRegistered DEF Fds
  <2>3. fd_to_op[TimerFd].read # NoCo
    BY <2>2 DEF IInv, Core, TableOK
  <2> QED
    BY <2>1, <2>3, EntriesPlaced DEF Slots, Fds
<1>3. ASSUME \A c \in Coros : ~Suspended(c), NEW fd \in Fds
      PROVE  ~I!Registered(fd_to_op, fd)
  <2>1. fd_to_op[fd].read = NoCo /\ fd_to_op[fd].write = NoCo
    BY <1>3, EntriesPlaced, PlacedIsAlive
  <2> QED
    BY <1>1, <2>1, EntriesPlaced DEF Slots, I!Registered
<1> QED
  BY <1>1, <1>2, <1>3 DEF I!Empty

\* Without operations there is no timer.
LEMMA ImpliesLeavesTimerClean == IInv => LeavesTimerClean
<1> SUFFICES ASSUME IInv, control.at = "exit"
             PROVE  T!Pending(tm) = {} /\ tm.alarm = 0
  BY DEF LeavesTimerClean
<1>1. I!Empty(fd_to_op) /\ TimerFd \in Fds /\ DOMAIN fd_to_op = Fds /\ T!Settled(tm)
  BY DEF IInv, TypeOK, Core, ExitOK, TimersOK, Fds
<1>2. fd_to_op[TimerFd].read = NoCo
  BY <1>1, EntriesPlaced DEF I!Empty, I!Registered, Slots
<1>3. tm.cur.op = NoCo
  BY <1>2 DEF IInv, Core, TableOK
<1> QED
  BY <1>1, <1>3, TimerFacts

\* The state is always of the declared type: so no operation moves more bytes
\* than fit, and no handle is resumed that is not a coroutine's.
THEOREM TypeCorrect == Spec => []TypeOK
<1>1. IInv => TypeOK
  BY DEF IInv
<1> QED
  BY <1>1, Inductive, PTL

\* Whatever the loop dequeues, and the write_op it holds across the completion of
\* a read_op (scheduler.h), belongs to an awaiter that is alive.
THEOREM NoDanglingSlot == Spec => []SlotsLive
<1>1. IInv => SlotsLive
  BY ImpliesSlotsLive
<1> QED
  BY <1>1, Inductive, PTL

\* With a token per operation, what waits is woken: its socket, its timer and its
\* token all lead to it.
THEOREM NobodyOrphaned ==
    ASSUME PrivateTokens
    PROVE  Spec => []NoOrphan
<1>1. IInv => NoOrphan
  BY ImpliesNoOrphan
<1> QED
  BY <1>1, Inductive, PTL

\* running() returns when nothing is suspended, and no sooner.
THEOREM LoopRunsWhileNeeded == Spec => []RunsWhileNeeded
<1>1. IInv => RunsWhileNeeded
  BY ImpliesRunsWhileNeeded
<1> QED
  BY <1>1, Inductive, PTL

\* No operation times out, and no wait_for returns, before it is due.
THEOREM NoEarlyTimeout == Spec => []NeverEarly
<1>1. IInv => NeverEarly
  BY DEF IInv, Core
<1> QED
  BY <1>1, Inductive, PTL

\* The TimerEvent singleton outlives running() without a task or an alarm.
THEOREM TimerLeftClean == Spec => []LeavesTimerClean
<1>1. IInv => LeavesTimerClean
  BY ImpliesLeavesTimerClean
<1> QED
  BY <1>1, Inductive, PTL

-------------------------------------------------------------------------------
(* The timer of the framework is TimerEvent: with op and tm read as AsyncIO's   *)
(* TE reads them, every step is a step of TimerEvent or leaves it alone.        *)

\* TimerEvent's operators are those of TimerTasks.
LEMMA SameTimer ==
    /\ TE!NewTimerEvent = T!NewTimerEvent
    /\ \A t : /\ TE!RefreshCurrentTimer(t) = T!RefreshCurrentTimer(t)
              /\ TE!Advance(t) = T!Advance(t)
              /\ TE!Consume(t) = T!Consume(t)
              /\ \A p : /\ TE!Cancel(t, p) = T!Cancel(t, p)
                        /\ TE!IsCurrent(t, p) <=> T!IsCurrent(t, p)
              /\ \A p, tp : TE!SetTimer(t, p, tp) = T!SetTimer(t, p, tp)
              /\ \A n : /\ TE!GetTimer(t, n) = T!GetTimer(t, n)
                        /\ TE!TimerFdReadable(t, n) <=> T!TimerFdReadable(t, n)
BY DEF T!NewTimerEvent, TE!NewTimerEvent, T!SetTimer, TE!SetTimer, T!SetTimerOn, TE!SetTimerOn,
       T!RefreshCurrentTimer, TE!RefreshCurrentTimer, T!Advance, TE!Advance,
       T!ActivateNextTimer, TE!ActivateNextTimer, T!LiveTasks, TE!LiveTasks,
       T!PopAll, TE!PopAll, T!PopUntil, TE!PopUntil, T!Dead, TE!Dead,
       T!Earliest, TE!Earliest, T!Ids, TE!Ids, T!ForgetActive, TE!ForgetActive,
       T!NoTask, TE!NoTask, T!Cancel, TE!Cancel, T!Consume, TE!Consume,
       T!IsCurrent, TE!IsCurrent, T!GetTimer, TE!GetTimer,
       T!TimerFdReadable, TE!TimerFdReadable

\* c's timer as TimerEvent sees it, who is resumed, and who is registered
LEMMA TimerView ==
    ASSUME IInv
    PROVE  /\ TimerUse \in [Coros -> {"no", "wait", "timeout"}]
           /\ \A c \in Coros :
                 /\ TimerUse[c] = "no" <=> tm.active_timer_ids[c] = 0
                 /\ TimerUse[c] = "wait" <=> tm.active_timer_ids[c] # 0 /\ op[c].kind = "wait_for"
                 /\ TimerUse[c] = "timeout" <=> tm.active_timer_ids[c] # 0 /\ op[c].kind # "wait_for"
           /\ control.at # "resume" => TimerResuming = NoCo
           /\ \A c \in Coros : control.at = "resume" /\ control.co = c =>
                 TimerResuming = IF tm.active_timer_ids[c] # 0 THEN c ELSE NoCo
           /\ fd_to_op[TimerFd].read = tm.cur.op
BY DEF TimerUse, TimerResuming, IInv, Core, TableOK

\* A step that leaves timers, time and batch alone is not one of TimerEvent.
LEMMA NoTimerStep ==
    ASSUME IInv, IInv', UNCHANGED <<now, tm, batch>>,
           \A c \in Coros : tm.active_timer_ids[c] # 0 => op'[c].kind = op[c].kind,
           \/ UNCHANGED control
           \/ /\ control.at = "resume" => tm.active_timer_ids[control.co] = 0
              /\ control'.at = "resume" => tm.active_timer_ids[control'.co] = 0
    PROVE  UNCHANGED TE!vars
<1>1. fd_to_op'[TimerFd].read = fd_to_op[TimerFd].read
  BY DEF IInv, Core, TableOK
<1>2. TimerUse' = TimerUse
  BY DEF TimerUse
<1>3. TimerReported' = TimerReported
  BY DEF TimerReported
<1>4. TimerResuming' = TimerResuming
  BY DEF TimerResuming
<1> QED
  BY <1>1, <1>2, <1>3, <1>4 DEF TE!vars

\* refresh_timer_registration, given that the table follows the timer afterwards
LEMMA RefreshSeen ==
    ASSUME IInv', NEW t, NEW table, RefreshTimerRegistration(t, table)
    PROVE  TE!RefreshTimerRegistration(t)
<1>1. tm' \in T!RefreshCurrentTimer(t)
  BY DEF RefreshTimerRegistration
<1>2. fd_to_op'[TimerFd].read = tm'.cur.op
  BY DEF IInv, Core, TableOK
<1> QED
  BY <1>1, <1>2, SameTimer DEF TE!RefreshTimerRegistration

-------------------------------------------------------------------------------
(* Each step as a step of TimerEvent *)

\* An operation that no timer knows is the caller's first half, or its own code.
LEMMA PlainSuspendsUnseen ==
    ASSUME IInv, IInv', NEW c \in Coros, Runs(c, "suspend"),
           UNCHANGED <<now, tm, batch>>, \A d \in Coros \ {c} : op'[d] = op[d],
           control'.at = "resume" => control'.co = c
    PROVE  UNCHANGED TE!vars
<1>1. tm.active_timer_ids[c] = 0 /\ control.at = "suspend"
  BY Unplaced DEF Runs
<1> QED
  BY <1>1, NoTimerStep

\* await_suspend with a timeout, and wait_for's
LEMMA TimerStarted ==
    ASSUME IInv, IInv', NEW c \in Coros, Registers(c), op[c].kind \in Timed,
           \/ /\ op[c].kind = "wait_for"
              /\ tm' \in T!SetTimer(tm, c, now + op[c].delay)
           \/ /\ op[c].kind # "wait_for"
              /\ \E t \in T!SetTimer(tm, c, now + op[c].delay) :
                    \E table : RefreshTimerRegistration(t, table)
    PROVE  \E d \in {o.delay : o \in UNION {Menu[p] : p \in Coros}} :
              TE!StartWait(c, d) \/ TE!StartTimeout(c, d)
<1> DEFINE d == op[c].delay
<1>1. /\ Busy(c) /\ Runs(c, "suspend") /\ control.at = "suspend" /\ control.co = c
      /\ tm.active_timer_ids[c] = 0 /\ at[c] = "running"
  BY Unplaced DEF Registers, Runs
<1>2. PICK o \in Menu[c] : d = o.delay
  BY <1>1 DEF IInv, Core, OpsOK
<1>3. d \in {x.delay : x \in UNION {Menu[p] : p \in Coros}}
  BY <1>2
<1>4. /\ UNCHANGED <<now, batch>> /\ Suspend(c)
      /\ op' = [op EXCEPT ![c].due = now + d] /\ TimerAdded(tm, tm', c, now + d)
  BY DEF Registers
<1>5. op[c] \in Operation /\ op'[c].kind = op[c].kind
      /\ \A p \in Coros \ {c} : op'[p] = op[p]
  BY <1>1, <1>4, OperationFacts DEF IInv, Core, TypeOK, Operation
<1>6. /\ control'.at # "resume"
  BY <1>1, <1>4, SuspendControl DEF IInv, Core, ThreadOK, TypeOK
<1>7. TimerReported' = TimerReported /\ TimerResuming = NoCo /\ TimerResuming' = NoCo
  BY <1>1, <1>4, <1>6 DEF TimerReported, TimerResuming
<1>8. /\ tm'.active_timer_ids[c] # 0
      /\ \A p \in Coros \ {c} : tm'.active_timer_ids[p] = tm.active_timer_ids[p]
      /\ tm.active_timer_ids \in [Coros -> Nat]
  BY <1>4, TimerFacts DEF TimerAdded, IInv, Core, TimersOK
<1>9. /\ TimerUse[c] = "no"
      /\ TimerUse' = [TimerUse EXCEPT ![c] = IF op[c].kind = "wait_for" THEN "wait" ELSE "timeout"]
  BY <1>1, <1>5, <1>8 DEF TimerUse
<1>10. fd_to_op'[TimerFd].read = tm'.cur.op
  BY DEF IInv, Core, TableOK
<1>11. \A n : TE!Within(n, 0)
  BY DEF TE!Within
<1> HIDE DEF d
<1>12. CASE op[c].kind = "wait_for"
  <2>1. tm' \in TE!SetTimer(tm, c, now + d)
    BY <1>12, SameTimer DEF d
  <2>2. TE!StartWait(c, d)
    BY <1>4, <1>7, <1>9, <1>10, <1>11, <1>12, <2>1 DEF TE!StartWait
  <2> QED
    BY <1>3, <2>2
<1>13. CASE op[c].kind # "wait_for"
  <2>1. PICK t \in T!SetTimer(tm, c, now + d) : \E table : RefreshTimerRegistration(t, table)
    BY <1>13 DEF d
  <2>2. t \in TE!SetTimer(tm, c, now + d) /\ TE!RefreshTimerRegistration(t)
    BY <2>1, SameTimer, RefreshSeen
  <2>3. TE!StartTimeout(c, d)
    BY <1>4, <1>7, <1>9, <1>11, <1>13, <2>2 DEF TE!StartTimeout
  <2> QED
    BY <1>3, <2>3
<1> QED
  BY <1>12, <1>13

\* the step is one of TimerEvent or leaves its variables alone
Seen == TE!Next \/ UNCHANGED TE!vars

\* the timer's side of every await_suspend
LEMMA SuspendsSeen ==
    ASSUME IInv, IInv', NEW c \in Coros,
           \/ RecvSuspend(c) \/ RecvTimeoutSuspend(c) \/ RecvSomeSuspend(c)
           \/ SendSuspend(c) \/ SendTimeoutSuspend(c) \/ WaitSuspend(c)
    PROVE  Seen
<1>1. /\ Runs(c, "suspend") /\ UNCHANGED <<now, batch>>
      /\ op[c] \in Operation /\ control.co = c
  BY Unplaced, OperationFacts
     DEF RecvSuspend, RecvTimeoutSuspend, RecvSomeSuspend, SendSuspend, SendTimeoutSuspend,
         WaitSuspend, IInv, Core
<1>2. CASE AlreadyCancelled(c)
  <2>1. UNCHANGED <<tm, op>> /\ control' = [control EXCEPT !.at = "resume", !.co = c]
    BY <1>2 DEF AlreadyCancelled, Goto
  <2>2. control'.co = c
    BY <2>1 DEF IInv, TypeOK, Control
  <2> QED
    BY <1>1, <2>1, <2>2, PlainSuspendsUnseen DEF Seen
<1>3. CASE ~AlreadyCancelled(c) /\ (RecvSuspend(c) \/ RecvSomeSuspend(c) \/ SendSuspend(c))
  <2>1. UNCHANGED <<tm, op>> /\ Suspend(c)
    BY <1>3 DEF RecvSuspend, RecvSomeSuspend, SendSuspend
  <2>2. control'.at # "resume"
    BY <1>1, <2>1, SuspendControl, Unplaced DEF IInv, Core, ThreadOK, TypeOK
  <2> QED
    BY <1>1, <2>1, <2>2, PlainSuspendsUnseen DEF Seen
<1>4. ASSUME op[c].kind \in Timed, Registers(c),
             \/ /\ op[c].kind = "wait_for"
                /\ tm' \in T!SetTimer(tm, c, now + op[c].delay)
             \/ /\ op[c].kind # "wait_for"
                /\ \E t \in T!SetTimer(tm, c, now + op[c].delay) :
                      \E table : RefreshTimerRegistration(t, table)
      PROVE  Seen
  BY <1>4, TimerStarted DEF Seen, TE!Next
<1>5. CASE ~AlreadyCancelled(c) /\ (RecvTimeoutSuspend(c) \/ SendTimeoutSuspend(c))
  <2>1. /\ op[c].kind \in {"read_timeout", "write_timeout"}
        /\ \E table : StartTimeout(c, table)
        /\ ~Cancelled(c)
    BY <1>5 DEF RecvTimeoutSuspend, SendTimeoutSuspend
  <2>2. \E t \in T!SetTimer(tm, c, now + op[c].delay) : \E table : RefreshTimerRegistration(t, table)
    BY <2>1 DEF StartTimeout
  <2>3. Registers(c)
    BY <1>5, <2>1, TimedRegisters
  <2> QED
    BY <1>4, <2>1, <2>2, <2>3, KindFacts
<1>6. CASE WaitSuspend(c)
  <2>1. op[c].kind = "wait_for" /\ tm' \in T!SetTimer(tm, c, now + op[c].delay)
    BY <1>6 DEF WaitSuspend
  <2> QED
    BY <1>4, <1>6, <2>1, WaitRegisters, KindFacts
<1> QED
  BY <1>2, <1>3, <1>5, <1>6

\* cancel_slot::submit, the end of a with_timeout, and a coroutine's own code
LEMMA OwnCodeUnseen ==
    ASSUME IInv, IInv', NEW c \in Coros, control.co = c, control.at \in {"slot", "final", "user"},
           UNCHANGED <<now, tm, batch>>, \A d \in Coros \ {c} : op'[d] = op[d],
           op' = op \/ control.at = "user",
           control'.at # "resume"
    PROVE  UNCHANGED TE!vars
<1>1. control.at = "user" => tm.active_timer_ids[c] = 0
  BY DEF IInv, Core, ThreadOK, TimersOK, Placed
<1> QED
  BY <1>1, NoTimerStep

\* c has given up its timer, and takes no part in the timer any more.
LEMMA TimerEnded ==
    ASSUME IInv, IInv', NEW c \in Coros, Withdraws(c), Runs(c, "resume"),
           tm.active_timer_ids[c] # 0
    PROVE  /\ TimerResuming = c /\ TimerResuming' = NoCo
           /\ TimerUse' = [TimerUse EXCEPT ![c] = "no"]
           /\ UNCHANGED <<now, TimerReported>>
<1>1. /\ Busy(c) /\ op[c] \in Operation /\ op[c].kind \in Timed /\ TypeOK
      /\ UNCHANGED <<now, batch>>
  BY OperationFacts DEF Withdraws, IInv, Core, TimersOK
<1>2. TimerDropped(tm, tm', c)
  BY <1>1 DEF Withdraws
<1>3. /\ tm'.active_timer_ids[c] = 0
      /\ \A p \in Coros \ {c} : tm'.active_timer_ids[p] = tm.active_timer_ids[p]
  BY <1>2, TimerFacts DEF TimerDropped, IInv, Core, TimersOK
<1>4. control'.at # "resume" /\ \A p \in Coros \ {c} : op'[p] = op[p]
  BY <1>1, WithdrawControl
<1>5. TimerUse' = [TimerUse EXCEPT ![c] = "no"]
  BY <1>3, <1>4 DEF TimerUse
<1> QED
  BY <1>1, <1>4, <1>5 DEF TimerResuming, TimerReported, Runs

\* await_resume with a timeout: timed out, or the timer is withdrawn
LEMMA TimeoutSeen ==
    ASSUME IInv, IInv', NEW c \in Coros, RecvTimeoutResume(c) \/ SendTimeoutResume(c)
    PROVE  Seen
<1>1. /\ Runs(c, "resume") /\ Withdraws(c) /\ control.co = c
      /\ op[c].kind \in {"read_timeout", "write_timeout"}
      /\ UNCHANGED <<now, batch>>
      /\ Busy(c) /\ op[c] \in Operation /\ T!Settled(tm)
  BY TimeoutEndsWithdraw, OperationFacts
     DEF RecvTimeoutResume, SendTimeoutResume, Runs, Withdraws, IInv, Core, TimersOK
<1>2. \/ Cancelled(c) /\ \E table : RefreshTimerRegistration(T!Cancel(tm, c), table)
      \/ TimedOut(c) /\ \E table : RefreshTimerRegistration(T!Cancel(T!Consume(tm), c), table)
      \/ ~Cancelled(c) /\ \E table : RefreshTimerRegistration(T!Cancel(tm, c), table)
  BY DEF RecvTimeoutResume, SendTimeoutResume
<1>3. CASE tm.active_timer_ids[c] # 0
  <2>1. /\ TimerResuming = c /\ TimerResuming' = NoCo
        /\ TimerUse' = [TimerUse EXCEPT ![c] = "no"]
        /\ UNCHANGED <<now, TimerReported>>
    BY <1>1, <1>3, TimerEnded
  <2>2. TimerUse[c] = "timeout"
    BY <1>1, <1>3 DEF TimerUse
  <2>3. CASE \E table : RefreshTimerRegistration(T!Cancel(tm, c), table)
    <3>1. TE!RefreshTimerRegistration(TE!Cancel(tm, c))
      BY <2>3, RefreshSeen, SameTimer
    <3>2. TE!Withdraw(c)
      BY <2>1, <2>2, <3>1 DEF TE!Withdraw
    <3> QED
      BY <3>2 DEF Seen, TE!Next, TE!Resume
  <2>4. CASE TimedOut(c) /\ \E table : RefreshTimerRegistration(T!Cancel(T!Consume(tm), c), table)
    <3>1. TE!RefreshTimerRegistration(TE!Cancel(TE!Consume(tm), c))
      BY <2>4, RefreshSeen, SameTimer
    <3>2. TE!IsCurrent(tm, c) /\ TE!GetTimer(tm, now) = 0
      BY <2>4, SameTimer DEF TimedOut
    <3>3. TE!TimeOut(c)
      BY <2>1, <2>2, <3>1, <3>2 DEF TE!TimeOut
    <3> QED
      BY <3>3 DEF Seen, TE!Next, TE!Resume
  <2> QED
    BY <1>2, <2>3, <2>4
<1>4. CASE tm.active_timer_ids[c] = 0
  <2>1. Cancelled(c) /\ tm.cur.op # c
    <3>1. op[c].kind \in Timed => tm.active_timer_ids[c] # 0 \/ Cancelled(c)
      BY <1>1 DEF IInv, Core, TimersOK
    <3>2. tm.cur.op = c => tm.active_timer_ids[c] # 0
      BY <1>1, TimerFacts, NamesAssumption
    <3> QED
      BY <1>1, <1>4, <3>1, <3>2, KindFacts
  <2>2. ~TimedOut(c) /\ T!Cancel(tm, c) = tm
    BY <1>4, <2>1 DEF TimedOut, T!IsCurrent, T!Cancel
  <2>3. tm' \in T!RefreshCurrentTimer(tm)
    BY <1>2, <2>2 DEF RefreshTimerRegistration
  <2>4. tm' = tm
    BY <1>1, <2>3, RefreshIdle
  <2>5. control'.at # "resume" /\ \A p \in Coros \ {c} : op'[p] = op[p]
    BY <1>1, WithdrawControl DEF IInv
  <2> QED
    BY <1>1, <1>4, <2>4, <2>5, NoTimerStep DEF Seen
<1> QED
  BY <1>3, <1>4

\* wait_for's await_resume
LEMMA WaitSeen ==
    ASSUME IInv, IInv', NEW c \in Coros, WaitResume(c)
    PROVE  Seen
<1>1. /\ Runs(c, "resume") /\ Withdraws(c) /\ control.co = c /\ op[c].kind = "wait_for"
      /\ T!TimerFdReadable(tm, now)
      /\ tm.cur.op = c /\ T!Settled(tm)
  BY WaitWithdraws, KindFacts DEF WaitResume, Runs, IInv, Core, TimersOK
<1>2. PICK t \in T!Advance(T!Consume(tm)) : RefreshTimerRegistration(t, fd_to_op)
  BY DEF WaitResume
<1>3. tm.active_timer_ids[c] # 0
  BY <1>1, TimerFacts, NamesAssumption
<1>4. /\ TimerResuming = c /\ TimerResuming' = NoCo
      /\ TimerUse' = [TimerUse EXCEPT ![c] = "no"]
      /\ UNCHANGED <<now, TimerReported>>
  BY <1>1, <1>3, TimerEnded
<1>5. TimerUse[c] = "wait"
  BY <1>1, <1>3 DEF TimerUse
<1>6. t \in TE!Advance(TE!Consume(tm)) /\ TE!RefreshTimerRegistration(t)
  BY <1>2, RefreshSeen, SameTimer
<1>7. TE!FinishWait(c)
  BY <1>1, <1>4, <1>5, <1>6, SameTimer DEF TE!FinishWait
<1> QED
  BY <1>7 DEF Seen, TE!Next, TE!Resume

\* await_resume without a timer
LEMMA PlainResumesUnseen ==
    ASSUME IInv, IInv', NEW c \in Coros, Runs(c, "resume"), op[c].kind \notin Timed, Withdraws(c)
    PROVE  UNCHANGED TE!vars
<1>1. /\ Busy(c) /\ op[c] \in Operation /\ tm.active_timer_ids[c] = 0
      /\ UNCHANGED <<now, tm, batch>> /\ control.co = c
  BY OperationFacts DEF Withdraws, IInv, Core, TimersOK
<1>2. control'.at # "resume" /\ \A p \in Coros \ {c} : op'[p] = op[p]
  BY <1>1, WithdrawControl DEF IInv
<1> QED
  BY <1>1, <1>2, NoTimerStep

-------------------------------------------------------------------------------
(* The batch *)

\* One event per descriptor, and of the timerfd that it is readable: it is in the
\* table for reading only, and when it is due.
LEMMA ReadyOnce ==
    ASSUME IInv
    PROVE  /\ \A e, f \in ReadyEvents : e.fd = f.fd => e = f
           /\ \A e \in ReadyEvents : e.fd = TimerFd =>
                 /\ e.in /\ ~e.out
                 /\ fd_to_op[TimerFd].read # NoCo /\ T!TimerFdReadable(tm, now)
<1> DEFINE i(fd) == BrokenFd(fd) \/ ("IN" \in fd_to_op[fd].events /\ InReady(fd))
           o(fd) == BrokenFd(fd) \/ ("OUT" \in fd_to_op[fd].events /\ OutReady(fd))
<1>1. \A e \in ReadyEvents :
         /\ \E fd \in Fds : e = [fd |-> fd, in |-> i(fd), out |-> o(fd)]
         /\ e.in \/ e.out
  BY DEF ReadyEvents
<1>2. ~BrokenFd(TimerFd) /\ ~OutReady(TimerFd)
  BY NamesAssumption DEF BrokenFd, OutReady
<1>3. InReady(TimerFd) <=> T!TimerFdReadable(tm, now)
  BY DEF InReady
<1>4. "IN" \in fd_to_op[TimerFd].events <=> fd_to_op[TimerFd].read # NoCo
  BY DEF IInv, Core, TableOK, Slots, Fds
<1>5. /\ ~o(TimerFd)
      /\ i(TimerFd) => fd_to_op[TimerFd].read # NoCo /\ T!TimerFdReadable(tm, now)
  BY <1>2, <1>3, <1>4
<1> HIDE DEF i, o
<1>6. \A e \in ReadyEvents : e = [fd |-> e.fd, in |-> i(e.fd), out |-> o(e.fd)]
  BY <1>1
<1>7. ASSUME NEW e \in ReadyEvents, e.fd = TimerFd
      PROVE  /\ e.in /\ ~e.out
             /\ fd_to_op[TimerFd].read # NoCo /\ T!TimerFdReadable(tm, now)
  <2>1. e.in = i(TimerFd) /\ e.out = o(TimerFd)
    BY <1>6, <1>7
  <2> QED
    BY <1>1, <1>5, <2>1
<1> QED
  BY <1>6, <1>7

\* Only epoll_wait adds to the batch.
LEMMA BatchKept ==
    ASSUME BatchOK, IInv, batch' \subseteq batch \/ Poll
    PROVE  BatchOK'
<1>1. Poll => batch' \subseteq ReadyEvents
  BY DEF Poll, kSubset
<1> QED
  BY <1>1, ReadyOnce DEF BatchOK

\* epoll_wait may report the timerfd.
LEMMA PollSeen ==
    ASSUME IInv, Poll
    PROVE  Seen
<1>1. /\ control.at = "loop" /\ batch = {} /\ batch' \subseteq ReadyEvents
      /\ UNCHANGED <<now, tm, fd_to_op, control, op>>
  BY DEF Poll, kSubset
<1>2. /\ ~TimerReported /\ TimerResuming = NoCo /\ TimerResuming' = NoCo
      /\ TimerUse' = TimerUse
  BY <1>1 DEF TimerReported, TimerResuming, TimerUse
<1>3. CASE TimerReported'
  <2>1. PICK e \in ReadyEvents : e.fd = TimerFd
    BY <1>1, <1>3 DEF TimerReported
  <2>2. fd_to_op[TimerFd].read # NoCo /\ TE!TimerFdReadable(tm, now)
    BY <2>1, ReadyOnce, SameTimer
  <2>3. TimerReported' = TRUE
    BY <1>3 DEF TimerReported
  <2>4. TE!Report
    BY <1>1, <1>2, <2>2, <2>3 DEF TE!Report
  <2> QED
    BY <2>4 DEF Seen, TE!Next
<1>4. CASE ~TimerReported'
  <2>1. TimerReported' = TimerReported
    BY <1>2, <1>4 DEF TimerReported
  <2> QED
    BY <1>1, <1>2, <2>1 DEF Seen, TE!vars
<1> QED
  BY <1>3, <1>4

\* complete() of an operation found on a socket or a token
LEMMA CompleteSeen ==
    ASSUME IInv, IInv', control.at = "loop", NEW d \in Coros, NEW n, Complete(d, n),
           op[d].kind # "wait_for",
           UNCHANGED <<now, tm, fd_to_op, op, TimerReported>>
    PROVE  Seen
<1>1. control'.at = "resume" /\ control'.co = d
  BY DEF Complete, IInv, TypeOK, Control
<1>2. /\ TimerResuming = NoCo
      /\ TimerResuming' = IF tm.active_timer_ids[d] # 0 THEN d ELSE NoCo
      /\ TimerUse' = TimerUse
  BY <1>1 DEF TimerResuming, TimerUse
<1>3. CASE tm.active_timer_ids[d] = 0
  BY <1>2, <1>3 DEF Seen, TE!vars
<1>4. CASE tm.active_timer_ids[d] # 0
  <2>1. TimerUse[d] = "timeout"
    BY <1>4 DEF TimerUse
  <2>2. TE!Wake(d)
    BY <1>2, <1>4, <2>1 DEF TE!Wake
  <2> QED
    BY <2>2 DEF Seen, TE!Next
<1> QED
  BY <1>3, <1>4

\* one turn of the loop
LEMMA DispatchSeen ==
    ASSUME IInv, IInv', BatchOK, NEW e \in batch, Dispatch(e)
    PROVE  Seen
<1> DEFINE r == IF e.in THEN fd_to_op[e.fd].read ELSE NoCo
           w == IF e.out THEN fd_to_op[e.fd].write ELSE NoCo
<1>1. /\ control.at = "loop" /\ batch' = batch \ {e} /\ e.fd \in Fds
      /\ UNCHANGED <<now, tm, fd_to_op, op>>
  BY DEF Dispatch, IInv, TypeOK
<1>2. \/ r # NoCo /\ Complete(r, w)
      \/ r = NoCo /\ w # NoCo /\ Complete(w, NoCo)
      \/ r = NoCo /\ w = NoCo /\ UNCHANGED control
  BY DEF Dispatch
<1>3. TimerResuming = NoCo /\ TimerUse' = TimerUse
  BY <1>1 DEF TimerResuming, TimerUse
<1>4. CASE e.fd = TimerFd
  <2>1. /\ r = fd_to_op[TimerFd].read /\ w = NoCo /\ r = tm.cur.op /\ T!Settled(tm)
        /\ TimerReported /\ TimerReported' = FALSE
    BY <1>1, <1>4 DEF BatchOK, TimerReported, IInv, Core, TableOK, TimersOK
  <2>2. TimerReported = TRUE
    BY <2>1 DEF TimerReported
  <2>3. TimerResuming' = r
    <3>1. CASE r = NoCo
      BY <1>1, <1>2, <2>1, <3>1 DEF TimerResuming
    <3>2. CASE r # NoCo
      <4>1. r \in Coros /\ tm.active_timer_ids[r] # 0
        BY <2>1, <3>2, TimerFacts
      <4>2. control'.at = "resume" /\ control'.co = r
        BY <1>2, <3>2 DEF Complete, IInv, TypeOK, Control
      <4> QED
        BY <1>1, <4>1, <4>2 DEF TimerResuming
    <3> QED
      BY <3>1, <3>2
  <2>4. TE!Dispatch
    BY <1>1, <1>3, <2>1, <2>2, <2>3 DEF TE!Dispatch
  <2> QED
    BY <2>4 DEF Seen, TE!Next
<1>5. CASE e.fd # TimerFd
  <2>1. TimerReported' = TimerReported
    BY <1>1, <1>5 DEF TimerReported
  <2>2. \A d \in Coros : d = r \/ d = w => op[d].kind # "wait_for"
    <3>1. ASSUME NEW d \in Coros, d = r \/ d = w
          PROVE  op[d].kind # "wait_for"
      <4>1. /\ Placed(d) /\ d # NoCo
            /\ \/ op[d].fd = e.fd \/ op[d].token = e.fd
        BY <1>1, <1>5, <3>1, EntriesPlaced, NamesAssumption
      <4>2. /\ op[d].kind = "wait_for" => op[d].fd = TimerFd /\ op[d].token = NoToken
        BY <4>1, OperationFacts DEF Placed, IInv, Core
      <4> QED
        BY <1>1, <1>5, <4>1, <4>2, NamesAssumption DEF Fds
    <3> QED
      BY <3>1
  <2>3. r \in Coros \cup {NoCo} /\ w \in Coros \cup {NoCo}
    BY <1>1 DEF IInv, TypeOK, I!FdState
  <2>4. CASE \E d \in Coros : \E n : (d = r \/ d = w) /\ Complete(d, n)
    BY <1>1, <2>1, <2>2, <2>4, CompleteSeen
  <2>5. CASE UNCHANGED control
    BY <1>1, <1>3, <2>1, <2>5 DEF TimerResuming, Seen, TE!vars
  <2> HIDE DEF r, w
  <2> QED
    BY <1>2, <2>3, <2>4, <2>5
<1> QED
  BY <1>4, <1>5

\* the timer's side of running()
LEMMA LoopSeen ==
    ASSUME IInv, IInv', BatchOK, EnterRunning \/ Loop
    PROVE  Seen
<1>1. CASE CompleteWrite
  <2> DEFINE d == control.next
  <2>1. /\ control.at = "loop" /\ Complete(d, NoCo) /\ d \in Coros /\ op[d].kind \in Outs
        /\ UNCHANGED <<now, tm, fd_to_op, op, batch>>
    BY <1>1 DEF CompleteWrite, IInv, Core, ThreadOK, TypeOK, Control
  <2>2. UNCHANGED TimerReported
    BY <2>1 DEF TimerReported
  <2> HIDE DEF d
  <2> QED
    BY <2>1, <2>2, CompleteSeen, KindFacts
<1>2. CASE EnterRunning \/ LeaveRunning
  <2>1. /\ UNCHANGED <<now, tm, batch, op>> /\ control.at \in {"main", "loop"}
        /\ \/ control' = [control EXCEPT !.at = "loop", !.running = TRUE]
           \/ control' = [control EXCEPT !.at = "exit", !.co = NoCo]
    BY <1>2 DEF EnterRunning, LeaveRunning, Goto
  <2>2. control'.at \in {"loop", "exit"}
    BY <2>1 DEF IInv, TypeOK, Control
  <2> QED
    BY <2>1, <2>2, NoTimerStep DEF Seen
<1> QED
  BY <1>1, <1>2, PollSeen, DispatchSeen DEF Loop

\* ... of every awaiter
LEMMA AwaiterSeen ==
    ASSUME IInv, IInv', NEW c \in Coros, Awaiter(c)
    PROVE  Seen /\ batch' = batch
<1>1. batch' = batch
  BY DEF Awaiter, RecvSuspend, RecvTimeoutSuspend, RecvSomeSuspend, SendSuspend,
         SendTimeoutSuspend, WaitSuspend, CancelSlotSubmit, RecvResume, RecvTimeoutResume,
         RecvSomeResume, SendResume, SendTimeoutResume, WaitResume, EndWithTimeout
<1>2. CASE RecvResume(c) \/ RecvSomeResume(c) \/ SendResume(c)
  <2>1. Runs(c, "resume") /\ op[c].kind \in {"read", "read_some", "write"}
    BY <1>2 DEF RecvResume, RecvSomeResume, SendResume
  <2>2. Withdraws(c)
    BY <1>2, PlainWithdraws
  <2> QED
    BY <1>1, <2>1, <2>2, PlainResumesUnseen, KindFacts DEF Seen
<1>3. CASE CancelSlotSubmit(c) \/ EndWithTimeout(c)
  <2>1. /\ control.co = c /\ control.at \in {"slot", "final"} /\ Yield
        /\ UNCHANGED <<now, tm, batch, op>>
    BY <1>3 DEF CancelSlotSubmit, EndWithTimeout, Runs
  <2>2. control'.at # "resume"
    BY <2>1, YieldFacts DEF IInv, TypeOK, Control
  <2> QED
    BY <1>1, <2>1, <2>2, OwnCodeUnseen DEF Seen
<1> QED
  BY <1>1, <1>2, <1>3, SuspendsSeen, TimeoutSeen, WaitSeen DEF Awaiter

\* ... and of the coroutines' own code
LEMMA UserSeen ==
    ASSUME IInv, IInv', NEW c \in Coros, User(c)
    PROVE  Seen /\ batch' = batch
<1>1. CASE Launch(c)
  <2>1. /\ control.at = "main" /\ Goto("user", c)
        /\ UNCHANGED <<now, tm, batch, op>>
    BY <1>1 DEF Launch
  <2>2. control'.at = "user"
    BY <2>1, GotoFacts DEF Points, IInv, TypeOK
  <2> QED
    BY <2>1, <2>2, NoTimerStep DEF Seen
<1>2. CASE Finish(c)
  <2>1. /\ control.co = c /\ control.at = "user" /\ Yield
        /\ UNCHANGED <<now, tm, batch, op>>
    BY <1>2 DEF Finish, End, Runs
  <2>2. control'.at # "resume"
    BY <2>1, YieldFacts DEF IInv, TypeOK, Control
  <2> QED
    BY <2>1, <2>2, OwnCodeUnseen DEF Seen
<1>3. ASSUME NEW o \in Menu[c], Begin(c, o)
      PROVE  Seen /\ batch' = batch
  <2>1. /\ control.co = c /\ control.at = "user" /\ Goto("suspend", c)
        /\ UNCHANGED <<now, tm, batch>>
        /\ \A d \in Coros \ {c} : op'[d] = op[d]
    BY <1>3 DEF Begin, Runs, IInv, TypeOK
  <2>2. control'.at = "suspend"
    BY <2>1, GotoFacts DEF Points, IInv, TypeOK
  <2> QED
    BY <2>1, <2>2, OwnCodeUnseen DEF Seen
<1>4. CASE \E t \in Tokens : RequestCancelHere(c, t)
  BY <1>4, NoTimerStep DEF RequestCancelHere, Seen
<1> QED
  BY <1>1, <1>2, <1>3, <1>4 DEF User

\* Each step of the framework is one of TimerEvent, or leaves it alone.
LEMMA NextSeen ==
    ASSUME TInv, [Next]_vars
    PROVE  TInv' /\ Seen
<1>1. IInv /\ IInv' /\ BatchOK
  BY NextKeeps DEF TInv
<1> SUFFICES Seen /\ (batch' \subseteq batch \/ Poll)
  BY <1>1, BatchKept DEF TInv
<1>2. CASE EnterRunning \/ Loop
  BY <1>1, <1>2, LoopSeen DEF EnterRunning, Loop, Dispatch, CompleteWrite, LeaveRunning
<1>3. CASE \E c \in Coros : Awaiter(c)
  BY <1>1, <1>3, AwaiterSeen
<1>4. CASE \E c \in Coros : User(c)
  BY <1>1, <1>4, UserSeen
<1>5. CASE Tick
  <2>1. TE!Tick
    <3>1. /\ now' = now + 1 /\ UNCHANGED <<tm, fd_to_op, batch, control, op>>
      BY <1>5 DEF Tick
    <3>2. UNCHANGED <<TimerUse, TimerReported, TimerResuming>>
      BY <3>1 DEF TimerUse, TimerReported, TimerResuming
    <3> QED
      BY <3>1, <3>2 DEF TE!Tick, TE!Within
  <2> QED
    BY <1>5, <2>1 DEF Seen, TE!Next, Tick
<1>6. CASE Peer \/ (\E t \in Tokens : RequestCancel(t) \/ SignalCancel(t)) \/ UNCHANGED vars
  <2>1. UNCHANGED <<now, tm, batch, control, op>>
    BY <1>6 DEF Peer, RequestCancel, SignalCancel, vars
  <2> QED
    BY <1>1, <2>1, NoTimerStep DEF Seen
<1> QED
  BY <1>2, <1>3, <1>4, <1>5, <1>6 DEF Next, Thread

\* The timer of a program that starts is a new one.
LEMMA InitSeen == Init => TInv /\ TE!Init
<1> SUFFICES ASSUME Init PROVE TInv /\ TE!Init
  OBVIOUS
<1>1. IInv /\ BatchOK
  BY InitIInv DEF Init, BatchOK
<1>2. /\ TimerUse = [c \in Coros |-> "no"] /\ ~TimerReported /\ TimerResuming = NoCo
      /\ fd_to_op[TimerFd].read = NoCo
  BY NewTimerSettled DEF Init, TimerUse, TimerReported, TimerResuming, I!NoEntry, Fds
<1>3. TimerReported = FALSE
  BY <1>2 DEF TimerReported
<1>4. now = 1 /\ tm = TE!NewTimerEvent
  BY SameTimer DEF Init
<1> QED
  BY <1>1, <1>2, <1>3, <1>4 DEF TInv, TE!Init

\* What the batch holds is what epoll_wait may report.
THEOREM BatchInductive == Spec => []TInv
<1>1. Init => TInv
  BY InitSeen
<1>2. TInv /\ [Next]_vars => TInv'
  BY NextSeen
<1> QED
  BY <1>1, <1>2, PTL DEF Spec

\* The framework uses the timer as TimerEvent has it: every step of the awaiters, of
\* the loop and of time is, seen from the timer, one of TimerEvent's or none.
THEOREM UsesTimer == Spec => TimerSpec
<1>1. Init => TInv /\ TE!Init
  BY InitSeen
<1>2. TInv /\ [Next]_vars => TInv' /\ [TE!Next]_TE!vars
  BY NextSeen DEF Seen
<1> QED
  BY <1>1, <1>2, PTL DEF Spec, TimerSpec, TE!Spec

-------------------------------------------------------------------------------
(* What TimerEventProofs proves holds of the framework *)

TEP == INSTANCE TimerEventProofs
         WITH Ops <- Coros, NoOp <- NoCo,
              Delays <- {o.delay : o \in UNION {Menu[c] : c \in Coros}},
              MaxTime <- 0, MaxTimers <- 0,
              awaiting <- TimerUse,
              registered <- fd_to_op[TimerFd].read,
              event <- TimerReported,
              resuming <- TimerResuming

\* what TimerEventProofs assumes of its constants
LEMMA TimerAssumptions == TEP!OpsAssumption /\ TEP!BoundsAssumption
<1>1. TEP!OpsAssumption
  BY NamesAssumption DEF TEP!OpsAssumption
<1>2. TEP!BoundsAssumption
  BY MenuAssumption DEF TEP!BoundsAssumption, Await
<1> QED
  BY <1>1, <1>2

\* TimerEventProofs speaks of the same initial states,
LEMMA SameInit == TE!Init <=> TEP!Init
BY DEF TE!Init, TEP!Init, TE!NewTimerEvent, TEP!NewTimerEvent, TE!NoTask, TEP!NoTask


\* operators,
LEMMA SameOps ==
    /\ TEP!NewTimerEvent = T!NewTimerEvent
    /\ \A t : /\ TEP!RefreshCurrentTimer(t) = T!RefreshCurrentTimer(t)
              /\ TEP!Advance(t) = T!Advance(t)
              /\ TEP!Consume(t) = T!Consume(t)
              /\ \A p : /\ TEP!Cancel(t, p) = T!Cancel(t, p)
                        /\ TEP!IsCurrent(t, p) <=> T!IsCurrent(t, p)
                        /\ TEP!DueTime(t, p) = TE!DueTime(t, p)
              /\ \A p, tp : TEP!SetTimer(t, p, tp) = T!SetTimer(t, p, tp)
              /\ \A n : /\ TEP!GetTimer(t, n) = T!GetTimer(t, n)
                        /\ TEP!TimerFdReadable(t, n) <=> T!TimerFdReadable(t, n)
BY DEF T!NewTimerEvent, TEP!NewTimerEvent, T!SetTimer, TEP!SetTimer, T!SetTimerOn, TEP!SetTimerOn,
       T!RefreshCurrentTimer, TEP!RefreshCurrentTimer, T!Advance, TEP!Advance,
       T!ActivateNextTimer, TEP!ActivateNextTimer, T!LiveTasks, TEP!LiveTasks,
       T!PopAll, TEP!PopAll, T!PopUntil, TEP!PopUntil, T!Dead, TEP!Dead,
       T!Earliest, TEP!Earliest, T!Ids, TEP!Ids, T!ForgetActive, TEP!ForgetActive,
       T!NoTask, TEP!NoTask, T!Cancel, TEP!Cancel, T!Consume, TEP!Consume,
       T!IsCurrent, TEP!IsCurrent, T!GetTimer, TEP!GetTimer,
       T!TimerFdReadable, TEP!TimerFdReadable, TE!DueTime, TEP!DueTime, TE!Pending, TEP!Pending

\* steps
LEMMA SameSteps == (TE!Next => TEP!Next) /\ (UNCHANGED TE!vars => UNCHANGED TEP!vars)
<1>1. \A t : TE!RefreshTimerRegistration(t) <=> TEP!RefreshTimerRegistration(t)
  BY SameOps, SameTimer DEF TE!RefreshTimerRegistration, TEP!RefreshTimerRegistration
<1>2. TE!Tick <=> TEP!Tick
  BY DEF TE!Tick, TEP!Tick, TE!Within, TEP!Within
<1>3. (TE!Report <=> TEP!Report) /\ (TE!Dispatch <=> TEP!Dispatch) 
  BY SameOps, SameTimer DEF TE!Report, TEP!Report, TE!Dispatch, TEP!Dispatch
<1>4. \A p : TE!Wake(p) <=> TEP!Wake(p)
  BY DEF TE!Wake, TEP!Wake
<1>5. \A p, d : /\ TE!StartWait(p, d) <=> TEP!StartWait(p, d)
                /\ TE!StartTimeout(p, d) <=> TEP!StartTimeout(p, d)
  BY <1>1, SameOps, SameTimer
     DEF TE!StartWait, TEP!StartWait, TE!StartTimeout, TEP!StartTimeout, TE!Within, TEP!Within
<1>6. \A p : /\ TE!FinishWait(p) <=> TEP!FinishWait(p)
             /\ TE!TimeOut(p) <=> TEP!TimeOut(p)
             /\ TE!Withdraw(p) <=> TEP!Withdraw(p)
  BY <1>1, SameOps, SameTimer
     DEF TE!FinishWait, TEP!FinishWait, TE!TimeOut, TEP!TimeOut, TE!Withdraw, TEP!Withdraw
<1> QED
  BY <1>1, <1>2, <1>3, <1>4, <1>5, <1>6 DEF TE!Next, TEP!Next, TE!vars, TEP!vars, TE!Resume, TEP!Resume


\* and service as AsyncIO does.
LEMMA SameService ==
    /\ TEP!Service!Init => TE!Service!Init
    /\ TEP!Service!Next => TE!Service!Next
    /\ UNCHANGED TEP!Service!vars => UNCHANGED TE!Service!vars
<1>1. [p \in Coros |-> IF TimerUse[p] = "no" THEN 0 ELSE TEP!DueTime(tm, p)]
       = [p \in Coros |-> IF TimerUse[p] = "no" THEN 0 ELSE TE!DueTime(tm, p)]
  BY SameOps
<1>2. [p \in Coros |-> IF TimerUse[p] = "no" THEN 0 ELSE TEP!DueTime(tm, p)]'
       = [p \in Coros |-> IF TimerUse[p] = "no" THEN 0 ELSE TE!DueTime(tm, p)]'
  BY SameOps
<1>3. UNCHANGED TEP!Service!vars => UNCHANGED TE!Service!vars
  BY <1>1, <1>2 DEF TEP!Service!vars, TE!Service!vars
<1>4. TEP!Service!Init => TE!Service!Init
  BY <1>1 DEF TEP!Service!Init, TE!Service!Init
<1>5. TEP!Service!Tick => TE!Service!Tick
  BY <1>1, <1>2 DEF TEP!Service!Tick, TE!Service!Tick
<1>6. \A p : TEP!Service!End(p) => TE!Service!End(p)
  BY <1>1, <1>2 DEF TEP!Service!End, TE!Service!End
<1>7. \A p : TEP!Service!Running(p) <=> TE!Service!Running(p)
  BY DEF TEP!Service!Running, TE!Service!Running
<1>8. \A p, why, d : TEP!Service!Start(p, why, d) => TE!Service!Start(p, why, d)
  BY <1>1, <1>2, <1>7 DEF TEP!Service!Start, TE!Service!Start
<1>9. \A p : TEP!Service!Expire(p) => TE!Service!Expire(p)
  BY <1>1, <1>2, <1>6, <1>7 DEF TEP!Service!Expire, TE!Service!Expire
<1>10. \A p : TEP!Service!Withdraw(p) => TE!Service!Withdraw(p)
  BY <1>6 DEF TEP!Service!Withdraw, TE!Service!Withdraw
<1>11. TEP!Service!Next => TE!Service!Next
  BY <1>5, <1>8, <1>9, <1>10 DEF TEP!Service!Next, TE!Service!Next
<1> QED
  BY <1>3, <1>4, <1>11

\* Whoever uses the timer as TimerEvent has it gets what TimerService promises.
LEMMA TimerSpecPromises == TimerSpec => TE!ServiceSpec
<1>1. TimerSpec => TEP!Spec
  <2>1. TE!Init => TEP!Init
    BY SameInit
  <2>2. [TE!Next]_TE!vars => [TEP!Next]_TEP!vars
    BY SameSteps
  <2> QED
    BY <2>1, <2>2, PTL DEF TimerSpec, TE!Spec, TEP!Spec
<1>2. TEP!Spec => TEP!ServiceSpec
  BY TimerAssumptions, TEP!Refinement
<1>3. TEP!ServiceSpec => TE!ServiceSpec
  <2>1. TEP!Service!Init => TE!Service!Init
    BY SameService
  <2>2. [TEP!Service!Next]_TEP!Service!vars => [TE!Service!Next]_TE!Service!vars
    BY SameService
  <2> QED
    BY <2>1, <2>2, PTL DEF TEP!ServiceSpec, TE!ServiceSpec, TEP!Service!Spec, TE!Service!Spec
<1> QED
  BY <1>1, <1>2, <1>3, PTL

\* So the framework keeps what TimerService promises: each timeout and each wait_for
\* ends no earlier than due and in the order of the deadlines, or, timeouts only, by
\* being withdrawn.
THEOREM KeepsService == Spec => TE!ServiceSpec
BY UsesTimer, TimerSpecPromises, PTL
-------------------------------------------------------------------------------
(* Wake-ups: SignalsPending is an invariant on top of IInv *)

\* Operations with private tokens have different ones.
LEMMA TokensDiffer ==
    ASSUME IInv, PrivateTokens, NEW c \in Coros, NEW d \in Coros \ {c}, Busy(c), Busy(d),
           op[d].token # NoToken
    PROVE  op[d].token # op[c].token
<1>1. PICK o \in Menu[c] : op[c].token = o.token
  BY DEF IInv, Core, OpsOK
<1>2. PICK q \in Menu[d] : op[d].token = q.token
  BY DEF IInv, Core, OpsOK
<1> QED
  BY <1>1, <1>2 DEF PrivateTokens

\* A step that leaves the tokens' entries alone and takes no signal back keeps it, unless
\* it suspends an operation that has a token.
LEMMA SignalsKept ==
    ASSUME IInv, SignalsPending,
           \A t \in Tokens : fd_to_op'[t] = fd_to_op[t],
           \A t \in Tokens : \/ token'[t] = token[t]
                             \/ token'[t].eventfd = "readable"
                             \/ CancelThreads /\ token'[t].eventfd = "due",
           ~CancelThreads => \A c \in Coros : Runs(c, "slot")' => ~Cancelled(c)',
           \A c \in Coros : at'[c] = "suspended" /\ op'[c].token # NoToken =>
                               at[c] = "suspended" /\ op'[c].token = op[c].token
    PROVE  SignalsPending'
<1>1. \A t \in Tokens : token'[t].cancelled /\ fd_to_op'[t].read # NoCo
                           => token'[t].eventfd # "empty"
  BY DEF SignalsPending
<1>2. ASSUME ~CancelThreads
      PROVE  /\ \A t \in Tokens : token'[t].eventfd # "due"
             /\ \A c \in Coros :
                   PrivateTokens /\ at'[c] = "suspended" /\ op'[c].token # NoToken
                      => fd_to_op'[op'[c].token].read = c
  <2>1. \A t \in Tokens : token'[t].eventfd # "due"
    BY <1>2 DEF SignalsPending
  <2>2. ASSUME NEW c \in Coros, PrivateTokens, at'[c] = "suspended", op'[c].token # NoToken
        PROVE  fd_to_op'[op'[c].token].read = c
    <3>1. at[c] = "suspended" /\ op'[c].token = op[c].token
      BY <2>2
    <3>2. fd_to_op[op[c].token].read = c
      BY <1>2, <2>2, <3>1 DEF SignalsPending
    <3>3. op[c].token \in Tokens
      BY <2>2, <3>1, OperationFacts DEF IInv, Core, ThreadOK
    <3> QED
      BY <3>1, <3>2, <3>3
  <2> QED
    BY <2>1, <2>2
<1> QED
  BY <1>1, <1>2 DEF SignalsPending

\* ... and most steps do not touch the tokens at all.
LEMMA SignalsUntouched ==
    ASSUME IInv, SignalsPending, UNCHANGED token,
           \A t \in Tokens : fd_to_op'[t] = fd_to_op[t],
           control'.at # "slot" \/ UNCHANGED <<control, op>>,
           \A c \in Coros : at'[c] = "suspended" /\ op'[c].token # NoToken =>
                               at[c] = "suspended" /\ op'[c].token = op[c].token
    PROVE  SignalsPending'
<1>1. ~CancelThreads => \A c \in Coros : Runs(c, "slot")' => ~Cancelled(c)'
  BY DEF SignalsPending, Runs, Cancelled
<1> QED
  BY <1>1, SignalsKept

\* Resuming an operation withdraws its own token, and takes its own signal only.
LEMMA WithdrawsKeepSignals ==
    ASSUME IInv, SignalsPending, NEW c \in Coros, Withdraws(c),
           ConsumeCancel(c) \/ UNCHANGED token
    PROVE  SignalsPending'
<1>1. /\ Busy(c) /\ control.co = c /\ at[c] = "running" /\ at' = at
      /\ op[c] \in Operation /\ op[c].fd \in Socks \cup {TimerFd}
  BY OperationFacts DEF Withdraws, IInv, Core, ThreadOK, Operation
<1>2. /\ \A t \in Tokens : token'[t].cancelled = token[t].cancelled
      /\ \A t \in Tokens \ {op[c].token} : token'[t] = token[t]
      /\ \A t \in Tokens : token'[t].eventfd = "due" => token[t].eventfd = "due"
  <2>1. \A t \in Tokens : token'[t].cancelled = token[t].cancelled
    BY DEF Withdraws
  <2>2. \A t \in Tokens \ {op[c].token} : token'[t] = token[t]
    BY DEF ConsumeCancel, IInv, TypeOK
  <2>3. \A t \in Tokens : token'[t].eventfd = "due" => token[t].eventfd = "due"
    BY DEF ConsumeCancel, IInv, TypeOK
  <2> QED
    BY <2>1, <2>2, <2>3
<1>3. /\ \A t \in Tokens \ {op[c].token} : fd_to_op'[t] = fd_to_op[t]
      /\ op[c].token \in Tokens => fd_to_op'[op[c].token].read = NoCo
  BY <1>1, NamesAssumption DEF Withdraws, Fds
<1>4. /\ control'.co = c /\ control'.at # "slot"
      /\ \A d \in Coros \ {c} : op'[d] = op[d]
  BY <1>1, WithdrawControl DEF IInv
<1>5. \A t \in Tokens : token'[t].cancelled /\ fd_to_op'[t].read # NoCo
                           => token'[t].eventfd # "empty"
  BY <1>2, <1>3 DEF SignalsPending
<1>6. ASSUME ~CancelThreads, PrivateTokens, NEW d \in Coros, at'[d] = "suspended",
             op'[d].token # NoToken
      PROVE  fd_to_op'[op'[d].token].read = d
  <2>1. d # c /\ at[d] = "suspended" /\ op'[d] = op[d] /\ Busy(d)
    BY <1>1, <1>4, <1>6 DEF IInv, Core, ThreadOK
  <2>2. op[d].token \in Tokens /\ op[d].token # op[c].token
    BY <1>1, <1>6, <2>1, TokensDiffer, OperationFacts DEF IInv, Core
  <2> QED
    BY <1>3, <1>6, <2>1, <2>2 DEF SignalsPending
<1>7. ~CancelThreads => \A t \in Tokens : token'[t].eventfd # "due"
  BY <1>2 DEF SignalsPending
<1>8. \A d \in Coros : ~Runs(d, "slot")'
  BY <1>4 DEF Runs
<1> QED
  BY <1>5, <1>6, <1>7, <1>8 DEF SignalsPending

\* cancel_slot::submit: without other threads the token is as await_suspend saw it.
LEMMA SlotKeepsSignals ==
    ASSUME IInv, SignalsPending, NEW c \in Coros, CancelSlotSubmit(c)
    PROVE  SignalsPending'
<1>1. /\ Runs(c, "slot") /\ at' = [at EXCEPT ![c] = "suspended"] /\ Yield
      /\ UNCHANGED <<op, token>>
      /\ fd_to_op' = IF Cancelled(c) THEN fd_to_op
                     ELSE I!Submit(fd_to_op, op[c].token, c, I!EVENT_READ)
  BY DEF CancelSlotSubmit
<1>2. Busy(c) /\ op[c].token # NoToken
  BY <1>1 DEF Runs, IInv, Core, ThreadOK
<1>3. op[c].token \in Tokens
  BY <1>2, OperationFacts DEF IInv, Core
<1>4. /\ fd_to_op \in Table /\ Slots(fd_to_op, op[c].token) /\ op[c].token \in Fds
      /\ \A t \in Tokens : t \in Fds
  BY <1>3 DEF IInv, Core, TypeOK, TableOK, Table, Fds
<1>5. /\ ~Cancelled(c) => fd_to_op'[op[c].token].read = c
      /\ \A t \in Tokens \ {op[c].token} : fd_to_op'[t] = fd_to_op[t]
      /\ Cancelled(c) => fd_to_op' = fd_to_op
  <2>1. CASE Cancelled(c)
    BY <1>1, <2>1
  <2>2. CASE ~Cancelled(c)
    <3>1. fd_to_op' = I!Submit(fd_to_op, op[c].token, c, I!EVENT_READ)
      BY <1>1, <2>2
    <3>2. /\ fd_to_op'[op[c].token].read = c
          /\ \A g \in Fds \ {op[c].token} : fd_to_op'[g] = fd_to_op[g]
      BY <1>4, <3>1, SubmitsRead
    <3> QED
      BY <1>4, <2>2, <3>2
  <2> QED
    BY <2>1, <2>2
<1>6. \A d \in Coros : ~Runs(d, "slot")'
  BY <1>1, YieldFacts DEF Runs, IInv, TypeOK, Control
<1>7. ~Cancelled(c) => ~token[op[c].token].cancelled
  BY <1>2 DEF Cancelled
<1>8. \A t \in Tokens : token'[t].cancelled /\ fd_to_op'[t].read # NoCo
                           => token'[t].eventfd # "empty"
  BY <1>1, <1>5, <1>7 DEF SignalsPending
<1>9. ASSUME ~CancelThreads, PrivateTokens, NEW d \in Coros, at'[d] = "suspended",
             op'[d].token # NoToken
      PROVE  fd_to_op'[op'[d].token].read = d
  <2>1. CASE d = c
    BY <1>1, <1>5, <1>9, <2>1 DEF SignalsPending
  <2>2. CASE d # c
    <3>1. at[d] = "suspended" /\ op'[d] = op[d] /\ Busy(d)
      BY <1>1, <1>9, <2>2 DEF IInv, TypeOK, Core, ThreadOK
    <3>2. op[d].token \in Tokens /\ op[d].token # op[c].token
      BY <1>2, <1>9, <2>2, <3>1, TokensDiffer, OperationFacts DEF IInv, Core
    <3> QED
      BY <1>5, <1>9, <3>1, <3>2 DEF SignalsPending
  <2> QED
    BY <2>1, <2>2
<1> QED
  BY <1>1, <1>6, <1>8, <1>9 DEF SignalsPending

\* await_suspend tests the token before it goes on to cancel_slot::submit.
LEMMA RegistersKeepSignals ==
    ASSUME IInv, SignalsPending, NEW c \in Coros, Registers(c), ~Cancelled(c)
    PROVE  SignalsPending'
<1>1. /\ Runs(c, "suspend") /\ Busy(c) /\ at[c] = "running" /\ Suspend(c) /\ UNCHANGED token
      /\ op[c] \in Operation /\ op[c].fd \in Socks \cup {TimerFd}
  BY Unplaced, OperationFacts DEF Registers, IInv, Core, Operation
<1>2. \A t \in Tokens : fd_to_op'[t] = fd_to_op[t]
  BY <1>1, NamesAssumption DEF Registers, Fds
<1>3. \A d \in Coros : op'[d].token = op[d].token
  <2>1. op' = op \/ op' = [op EXCEPT ![c].due = now + op[c].delay]
    BY DEF Registers
  <2> QED
    BY <1>1, <2>1 DEF IInv, TypeOK, Operation
<1>4. /\ \A d \in Coros \ {c} : at'[d] = at[d]
      /\ control'.at = "slot" => control'.co = c
      /\ at'[c] = "suspended" => op[c].token = NoToken
  BY <1>1, SuspendControl DEF IInv, TypeOK, Core, ThreadOK
<1>5. \A d \in Coros : Runs(d, "slot")' => ~Cancelled(d)'
  BY <1>1, <1>3, <1>4 DEF Runs, Cancelled
<1>6. \A d \in Coros : at'[d] = "suspended" /\ op'[d].token # NoToken =>
                          at[d] = "suspended" /\ op'[d].token = op[d].token
  BY <1>3, <1>4
<1> QED
  BY <1>1, <1>2, <1>5, <1>6, SignalsKept

\* The awaiters
LEMMA AwaiterKeepsSignals ==
    ASSUME IInv, SignalsPending, NEW c \in Coros, Awaiter(c)
    PROVE  SignalsPending'
<1>1. CASE \/ RecvSuspend(c) \/ RecvTimeoutSuspend(c) \/ RecvSomeSuspend(c)
           \/ SendSuspend(c) \/ SendTimeoutSuspend(c) \/ WaitSuspend(c)
  <2>1. Runs(c, "suspend") /\ UNCHANGED token
    BY <1>1 DEF RecvSuspend, RecvTimeoutSuspend, RecvSomeSuspend, SendSuspend,
                SendTimeoutSuspend, WaitSuspend
  <2>2. Busy(c)
    BY <2>1, Unplaced
  <2>3. AlreadyCancelled(c) \/ (Registers(c) /\ ~Cancelled(c))
    <3>1. CASE RecvSomeSuspend(c) \/ WaitSuspend(c)
      <4>1. op[c].kind \in {"read_some", "wait_for"}
        BY <3>1 DEF RecvSomeSuspend, WaitSuspend
      <4>2. op[c].token = NoToken
        BY <2>2, <4>1, OperationFacts DEF IInv, Core
      <4> QED
        BY <3>1, <4>2, PlainRegisters, WaitRegisters DEF Cancelled
    <3>2. CASE RecvSuspend(c) \/ SendSuspend(c)
      BY <3>2, PlainRegisters DEF RecvSuspend, SendSuspend
    <3>3. CASE RecvTimeoutSuspend(c) \/ SendTimeoutSuspend(c)
      BY <3>3, TimedRegisters DEF RecvTimeoutSuspend, SendTimeoutSuspend
    <3> QED
      BY <1>1, <3>1, <3>2, <3>3
  <2>4. CASE AlreadyCancelled(c)
    <3>1. UNCHANGED <<fd_to_op, at, op>> /\ control'.at = "resume"
      BY <2>4, GotoFacts DEF AlreadyCancelled, Points, IInv, TypeOK
    <3> QED
      BY <2>1, <3>1, SignalsUntouched
  <2> QED
    BY <2>3, <2>4, RegistersKeepSignals
<1>2. CASE \/ RecvResume(c) \/ RecvTimeoutResume(c) \/ RecvSomeResume(c)
           \/ SendResume(c) \/ SendTimeoutResume(c) \/ WaitResume(c)
  <2>1. Withdraws(c)
    BY <1>2, PlainWithdraws, TimeoutEndsWithdraw, WaitWithdraws
  <2>2. ConsumeCancel(c) \/ UNCHANGED token
    BY <1>2 DEF RecvResume, RecvTimeoutResume, RecvSomeResume, SendResume, SendTimeoutResume,
                WaitResume
  <2> QED
    BY <2>1, <2>2, WithdrawsKeepSignals
<1>3. CASE EndWithTimeout(c)
  <2>1. /\ UNCHANGED <<fd_to_op, op, token>> /\ Yield
        /\ at' = [at EXCEPT ![c] = "stranded"]
    BY <1>3 DEF EndWithTimeout
  <2>2. /\ control'.at # "slot"
        /\ \A d \in Coros : at'[d] = "suspended" => at[d] = "suspended"
    BY <2>1, YieldFacts DEF IInv, TypeOK, Control
  <2> QED
    BY <2>1, <2>2, SignalsUntouched
<1> QED
  BY <1>1, <1>2, <1>3, SlotKeepsSignals DEF Awaiter

\* The coroutines' own code, which may cancel
LEMMA UserKeepsSignals ==
    ASSUME IInv, SignalsPending, NEW c \in Coros, User(c)
    PROVE  SignalsPending'
<1>1. CASE \E t \in Tokens : RequestCancelHere(c, t)
  <2>1. PICK t \in Tokens : RequestCancelHere(c, t)
    BY <1>1
  <2>2. /\ control.at = "user" /\ UNCHANGED <<fd_to_op, control, at, op>>
        /\ token' = [token EXCEPT ![t] = [cancelled |-> TRUE, eventfd |-> "readable"]]
    BY <2>1 DEF RequestCancelHere, Runs
  <2>3. \A u \in Tokens : token'[u] = token[u] \/ token'[u].eventfd = "readable"
    BY <2>2 DEF IInv, TypeOK
  <2>4. \A d \in Coros : ~Runs(d, "slot")'
    BY <2>2 DEF Runs
  <2> QED
    BY <2>2, <2>3, <2>4, SignalsKept
<1>2. CASE Launch(c) \/ Finish(c)
  <2>1. /\ UNCHANGED <<fd_to_op, op, token>> /\ (Goto("user", c) \/ Yield)
        /\ at' = [at EXCEPT ![c] = "running"] \/ at' = [at EXCEPT ![c] = "done"]
    BY <1>2 DEF Launch, Finish, End
  <2>2. /\ control'.at # "slot"
        /\ \A d \in Coros : at'[d] = "suspended" => at[d] = "suspended"
    BY <2>1, GotoFacts, YieldFacts DEF Points, IInv, TypeOK, Control
  <2> QED
    BY <2>1, <2>2, SignalsUntouched
<1>3. CASE \E o \in Menu[c] : Begin(c, o)
  <2>1. PICK o \in Menu[c] : Begin(c, o)
    BY <1>3
  <2>2. /\ Runs(c, "user") /\ UNCHANGED <<fd_to_op, at, token>> /\ Goto("suspend", c)
        /\ \A d \in Coros \ {c} : op'[d] = op[d]
    BY <2>1 DEF Begin, IInv, TypeOK
  <2>3. at[c] = "running" /\ control'.at # "slot"
    BY <2>2, GotoFacts DEF Runs, Points, IInv, TypeOK, Core, ThreadOK
  <2> QED
    BY <2>2, <2>3, SignalsUntouched
<1> QED
  BY <1>1, <1>2, <1>3 DEF User

\* The loop, time, peers and other threads
LEMMA OthersKeepSignals ==
    ASSUME IInv, SignalsPending,
           \/ EnterRunning \/ Loop \/ Tick \/ Peer \/ UNCHANGED vars
           \/ \E t \in Tokens : RequestCancel(t) \/ SignalCancel(t)
    PROVE  SignalsPending'
<1>1. CASE EnterRunning \/ Loop
  <2>1. UNCHANGED <<fd_to_op, op, token>>
    BY <1>1 DEF EnterRunning, Loop, Poll, Dispatch, CompleteWrite, LeaveRunning
  <2>2. \/ control' = [control EXCEPT !.at = "loop", !.running = TRUE] /\ at' = at
        \/ control' = [control EXCEPT !.at = "exit", !.co = NoCo] /\ at' = at
        \/ control' = control /\ at' = at
        \/ \E d, n : Complete(d, n)
    BY <1>1 DEF EnterRunning, Loop, Poll, Dispatch, CompleteWrite, LeaveRunning, Goto
  <2>3. /\ control'.at # "slot" \/ UNCHANGED control
        /\ \A d \in Coros : at'[d] = "suspended" => at[d] = "suspended"
    BY <2>2 DEF Complete, IInv, TypeOK, Control
  <2> QED
    BY <2>1, <2>3, SignalsUntouched
<1>2. CASE Tick \/ Peer \/ UNCHANGED vars
  <2>1. UNCHANGED <<fd_to_op, control, at, op, token>>
    BY <1>2 DEF Tick, Peer, vars
  <2> QED
    BY <2>1, SignalsUntouched
<1>3. ASSUME NEW t \in Tokens, RequestCancel(t)
      PROVE  SignalsPending'
  <2>1. /\ CancelThreads /\ UNCHANGED <<fd_to_op, control, at, op>>
        /\ token' = [token EXCEPT ![t] = [cancelled |-> TRUE, eventfd |-> "due"]]
    BY <1>3 DEF RequestCancel
  <2>2. \A u \in Tokens : token'[u] = token[u] \/ token'[u].eventfd = "due"
    BY <2>1 DEF IInv, TypeOK
  <2> QED
    BY <2>1, <2>2, SignalsKept
<1>4. ASSUME NEW t \in Tokens, SignalCancel(t)
      PROVE  SignalsPending'
  <2>1. /\ UNCHANGED <<fd_to_op, control, at, op>>
        /\ token' = [token EXCEPT ![t].eventfd = "readable"]
    BY <1>4 DEF SignalCancel
  <2>2. \A u \in Tokens : /\ token'[u] = token[u] \/ token'[u].eventfd = "readable"
                          /\ token'[u].cancelled = token[u].cancelled
    BY <2>1 DEF IInv, TypeOK
  <2>3. ASSUME ~CancelThreads, NEW d \in Coros, Runs(d, "slot")'
        PROVE  ~Cancelled(d)'
    <3>1. Runs(d, "slot") /\ Busy(d)
      BY <2>1, <2>3 DEF Runs, IInv, Core, ThreadOK
    <3>2. ~Cancelled(d) /\ (op[d].token # NoToken => op[d].token \in Tokens)
      BY <2>3, <3>1, OperationFacts DEF SignalsPending, IInv, Core
    <3> QED
      BY <2>1, <2>2, <3>2 DEF Cancelled
  <2> QED
    BY <2>1, <2>2, <2>3, SignalsKept
<1> QED
  BY <1>1, <1>2, <1>3, <1>4

\* Each step keeps the signals.
LEMMA NextKeepsSignals == WInv /\ [Next]_vars => WInv'
<1> SUFFICES ASSUME IInv, SignalsPending, [Next]_vars PROVE WInv'
  BY DEF WInv
<1>1. IInv'
  BY NextKeeps
<1>2. SignalsPending'
  BY AwaiterKeepsSignals, UserKeepsSignals, OthersKeepSignals DEF Next, Thread
<1> QED
  BY <1>1, <1>2 DEF WInv

\* At the beginning nothing is cancelled.
LEMMA InitWInv == Init => WInv
<1> SUFFICES ASSUME Init PROVE SignalsPending
  BY InitIInv DEF WInv
<1> QED
  BY DEF Init, SignalsPending, Runs

\* Whatever the interleaving of request_cancel with the registration of its token, a
\* cancelled token that is in the table has its signal, or gets it (cancel_slot::submit,
\* request_cancel, consume).
THEOREM SignalsStayPending == Spec => []WInv
<1>1. Init => WInv
  BY InitWInv
<1>2. WInv /\ [Next]_vars => WInv'
  BY NextKeepsSignals
<1> QED
  BY <1>1, <1>2, PTL DEF Spec

\* What is registered and ready, epoll_wait reports.
LEMMA ReportedIn ==
    ASSUME NEW fd \in Fds, "IN" \in fd_to_op[fd].events, InReady(fd) \/ BrokenFd(fd)
    PROVE  \E e \in ReadyEvents : e.fd = fd /\ e.in
<1> DEFINE e == [fd |-> fd,
                 in  |-> BrokenFd(fd) \/ ("IN" \in fd_to_op[fd].events /\ InReady(fd)),
                 out |-> BrokenFd(fd) \/ ("OUT" \in fd_to_op[fd].events /\ OutReady(fd))]
<1>1. e \in ReadyEvents
  BY DEF ReadyEvents, I!Registered
<1>2. e.fd = fd /\ e.in
  OBVIOUS
<1> HIDE DEF e
<1> QED
  BY <1>1, <1>2

\* ... for writing
LEMMA ReportedOut ==
    ASSUME NEW fd \in Fds, "OUT" \in fd_to_op[fd].events, OutReady(fd) \/ BrokenFd(fd)
    PROVE  \E e \in ReadyEvents : e.fd = fd /\ e.out
<1> DEFINE e == [fd |-> fd,
                 in  |-> BrokenFd(fd) \/ ("IN" \in fd_to_op[fd].events /\ InReady(fd)),
                 out |-> BrokenFd(fd) \/ ("OUT" \in fd_to_op[fd].events /\ OutReady(fd))]
<1>1. e \in ReadyEvents
  BY DEF ReadyEvents, I!Registered
<1>2. e.fd = fd /\ e.out
  OBVIOUS
<1> HIDE DEF e
<1> QED
  BY <1>1, <1>2

\* A cancelled operation whose token is in the table and signalled
LEMMA CancelIsReported ==
    ASSUME WInv, NEW c \in Coros, Suspended(c), Cancelled(c),
           token[op[c].token].eventfd # "due", fd_to_op[op[c].token].read = c
    PROVE  \E e \in ReadyEvents : Wakes(e, c)
<1> DEFINE t == op[c].token
<1>1. /\ IInv /\ SignalsPending /\ Busy(c)
      /\ t \in Tokens /\ t \in Fds /\ t # TimerFd /\ token[t].cancelled
  BY PlacedIsAlive, OperationFacts, NamesAssumption DEF WInv, IInv, Core, Cancelled, Fds
<1>2. token[t].eventfd = "readable"
  BY <1>1, NamesAssumption DEF SignalsPending, IInv, TypeOK
<1>3. "IN" \in fd_to_op[t].events
  BY <1>1, NamesAssumption DEF IInv, Core, TableOK, Slots
<1>4. InReady(t)
  BY <1>1, <1>2 DEF InReady
<1> QED
  BY <1>1, <1>3, <1>4, ReportedIn DEF Wakes

\* The timerfd expires for the earliest task, which is that of its slot.
LEMMA DueIsReported ==
    ASSUME IInv, NEW c \in Coros, Suspended(c), op[c].kind \in Timed, op[c].due <= now
    PROVE  \E e \in ReadyEvents, d \in Coros :
              e.fd = TimerFd /\ Wakes(e, d) /\ op[d].kind \in Timed /\ op[d].due <= now
<1> DEFINE d == tm.cur.op
<1>1. PICK x \in T!Pending(tm) : x.op = c /\ x.tp = op[c].due
  BY SuspendedRegistered
<1>2. T!Settled(tm) /\ d # NoCo /\ now \in Nat /\ \A y \in T!Pending(tm) : op[y.op].due = y.tp
  BY SuspendedRegistered DEF IInv, Core, TimersOK, TypeOK
<1>3. /\ d \in Coros /\ tm.cur \in T!Pending(tm) /\ tm.active_timer_ids[d] # 0
      /\ tm.alarm = tm.cur.tp /\ tm.alarm \in Nat /\ tm.alarm # 0 /\ x.tp \in Nat
  BY <1>1, <1>2, TimerFacts
<1>4. tm.cur.tp <= x.tp
  <2>1. x \in tm.waiting_queue \/ x = tm.cur
    BY DEF T!Pending
  <2> QED
    BY <1>2, <1>3, <2>1 DEF T!Settled
<1>5. tm.alarm <= now /\ op[d].due <= now
  BY <1>1, <1>2, <1>3, <1>4
<1>6. op[d].kind \in Timed
  BY <1>3 DEF IInv, Core, TimersOK
<1>7. TimerFd \in Fds /\ fd_to_op[TimerFd].read = d /\ "IN" \in fd_to_op[TimerFd].events
  BY <1>2 DEF IInv, Core, TableOK, Slots, Fds
<1>8. InReady(TimerFd)
  BY <1>3, <1>5 DEF InReady, T!TimerFdReadable
<1>9. PICK e \in ReadyEvents : e.fd = TimerFd /\ e.in
  BY <1>7, <1>8, ReportedIn
<1> QED
  BY <1>3, <1>5, <1>6, <1>7, <1>9 DEF Wakes

\* Who can go on is reported.
LEMMA ImpliesNoLostWakeup == WInv => NoLostWakeup
<1> SUFFICES ASSUME WInv, NEW c \in Coros, Suspended(c)
             PROVE  /\ \/ op[c].kind \in Ins /\ (InReady(op[c].fd) \/ BrokenFd(op[c].fd))
                       \/ op[c].kind \in Outs /\ (OutReady(op[c].fd) \/ BrokenFd(op[c].fd))
                       \/ /\ Cancelled(c) /\ token[op[c].token].eventfd # "due"
                          /\ fd_to_op[op[c].token].read = c
                       => \E e \in ReadyEvents : Wakes(e, c)
                    /\ op[c].kind \in Timed /\ op[c].due <= now
                       => \E e \in ReadyEvents, d \in Coros :
                             e.fd = TimerFd /\ Wakes(e, d) /\ op[d].kind \in Timed /\ op[d].due <= now
  BY DEF NoLostWakeup
<1>1. IInv
  BY DEF WInv
<1>2. ASSUME op[c].kind \in Ins, InReady(op[c].fd) \/ BrokenFd(op[c].fd)
      PROVE  \E e \in ReadyEvents : Wakes(e, c)
  <2>1. /\ op[c].fd \in Fds /\ fd_to_op[op[c].fd].read = c
        /\ "IN" \in fd_to_op[op[c].fd].events
    BY <1>1, <1>2, SuspendedRegistered DEF Fds
  <2> QED
    BY <1>2, <2>1, ReportedIn DEF Wakes
<1>3. ASSUME op[c].kind \in Outs, OutReady(op[c].fd) \/ BrokenFd(op[c].fd)
      PROVE  \E e \in ReadyEvents : Wakes(e, c)
  <2>1. /\ op[c].fd \in Fds /\ fd_to_op[op[c].fd].write = c
        /\ "OUT" \in fd_to_op[op[c].fd].events
    BY <1>1, <1>3, SuspendedRegistered DEF Fds
  <2> QED
    BY <1>3, <2>1, ReportedOut DEF Wakes
<1> QED
  BY <1>1, <1>2, <1>3, CancelIsReported, DueIsReported

\* No wake-up is lost: what can go on, because its socket is ready or broken, its token
\* was cancelled and signalled, or its time has come, epoll_wait(-1) does not sleep on.
THEOREM NoWakeupLost == Spec => []NoLostWakeup
<1>1. WInv => NoLostWakeup
  BY ImpliesNoLostWakeup
<1> QED
  BY <1>1, SignalsStayPending, PTL

\* When only the loop's own thread cancels, a cancelled operation is reported.
LEMMA ImpliesCancelReported == WInv /\ PrivateTokens /\ ~CancelThreads => CancelReported
<1> SUFFICES ASSUME WInv, PrivateTokens, ~CancelThreads,
                    NEW c \in Coros, Suspended(c), Cancelled(c)
             PROVE  \E e \in ReadyEvents : Wakes(e, c)
  BY DEF CancelReported
<1>1. IInv /\ SignalsPending /\ Busy(c) /\ op[c].token # NoToken
  BY PlacedIsAlive DEF WInv, Cancelled
<1>2. op[c].token \in Tokens
  BY <1>1, OperationFacts DEF IInv, Core
<1>3. token[op[c].token].eventfd # "due" /\ fd_to_op[op[c].token].read = c
  BY <1>1, <1>2 DEF SignalsPending, Suspended
<1> QED
  BY <1>3, CancelIsReported

\* With a token per operation, and no thread but the loop's, whoever was cancelled is
\* reported before running() sleeps: the race of AsyncIORace.cfg and the sharing of
\* AsyncIOShared.cfg are the only ways to lose a cancellation.
THEOREM CancelsAreReported ==
    ASSUME PrivateTokens, ~CancelThreads
    PROVE  Spec => []CancelReported
<1>1. WInv => CancelReported
  BY ImpliesCancelReported
<1> QED
  BY <1>1, SignalsStayPending, PTL
===============================================================================
