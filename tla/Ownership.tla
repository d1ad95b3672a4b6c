------------------------------ MODULE Ownership ------------------------------
(***************************************************************************)
(* The objects that own something by its number: Connection (connection.h), *)
(* fdo (fd_object.h, in Epoll_Manager and TimerEvent), MakeSocket and      *)
(* Acceptor (connector.hpp) a descriptor, made by socket(), accept4(),     *)
(* epoll_create1() and timerfd_create(), and Task (task.h) a coroutine's   *)
(* frame, by its address.  They are moved, assigned, swapped,              *)
(* closed and destroyed in any order, while the kernel, or the allocator,  *)
(* gives a number that was closed to the next that asks.                   *)
(*                                                                         *)
(* Descriptors and frames are both files here, closed by close() and by     *)
(* handle.destroy(); their numbers are apart.                              *)
(*                                                                         *)
(* fdo's close_fd is public and keeps the number, which its destructor then *)
(* closes once more: by that time it may be somebody else's.  Nothing in   *)
(* the repository but the move constructor of Epoll_Manager calls it, and  *)
(* nothing moves an Epoll_Manager; the class allows both, so both are here, *)
(* with two history variables that tell whom they hit.                     *)
(***************************************************************************)
EXTENDS Naturals

CONSTANTS Objs,     \* variables of these classes
          Fds,      \* descriptor numbers
          Frames,   \* addresses of frames
          NoFd,     \* -1, nullptr
          MaxFiles  \* bound on the files opened

Nums == Fds \cup Frames

ASSUME NoFdAssumption == NoFd \notin Nums
ASSUME FramesAssumption == Fds \cap Frames = {}
ASSUME MaxFilesAssumption == MaxFiles \in Nat

VARIABLES class,  \* class[o]: what o is, "none" out of its lifetime
          fd,     \* fd[o]: the number o holds, its fd_, listen_fd or handle
          got,    \* got[o]: the file that number named when o, or who it was moved from,
                  \* got it; 0 when o's number was closed by fdo's close_fd
          file,   \* file[n]: the open file that n names, 0 if n is closed
          made,   \* how many files have been opened
          lost,   \* files that a builder which threw has left open
          robbed  \* files closed by an object that they did not belong to

vars == <<class, fd, got, file, made, lost, robbed>>

Classes == {"Connection", "fdo", "MakeSocket", "Acceptor", "Task"}
Movable == {"Connection", "fdo", "Task"}

TypeOK ==
    /\ class \in [Objs -> Classes \cup {"none"}]
    /\ fd \in [Objs -> Nums \cup {NoFd}]
    /\ got \in [Objs -> Nat]
    /\ file \in [Nums -> Nat]
    /\ made \in Nat
    /\ lost \subseteq 1..made
    /\ robbed \subseteq 1..made

Init ==
    /\ class = [o \in Objs |-> "none"]
    /\ fd = [o \in Objs |-> NoFd]
    /\ got = [o \in Objs |-> 0]
    /\ file = [n \in Nums |-> 0]
    /\ made = 0
    /\ lost = {}
    /\ robbed = {}

-------------------------------------------------------------------------------
\* close() of the number o holds, if it holds one: whoever got the file that the
\* number names loses it
Closes(o) ==
    /\ file' = [n \in Nums |-> IF n = fd[o] THEN 0 ELSE file[n]]
    /\ robbed' = robbed \cup ({file[n] : n \in Nums \cap {fd[o]}} \ {0, got[o]})

-------------------------------------------------------------------------------
(* Plausible slips, each exercised by a mutation run *)

\* copies the number: a move constructor left to the compiler
MoveConstruct_Copy(p, o) ==
    /\ class[o] = "none" /\ class[p] \in Movable
    /\ class' = [class EXCEPT ![o] = class[p]]
    /\ fd' = [fd EXCEPT ![o] = fd[p]]
    /\ got' = [got EXCEPT ![o] = got[p]]
    /\ UNCHANGED <<file, made, lost, robbed>>

\* takes the source's number and forgets its own
MoveAssign_Forget(p, o) ==
    /\ class[p] \in {"Connection", "Task"} /\ class[o] = class[p] /\ p # o
    /\ fd' = [fd EXCEPT ![o] = fd[p], ![p] = NoFd]
    /\ got' = [got EXCEPT ![o] = got[p]]
    /\ UNCHANGED <<class, file, made, lost, robbed>>

\* a Connection or an Acceptor that keeps its number, as fdo does
CloseFd_Keep(o) ==
    /\ class[o] \in {"Connection", "Acceptor"}
    /\ Closes(o)
    /\ UNCHANGED <<class, fd, got, made, lost>>

-------------------------------------------------------------------------------
\* number n is given out for a file just opened
NewFile(n) ==
    /\ made < MaxFiles /\ file[n] = 0
    /\ made' = made + 1
    /\ file' = [file EXCEPT ![n] = made + 1]
    /\ UNCHANGED robbed

\* o, of class k, takes it
Open(o, k, n) ==
    /\ class[o] = "none" /\ NewFile(n)
    /\ class' = [class EXCEPT ![o] = k]
    /\ fd' = [fd EXCEPT ![o] = n]
    /\ got' = [got EXCEPT ![o] = made + 1]
    /\ UNCHANGED lost

MakeSocket(o, n) == Open(o, "MakeSocket", n)

\* Epoll_Manager's constructor, and TimerEvent's in the same way
EpollCreate(o, n) == Open(o, "fdo", n)

\* a coroutine is called: get_return_object
CallCoroutine(o, n) == Open(o, "Task", n)

\* Acceptor's constructor takes the number out of the MakeSocket; when bind or
\* listen fails it throws before that and nothing has changed
Listen(m, o) ==
    /\ class[m] = "MakeSocket" /\ fd[m] # NoFd /\ class[o] = "none"
    /\ class' = [class EXCEPT ![o] = "Acceptor"]
    /\ fd' = [fd EXCEPT ![o] = fd[m], ![m] = NoFd]
    /\ got' = [got EXCEPT ![o] = got[m]]
    /\ UNCHANGED <<file, made, lost, robbed>>

\* accept_now; a listening socket is what the number in an Acceptor must name
AcceptNow(a, o, n) ==
    /\ class[a] = "Acceptor" /\ fd[a] # NoFd
    /\ Open(o, "Connection", n)

\* BuilderServer, and async_connect when it succeeds
BuilderServer(o, n) == Open(o, "Connection", n)

\* The number belongs to nobody while create_sock parses the address and the
\* builder calls bind and listen: when one of them fails it stays open.
BuilderThrows(n) ==
    /\ NewFile(n)
    /\ lost' = lost \cup {made + 1}
    /\ UNCHANGED <<class, fd, got>>

\* o is constructed from std::move(p)
MoveConstruct(p, o) ==
    /\ class[o] = "none" /\ class[p] \in Movable
    /\ class' = [class EXCEPT ![o] = class[p]]
    /\ fd' = [fd EXCEPT ![o] = fd[p], ![p] = NoFd]
    /\ got' = [got EXCEPT ![o] = got[p]]
    /\ UNCHANGED <<file, made, lost, robbed>>

\* Epoll_Manager's move constructor: o's member copies the number, and close_fd of
\* p's closes it for both
EpollMove(p, o) ==
    /\ class[o] = "none" /\ class[p] = "fdo"
    /\ class' = [class EXCEPT ![o] = "fdo"]
    /\ Closes(p)
    /\ fd' = [fd EXCEPT ![o] = fd[p]]
    /\ got' = [got EXCEPT ![o] = 0, ![p] = 0]
    /\ UNCHANGED <<made, lost>>

\* o = std::move(p) of Connections and Tasks: closes what o holds first; with p
\* itself, nothing happens
MoveAssign(p, o) ==
    /\ class[p] \in {"Connection", "Task"} /\ class[o] = class[p] /\ p # o
    /\ Closes(o)
    /\ fd' = [fd EXCEPT ![o] = fd[p], ![p] = NoFd]
    /\ got' = [got EXCEPT ![o] = got[p]]
    /\ UNCHANGED <<class, made, lost>>

\* swap of Connections, and fdo's move assignment
Swap(p, o) ==
    /\ class[p] \in {"Connection", "fdo"} /\ class[o] = class[p]
    /\ fd' = [fd EXCEPT ![o] = fd[p], ![p] = fd[o]]
    /\ got' = [got EXCEPT ![o] = got[p], ![p] = got[o]]
    /\ UNCHANGED <<class, file, made, lost, robbed>>

\* close_fd of Connection and Acceptor
CloseFd(o) ==
    /\ class[o] \in {"Connection", "Acceptor"}
    /\ Closes(o)
    /\ fd' = [fd EXCEPT ![o] = NoFd]
    /\ UNCHANGED <<class, got, made, lost>>

\* close_fd of fdo is const: the number stays
CloseFdo(o) ==
    /\ class[o] = "fdo" /\ fd[o] # NoFd
    /\ Closes(o)
    /\ got' = [got EXCEPT ![o] = 0]
    /\ UNCHANGED <<class, fd, made, lost>>

\* the five destructors
Destroy(o) ==
    /\ class[o] # "none"
    /\ class' = [class EXCEPT ![o] = "none"]
    /\ Closes(o)
    /\ fd' = [fd EXCEPT ![o] = NoFd]
    /\ UNCHANGED <<got, made, lost>>

Next ==
    \/ \E o \in Objs, n \in Fds : \/ MakeSocket(o, n) \/ EpollCreate(o, n)
                                  \/ BuilderServer(o, n)
                                  \/ \E a \in Objs : AcceptNow(a, o, n)
    \/ \E o \in Objs, n \in Frames : CallCoroutine(o, n)
    \/ \E n \in Fds : BuilderThrows(n)
    \/ \E p \in Objs, o \in Objs : \/ Listen(p, o) \/ MoveConstruct(p, o)
                                   \/ MoveAssign(p, o) \/ Swap(p, o) \/ EpollMove(p, o)
    \/ \E o \in Objs : CloseFd(o) \/ CloseFdo(o) \/ Destroy(o)

Spec == Init /\ [][Next]_vars

\* No close_fd of an fdo: what the framework does with its own two, the timer's and
\* the scheduler's.
KeepsFdos == [][\A p, o \in Objs : ~CloseFdo(o) /\ ~EpollMove(p, o)]_vars

-------------------------------------------------------------------------------
(* Properties *)

\* The number o holds names the file o was given.
Owns(o) == fd[o] # NoFd /\ got[o] # 0 /\ file[fd[o]] = got[o]

\* o holds a number that is not its own: it is an fdo whose close_fd was called, or
\* its file was closed by such a one, or by one that was hit so.
Rogue(o) == (class[o] = "fdo" /\ got[o] = 0) \/ got[o] \in robbed

\* Whoever holds a number, and will close it, holds its own file by it, but for the
\* rogues: all that goes wrong goes back to fdo's close_fd, and no frame is ever hit
\* (connection.h:42-65, fd_object.h:14-33, connector.hpp:55-169, task.h:71-90).
HoldsOwnFile ==
    \A o \in Objs : fd[o] # NoFd => Owns(o) \/ (class[o] # "Task" /\ Rogue(o))

\* Every open file has one owner that will close it, however often it is moved, but
\* for those a builder lost; who else holds its number is a rogue.
OneOwner ==
    \A n \in Nums : file[n] \notin {0} \cup lost =>
        \E o \in Objs : /\ fd[o] = n /\ Owns(o)
                        /\ \A p \in Objs \ {o} : fd[p] = n => Rogue(p)

\* The inductive invariant: numbers name different files, owners are alive and share
\* none, and what was lost or robbed is nobody's.
OwnInv ==
    /\ TypeOK
    /\ \A n \in Nums : file[n] <= made /\ file[n] \notin robbed
    /\ \A m, n \in Nums : file[m] = file[n] /\ file[n] # 0 => m = n
    /\ \A o \in Objs : got[o] <= made
    /\ \A o \in Objs : fd[o] # NoFd =>
        /\ class[o] # "none" /\ got[o] \notin lost
        /\ class[o] = "Task" <=> fd[o] \in Frames
    /\ \A o, p \in Objs :
        fd[o] # NoFd /\ fd[p] # NoFd /\ got[o] = got[p] /\ got[p] # 0 => o = p
    /\ HoldsOwnFile
    /\ OneOwner
===============================================================================
