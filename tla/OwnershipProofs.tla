--------------------------- MODULE OwnershipProofs ---------------------------
(***************************************************************************)
(* Proof of what the owners of descriptors and frames keep, and of what an *)
(* fdo's close_fd can break, for any number of objects, numbers and files. *)
(*                                                                         *)
(* Neither HoldsOwnFile nor OneOwner is inductive: a step closes a number,  *)
(* which is right for the others only if files are told apart and each is  *)
(* held by one, and gives a closed number out again, which is right only if *)
(* who still holds it is a rogue.  OwnInv says all of that.                *)
(***************************************************************************)
EXTENDS Ownership, TLAPS

\* OneOwner follows from its first half, in the state after a step: a second holder
\* that is no rogue would hold its own file by the same number, and so the same file.
LEMMA OneIsEnough ==
    ASSUME HoldsOwnFile',
           \A o, p \in Objs :
               fd'[o] # NoFd /\ fd'[p] # NoFd /\ got'[o] = got'[p] /\ got'[p] # 0 => o = p,
           \A n \in Nums : file'[n] \notin {0} \cup lost' =>
               \E o \in Objs : fd'[o] = n /\ Owns(o)'
    PROVE  OneOwner'
<1> SUFFICES ASSUME NEW n \in Nums, file'[n] \notin {0} \cup lost'
             PROVE  \E o \in Objs : /\ fd'[o] = n /\ Owns(o)'
                                    /\ \A p \in Objs \ {o} : fd'[p] = n => Rogue(p)'
  BY DEF OneOwner
<1>1. PICK o \in Objs : fd'[o] = n /\ Owns(o)'
  OBVIOUS
<1>2. ASSUME NEW p \in Objs \ {o}, fd'[p] = n PROVE Rogue(p)'
  <2>1. ~Owns(p)'
    BY <1>1, <1>2 DEF Owns
  <2> QED
    BY <1>1, <1>2, <2>1 DEF HoldsOwnFile, Owns
<1> QED
  BY <1>1, <1>2

\* What a close leaves of the files: the closed one is gone, and whoever it belonged
\* to, if not the closer, has been robbed.
LEMMA CloseRobs ==
    ASSUME OwnInv, NEW o \in Objs, Closes(o)
    PROVE  /\ \A n \in Nums : file'[n] = IF n = fd[o] THEN 0 ELSE file[n]
           /\ file' \in [Nums -> Nat]
           /\ robbed \subseteq robbed' /\ robbed' \subseteq 1..made
           /\ \A n \in Nums : file'[n] \notin robbed'
           /\ \A p \in Objs : fd[p] # NoFd /\ Owns(p) /\ fd[p] = fd[o] /\ p # o =>
                  class[p] # "Task" /\ got[p] \in robbed'
<1>1. \A n \in Nums : file'[n] = IF n = fd[o] THEN 0 ELSE file[n]
  BY DEF Closes
<1>2. file' \in [Nums -> Nat]
  BY DEF Closes, OwnInv, TypeOK
<1>3. robbed \subseteq robbed' /\ robbed' \subseteq 1..made
  <2>1. ASSUME NEW f \in {file[n] : n \in Nums \cap {fd[o]}}, f # 0
        PROVE  f \in 1..made
    BY <2>1 DEF OwnInv, TypeOK
  <2> QED
    BY <2>1 DEF Closes, OwnInv, TypeOK
<1>4. ASSUME NEW n \in Nums PROVE file'[n] \notin robbed'
  <2>1. CASE n = fd[o]
    BY <1>1, <1>3, <2>1 DEF OwnInv, TypeOK
  <2>2. CASE n # fd[o]
    <3> SUFFICES ASSUME file[n] \in {file[m] : m \in Nums \cap {fd[o]}} \ {0, got[o]}
                 PROVE  FALSE
      BY <1>1, <2>2 DEF Closes, OwnInv
    <3> QED
      BY <2>2 DEF OwnInv
  <2> QED
    BY <2>1, <2>2
<1>5. ASSUME NEW p \in Objs, fd[p] # NoFd, Owns(p), fd[p] = fd[o], p # o
      PROVE  class[p] # "Task" /\ got[p] \in robbed'
  <2>1. fd[o] \in Nums /\ file[fd[o]] = got[p] /\ got[p] # 0
    BY <1>5 DEF OwnInv, TypeOK, Owns
  <2>2. got[o] # got[p]
    BY <1>5, <2>1 DEF OwnInv
  <2>3. got[p] \in robbed'
    BY <2>1, <2>2 DEF Closes
  <2>4. class[o] # "Task"
    BY <1>5, <2>1, <2>2 DEF OwnInv, HoldsOwnFile, Owns
  <2> QED
    BY <1>5, <2>3, <2>4 DEF OwnInv
<1> QED
  BY <1>1, <1>2, <1>3, <1>4, <1>5

\* A number is opened for an object that is not alive (Open).
LEMMA OpenKeeps ==
    ASSUME OwnInv, NEW o \in Objs, NEW k \in Classes, NEW n \in Nums, Open(o, k, n),
           k = "Task" <=> n \in Frames
    PROVE  OwnInv'
<1>1. fd[o] = NoFd /\ file[n] = 0 /\ made' = made + 1
      /\ robbed' = robbed /\ lost' = lost /\ n # NoFd
  BY NoFdAssumption DEF OwnInv, Open, NewFile
<1>2. TypeOK'
  BY DEF OwnInv, TypeOK, Open, NewFile, Classes
<1>3. /\ \A p \in Objs : fd'[p] = IF p = o THEN n ELSE fd[p]
      /\ \A p \in Objs : got'[p] = IF p = o THEN made + 1 ELSE got[p]
      /\ \A p \in Objs : class'[p] = IF p = o THEN k ELSE class[p]
      /\ \A m \in Nums : file'[m] = IF m = n THEN made + 1 ELSE file[m]
      /\ made + 1 \notin robbed /\ made + 1 \notin lost
      /\ \A p \in Objs : got[p] # made + 1
      /\ \A m \in Nums : file[m] # made + 1
      /\ made + 1 # 0 /\ k # "none"
  BY DEF OwnInv, TypeOK, Open, NewFile, Classes
<1>4. \A m \in Nums : file'[m] <= made' /\ file'[m] \notin robbed'
  BY <1>1, <1>3 DEF OwnInv, TypeOK
<1>5. \A l, m \in Nums : file'[l] = file'[m] /\ file'[m] # 0 => l = m
  BY <1>3 DEF OwnInv
<1>6. \A p \in Objs : got'[p] <= made'
  BY <1>1, <1>3 DEF OwnInv, TypeOK
<1>7. \A p \in Objs : fd'[p] # NoFd =>
        /\ class'[p] # "none" /\ got'[p] \notin lost'
        /\ class'[p] = "Task" <=> fd'[p] \in Frames
  BY <1>1, <1>3 DEF OwnInv
<1>8. \A p, q \in Objs :
        fd'[p] # NoFd /\ fd'[q] # NoFd /\ got'[p] = got'[q] /\ got'[q] # 0 => p = q
  BY <1>1, <1>3 DEF OwnInv
<1>9. ASSUME NEW p \in Objs, p # o, Owns(p) PROVE Owns(p)'
  BY <1>1, <1>2, <1>3, <1>9 DEF Owns, OwnInv, TypeOK
<1>10. Owns(o)'
  BY <1>1, <1>3 DEF Owns
<1>11. HoldsOwnFile'
  <2> SUFFICES ASSUME NEW p \in Objs, fd'[p] # NoFd, p # o
               PROVE  Owns(p)' \/ (class'[p] # "Task" /\ Rogue(p)')
    BY <1>10 DEF HoldsOwnFile
  <2>1. Rogue(p) => Rogue(p)'
    BY <1>1, <1>3 DEF Rogue
  <2> QED
    BY <1>3, <1>9, <2>1 DEF OwnInv, HoldsOwnFile
<1>12. ASSUME NEW m \in Nums, file'[m] \notin {0} \cup lost'
       PROVE  \E p \in Objs : fd'[p] = m /\ Owns(p)'
  <2>1. CASE m = n
    BY <1>3, <1>10, <2>1
  <2>2. CASE m # n
    <3>1. PICK p \in Objs : fd[p] = m /\ Owns(p)
      BY <1>1, <1>3, <1>12, <2>2 DEF OwnInv, OneOwner
    <3>2. p # o
      BY <1>1, <3>1 DEF Owns
    <3> QED
      BY <1>3, <1>9, <3>1, <3>2
  <2> QED
    BY <2>1, <2>2
<1>13. OneOwner'
  BY <1>8, <1>11, <1>12, OneIsEnough
<1> QED
  BY <1>2, <1>4, <1>5, <1>6, <1>7, <1>8, <1>11, <1>13 DEF OwnInv

\* A step that opens nothing hands numbers on: what o holds after it, from[o] held
\* before it, and by the same right unless that is gone with fdo's close_fd.  C is
\* who closed its number, if somebody did.
HandedOn(from, C) ==
    /\ \A o \in Objs : fd'[o] # NoFd =>
        /\ fd'[o] = fd[from[o]] /\ class'[o] # "none"
        /\ class'[o] = "Task" <=> class[from[o]] = "Task"
        /\ class'[o] = "fdo" <=> class[from[o]] = "fdo"
        /\ got'[o] = got[from[o]] \/ (got'[o] = 0 /\ class'[o] = "fdo")
        /\ from[o] \in C => got'[o] = 0
    /\ \A o, p \in Objs : fd'[o] # NoFd /\ fd'[p] # NoFd /\ from[o] = from[p]
                          /\ got'[o] # 0 /\ got'[p] # 0 => o = p
    /\ \A p \in Objs \ C : fd[p] # NoFd =>
        \E o \in Objs : from[o] = p /\ fd'[o] = fd[p] /\ got'[o] = got[p]

\* It keeps the invariant, whichever of the operations it is.
LEMMA HandingOnKeeps ==
    ASSUME OwnInv, NEW from \in [Objs -> Objs], NEW C \in SUBSET Objs,
           \/ C = {} /\ UNCHANGED <<file, robbed>>
           \/ \E c \in Objs : C = {c} /\ Closes(c),
           HandedOn(from, C),
           class' \in [Objs -> Classes \cup {"none"}],
           fd' \in [Objs -> Nums \cup {NoFd}], got' \in [Objs -> Nat],
           \A o \in Objs : got'[o] <= made,
           UNCHANGED <<made, lost>>
    PROVE  OwnInv'
<1> DEFINE AfterClose ==
      /\ \A n \in Nums : file'[n] = IF \E c \in C : n = fd[c] THEN 0 ELSE file[n]
      /\ file' \in [Nums -> Nat]
      /\ robbed \subseteq robbed' /\ robbed' \subseteq 1..made
      /\ \A n \in Nums : file'[n] \notin robbed'
      /\ \A c \in C : \A p \in Objs : fd[p] # NoFd /\ Owns(p) /\ fd[p] = fd[c] /\ p # c =>
             class[p] # "Task" /\ got[p] \in robbed'
<1>1. AfterClose
  <2>1. CASE C = {} /\ UNCHANGED <<file, robbed>>
    BY <2>1 DEF OwnInv, TypeOK
  <2>2. ASSUME NEW c \in Objs, C = {c}, Closes(c) PROVE AfterClose
    BY <2>2, CloseRobs
  <2> QED
    BY <2>1, <2>2
<1>2. TypeOK'
  BY <1>1 DEF OwnInv, TypeOK
<1>3. \A n \in Nums : file'[n] <= made' /\ file'[n] \notin robbed'
  BY <1>1 DEF OwnInv, TypeOK
<1>4. \A m, n \in Nums : file'[m] = file'[n] /\ file'[n] # 0 => m = n
  BY <1>1 DEF OwnInv
<1>5. \A o \in Objs : fd'[o] # NoFd =>
        /\ class'[o] # "none" /\ got'[o] \notin lost'
        /\ class'[o] = "Task" <=> fd'[o] \in Frames
  <2> SUFFICES ASSUME NEW o \in Objs, fd'[o] # NoFd
               PROVE  /\ class'[o] # "none" /\ got'[o] \notin lost'
                      /\ class'[o] = "Task" <=> fd'[o] \in Frames
    OBVIOUS
  <2>1. from[o] \in Objs /\ fd[from[o]] # NoFd
    BY DEF HandedOn
  <2>2. 0 \notin lost
    BY DEF OwnInv, TypeOK
  <2> QED
    BY <2>1, <2>2 DEF OwnInv, HandedOn
<1>6. \A o, p \in Objs :
        fd'[o] # NoFd /\ fd'[p] # NoFd /\ got'[o] = got'[p] /\ got'[p] # 0 => o = p
  <2> SUFFICES ASSUME NEW o \in Objs, NEW p \in Objs, fd'[o] # NoFd, fd'[p] # NoFd,
                      got'[o] = got'[p], got'[p] # 0
               PROVE  o = p
    OBVIOUS
  <2>1. from[o] = from[p]
    BY DEF OwnInv, HandedOn
  <2> QED
    BY <2>1 DEF HandedOn
<1>7. HoldsOwnFile'
  <2> SUFFICES ASSUME NEW o \in Objs, fd'[o] # NoFd
               PROVE  Owns(o)' \/ (class'[o] # "Task" /\ Rogue(o)')
    BY DEF HoldsOwnFile
  <2>1. CASE got'[o] = 0
    <3>1. class'[o] = "fdo"
      <4>1. from[o] \in Objs /\ fd[from[o]] # NoFd
        BY DEF HandedOn
      <4>2. CASE got[from[o]] = 0
        <5>1. class[from[o]] = "fdo"
          BY <4>1, <4>2 DEF OwnInv, TypeOK, HoldsOwnFile, Owns, Rogue
        <5> QED
          BY <5>1 DEF HandedOn
      <4>3. CASE got[from[o]] # 0
        BY <2>1, <4>3 DEF HandedOn
      <4> QED
        BY <4>2, <4>3
    <3> QED
      BY <2>1, <3>1 DEF Rogue
  <2>2. CASE got'[o] # 0
    <3>1. /\ from[o] \in Objs \ C /\ fd[from[o]] # NoFd
          /\ got'[o] = got[from[o]] /\ fd'[o] = fd[from[o]]
          /\ class'[o] = "Task" <=> class[from[o]] = "Task"
      BY <2>2 DEF HandedOn
    <3>2. CASE Rogue(from[o]) /\ class[from[o]] # "Task"
      BY <1>1, <2>2, <3>1, <3>2 DEF Rogue
    <3>3. CASE Owns(from[o]) /\ \E c \in C : fd[from[o]] = fd[c]
      BY <1>1, <3>1, <3>3 DEF Rogue
    <3>4. CASE Owns(from[o]) /\ ~\E c \in C : fd[from[o]] = fd[c]
      <4>1. fd[from[o]] \in Nums
        BY <3>1 DEF OwnInv, TypeOK
      <4> QED
        BY <1>1, <2>2, <3>1, <3>4, <4>1 DEF Owns
    <3> QED
      BY <3>1, <3>2, <3>3, <3>4 DEF OwnInv, HoldsOwnFile
  <2> QED
    BY <2>1, <2>2
<1>8. ASSUME NEW n \in Nums, file'[n] \notin {0} \cup lost'
      PROVE  \E o \in Objs : fd'[o] = n /\ Owns(o)'
  <2>1. file[n] = file'[n] /\ ~\E c \in C : n = fd[c]
    BY <1>1, <1>8
  <2>2. PICK p \in Objs : fd[p] = n /\ Owns(p)
    BY <1>8, <2>1 DEF OwnInv, OneOwner
  <2>3. p \notin C
    BY <2>1, <2>2
  <2>4. PICK o \in Objs : from[o] = p /\ fd'[o] = fd[p] /\ got'[o] = got[p]
    BY <2>2, <2>3 DEF HandedOn, Owns
  <2> QED
    BY <2>1, <2>2, <2>4 DEF Owns
<1>9. OneOwner'
  BY <1>6, <1>7, <1>8, OneIsEnough
<1> QED
  BY <1>2, <1>3, <1>4, <1>5, <1>6, <1>7, <1>9 DEF OwnInv

\* A builder that throws opens a number and loses it.
LEMMA ThrowKeeps ==
    ASSUME OwnInv, NEW n \in Nums, BuilderThrows(n)
    PROVE  OwnInv'
<1>1. /\ \A m \in Nums : file'[m] = IF m = n THEN made + 1 ELSE file[m]
      /\ file[n] = 0 /\ made' = made + 1 /\ lost' = lost \cup {made + 1}
      /\ made + 1 \notin robbed /\ made + 1 # 0
      /\ \A p \in Objs : got[p] # made + 1
      /\ \A m \in Nums : file[m] # made + 1
      /\ UNCHANGED <<class, fd, got, robbed>>
  BY DEF OwnInv, TypeOK, BuilderThrows, NewFile
<1>2. TypeOK'
  BY DEF OwnInv, TypeOK, BuilderThrows, NewFile
<1>3. \A m \in Nums : file'[m] <= made' /\ file'[m] \notin robbed'
  BY <1>1 DEF OwnInv, TypeOK
<1>4. \A l, m \in Nums : file'[l] = file'[m] /\ file'[m] # 0 => l = m
  BY <1>1 DEF OwnInv
<1>5. \A p \in Objs : got'[p] <= made'
  BY <1>1 DEF OwnInv, TypeOK
<1>6. \A p \in Objs : Owns(p) => Owns(p)'
  BY <1>1 DEF OwnInv, TypeOK, Owns
<1>7. HoldsOwnFile'
  BY <1>1, <1>6 DEF OwnInv, HoldsOwnFile, Rogue
<1>8. ASSUME NEW m \in Nums, file'[m] \notin {0} \cup lost'
      PROVE  \E p \in Objs : fd'[p] = m /\ Owns(p)'
  BY <1>1, <1>6, <1>8 DEF OwnInv, OneOwner
<1>9. \A p, q \in Objs :
        fd'[p] # NoFd /\ fd'[q] # NoFd /\ got'[p] = got'[q] /\ got'[q] # 0 => p = q
  BY <1>1 DEF OwnInv
<1>10. OneOwner'
  BY <1>7, <1>8, <1>9, OneIsEnough
<1> QED
  BY <1>1, <1>2, <1>3, <1>4, <1>5, <1>7, <1>9, <1>10 DEF OwnInv

\* Take over: o has been given what p held, which is left without a number.
Given(p, o) == [q \in Objs |-> IF q = o THEN p ELSE q]

\* construction from another owner, a move or the handing over of a number
LEMMA TakeKeeps ==
    ASSUME OwnInv, NEW p \in Objs, NEW o \in Objs, MoveConstruct(p, o) \/ Listen(p, o)
    PROVE  OwnInv'
<1>1. p # o /\ fd[o] = NoFd
  BY DEF OwnInv, MoveConstruct, Listen, Movable
<1>2. /\ \A q \in Objs : fd'[q] = IF q = p THEN NoFd ELSE IF q = o THEN fd[p] ELSE fd[q]
      /\ \A q \in Objs : got'[q] = IF q = o THEN got[p] ELSE got[q]
      /\ \A q \in Objs \ {o} : class'[q] = class[q]
      /\ class'[o] # "none"
      /\ class'[o] = "Task" <=> class[p] = "Task"
      /\ class'[o] = "fdo" <=> class[p] = "fdo"
  BY <1>1 DEF OwnInv, TypeOK, MoveConstruct, Listen, Movable
<1>3. HandedOn(Given(p, o), {})
  BY <1>1, <1>2 DEF OwnInv, HandedOn, Given
<1>4. /\ class' \in [Objs -> Classes \cup {"none"}]
      /\ fd' \in [Objs -> Nums \cup {NoFd}] /\ got' \in [Objs -> Nat]
      /\ UNCHANGED <<file, robbed, made, lost>>
  BY DEF OwnInv, TypeOK, MoveConstruct, Listen, Classes
<1>5. Given(p, o) \in [Objs -> Objs] /\ \A q \in Objs : got'[q] <= made
  BY <1>2 DEF OwnInv, Given
<1> QED
  BY <1>3, <1>4, <1>5, HandingOnKeeps

\* the number is closed and forgotten
LEMMA ReleaseKeeps ==
    ASSUME OwnInv, NEW o \in Objs, CloseFd(o) \/ Destroy(o)
    PROVE  OwnInv'
<1>1. /\ \A q \in Objs : fd'[q] = IF q = o THEN NoFd ELSE fd[q]
      /\ \A q \in Objs \ {o} : class'[q] = class[q]
      /\ got' = got
  BY DEF OwnInv, TypeOK, CloseFd, Destroy
<1>2. HandedOn(Given(o, o), {o})
  BY <1>1 DEF OwnInv, HandedOn, Given
<1>3. /\ class' \in [Objs -> Classes \cup {"none"}]
      /\ fd' \in [Objs -> Nums \cup {NoFd}] /\ got' \in [Objs -> Nat]
      /\ Closes(o) /\ UNCHANGED <<made, lost>>
  BY DEF OwnInv, TypeOK, CloseFd, Destroy
<1>4. Given(o, o) \in [Objs -> Objs] /\ \A q \in Objs : got'[q] <= made
  BY <1>1 DEF OwnInv, Given
<1> QED
  BY <1>2, <1>3, <1>4, HandingOnKeeps

\* move assignment closes what the target held
LEMMA MoveAssignKeeps ==
    ASSUME OwnInv, NEW p \in Objs, NEW o \in Objs, MoveAssign(p, o)
    PROVE  OwnInv'
<1>1. /\ \A q \in Objs : fd'[q] = IF q = p THEN NoFd ELSE IF q = o THEN fd[p] ELSE fd[q]
      /\ \A q \in Objs : got'[q] = IF q = o THEN got[p] ELSE got[q]
      /\ class' = class /\ class[o] = class[p] /\ p # o
  BY DEF OwnInv, TypeOK, MoveAssign
<1>2. HandedOn(Given(p, o), {o})
  BY <1>1 DEF OwnInv, HandedOn, Given
<1>3. /\ class' \in [Objs -> Classes \cup {"none"}]
      /\ fd' \in [Objs -> Nums \cup {NoFd}] /\ got' \in [Objs -> Nat]
      /\ Closes(o) /\ UNCHANGED <<made, lost>>
  BY DEF OwnInv, TypeOK, MoveAssign
<1>4. Given(p, o) \in [Objs -> Objs] /\ \A q \in Objs : got'[q] <= made
  BY <1>1 DEF OwnInv, Given
<1> QED
  BY <1>2, <1>3, <1>4, HandingOnKeeps

\* swap closes nothing
LEMMA SwapKeeps ==
    ASSUME OwnInv, NEW p \in Objs, NEW o \in Objs, Swap(p, o)
    PROVE  OwnInv'
<1> DEFINE from == [q \in Objs |-> IF q = p THEN o ELSE IF q = o THEN p ELSE q]
<1>1. /\ \A q \in Objs : fd'[q] = fd[from[q]] /\ got'[q] = got[from[q]]
      /\ \A q \in Objs : class'[q] = class[from[q]] /\ from[from[q]] = q
      /\ from \in [Objs -> Objs]
  BY DEF OwnInv, TypeOK, Swap
<1>2. HandedOn(from, {})
  <2> HIDE DEF from
  <2> QED
    BY <1>1 DEF OwnInv, HandedOn
<1>3. /\ class' \in [Objs -> Classes \cup {"none"}]
      /\ fd' \in [Objs -> Nums \cup {NoFd}] /\ got' \in [Objs -> Nat]
      /\ UNCHANGED <<file, robbed, made, lost>>
  BY DEF OwnInv, TypeOK, Swap
<1>4. \A q \in Objs : got'[q] <= made
  BY <1>1 DEF OwnInv
<1> HIDE DEF from
<1> QED
  BY <1>1, <1>2, <1>3, <1>4, HandingOnKeeps

\* close_fd of an fdo, alone or in Epoll_Manager's move constructor, makes rogues
LEMMA CloseFdoKeeps ==
    ASSUME OwnInv, NEW o \in Objs, CloseFdo(o)
    PROVE  OwnInv'
<1>1. /\ \A q \in Objs : got'[q] = IF q = o THEN 0 ELSE got[q]
      /\ fd' = fd /\ class' = class /\ class[o] = "fdo"
  BY DEF OwnInv, TypeOK, CloseFdo
<1>2. HandedOn(Given(o, o), {o})
  BY <1>1 DEF OwnInv, HandedOn, Given
<1>3. /\ class' \in [Objs -> Classes \cup {"none"}]
      /\ fd' \in [Objs -> Nums \cup {NoFd}] /\ got' \in [Objs -> Nat]
      /\ Closes(o) /\ UNCHANGED <<made, lost>>
  BY DEF OwnInv, TypeOK, CloseFdo
<1>4. Given(o, o) \in [Objs -> Objs] /\ \A q \in Objs : got'[q] <= made
  BY <1>1 DEF OwnInv, TypeOK, Given
<1> QED
  BY <1>2, <1>3, <1>4, HandingOnKeeps

LEMMA EpollMoveKeeps ==
    ASSUME OwnInv, NEW p \in Objs, NEW o \in Objs, EpollMove(p, o)
    PROVE  OwnInv'
<1>1. /\ \A q \in Objs : fd'[q] = IF q = o THEN fd[p] ELSE fd[q]
      /\ \A q \in Objs : got'[q] = IF q \in {o, p} THEN 0 ELSE got[q]
      /\ \A q \in Objs : class'[q] = IF q = o THEN "fdo" ELSE class[q]
      /\ class[p] = "fdo" /\ p # o /\ fd[o] = NoFd
  BY DEF OwnInv, TypeOK, EpollMove
<1>2. HandedOn(Given(p, o), {p})
  BY <1>1 DEF OwnInv, HandedOn, Given
<1>3. /\ class' \in [Objs -> Classes \cup {"none"}]
      /\ fd' \in [Objs -> Nums \cup {NoFd}] /\ got' \in [Objs -> Nat]
      /\ Closes(p) /\ UNCHANGED <<made, lost>>
  BY DEF OwnInv, TypeOK, EpollMove, Classes
<1>4. Given(p, o) \in [Objs -> Objs] /\ \A q \in Objs : got'[q] <= made
  BY <1>1 DEF OwnInv, TypeOK, Given
<1> QED
  BY <1>2, <1>3, <1>4, HandingOnKeeps

LEMMA OwnStep ==
    ASSUME OwnInv, [Next]_vars
    PROVE  OwnInv'
<1>1. ASSUME NEW o \in Objs, NEW n \in Fds,
             \/ MakeSocket(o, n) \/ EpollCreate(o, n) \/ BuilderServer(o, n)
             \/ \E a \in Objs : AcceptNow(a, o, n)
      PROVE  OwnInv'
  <2>1. n \in Nums /\ n \notin Frames
    BY FramesAssumption DEF Nums
  <2> QED
    BY <1>1, <2>1, OpenKeeps
       DEF MakeSocket, EpollCreate, BuilderServer, AcceptNow, Classes
<1>2. ASSUME NEW o \in Objs, NEW n \in Frames, CallCoroutine(o, n) PROVE OwnInv'
  BY <1>2, OpenKeeps DEF CallCoroutine, Classes, Nums
<1>3. ASSUME NEW n \in Fds, BuilderThrows(n) PROVE OwnInv'
  BY <1>3, ThrowKeeps DEF Nums
<1>4. ASSUME NEW p \in Objs, NEW o \in Objs,
             Listen(p, o) \/ MoveConstruct(p, o) \/ MoveAssign(p, o)
             \/ Swap(p, o) \/ EpollMove(p, o)
      PROVE  OwnInv'
  BY <1>4, TakeKeeps, MoveAssignKeeps, SwapKeeps, EpollMoveKeeps
<1>5. ASSUME NEW o \in Objs, CloseFd(o) \/ CloseFdo(o) \/ Destroy(o) PROVE OwnInv'
  BY <1>5, ReleaseKeeps, CloseFdoKeeps
<1>6. CASE UNCHANGED vars
  BY <1>6 DEF vars, OwnInv, TypeOK, HoldsOwnFile, OneOwner, Owns, Rogue
<1> QED
  BY <1>1, <1>2, <1>3, <1>4, <1>5, <1>6 DEF Next

LEMMA OwnInit == Init => OwnInv
  BY NoFdAssumption DEF Init, OwnInv, TypeOK, HoldsOwnFile, OneOwner

\* The inductive invariant of the owners (connection.h, fd_object.h, task.h, and
\* MakeSocket and Acceptor in connector.hpp), in every order of their operations, the
\* close_fd of fdo included.
THEOREM Invariance == Spec => []OwnInv
  BY OwnInit, OwnStep, PTL DEF Spec

\* Whoever closes a descriptor has its own in hand, or is an fdo whose close_fd was
\* called before, or was hit by one; whoever destroys a frame has its own in hand.
THEOREM NobodyClosesAnothers == Spec => []HoldsOwnFile
<1>1. OwnInv => HoldsOwnFile
  BY DEF OwnInv
<1> QED
  BY <1>1, Invariance, PTL

\* No file is left without an owner by a move, by an assignment or by another's close,
\* and none has two, but for what a builder that threw has lost.
THEOREM NoneLeaks == Spec => []OneOwner
<1>1. OwnInv => OneOwner
  BY DEF OwnInv
<1> QED
  BY <1>1, Invariance, PTL

\* Nobody is a rogue, and so nobody has been robbed.
Clean == robbed = {} /\ \A o \in Objs : fd[o] # NoFd => Owns(o)

\* Where no fdo's close_fd is called, which is how the framework uses the two it has,
\* every holder of a number holds its own file, without exception.
THEOREM KeptFdosAreSafe == Spec /\ KeepsFdos => []Clean
<1> DEFINE Keeps == \A p, o \in Objs : ~CloseFdo(o) /\ ~EpollMove(p, o)
<1>1. Init => Clean
  BY DEF Init, Clean
<1>2. ASSUME OwnInv, OwnInv', Clean, [Next]_vars, [Keeps]_vars PROVE Clean'
  <2>1. ASSUME NEW o \in Objs, Closes(o) PROVE robbed' = {}
    <3>1. ASSUME NEW n \in Nums, n = fd[o] PROVE file[n] = got[o]
      BY <1>2, <3>1, NoFdAssumption DEF Clean, Owns
    <3> QED
      BY <1>2, <2>1, <3>1 DEF Closes, Clean
  <2>2. robbed' = {}
    BY <1>2, <2>1
       DEF Clean, Next, MakeSocket, EpollCreate, BuilderServer, AcceptNow, CallCoroutine,
           Open, NewFile, BuilderThrows, Listen, MoveConstruct, MoveAssign, Swap,
           CloseFd, Destroy, vars
  <2>3. \A o \in Objs : fd'[o] # NoFd => got'[o] # 0
    <3>1. \A o \in Objs : fd[o] # NoFd => got[o] # 0
      BY <1>2 DEF Clean, Owns
    <3>2. made + 1 # 0
      BY <1>2 DEF OwnInv, TypeOK
    <3>3. CASE UNCHANGED vars
      BY <3>1, <3>3 DEF vars
    <3>4. ASSUME NEW o \in Objs, NEW n \in Nums, NEW k \in Classes, Open(o, k, n)
          PROVE  \A q \in Objs : fd'[q] # NoFd => got'[q] # 0
      <4>1. \A q \in Objs : fd'[q] = IF q = o THEN n ELSE fd[q]
        BY <1>2, <3>4 DEF Open, OwnInv, TypeOK
      <4>2. \A q \in Objs : got'[q] = IF q = o THEN made + 1 ELSE got[q]
        BY <1>2, <3>4 DEF Open, OwnInv, TypeOK
      <4> QED
        BY <3>1, <3>2, <4>1, <4>2
    <3>5. CASE \E n \in Fds : BuilderThrows(n)
      BY <3>1, <3>5 DEF BuilderThrows
    <3>6. CASE \E p, o \in Objs : Listen(p, o) \/ MoveConstruct(p, o)
                                  \/ MoveAssign(p, o) \/ Swap(p, o)
      BY <1>2, <3>1, <3>6
         DEF Listen, MoveConstruct, MoveAssign, Swap, OwnInv, TypeOK, Movable
    <3>7. CASE \E o \in Objs : CloseFd(o) \/ Destroy(o)
      BY <1>2, <3>1, <3>7 DEF CloseFd, Destroy, OwnInv, TypeOK
    <3> QED
      BY <1>2, <3>3, <3>4, <3>5, <3>6, <3>7
         DEF Next, MakeSocket, EpollCreate, BuilderServer, AcceptNow, CallCoroutine,
             Classes, Nums, vars
  <2> QED
    BY <1>2, <2>2, <2>3 DEF Clean, OwnInv, HoldsOwnFile, Rogue
<1>3. Spec => []OwnInv
  BY Invariance
<1> QED
  BY <1>1, <1>2, <1>3, PTL DEF Spec, KeepsFdos
===============================================================================
