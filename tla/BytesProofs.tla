------------------------------ MODULE BytesProofs ------------------------------
(***************************************************************************)
(* Every byte is reported once: what an operation has moved is counted     *)
(* with it until it returns, over retries, timeouts, cancellation, resets  *)
(* and the reuse of descriptor numbers.  And a read that reports success   *)
(* has filled its buffer or met the end, where no read has a timeout.      *)
(***************************************************************************)
EXTENDS ConnectionsProofs

-------------------------------------------------------------------------------
(* The sum of what the operations on a socket hold *)

\* nobody on the socket: nothing is held
LEMMA HeldNone ==
    ASSUME NEW f, NEW K, NEW s, \A c \in Coros : ~(f[c].kind \in K /\ f[c].fd = s)
    PROVE  Held(f, K, s) = 0
<1>1. {c \in Coros : f[c].kind \in K /\ f[c].fd = s} = {}
  OBVIOUS
<1> DEFINE Sum(i) == [S \in SUBSET {} |->
                         IF S = {} THEN 0
                         ELSE f[CHOOSE x \in S : TRUE].got + i[S \ {CHOOSE x \in S : TRUE}]]
           sum == CHOOSE i : i = Sum(i)
<1>2. Held(f, K, s) = sum[{}]
  BY <1>1 DEF Held, MapThenSumSet, MapThenFoldSet
<1>3. [S \in SUBSET {} |-> 0] = Sum([S \in SUBSET {} |-> 0])
  OBVIOUS
<1>4. sum = Sum(sum)
  BY <1>3
<1> QED
  BY <1>2, <1>4

\* one operation on the socket holds what it has moved
LEMMA HeldOne ==
    ASSUME NEW f, NEW K, NEW s, NEW d \in Coros, f[d].kind \in K, f[d].fd = s, f[d].got \in Nat,
           \A c \in Coros \ {d} : ~(f[c].kind \in K /\ f[c].fd = s)
    PROVE  Held(f, K, s) = f[d].got
<1>1. {c \in Coros : f[c].kind \in K /\ f[c].fd = s} = {d}
  OBVIOUS
<1> DEFINE Sum(i) == [S \in SUBSET {d} |->
                         IF S = {} THEN 0
                         ELSE f[CHOOSE x \in S : TRUE].got + i[S \ {CHOOSE x \in S : TRUE}]]
           sum == CHOOSE i : i = Sum(i)
           w == [S \in SUBSET {d} |-> IF S = {} THEN 0 ELSE f[d].got]
<1>2. Held(f, K, s) = sum[{d}]
  BY <1>1 DEF Held, MapThenSumSet, MapThenFoldSet
<1>3. w = Sum(w)
  <2>1. ASSUME NEW S \in SUBSET {d}
        PROVE  w[S] = IF S = {} THEN 0
                      ELSE f[CHOOSE x \in S : TRUE].got + w[S \ {CHOOSE x \in S : TRUE}]
    <3>1. S = {} \/ S = {d}
      OBVIOUS
    <3>2. (CHOOSE x \in {d} : TRUE) = d /\ {d} \ {d} = {}
      OBVIOUS
    <3> QED
      BY <3>1, <3>2
  <2> QED
    BY <2>1
<1>4. sum = Sum(sum)
  BY <1>3
<1>5. sum[{}] = 0
  BY <1>4
<1>6. (CHOOSE x \in {d} : TRUE) = d /\ {d} \ {d} = {} /\ {d} # {}
  OBVIOUS
<1>7. {d} \in SUBSET {d}
  OBVIOUS
<1> HIDE DEF sum
<1>8. sum[{d}] = f[CHOOSE x \in {d} : TRUE].got + sum[{d} \ {CHOOSE x \in {d} : TRUE}]
  BY <1>4, <1>6, <1>7
<1>9. sum[{d}] = f[d].got + 0
  BY <1>5, <1>6, <1>8
<1> QED
  BY <1>2, <1>9


\* f's operation of c counts for the kinds K on s
On(f, c, K, s) == f[c].kind \in K /\ f[c].fd = s
Share(f, c, K, s) == IF On(f, c, K, s) THEN f[c].got ELSE 0

\* at most one operation counts
Single(f, K, s) == \A c, d \in Coros : c # d => ~(On(f, c, K, s) /\ On(f, d, K, s))

Moving(f) == \A c \in Coros, s \in Socks, K \in {Reads, Writes} : On(f, c, K, s) => f[c].got \in Nat

\* The sum changes by what the one operation that changes holds.
LEMMA HeldMoves ==
    ASSUME NEW f, NEW g, Moving(f), Moving(g),
           NEW K \in {Reads, Writes}, NEW s \in Socks, Single(f, K, s), Single(g, K, s),
           NEW c \in Coros, \A d \in Coros \ {c} : g[d] = f[d]
    PROVE  /\ Held(f, K, s) \in Nat /\ Held(g, K, s) \in Nat
           /\ Share(f, c, K, s) \in Nat /\ Share(g, c, K, s) \in Nat
           /\ Held(g, K, s) + Share(f, c, K, s) = Held(f, K, s) + Share(g, c, K, s)
<1>1. ASSUME NEW h, Moving(h), Single(h, K, s)
      PROVE  /\ Share(h, c, K, s) \in Nat
             /\ On(h, c, K, s) => Held(h, K, s) = Share(h, c, K, s)
             /\ \A d \in Coros : On(h, d, K, s) => Held(h, K, s) = h[d].got /\ h[d].got \in Nat
             /\ (\A d \in Coros : ~On(h, d, K, s)) => Held(h, K, s) = 0
  <2>1. \A d \in Coros : On(h, d, K, s) => h[d].got \in Nat
    BY <1>1 DEF Moving
  <2>2. ASSUME NEW d \in Coros, On(h, d, K, s)
        PROVE  Held(h, K, s) = h[d].got
    <3>1. \A e \in Coros \ {d} : ~(h[e].kind \in K /\ h[e].fd = s)
      BY <1>1, <2>2 DEF Single, On
    <3> QED
      BY <2>1, <2>2, <3>1, HeldOne DEF On
  <2>3. (\A d \in Coros : ~On(h, d, K, s)) => Held(h, K, s) = 0
    BY HeldNone DEF On
  <2> QED
    BY <2>1, <2>2, <2>3 DEF Share
<1>2. CASE On(f, c, K, s) /\ On(g, c, K, s)
  BY <1>1, <1>2
<1>3. CASE On(f, c, K, s) /\ ~On(g, c, K, s)
  <2>1. \A d \in Coros : ~On(g, d, K, s)
    BY <1>3 DEF Single, On
  <2> QED
    BY <1>1, <1>3, <2>1 DEF Share
<1>4. CASE ~On(f, c, K, s) /\ On(g, c, K, s)
  <2>1. \A d \in Coros : ~On(f, d, K, s)
    BY <1>4 DEF Single, On
  <2> QED
    BY <1>1, <1>4, <2>1 DEF Share
<1>5. CASE ~On(f, c, K, s) /\ ~On(g, c, K, s)
  <2>1. \A d \in Coros : On(f, d, K, s) <=> On(g, d, K, s)
    BY <1>5 DEF On
  <2>2. CASE \E d \in Coros : On(f, d, K, s)
    <3>1. PICK d \in Coros : On(f, d, K, s)
      BY <2>2
    <3>2. On(g, d, K, s) /\ g[d] = f[d]
      BY <1>5, <2>1, <3>1
    <3>3. Held(f, K, s) = f[d].got /\ Held(g, K, s) = g[d].got /\ f[d].got \in Nat
      BY <1>1, <3>1, <3>2
    <3> QED
      BY <1>5, <3>2, <3>3 DEF Share
  <2>3. CASE \A d \in Coros : ~On(f, d, K, s)
    BY <1>1, <1>5, <2>1, <2>3 DEF Share
  <2> QED
    BY <2>2, <2>3
<1> QED
  BY <1>2, <1>3, <1>4, <1>5

\* One operation per direction of a socket is one operation in each sum.
LEMMA OneCounts ==
    ASSUME NEW f \in [Coros -> Operation \cup {Idle}],
           \A c, d \in Coros :
              /\ c # d /\ f[c] # Idle /\ f[d] # Idle
              /\ f[c].fd = f[d].fd /\ f[c].fd \in Socks
              => (f[c].kind \in Ins) # (f[d].kind \in Ins)
    PROVE  /\ \A K \in {Reads, Writes}, s \in Socks : Single(f, K, s)
           /\ Moving(f)
<1>1. ASSUME NEW c \in Coros, NEW z \in Socks, NEW L \in {Reads, Writes}, On(f, c, L, z)
      PROVE  /\ f[c] # Idle /\ f[c].got \in Nat /\ f[c].fd = z
             /\ L = Reads => f[c].kind \in Ins
             /\ L = Writes => f[c].kind \notin Ins
  <2>1. f[c].kind # "none"
    BY <1>1 DEF On, Reads, Writes
  <2>2. f[c] \in Operation
    BY <2>1 DEF Idle
  <2> QED
    BY <1>1, <2>1, <2>2 DEF On, Idle, Ins, Reads, Writes, Operation
<1>2. Moving(f)
  BY <1>1 DEF Moving
<1>3. ASSUME NEW K \in {Reads, Writes}, NEW s \in Socks
      PROVE  Single(f, K, s)
  BY <1>1, <1>3 DEF Single
<1> QED
  BY <1>2, <1>3

-------------------------------------------------------------------------------
(* Steps and the books *)

\* The step of c keeps the books of s: what the kernel, the operation and the
\* results say of s changes by the same number of bytes.
Balanced(c, s) ==
    /\ sock'[s].sent + sock[s].inbox + sock[s].told.in + Share(op, c, Reads, s)
          = sock[s].sent + sock'[s].inbox + sock'[s].told.in + Share(op', c, Reads, s)
    /\ sock'[s].taken + sock[s].told.out + Share(op, c, Writes, s)
          = sock[s].taken + sock'[s].told.out + Share(op', c, Writes, s)

\* s is a new socket, or none, and nothing moves bytes on it.
Fresh(s) ==
    /\ sock'[s].sent = 0 /\ sock'[s].inbox = 0 /\ sock'[s].taken = 0
    /\ sock'[s].told.in = 0 /\ sock'[s].told.out = 0
    /\ \A d \in Coros : ~On(op', d, Reads, s) /\ ~On(op', d, Writes, s)

\* The sums of one side of the books, before and after
LEMMA Ledger ==
    ASSUME NEW all \in Nat, NEW kernel \in Nat, NEW told \in Nat, NEW held \in Nat, NEW x \in Nat,
           NEW all2 \in Nat, NEW kernel2 \in Nat, NEW told2 \in Nat, NEW held2 \in Nat, NEW y \in Nat,
           all = kernel + told + held, held2 + x = held + y,
           all2 + kernel + told + x = all + kernel2 + told2 + y
    PROVE  all2 = kernel2 + told2 + held2
OBVIOUS

\* The books stay balanced when only c moves, and each socket is balanced or new.
LEMMA BooksKept ==
    ASSUME IInv, IInv', BytesReported, NEW c \in Coros,
           \A d \in Coros \ {c} : op'[d] = op[d],
           \A s \in Socks : Balanced(c, s) \/ Fresh(s)
    PROVE  BytesReported'
<1>1. ASSUME NEW K \in {Reads, Writes}, NEW s \in Socks
      PROVE  /\ Held(op, K, s) \in Nat /\ Held(op', K, s) \in Nat
             /\ Share(op, c, K, s) \in Nat /\ Share(op', c, K, s) \in Nat
             /\ Held(op', K, s) + Share(op, c, K, s) = Held(op, K, s) + Share(op', c, K, s)
  <2>1. Single(op, K, s) /\ Moving(op)
    BY OneCounts DEF IInv, Core, TypeOK, OneWaiter, Busy
  <2>2. Single(op', K, s) /\ Moving(op')
    BY OneCounts DEF IInv, Core, TypeOK, OneWaiter, Busy
  <2> QED
    BY <2>1, <2>2, HeldMoves
<1>2. ASSUME NEW s \in Socks
      PROVE  /\ sock[s].sent \in Nat /\ sock[s].inbox \in Nat /\ sock[s].taken \in Nat
             /\ sock[s].told.in \in Nat /\ sock[s].told.out \in Nat
             /\ sock'[s].sent \in Nat /\ sock'[s].inbox \in Nat /\ sock'[s].taken \in Nat
             /\ sock'[s].told.in \in Nat /\ sock'[s].told.out \in Nat
  BY DEF IInv, TypeOK, SocketState
<1>3. SUFFICES ASSUME NEW s \in Socks
               PROVE  /\ sock'[s].sent = sock'[s].inbox + sock'[s].told.in + Held(op', Reads, s)
                      /\ sock'[s].taken = sock'[s].told.out + Held(op', Writes, s)
  BY DEF BytesReported, InFlight
<1>4. CASE Balanced(c, s)
  <2>1. /\ sock[s].sent = sock[s].inbox + sock[s].told.in + Held(op, Reads, s)
        /\ sock[s].taken = sock[s].told.out + Held(op, Writes, s)
    BY DEF BytesReported, InFlight
  <2>2. sock'[s].sent = sock'[s].inbox + sock'[s].told.in + Held(op', Reads, s)
    <3>1. sock'[s].sent + sock[s].inbox + sock[s].told.in + Share(op, c, Reads, s)
             = sock[s].sent + sock'[s].inbox + sock'[s].told.in + Share(op', c, Reads, s)
      BY <1>4 DEF Balanced
    <3>2. /\ Held(op, Reads, s) \in Nat /\ Held(op', Reads, s) \in Nat
          /\ Share(op, c, Reads, s) \in Nat /\ Share(op', c, Reads, s) \in Nat
          /\ Held(op', Reads, s) + Share(op, c, Reads, s)
                = Held(op, Reads, s) + Share(op', c, Reads, s)
      BY <1>1
    <3> QED
      BY <1>2, <2>1, <3>1, <3>2, Ledger
  <2>3. sock'[s].taken = sock'[s].told.out + Held(op', Writes, s)
    <3>1. sock'[s].taken + sock[s].told.out + Share(op, c, Writes, s)
             = sock[s].taken + sock'[s].told.out + Share(op', c, Writes, s)
      BY <1>4 DEF Balanced
    <3>2. /\ sock[s].taken = 0 + sock[s].told.out + Held(op, Writes, s)
          /\ sock'[s].taken + 0 + sock[s].told.out + Share(op, c, Writes, s)
               = sock[s].taken + 0 + sock'[s].told.out + Share(op', c, Writes, s)
      BY <1>2, <2>1, <3>1
    <3>3. sock'[s].taken = 0 + sock'[s].told.out + Held(op', Writes, s)
      BY <1>1, <1>2, <3>2, Ledger
    <3> QED
      BY <1>2, <3>3
  <2> QED
    BY <2>2, <2>3
<1>5. CASE Fresh(s)
  <2>1. Held(op', Reads, s) = 0 /\ Held(op', Writes, s) = 0
    BY <1>5, HeldNone DEF Fresh, On
  <2> QED
    BY <1>5, <2>1 DEF Fresh
<1> QED
  BY <1>3, <1>4, <1>5

\* Steps that leave the operations alone, and move bytes between a peer and the
\* kernel only
LEMMA BooksUntouched ==
    ASSUME BytesReported, op' = op, IInv, IInv',
           \A s \in Socks : \/ /\ sock'[s].sent + sock[s].inbox = sock[s].sent + sock'[s].inbox
                              /\ sock'[s].told = sock[s].told /\ sock'[s].taken = sock[s].taken
                           \/ Fresh(s)
    PROVE  BytesReported'
<1>1. SUFFICES ASSUME NEW s \in Socks
               PROVE  /\ sock'[s].sent = sock'[s].inbox + sock'[s].told.in + Held(op, Reads, s)
                      /\ sock'[s].taken = sock'[s].told.out + Held(op, Writes, s)
  BY DEF BytesReported, InFlight
<1>2. /\ sock[s].sent = sock[s].inbox + sock[s].told.in + Held(op, Reads, s)
      /\ sock[s].taken = sock[s].told.out + Held(op, Writes, s)
  BY DEF BytesReported, InFlight
<1>3. CASE Fresh(s)
  BY <1>3, HeldNone DEF Fresh, On
<1>4. CASE /\ sock'[s].sent + sock[s].inbox = sock[s].sent + sock'[s].inbox
           /\ sock'[s].told = sock[s].told /\ sock'[s].taken = sock[s].taken
  <2>1. /\ sock[s].sent \in Nat /\ sock[s].inbox \in Nat /\ sock[s].told.in \in Nat
        /\ sock'[s].sent \in Nat /\ sock'[s].inbox \in Nat
    BY DEF IInv, TypeOK, SocketState
  <2>2. Single(op, Reads, s) /\ Moving(op)
    BY OneCounts DEF IInv, Core, TypeOK, OneWaiter, Busy
  <2>3. Held(op, Reads, s) \in Nat
    BY <2>2, HeldNone, HeldOne DEF Single, Moving, On
  <2>4. sock'[s].told.in = sock[s].told.in /\ sock'[s].told.out = sock[s].told.out
    BY <1>4
  <2>5. sock'[s].sent + sock[s].inbox + sock[s].told.in + 0
           = sock[s].sent + sock'[s].inbox + sock'[s].told.in + 0
    BY <1>4, <2>1, <2>4
  <2>6. sock'[s].sent = sock'[s].inbox + sock'[s].told.in + Held(op, Reads, s)
    BY <1>2, <2>1, <2>3, <2>4, <2>5, Ledger
  <2> QED
    BY <1>2, <1>4, <2>4, <2>6
<1> QED
  BY <1>1, <1>3, <1>4


-------------------------------------------------------------------------------
(* The awaiters *)

\* What the await_resume of a read does: it takes n bytes from the kernel, and
\* reports all that the operation has read when it returns.
Draws(c) ==
    \E n \in Nat :
       /\ n <= sock[op[c].fd].inbox
       /\ \/ /\ op' = [op EXCEPT ![c] = Idle]
             /\ sock' = [sock EXCEPT ![op[c].fd].inbox = @ - n,
                                     ![op[c].fd].told.in = @ + (op[c].got + n)]
          \/ /\ op' = [op EXCEPT ![c].got = op[c].got + n] /\ op[c].kind # "read_some"
             /\ sock' = [sock EXCEPT ![op[c].fd].inbox = @ - n]

\* ... and that of a write, with the bytes send accepts
Accepts(c) ==
    \E n \in Nat :
       \/ /\ op' = [op EXCEPT ![c] = Idle]
          /\ sock' = [sock EXCEPT ![op[c].fd].taken = @ + n,
                                  ![op[c].fd].told.out = @ + (op[c].got + n)]
       \/ /\ op' = [op EXCEPT ![c].got = op[c].got + n]
          /\ sock' = [sock EXCEPT ![op[c].fd].taken = @ + n]

\* What c is left with after either
LEMMA ShareAfter ==
    ASSUME TypeOK, NEW c \in Coros, op[c] \in Operation, NEW n \in Nat,
           op' = [op EXCEPT ![c] = Idle] \/ op' = [op EXCEPT ![c].got = n],
           NEW K \in {Reads, Writes}, NEW s
    PROVE  /\ \A d \in Coros \ {c} : op'[d] = op[d]
           /\ Share(op, c, K, s) = IF op[c].kind \in K /\ op[c].fd = s THEN op[c].got ELSE 0
           /\ op' = [op EXCEPT ![c] = Idle] => Share(op', c, K, s) = 0
           /\ op' # [op EXCEPT ![c] = Idle] =>
                 Share(op', c, K, s) = IF op[c].kind \in K /\ op[c].fd = s THEN n ELSE 0
<1>1. Idle.kind \notin K
  BY DEF Idle, Reads, Writes
<1>2. CASE op' = [op EXCEPT ![c] = Idle]
  <2>1. op'[c] = Idle /\ \A d \in Coros \ {c} : op'[d] = op[d]
    BY <1>2 DEF TypeOK
  <2> QED
    BY <1>1, <1>2, <2>1 DEF Share, On
<1>3. CASE op' # [op EXCEPT ![c] = Idle]
  <2>1. op' = [op EXCEPT ![c].got = n]
    BY <1>3
  <2>2. /\ op'[c].kind = op[c].kind /\ op'[c].fd = op[c].fd /\ op'[c].got = n
        /\ \A d \in Coros \ {c} : op'[d] = op[d]
    BY <2>1 DEF TypeOK, Operation
  <2> QED
    BY <1>3, <2>2 DEF Share, On
<1> QED
  BY <1>2, <1>3

\* The books after one turn of the loop around an awaiter
LEMMA TurnKeeps ==
    ASSUME IInv, IInv', BytesReported, NEW c \in Coros, Busy(c),
           op[c].kind \in Reads \cup Writes, NEW n \in Nat, NEW told \in Nat,
           \/ op' = [op EXCEPT ![c] = Idle] /\ told = op[c].got + n
           \/ op' = [op EXCEPT ![c].got = op[c].got + n] /\ told = 0,
           \A z \in Socks \ {op[c].fd} : sock'[z] = sock[z],
           sock'[op[c].fd].sent = sock[op[c].fd].sent,
           op[c].kind \in Reads =>
              /\ sock'[op[c].fd].inbox + n = sock[op[c].fd].inbox
              /\ sock'[op[c].fd].told.in = sock[op[c].fd].told.in + told
              /\ sock'[op[c].fd].taken = sock[op[c].fd].taken
              /\ sock'[op[c].fd].told.out = sock[op[c].fd].told.out,
           op[c].kind \in Writes =>
              /\ sock'[op[c].fd].taken = sock[op[c].fd].taken + n
              /\ sock'[op[c].fd].told.out = sock[op[c].fd].told.out + told
              /\ sock'[op[c].fd].inbox = sock[op[c].fd].inbox
              /\ sock'[op[c].fd].told.in = sock[op[c].fd].told.in
    PROVE  BytesReported'
<1> DEFINE s == op[c].fd
           got == op[c].got
           in(z) == Share(op, c, Reads, z)
           in2(z) == Share(op', c, Reads, z)
           out(z) == Share(op, c, Writes, z)
           out2(z) == Share(op', c, Writes, z)
<1>1. /\ op[c] \in Operation /\ got \in Nat /\ got + n \in Nat /\ s \in Socks
      /\ op[c].kind \in Reads <=> op[c].kind \notin Writes
      /\ TypeOK
  BY OperationFacts DEF IInv, Core, Reads, Writes
<1>2. \A d \in Coros \ {c} : op'[d] = op[d]
  BY DEF IInv, TypeOK
<1>3. op' # [op EXCEPT ![c] = Idle] => op' = [op EXCEPT ![c].got = got + n] /\ told = 0
  OBVIOUS
<1>4. op' = [op EXCEPT ![c] = Idle] => told = got + n
  <2>1. [op EXCEPT ![c].got = op[c].got + n] # [op EXCEPT ![c] = Idle]
    <3>1. [op EXCEPT ![c].got = op[c].got + n][c].kind = op[c].kind
      BY <1>1 DEF TypeOK, Operation
    <3>2. [op EXCEPT ![c] = Idle][c].kind = "none"
      BY DEF IInv, TypeOK, Idle
    <3> QED
      BY <3>1, <3>2 DEF Reads, Writes
  <2> QED
    BY <2>1
<1>5. ASSUME NEW z \in Socks, z # s
      PROVE  in(z) = 0 /\ in2(z) = 0 /\ out(z) = 0 /\ out2(z) = 0
  BY <1>1, <1>3, <1>5, ShareAfter
<1>6. op[c].kind \in Reads => /\ in(s) = got /\ in2(s) + told = got + n
                              /\ out(s) = 0 /\ out2(s) = 0 /\ in2(s) \in Nat
  BY <1>1, <1>3, <1>4, ShareAfter
<1>7. op[c].kind \in Writes => /\ out(s) = got /\ out2(s) + told = got + n
                               /\ in(s) = 0 /\ in2(s) = 0 /\ out2(s) \in Nat
  BY <1>1, <1>3, <1>4, ShareAfter
<1>8. \A z \in Socks : /\ sock[z].sent \in Nat /\ sock[z].inbox \in Nat /\ sock[z].taken \in Nat
                        /\ sock[z].told.in \in Nat /\ sock[z].told.out \in Nat
                        /\ sock'[z].sent \in Nat /\ sock'[z].inbox \in Nat /\ sock'[z].taken \in Nat
                        /\ sock'[z].told.in \in Nat /\ sock'[z].told.out \in Nat
  BY DEF IInv, TypeOK, SocketState
<1> HIDE DEF s, got, in, in2, out, out2
<1>9. ASSUME NEW z \in Socks
      PROVE  /\ sock'[z].sent + sock[z].inbox + sock[z].told.in + in(z)
                   = sock[z].sent + sock'[z].inbox + sock'[z].told.in + in2(z)
             /\ sock'[z].taken + sock[z].told.out + out(z)
                   = sock[z].taken + sock'[z].told.out + out2(z)
  <2>1. CASE z # s
    BY <1>5, <1>8, <2>1 DEF s
  <2>2. CASE z = s /\ op[c].kind \in Reads
    BY <1>1, <1>6, <1>8, <2>2 DEF s
  <2>3. CASE z = s /\ op[c].kind \in Writes
    BY <1>1, <1>7, <1>8, <2>3 DEF s
  <2> QED
    BY <2>1, <2>2, <2>3
<1>10. \A z \in Socks : Balanced(c, z)
  BY <1>9 DEF Balanced, in, in2, out, out2
<1> QED
  BY <1>2, <1>10, BooksKept


\* A read moves bytes from the kernel to its buffer and reports them when it ends.
LEMMA DrawsKeep ==
    ASSUME IInv, IInv', BytesReported, NEW c \in Coros, Busy(c), op[c].kind \in Reads, Draws(c)
    PROVE  BytesReported'
<1> DEFINE s == op[c].fd
<1>1. PICK n \in Nat :
         /\ n <= sock[s].inbox
         /\ \/ /\ op' = [op EXCEPT ![c] = Idle]
               /\ sock' = [sock EXCEPT ![s].inbox = @ - n, ![s].told.in = @ + (op[c].got + n)]
            \/ /\ op' = [op EXCEPT ![c].got = op[c].got + n]
               /\ sock' = [sock EXCEPT ![s].inbox = @ - n]
  BY DEF Draws
<1>2. /\ s \in Socks /\ op[c].got \in Nat /\ op[c].kind \notin Writes
      /\ sock \in [Socks -> SocketState] /\ sock[s] \in SocketState
  BY OperationFacts DEF IInv, TypeOK, Core, Reads, Writes
<1>3. \A z \in Socks \ {s} : sock'[z] = sock[z]
  BY <1>1, <1>2
<1>4. ASSUME NEW told \in Nat,
             sock'[s] = [sent |-> sock[s].sent, inbox |-> sock[s].inbox - n,
                         drained |-> sock[s].drained, taken |-> sock[s].taken,
                         told |-> [in |-> sock[s].told.in + told, out |-> sock[s].told.out],
                         link |-> sock[s].link, owner |-> sock[s].owner],
             \/ op' = [op EXCEPT ![c] = Idle] /\ told = op[c].got + n
             \/ op' = [op EXCEPT ![c].got = op[c].got + n] /\ told = 0
      PROVE  BytesReported'
  <2>1. /\ sock'[s].sent = sock[s].sent /\ sock'[s].inbox + n = sock[s].inbox
        /\ sock'[s].told.in = sock[s].told.in + told
        /\ sock'[s].taken = sock[s].taken /\ sock'[s].told.out = sock[s].told.out
    BY <1>1, <1>2, <1>4 DEF SocketState
  <2> QED
    BY <1>2, <1>3, <1>4, <2>1, TurnKeeps
<1>5. CASE /\ op' = [op EXCEPT ![c] = Idle]
           /\ sock' = [sock EXCEPT ![s].inbox = @ - n, ![s].told.in = @ + (op[c].got + n)]
  <2> DEFINE count == op[c].got + n
  <2>1. count \in Nat /\ sock' = [sock EXCEPT ![s].inbox = @ - n, ![s].told.in = @ + count]
    BY <1>2, <1>5
  <2>2. count = op[c].got + n
    OBVIOUS
  <2> HIDE DEF count
  <2>3. sock'[s] = [sent |-> sock[s].sent, inbox |-> sock[s].inbox - n,
                    drained |-> sock[s].drained, taken |-> sock[s].taken,
                    told |-> [in |-> sock[s].told.in + count, out |-> sock[s].told.out],
                    link |-> sock[s].link, owner |-> sock[s].owner]
    BY <1>2, <2>1 DEF SocketState
  <2> QED
    BY <1>4, <1>5, <2>1, <2>2, <2>3
<1>6. CASE /\ op' = [op EXCEPT ![c].got = op[c].got + n]
           /\ sock' = [sock EXCEPT ![s].inbox = @ - n]
  <2>1. sock'[s] = [sent |-> sock[s].sent, inbox |-> sock[s].inbox - n,
                    drained |-> sock[s].drained, taken |-> sock[s].taken,
                    told |-> [in |-> sock[s].told.in + 0, out |-> sock[s].told.out],
                    link |-> sock[s].link, owner |-> sock[s].owner]
    BY <1>2, <1>6 DEF SocketState
  <2>2. 0 \in Nat
    OBVIOUS
  <2> QED
    BY <1>4, <1>6, <2>1, <2>2
<1> QED
  BY <1>1, <1>5, <1>6

\* A write reports what send accepted, when it ends.
LEMMA AcceptsKeep ==
    ASSUME IInv, IInv', BytesReported, NEW c \in Coros, Busy(c), op[c].kind \in Writes, Accepts(c)
    PROVE  BytesReported'
<1> DEFINE s == op[c].fd
<1>1. PICK n \in Nat :
         \/ /\ op' = [op EXCEPT ![c] = Idle]
            /\ sock' = [sock EXCEPT ![s].taken = @ + n, ![s].told.out = @ + (op[c].got + n)]
         \/ /\ op' = [op EXCEPT ![c].got = op[c].got + n]
            /\ sock' = [sock EXCEPT ![s].taken = @ + n]
  BY DEF Accepts
<1>2. /\ s \in Socks /\ op[c].got \in Nat /\ op[c].kind \notin Reads
      /\ sock \in [Socks -> SocketState] /\ sock[s] \in SocketState
  BY OperationFacts DEF IInv, TypeOK, Core, Reads, Writes
<1>3. \A z \in Socks \ {s} : sock'[z] = sock[z]
  BY <1>1, <1>2
<1>4. ASSUME NEW told \in Nat,
             sock'[s] = [sent |-> sock[s].sent, inbox |-> sock[s].inbox,
                         drained |-> sock[s].drained, taken |-> sock[s].taken + n,
                         told |-> [in |-> sock[s].told.in, out |-> sock[s].told.out + told],
                         link |-> sock[s].link, owner |-> sock[s].owner],
             \/ op' = [op EXCEPT ![c] = Idle] /\ told = op[c].got + n
             \/ op' = [op EXCEPT ![c].got = op[c].got + n] /\ told = 0
      PROVE  BytesReported'
  <2>1. /\ sock'[s].sent = sock[s].sent /\ sock'[s].inbox = sock[s].inbox
        /\ sock'[s].told.in = sock[s].told.in
        /\ sock'[s].taken = sock[s].taken + n /\ sock'[s].told.out = sock[s].told.out + told
    BY <1>4
  <2> QED
    BY <1>2, <1>3, <1>4, <2>1, TurnKeeps
<1>5. CASE /\ op' = [op EXCEPT ![c] = Idle]
           /\ sock' = [sock EXCEPT ![s].taken = @ + n, ![s].told.out = @ + (op[c].got + n)]
  <2> DEFINE count == op[c].got + n
  <2>1. count \in Nat /\ sock' = [sock EXCEPT ![s].taken = @ + n, ![s].told.out = @ + count]
    BY <1>2, <1>5
  <2>2. count = op[c].got + n
    OBVIOUS
  <2> HIDE DEF count
  <2>3. sock'[s] = [sent |-> sock[s].sent, inbox |-> sock[s].inbox,
                    drained |-> sock[s].drained, taken |-> sock[s].taken + n,
                    told |-> [in |-> sock[s].told.in, out |-> sock[s].told.out + count],
                    link |-> sock[s].link, owner |-> sock[s].owner]
    BY <1>2, <2>1 DEF SocketState
  <2> QED
    BY <1>4, <1>5, <2>1, <2>2, <2>3
<1>6. CASE /\ op' = [op EXCEPT ![c].got = op[c].got + n]
           /\ sock' = [sock EXCEPT ![s].taken = @ + n]
  <2>1. sock'[s] = [sent |-> sock[s].sent, inbox |-> sock[s].inbox,
                    drained |-> sock[s].drained, taken |-> sock[s].taken + n,
                    told |-> [in |-> sock[s].told.in, out |-> sock[s].told.out + 0],
                    link |-> sock[s].link, owner |-> sock[s].owner]
    BY <1>2, <1>6 DEF SocketState
  <2>2. 0 \in Nat
    OBVIOUS
  <2> QED
    BY <1>4, <1>6, <2>1, <2>2
<1> QED
  BY <1>1, <1>5, <1>6

\* The await_resumes of reads and writes are such turns.
LEMMA ReadsDraw ==
    ASSUME IInv, SomeOK, NEW c \in Coros,
           RecvResume(c) \/ RecvTimeoutResume(c) \/ RecvSomeResume(c)
    PROVE  Busy(c) /\ op[c].kind \in Reads /\ Draws(c)
<1>1. /\ Runs(c, "resume") /\ op[c].kind \in {"read", "read_timeout", "read_some"}
      /\ op[c].kind = "read_some" <=> RecvSomeResume(c)
  BY DEF RecvResume, RecvTimeoutResume, RecvSomeResume
<1>2. Busy(c) /\ op[c].kind \in Reads
  BY <1>1 DEF Runs, IInv, Core, ThreadOK, Reads
<1>3. /\ op[c].fd \in Socks /\ op[c].got \in Nat /\ Remain(c) \in Nat /\ TypeOK
      /\ sock[op[c].fd].inbox \in Nat
  BY <1>1, <1>2, OperationFacts DEF IInv, Core, TypeOK, SocketState
<1>4. ASSUME NEW ec, NEW n \in Nat, n <= sock[op[c].fd].inbox, ReadLoop(c, ec, n),
             op[c].kind # "read_some"
      PROVE  Draws(c)
  BY <1>4 DEF ReadLoop, Return, Draws
<1>5. ASSUME NEW r \in TryRead(op[c].fd, Remain(c)), ReadLoop(c, r.ec, r.n),
             op[c].kind # "read_some"
      PROVE  Draws(c)
  BY <1>3, <1>4, <1>5, TryReadFacts
<1>6. CASE RecvSomeResume(c)
  <2>1. PICK r \in TryRead(op[c].fd, Remain(c)) :
           /\ Return(c, r.ec, r.n)
           /\ sock' = [sock EXCEPT ![op[c].fd].inbox = @ - r.n, ![op[c].fd].told.in = @ + r.n]
    BY <1>6 DEF RecvSomeResume
  <2>2. r.n \in Nat /\ r.n <= sock[op[c].fd].inbox
    BY <1>3, TryReadFacts
  <2>3. op[c].got = 0
    BY <1>1, <1>6 DEF SomeOK
  <2>4. op[c].got + r.n = r.n
    BY <2>2, <2>3
  <2>5. op' = [op EXCEPT ![c] = Idle]
    BY <2>1 DEF Return
  <2> DEFINE n == r.n
  <2>6. /\ n \in Nat /\ n <= sock[op[c].fd].inbox
        /\ sock' = [sock EXCEPT ![op[c].fd].inbox = @ - n,
                                ![op[c].fd].told.in = @ + (op[c].got + n)]
    BY <2>1, <2>2, <2>4
  <2> HIDE DEF n
  <2> QED
    BY <1>2, <2>5, <2>6 DEF Draws
<1>7. CASE RecvResume(c) \/ RecvTimeoutResume(c)
  <2>1. op[c].kind # "read_some" /\ 0 \in Nat /\ 0 <= sock[op[c].fd].inbox
    BY <1>3, <1>7 DEF RecvResume, RecvTimeoutResume
  <2>2. \/ ReadLoop(c, "canceled", 0) \/ ReadLoop(c, "timed_out", 0)
        \/ \E r \in TryRead(op[c].fd, Remain(c)) : ReadLoop(c, r.ec, r.n)
    BY <1>7 DEF RecvResume, RecvTimeoutResume
  <2> QED
    BY <1>2, <1>4, <1>5, <2>1, <2>2
<1> QED
  BY <1>6, <1>7

\* That is what the await_resume of a write does.
LEMMA WritesAccept ==
    ASSUME IInv, NEW c \in Coros, SendResume(c) \/ SendTimeoutResume(c)
    PROVE  Busy(c) /\ op[c].kind \in Writes /\ Accepts(c)
<1>1. Runs(c, "resume") /\ op[c].kind \in {"write", "write_timeout"}
  BY DEF SendResume, SendTimeoutResume
<1>2. Busy(c) /\ op[c].kind \in Writes
  BY <1>1 DEF Runs, IInv, Core, ThreadOK, Writes
<1>3. op[c].fd \in Socks /\ Remain(c) \in Nat /\ TypeOK /\ SocksOK
  BY <1>1, <1>2, OperationFacts DEF IInv, Core
<1>4. ASSUME NEW ec, NEW n \in Nat, NEW stat, WriteLoop(c, ec, n, stat)
      PROVE  Accepts(c)
  BY <1>4 DEF WriteLoop, Return, Accepts
<1>5. ASSUME NEW r, r = TryWrite(op[c].fd, Remain(c)), WriteLoop(c, r.ec, r.n, r.stat)
      PROVE  Accepts(c)
  BY <1>3, <1>4, <1>5, TryWriteFacts
<1>6. \/ WriteLoop(c, "canceled", 0, "CANCELLED") \/ WriteLoop(c, "timed_out", 0, "TIMEOUT")
      \/ \E r \in {TryWrite(op[c].fd, Remain(c))} : WriteLoop(c, r.ec, r.n, r.stat)
  BY DEF SendResume, SendTimeoutResume
<1> QED
  BY <1>2, <1>4, <1>5, <1>6


-------------------------------------------------------------------------------
(* Steps on which no byte passes between the kernel and an operation *)

\* What the kernel and the results count of s changes by the same number.
Counted(s) ==
    /\ sock'[s].sent + sock[s].inbox + sock[s].told.in
          = sock[s].sent + sock'[s].inbox + sock'[s].told.in
    /\ sock'[s].taken + sock[s].told.out = sock[s].taken + sock'[s].told.out

\* Nothing is lost when c holds what it held and the sockets count alike.
LEMMA SharesStay ==
    ASSUME IInv, IInv', BytesReported, NEW c \in Coros,
           \A d \in Coros \ {c} : op'[d] = op[d],
           \A K \in {Reads, Writes}, s \in Socks :
              Share(op', c, K, s) = Share(op, c, K, s) /\ Share(op, c, K, s) \in Nat,
           \A s \in Socks : Counted(s) \/ Fresh(s)
    PROVE  BytesReported'
<1>1. ASSUME NEW s \in Socks, Counted(s)
      PROVE  Balanced(c, s)
  <2>1. /\ sock[s].sent \in Nat /\ sock[s].inbox \in Nat /\ sock[s].taken \in Nat
        /\ sock[s].told.in \in Nat /\ sock[s].told.out \in Nat
        /\ sock'[s].sent \in Nat /\ sock'[s].inbox \in Nat /\ sock'[s].taken \in Nat
        /\ sock'[s].told.in \in Nat /\ sock'[s].told.out \in Nat
    BY DEF IInv, TypeOK, SocketState
  <2>2. /\ Share(op', c, Reads, s) = Share(op, c, Reads, s) /\ Share(op, c, Reads, s) \in Nat
        /\ Share(op', c, Writes, s) = Share(op, c, Writes, s) /\ Share(op, c, Writes, s) \in Nat
    OBVIOUS
  <2> QED
    BY <1>1, <2>1, <2>2 DEF Counted, Balanced
<1> QED
  BY <1>1, BooksKept

\* an untouched socket counts alike
LEMMA CountedSame ==
    ASSUME IInv, NEW s \in Socks, sock'[s] = sock[s]
    PROVE  Counted(s)
<1>1. /\ sock[s].sent \in Nat /\ sock[s].inbox \in Nat /\ sock[s].taken \in Nat
      /\ sock[s].told.in \in Nat /\ sock[s].told.out \in Nat
  BY DEF IInv, TypeOK, SocketState
<1> QED
  BY <1>1 DEF Counted

\* Nothing happens to operations and sockets.
LEMMA QuietKeepsBytes ==
    ASSUME BInv, UNCHANGED <<op, sock>>
    PROVE  SomeOK' /\ BytesReported'
<1>1. op' = op /\ sock' = sock
  OBVIOUS
<1>2. SomeOK'
  BY <1>1 DEF BInv, SomeOK
<1>3. \A K, s : InFlight(K, s)' = InFlight(K, s)
  BY <1>1 DEF InFlight
<1>4. BytesReported'
  BY <1>1, <1>3 DEF BInv, BytesReported
<1> QED
  BY <1>2, <1>4

\* An operation that moves no bytes begins or ends, or one begins.
LEMMA NothingHeld ==
    ASSUME BInv, IInv', NEW c \in Coros, op[c].kind \notin Reads \cup Writes,
           \/ op' = [op EXCEPT ![c] = Idle]
           \/ \E o, fd : op' = [op EXCEPT ![c] = Begun(o, fd)],
           \A s \in Socks : Counted(s) \/ Fresh(s)
    PROVE  SomeOK' /\ BytesReported'
<1>1. /\ op \in [Coros -> Operation \cup {Idle}]
      /\ \A d \in Coros \ {c} : op'[d] = op[d]
      /\ op'[c].kind \in Reads \cup Writes => op'[c].got = 0
  BY DEF BInv, IInv, TypeOK, Begun, Idle, Reads, Writes
<1>2. SomeOK'
  BY <1>1 DEF BInv, SomeOK, Reads
<1>3. ASSUME NEW K \in {Reads, Writes}, NEW s \in Socks
      PROVE  Share(op', c, K, s) = Share(op, c, K, s) /\ Share(op, c, K, s) \in Nat
  BY <1>1 DEF Share, On
<1> QED
  BY <1>1, <1>2, <1>3, SharesStay DEF BInv

\* An await_suspend, of accept as well: at most the due time of c's timer is noted.
LEMMA SuspendsKeepBytes ==
    ASSUME BInv, IInv', NEW c \in Coros, Runs(c, "suspend"), sock' = sock,
           op' = op \/ op' = [op EXCEPT ![c].due = now + op[c].delay]
    PROVE  SomeOK' /\ BytesReported'
<1>1. CASE op' = op
  BY <1>1, QuietKeepsBytes
<1>2. CASE op' = [op EXCEPT ![c].due = now + op[c].delay]
  <2>1. op[c] \in Operation /\ op \in [Coros -> Operation \cup {Idle}]
    BY DEF BInv, IInv, Core, ThreadOK, TypeOK, Runs, Busy
  <2>2. /\ \A d \in Coros \ {c} : op'[d] = op[d]
        /\ op'[c].kind = op[c].kind /\ op'[c].fd = op[c].fd /\ op'[c].got = op[c].got
    BY <1>2, <2>1 DEF Operation
  <2>3. SomeOK'
    BY <2>2 DEF BInv, SomeOK
  <2>4. ASSUME NEW K \in {Reads, Writes}, NEW s \in Socks
        PROVE  Share(op', c, K, s) = Share(op, c, K, s) /\ Share(op, c, K, s) \in Nat
    BY <2>1, <2>2 DEF Share, On, Operation
  <2>5. \A s \in Socks : Counted(s)
    BY CountedSame DEF BInv
  <2> QED
    BY <2>2, <2>3, <2>4, <2>5, SharesStay DEF BInv
<1> QED
  BY <1>1, <1>2

\* A Connection is closed; what waits on sockets waits on others.
LEMMA ClosingKeepsBytes ==
    ASSUME BInv, IInv', NEW c \in Coros, Runs(c, "user"), op' = op,
           sock' = [s \in Socks |-> IF s \in Owned(c) THEN Socket("closed", NoCo) ELSE sock[s]]
    PROVE  SomeOK' /\ BytesReported'
<1>1. SomeOK'
  BY DEF BInv, SomeOK
<1>2. ~Busy(c)
  BY DEF Runs, BInv, IInv, Core, ThreadOK
<1>3. ASSUME NEW s \in Socks, s \in Owned(c)
      PROVE  Fresh(s)
  <2>1. sock'[s] = Socket("closed", NoCo) /\ sock[s].owner = c
    BY <1>3 DEF Owned
  <2>2. s \in Unused
    BY <2>1, NamesAssumption DEF BInv, IInv, SocksOK
  <2>3. ASSUME NEW d \in Coros, Busy(d), op[d].fd = s
        PROVE  FALSE
    <3>1. sock[s].owner \in {NoCo, d}
      BY <2>2, <2>3 DEF BInv, IInv, SocksOK
    <3> QED
      BY <1>2, <2>1, <2>3, <3>1, NamesAssumption
  <2>4. \A d \in Coros : ~On(op', d, Reads, s) /\ ~On(op', d, Writes, s)
    BY <2>3 DEF On, Busy, Idle, Reads, Writes
  <2> QED
    BY <2>1, <2>4 DEF Fresh, Socket
<1>4. ASSUME NEW s \in Socks, s \notin Owned(c)
      PROVE  /\ sock'[s].sent + sock[s].inbox = sock[s].sent + sock'[s].inbox
             /\ sock'[s].told = sock[s].told /\ sock'[s].taken = sock[s].taken
  BY <1>4 DEF BInv, IInv, TypeOK, SocketState
<1> QED
  BY <1>1, <1>3, <1>4, BooksUntouched DEF BInv


-------------------------------------------------------------------------------
(* Every step keeps BInv *)

\* every await_resume
LEMMA ResumesKeepBytes ==
    ASSUME BInv, IInv', NEW c \in Coros,
           \/ RecvResume(c) \/ RecvTimeoutResume(c) \/ RecvSomeResume(c)
           \/ SendResume(c) \/ SendTimeoutResume(c) \/ WaitResume(c)
    PROVE  SomeOK' /\ BytesReported'
<1>1. op \in [Coros -> Operation \cup {Idle}]
  BY DEF BInv, IInv, TypeOK
<1>2. CASE RecvResume(c) \/ RecvTimeoutResume(c) \/ RecvSomeResume(c)
  <2>1. Busy(c) /\ op[c].kind \in Reads /\ Draws(c)
    BY <1>2, ReadsDraw DEF BInv
  <2>2. BytesReported'
    BY <2>1, DrawsKeep DEF BInv
  <2>3. \/ op' = [op EXCEPT ![c] = Idle]
        \/ op[c].kind # "read_some" /\ \E n \in Nat : op' = [op EXCEPT ![c].got = op[c].got + n]
    BY <2>1 DEF Draws
  <2>4. SomeOK'
    BY <1>1, <2>1, <2>3 DEF BInv, SomeOK, Idle, Busy, Operation
  <2> QED
    BY <2>2, <2>4
<1>3. CASE SendResume(c) \/ SendTimeoutResume(c)
  <2>1. Busy(c) /\ op[c].kind \in Writes /\ Accepts(c)
    BY <1>3, WritesAccept DEF BInv
  <2>2. BytesReported'
    BY <2>1, AcceptsKeep DEF BInv
  <2>3. \/ op' = [op EXCEPT ![c] = Idle]
        \/ op[c].kind # "read_some" /\ \E n \in Nat : op' = [op EXCEPT ![c].got = op[c].got + n]
    BY <2>1 DEF Accepts, Writes
  <2>4. SomeOK'
    BY <1>1, <2>1, <2>3 DEF BInv, SomeOK, Idle, Busy, Operation
  <2> QED
    BY <2>2, <2>4
<1>4. CASE WaitResume(c)
  <2>1. op[c].kind = "wait_for" /\ op' = [op EXCEPT ![c] = Idle] /\ sock' = sock
    BY <1>4 DEF WaitResume, Return
  <2>2. \A s \in Socks : Counted(s)
    BY <2>1, CountedSame DEF BInv
  <2>3. op[c].kind \notin Reads \cup Writes
    BY <2>1 DEF Reads, Writes
  <2> QED
    BY <2>1, <2>2, <2>3, NothingHeld
<1> QED
  BY <1>2, <1>3, <1>4

\* An operation starts with nothing moved.
LEMMA BeginKeepsBytes ==
    ASSUME BInv, IInv', NEW c \in Coros, NEW o \in Menu[c], Begin(c, o)
    PROVE  SomeOK' /\ BytesReported'
<1>1. Runs(c, "user") /\ sock' = sock /\ \E fd : op' = [op EXCEPT ![c] = Begun(o, fd)]
  BY DEF Begin
<1>2. op[c] = Idle
  BY <1>1 DEF Runs, Busy, BInv, IInv, Core, ThreadOK
<1>3. op[c].kind \notin Reads \cup Writes
  BY <1>2 DEF Idle, Reads, Writes
<1>4. \A s \in Socks : Counted(s)
  BY <1>1, CountedSame DEF BInv
<1> QED
  BY <1>1, <1>3, <1>4, NothingHeld

\* A peer's bytes are counted as sent when the kernel has them, and those that a
\* reset takes from the kernel are not.
LEMMA PeerKeepsBytes ==
    ASSUME BInv, IInv', Peer
    PROVE  SomeOK' /\ BytesReported'
<1>1. PICK s \in Socks : PeerSend(s) \/ PeerDrain(s) \/ PeerShut(s) \/ PeerReset(s)
  BY DEF Peer
<1>2. op' = op /\ SomeOK'
  BY DEF Peer, BInv, SomeOK
<1>3. /\ sock \in [Socks -> SocketState] /\ sock[s] \in SocketState
      /\ \A z \in Socks : sock[z].sent \in Nat /\ sock[z].inbox \in Nat
      /\ sock[s].inbox <= sock[s].sent
  BY DEF BInv, IInv, TypeOK, SocksOK, SocketState
<1>4. /\ \A z \in Socks \ {s} : sock'[z] = sock[z]
      /\ sock'[s].sent + sock[s].inbox = sock[s].sent + sock'[s].inbox
      /\ sock'[s].told = sock[s].told /\ sock'[s].taken = sock[s].taken
  <2>1. CASE PeerSend(s)
    <3>1. sock' = [sock EXCEPT ![s].sent = @ + 1, ![s].inbox = @ + 1]
      BY <2>1 DEF PeerSend
    <3>2. sock'[s] = [sent |-> sock[s].sent + 1, inbox |-> sock[s].inbox + 1,
                      drained |-> sock[s].drained, taken |-> sock[s].taken,
                      told |-> sock[s].told, link |-> sock[s].link, owner |-> sock[s].owner]
      BY <1>3, <3>1 DEF SocketState
    <3> QED
      BY <1>3, <3>1, <3>2
  <2>2. CASE PeerDrain(s) \/ PeerShut(s)
    <3>1. \/ sock' = [sock EXCEPT ![s].drained = @ + 1]
          \/ sock' = [sock EXCEPT ![s].link = "shut"]
      BY <2>2 DEF PeerDrain, PeerShut
    <3> QED
      BY <1>3, <3>1 DEF SocketState
  <2>3. CASE PeerReset(s)
    <3>1. sock' = [sock EXCEPT ![s].link = "reset", ![s].inbox = 0,
                               ![s].sent = @ - sock[s].inbox]
      BY <2>3 DEF PeerReset
    <3>2. sock'[s] = [sent |-> sock[s].sent - sock[s].inbox, inbox |-> 0,
                      drained |-> sock[s].drained, taken |-> sock[s].taken,
                      told |-> sock[s].told, link |-> "reset", owner |-> sock[s].owner]
      BY <1>3, <3>1 DEF SocketState
    <3> QED
      BY <1>3, <3>1, <3>2
  <2> QED
    BY <1>1, <2>1, <2>2, <2>3
<1>5. ASSUME NEW z \in Socks
      PROVE  /\ sock'[z].sent + sock[z].inbox = sock[z].sent + sock'[z].inbox
             /\ sock'[z].told = sock[z].told /\ sock'[z].taken = sock[z].taken
  BY <1>3, <1>4
<1> QED
  BY <1>2, <1>5, BooksUntouched DEF BInv

\* No step of the framework loses or repeats a byte,
LEMMA NextKeepsBytes == BInv /\ [Next]_vars => BInv'
<1> SUFFICES ASSUME BInv, [Next]_vars PROVE BInv'
  OBVIOUS
<1>1. IInv'
  BY NextKeeps DEF BInv
<1>2. SUFFICES SomeOK' /\ BytesReported'
  BY <1>1 DEF BInv
<1>3. CASE EnterRunning \/ Loop
  BY <1>3, QuietKeepsBytes
     DEF EnterRunning, Loop, Poll, Dispatch, CompleteWrite, LeaveRunning
<1>4. ASSUME NEW c \in Coros, Awaiter(c)
      PROVE  SomeOK' /\ BytesReported'
  <2>1. CASE \/ RecvSuspend(c) \/ RecvTimeoutSuspend(c) \/ RecvSomeSuspend(c)
             \/ SendSuspend(c) \/ SendTimeoutSuspend(c) \/ WaitSuspend(c)
    <3>1. /\ Runs(c, "suspend") /\ sock' = sock
          /\ op' = op \/ op' = [op EXCEPT ![c].due = now + op[c].delay]
      BY <2>1 DEF RecvSuspend, RecvTimeoutSuspend, RecvSomeSuspend, SendSuspend,
                  SendTimeoutSuspend, WaitSuspend, AlreadyCancelled, StartTimeout
    <3> QED
      BY <1>1, <3>1, SuspendsKeepBytes
  <2>2. CASE CancelSlotSubmit(c) \/ EndWithTimeout(c)
    BY <2>2, QuietKeepsBytes DEF CancelSlotSubmit, EndWithTimeout
  <2> QED
    BY <1>1, <1>4, <2>1, <2>2, ResumesKeepBytes DEF Awaiter
<1>5. ASSUME NEW c \in Coros, User(c)
      PROVE  SomeOK' /\ BytesReported'
  <2>1. CASE Launch(c) \/ \E t \in Tokens : RequestCancelHere(c, t)
    BY <2>1, QuietKeepsBytes DEF Launch, RequestCancelHere
  <2>2. CASE Finish(c)
    BY <1>1, <2>2, ClosingKeepsBytes DEF Finish, End
  <2>3. CASE \E o \in Menu[c] : Begin(c, o)
    BY <1>1, <2>3, BeginKeepsBytes
  <2> QED
    BY <1>5, <2>1, <2>2, <2>3 DEF User
<1>6. CASE Tick \/ \E t \in Tokens : RequestCancel(t) \/ SignalCancel(t)
  BY <1>6, QuietKeepsBytes DEF Tick, RequestCancel, SignalCancel
<1>7. CASE Peer
  BY <1>1, <1>7, PeerKeepsBytes
<1>8. CASE UNCHANGED vars
  BY <1>8, QuietKeepsBytes DEF vars
<1> QED
  BY <1>3, <1>4, <1>5, <1>6, <1>7, <1>8 DEF Next, Thread


\* A number that is given to a socket, or taken from it, starts from nothing.
LEMMA NumberIsFresh ==
    ASSUME NEW s \in Socks, NEW l, NEW o, sock'[s] = Socket(l, o),
           \A d \in Coros : op'[d].kind \in Reads \cup Writes => op'[d].fd # s
    PROVE  Fresh(s)
BY DEF Fresh, Socket, On

\* a connect starts with a new socket, or loses it to a bad address
LEMMA BeginConnectKeepsBytes ==
    ASSUME BInv, IInv', NEW c \in Coros, NEW o \in Menu[c],
           BeginConnect(c, o) \/ AddressFails(c, o)
    PROVE  SomeOK' /\ BytesReported'
<1>1. Runs(c, "user") /\ o.kind = "connect"
  BY DEF BeginConnect, AddressFails
<1>2. PICK s \in Free, l \in {"new", "lost"} :
        /\ op' = [op EXCEPT ![c] = Begun(o, s)] \/ op' = op
        /\ sock' = [sock EXCEPT ![s] = Socket(l, NoCo)]
  BY DEF BeginConnect, AddressFails
<1>3. s \in Socks /\ \A d \in Coros : Busy(d) => op[d].fd # s
  BY FreeUnheld DEF BInv
<1>4. op[c] = Idle
  BY <1>1 DEF Runs, Busy, BInv, IInv, Core, ThreadOK
<1>5. op[c].kind \notin Reads \cup Writes
  BY <1>4 DEF Idle, Reads, Writes
<1>6. \A z \in Socks \ {s} : Counted(z)
  BY <1>2, CountedSame DEF BInv, IInv, TypeOK
<1>7. /\ \A d \in Coros \ {c} : op'[d] = op[d]
      /\ op'[c].kind \notin Reads \cup Writes
  BY <1>1, <1>2, <1>5 DEF BInv, IInv, TypeOK, Begun, Reads, Writes
<1>8. \A d \in Coros : op'[d].kind \in Reads \cup Writes => op'[d].fd # s
  BY <1>3, <1>7 DEF Busy, Idle, Reads, Writes
<1>9. sock'[s] = Socket(l, NoCo)
  BY <1>2, <1>3 DEF BInv, IInv, TypeOK
<1>10. Fresh(s)
  BY <1>3, <1>8, <1>9, NumberIsFresh
<1>11. op' = [op EXCEPT ![c] = Idle] \/ op' = [op EXCEPT ![c] = Begun(o, s)]
  BY <1>2, <1>4 DEF BInv, IInv, TypeOK
<1> QED
  BY <1>5, <1>6, <1>10, <1>11, NothingHeld

\* The end of a connect: its descriptor becomes a Connection or is closed, and the
\* one that try_connect reports connected at once is new.
LEMMA ConnectEndKeepsBytes ==
    ASSUME BInv, IInv', NEW c \in Coros, Busy(c), op[c].kind = "connect",
           op' = [op EXCEPT ![c] = Idle],
           \/ sock' = [sock EXCEPT ![op[c].fd].owner = c]
           \/ sock' = [sock EXCEPT ![op[c].fd] = Socket("closed", NoCo)]
           \/ sock' = [sock EXCEPT ![op[c].fd] = Socket("open", c)]
    PROVE  SomeOK' /\ BytesReported'
<1> DEFINE s == op[c].fd
<1>1. s \in Socks /\ \A d \in Coros \ {c} : Busy(d) => op[d].fd # s
  BY ConnectAlone DEF BInv
<1>2. op[c].kind \notin Reads \cup Writes
  BY DEF Reads, Writes
<1>3. op'[c] = Idle /\ \A d \in Coros \ {c} : op'[d] = op[d]
  BY DEF BInv, IInv, TypeOK
<1>4. \A d \in Coros : op'[d].kind \in Reads \cup Writes => op'[d].fd # s
  BY <1>1, <1>3 DEF Busy, Idle, Reads, Writes
<1>5. sock \in [Socks -> SocketState] /\ \A z \in Socks : sock[z] \in SocketState
  BY DEF BInv, IInv, TypeOK
<1>6. \A z \in Socks \ {s} : Counted(z)
  BY <1>5, CountedSame DEF BInv
<1>7. CASE sock' = [sock EXCEPT ![s].owner = c]
  <2>1. /\ sock'[s].sent = sock[s].sent /\ sock'[s].inbox = sock[s].inbox
        /\ sock'[s].taken = sock[s].taken /\ sock'[s].told = sock[s].told
        /\ sock[s].sent \in Nat /\ sock[s].inbox \in Nat /\ sock[s].taken \in Nat
        /\ sock[s].told.in \in Nat /\ sock[s].told.out \in Nat
    BY <1>1, <1>5, <1>7 DEF SocketState
  <2>2. Counted(s)
    BY <2>1 DEF Counted
  <2> QED
    BY <1>2, <1>6, <2>2, NothingHeld
<1>8. CASE \E l, o : sock' = [sock EXCEPT ![s] = Socket(l, o)]
  <2>1. PICK l, o : sock'[s] = Socket(l, o)
    BY <1>1, <1>5, <1>8
  <2>2. Fresh(s)
    BY <1>1, <1>4, <2>1, NumberIsFresh
  <2> QED
    BY <1>2, <1>6, <2>2, NothingHeld
<1> QED
  BY <1>7, <1>8

\* connect moves no bytes
LEMMA ConnectKeepsBytes ==
    ASSUME BInv, IInv', NEW c \in Coros, ConnectSuspend(c) \/ ConnectResume(c)
    PROVE  SomeOK' /\ BytesReported'
<1> DEFINE s == op[c].fd
<1>1. Busy(c) /\ op[c].kind = "connect"
  BY DEF ConnectSuspend, ConnectResume, Runs, BInv, IInv, Core, ThreadOK
<1>2. CASE \/ ConnectResume(c)
           \/ Return(c, "ok", 0) /\ sock' = [sock EXCEPT ![s] = Socket("open", c)]
           \/ EndConnect(c, "error")
  BY <1>1, <1>2, ConnectEndKeepsBytes DEF ConnectResume, EndConnect, Return
<1>3. CASE sock' = [sock EXCEPT ![s].link = "connecting"] /\ UNCHANGED op
  <2>1. \A z \in Socks : sock[z].sent \in Nat /\ sock[z].inbox \in Nat
    BY DEF BInv, IInv, TypeOK, SocketState
  <2>2. ASSUME NEW z \in Socks
        PROVE  /\ sock'[z].sent + sock[z].inbox = sock[z].sent + sock'[z].inbox
               /\ sock'[z].told = sock[z].told /\ sock'[z].taken = sock[z].taken
    BY <1>3, <2>1 DEF BInv, IInv, TypeOK, SocketState
  <2>3. SomeOK'
    BY <1>3 DEF BInv, SomeOK
  <2> QED
    BY <1>3, <2>2, <2>3, BooksUntouched DEF BInv
<1> QED
  BY <1>2, <1>3 DEF ConnectSuspend

\* accept4 moves a connection from the backlog to the caller.
LEMMA AcceptKeepsBytes ==
    ASSUME BInv, IInv', NEW c \in Coros, AcceptResume(c)
    PROVE  SomeOK' /\ BytesReported'
<1> DEFINE l == op[c].fd
<1>1. /\ Runs(c, "resume") /\ op[c].kind = "accept" /\ Accept(c, l)
  BY DEF AcceptResume
<1>2. op' = [op EXCEPT ![c] = Idle]
  BY <1>1 DEF Accept, Return
<1>3. Busy(c) /\ op[c].kind \notin Reads \cup Writes
  BY <1>1 DEF Runs, BInv, IInv, Core, ThreadOK, Reads, Writes
<1>4. l \in Listeners /\ l \in Socks /\ l \notin Unused
  BY <1>1, <1>3, OperationFacts, MenuAssumption DEF BInv, IInv, Core
<1>5. CASE UNCHANGED sock
  BY <1>2, <1>3, <1>5, CountedSame, NothingHeld DEF BInv
<1>6. CASE /\ sock[l].inbox > 0
           /\ \E s \in Free : sock' = [sock EXCEPT ![l].inbox = @ - 1, ![l].told.in = @ + 1,
                                                   ![s] = Socket("open", c)]
  <2>1. PICK s \in Free : sock' = [sock EXCEPT ![l].inbox = @ - 1, ![l].told.in = @ + 1,
                                               ![s] = Socket("open", c)]
    BY <1>6
  <2>2. /\ s \in Socks /\ s # l
        /\ \A d \in Coros : Busy(d) => op[d].fd # s
    BY <1>4, <2>1, FreeUnheld DEF BInv
  <2>3. /\ sock \in [Socks -> SocketState] /\ sock[l] \in SocketState
        /\ sock[l].inbox \in Nat /\ sock[l].sent \in Nat /\ sock[l].taken \in Nat
        /\ sock[l].told.in \in Nat /\ sock[l].told.out \in Nat
    BY <1>4 DEF BInv, IInv, TypeOK, SocketState
  <2>4. sock'[l] = [sent |-> sock[l].sent, inbox |-> sock[l].inbox - 1,
                    drained |-> sock[l].drained, taken |-> sock[l].taken,
                    told |-> [in |-> sock[l].told.in + 1, out |-> sock[l].told.out],
                    link |-> sock[l].link, owner |-> sock[l].owner]
    BY <1>4, <2>1, <2>2, <2>3 DEF SocketState
  <2>5. Counted(l)
    <3>1. /\ sock'[l].sent = sock[l].sent /\ sock'[l].inbox = sock[l].inbox - 1
          /\ sock'[l].taken = sock[l].taken
          /\ sock'[l].told.in = sock[l].told.in + 1 /\ sock'[l].told.out = sock[l].told.out
      BY <2>4
    <3> HIDE DEF l
    <3> QED
      BY <2>3, <3>1 DEF Counted
  <2>6. sock'[s] = Socket("open", c) /\ \A z \in Socks \ {s, l} : sock'[z] = sock[z]
    BY <2>1, <2>2, <2>3
  <2>7. op'[c] = Idle /\ \A d \in Coros \ {c} : op'[d] = op[d]
    BY <1>2 DEF BInv, IInv, TypeOK
  <2>8. \A d \in Coros : op'[d].kind \in Reads \cup Writes => op'[d].fd # s
    BY <2>2, <2>7 DEF Busy, Idle, Reads, Writes
  <2>9. Fresh(s)
    BY <2>2, <2>6, <2>8, NumberIsFresh
  <2>10. \A z \in Socks \ {s, l} : Counted(z)
    BY <2>6, CountedSame DEF BInv
  <2> QED
    BY <1>2, <1>3, <2>5, <2>9, <2>10, NothingHeld
<1> QED
  BY <1>1, <1>5, <1>6 DEF Accept

\* clients of listeners, and servers that answer a connect
LEMMA ClientsKeepBytes ==
    ASSUME BInv, IInv', NEW s \in Socks, PeerConnects(s) \/ PeerAnswers(s)
    PROVE  SomeOK' /\ BytesReported'
<1>1. op' = op /\ SomeOK'
  BY DEF PeerConnects, PeerAnswers, BInv, SomeOK
<1>2. /\ sock \in [Socks -> SocketState] /\ sock[s] \in SocketState
      /\ \A z \in Socks : sock[z].sent \in Nat /\ sock[z].inbox \in Nat
  BY DEF BInv, IInv, TypeOK, SocketState
<1>3. /\ \A z \in Socks \ {s} : sock'[z] = sock[z]
      /\ sock'[s].sent + sock[s].inbox = sock[s].sent + sock'[s].inbox
      /\ sock'[s].told = sock[s].told /\ sock'[s].taken = sock[s].taken
  <2>1. CASE PeerConnects(s)
    <3>1. sock' = [sock EXCEPT ![s].sent = @ + 1, ![s].inbox = @ + 1]
      BY <2>1 DEF PeerConnects
    <3>2. sock'[s] = [sent |-> sock[s].sent + 1, inbox |-> sock[s].inbox + 1,
                      drained |-> sock[s].drained, taken |-> sock[s].taken,
                      told |-> sock[s].told, link |-> sock[s].link, owner |-> sock[s].owner]
      BY <1>2, <3>1 DEF SocketState
    <3> QED
      BY <1>2, <3>1, <3>2
  <2>2. CASE PeerAnswers(s)
    BY <1>2, <2>2 DEF PeerAnswers, SocketState
  <2> QED
    BY <2>1, <2>2
<1>4. ASSUME NEW z \in Socks
      PROVE  /\ sock'[z].sent + sock[z].inbox = sock[z].sent + sock'[z].inbox
             /\ sock'[z].told = sock[z].told /\ sock'[z].taken = sock[z].taken
  BY <1>2, <1>3
<1> QED
  BY <1>1, <1>4, BooksUntouched DEF BInv

\* No step of a connection does either.
LEMMA ConnNextKeepsBytes == BInv /\ [ConnNext]_vars => BInv'
<1> SUFFICES ASSUME BInv, [ConnNext]_vars PROVE BInv'
  OBVIOUS
<1>1. IInv'
  BY ConnNextKeeps DEF BInv
<1>2. CASE [Next]_vars
  BY <1>2, NextKeepsBytes
<1>3. ASSUME NEW c \in Coros, Connecting(c)
      PROVE  SomeOK' /\ BytesReported'
  <2>1. CASE \E o \in Menu[c] : BeginConnect(c, o) \/ AddressFails(c, o)
    BY <1>1, <2>1, BeginConnectKeepsBytes
  <2>2. CASE Close(c) \/ \E o \in Menu[c] : SocketFails(c, o)
    BY <1>1, <2>2, ClosingKeepsBytes DEF Close, SocketFails, End
  <2>3. CASE ConnectSuspend(c) \/ ConnectResume(c)
    BY <1>1, <2>3, ConnectKeepsBytes
  <2>4. CASE AcceptSuspend(c)
    BY <1>1, <2>4, SuspendsKeepBytes DEF AcceptSuspend
  <2>5. CASE AcceptResume(c)
    BY <1>1, <2>5, AcceptKeepsBytes
  <2> QED
    BY <1>3, <2>1, <2>2, <2>3, <2>4, <2>5 DEF Connecting
<1>4. CASE \E s \in Socks : PeerConnects(s) \/ PeerAnswers(s)
  BY <1>1, <1>4, ClientsKeepBytes DEF BInv
<1> QED
  BY <1>1, <1>2, <1>3, <1>4 DEF ConnNext, BInv

-------------------------------------------------------------------------------
(* The theorems *)

\* At the beginning nothing has been sent.
LEMMA InitBInv == Init => BInv
<1> SUFFICES ASSUME Init PROVE BInv
  OBVIOUS
<1>1. IInv
  BY InitIInv
<1>2. \A c \in Coros : op[c].kind \notin Reads \cup Writes
  BY DEF Init, Idle, Reads, Writes
<1>3. SomeOK
  BY <1>2 DEF SomeOK, Reads
<1>4. ASSUME NEW s \in Socks
      PROVE  /\ sock[s].sent = 0 /\ sock[s].inbox = 0 /\ sock[s].taken = 0
             /\ sock[s].told.in = 0 /\ sock[s].told.out = 0
             /\ InFlight(Reads, s) = 0 /\ InFlight(Writes, s) = 0
  BY <1>2, HeldNone DEF Init, Socket, InFlight
<1>5. BytesReported
  BY <1>4 DEF BytesReported
<1> QED
  BY <1>1, <1>3, <1>5 DEF BInv

\* BInv is an invariant of the framework,
THEOREM BytesInductive == Spec => []BInv
<1>1. Init => BInv
  BY InitBInv
<1>2. BInv /\ [Next]_vars => BInv'
  BY NextKeepsBytes
<1> QED
  BY <1>1, <1>2, PTL DEF Spec

\* and of accept, connect and close.
THEOREM ConnBytesInductive == ConnSpec => []BInv
<1>1. Init => BInv
  BY InitBInv
<1>2. BInv /\ [ConnNext]_vars => BInv'
  BY ConnNextKeepsBytes
<1> QED
  BY <1>1, <1>2, PTL DEF ConnSpec

\* Every byte that a peer sends is in the kernel, in the buffer of the read under
\* way, or reported by a read that returned, and none twice: whatever times out, is
\* cancelled or reset meanwhile.  Likewise what send accepts.
THEOREM NoByteLost == Spec => []BytesReported
<1>1. BInv => BytesReported
  BY DEF BInv
<1> QED
  BY <1>1, BytesInductive, PTL

\* ... and while connections are accepted, made and closed and their numbers used
\* again: no byte of one connection is counted with the next.
THEOREM ConnectionsLoseNoByte == ConnSpec => []BytesReported
<1>1. BInv => BytesReported
  BY DEF BInv
<1> QED
  BY <1>1, ConnBytesInductive, PTL

-------------------------------------------------------------------------------
(* Short reads: on a socket that no code reads with a timeout, an event that says  *)
(* there is something to read is still true when the read it completes runs.       *)

\* A step that takes nothing from s, resumes nobody and returns no read keeps it.
LEMMA EventsStay ==
    ASSUME NEW s \in Socks, EventsTrue(s), FullOrEof(s),
           batch' \subseteq batch,
           \A c \in Coros : result'[c] = result[c] \/ result'[c].op.kind \notin Reads,
           News(s) => News(s)', sock[s].link # "open" => sock'[s].link # "open",
           \/ control'.at # "resume"
           \/ /\ UNCHANGED <<control, op>>
              /\ \A c \in Coros : Busy(c) /\ Cancelled(c) => Cancelled(c)'
           \/ \A c \in Coros : control'.co = c => Cancelled(c)'
    PROVE  EventsTrue(s)' /\ FullOrEof(s)'
<1>1. FullOrEof(s)'
  BY DEF FullOrEof, Reads
<1>2. ASSUME NEW c \in Coros, Runs(c, "resume")', op'[c].kind \in Reads, op'[c].fd = s,
             ~Cancelled(c)'
      PROVE  News(s)' /\ \A e \in batch' : e.fd # s
  <2>1. Busy(c)'
    BY <1>2, KindFacts DEF Busy, Reads
  <2>2. Runs(c, "resume") /\ op'[c] = op[c] /\ ~Cancelled(c)
    BY <1>2, <2>1 DEF Runs, Busy
  <2> QED
    BY <1>2, <2>2 DEF EventsTrue
<1>3. \A e \in batch' : e.in /\ e.fd = s => News(s)'
  BY DEF EventsTrue
<1> QED
  BY <1>1, <1>2, <1>3 DEF EventsTrue

\* Signals and flags
LEMMA SignalsStay ==
    ASSUME SignalsOK, TypeOK, batch' \subseteq batch,
           \A t \in Tokens : /\ token[t].cancelled => token'[t].cancelled
                             /\ token'[t].eventfd # "empty" => token'[t].cancelled
    PROVE  SignalsOK'
BY DEF SignalsOK

\* epoll_wait reports what is so.
LEMMA PollTells ==
    ASSUME TypeOK, SignalsOK, Poll
    PROVE  /\ SignalsOK'
           /\ \A s \in Socks : \A e \in batch' : e.in /\ e.fd = s => News(s)'
<1> DEFINE i(fd) == BrokenFd(fd) \/ ("IN" \in fd_to_op[fd].events /\ InReady(fd))
           o(fd) == BrokenFd(fd) \/ ("OUT" \in fd_to_op[fd].events /\ OutReady(fd))
<1>1. batch' \subseteq ReadyEvents /\ UNCHANGED <<sock, token>>
  BY DEF Poll, kSubset
<1>2. \A e \in ReadyEvents : \E fd \in Fds : e = [fd |-> fd, in |-> i(fd), out |-> o(fd)]
  BY DEF ReadyEvents
<1>3. \A t \in Tokens : i(t) => token[t].cancelled
  BY NamesAssumption DEF BrokenFd, InReady, SignalsOK
<1>4. \A s \in Socks : i(s) => News(s)
  BY NamesAssumption DEF BrokenFd, Broken, InReady, News
<1> HIDE DEF i, o
<1>5. \A e \in ReadyEvents : e = [fd |-> e.fd, in |-> i(e.fd), out |-> o(e.fd)]
  BY <1>2
<1>6. \A e \in ReadyEvents : e.in = i(e.fd)
  BY <1>5
<1>7. \A s \in Socks : UNCHANGED News(s)
  BY <1>1 DEF News
<1> QED
  BY <1>1, <1>3, <1>4, <1>6, <1>7 DEF SignalsOK


\* What reads an untimed socket has no timer.
LEMMA UntimedReads ==
    ASSUME IInv, NEW s, Untimed(s), NEW c \in Coros, Busy(c), op[c].fd = s, op[c].kind \in Reads
    PROVE  op[c].kind # "read_timeout" /\ tm.active_timer_ids[c] = 0
<1>1. op[c].kind # "read_timeout"
  BY DEF IInv, Core, OpsOK, Untimed
<1>2. op[c].kind \notin Timed
  BY <1>1 DEF Reads, Timed
<1>3. op[c] \in Operation
  BY DEF IInv, TypeOK, Busy
<1> QED
  BY <1>1, <1>2 DEF IInv, Core, TimersOK

\* The loop completes a read of s on its event, or on that of its token.
LEMMA DispatchTells ==
    ASSUME IInv, BatchOK, SignalsOK, NEW s \in Socks, Untimed(s), EventsTrue(s),
           NEW e \in batch, Dispatch(e)
    PROVE  EventsTrue(s)'
<1> DEFINE r == IF e.in THEN fd_to_op[e.fd].read ELSE NoCo
           w == IF e.out THEN fd_to_op[e.fd].write ELSE NoCo
<1>1. /\ control.at = "loop" /\ batch' = batch \ {e} /\ e.fd \in Fds
      /\ UNCHANGED <<op, token, sock>>
  BY DEF Dispatch, IInv, TypeOK
<1>2. \/ r # NoCo /\ Complete(r, w)
      \/ r = NoCo /\ w # NoCo /\ Complete(w, NoCo)
      \/ r = NoCo /\ w = NoCo /\ UNCHANGED control
  BY DEF Dispatch
<1>3. UNCHANGED News(s)
  BY <1>1 DEF News
<1>4. ASSUME NEW c \in Coros, Runs(c, "resume")', op[c].kind \in Reads, op[c].fd = s,
             ~Cancelled(c)
      PROVE  News(s) /\ \A f \in batch' : f.fd # s
  <2>1. c = r \/ c = w
    BY <1>1, <1>2, <1>4 DEF Complete, Runs, IInv, TypeOK, Control
  <2>2. c # w
    <3>1. ASSUME c = w PROVE FALSE
      <4>1. fd_to_op[e.fd].write = c /\ c # NoCo
        BY <3>1, NamesAssumption
      <4>2. op[c].kind \in Outs
        BY <1>1, <4>1 DEF IInv, Core, TableOK, Fds
      <4> QED
        BY <1>4, <4>2, KindFacts DEF Reads
    <3> QED
      BY <3>1
  <2>3. e.in /\ fd_to_op[e.fd].read = c
    BY <2>1, <2>2, NamesAssumption
  <2>4. CASE e.fd = s
    BY <1>1, <2>3, <2>4 DEF EventsTrue, BatchOK
  <2>5. CASE e.fd \in Socks \ {s}
    BY <1>4, <2>3, <2>5 DEF IInv, Core, TableOK
  <2>6. CASE e.fd \in Tokens
    <3>1. op[c].token = e.fd /\ token[e.fd].cancelled
      BY <2>3, <2>6 DEF IInv, Core, TableOK, SignalsOK
    <3> QED
      BY <1>4, <2>6, <3>1, NamesAssumption DEF Cancelled
  <2>7. CASE e.fd = TimerFd
    <3>1. tm.cur.op = c
      BY <2>3, <2>7 DEF IInv, Core, TableOK
    <3>2. tm.active_timer_ids[c] # 0 /\ Busy(c)
      BY <3>1, TimerFacts, NamesAssumption DEF IInv, Core, TimersOK, Placed
    <3> QED
      BY <1>4, <3>2, UntimedReads
  <2> QED
    BY <1>1, <2>4, <2>5, <2>6, <2>7 DEF Fds
<1>5. \A c \in Coros : UNCHANGED Cancelled(c)
  BY <1>1 DEF Cancelled
<1>6. \A f \in batch' : f.in /\ f.fd = s => News(s)
  BY <1>1 DEF EventsTrue
<1> HIDE DEF r, w
<1> QED
  BY <1>1, <1>3, <1>4, <1>5, <1>6 DEF EventsTrue

\* The loop around recv ends with a full buffer, an error or nothing to read.
LEMMA LoopFillsOrEnds ==
    ASSUME IInv, NEW s \in Socks, News(s), NEW c \in Coros, Busy(c), op[c].fd = s,
           NEW q \in TryRead(s, Remain(c)), ReadLoop(c, q.ec, q.n)
    PROVE  /\ sock'[s].link = sock[s].link
           /\ \/ UNCHANGED result
              \/ /\ \A d \in Coros \ {c} : result'[d] = result[d]
                 /\ result'[c].op = op[c]
                 /\ result'[c].ec = "ok" /\ result'[c].n < op[c].size => sock[s].link # "open"
<1>1. /\ op[c] \in Operation /\ Remain(c) \in Nat /\ op[c].got \in Nat
      /\ op[c].start \in Nat /\ op[c].size \in Nat
      /\ sock[s] \in SocketState /\ sock[s].inbox \in Nat
  BY OperationFacts DEF IInv, Core, TypeOK, SocketState
<1>2. sock'[s].link = sock[s].link
  BY <1>1 DEF ReadLoop, IInv, TypeOK, SocketState
<1>3. CASE UNCHANGED result
  BY <1>2, <1>3
<1>4. CASE ~UNCHANGED result
  <2>1. /\ Return(c, q.ec, op[c].start + (op[c].got + q.n))
        /\ q.ec # "ok" \/ q.n = 0 \/ q.n = Remain(c)
    BY <1>4 DEF ReadLoop
  <2>2. result' = [result EXCEPT ![c] = [op |-> op[c], ec |-> q.ec,
                                         n |-> op[c].start + (op[c].got + q.n)]]
    BY <2>1 DEF Return
  <2>3. /\ result'[c].op = op[c] /\ result'[c].ec = q.ec
        /\ result'[c].n = op[c].start + (op[c].got + q.n)
        /\ \A d \in Coros \ {c} : result'[d] = result[d]
    BY <2>2 DEF IInv, TypeOK
  <2>4. q.n \in Nat
    BY <1>1, TryReadFacts DEF IInv
  <2>5. ASSUME q.ec = "ok", op[c].start + (op[c].got + q.n) < op[c].size
        PROVE  sock[s].link # "open"
    <3>1. q.n # Remain(c)
      BY <1>1, <2>4, <2>5 DEF Remain
    <3>2. q.n = 0
      BY <2>1, <2>5, <3>1
    <3>3. Broken(s) \/ sock[s].inbox = 0
      BY <1>1, <3>1, <3>2 DEF TryRead
    <3> QED
      BY <3>3 DEF Broken, News
  <2> QED
    BY <1>2, <2>3, <2>5
<1> QED
  BY <1>3, <1>4


\* What a resumed operation leaves in the kernel for the readers of s
LEMMA InboxStays ==
    ASSUME TypeOK, NEW s \in Socks, NEW c \in Coros,
           \/ UNCHANGED sock
           \/ \E ec, n : ReadLoop(c, ec, n) /\ (op[c].fd # s \/ n = 0)
           \/ \E ec, n, stat : WriteLoop(c, ec, n, stat)
           \/ RecvSomeResume(c) /\ op[c].fd # s
    PROVE  sock'[s].inbox = sock[s].inbox
<1>1. sock[s] \in SocketState /\ sock[s].inbox \in Nat
  BY DEF TypeOK, SocketState
<1>2. ASSUME NEW ec, NEW n, ReadLoop(c, ec, n), op[c].fd # s \/ n = 0
      PROVE  sock'[s].inbox = sock[s].inbox
  BY <1>1, <1>2 DEF ReadLoop, TypeOK, SocketState
<1>3. ASSUME NEW ec, NEW n, NEW stat, WriteLoop(c, ec, n, stat)
      PROVE  sock'[s].inbox = sock[s].inbox
  BY <1>1, <1>3 DEF WriteLoop, TypeOK, SocketState
<1>4. CASE RecvSomeResume(c) /\ op[c].fd # s
  BY <1>1, <1>4 DEF RecvSomeResume, TypeOK, SocketState
<1> QED
  BY <1>2, <1>3, <1>4

\* What an operation returned, if it did
LEMMA Answer ==
    ASSUME IInv, NEW c \in Coros, Withdraws(c)
    PROVE  \/ UNCHANGED result
           \/ /\ \A d \in Coros \ {c} : result'[d] = result[d]
              /\ result'[c].op = op[c]
BY DEF Withdraws, Ends, GoesOn, Return, IInv, TypeOK

\* await_resume of a read of s that was not cancelled has s to itself, and of any
\* other operation takes nothing from s.
LEMMA ResumeTells ==
    ASSUME IInv, NEW s \in Socks, Untimed(s), EventsTrue(s), FullOrEof(s), NEW c \in Coros,
           \/ RecvResume(c) \/ RecvTimeoutResume(c) \/ RecvSomeResume(c)
           \/ SendResume(c) \/ SendTimeoutResume(c) \/ WaitResume(c)
    PROVE  EventsTrue(s)' /\ FullOrEof(s)'
<1>1. /\ Runs(c, "resume") /\ Withdraws(c) /\ Transfers
      /\ op[c] \in Operation /\ Busy(c) /\ batch' = batch
  <2>1. Runs(c, "resume")
    BY DEF RecvResume, RecvTimeoutResume, RecvSomeResume, SendResume, SendTimeoutResume,
           WaitResume
  <2>2. Withdraws(c) /\ Transfers
    BY PlainWithdraws, TimeoutEndsWithdraw, WaitWithdraws
  <2>3. Busy(c) /\ batch' = batch
    BY <2>2 DEF Withdraws
  <2>4. op[c] \in Operation
    BY <2>3 DEF Busy, IInv, TypeOK
  <2> QED
    BY <2>1, <2>2, <2>3, <2>4
<1>2. control'.at # "resume" /\ sock'[s].link = sock[s].link
  BY <1>1, WithdrawControl DEF IInv, Transfers
<1>3. \/ UNCHANGED result
      \/ /\ \A d \in Coros \ {c} : result'[d] = result[d]
         /\ result'[c].op = op[c]
  BY <1>1, Answer
<1>4. op[c].fd = s /\ op[c].kind \in Reads => op[c].kind # "read_timeout"
  BY <1>1, UntimedReads
<1>5. CASE op[c].fd = s /\ op[c].kind \in Reads /\ ~Cancelled(c)
  <2>1. News(s) /\ \A e \in batch : e.fd # s
    BY <1>1, <1>5 DEF EventsTrue
  <2>2. EventsTrue(s)'
    BY <1>1, <1>2, <2>1 DEF EventsTrue, Runs
  <2>3. CASE op[c].kind = "read"
    <3>1. PICK q \in TryRead(s, Remain(c)) : ReadLoop(c, q.ec, q.n)
      BY <1>5, <2>3
         DEF RecvResume, RecvTimeoutResume, RecvSomeResume, SendResume, SendTimeoutResume,
             WaitResume
    <3>2. \/ UNCHANGED result
          \/ /\ \A d \in Coros \ {c} : result'[d] = result[d]
             /\ result'[c].op = op[c]
             /\ result'[c].ec = "ok" /\ result'[c].n < op[c].size => sock[s].link # "open"
      BY <1>1, <1>5, <2>1, <3>1, LoopFillsOrEnds
    <3>3. FullOrEof(s)'
      BY <1>2, <3>2 DEF FullOrEof
    <3> QED
      BY <2>2, <3>3
  <2>4. CASE op[c].kind # "read"
    <3>1. op[c].kind \notin {"read", "read_timeout"}
      BY <1>4, <1>5, <2>4
    <3>2. FullOrEof(s)'
      BY <1>2, <1>3, <3>1 DEF FullOrEof
    <3> QED
      BY <2>2, <3>2
  <2> QED
    BY <2>3, <2>4
<1>6. CASE ~(op[c].fd = s /\ op[c].kind \in Reads /\ ~Cancelled(c))
  <2>1. sock'[s].inbox = sock[s].inbox
    <3>1. CASE RecvResume(c)
      <4>1. op[c].kind \in Reads /\ (Cancelled(c) => ReadLoop(c, "canceled", 0))
        BY <3>1 DEF RecvResume, Reads
      <4>2. \E ec, n : ReadLoop(c, ec, n)
        BY <3>1 DEF RecvResume
      <4> QED
        BY <1>6, <4>1, <4>2, InboxStays DEF IInv
    <3>2. CASE RecvSomeResume(c)
      <4>1. op[c].kind = "read_some" /\ op[c].token = NoToken
        BY <1>1, <3>2, OperationFacts DEF RecvSomeResume, IInv, Core
      <4>2. op[c].fd # s
        BY <1>6, <4>1 DEF Cancelled, Reads
      <4> QED
        BY <3>2, <4>2, InboxStays DEF IInv
    <3>3. CASE RecvTimeoutResume(c)
      <4>1. op[c].kind = "read_timeout" /\ \E ec, n : ReadLoop(c, ec, n)
        BY <3>3 DEF RecvTimeoutResume
      <4>2. op[c].fd # s
        BY <1>4, <4>1 DEF Reads
      <4> QED
        BY <4>1, <4>2, InboxStays DEF IInv
    <3>4. CASE SendResume(c) \/ SendTimeoutResume(c)
      <4>1. \E ec, n, stat : WriteLoop(c, ec, n, stat)
        BY <3>4 DEF SendResume, SendTimeoutResume
      <4> QED
        BY <4>1, InboxStays DEF IInv
    <3>5. CASE WaitResume(c)
      BY <3>5 DEF WaitResume
    <3> QED
      BY <3>1, <3>2, <3>3, <3>4, <3>5
  <2>2. News(s) => News(s)'
    BY <1>2, <2>1 DEF News
  <2>3. EventsTrue(s)'
    BY <1>1, <1>2, <2>2 DEF EventsTrue, Runs
  <2>4. CASE op[c].fd = s /\ op[c].kind \in {"read", "read_timeout"}
    <3>1. op[c].kind = "read" /\ Cancelled(c)
      BY <1>4, <1>6, <2>4 DEF Reads
    <3>2. ReadLoop(c, "canceled", 0)
      BY <3>1
         DEF RecvResume, RecvTimeoutResume, RecvSomeResume, SendResume, SendTimeoutResume,
             WaitResume
    <3>3. UNCHANGED result \/ result'[c].ec = "canceled"
      BY <3>2 DEF ReadLoop, Return, IInv, TypeOK
    <3>4. FullOrEof(s)'
      BY <1>2, <1>3, <3>3 DEF FullOrEof
    <3> QED
      BY <2>3, <3>4
  <2>5. CASE ~(op[c].fd = s /\ op[c].kind \in {"read", "read_timeout"})
    <3>1. FullOrEof(s)'
      BY <1>2, <1>3, <2>5 DEF FullOrEof
    <3> QED
      BY <2>3, <3>1
  <2> QED
    BY <2>4, <2>5
<1> QED
  BY <1>5, <1>6


\* await_suspend, cancel_slot::submit and the ends of coroutines resume a read only
\* if it was cancelled.
LEMMA AwaiterTells ==
    ASSUME IInv, IInv', SignalsOK, NEW c \in Coros, Awaiter(c)
    PROVE  /\ SignalsOK'
           /\ \A s \in Socks : Untimed(s) /\ EventsTrue(s) /\ FullOrEof(s)
                                  => EventsTrue(s)' /\ FullOrEof(s)'
<1>1. CASE \/ RecvResume(c) \/ RecvTimeoutResume(c) \/ RecvSomeResume(c)
           \/ SendResume(c) \/ SendTimeoutResume(c) \/ WaitResume(c)
  <2>1. ConsumeCancel(c) \/ UNCHANGED token
    BY <1>1 DEF RecvResume, RecvTimeoutResume, RecvSomeResume, SendResume, SendTimeoutResume,
                WaitResume
  <2>2. batch' = batch
    BY <1>1 DEF RecvResume, RecvTimeoutResume, RecvSomeResume, SendResume, SendTimeoutResume,
                WaitResume
  <2>3. \A t \in Tokens : token'[t].cancelled = token[t].cancelled
    BY <2>1, ConsumeKeepsFlags DEF IInv
  <2>4. \A t \in Tokens : token'[t].eventfd # "empty" => token[t].eventfd # "empty"
    BY <2>1 DEF ConsumeCancel, IInv, TypeOK
  <2>5. SignalsOK'
    BY <2>2, <2>3, <2>4 DEF SignalsOK
  <2> QED
    BY <1>1, <2>5, ResumeTells
<1>2. CASE ~(\/ RecvResume(c) \/ RecvTimeoutResume(c) \/ RecvSomeResume(c)
             \/ SendResume(c) \/ SendTimeoutResume(c) \/ WaitResume(c))
  <2>1. UNCHANGED <<batch, result, sock, token>>
    BY <1>2 DEF Awaiter, RecvSuspend, RecvTimeoutSuspend, RecvSomeSuspend, SendSuspend,
                SendTimeoutSuspend, WaitSuspend, CancelSlotSubmit, EndWithTimeout
  <2>2. \/ AlreadyCancelled(c) /\ Runs(c, "suspend")
        \/ Suspend(c) /\ Runs(c, "suspend")
        \/ Yield
    BY <1>2 DEF Awaiter, RecvSuspend, RecvTimeoutSuspend, RecvSomeSuspend, SendSuspend,
                SendTimeoutSuspend, WaitSuspend, CancelSlotSubmit, EndWithTimeout, StartTimeout
  <2>3. control'.at # "resume" \/ \A d \in Coros : control'.co = d => Cancelled(d)'
    <3>1. CASE AlreadyCancelled(c)
      <4>1. /\ control' = [control EXCEPT !.at = "resume", !.co = c]
            /\ Cancelled(c) /\ UNCHANGED op
        BY <3>1 DEF AlreadyCancelled, Goto
      <4>2. control'.co = c /\ Cancelled(c)'
        BY <2>1, <4>1 DEF Cancelled, IInv, TypeOK, Control
      <4> QED
        BY <4>2
    <3>2. CASE Suspend(c) /\ Runs(c, "suspend")
      BY <3>2, SuspendControl, Unplaced DEF IInv, Core, ThreadOK, TypeOK
    <3>3. CASE Yield
      BY <3>3, YieldFacts DEF IInv, TypeOK, Control
    <3> QED
      BY <2>2, <3>1, <3>2, <3>3
  <2>4. SignalsOK'
    BY <2>1 DEF SignalsOK
  <2>5. ASSUME NEW s \in Socks, EventsTrue(s), FullOrEof(s)
        PROVE  EventsTrue(s)' /\ FullOrEof(s)'
    <3>1. UNCHANGED News(s)
      BY <2>1 DEF News
    <3> QED
      BY <2>1, <2>3, <2>5, <3>1, EventsStay
  <2> QED
    BY <2>4, <2>5
<1> QED
  BY <1>1, <1>2

\* The coroutines' own code only closes: nothing to read becomes the end.
LEMMA UserTells ==
    ASSUME IInv, SignalsOK, NEW c \in Coros, User(c)
    PROVE  /\ SignalsOK'
           /\ \A s \in Socks : EventsTrue(s) /\ FullOrEof(s)
                                  => EventsTrue(s)' /\ FullOrEof(s)'
<1>1. UNCHANGED <<batch, result>>
  BY DEF User, Launch, Finish, End, Begin, RequestCancelHere
<1>2. \A t \in Tokens : /\ token[t].cancelled => token'[t].cancelled
                        /\ token'[t].eventfd # "empty" => token'[t].cancelled
  <2>1. CASE \E t \in Tokens : RequestCancelHere(c, t)
    BY <2>1 DEF RequestCancelHere, SignalsOK, IInv, TypeOK
  <2>2. CASE UNCHANGED token
    BY <2>2 DEF SignalsOK
  <2> QED
    BY <2>1, <2>2 DEF User, Launch, Finish, End, Begin
<1>3. SignalsOK'
  BY <1>1, <1>2, SignalsStay DEF IInv
<1>4. control'.at # "resume"
  <2>1. \/ Goto("user", c) \/ Goto("suspend", c) \/ Yield
        \/ Runs(c, "user") /\ UNCHANGED control
    BY DEF User, Launch, Finish, End, Begin, RequestCancelHere
  <2> QED
    BY <2>1, GotoFacts, YieldFacts DEF Points, Runs, IInv, TypeOK, Control
<1>5. ASSUME NEW s \in Socks
      PROVE  /\ News(s) => News(s)'
             /\ sock[s].link # "open" => sock'[s].link # "open"
  BY DEF User, Launch, Finish, End, Begin, RequestCancelHere, Socket, News
<1> QED
  BY <1>1, <1>3, <1>4, <1>5, EventsStay


\* Peers only add to what there is to read, or end it.
LEMMA PeersTell ==
    ASSUME TypeOK, Peer, NEW s \in Socks
    PROVE  /\ News(s) => News(s)'
           /\ sock[s].link # "open" => sock'[s].link # "open"
<1>1. PICK p \in Socks : PeerSend(p) \/ PeerDrain(p) \/ PeerShut(p) \/ PeerReset(p)
  BY DEF Peer
<1>2. \A q \in Socks : sock[q] \in SocketState /\ sock[q].inbox \in Nat
  BY DEF TypeOK, SocketState
<1>3. CASE p # s
  <2>1. sock'[s] = sock[s]
    BY <1>1, <1>3 DEF PeerSend, PeerDrain, PeerShut, PeerReset, TypeOK
  <2> QED
    BY <2>1 DEF News
<1>4. CASE p = s
  <2>1. CASE PeerSend(s)
    BY <1>2, <2>1 DEF PeerSend, TypeOK, SocketState, News
  <2>2. CASE PeerDrain(s)
    BY <1>2, <2>2 DEF PeerDrain, TypeOK, SocketState, News
  <2>3. CASE PeerShut(s) \/ PeerReset(s)
    BY <1>2, <2>3 DEF PeerShut, PeerReset, TypeOK, SocketState, News
  <2> QED
    BY <1>1, <1>4, <2>1, <2>2, <2>3
<1> QED
  BY <1>3, <1>4

\* Other threads set the flag before they signal.
LEMMA OutsideTells ==
    ASSUME IInv, SignalsOK,
           \/ Peer \/ Tick \/ EnterRunning \/ LeaveRunning \/ UNCHANGED vars
           \/ \E t \in Tokens : RequestCancel(t) \/ SignalCancel(t)
    PROVE  /\ SignalsOK'
           /\ \A s \in Socks : EventsTrue(s) /\ FullOrEof(s)
                                  => EventsTrue(s)' /\ FullOrEof(s)'
<1>1. UNCHANGED <<batch, result, op>>
  BY DEF Peer, Tick, EnterRunning, LeaveRunning, RequestCancel, SignalCancel, vars
<1>2. \A t \in Tokens : /\ token[t].cancelled => token'[t].cancelled
                        /\ token'[t].eventfd # "empty" => token'[t].cancelled
  <2>1. CASE \E t \in Tokens : RequestCancel(t)
    BY <2>1 DEF RequestCancel, SignalsOK, IInv, TypeOK
  <2>2. CASE \E t \in Tokens : SignalCancel(t)
    <3>1. PICK t \in Tokens : SignalCancel(t)
      BY <2>2
    <3>2. \A u \in Tokens : token'[u].cancelled = token[u].cancelled
      BY <3>1 DEF SignalCancel, IInv, TypeOK
    <3>3. \A u \in Tokens : token'[u].eventfd # "empty" => token[u].eventfd # "empty"
      BY <3>1 DEF SignalCancel, IInv, TypeOK
    <3> QED
      BY <3>2, <3>3 DEF SignalsOK
  <2>3. CASE UNCHANGED token
    BY <2>3 DEF SignalsOK
  <2> QED
    BY <2>1, <2>2, <2>3 DEF Peer, Tick, EnterRunning, LeaveRunning, vars
<1>3. SignalsOK'
  BY <1>1, <1>2, SignalsStay DEF IInv
<1>4. \/ control'.at # "resume"
      \/ /\ UNCHANGED <<control, op>>
         /\ \A c \in Coros : Busy(c) /\ Cancelled(c) => Cancelled(c)'
  <2>1. CASE EnterRunning \/ LeaveRunning
    BY <2>1 DEF EnterRunning, LeaveRunning, Goto, IInv, TypeOK, Control
  <2>2. CASE ~(EnterRunning \/ LeaveRunning)
    <3>1. UNCHANGED control
      BY <2>2 DEF Peer, Tick, RequestCancel, SignalCancel, vars
    <3>2. ASSUME NEW c \in Coros, Busy(c), Cancelled(c) PROVE Cancelled(c)'
      <4>1. op[c].token \in Tokens
        BY <3>2, OperationFacts DEF Cancelled, IInv, Core
      <4> QED
        BY <1>1, <1>2, <3>2, <4>1 DEF Cancelled
    <3> QED
      BY <1>1, <3>1, <3>2
  <2> QED
    BY <2>1, <2>2
<1>5. ASSUME NEW s \in Socks
      PROVE  /\ News(s) => News(s)'
             /\ sock[s].link # "open" => sock'[s].link # "open"
  <2>1. CASE Peer
    BY <2>1, PeersTell DEF IInv
  <2>2. CASE UNCHANGED sock
    BY <2>2 DEF News
  <2> QED
    BY <2>1, <2>2 DEF Tick, EnterRunning, LeaveRunning, RequestCancel, SignalCancel, vars
<1> QED
  BY <1>1, <1>3, <1>4, <1>5, EventsStay

\* One turn of the loop
LEMMA LoopTells ==
    ASSUME IInv, BatchOK, SignalsOK, Poll \/ CompleteWrite \/ \E e \in batch : Dispatch(e)
    PROVE  /\ SignalsOK'
           /\ \A s \in Socks : Untimed(s) /\ EventsTrue(s) /\ FullOrEof(s)
                                  => EventsTrue(s)' /\ FullOrEof(s)'
<1>1. UNCHANGED <<result, sock, token, op>>
  BY DEF Poll, CompleteWrite, Dispatch
<1>2. \A s \in Socks : UNCHANGED News(s) /\ UNCHANGED FullOrEof(s)
  BY <1>1 DEF News, FullOrEof
<1>3. CASE Poll
  <2>1. control' = control /\ control.at = "loop"
    BY <1>3 DEF Poll
  <2>2. SignalsOK' /\ \A s \in Socks : \A e \in batch' : e.in /\ e.fd = s => News(s)
    <3>1. SignalsOK' /\ \A s \in Socks : \A e \in batch' : e.in /\ e.fd = s => News(s)'
      BY <1>3, PollTells DEF IInv
    <3> QED
      BY <1>2, <3>1
  <2> QED
    BY <1>2, <2>1, <2>2 DEF EventsTrue, Runs
<1>4. CASE CompleteWrite
  <2>1. /\ control'.co = control.next /\ op[control.next].kind \in Outs /\ batch' = batch
    BY <1>4 DEF CompleteWrite, Complete, IInv, Core, ThreadOK, TypeOK, Control
  <2>2. SignalsOK'
    BY <1>1, <2>1 DEF SignalsOK
  <2>3. \A c \in Coros : Runs(c, "resume")' => op'[c].kind \notin Reads
    BY <1>1, <2>1, KindFacts DEF Runs, Reads
  <2>4. \A s \in Socks : EventsTrue(s) => EventsTrue(s)'
    BY <1>2, <2>1, <2>3 DEF EventsTrue
  <2> QED
    BY <1>2, <2>2, <2>4
<1>5. CASE \E e \in batch : Dispatch(e)
  <2>1. batch' \subseteq batch
    BY <1>5 DEF Dispatch
  <2>2. SignalsOK'
    BY <1>1, <2>1 DEF SignalsOK
  <2>3. ASSUME NEW s \in Socks, Untimed(s), EventsTrue(s) PROVE EventsTrue(s)'
    BY <1>5, <2>3, DispatchTells
  <2> QED
    BY <1>2, <2>2, <2>3
<1> QED
  BY <1>3, <1>4, <1>5

\* What returned was an operation under way.
LEMMA ReadsStayOnSockets ==
    ASSUME IInv, ReadsOnSockets, [Next]_vars
    PROVE  ReadsOnSockets'
<1>1. ASSUME NEW c \in Coros, \A d \in Coros \ {c} : result'[d] = result[d],
             result'[c].op = op[c], Busy(c)
      PROVE  ReadsOnSockets'
  <2>1. op[c].kind \in Reads => op[c].fd \in Socks
    BY <1>1, OperationFacts DEF IInv, Core, Reads
  <2> QED
    BY <1>1, <2>1 DEF ReadsOnSockets
<1>2. CASE UNCHANGED result
  BY <1>2 DEF ReadsOnSockets
<1>3. ASSUME NEW c \in Coros, \/ RecvResume(c) \/ RecvTimeoutResume(c) \/ RecvSomeResume(c)
                              \/ SendResume(c) \/ SendTimeoutResume(c) \/ WaitResume(c)
      PROVE  ReadsOnSockets'
  <2>1. Withdraws(c)
    BY <1>3, PlainWithdraws, TimeoutEndsWithdraw, WaitWithdraws
  <2>2. Busy(c)
    BY <2>1 DEF Withdraws
  <2> QED
    BY <1>1, <1>2, <2>1, <2>2, Answer
<1> QED
  BY <1>2, <1>3
     DEF Next, Thread, EnterRunning, Loop, Poll, Dispatch, CompleteWrite, LeaveRunning,
         Awaiter, RecvSuspend, RecvTimeoutSuspend, RecvSomeSuspend, SendSuspend,
         SendTimeoutSuspend, WaitSuspend, CancelSlotSubmit, EndWithTimeout,
         User, Launch, Finish, End, Begin, RequestCancelHere, Tick, Peer, RequestCancel,
         SignalCancel, vars

\* Each step keeps what is known about the sockets that are read without a timeout.
LEMMA NextTells ==
    ASSUME NEW S \in SUBSET Socks, EofInv(S), [Next]_vars
    PROVE  EofInv(S)'
<1>1. IInv /\ BatchOK /\ SignalsOK /\ ReadsOnSockets
  BY DEF EofInv, TInv
<1>2. TInv' /\ IInv'
  BY NextSeen DEF EofInv, TInv
<1>3. ReadsOnSockets'
  BY <1>1, ReadsStayOnSockets
<1>4. /\ SignalsOK'
      /\ \A s \in Socks : Untimed(s) /\ EventsTrue(s) /\ FullOrEof(s)
                             => EventsTrue(s)' /\ FullOrEof(s)'
  <2>1. CASE Poll \/ CompleteWrite \/ \E e \in batch : Dispatch(e)
    BY <1>1, <2>1, LoopTells
  <2>2. CASE \E c \in Coros : Awaiter(c)
    BY <1>1, <1>2, <2>2, AwaiterTells
  <2>3. CASE \E c \in Coros : User(c)
    BY <1>1, <2>3, UserTells
  <2>4. CASE \/ Peer \/ Tick \/ EnterRunning \/ LeaveRunning \/ UNCHANGED vars
             \/ \E t \in Tokens : RequestCancel(t) \/ SignalCancel(t)
    BY <1>1, <2>4, OutsideTells
  <2> QED
    BY <2>1, <2>2, <2>3, <2>4 DEF Next, Thread, Loop
<1> QED
  BY <1>2, <1>3, <1>4 DEF EofInv

\* At the beginning nothing has been reported or returned.
LEMMA InitTells ==
    ASSUME NEW S \in SUBSET Socks, Init
    PROVE  EofInv(S)
<1>1. TInv
  BY InitSeen
<1>2. SignalsOK /\ ReadsOnSockets
  BY DEF Init, SignalsOK, ReadsOnSockets, NoResult, Idle, Reads
<1>3. \A s \in Socks : EventsTrue(s) /\ FullOrEof(s)
  BY DEF Init, EventsTrue, FullOrEof, Runs, NoResult, Idle
<1> QED
  BY <1>1, <1>2, <1>3 DEF EofInv

\* Wherever no code reads a socket with a timeout, an event in the batch is true when
\* the read it completes runs, although other reads and cancellations, writes and
\* timers run in between (Scheduler::running, the awaiters of async_read.h).
THEOREM EventsStayTrue == Spec => []EofInv(Socks)
<1>1. Init => EofInv(Socks)
  BY InitTells
<1>2. EofInv(Socks) /\ [Next]_vars => EofInv(Socks)'
  BY NextTells
<1> QED
  BY <1>1, <1>2, PTL DEF Spec

\* Where no code reads with a timeout, an async_read that reports success has filled
\* its buffer or the peer is gone.  With timeouts it need not (AsyncIOStaleTimer.cfg).
THEOREM ShortReadsMeanEof ==
    ASSUME \A s \in Socks : Untimed(s)
    PROVE  Spec => []ShortReadMeansEof
<1>1. EofInv(Socks) => ShortReadMeansEof
  BY DEF EofInv, FullOrEof, ReadsOnSockets, ShortReadMeansEof, Reads
<1> QED
  BY <1>1, EventsStayTrue, PTL

-------------------------------------------------------------------------------
(* Short reads while connections come and go: the sockets that main() holds are not *)
(* among the numbers that socket() and accept4() give out.                          *)

\* Accepting, connecting and closing leave the readers of main's sockets alone.
LEMMA ConnectingSpares ==
    ASSUME IInv, NEW c \in Coros, Connecting(c), NEW s \in Streams
    PROVE  /\ News(s) => News(s)'
           /\ sock[s].link # "open" => sock'[s].link # "open"
<1>1. /\ s \in Socks /\ s \notin Listeners \cup Unused /\ sock \in [Socks -> SocketState]
      /\ sock[s].owner = NoCo /\ sock[s].link # "closed"
  BY DEF IInv, TypeOK, SocksOK, Streams
<1>2. s \notin Owned(c) /\ s \notin Free
  BY <1>1, NamesAssumption DEF Owned, Free
<1>3. CASE \E o \in Menu[c] : BeginConnect(c, o) \/ SocketFails(c, o) \/ AddressFails(c, o)
  <2>1. sock'[s] = sock[s]
    BY <1>1, <1>2, <1>3 DEF BeginConnect, SocketFails, AddressFails, End
  <2> QED
    BY <2>1 DEF News
<1>4. CASE ConnectSuspend(c) \/ ConnectResume(c)
  <2>1. op[c].kind = "connect" /\ Busy(c)
    BY <1>4, KindFacts DEF ConnectSuspend, ConnectResume, Busy
  <2>2. op[c].fd # s
    BY <1>1, <2>1, ConnectAlone
  <2>3. sock'[s] = sock[s]
    BY <1>1, <1>4, <2>2 DEF ConnectSuspend, ConnectResume, EndConnect
  <2> QED
    BY <2>3 DEF News
<1>5. CASE AcceptResume(c)
  <2>1. op[c].kind = "accept" /\ Busy(c) /\ Accept(c, op[c].fd)
    BY <1>5, KindFacts DEF AcceptResume, Busy
  <2>2. op[c].fd # s
    BY <1>1, <2>1, OperationFacts DEF IInv, Core
  <2>3. sock'[s] = sock[s]
    BY <1>1, <1>2, <2>1, <2>2 DEF Accept
  <2> QED
    BY <2>3 DEF News
<1>6. CASE AcceptSuspend(c) \/ Close(c)
  <2>1. sock'[s] = sock[s]
    BY <1>1, <1>2, <1>6 DEF AcceptSuspend, Close
  <2> QED
    BY <2>1 DEF News
<1> QED
  BY <1>3, <1>4, <1>5, <1>6 DEF Connecting

\* Their results are connections, and nobody is resumed.
LEMMA ConnectingReturns ==
    ASSUME IInv, NEW c \in Coros, Connecting(c)
    PROVE  /\ UNCHANGED <<batch, token>>
           /\ control'.at # "resume"
           /\ \A d \in Coros : result'[d] = result[d] \/ result'[d].op.kind \notin Reads
<1>1. UNCHANGED <<batch, token>>
  BY DEF Connecting, BeginConnect, SocketFails, AddressFails, End, ConnectSuspend,
         EndConnect, Return,
         ConnectResume, AcceptSuspend, AcceptResume, Accept, Close
<1>2. ASSUME NEW ec, NEW n, Return(c, ec, n), op[c].kind \in {"accept", "connect"}
      PROVE  /\ control'.at # "resume"
             /\ \A d \in Coros : result'[d] = result[d] \/ result'[d].op.kind \notin Reads
  <2>1. control'.at # "resume"
    BY <1>2, GotoFacts DEF Return, Points, IInv, TypeOK
  <2>2. result' = [result EXCEPT ![c] = [op |-> op[c], ec |-> ec, n |-> n]]
    BY <1>2 DEF Return
  <2>3. result'[c].op = op[c] /\ \A d \in Coros \ {c} : result'[d] = result[d]
    BY <2>2 DEF IInv, TypeOK
  <2> QED
    BY <1>2, <2>1, <2>3 DEF Reads
<1>3. CASE \E o \in Menu[c] : BeginConnect(c, o) \/ SocketFails(c, o) \/ AddressFails(c, o)
  <2>1. (Goto("suspend", c) \/ Yield) /\ UNCHANGED result
    BY <1>3 DEF BeginConnect, SocketFails, AddressFails, End
  <2> QED
    BY <1>1, <2>1, GotoFacts, YieldFacts DEF Points, IInv, TypeOK, Control
<1>4. CASE ConnectSuspend(c) \/ AcceptSuspend(c)
  <2>1. Runs(c, "suspend") /\ op[c].kind \in {"accept", "connect"}
    BY <1>4 DEF ConnectSuspend, AcceptSuspend
  <2>2. CASE Suspend(c) /\ UNCHANGED result
    <3>1. control'.at # "resume"
      BY <2>1, <2>2, SuspendControl, Unplaced DEF IInv, Core, ThreadOK, TypeOK
    <3> QED
      BY <1>1, <2>2, <3>1
  <2>3. CASE \E ec, n : Return(c, ec, n)
    BY <1>1, <1>2, <2>1, <2>3
  <2> QED
    BY <1>4, <2>2, <2>3 DEF ConnectSuspend, EndConnect, AcceptSuspend
<1>5. CASE ConnectResume(c) \/ AcceptResume(c)
  <2>1. op[c].kind \in {"accept", "connect"} /\ \E ec, n : Return(c, ec, n)
    BY <1>5 DEF ConnectResume, EndConnect, AcceptResume, Accept
  <2> QED
    BY <1>1, <1>2, <2>1
<1>6. CASE Close(c)
  <2>1. UNCHANGED <<control, result>> /\ control.at = "user"
    BY <1>6 DEF Close, Runs
  <2> QED
    BY <1>1, <2>1
<1> QED
  BY <1>3, <1>4, <1>5, <1>6 DEF Connecting

\* Each step keeps what is known about main's streams.
LEMMA ConnNextTells == MainsInv /\ [ConnNext]_vars => MainsInv'
<1> SUFFICES ASSUME MainsInv, [ConnNext]_vars PROVE MainsInv'
  OBVIOUS
<1>1. TInv /\ IInv /\ SignalsOK /\ ReadsOnSockets /\ EofInv(Streams) /\ Streams \in SUBSET Socks
  BY DEF MainsInv, EofInv, TInv, Streams
<1>2. TInv'
  BY <1>1, ConnNextSeen
<1>3. \A s \in Streams : Untimed(s) => EventsTrue(s) /\ FullOrEof(s)
  BY <1>1 DEF EofInv
<1>4. CASE [Next]_vars
  <2>1. EofInv(Streams)'
    BY <1>1, <1>4, NextTells
  <2> QED
    BY <2>1 DEF MainsInv
<1>5. CASE \E c \in Coros : Connecting(c)
  <2>1. PICK c \in Coros : Connecting(c)
    BY <1>5
  <2>2. /\ UNCHANGED <<batch, token>> /\ control'.at # "resume"
        /\ \A d \in Coros : result'[d] = result[d] \/ result'[d].op.kind \notin Reads
    BY <1>1, <2>1, ConnectingReturns
  <2>3. SignalsOK' /\ ReadsOnSockets'
    BY <1>1, <2>2 DEF SignalsOK, ReadsOnSockets
  <2>4. ASSUME NEW s \in Streams, Untimed(s)
        PROVE  EventsTrue(s)' /\ FullOrEof(s)'
    <3>1. /\ News(s) => News(s)'
          /\ sock[s].link # "open" => sock'[s].link # "open"
      BY <1>1, <2>1, ConnectingSpares
    <3> QED
      BY <1>1, <1>3, <2>2, <2>4, <3>1, EventsStay
  <2> QED
    BY <1>2, <2>3, <2>4 DEF MainsInv, EofInv
<1>6. CASE \E z \in Socks : PeerConnects(z) \/ PeerAnswers(z)
  <2>1. PICK z \in Socks : PeerConnects(z) \/ PeerAnswers(z)
    BY <1>6
  <2>2. UNCHANGED <<now, tm, fd_to_op, batch, control, at, op, left, result, token>>
    BY <2>1 DEF PeerConnects, PeerAnswers
  <2>3. SignalsOK' /\ ReadsOnSockets'
    BY <1>1, <2>2 DEF SignalsOK, ReadsOnSockets
  <2>4. ASSUME NEW s \in Streams, Untimed(s)
        PROVE  EventsTrue(s)' /\ FullOrEof(s)'
    <3>1. /\ s \in Socks /\ sock \in [Socks -> SocketState] /\ sock[s].inbox \in Nat
          /\ sock[s].link # "connecting"
      BY <1>1 DEF Streams, IInv, TypeOK, SocksOK, SocketState
    <3>2. CASE PeerConnects(z)
      <4>1. sock'[s].inbox \in {sock[s].inbox, sock[s].inbox + 1} /\ sock'[s].link = sock[s].link
        BY <3>1, <3>2 DEF PeerConnects, SocketState
      <4>2. News(s) => News(s)'
        BY <3>1, <4>1 DEF News
      <4>3. \A c \in Coros : Cancelled(c)' = Cancelled(c)
        BY <2>2 DEF Cancelled
      <4> QED
        BY <1>3, <2>2, <2>4, <3>1, <4>1, <4>2, <4>3, EventsStay
    <3>3. CASE PeerAnswers(z)
      <4>1. sock'[s] = sock[s]
        BY <3>1, <3>3 DEF PeerAnswers
      <4>2. UNCHANGED News(s) /\ \A c \in Coros : Cancelled(c)' = Cancelled(c)
        BY <2>2, <4>1 DEF News, Cancelled
      <4> QED
        BY <1>3, <2>2, <2>4, <3>1, <4>1, <4>2, EventsStay
    <3> QED
      BY <2>1, <3>2, <3>3
  <2> QED
    BY <1>2, <2>3, <2>4 DEF MainsInv, EofInv
<1> QED
  BY <1>4, <1>5, <1>6 DEF ConnNext

\* Also while connections are made, closed and their numbers used again, an event for
\* one of main's streams, if no code reads it with a timeout, is true when the read it
\* completes runs.
THEOREM MainsEventsStayTrue == ConnSpec => []MainsInv
<1>1. Init => MainsInv
  <2>1. Streams \in SUBSET Socks
    BY DEF Streams
  <2> QED
    BY <2>1, InitTells DEF MainsInv
<1>2. MainsInv /\ [ConnNext]_vars => MainsInv'
  BY ConnNextTells
<1> QED
  BY <1>1, <1>2, PTL DEF ConnSpec

\* ... so an async_read on such a stream that reports success has filled its buffer or
\* the peer is gone.
THEOREM MainsShortReadsMeanEof ==
    ASSUME \A s \in Streams : Untimed(s)
    PROVE  ConnSpec => [](\A s \in Streams : FullOrEof(s))
<1>1. MainsInv => \A s \in Streams : FullOrEof(s)
  BY DEF MainsInv, EofInv
<1> QED
  BY <1>1, MainsEventsStayTrue, PTL
===============================================================================
