----------------------------- MODULE TimerService -----------------------------
(***************************************************************************)
(* What the timer component promises to the operations that use it.        *)
(*                                                                         *)
(* An operation starts at most one timer at a time.  A "wait" timer        *)
(* (wait_for) ends only by expiring.  A "timeout" timer (async_read_timeout, *)
(* async_write_timeout) ends by expiring or because its operation no longer *)
(* needs it.  Timers expire no earlier than their deadline, and in the     *)
(* order of their deadlines.                                               *)
(***************************************************************************)
EXTENDS Naturals

CONSTANTS Ops, Delays

VARIABLES now,        \* the monotonic clock
          deadline,   \* deadline[p]: when p's timer is due, 0 without a timer
          purpose     \* purpose[p] \in {"no", "wait", "timeout"}

vars == <<now, deadline, purpose>>

Running(p) == purpose[p] # "no"

Init == /\ now = 1
        /\ deadline = [p \in Ops |-> 0]
        /\ purpose = [p \in Ops |-> "no"]

Tick == /\ now' = now + 1
        /\ UNCHANGED <<deadline, purpose>>

Start(p, why, d) == /\ ~Running(p)
                    /\ deadline' = [deadline EXCEPT ![p] = now + d]
                    /\ purpose' = [purpose EXCEPT ![p] = why]
                    /\ UNCHANGED now

End(p) == /\ deadline' = [deadline EXCEPT ![p] = 0]
          /\ purpose' = [purpose EXCEPT ![p] = "no"]
          /\ UNCHANGED now

\* due, and no running timer is due before it
Expire(p) == /\ Running(p)
             /\ deadline[p] <= now
             /\ \A q \in Ops : Running(q) => deadline[p] <= deadline[q]
             /\ End(p)

Withdraw(p) == /\ purpose[p] = "timeout"
               /\ End(p)

Next == \/ Tick
        \/ \E p \in Ops :
              \/ \E why \in {"wait", "timeout"}, d \in Delays : Start(p, why, d)
              \/ Expire(p)
              \/ Withdraw(p)

Spec == Init /\ [][Next]_vars
===============================================================================
