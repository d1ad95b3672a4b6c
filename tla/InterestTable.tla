----------------------------- MODULE InterestTable -----------------------------
(***************************************************************************)
(* Scheduler's fd_to_op (scheduler.h) as a total function on descriptors:  *)
(* an entry without events is a descriptor that is not in the map.  The    *)
(* interest set of the epoll instance is kept equal to it by the epoll_ctl *)
(* call at the end of every operation (epoll_manager.h), so it needs no    *)
(* variable of its own.                                                    *)
(***************************************************************************)
EXTENDS Naturals

CONSTANTS Ops,   \* operations: whose read_op or write_op sits in a slot
          NoOp   \* nullptr

\* register_type (scheduler_type_traits.h); accept and connect use the same masks
EVENT_READ  == {"IN"}
EVENT_WRITE == {"OUT"}
EVENT_TIMER == {"IN", "ET"}

\* fd_state
FdState == [events : SUBSET {"IN", "OUT", "ET"},
            read   : Ops \cup {NoOp},
            write  : Ops \cup {NoOp}]

NoEntry == [events |-> {}, read |-> NoOp, write |-> NoOp]

Registered(table, fd) == table[fd].events # {}

\* the table holds nothing: the loop of running() ends
Empty(table) == \A fd \in DOMAIN table : ~Registered(table, fd)

-------------------------------------------------------------------------------
(* Plausible slips, each exercised by a mutation run *)

\* erases the entry whatever the other direction is waiting for
Remove_WholeEntry(table, fd, mask) == [table EXCEPT ![fd] = NoEntry]

\* leaves the pointer of a direction that is no longer watched
Remove_KeepSlot(table, fd, mask) ==
    [table EXCEPT ![fd].events = @ \ mask]

-------------------------------------------------------------------------------
\* submit_event_impl
Submit(table, fd, p, mask) ==
    [table EXCEPT ![fd] = [events |-> @.events \cup mask,
                           read   |-> IF "IN" \in mask THEN p ELSE @.read,
                           write  |-> IF "OUT" \in mask THEN p ELSE @.write]]

\* remove_op_impl
Remove(table, fd, mask) ==
    LET rest == table[fd].events \ mask
    IN  [table EXCEPT ![fd] =
            IF rest = {} THEN NoEntry
            ELSE [events |-> rest,
                  read   |-> IF "IN" \in mask THEN NoOp ELSE @.read,
                  write  |-> IF "OUT" \in mask THEN NoOp ELSE @.write]]
===============================================================================
