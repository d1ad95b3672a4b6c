------------------------------ MODULE MCAsyncIO ------------------------------
(* Small programs for the framework: what each coroutine's code may await *)
EXTENDS AsyncIOInv, TLC

CONSTANTS c1, c2, c3, s1, s2, t1, t2

\* elements of Await: on an empty buffer, on one whose first bytes are used
\* already, and wrapped in with_timeout
A(kind, fd, tok, size, delay) ==
    [kind |-> kind, fd |-> fd, token |-> tok, size |-> size, start |-> 0,
     delay |-> delay, wrapped |-> FALSE]
Uncleared(o, start) == [o EXCEPT !.start = start]
WithTimeout(o) == [o EXCEPT !.wrapped = TRUE]

\* A reader and a writer on one socket, each with a token of its own or without
\* one, and then with a buffer that is in part used or, of the writer, has no room.
Duplex == (c1 :> {A("read", s1, t1, 2, 0), Uncleared(A("read", s1, NoToken, 2, 0), 1)})
       @@ (c2 :> {A("write", s1, t2, 2, 0), Uncleared(A("write", s1, NoToken, 2, 0), 2)})

\* Timed operations of every kind, with equal and overtaking delays, and a read into a
\* buffer without room
Timers == (c1 :> {A("read_timeout", s1, t1, 2, 1), A("wait_for", TimerFd, NoToken, 0, 2),
                  Uncleared(A("read", s1, NoToken, 2, 0), 2)})
       @@ (c2 :> {A("write_timeout", s1, NoToken, 2, 1), A("wait_for", TimerFd, NoToken, 0, 1)})

\* Operations another thread may cancel, one of them inside with_timeout
Cancellable == (c1 :> {A("read", s1, t1, 1, 0), A("write", s2, t1, 2, 0)})
            @@ (c2 :> {A("read_timeout", s2, t2, 1, 1),
                       WithTimeout(A("read_timeout", s2, t2, 1, 1))})

\* Two reads with one token, and a coroutine that cancels it
SharedToken == (c1 :> {A("read", s1, t1, 1, 0)}) @@ (c2 :> {A("read", s2, t1, 1, 0)})
            @@ (c3 :> {})

===============================================================================
