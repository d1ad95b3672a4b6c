---------------------------- MODULE MCConnections ----------------------------
(* Small programs that make connections *)
EXTENDS Connections, MCAsyncIO

CONSTANT s3

\* A server that reads from whom it accepts, with a timeout and a token; a client
\* that writes to whom it connects to and sleeps in between
Server == {A("accept", s1, NoToken, 0, 0), A("read_timeout", Own, t1, 1, 1)}
Client == {A("connect", Own, NoToken, 0, 0), A("write", Own, NoToken, 2, 0),
           A("wait_for", TimerFd, NoToken, 0, 2)}
ServerAndClient == (c1 :> Server) @@ (c2 :> Client)

\* A server and a client that use one number in turn, read and write main's stream at the
\* same time, and have two timers; the token is private
Turns == (c1 :> {A("accept", s1, NoToken, 0, 0), A("read_some", Own, NoToken, 1, 0),
                 A("read", s3, t1, 1, 0), A("read", s3, t1, 2, 0),
                 A("wait_for", TimerFd, NoToken, 0, 1)})
      @@ (c2 :> {A("connect", Own, NoToken, 0, 0),
                 WithTimeout(A("write_timeout", s3, NoToken, 2, 1))})

\* A client whose reads have a timeout
Reconnecting == c1 :> {A("connect", Own, NoToken, 0, 0), A("read_timeout", Own, NoToken, 1, 1)}
===============================================================================
