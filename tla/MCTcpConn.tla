----------------------------- MODULE MCTcpConn -----------------------------
(* Instances of TcpConn for TLC. *)
EXTENDS TcpConn

\* The programs that the code serves: a peer whose data cannot be decoded only with a
\* connection that is not to be made again and that the program holds.
SafePrograms == {p \in Program : p.badData => ~p.reconnect /\ p.held}

\* A peer whose data cannot be decoded, and a client that reconnects.
RetryingPrograms == {p \in Program : p.badData /\ p.reconnect /\ p.held}
=============================================================================
