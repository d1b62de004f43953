-------------------------- MODULE MCTcpConnection --------------------------
\* Model-checking instances of TcpConnection.
EXTENDS TcpConnection, TLC

\* Only the client writes.
OneWay == Client :> 3 @@ Server :> 0
Short == Client :> 2 @@ Server :> 0

\* Both sides write.
BothWays == Client :> 2 @@ Server :> 1
=============================================================================
