------------------------------ MODULE MCGateway -----------------------------
\* Instances of GatewayConnections for TLC: connections of one user.
EXTENDS GatewayConnections

CONSTANTS u1

OneOwner == [c \in Conns |-> u1]
=============================================================================
