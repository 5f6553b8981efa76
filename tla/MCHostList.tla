----------------------------- MODULE MCHostList -----------------------------
EXTENDS HostList

CONSTANTS p1, p2, a1, a2

MCPermanentHosts == <<p1, p2>>
=============================================================================
