------------------------------- MODULE MCSync -------------------------------
EXTENDS Sync, TLC

CONSTANTS r1, r2

\* Every replica has the others on its command line.
MCMutual == [r \in Replicas |-> Replicas \ {r}]

\* r2 is in server mode: it only knows the hosts that announce themselves.
MCServerMode == [r \in Replicas |-> IF r = r1 THEN {r2} ELSE {}]
=============================================================================
