-------------------------------- MODULE HostSet --------------------------------
(***************************************************************************)
(* What the host list promises: a set of hosts, to which announced hosts   *)
(* are added and from which only a temporary host is removed, by the       *)
(* client, once it has synchronised with it; and the client only ever      *)
(* synchronises with a host of the set.                                    *)
(***************************************************************************)

CONSTANTS
    Permanent,  \* the hosts of the command line
    Temporary   \* hosts that other clients may announce

VARIABLES
    hosts,   \* the hosts known
    syncing, \* the host of the client's present session, or "none"
    synced   \* the host that is to be removed after its session, or "none"

vars == <<hosts, syncing, synced>>

Init == hosts = Permanent /\ syncing = "none" /\ synced = "none"

Add ==
    /\ \E h \in Temporary : hosts' = hosts \cup {h}
    /\ UNCHANGED <<syncing, synced>>

Start ==
    /\ syncing = "none" /\ synced = "none" /\ syncing' \in hosts
    /\ UNCHANGED <<hosts, synced>>

\* A session ends, with success or not.
End ==
    /\ syncing # "none" /\ syncing' = "none"
    /\ synced' \in {"none"} \cup ({syncing} \ Permanent)
    /\ UNCHANGED hosts

Remove ==
    /\ synced # "none" /\ synced' = "none"
    /\ hosts' = hosts \ {synced}
    /\ UNCHANGED syncing

Next == Add \/ Start \/ End \/ Remove

Spec == Init /\ [][Next]_vars

=============================================================================
