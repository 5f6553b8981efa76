-------------------------------- MODULE HostList --------------------------------
(***************************************************************************)
(* The client's host list: a std::list that the refresh loop of the client *)
(* thread walks, and from which it erases the temporary hosts it has       *)
(* synchronised with, while the server thread searches it and appends the  *)
(* hosts that other clients announce.  There is no lock.                   *)
(*                                                                         *)
(* The list is modelled as the library keeps it: nodes linked in a ring    *)
(* through the list object itself, in memory that is freed and allocated   *)
(* again.                                                                  *)
(***************************************************************************)
EXTENDS Integers, Sequences

CONSTANTS
    PermanentHosts,  \* the hosts of the command line, in order, without duplicates
    Temporary,       \* hosts that other clients may announce
    MaxNodes,        \* bound on the nodes that memory holds
    Overlap,         \* TRUE: push_back and erase may be at it at the same time
    FreedKept        \* TRUE: a freed node keeps its contents until it is allocated again

NPermanent == Len(PermanentHosts)
Permanent == {PermanentHosts[i] : i \in 1..NPermanent}
Hosts == Permanent \cup Temporary

ASSUME HostsAssumption ==
    /\ PermanentHosts \in Seq(Permanent)
    /\ \A i, j \in 1..NPermanent : PermanentHosts[i] = PermanentHosts[j] => i = j
    /\ Permanent \cap Temporary = {} /\ "none" \notin Hosts
ASSUME MaxNodesAssumption == MaxNodes \in Nat /\ NPermanent <= MaxNodes
ASSUME OutcomesAssumption == Overlap \in BOOLEAN /\ FreedKept \in BOOLEAN

End   == 0             \* the list object, where every walk ends
Nodes == 1..MaxNodes
Wild  == MaxNodes + 1  \* no address of a node
Places == Nodes \cup {End}
Addresses == Places \cup {Wild}

VARIABLES
    next, prev,  \* the links of every node, and of the list object
    data,        \* the Host in every node
    free,        \* memory that is not allocated
    client,      \* the refresh loop
    server       \* addHost, called by the server thread

vars == <<next, prev, data, free, client, server>>

\* due: first, or the timer has run for CLIENT_REFRESH.
HostData == [name : Hosts \cup {"none"}, perm : BOOLEAN, due : BOOLEAN]

\* Client pc: "asleep"; "look", "session": at the node "iter"; "synced": the
\* session has succeeded; "unlinked": erase has still to link "succ" back;
\* "advance": before iter++.
ClientStates ==
    [pc : {"asleep", "look", "session", "synced", "unlinked", "advance"},
     iter : Addresses, succ : Addresses]

\* Server pc: "idle"; "search": for "host", at the node "at"; "found": nothing;
\* "linked": push_back has still to make the node "at" the last one.
ServerStates ==
    [pc : {"idle", "search", "linked"}, host : Hosts \cup {"none"}, at : Addresses]

TypeOK ==
    /\ next \in [Places -> Addresses] /\ prev \in [Places -> Addresses]
    /\ data \in [Nodes -> HostData] /\ free \in SUBSET Nodes
    /\ client \in ClientStates /\ server \in ServerStates
    /\ client.pc \in {"session", "synced", "unlinked"} => client.iter \in Nodes \ free
    /\ server.pc = "linked" => server.at \in Nodes \ free

NewHost(h, permanent) == [name |-> h, perm |-> permanent, due |-> TRUE]

\* The constructor has added the hosts of the command line.
Init ==
    /\ next = [n \in Places |-> IF n < NPermanent THEN n + 1 ELSE End]
    /\ prev = [n \in Places |-> IF n \in 1..NPermanent THEN n - 1 ELSE NPermanent]
    /\ data = [n \in Nodes |->
                  IF n <= NPermanent THEN NewHost(PermanentHosts[n], TRUE)
                  ELSE [name |-> "none", perm |-> FALSE, due |-> FALSE]]
    /\ free = (NPermanent + 1)..MaxNodes
    /\ client = [pc |-> "asleep", iter |-> End, succ |-> End]
    /\ server = [pc |-> "idle", host |-> "none", at |-> End]

\* To follow a wild pointer ends the process, and nothing moves any more.
Running == Wild \notin {client.iter, server.at}

\* The timer of the host in node n runs out.  It is started when a session ends.
Elapse(n) ==
    /\ Running /\ n \notin free /\ ~data[n].due
    /\ n = client.iter => client.pc \in {"asleep", "look", "advance"}
    /\ data' = [data EXCEPT ![n].due = TRUE]
    /\ UNCHANGED <<next, prev, free, client, server>>

-----------------------------------------------------------------------------
(* The refresh loop *)

ClientAt(pc) == Running /\ client.pc = pc

WakeUp ==
    /\ ClientAt("asleep")
    /\ client' = [client EXCEPT !.pc = "look", !.iter = next[End]]
    /\ UNCHANGED <<next, prev, data, free, server>>

PassEnd ==
    /\ ClientAt("look") /\ client.iter = End
    /\ client' = [client EXCEPT !.pc = "asleep"]
    /\ UNCHANGED <<next, prev, data, free, server>>

SkipHost ==
    /\ ClientAt("look") /\ client.iter \in Nodes /\ ~data[client.iter].due
    /\ client' = [client EXCEPT !.pc = "advance"]
    /\ UNCHANGED <<next, prev, data, free, server>>

StartSession ==
    /\ ClientAt("look") /\ client.iter \in Nodes /\ data[client.iter].due
    /\ client' = [client EXCEPT !.pc = "session"]
    /\ data' = [data EXCEPT ![client.iter].due = FALSE]
    /\ UNCHANGED <<next, prev, free, server>>

\* Mutant: permanent hosts are removed as well.
EndSessionAnyHost(success) ==
    /\ ClientAt("session")
    /\ client' = [client EXCEPT !.pc = IF success THEN "synced" ELSE "advance"]
    /\ data' = [data EXCEPT ![client.iter].due = FALSE]
    /\ UNCHANGED <<next, prev, free, server>>

\* Mutant: a session that fails ends the pass.
EndSessionEndsPass(success) ==
    /\ ClientAt("session")
    /\ client' = [client EXCEPT !.pc = IF ~success THEN "asleep"
                                       ELSE IF data[client.iter].perm THEN "advance" ELSE "synced"]
    /\ data' = [data EXCEPT ![client.iter].due = FALSE]
    /\ UNCHANGED <<next, prev, free, server>>

\* The session has ended, and the timer is started again.
EndSession(success) ==
    /\ ClientAt("session")
    /\ client' = [client EXCEPT !.pc = IF success /\ ~data[client.iter].perm
                                       THEN "synced" ELSE "advance"]
    /\ data' = [data EXCEPT ![client.iter].due = FALSE]
    /\ UNCHANGED <<next, prev, free, server>>

\* Node n is given back to the allocator, which may use it for a list of its own.
Free(n, links) ==
    /\ free' = free \cup {n}
    /\ next' \in {links} \cup IF FreedKept THEN {} ELSE {[links EXCEPT ![n] = Wild]}

\* Mutant: the node is unlinked as if it were the last one.
UnlinkAsLast ==
    /\ ClientAt("synced")
    /\ Overlap \/ server.pc # "linked"
    /\ next' = [next EXCEPT ![prev[client.iter]] = End]
    /\ client' = [client EXCEPT !.pc = "unlinked", !.succ = next[client.iter]]
    /\ UNCHANGED <<prev, data, free, server>>

\* erase(iter) takes the node out of the ring ...
Unlink ==
    /\ ClientAt("synced")
    /\ Overlap \/ server.pc # "linked"
    /\ next' = [next EXCEPT ![prev[client.iter]] = next[client.iter]]
    /\ client' = [client EXCEPT !.pc = "unlinked", !.succ = next[client.iter]]
    /\ UNCHANGED <<prev, data, free, server>>

\* Mutant: the node is erased again.
UnlinkBackAgain ==
    /\ ClientAt("unlinked")
    /\ prev' = [prev EXCEPT ![client.succ] = prev[client.iter]]
    /\ Free(client.iter, next)
    /\ client' = [client EXCEPT !.pc = "synced", !.succ = End]
    /\ UNCHANGED <<data, server>>

\* ... in both directions, and frees it.
UnlinkBack ==
    /\ ClientAt("unlinked")
    /\ prev' = [prev EXCEPT ![client.succ] = prev[client.iter]]
    /\ Free(client.iter, next)
    /\ client' = [client EXCEPT !.pc = "advance", !.succ = End]
    /\ UNCHANGED <<data, server>>

\* iter++, also after erase(iter).
Advance ==
    /\ ClientAt("advance")
    /\ client' = [client EXCEPT !.pc = "look", !.iter = next[client.iter]]
    /\ UNCHANGED <<next, prev, data, free, server>>

-----------------------------------------------------------------------------
(* addHost *)

ServerAt(pc) == Running /\ server.pc = pc

\* Mutant: no search for duplicates.
AddSourceUnchecked(h) ==
    /\ ServerAt("idle")
    /\ server' = [pc |-> "search", host |-> h, at |-> End]
    /\ UNCHANGED <<next, prev, data, free, client>>

\* A client has announced itself: the search for duplicates starts.
AddSource(h) ==
    /\ ServerAt("idle")
    /\ server' = [pc |-> "search", host |-> h, at |-> next[End]]
    /\ UNCHANGED <<next, prev, data, free, client>>

Duplicate ==
    /\ ServerAt("search") /\ server.at \in Nodes
    /\ data[server.at].name = server.host
    /\ server' = [pc |-> "idle", host |-> "none", at |-> End]
    /\ UNCHANGED <<next, prev, data, free, client>>

SearchOn ==
    /\ ServerAt("search") /\ server.at \in Nodes
    /\ data[server.at].name # server.host
    /\ server' = [server EXCEPT !.at = next[server.at]]
    /\ UNCHANGED <<next, prev, data, free, client>>

\* There is none: push_back allocates node n, links it to the last one ...
Link(n) ==
    /\ ServerAt("search") /\ server.at = End /\ n \in free
    /\ Overlap \/ client.pc # "unlinked"
    /\ free' = free \ {n}
    /\ data' = [data EXCEPT ![n] = NewHost(server.host, FALSE)]
    /\ next' = [next EXCEPT ![n] = End, ![prev[End]] = n]
    /\ prev' = [prev EXCEPT ![n] = prev[End]]
    /\ server' = [server EXCEPT !.pc = "linked", !.at = n]
    /\ UNCHANGED client

\* Mutant: the last node stays the last.
LinkBackForgotten ==
    /\ ServerAt("linked")
    /\ server' = [pc |-> "idle", host |-> "none", at |-> End]
    /\ UNCHANGED <<next, prev, data, free, client>>

\* ... and makes it the last one.
LinkBack ==
    /\ ServerAt("linked")
    /\ prev' = [prev EXCEPT ![End] = server.at]
    /\ server' = [pc |-> "idle", host |-> "none", at |-> End]
    /\ UNCHANGED <<next, data, free, client>>

-----------------------------------------------------------------------------
RefreshLoop ==
    \/ WakeUp \/ PassEnd \/ SkipHost \/ StartSession
    \/ \E success \in BOOLEAN : EndSession(success)
    \/ Unlink \/ UnlinkBack \/ Advance

AddHost ==
    \/ Duplicate \/ SearchOn \/ LinkBack
    \/ \E n \in Nodes : Link(n)

Next ==
    \/ RefreshLoop \/ AddHost
    \/ \E h \in Hosts : AddSource(h)
    \/ \E n \in Nodes : Elapse(n)

Spec == Init /\ [][Next]_vars

\* Both threads run, sessions end, and timers run out.
Fairness == WF_vars(RefreshLoop) /\ WF_vars(AddHost) /\ \A n \in Nodes : WF_vars(Elapse(n))

FairSpec == Spec /\ Fairness

-----------------------------------------------------------------------------
(* Properties *)

\* However the two threads' steps interleave, the permanent hosts stay the first
\* nodes of the list, in their order (addHost 111, handle 165-168).
PermanentKept ==
    /\ \A n \in 0..NPermanent - 1 : next[n] = n + 1
    /\ \A n \in 1..NPermanent :
          n \notin free /\ data[n].name = PermanentHosts[n] /\ data[n].perm

\* The places a walk of the list comes to, in order.
Walk[k \in Nat] ==
    IF k = 0 THEN End
    ELSE LET n == Walk[k - 1] IN IF n \in Places THEN next[n] ELSE n

Listed == {Walk[k] : k \in 1..MaxNodes + 1} \cap Nodes

\* A host is listed once, though the list changes between the search for it and
\* push_back (addHost 86-111).
NoDuplicates == \A m, n \in Listed : data[m].name = data[n].name => m = n

InSession(h) == client.pc = "session" /\ data[client.iter].name = h

\* The client synchronises with every host of the command line again and again,
\* unless hosts are announced again and again: each one prolongs the pass.
Refreshes == \A h \in Permanent : []<>(InSession(h) \/ server.pc # "idle")

\* The client synchronises with a host on the list that is due, whatever else is
\* added and removed meanwhile.
AnnouncedSynced ==
    \A h \in Temporary :
       (\E n \in Listed : data[n].name = h /\ data[n].due) ~> InSession(h)

\* The list is a set of hosts: only a temporary host leaves it, after a session
\* with it, and every session is with a host of the list.
Set == INSTANCE HostSet WITH
    hosts   <- {data[n].name : n \in Listed},
    syncing <- IF client.pc = "session" THEN data[client.iter].name ELSE "none",
    synced  <- IF client.pc = "synced" THEN data[client.iter].name ELSE "none"

SetSpec == Set!Spec

=============================================================================
