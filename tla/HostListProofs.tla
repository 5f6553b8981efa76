---------------------------- MODULE HostListProofs ----------------------------
(***************************************************************************)
(* The hosts of the command line stay on the list, for any number of hosts *)
(* and nodes, whatever steps of the two threads overlap and whatever the   *)
(* allocator does with freed nodes.                                        *)
(*                                                                         *)
(* A node is only written to as the predecessor of another one.  So what   *)
(* has to be shown is that nothing behind the permanent hosts ever has one *)
(* of them but the last as its predecessor, and that the client erases     *)
(* only nodes behind them.                                                 *)
(***************************************************************************)
EXTENDS HostList, TLAPS

First == 1..NPermanent
Behind == Places \ First

\* The types; that a node in use is allocated is not needed here.
Shape ==
    /\ next \in [Places -> Addresses] /\ prev \in [Places -> Addresses]
    /\ data \in [Nodes -> HostData] /\ free \in SUBSET Nodes
    /\ client \in ClientStates /\ server \in ServerStates

\* What comes before a node behind the permanent hosts, or before the end of the
\* list, is the last permanent host or a node behind it.
LinkedBehind == \A n \in Behind : prev[n] \in NPermanent..MaxNodes

\* The client erases, and the server appends, only nodes behind them.
WorksBehind ==
    /\ client.pc \in {"synced", "unlinked"} => client.iter \in Nodes \ First
    /\ client.pc = "session" => client.iter \in Nodes
    /\ server.pc = "linked" => server.at \in Nodes \ First

PermanentInv == Shape /\ PermanentKept /\ LinkedBehind /\ WorksBehind

-----------------------------------------------------------------------------
LEMMA Sizes == NPermanent \in Nat /\ MaxNodes \in Nat /\ NPermanent <= MaxNodes
BY HostsAssumption, MaxNodesAssumption DEF NPermanent

LEMMA FirstPlaces == 0..NPermanent - 1 \subseteq Places /\ First \subseteq Nodes
BY Sizes DEF First, Places, Nodes, End

\* What PermanentKept needs of a step: the links and the data of the permanent
\* hosts stay, and they are not freed.
LEMMA KeptByStep ==
    ASSUME PermanentKept,
           \A n \in 0..NPermanent - 1 : next'[n] = next[n],
           \A n \in First : data'[n].name = data[n].name /\ data'[n].perm = data[n].perm,
           \A n \in First : n \notin free'
    PROVE  PermanentKept'
BY Sizes DEF PermanentKept, First

LEMMA InitInv == Init => PermanentInv
<1> SUFFICES ASSUME Init PROVE PermanentInv
    OBVIOUS
<1> USE Sizes
<1>0. \A n \in First : PermanentHosts[n] \in Hosts
    BY HostsAssumption DEF First, Hosts, Permanent
<1>1. Shape
    <2>1. next \in [Places -> Addresses] /\ prev \in [Places -> Addresses]
        BY DEF Init, Places, Addresses, Nodes, End
    <2>2. data \in [Nodes -> HostData]
        BY <1>0 DEF Init, Nodes, First, NewHost, HostData
    <2>3. free \in SUBSET Nodes /\ client \in ClientStates /\ server \in ServerStates
        BY DEF Init, Nodes, ClientStates, ServerStates, Addresses, Places
    <2> QED
        BY <2>1, <2>2, <2>3 DEF Shape
<1>2. PermanentKept
    <2>1. \A n \in 0..NPermanent - 1 : next[n] = n + 1
        BY DEF Init, Places, Nodes, End
    <2>2. ASSUME NEW n \in First
          PROVE  n \notin free /\ data[n].name = PermanentHosts[n] /\ data[n].perm
        <3>1. n \in Nodes /\ n <= NPermanent /\ n \notin free
            BY DEF Init, Nodes, First
        <3>2. data[n] = NewHost(PermanentHosts[n], TRUE)
            BY <3>1 DEF Init
        <3> QED
            BY <3>1, <3>2 DEF NewHost
    <2> QED
        BY <2>1, <2>2 DEF PermanentKept, First
<1>3. LinkedBehind
    BY DEF Init, LinkedBehind, Behind, First, Places, Nodes, End
<1>4. WorksBehind
    BY DEF Init, WorksBehind
<1> QED
    BY <1>1, <1>2, <1>3, <1>4 DEF PermanentInv

\* Steps of the refresh loop that change nothing but the loop's own state.
LEMMA WalkStep ==
    ASSUME PermanentInv, WakeUp \/ PassEnd \/ SkipHost \/ Advance
    PROVE  PermanentInv'
<1> USE DEF PermanentInv, WakeUp, PassEnd, SkipHost, Advance, ClientAt
<1>1. client' \in ClientStates /\ client'.pc \in {"asleep", "look", "advance"}
    BY DEF Shape, ClientStates, Running, Addresses, Places, End
<1>2. UNCHANGED <<next, prev, data, free, server>>
    OBVIOUS
<1>3. PermanentKept' /\ Shape' /\ LinkedBehind'
    BY <1>1, <1>2 DEF PermanentKept, Shape, LinkedBehind
<1>4. WorksBehind'
    BY <1>1, <1>2 DEF WorksBehind
<1> QED
    BY <1>3, <1>4

\* The timer, and the start and the end of a session, write neither the name of a
\* host nor its kind.
LEMMA SessionStep ==
    ASSUME PermanentInv,
           StartSession \/ (\E s \in BOOLEAN : EndSession(s)) \/ (\E n \in Nodes : Elapse(n))
    PROVE  PermanentInv'
<1> USE Sizes
<1> USE DEF PermanentInv
<1>1. /\ UNCHANGED <<next, prev, free, server>>
      /\ \E n \in Nodes, b \in BOOLEAN : data' = [data EXCEPT ![n].due = b]
    BY DEF StartSession, EndSession, Elapse, ClientAt, WorksBehind
<1>2. data' \in [Nodes -> HostData]
    BY <1>1 DEF Shape, HostData
<1>3. \A n \in Nodes : data'[n].name = data[n].name /\ data'[n].perm = data[n].perm
    BY <1>1 DEF Shape, HostData
<1>4. PermanentKept'
    <2>1. First \subseteq Nodes
        BY DEF First, Nodes
    <2>2. \A n \in First : n \notin free'
        BY <1>1 DEF PermanentKept, First
    <2>3. \A n \in 0..NPermanent - 1 : next'[n] = next[n]
        BY <1>1
    <2> QED
        BY <1>3, <2>1, <2>2, <2>3, KeptByStep
<1>5. client' \in ClientStates
    BY DEF StartSession, EndSession, Elapse, ClientAt, Shape, ClientStates
<1>6. WorksBehind'
    <2>1. CASE StartSession
        BY <2>1 DEF StartSession, ClientAt, WorksBehind, Shape, ClientStates
    <2>2. ASSUME NEW s \in BOOLEAN, EndSession(s) PROVE WorksBehind'
        <3>1. client.iter \in First => data[client.iter].perm
            BY DEF PermanentKept, First
        <3> QED
            BY <2>2, <3>1 DEF EndSession, ClientAt, WorksBehind, Shape, ClientStates
    <2>3. CASE \E n \in Nodes : Elapse(n)
        BY <2>3 DEF Elapse, WorksBehind
    <2> QED
        BY <2>1, <2>2, <2>3
<1> QED
    BY <1>1, <1>2, <1>4, <1>5, <1>6 DEF Shape, LinkedBehind

\* erase writes the links of the erased node's neighbours, one at a time.
LEMMA EraseStep ==
    ASSUME PermanentInv, Unlink \/ UnlinkBack
    PROVE  PermanentInv'
<1> USE Sizes
<1> USE DEF PermanentInv
<1>1. client.iter \in Nodes \ First /\ client.iter \in Behind
    BY DEF Unlink, UnlinkBack, ClientAt, WorksBehind, Behind, Places
<1>2. prev[client.iter] \in NPermanent..MaxNodes
    BY <1>1 DEF LinkedBehind
<1>3. UNCHANGED <<data, server>>
    BY DEF Unlink, UnlinkBack
<1>4. CASE Unlink
    <2>1. /\ next' = [next EXCEPT ![prev[client.iter]] = next[client.iter]]
          /\ UNCHANGED <<prev, free>>
          /\ client' = [client EXCEPT !.pc = "unlinked", !.succ = next[client.iter]]
        BY <1>4 DEF Unlink
    <2>2. next[client.iter] \in Addresses
        BY <1>1 DEF Shape, Places
    <2>3. Shape' /\ client'.pc = "unlinked" /\ client'.iter = client.iter
        BY <1>3, <2>1, <2>2 DEF Shape, ClientStates
    <2>4. \A n \in 0..NPermanent - 1 : next'[n] = next[n]
        BY <1>2, <2>1 DEF Shape
    <2>5. PermanentKept'
        BY <1>3, <2>1, <2>4, KeptByStep DEF PermanentKept, First
    <2>6. LinkedBehind' /\ WorksBehind'
        BY <1>1, <1>3, <2>1, <2>3 DEF LinkedBehind, WorksBehind
    <2> QED
        BY <2>3, <2>5, <2>6
<1>5. CASE UnlinkBack
    <2>1. /\ prev' = [prev EXCEPT ![client.succ] = prev[client.iter]]
          /\ free' = free \cup {client.iter}
          /\ next' = next \/ next' = [next EXCEPT ![client.iter] = Wild]
          /\ client' = [client EXCEPT !.pc = "advance", !.succ = End]
        BY <1>5 DEF UnlinkBack, Free
    <2>2. Shape' /\ client'.pc = "advance"
        <3>1. prev[client.iter] \in Addresses /\ End \in Addresses /\ Wild \in Addresses
            BY <1>1 DEF Shape, Places, Addresses
        <3>2. prev' \in [Places -> Addresses] /\ next' \in [Places -> Addresses]
            BY <2>1, <3>1 DEF Shape
        <3>3. client' \in ClientStates /\ client'.pc = "advance"
            BY <2>1, <3>1 DEF Shape, ClientStates
        <3> QED
            BY <1>1, <1>3, <2>1, <3>2, <3>3 DEF Shape
    <2>3. \A n \in 0..NPermanent - 1 : next'[n] = next[n]
        <3>1. client.iter \notin 0..NPermanent - 1
            BY <1>1 DEF First, Nodes
        <3> QED
            BY <2>1, <3>1, FirstPlaces DEF Shape
    <2>4. PermanentKept'
        <3>1. \A n \in First : n \notin free'
            BY <1>1, <2>1 DEF PermanentKept, First
        <3> QED
            BY <1>3, <2>3, <3>1, KeptByStep
    <2>5. LinkedBehind'
        BY <1>2, <2>1 DEF LinkedBehind, Behind, Shape
    <2>6. WorksBehind'
        BY <1>3, <2>2 DEF WorksBehind
    <2> QED
        BY <2>2, <2>4, <2>5, <2>6
<1> QED
    BY <1>4, <1>5

\* The search of addHost changes nothing but its own state.
LEMMA SearchStep ==
    ASSUME PermanentInv, (\E h \in Hosts : AddSource(h)) \/ Duplicate \/ SearchOn
    PROVE  PermanentInv'
<1> USE DEF PermanentInv
<1>1. UNCHANGED <<next, prev, data, free, client>>
    BY DEF AddSource, Duplicate, SearchOn
<1>2. server' \in ServerStates /\ server'.pc \in {"idle", "search"}
    <2>1. End \in Places /\ End \in Addresses
        BY DEF Places, Addresses
    <2>2. ASSUME NEW h \in Hosts, AddSource(h)
          PROVE  server' \in ServerStates /\ server'.pc \in {"idle", "search"}
        BY <2>1, <2>2 DEF AddSource, Shape, ServerStates
    <2>3. CASE Duplicate
        BY <2>1, <2>3 DEF Duplicate, ServerStates
    <2>4. CASE SearchOn
        <3>1. next[server.at] \in Addresses
            BY <2>4 DEF SearchOn, Shape, Places
        <3> QED
            BY <2>4, <3>1 DEF SearchOn, ServerAt, Shape, ServerStates
    <2> QED
        BY <2>2, <2>3, <2>4
<1>3. PermanentKept' /\ Shape' /\ LinkedBehind'
    BY <1>1, <1>2 DEF PermanentKept, Shape, LinkedBehind
<1>4. WorksBehind'
    BY <1>1, <1>2 DEF WorksBehind
<1> QED
    BY <1>3, <1>4

\* push_back appends a node of free memory behind the last one.
LEMMA AppendStep ==
    ASSUME PermanentInv, (\E n \in Nodes : Link(n)) \/ LinkBack
    PROVE  PermanentInv'
<1> USE Sizes
<1> USE DEF PermanentInv
<1>1. UNCHANGED client
    BY DEF Link, LinkBack
<1>2. ASSUME NEW n \in Nodes, Link(n) PROVE PermanentInv'
    <2>1. /\ n \in free /\ free' = free \ {n}
          /\ data' = [data EXCEPT ![n] = NewHost(server.host, FALSE)]
          /\ next' = [next EXCEPT ![n] = End, ![prev[End]] = n]
          /\ prev' = [prev EXCEPT ![n] = prev[End]]
          /\ server' = [server EXCEPT !.pc = "linked", !.at = n]
        BY <1>2 DEF Link
    <2>2. n \notin First /\ n \notin 0..NPermanent - 1
        BY <2>1 DEF PermanentKept, First, Nodes
    <2>3. prev[End] \in NPermanent..MaxNodes /\ prev[End] \in Addresses
        <3>1. End \in Behind
            BY DEF End, Behind, Places, First
        <3> QED
            BY <3>1 DEF LinkedBehind, Shape, Behind
    <2>4. Shape'
        <3>1. n \in Addresses /\ End \in Addresses
            BY DEF Addresses, Places
        <3>2. prev' \in [Places -> Addresses] /\ next' \in [Places -> Addresses]
            BY <2>1, <2>3, <3>1 DEF Shape
        <3>3. data' \in [Nodes -> HostData]
            BY <2>1 DEF Shape, HostData, NewHost, ServerStates
        <3>4. server' \in ServerStates
            BY <2>1, <3>1 DEF Shape, ServerStates
        <3> QED
            BY <1>1, <2>1, <3>2, <3>3, <3>4 DEF Shape
    <2>5. PermanentKept'
        <3>1. \A k \in 0..NPermanent - 1 : next'[k] = next[k]
            BY <2>1, <2>2, <2>3, FirstPlaces DEF Shape
        <3>2. \A k \in First : data'[k] = data[k] /\ k \notin free'
            BY <2>1, <2>2, FirstPlaces DEF Shape, PermanentKept, First
        <3> QED
            BY <3>1, <3>2, KeptByStep
    <2>6. LinkedBehind'
        BY <2>1, <2>3 DEF LinkedBehind, Behind, Shape
    <2>7. WorksBehind'
        BY <1>1, <2>1, <2>2 DEF WorksBehind, Shape, ServerStates
    <2> QED
        BY <2>4, <2>5, <2>6, <2>7
<1>3. CASE LinkBack
    <2>1. /\ prev' = [prev EXCEPT ![End] = server.at]
          /\ server' = [pc |-> "idle", host |-> "none", at |-> End]
          /\ UNCHANGED <<next, data, free>>
        BY <1>3 DEF LinkBack
    <2>2. server.at \in Nodes \ First
        BY <1>3 DEF LinkBack, ServerAt, WorksBehind
    <2>3. server.at \in Addresses /\ End \in Addresses /\ server.at \in NPermanent..MaxNodes
        BY <2>2 DEF Addresses, Places, Nodes, First
    <2>4. Shape'
        <3>1. prev' \in [Places -> Addresses]
            BY <2>1, <2>3 DEF Shape
        <3>2. server' \in ServerStates
            BY <2>1, <2>3 DEF ServerStates
        <3> QED
            BY <1>1, <2>1, <3>1, <3>2 DEF Shape
    <2>5. PermanentKept'
        BY <2>1 DEF PermanentKept
    <2>6. LinkedBehind'
        BY <2>1, <2>3 DEF LinkedBehind, Behind, Shape
    <2>7. WorksBehind'
        BY <1>1, <2>1 DEF WorksBehind
    <2> QED
        BY <2>4, <2>5, <2>6, <2>7
<1> QED
    BY <1>2, <1>3

LEMMA NextInv == PermanentInv /\ [Next]_vars => PermanentInv'
<1> SUFFICES ASSUME PermanentInv, [Next]_vars PROVE PermanentInv'
    OBVIOUS
<1>1. CASE RefreshLoop
    BY <1>1, WalkStep, SessionStep, EraseStep DEF RefreshLoop
<1>2. CASE AddHost
    BY <1>2, SearchStep, AppendStep DEF AddHost
<1>3. CASE \E h \in Hosts : AddSource(h)
    BY <1>3, SearchStep
<1>4. CASE \E n \in Nodes : Elapse(n)
    BY <1>4, SessionStep
<1>5. CASE UNCHANGED vars
    BY <1>5 DEF vars, PermanentInv, Shape, PermanentKept, LinkedBehind, WorksBehind
<1> QED
    BY <1>1, <1>2, <1>3, <1>4, <1>5 DEF Next

\* Whatever the two threads do at the same time, and whatever becomes of freed
\* nodes, the hosts of the command line stay on the list (addHost 111, handle 165).
THEOREM PermanentStay == Spec => []PermanentKept
<1>1. PermanentInv => PermanentKept
    BY DEF PermanentInv
<1> QED
    BY InitInv, NextInv, <1>1, PTL DEF Spec

=============================================================================
