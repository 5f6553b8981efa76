---------------------------- MODULE HostRingProofs ----------------------------
(***************************************************************************)
(* As long as push_back and erase do not overlap, the host list is a ring  *)
(* of the allocated nodes, no host is on it twice, and it is the set of    *)
(* hosts that HostSet describes: for any number of hosts and nodes, and    *)
(* whatever the allocator does with freed nodes.                           *)
(*                                                                         *)
(* That next and prev are inverse to each other is not enough: they would  *)
(* be so with nodes in a second ring of their own.  What is on the list is *)
(* therefore said to be reached from its start, without recursion: a node  *)
(* is reached from a place if it is in every set of places that contains   *)
(* that place and all that is linked to its nodes.                         *)
(***************************************************************************)
EXTENDS HostListProofs, FiniteSetTheorems, NaturalsInduction, WellFoundedInduction

\* The nodes on the list: those in use, but for one that erase has unlinked.
OnList == (Nodes \ free) \ (IF client.pc = "unlinked" THEN {client.iter} ELSE {})
Ring == OnList \cup {End}

\* The links backwards, as they are once push_back or erase is through.
Back ==
    IF client.pc = "unlinked" THEN [prev EXCEPT ![client.succ] = prev[client.iter]]
    ELSE IF server.pc = "linked" THEN [prev EXCEPT ![End] = server.at]
    ELSE prev

RingOK ==
    \A n \in Ring :
       /\ next[n] \in Ring /\ Back[n] \in Ring
       /\ Back[next[n]] = n /\ next[Back[n]] = n

Closed(S) == \A n \in S \cap Nodes : next[n] \in S
Reaches(a, n) == \A S \in SUBSET Places : a \in S /\ Closed(S) => n \in S

Connected == \A n \in OnList : Reaches(next[End], n)

NamesOK == \A m, n \in OnList : data[m].name = data[n].name => m = n

\* addHost has still to come to a node of the name it looks for.
SearchOK ==
    server.pc = "search" =>
       \A n \in OnList : data[n].name = server.host => Reaches(server.at, n)

\* Where the two threads are in the list.
WalkOK ==
    /\ client.pc = "look" => client.iter \in Ring \cup {Wild}
    /\ client.pc \in {"session", "synced"} => client.iter \in OnList
    /\ client.pc = "unlinked" => /\ client.iter \in Nodes \ free /\ client.succ \in Ring
                                 /\ next[client.iter] = client.succ /\ server.pc # "linked"
    /\ client.pc = "advance" => client.iter \in Places /\ next[client.iter] \in Ring \cup {Wild}
    /\ server.pc = "linked" => server.at \in OnList

ListInv == Shape /\ RingOK /\ Connected /\ NamesOK /\ SearchOK /\ WalkOK

-----------------------------------------------------------------------------
LEMMA LeastElement ==
    ASSUME NEW T, T \subseteq Nat, T # {}
    PROVE  \E x \in T : \A y \in T : x <= y
<1> DEFINE R == {ss \in Nat \X Nat : ss[1] < ss[2]}
<1>1. IsWellFoundedOn(R, Nat)
    <2>1. OpToRel(<, Nat) = R
        BY DEF OpToRel
    <2> QED BY <2>1, NatLessThanWellFounded, Zenon
<1>2. ASSUME NEW x \in Nat, NEW y \in Nat, y < x PROVE <<y, x>> \in R
    BY <1>2
<1> HIDE DEF R
<1>3. PICK x \in T : \A y \in T : ~ (<<y, x>> \in R)
    BY <1>1, WFMin
<1>4. ASSUME NEW y \in T PROVE x <= y
    <2>1. x \in Nat /\ y \in Nat /\ ~(y < x)
        BY <1>2, <1>3
    <2> QED BY <2>1
<1> QED BY <1>4

LEMMA PlaceTypes ==
    /\ End \in Places /\ End \notin Nodes /\ Nodes \subseteq Places
    /\ Places \subseteq Addresses /\ Wild \in Addresses /\ Wild \notin Places
    /\ Places = Nodes \cup {End}
BY Sizes DEF End, Places, Nodes, Addresses, Wild

LEMMA RingPlaces == OnList \subseteq Nodes /\ Ring \subseteq Places /\ End \in Ring /\ Ring = OnList \cup {End}
BY PlaceTypes DEF OnList, Ring

LEMMA ListTypes == ListInv => TypeOK
BY DEF ListInv, TypeOK, Shape, WalkOK, OnList

LEMMA InitList == Init => ListInv
<1> SUFFICES ASSUME Init PROVE ListInv
    OBVIOUS
<1> USE Sizes
<1>1. Shape /\ PermanentKept
    BY InitInv DEF PermanentInv
<1>2. OnList = First /\ Ring = 0..NPermanent
    BY DEF Init, OnList, Ring, First, Nodes, End
<1>3. client.pc = "asleep" /\ server.pc = "idle" /\ Back = prev
    BY DEF Init, Back
<1>4. /\ \A n \in 0..NPermanent : next[n] = IF n < NPermanent THEN n + 1 ELSE End
      /\ \A n \in 0..NPermanent : prev[n] = IF n \in 1..NPermanent THEN n - 1 ELSE NPermanent
    BY DEF Init, Places, Nodes, End
<1>5. RingOK
    BY <1>2, <1>3, <1>4 DEF RingOK, End
<1>6. Connected
    <2> SUFFICES ASSUME NEW n \in First, NEW S \in SUBSET Places, next[End] \in S, Closed(S)
                 PROVE  n \in S
        BY <1>2 DEF Connected, Reaches
    <2> DEFINE Missed == {k \in First : k \notin S}
    <2>1. 1 \in First => 1 \in S
        BY <1>4 DEF First, End
    <2>2. ASSUME NEW k \in First, k \in S, k + 1 \in First PROVE k + 1 \in S
        BY <1>4, <2>2 DEF Closed, First, Nodes
    <2>3. SUFFICES ASSUME Missed # {} PROVE FALSE
        OBVIOUS
    <2>4. PICK k \in Missed : \A j \in Missed : k <= j
        <3>1. Missed \subseteq Nat
            BY DEF First
        <3> QED BY <2>3, <3>1, LeastElement
    <2>5. k # 1 /\ k - 1 \in First /\ k - 1 \in S
        BY <2>1, <2>4 DEF First
    <2> QED BY <2>2, <2>4, <2>5 DEF First
<1>7. NamesOK
    <2> SUFFICES ASSUME NEW m \in First, NEW n \in First, data[m].name = data[n].name PROVE m = n
        BY <1>2 DEF NamesOK
    <2>1. PermanentHosts[m] = PermanentHosts[n]
        BY <1>1 DEF PermanentKept, First
    <2> QED BY <2>1, HostsAssumption DEF First
<1>8. SearchOK /\ WalkOK
    BY <1>3 DEF SearchOK, WalkOK
<1> QED BY <1>1, <1>5, <1>6, <1>7, <1>8 DEF ListInv

-----------------------------------------------------------------------------
\* A step that leaves the links, the names and the work of push_back and erase
\* alone leaves the ring alone.
Calm ==
    /\ UNCHANGED <<next, prev, free>>
    /\ \A n \in Nodes : data'[n].name = data[n].name
    /\ client.pc = "unlinked" => client' = client
    /\ client.pc # "unlinked" => client'.pc # "unlinked"
    /\ server.pc = "linked" => server' = server
    /\ server.pc # "linked" => server'.pc # "linked"

LEMMA CalmKeepsRing ==
    ASSUME ListInv, Calm
    PROVE  /\ OnList' = OnList /\ Ring' = Ring /\ RingOK' /\ Connected' /\ NamesOK'
           /\ \A a, n : Reaches(a, n)' <=> Reaches(a, n)
<1>1. OnList' = OnList /\ Ring' = Ring
    BY DEF Calm, OnList, Ring
<1>2. Back' = Back
    BY DEF Calm, Back
<1>3. RingOK'
    BY <1>1, <1>2 DEF ListInv, RingOK, Calm
<1>4. \A S : Closed(S)' <=> Closed(S)
    BY DEF Calm, Closed
<1>5. \A a, n : Reaches(a, n)' <=> Reaches(a, n)
    BY <1>4 DEF Reaches
<1>6. Connected'
    BY <1>1, <1>5 DEF ListInv, Connected, Calm
<1>7. NamesOK'
    BY <1>1, RingPlaces DEF ListInv, NamesOK, Calm
<1> QED BY <1>1, <1>3, <1>5, <1>6, <1>7

\* The steps of the refresh loop between two calls of erase, and the timer.
LEMMA LoopCalm ==
    ASSUME ListInv,
           \/ WakeUp \/ PassEnd \/ SkipHost \/ Advance \/ StartSession
           \/ (\E s \in BOOLEAN : EndSession(s)) \/ (\E n \in Nodes : Elapse(n))
    PROVE  Calm
<1>1. UNCHANGED <<next, prev, free, server>>
    BY DEF WakeUp, PassEnd, SkipHost, Advance, StartSession, EndSession, Elapse
<1>2. \A n \in Nodes : data'[n].name = data[n].name
    <2>1. data' = data \/ \E n \in Nodes, b \in BOOLEAN : data' = [data EXCEPT ![n].due = b]
        BY RingPlaces DEF WakeUp, PassEnd, SkipHost, Advance, StartSession, EndSession, Elapse,
           ClientAt, ListInv, WalkOK
    <2> QED BY <2>1 DEF ListInv, Shape, HostData
<1>3. client \in ClientStates
    BY DEF ListInv, Shape
<1>4. client.pc = "unlinked" => client' = client
    BY DEF WakeUp, PassEnd, SkipHost, Advance, StartSession, EndSession, Elapse, ClientAt
<1>5. client.pc # "unlinked" => client'.pc # "unlinked"
    BY <1>3 DEF WakeUp, PassEnd, SkipHost, Advance, StartSession, EndSession, Elapse, ClientAt,
       ClientStates
<1> QED BY <1>1, <1>2, <1>4, <1>5 DEF Calm

LEMMA LoopStep ==
    ASSUME ListInv, Shape',
           \/ WakeUp \/ PassEnd \/ SkipHost \/ Advance \/ StartSession
           \/ (\E s \in BOOLEAN : EndSession(s)) \/ (\E n \in Nodes : Elapse(n))
    PROVE  ListInv'
<1>1. UNCHANGED <<next, prev, free, server>>
    BY DEF WakeUp, PassEnd, SkipHost, Advance, StartSession, EndSession, Elapse
<1>2. client \in ClientStates
    BY DEF ListInv, Shape
<1>3. Calm
    BY LoopCalm
<1>4. \A n \in Nodes : data'[n].name = data[n].name
    BY <1>3 DEF Calm
<1>5. SearchOK'
    BY <1>1, <1>4, <1>3, CalmKeepsRing, RingPlaces DEF ListInv, SearchOK
<1>6. OnList' = OnList /\ Ring' = Ring
    BY <1>3, CalmKeepsRing
<1>7. WalkOK'
    <2> USE DEF ClientStates
    <2>0. WalkOK /\ RingOK
        BY DEF ListInv
    <2>1. CASE WakeUp
        <3>1. next[End] \in Ring /\ client'.pc = "look" /\ client'.iter = next[End]
            BY <1>2, <2>0, <2>1, RingPlaces DEF WakeUp, RingOK
        <3> QED BY <1>1, <1>6, <2>0, <3>1 DEF WalkOK
    <2>2. CASE PassEnd
        BY <1>1, <1>2, <1>6, <2>0, <2>2 DEF PassEnd, WalkOK
    <2>3. CASE SkipHost \/ StartSession
        <3>1. client.iter \in OnList /\ next[client.iter] \in Ring /\ client.iter \in Places
            BY <2>0, <2>3, RingPlaces, PlaceTypes DEF SkipHost, StartSession, ClientAt, WalkOK, RingOK
        <3>2. client'.pc \in {"advance", "session"} /\ client'.iter = client.iter
            BY <1>2, <2>3 DEF SkipHost, StartSession
        <3> QED BY <1>1, <1>6, <2>0, <3>1, <3>2 DEF WalkOK
    <2>4. ASSUME NEW s \in BOOLEAN, EndSession(s) PROVE WalkOK'
        <3>1. client.iter \in OnList /\ next[client.iter] \in Ring /\ client.iter \in Places
            BY <2>0, <2>4, RingPlaces DEF EndSession, ClientAt, WalkOK, RingOK
        <3>2. client'.pc \in {"advance", "synced"} /\ client'.iter = client.iter
            BY <1>2, <2>4 DEF EndSession
        <3> QED BY <1>1, <1>6, <2>0, <3>1, <3>2 DEF WalkOK
    <2>5. CASE Advance
        <3>1. next[client.iter] \in Ring \cup {Wild}
            BY <2>0, <2>5 DEF Advance, ClientAt, WalkOK
        <3>2. client'.pc = "look" /\ client'.iter = next[client.iter]
            BY <1>2, <2>5 DEF Advance
        <3> QED BY <1>1, <1>6, <2>0, <3>1, <3>2 DEF WalkOK
    <2>6. CASE \E n \in Nodes : Elapse(n)
        BY <1>1, <1>6, <2>0, <2>6 DEF Elapse, WalkOK
    <2> QED BY <2>1, <2>2, <2>3, <2>4, <2>5, <2>6
<1> QED BY <1>3, <1>5, <1>7, CalmKeepsRing DEF ListInv

\* The search of addHost: a node that is passed has another name.
LEMMA SearchCalm ==
    ASSUME ListInv, (\E h \in Hosts : AddSource(h)) \/ Duplicate \/ SearchOn
    PROVE  Calm
<1>1. UNCHANGED <<next, prev, data, free, client>>
    BY DEF AddSource, Duplicate, SearchOn
<1>2. server.pc # "linked" /\ server'.pc # "linked"
    BY DEF ListInv, Shape, AddSource, Duplicate, SearchOn, ServerAt, ServerStates
<1> QED BY <1>1, <1>2 DEF Calm

LEMMA SearchKeeps ==
    ASSUME ListInv, Shape', (\E h \in Hosts : AddSource(h)) \/ Duplicate \/ SearchOn
    PROVE  ListInv'
<1>1. UNCHANGED <<next, prev, data, free, client>>
    BY DEF AddSource, Duplicate, SearchOn
<1>2. server \in ServerStates
    BY DEF ListInv, Shape
<1>3. server.pc # "linked" /\ server'.pc # "linked"
    BY <1>2 DEF AddSource, Duplicate, SearchOn, ServerAt, ServerStates
<1>4. Calm
    BY SearchCalm
<1>5. OnList' = OnList /\ Ring' = Ring /\ \A a, n : Reaches(a, n)' <=> Reaches(a, n)
    BY <1>4, CalmKeepsRing
<1>6. WalkOK'
    BY <1>1, <1>3, <1>5 DEF ListInv, WalkOK
<1>7. SearchOK'
    <2>1. ASSUME NEW h \in Hosts, AddSource(h) PROVE SearchOK'
        <3>1. server'.at = next[End]
            BY <2>1 DEF AddSource
        <3> QED BY <1>5, <3>1 DEF ListInv, Connected, SearchOK
    <2>2. CASE Duplicate
        BY <2>2 DEF Duplicate, SearchOK
    <2>3. CASE SearchOn
        <3>1. /\ server.pc = "search" /\ server.at \in Nodes /\ data[server.at].name # server.host
              /\ server'.at = next[server.at] /\ server'.host = server.host
            BY <1>2, <2>3 DEF SearchOn, ServerAt, ServerStates
        <3>2. ASSUME NEW n \in OnList, data[n].name = server.host PROVE Reaches(next[server.at], n)
            <4> SUFFICES ASSUME NEW S \in SUBSET Places, next[server.at] \in S, Closed(S) PROVE n \in S
                BY DEF Reaches
            <4>1. S \cup {server.at} \in SUBSET Places /\ Closed(S \cup {server.at})
                BY <3>1, PlaceTypes DEF Closed
            <4>2. Reaches(server.at, n)
                BY <3>1, <3>2 DEF ListInv, SearchOK
            <4>3. n \in S \cup {server.at}
                BY <4>1, <4>2 DEF Reaches
            <4> QED BY <3>1, <3>2, <4>3
        <3> QED BY <1>1, <1>5, <3>1, <3>2 DEF SearchOK
    <2> QED BY <2>1, <2>2, <2>3
<1> QED BY <1>4, <1>6, <1>7, CalmKeepsRing DEF ListInv

\* erase takes a node out of the ring.
LEMMA UnlinkKeeps ==
    ASSUME ListInv, Shape', Overlap = FALSE, Unlink
    PROVE  ListInv' /\ OnList' = OnList \ {client.iter}
<1> DEFINE x == client.iter
           p == prev[x]
           q == next[x]
<1>0. Shape /\ RingOK /\ Connected /\ NamesOK /\ SearchOK /\ WalkOK
    BY DEF ListInv
<1>1. /\ client.pc = "synced" /\ server.pc # "linked" /\ Back = prev
      /\ next' = [next EXCEPT ![p] = q]
      /\ UNCHANGED <<prev, data, free, server>>
      /\ client' = [client EXCEPT !.pc = "unlinked", !.succ = q]
    BY DEF Unlink, ClientAt, Back
<1>2. x \in OnList /\ x \in Nodes /\ x \in Ring /\ x # End
    BY <1>0, <1>1, RingPlaces, PlaceTypes DEF WalkOK
<1>3. client'.pc = "unlinked" /\ client'.iter = x /\ client'.succ = q
    BY <1>0, <1>1 DEF Shape, ClientStates
<1>4. OnList' = OnList \ {x} /\ Ring' = Ring \ {x}
    BY <1>1, <1>2, <1>3 DEF OnList, Ring
<1>5. Back' = [prev EXCEPT ![q] = p]
    BY <1>1, <1>3 DEF Back
<1>6. /\ \A n \in Ring : next[n] \in Ring /\ prev[n] \in Ring /\ prev[next[n]] = n /\ next[prev[n]] = n
      /\ p \in Ring /\ q \in Ring /\ next[p] = x /\ prev[q] = x
    BY <1>0, <1>1, <1>2 DEF RingOK
<1>7. next \in [Places -> Addresses] /\ prev \in [Places -> Addresses]
    BY <1>0 DEF Shape
<1> HIDE DEF x, p, q
<1>8. q # x
    <2> SUFFICES ASSUME q = x PROVE FALSE
        OBVIOUS
    <2>1. next[End] # x
        BY <1>2, <1>6, RingPlaces
    <2>2. Closed(Ring \ {x})
        BY <1>6 DEF Closed
    <2>3. next[End] \in Ring \ {x} /\ Ring \ {x} \in SUBSET Places
        BY <1>6, <2>1, RingPlaces
    <2>4. Reaches(next[End], x)
        BY <1>0, <1>2 DEF Connected
    <2> QED BY <2>2, <2>3, <2>4 DEF Reaches
<1>9. p # x
    BY <1>2, <1>6, <1>8 DEF q
<1>10. RingOK'
    <2> SUFFICES ASSUME NEW n \in Ring, n # x
                 PROVE  /\ next'[n] \in Ring \ {x} /\ Back'[n] \in Ring \ {x}
                        /\ Back'[next'[n]] = n /\ next'[Back'[n]] = n
        BY <1>4 DEF RingOK
    <2>1. n \in Places /\ p \in Places /\ q \in Places
        BY <1>6, RingPlaces
    <2>2. next'[n] = (IF n = p THEN q ELSE next[n]) /\ Back'[n] = IF n = q THEN p ELSE prev[n]
        BY <1>1, <1>5, <1>7, <2>1
    <2>3. next'[n] \in Ring \ {x}
        BY <1>6, <1>8, <2>2 DEF p
    <2>4. Back'[n] \in Ring \ {x}
        BY <1>6, <1>9, <2>2 DEF q
    <2>5. Back'[next'[n]] = n
        <3>1. next'[n] \in Places
            BY <2>3, RingPlaces
        <3>2. Back'[next'[n]] = IF next'[n] = q THEN p ELSE prev[next'[n]]
            BY <1>5, <1>7, <2>1, <3>1
        <3>3. n # p => next[n] # q
            BY <1>6
        <3> QED BY <1>6, <2>2, <3>2, <3>3
    <2>6. next'[Back'[n]] = n
        <3>1. Back'[n] \in Places
            BY <2>4, RingPlaces
        <3>2. next'[Back'[n]] = IF Back'[n] = p THEN q ELSE next[Back'[n]]
            BY <1>1, <1>7, <2>1, <3>1
        <3>3. n # q => prev[n] # p
            BY <1>6
        <3> QED BY <1>6, <2>2, <3>2, <3>3
    <2> QED BY <2>3, <2>4, <2>5, <2>6
<1>11. ASSUME NEW S \in SUBSET Places, Closed(S)'
       PROVE  /\ q \in S => Closed(S \cup {x})
              /\ p \notin S \cap Nodes => Closed(S)
              /\ p \in S \cap Nodes => q \in S
    <2>1. \A n \in S \cap Nodes : next'[n] \in S /\ next'[n] = IF n = p THEN q ELSE next[n]
        BY <1>1, <1>7, <1>11 DEF Closed
    <2>2. q \in S => Closed(S \cup {x})
        BY <1>6, <2>1 DEF Closed, q
    <2> QED BY <2>1, <2>2 DEF Closed
<1>12. ASSUME NEW a, NEW n, Reaches(a, n), n # x PROVE Reaches(a, n)'
    <2> SUFFICES ASSUME NEW S \in SUBSET Places, a \in S, Closed(S)' PROVE n \in S
        BY DEF Reaches
    <2>1. CASE p \in S \cap Nodes
        <3>1. Closed(S \cup {x}) /\ S \cup {x} \in SUBSET Places
            BY <1>2, <1>11, <2>1, PlaceTypes
        <3> QED BY <1>12, <3>1 DEF Reaches
    <2>2. CASE p \notin S \cap Nodes
        BY <1>11, <1>12, <2>2 DEF Reaches
    <2> QED BY <2>1, <2>2
<1>13. Connected'
    <2> SUFFICES ASSUME NEW n \in OnList, n # x, NEW S \in SUBSET Places, next'[End] \in S, Closed(S)'
                 PROVE  n \in S
        BY <1>4 DEF Connected, Reaches
    <2>0. Reaches(next[End], n)
        BY <1>0 DEF Connected
    <2>1. CASE p # End
        <3>1. next'[End] = next[End]
            BY <1>1, <1>7, <2>1, PlaceTypes
        <3>2. Reaches(next[End], n)'
            <4> DEFINE a == next[End]
            <4>1. Reaches(a, n)
                BY <2>0
            <4> HIDE DEF a
            <4>2. \A S_1 \in SUBSET Places : a \in S_1 /\ Closed(S_1)' => n \in S_1
                BY <1>12, <4>1 DEF Reaches
            <4> QED BY <3>1, <4>2 DEF Reaches, a
        <3> QED BY <3>1, <3>2 DEF Reaches
    <2>2. CASE p = End
        <3>1. next'[End] = q /\ next[End] = x
            BY <1>1, <1>6, <1>7, <2>2, PlaceTypes
        <3>2. Closed(S \cup {x}) /\ S \cup {x} \in SUBSET Places
            BY <1>2, <1>11, <3>1, PlaceTypes
        <3>3. n \in S \cup {x}
            BY <2>0, <3>1, <3>2 DEF Reaches
        <3> QED BY <3>3
    <2> QED BY <2>1, <2>2
<1>14. NamesOK'
    BY <1>0, <1>1, <1>4 DEF NamesOK
<1>15. SearchOK'
    BY <1>0, <1>1, <1>4, <1>12 DEF SearchOK
<1>16. WalkOK'
    <2>1. next'[x] = q
        BY <1>1, <1>7, <1>9 DEF q
    <2>2. x \in Nodes \ free'
        BY <1>1, <1>2 DEF OnList
    <2>3. q \in Ring'
        BY <1>4, <1>6, <1>8
    <2> QED BY <1>1, <1>3, <2>1, <2>2, <2>3 DEF WalkOK
<1> QED BY <1>4, <1>10, <1>13, <1>14, <1>15, <1>16 DEF ListInv, x

\* erase links the other way back too, and frees the node.
LEMMA UnlinkBackKeeps ==
    ASSUME ListInv, Shape', UnlinkBack
    PROVE  ListInv' /\ OnList' = OnList
<1> DEFINE x == client.iter
<1>0. Shape /\ RingOK /\ Connected /\ NamesOK /\ SearchOK /\ WalkOK
    BY DEF ListInv
<1>1. /\ client.pc = "unlinked"
      /\ prev' = [prev EXCEPT ![client.succ] = prev[x]]
      /\ free' = free \cup {x}
      /\ next' = next \/ next' = [next EXCEPT ![x] = Wild]
      /\ client' = [client EXCEPT !.pc = "advance", !.succ = End]
      /\ UNCHANGED <<data, server>>
    BY DEF UnlinkBack, ClientAt, Free
<1>2. /\ x \in Nodes \ free /\ client.succ \in Ring /\ next[x] = client.succ
      /\ server.pc # "linked"
    BY <1>0, <1>1 DEF WalkOK
<1>3. client'.pc = "advance" /\ client'.iter = x
    BY <1>0, <1>1 DEF Shape, ClientStates
<1>4. OnList' = OnList /\ Ring' = Ring /\ x \notin Ring
    BY <1>1, <1>2, <1>3, PlaceTypes DEF OnList, Ring
<1>5. Back' = Back
    BY <1>1, <1>2, <1>3 DEF Back
<1>6. next \in [Places -> Addresses]
    BY <1>0 DEF Shape
<1>7. \A n \in Places : n # x => next'[n] = next[n]
    BY <1>1, <1>6
<1>8. next'[x] \in {next[x], Wild}
    BY <1>1, <1>2, <1>6, PlaceTypes
<1> HIDE DEF x
<1>9. RingOK'
    <2>1. \A n \in Ring : n \in Places /\ n # x
        BY <1>4, RingPlaces
    <2>2. \A n \in Ring : next'[n] = next[n]
        BY <1>7, <2>1
    <2> QED BY <1>0, <1>4, <1>5, <2>2 DEF RingOK
<1>10. ASSUME NEW S \in SUBSET Places, Closed(S)' PROVE Closed(S)
    <2> SUFFICES ASSUME NEW n \in S \cap Nodes PROVE next[n] \in S
        BY DEF Closed
    <2>1. next'[n] \in S
        BY <1>10 DEF Closed
    <2>2. next'[n] # Wild
        BY <2>1, PlaceTypes
    <2> QED BY <1>7, <1>8, <2>1, <2>2
<1>11. Connected'
    <2>1. next'[End] = next[End]
        BY <1>2, <1>7, PlaceTypes
    <2> QED BY <1>0, <1>4, <1>10, <2>1 DEF Connected, Reaches
<1>12. SearchOK'
    BY <1>0, <1>1, <1>4, <1>10 DEF SearchOK, Reaches
<1>13. NamesOK'
    BY <1>0, <1>1, <1>4 DEF NamesOK
<1>14. WalkOK'
    BY <1>1, <1>2, <1>3, <1>4, <1>8, PlaceTypes DEF WalkOK
<1> QED BY <1>4, <1>9, <1>11, <1>12, <1>13, <1>14 DEF ListInv

\* push_back links a node of free memory behind the last one: the search has come
\* to the end of the list, so no node on it has the name.
LEMMA LinkKeeps ==
    ASSUME ListInv, Shape', Overlap = FALSE, NEW n \in Nodes, Link(n)
    PROVE  /\ ListInv' /\ OnList' = OnList \cup {n} /\ n \notin OnList
           /\ \A m \in OnList : data[m].name # server.host
<1> DEFINE q == prev[End]
<1>0. Shape /\ RingOK /\ Connected /\ NamesOK /\ SearchOK /\ WalkOK
    BY DEF ListInv
<1>1. /\ server.pc = "search" /\ server.at = End /\ n \in free /\ client.pc # "unlinked"
      /\ free' = free \ {n}
      /\ data' = [data EXCEPT ![n] = NewHost(server.host, FALSE)]
      /\ next' = [next EXCEPT ![n] = End, ![q] = n]
      /\ prev' = [prev EXCEPT ![n] = q]
      /\ server' = [server EXCEPT !.pc = "linked", !.at = n]
      /\ client' = client
    BY DEF Link, ServerAt
<1>2. Back = prev /\ server'.pc = "linked" /\ server'.at = n /\ server'.host = server.host
    BY <1>0, <1>1 DEF Back, Shape, ServerStates
<1>3. OnList' = OnList \cup {n} /\ Ring' = Ring \cup {n} /\ n \notin Ring /\ n # End
    BY <1>1, PlaceTypes DEF OnList, Ring
<1>4. Back' = [prev' EXCEPT ![End] = n]
    BY <1>1, <1>2 DEF Back
<1>5. /\ \A m \in Ring : next[m] \in Ring /\ prev[m] \in Ring /\ prev[next[m]] = m /\ next[prev[m]] = m
      /\ q \in Ring /\ next[q] = End
    BY <1>0, <1>2, RingPlaces DEF RingOK
<1>6. next \in [Places -> Addresses] /\ prev \in [Places -> Addresses] /\ prev[End] = q
    BY <1>0 DEF Shape
<1> HIDE DEF q
<1>7. q # n /\ q \in Places /\ n \in Places
    BY <1>3, <1>5, RingPlaces, PlaceTypes
<1>8. \A m \in Places : next'[m] = IF m = q THEN n ELSE IF m = n THEN End ELSE next[m]
    BY <1>1, <1>6, <1>7
<1>9. \A m \in Places : Back'[m] = IF m = End THEN n ELSE IF m = n THEN q ELSE prev[m]
    BY <1>1, <1>3, <1>4, <1>6, <1>7
<1>10. RingOK'
    <2>1. \A m \in Ring : m \in Places /\ m # n
        BY <1>3, RingPlaces
    <2>2. ASSUME NEW m \in Ring PROVE next'[m] \in Ring \cup {n} /\ Back'[next'[m]] = m
        <3>1. CASE m = q
            BY <1>3, <1>7, <1>8, <1>9, <3>1
        <3>2. CASE m # q
            <4>1. next'[m] = next[m] /\ next[m] \in Ring /\ prev[next[m]] = m
                BY <1>5, <1>8, <2>1, <3>2
            <4>2. next[m] # End
                BY <1>6, <3>2, <4>1
            <4> QED BY <1>9, <2>1, <4>1, <4>2
        <3> QED BY <3>1, <3>2
    <2>3. ASSUME NEW m \in Ring PROVE Back'[m] \in Ring \cup {n} /\ next'[Back'[m]] = m
        <3>1. CASE m = End
            BY <1>3, <1>7, <1>8, <1>9, <2>1, <3>1
        <3>2. CASE m # End
            <4>1. Back'[m] = prev[m] /\ prev[m] \in Ring /\ next[prev[m]] = m
                BY <1>5, <1>9, <2>1, <3>2
            <4>2. prev[m] # q
                BY <1>5, <3>2, <4>1
            <4> QED BY <1>8, <2>1, <4>1, <4>2
        <3> QED BY <3>1, <3>2
    <2>4. /\ next'[n] \in Ring /\ Back'[next'[n]] = n
          /\ Back'[n] \in Ring /\ next'[Back'[n]] = n
        BY <1>3, <1>5, <1>7, <1>8, <1>9, RingPlaces, PlaceTypes
    <2> QED BY <1>3, <2>2, <2>3, <2>4 DEF RingOK
<1>11. ASSUME NEW m \in OnList PROVE data[m].name # server.host
    <2>1. {End} \in SUBSET Places /\ Closed({End}) /\ m # End
        BY <1>11, PlaceTypes, RingPlaces DEF Closed
    <2> QED BY <1>0, <1>1, <2>1 DEF SearchOK, Reaches
<1>12. Connected'
    <2> SUFFICES ASSUME NEW m \in OnList \cup {n}, NEW S \in SUBSET Places, next'[End] \in S, Closed(S)'
                 PROVE  m \in S
        BY <1>3 DEF Connected, Reaches
    <2> DEFINE T == (S \cap Ring) \cup {End}
    <2>1. CASE q = End
        <3>1. m = n
            <4>1. {End} \in SUBSET Places /\ Closed({End}) /\ next[End] = End
                BY <1>5, <2>1, PlaceTypes DEF Closed
            <4>2. m \in OnList => m = End
                BY <1>0, <4>1 DEF Connected, Reaches
            <4> QED BY <4>2, RingPlaces, PlaceTypes
        <3>2. next'[End] = n
            BY <1>7, <1>8, <2>1
        <3> QED BY <3>1, <3>2
    <2>2. CASE q # End
        <3>1. \A k \in S \cap Nodes : next'[k] \in S
            BY DEF Closed
        <3>2. Closed(T)
            <4> SUFFICES ASSUME NEW k \in T, k \in Nodes PROVE next[k] \in T
                BY DEF Closed
            <4>1. k \in Ring /\ k \in S /\ k \in Places /\ k # n /\ next[k] \in Ring
                BY <1>3, <1>5, RingPlaces, PlaceTypes
            <4>2. CASE k = q
                BY <1>5, <4>2
            <4>3. CASE k # q
                BY <1>8, <3>1, <4>1, <4>3
            <4> QED BY <4>2, <4>3
        <3>3. next[End] \in T /\ T \in SUBSET Places
            <4>1. next'[End] = next[End] /\ next[End] \in Ring
                BY <1>3, <1>5, <1>8, <2>2, RingPlaces, PlaceTypes
            <4> QED BY <4>1, RingPlaces
        <3>4. \A k \in OnList : k \in S
            BY <1>0, <3>2, <3>3, RingPlaces, PlaceTypes DEF Connected, Reaches
        <3>5. n \in S
            <4>1. q \in OnList /\ q \in Nodes
                BY <1>5, <2>2, RingPlaces
            <4> QED BY <1>7, <1>8, <3>1, <3>4, <4>1
        <3> QED BY <3>4, <3>5
    <2> QED BY <2>1, <2>2
<1>13. NamesOK'
    <2>1. data'[n].name = server.host /\ \A m \in OnList : data'[m] = data[m]
        BY <1>0, <1>1, <1>3, RingPlaces DEF Shape, NewHost
    <2> QED BY <1>0, <1>3, <1>11, <2>1 DEF NamesOK
<1>14. SearchOK'
    BY <1>2 DEF SearchOK
<1>15. WalkOK'
    <2>1. client.pc = "advance" => next'[client.iter] \in Ring' \cup {Wild}
        BY <1>0, <1>3, <1>7, <1>8, RingPlaces DEF WalkOK
    <2> QED BY <1>0, <1>1, <1>2, <1>3, <2>1 DEF WalkOK
<1> QED BY <1>3, <1>10, <1>11, <1>12, <1>13, <1>14, <1>15, RingPlaces DEF ListInv

\* push_back makes the node the last one.
LEMMA LinkBackKeeps ==
    ASSUME ListInv, Shape', LinkBack
    PROVE  ListInv' /\ OnList' = OnList
<1>1. /\ server.pc = "linked" /\ prev' = [prev EXCEPT ![End] = server.at]
      /\ server' = [pc |-> "idle", host |-> "none", at |-> End]
      /\ UNCHANGED <<next, data, free, client>>
    BY DEF LinkBack, ServerAt
<1>2. client.pc # "unlinked"
    BY <1>1 DEF ListInv, WalkOK
<1>3. OnList' = OnList /\ Ring' = Ring /\ Back' = Back
    BY <1>1, <1>2 DEF OnList, Ring, Back
<1>4. RingOK' /\ Connected' /\ NamesOK'
    BY <1>1, <1>3 DEF ListInv, RingOK, Connected, Reaches, Closed, NamesOK
<1>5. SearchOK' /\ WalkOK'
    BY <1>1, <1>2, <1>3 DEF ListInv, SearchOK, WalkOK
<1> QED BY <1>3, <1>4, <1>5 DEF ListInv

LEMMA NextList == PermanentInv /\ ListInv /\ Overlap = FALSE /\ [Next]_vars => ListInv'
<1> SUFFICES ASSUME PermanentInv, ListInv, Overlap = FALSE, [Next]_vars PROVE ListInv'
    OBVIOUS
<1>0. Shape'
    BY NextInv DEF PermanentInv
<1>1. CASE RefreshLoop
    BY <1>0, <1>1, LoopStep, UnlinkKeeps, UnlinkBackKeeps DEF RefreshLoop
<1>2. CASE AddHost
    BY <1>0, <1>2, SearchKeeps, LinkKeeps, LinkBackKeeps DEF AddHost
<1>3. CASE \E h \in Hosts : AddSource(h)
    BY <1>0, <1>3, SearchKeeps
<1>4. CASE \E n \in Nodes : Elapse(n)
    BY <1>0, <1>4, LoopStep
<1>5. CASE UNCHANGED vars
    <2>1. Calm
        BY <1>5 DEF vars, Calm
    <2>2. WalkOK'
        BY <1>5, <2>1, CalmKeepsRing DEF vars, ListInv, WalkOK
    <2>3. SearchOK'
        BY <1>5, <2>1, CalmKeepsRing DEF vars, ListInv, SearchOK
    <2> QED BY <1>0, <2>1, <2>2, <2>3, CalmKeepsRing DEF ListInv
<1> QED BY <1>1, <1>2, <1>3, <1>4, <1>5 DEF Next

\* The ring, for as long as push_back and erase take turns.
THEOREM RingStays == ASSUME Overlap = FALSE PROVE Spec => []ListInv
<1>1. Init => PermanentInv /\ ListInv
    BY InitInv, InitList
<1>2. PermanentInv /\ ListInv /\ [Next]_vars => (PermanentInv /\ ListInv)'
    BY NextInv, NextList
<1> QED BY <1>1, <1>2, PTL DEF Spec

\* The values have their types, and the node that the client works on, or that
\* push_back appends, is allocated (handle 163-182, addHost 111).
THEOREM TypeCorrect == ASSUME Overlap = FALSE PROVE Spec => []TypeOK
<1>1. Spec => []ListInv
    BY RingStays
<1> QED BY <1>1, ListTypes, PTL

-----------------------------------------------------------------------------
\* A walk of the list: the recursive definition of Walk is that of a function.
Follow(a) == IF a \in Places THEN next[a] ELSE a

\* The walks of n steps.
Walks(n) == {g \in [0..n -> Addresses] :
                g[0] = End /\ \A k \in 1..n : g[k] = Follow(g[k - 1])}

LEMMA FollowTypes == ASSUME Shape PROVE \A a \in Addresses : Follow(a) \in Addresses
BY DEF Follow, Shape

LEMMA WalksAgree ==
    ASSUME NEW m \in Nat, NEW n \in Nat, NEW g \in Walks(m), NEW h \in Walks(n)
    PROVE  \A k \in 0..m \cap 0..n : g[k] = h[k]
<1> DEFINE T == {k \in 0..m \cap 0..n : g[k] # h[k]}
<1> SUFFICES ASSUME T # {} PROVE FALSE
    OBVIOUS
<1>1. T \subseteq Nat
    OBVIOUS
<1>2. PICK k \in T : \A j \in T : k <= j
    BY <1>1, LeastElement
<1>3. k # 0
    BY <1>2 DEF Walks
<1>4. k - 1 \in 0..m \cap 0..n /\ k \in 1..m /\ k \in 1..n /\ k - 1 \notin T
    BY <1>2, <1>3
<1>5. g[k] = Follow(g[k - 1]) /\ h[k] = Follow(h[k - 1])
    BY <1>4 DEF Walks
<1> QED BY <1>2, <1>4, <1>5

LEMMA WalksExist == ASSUME Shape PROVE \A n \in Nat : Walks(n) # {}
<1> DEFINE T == {n \in Nat : Walks(n) = {}}
<1> SUFFICES ASSUME T # {} PROVE FALSE
    OBVIOUS
<1>1. PICK n \in T : \A j \in T : n <= j
    BY LeastElement
<1>2. n # 0
    <2>1. [k \in 0..0 |-> End] \in Walks(0)
        BY PlaceTypes DEF Walks
    <2> QED BY <1>1, <2>1
<1>3. n - 1 \in Nat /\ n \in Nat /\ n - 1 \notin T
    BY <1>1, <1>2
<1>4. PICK g : g \in Walks(n - 1)
    BY <1>3
<1> DEFINE h == [k \in 0..n |-> IF k = n THEN Follow(g[n - 1]) ELSE g[k]]
<1>5. g \in [0..n - 1 -> Addresses] /\ g[0] = End /\ \A k \in 1..n - 1 : g[k] = Follow(g[k - 1])
    BY <1>4 DEF Walks
<1>6. h \in [0..n -> Addresses]
    BY <1>3, <1>5, FollowTypes
<1>7. h[0] = End
    BY <1>2, <1>3, <1>5
<1>8. ASSUME NEW k \in 1..n PROVE h[k] = Follow(h[k - 1])
    <2>1. h[k - 1] = g[k - 1]
        BY <1>3
    <2>2. CASE k = n
        BY <1>3, <2>1, <2>2
    <2>3. CASE k # n
        <3>1. k \in 1..n - 1
            BY <1>3, <2>3
        <3>2. h[k] = g[k] /\ g[k] = Follow(g[k - 1])
            BY <1>5, <3>1
        <3> QED BY <2>1, <3>2
    <2> QED BY <2>2, <2>3
<1> HIDE DEF h
<1>9. h \in Walks(n)
    BY <1>6, <1>7, <1>8 DEF Walks
<1> QED BY <1>1, <1>9

LEMMA WalkIs ==
    ASSUME Shape
    PROVE  Walk[0] = End /\ \A k \in Nat \ {0} : Walk[k] = Follow(Walk[k - 1])
<1> DEFINE w == [k \in Nat |-> (CHOOSE g \in Walks(k) : TRUE)[k]]
           Pick(k) == CHOOSE g \in Walks(k) : TRUE
<1>1. (\A k \in Nat : Pick(k) \in Walks(k) /\ w[k] = Pick(k)[k]) /\ w = [k \in Nat |-> w[k]]
    BY WalksExist
<1> HIDE DEF Pick, w
<1>2. w[0] = End
    BY <1>1 DEF Walks
<1>3. ASSUME NEW k \in Nat, k # 0 PROVE w[k] = Follow(w[k - 1])
    <2> DEFINE g == Pick(k)
               h == Pick(k - 1)
    <2>1. k - 1 \in Nat /\ g \in Walks(k) /\ h \in Walks(k - 1) /\ w[k] = g[k] /\ w[k - 1] = h[k - 1]
        BY <1>1, <1>3
    <2> HIDE DEF g, h
    <2>2. g[k] = Follow(g[k - 1])
        BY <1>3, <2>1 DEF Walks
    <2>3. k - 1 \in 0..k \cap 0..k - 1
        BY <1>3
    <2>4. g[k - 1] = h[k - 1]
        BY <2>1, <2>3, WalksAgree
    <2> QED BY <2>1, <2>2, <2>4
<1>4. w = [k \in Nat |-> IF k = 0 THEN End
                         ELSE LET n == w[k - 1] IN IF n \in Places THEN next[n] ELSE n]
    <2> DEFINE f(k) == IF k = 0 THEN End
                       ELSE LET n == w[k - 1] IN IF n \in Places THEN next[n] ELSE n
    <2>1. \A k \in Nat : w[k] = f(k)
        BY <1>2, <1>3 DEF Follow
    <2> HIDE DEF f
    <2>2. w = [k \in Nat |-> f(k)]
        BY <1>1, <2>1
    <2> QED BY <2>2 DEF f
<1>5. Walk = [k \in Nat |-> IF k = 0 THEN End
                            ELSE LET n == Walk[k - 1] IN IF n \in Places THEN next[n] ELSE n]
    BY <1>4 DEF Walk
<1> QED BY <1>5 DEF Follow

LEMMA WalkInRing ==
    ASSUME ListInv
    PROVE  \A k \in Nat : Walk[k] \in Ring /\ Walk[k + 1] = next[Walk[k]]
<1> DEFINE T == {k \in Nat : Walk[k] \notin Ring}
<1>0. Shape /\ RingOK
    BY DEF ListInv
<1>1. ASSUME NEW k \in Nat, Walk[k] \in Ring PROVE Walk[k + 1] = next[Walk[k]]
    <2>1. k + 1 \in Nat \ {0} /\ (k + 1) - 1 = k
        OBVIOUS
    <2>2. Walk[k + 1] = Follow(Walk[k])
        BY <1>0, <2>1, WalkIs
    <2> QED BY <1>1, <2>2, RingPlaces DEF Follow
<1>2. T = {}
    <2> SUFFICES ASSUME T # {} PROVE FALSE
        OBVIOUS
    <2>1. PICK k \in T : \A j \in T : k <= j
        BY LeastElement
    <2>2. k # 0
        BY <1>0, <2>1, WalkIs, RingPlaces
    <2>3. k - 1 \in Nat /\ k - 1 \notin T /\ (k - 1) + 1 = k
        BY <2>1, <2>2
    <2>4. Walk[k] = next[Walk[k - 1]] /\ Walk[k - 1] \in Ring
        BY <1>1, <2>3
    <2> QED BY <1>0, <2>1, <2>4 DEF RingOK
<1> QED BY <1>1, <1>2

\* No two places of the ring are followed by the same one, so a walk that comes to a
\* place again has come to the end of the list before.
LEMMA WalkReturns ==
    ASSUME ListInv, NEW i \in Nat, NEW j \in Nat, i < j, Walk[i] = Walk[j]
    PROVE  Walk[j - i] = End
<1> DEFINE T == {k \in 0..i : Walk[k] = Walk[k + (j - i)]}
<1>0. RingOK
    BY DEF ListInv
<1>1. T \subseteq Nat /\ i \in T
    OBVIOUS
<1>2. PICK k \in T : \A m \in T : k <= m
    BY <1>1, LeastElement
<1>3. CASE k = 0
    <2>1. 0 + (j - i) = j - i
        OBVIOUS
    <2>2. Walk[0] = End
        BY WalkIs DEF ListInv
    <2> QED BY <1>2, <1>3, <2>1, <2>2
<1>4. CASE k # 0
    <2> DEFINE a == k - 1
               b == (k - 1) + (j - i)
    <2>1. a \in Nat /\ b \in Nat /\ a + 1 = k /\ b + 1 = k + (j - i) /\ a \in 0..i
        BY <1>2, <1>4
    <2>2. next[Walk[a]] = next[Walk[b]] /\ Walk[a] \in Ring /\ Walk[b] \in Ring
        <3>1. Walk[a + 1] = Walk[b + 1]
            BY <1>2, <2>1
        <3> HIDE DEF a, b
        <3> QED BY <2>1, <3>1, WalkInRing
    <2>3. Walk[a] = Walk[b]
        BY <1>0, <2>2 DEF RingOK
    <2>4. a \in T /\ ~(k <= a)
        BY <1>2, <2>1, <2>3
    <2> QED BY <1>2, <2>4
<1> QED BY <1>3, <1>4

\* There are not more places than steps: so the walk comes to the end, and has then
\* been at every node of the list.
LEMMA ListedIsOnList == ASSUME ListInv PROVE Listed = OnList
<1> USE Sizes
<1>0. RingOK /\ Connected
    BY DEF ListInv
<1>1. Listed \subseteq OnList
    BY WalkInRing, RingPlaces, PlaceTypes DEF Listed
<1>2. \E k \in 1..MaxNodes + 1 : Walk[k] = End
    <2> DEFINE S == 0..MaxNodes + 1
               f == [k \in S |-> Walk[k]]
    <2>1. IsFiniteSet(S) /\ Cardinality(S) = MaxNodes + 2
        BY FS_Interval
    <2>2. IsFiniteSet(Places) /\ Cardinality(Places) = MaxNodes + 1
        <3>1. Places = 0..MaxNodes
            BY DEF Places, Nodes, End
        <3> QED BY <3>1, FS_Interval
    <2>3. f \in [S -> Places]
        BY WalkInRing, RingPlaces
    <2>4. Cardinality(Places) < Cardinality(S)
        BY <2>1, <2>2
    <2> HIDE DEF f
    <2>5. PICK x, y \in S : x # y /\ f[x] = f[y]
        BY <2>1, <2>2, <2>3, <2>4, FS_PigeonHole
    <2>6. Walk[x] = Walk[y]
        BY <2>5 DEF f
    <2>7. CASE x < y
        <3>1. x \in Nat /\ y \in Nat /\ y - x \in 1..MaxNodes + 1
            BY <2>7
        <3> QED BY <2>6, <2>7, <3>1, WalkReturns
    <2>8. CASE y < x
        <3>1. x \in Nat /\ y \in Nat /\ x - y \in 1..MaxNodes + 1
            BY <2>8
        <3> QED BY <2>6, <2>8, <3>1, WalkReturns
    <2> QED BY <2>5, <2>7, <2>8
<1>3. PICK r \in 1..MaxNodes + 1 : Walk[r] = End
    BY <1>2
<1> DEFINE S == {Walk[k] : k \in 1..MaxNodes + 1}
           T == {Walk[k] : k \in 1..r}
<1>4. T \in SUBSET Places /\ T \subseteq S
    BY WalkInRing, RingPlaces
<1>5. next[End] \in T
    <2>1. Walk[0 + 1] = next[Walk[0]] /\ Walk[0] = End /\ 0 + 1 \in 1..r
        BY WalkInRing, WalkIs DEF ListInv
    <2> QED BY <2>1
<1>6. Closed(T)
    <2> SUFFICES ASSUME NEW k \in 1..r, Walk[k] \in Nodes PROVE next[Walk[k]] \in T
        BY DEF Closed
    <2>1. k # r
        BY <1>3, PlaceTypes
    <2>2. k + 1 \in 1..r /\ Walk[k + 1] = next[Walk[k]]
        BY <2>1, WalkInRing
    <2> QED BY <2>2
<1> HIDE DEF S, T
<1>7. OnList \subseteq S
    BY <1>0, <1>4, <1>5, <1>6 DEF Connected, Reaches
<1> QED BY <1>1, <1>7, RingPlaces DEF Listed, S

\* No host is on the list twice (addHost 86-111).
THEOREM HostsOnce == ASSUME Overlap = FALSE PROVE Spec => []NoDuplicates
<1>1. ListInv => NoDuplicates
    BY ListedIsOnList DEF ListInv, NamesOK, NoDuplicates
<1>2. Spec => []ListInv
    BY RingStays
<1> QED BY <1>1, <1>2, PTL

-----------------------------------------------------------------------------
(* The list is the set of hosts that HostSet describes. *)

\* What stands on the list, and what addHost looks for, are names of hosts.
KnownNames ==
    /\ \A n \in OnList : data[n].name \in Hosts
    /\ server.pc = "search" => server.host \in Hosts

SetInv == PermanentInv /\ ListInv /\ KnownNames

Names == {data[n].name : n \in OnList}
Syncing == IF client.pc = "session" THEN data[client.iter].name ELSE "none"
Synced == IF client.pc = "synced" THEN data[client.iter].name ELSE "none"

Ideal == INSTANCE HostSet WITH hosts <- Names, syncing <- Syncing, synced <- Synced

\* The hosts of the command line are on the list, and no other node has their names.
LEMMA PermanentOnList ==
    ASSUME SetInv
    PROVE  /\ First \subseteq OnList /\ Permanent \subseteq Names
           /\ \A n \in OnList : data[n].name \in Permanent => data[n].perm
<1>1. First \subseteq OnList
    BY FirstPlaces DEF SetInv, PermanentInv, PermanentKept, WorksBehind, OnList, First
<1>2. \A n \in First : data[n].name = PermanentHosts[n] /\ data[n].perm
    BY DEF SetInv, PermanentInv, PermanentKept, First
<1>3. \A h \in Permanent : \E n \in First : data[n].name = h
    BY <1>2 DEF Permanent, First
<1>4. ASSUME NEW n \in OnList, data[n].name \in Permanent PROVE data[n].perm
    <2>1. PICK m \in First : data[m].name = data[n].name
        BY <1>3, <1>4
    <2>2. m = n
        BY <1>1, <2>1 DEF SetInv, ListInv, NamesOK
    <2> QED BY <1>2, <2>2
<1> QED BY <1>1, <1>3, <1>4 DEF Names

LEMMA NotNone == "none" \notin Hosts /\ Permanent \subseteq Hosts /\ Hosts \ Permanent \subseteq Temporary
BY HostsAssumption DEF Hosts

LEMMA InitSet == Init => SetInv /\ Ideal!Init
<1> SUFFICES ASSUME Init PROVE SetInv /\ Ideal!Init
    OBVIOUS
<1>1. PermanentInv /\ ListInv
    BY InitInv, InitList
<1>2. OnList = First
    BY Sizes DEF Init, OnList, First, Nodes
<1>3. \A n \in First : data[n].name = PermanentHosts[n] /\ PermanentHosts[n] \in Permanent
    BY <1>1 DEF PermanentInv, PermanentKept, First, Permanent
<1>4. server.pc = "idle" /\ client.pc = "asleep"
    BY DEF Init
<1>5. SetInv
    BY <1>1, <1>2, <1>3, <1>4, NotNone DEF SetInv, KnownNames
<1>6. Names = Permanent
    BY <1>2, <1>3, <1>5, PermanentOnList DEF Names
<1> QED BY <1>4, <1>5, <1>6 DEF Ideal!Init, Syncing, Synced

\* A calm step changes no name on the list.
LEMMA CalmNames ==
    ASSUME SetInv, Calm
    PROVE  Names' = Names /\ \A n \in OnList : data'[n].name = data[n].name
<1>1. OnList' = OnList
    BY CalmKeepsRing DEF SetInv
<1>2. \A n \in OnList : data'[n].name = data[n].name
    BY RingPlaces DEF Calm
<1> QED BY <1>1, <1>2 DEF Names

LEMMA LoopSet ==
    ASSUME SetInv,
           \/ WakeUp \/ PassEnd \/ SkipHost \/ Advance \/ StartSession
           \/ (\E s \in BOOLEAN : EndSession(s)) \/ (\E n \in Nodes : Elapse(n))
    PROVE  KnownNames' /\ [Ideal!Next]_Ideal!vars
<1>0. Calm /\ UNCHANGED server
    BY LoopCalm DEF SetInv, WakeUp, PassEnd, SkipHost, Advance, StartSession, EndSession, Elapse
<1>1. OnList' = OnList /\ Names' = Names /\ \A n \in OnList : data'[n].name = data[n].name
    BY <1>0, CalmNames, CalmKeepsRing DEF SetInv
<1>2. KnownNames'
    BY <1>0, <1>1 DEF SetInv, KnownNames
<1>3. client \in ClientStates /\ WalkOK
    BY DEF SetInv, ListInv, Shape
<1>4. CASE WakeUp \/ PassEnd \/ SkipHost \/ Advance
    <2>1. client.pc \notin {"session", "synced"} /\ client'.pc \notin {"session", "synced"}
        BY <1>3, <1>4 DEF WakeUp, PassEnd, SkipHost, Advance, ClientAt, ClientStates
    <2> QED BY <1>1, <1>2, <2>1 DEF Ideal!vars, Syncing, Synced
<1>5. CASE StartSession
    <2>1. /\ client.pc = "look" /\ client.iter \in OnList
          /\ client'.pc = "session" /\ client'.iter = client.iter
        BY <1>3, <1>5, RingPlaces, PlaceTypes DEF StartSession, ClientAt, ClientStates, WalkOK
    <2>2. Syncing = "none" /\ Synced = "none" /\ Synced' = "none"
        BY <2>1 DEF Syncing, Synced
    <2>3. Syncing' \in Names
        BY <1>1, <2>1 DEF Syncing, Names
    <2> QED BY <1>1, <1>2, <2>2, <2>3 DEF Ideal!Next, Ideal!Start
<1>6. ASSUME NEW s \in BOOLEAN, EndSession(s) PROVE [Ideal!Next]_Ideal!vars
    <2> DEFINE x == client.iter
    <2>1. /\ client.pc = "session" /\ x \in OnList /\ client'.iter = x
          /\ client'.pc = IF s /\ ~data[x].perm THEN "synced" ELSE "advance"
        BY <1>3, <1>6 DEF EndSession, ClientAt, ClientStates, WalkOK
    <2> HIDE DEF x
    <2>2. Syncing = data[x].name /\ Syncing # "none" /\ Syncing' = "none"
        BY <2>1, NotNone DEF Syncing, SetInv, KnownNames, x
    <2>3. Synced' \in {"none"} \cup ({Syncing} \ Permanent)
        <3>1. CASE s /\ ~data[x].perm
            <4>1. Synced' = data[x].name
                BY <1>1, <2>1, <3>1 DEF Synced
            <4>2. data[x].name \notin Permanent
                BY <2>1, <3>1, PermanentOnList
            <4> QED BY <2>2, <4>1, <4>2
        <3>2. CASE ~(s /\ ~data[x].perm)
            BY <2>1, <3>2 DEF Synced
        <3> QED BY <3>1, <3>2
    <2> QED BY <1>1, <2>2, <2>3 DEF Ideal!Next, Ideal!End
<1>7. CASE \E n \in Nodes : Elapse(n)
    <2>1. client' = client
        BY <1>7 DEF Elapse
    <2>2. Syncing' = Syncing /\ Synced' = Synced
        BY <1>1, <1>3, <2>1 DEF WalkOK, Syncing, Synced
    <2> QED BY <1>1, <1>2, <2>2 DEF Ideal!vars
<1> QED BY <1>2, <1>4, <1>5, <1>6, <1>7

LEMMA SearchSet ==
    ASSUME SetInv, (\E h \in Hosts : AddSource(h)) \/ Duplicate \/ SearchOn
    PROVE  KnownNames' /\ [Ideal!Next]_Ideal!vars
<1>1. UNCHANGED <<data, client>>
    BY DEF AddSource, Duplicate, SearchOn
<1>2. OnList' = OnList /\ Names' = Names
    BY SearchCalm, CalmNames, CalmKeepsRing DEF SetInv
<1>3. server'.pc = "search" => server'.host \in Hosts
    <2>1. ASSUME NEW h \in Hosts, AddSource(h) PROVE server'.host \in Hosts
        BY <2>1 DEF AddSource
    <2>2. CASE Duplicate
        BY <2>2 DEF Duplicate
    <2>3. CASE SearchOn
        BY <2>3 DEF SearchOn, ServerAt, SetInv, KnownNames, ListInv, Shape, ServerStates
    <2> QED BY <2>1, <2>2, <2>3
<1> QED BY <1>1, <1>2, <1>3 DEF SetInv, KnownNames, Ideal!vars, Syncing, Synced

\* erase removes the host the client has synchronised with.
LEMMA EraseSet ==
    ASSUME SetInv, Shape', Overlap = FALSE, Unlink \/ UnlinkBack
    PROVE  KnownNames' /\ [Ideal!Next]_Ideal!vars
<1> DEFINE x == client.iter
<1>0. client \in ClientStates /\ WalkOK /\ NamesOK /\ ListInv /\ KnownNames
    BY DEF SetInv, ListInv, Shape
<1>1. UNCHANGED <<data, server>>
    BY DEF Unlink, UnlinkBack
<1>2. CASE Unlink
    <2>1. OnList' = OnList \ {x}
        BY <1>0, <1>2, UnlinkKeeps
    <2>2. client.pc = "synced" /\ client'.pc = "unlinked" /\ x \in OnList
        BY <1>0, <1>2 DEF Unlink, ClientAt, WalkOK, ClientStates
    <2>3. Syncing = "none" /\ Syncing' = "none" /\ Synced' = "none" /\ Synced = data[x].name
        BY <2>2 DEF Syncing, Synced
    <2> HIDE DEF x
    <2>4. Names' = Names \ {data[x].name}
        BY <1>0, <1>1, <2>1, <2>2 DEF Names, NamesOK
    <2>5. KnownNames' /\ Synced # "none"
        BY <1>0, <1>1, <2>1, <2>2, <2>3, NotNone DEF KnownNames
    <2> QED BY <2>3, <2>4, <2>5 DEF Ideal!Next, Ideal!Remove
<1>3. CASE UnlinkBack
    <2>1. OnList' = OnList
        BY <1>0, <1>3, UnlinkBackKeeps
    <2>2. client.pc = "unlinked" /\ client'.pc = "advance"
        BY <1>0, <1>3 DEF UnlinkBack, ClientAt, ClientStates
    <2> QED BY <1>0, <1>1, <2>1, <2>2 DEF KnownNames, Ideal!vars, Names, Syncing, Synced
<1> QED BY <1>2, <1>3

\* push_back adds a host that is not one of the command line.
LEMMA AppendSet ==
    ASSUME SetInv, Shape', Overlap = FALSE, (\E n \in Nodes : Link(n)) \/ LinkBack
    PROVE  KnownNames' /\ [Ideal!Next]_Ideal!vars
<1>0. WalkOK /\ ListInv /\ KnownNames /\ Shape
    BY DEF SetInv, ListInv
<1>1. client' = client
    BY DEF Link, LinkBack
<1>2. ASSUME NEW n \in Nodes, Link(n) PROVE KnownNames' /\ [Ideal!Next]_Ideal!vars
    <2>1. OnList' = OnList \cup {n} /\ n \notin OnList /\ \A m \in OnList : data[m].name # server.host
        BY <1>0, <1>2, LinkKeeps
    <2>2. /\ server.pc = "search" /\ data' = [data EXCEPT ![n] = NewHost(server.host, FALSE)]
          /\ server'.pc = "linked"
        BY <1>0, <1>2 DEF Link, ServerAt, Shape, ServerStates
    <2>3. data'[n].name = server.host /\ \A m \in OnList : data'[m] = data[m]
        BY <1>0, <2>1, <2>2, RingPlaces DEF Shape, NewHost
    <2>4. server.host \in Temporary /\ server.host \in Hosts
        <3>1. server.host \in Hosts
            BY <1>0, <2>2 DEF KnownNames
        <3>2. server.host \notin Names
            BY <2>1 DEF Names
        <3> QED BY <3>1, <3>2, PermanentOnList, NotNone
    <2>5. Names' = Names \cup {server.host}
        BY <2>1, <2>3 DEF Names
    <2>6. Syncing' = Syncing /\ Synced' = Synced
        BY <1>0, <1>1, <2>3 DEF WalkOK, Syncing, Synced
    <2>7. KnownNames'
        BY <1>0, <2>1, <2>2, <2>3, <2>4 DEF KnownNames
    <2> QED BY <2>4, <2>5, <2>6, <2>7 DEF Ideal!Next, Ideal!Add
<1>3. CASE LinkBack
    <2>1. OnList' = OnList
        BY <1>0, <1>3, LinkBackKeeps
    <2>2. data' = data /\ server'.pc = "idle"
        BY <1>3 DEF LinkBack
    <2> QED BY <1>0, <1>1, <2>1, <2>2 DEF KnownNames, Ideal!vars, Names, Syncing, Synced
<1> QED BY <1>2, <1>3

LEMMA NextSet == SetInv /\ Overlap = FALSE /\ [Next]_vars => SetInv' /\ [Ideal!Next]_Ideal!vars
<1> SUFFICES ASSUME SetInv, Overlap = FALSE, [Next]_vars PROVE SetInv' /\ [Ideal!Next]_Ideal!vars
    OBVIOUS
<1>0. PermanentInv' /\ ListInv' /\ Shape'
    BY NextInv, NextList DEF SetInv, PermanentInv
<1>1. KnownNames' /\ [Ideal!Next]_Ideal!vars
    <2>1. CASE RefreshLoop
        BY <1>0, <2>1, LoopSet, EraseSet DEF RefreshLoop
    <2>2. CASE AddHost
        BY <1>0, <2>2, SearchSet, AppendSet DEF AddHost
    <2>3. CASE \E h \in Hosts : AddSource(h)
        BY <2>3, SearchSet
    <2>4. CASE \E n \in Nodes : Elapse(n)
        BY <2>4, LoopSet
    <2>5. CASE UNCHANGED vars
        BY <2>5 DEF vars, SetInv, KnownNames, OnList, Ideal!vars, Names, Syncing, Synced
    <2> QED BY <2>1, <2>2, <2>3, <2>4, <2>5 DEF Next
<1> QED BY <1>0, <1>1 DEF SetInv

\* The hosts of the nodes that a walk comes to are those of the nodes in use.
Mapped == Names = {data[n].name : n \in Listed}

\* The list is a set of hosts: only a temporary host leaves it, after a session with
\* it, and every session is with a host of the list (handle 160-189, addHost 86-111).
THEOREM ListIsSet == ASSUME Overlap = FALSE PROVE Spec => SetSpec
<1>1. SetInv => Mapped
    BY ListedIsOnList DEF SetInv, Names, Mapped
<1>2. Mapped /\ Ideal!Init => Set!Init
    BY DEF Mapped, Ideal!Init, Set!Init, Syncing, Synced
<1>3. Mapped /\ Mapped' /\ [Ideal!Next]_Ideal!vars => [Set!Next]_Set!vars
    BY DEF Mapped, Ideal!Next, Ideal!vars, Ideal!Add, Ideal!Start, Ideal!End, Ideal!Remove,
       Set!Next, Set!vars, Set!Add, Set!Start, Set!End, Set!Remove, Syncing, Synced
<1> QED BY InitSet, NextSet, <1>1, <1>2, <1>3, PTL DEF Spec, SetSpec, Set!Spec

=============================================================================
