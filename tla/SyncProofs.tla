----------------------------- MODULE SyncProofs -----------------------------
(***************************************************************************)
(* Proofs about Sync, for any replicas, files and bounds: type             *)
(* correctness; that replicas that agree stay as they are, however scans   *)
(* overlap; when the scans of a replica do not overlap, that the metafile  *)
(* at rest is the last scan, so that unchanged files keep their time       *)
(* stamps; and when no two scans fall into the same second, that of two    *)
(* versions of a file one is the newer.                                    *)
(***************************************************************************)
EXTENDS Sync, TLAPS

USE BoundsAssumption, ConcurrentAssumption, CoarseAssumption

(***************************************************************************)
(* Metafiles                                                               *)
(***************************************************************************)

LEMMA MetafileFacts ==
    ASSUME NEW m \in Metafiles
    PROVE  /\ DOMAIN m \subseteq Files
           /\ m = [f \in DOMAIN m |-> m[f]]
           /\ \A f \in DOMAIN m : m[f] \in Entry
<1>1. PICK S \in SUBSET Files : m \in [S -> Entry]
  BY DEF Metafiles
<1> QED BY <1>1

LEMMA IsMetafile ==
    ASSUME NEW S \in SUBSET Files, NEW m \in [S -> Entry]
    PROVE  m \in Metafiles
BY DEF Metafiles

LEMMA EmptyMetafile == <<>> \in Metafiles /\ DOMAIN <<>> = {}
<1>1. <<>> \in [{} -> Entry] /\ DOMAIN <<>> = {}
  OBVIOUS
<1> QED BY <1>1, IsMetafile

LEMMA RestrictMetafile ==
    ASSUME NEW m \in Metafiles, NEW S, S \subseteq DOMAIN m
    PROVE  /\ Restrict(m, S) \in Metafiles
           /\ DOMAIN Restrict(m, S) = S
           /\ \A f \in S : Restrict(m, S)[f] = m[f]
<1>1. Restrict(m, S) \in [S -> Entry] /\ S \in SUBSET Files
  BY MetafileFacts DEF Restrict
<1> QED BY <1>1, IsMetafile DEF Restrict

LEMMA WithLineMetafile ==
    ASSUME NEW m \in Metafiles, NEW f \in Files, NEW e \in Entry
    PROVE  WithLine(m, f, e) \in Metafiles
<1>1. /\ DOMAIN m \cup {f} \in SUBSET Files
      /\ WithLine(m, f, e) \in [DOMAIN m \cup {f} -> Entry]
  BY MetafileFacts DEF WithLine
<1> QED BY <1>1, IsMetafile

\* What getDiff returns is part of "own", and nothing of equal contents.
LEMMA DiffFacts ==
    ASSUME NEW own \in Metafiles, NEW other \in Metafiles
    PROVE  /\ Diff(own, other) \in Metafiles
           /\ DOMAIN Diff(own, other) \subseteq DOMAIN own
           /\ \A f \in DOMAIN Diff(own, other) :
                 /\ Diff(own, other)[f] = own[f]
                 /\ f \in DOMAIN other => own[f].hash # other[f].hash
<1> DEFINE S == {f \in DOMAIN own : f \in DOMAIN other => Newer(own[f], other[f])}
<1>1. S \subseteq DOMAIN own /\ Diff(own, other) = Restrict(own, S)
  BY DEF Diff
<1>2. \A f \in S : f \in DOMAIN other => own[f].hash # other[f].hash
  BY DEF Newer
<1> HIDE DEF S
<1> QED BY <1>1, <1>2, RestrictMetafile

\* What updateAll makes of the metafile "old".
LEMMA ScannedFacts ==
    ASSUME TypeOK, NEW r \in Replicas, NEW old \in Metafiles, NEW time \in 0..MaxTime
    PROVE  /\ Scanned(r, old, time) \in Metafiles
           /\ DOMAIN Scanned(r, old, time) = Present(r)
           /\ \A f \in Present(r) :
                 /\ Scanned(r, old, time)[f].hash = folder[r][f]
                 /\ f \in DOMAIN old /\ old[f].hash = folder[r][f] =>
                       Scanned(r, old, time)[f] = old[f]
<1>1. Present(r) \in SUBSET Files
  BY DEF Present
<1>2. \A f \in Present(r) :
         [hash |-> folder[r][f], time |-> time] \in Entry
  BY <1>1 DEF TypeOK, Entry
<1>3. Scanned(r, old, time) \in [Present(r) -> Entry]
  BY <1>1, <1>2, MetafileFacts DEF Scanned, Unchanged
<1> QED BY <1>1, <1>3, IsMetafile DEF Scanned, Unchanged

LEMMA ScanTimesType ==
    ASSUME TypeOK, NEW r, NEW time \in ScanTimes(r)
    PROVE  time \in 0..MaxTime
BY DEF TypeOK, ScanTimes

(***************************************************************************)
(* Type correctness                                                        *)
(***************************************************************************)

\* The part of TypeOK that is about one thread.
ThreadOK(t, x) ==
    /\ x \in ThreadStates
    /\ x.todo \subseteq DOMAIN x.mem
    /\ x.pc # "write" => x.todo = {}
    /\ x.pc \in {"get", "transfer"} => x.file \in DOMAIN x.diff
    /\ x.pc # "idle" => x.peer \in Replicas \ {t[1]}

OthersOK ==
    /\ folder \in [Replicas -> [Files -> Versions]]
    /\ disk \in [Replicas -> Metafiles] /\ known \in [Replicas -> Metafiles]
    /\ temporary \in [Replicas -> SUBSET Replicas]
    /\ now \in 0..MaxTime /\ edits \in 0..MaxEdits /\ faults \in 0..MaxFaults

LEMMA TypeOKParts ==
    TypeOK <=> /\ OthersOK
               /\ thr \in [Threads -> ThreadStates]
               /\ \A t \in Threads : ThreadOK(t, thr[t])
BY DEF TypeOK, OthersOK, ThreadOK

LEMMA TypeOKPartsNext ==
    TypeOK' <=> /\ OthersOK'
                /\ thr' \in [Threads -> ThreadStates]
                /\ \A t \in Threads : ThreadOK(t, thr'[t])
BY DEF TypeOK, OthersOK, ThreadOK

LEMMA ThreadNames ==
    ASSUME NEW r \in Replicas
    PROVE  /\ Client(r) \in Threads /\ Client(r)[1] = r
           /\ Server(r) \in Threads /\ Server(r)[1] = r
           /\ \A p \in Replicas : Client(r) # Server(p)
BY DEF Threads, Client, Server

LEMMA ThreadReplica == \A t \in Threads : t[1] \in Replicas
BY DEF Threads

LEMMA IdleOK ==
    ASSUME NEW t
    PROVE  ThreadOK(t, Idle)
BY EmptyMetafile DEF ThreadOK, Idle, ThreadStates, Steps, Versions

\* A step of one thread, and of two.
LEMMA OneThread ==
    ASSUME TypeOK, OthersOK', NEW t \in Threads, NEW x, ThreadOK(t, x),
           thr' = [thr EXCEPT ![t] = x]
    PROVE  TypeOK'
<1>1. x \in ThreadStates
  BY DEF ThreadOK
<1>2. thr' \in [Threads -> ThreadStates]
  BY <1>1, TypeOKParts
<1>3. \A u \in Threads : ThreadOK(u, thr'[u])
  <2> SUFFICES ASSUME NEW u \in Threads PROVE ThreadOK(u, thr'[u])
    OBVIOUS
  <2>1. CASE u = t
    BY <2>1, TypeOKParts
  <2>2. CASE u # t
    <3>1. thr'[u] = thr[u]
      BY <2>2, TypeOKParts
    <3> QED BY <3>1, TypeOKParts
  <2> QED BY <2>1, <2>2
<1> QED BY <1>2, <1>3, TypeOKPartsNext

LEMMA TwoThreads ==
    ASSUME TypeOK, OthersOK', NEW t \in Threads, NEW x, ThreadOK(t, x),
           NEW s \in Threads, NEW y, ThreadOK(s, y), s # t,
           thr' = [thr EXCEPT ![t] = x, ![s] = y]
    PROVE  TypeOK'
<1>1. x \in ThreadStates /\ y \in ThreadStates
  BY DEF ThreadOK
<1>2. thr' \in [Threads -> ThreadStates]
  BY <1>1, TypeOKParts
<1>3. \A u \in Threads : ThreadOK(u, thr'[u])
  <2> SUFFICES ASSUME NEW u \in Threads PROVE ThreadOK(u, thr'[u])
    OBVIOUS
  <2>1. CASE u = t
    BY <2>1, TypeOKParts
  <2>2. CASE u = s
    BY <2>2, TypeOKParts
  <2>3. CASE u # t /\ u # s
    <3>1. thr'[u] = thr[u]
      BY <2>3, TypeOKParts
    <3> QED BY <3>1, TypeOKParts
  <2> QED BY <2>1, <2>2, <2>3
<1> QED BY <1>2, <1>3, TypeOKPartsNext

LEMMA LoadType ==
    ASSUME TypeOK, NEW t \in Threads, NEW p \in Replicas, p # t[1], Load(t, p),
           thr[t].pc = "idle"
    PROVE  TypeOK'
<1> DEFINE r == t[1]
<1>1. r \in Replicas
  BY ThreadReplica
<1>2. PICK time \in ScanTimes(r) :
         /\ now' = time
         /\ known' = [known EXCEPT ![r] = Scanned(r, disk[r], time)]
         /\ thr' = [thr EXCEPT ![t].pc = "truncate", ![t].peer = p,
                               ![t].mem = Scanned(r, disk[r], time)]
  BY DEF Load
<1>3. time \in 0..MaxTime /\ disk[r] \in Metafiles
  BY <1>1, ScanTimesType DEF TypeOK
<1> DEFINE m == Scanned(r, disk[r], time)
<1>4. m \in Metafiles
  BY <1>1, <1>3, ScannedFacts
<1>5. OthersOK'
  BY <1>1, <1>2, <1>3, <1>4 DEF TypeOK, OthersOK, Load
<1> DEFINE x == [thr[t] EXCEPT !.pc = "truncate", !.peer = p, !.mem = m]
<1> HIDE DEF m
<1>6. ThreadOK(t, x)
  BY <1>4 DEF ThreadOK, ThreadStates, Steps, TypeOK
<1>7. thr' = [thr EXCEPT ![t] = x]
  BY <1>2 DEF m
<1> QED BY <1>5, <1>6, <1>7, OneThread

LEMMA TruncateType ==
    ASSUME TypeOK, NEW t \in Threads, Truncate(t)
    PROVE  TypeOK'
<1> DEFINE x == [thr[t] EXCEPT !.pc = "write", !.todo = DOMAIN thr[t].mem]
<1>1. t[1] \in Replicas /\ thr[t].mem \in Metafiles
  BY ThreadReplica DEF TypeOK, ThreadStates
<1>2. DOMAIN thr[t].mem \subseteq Files
  BY <1>1, MetafileFacts
<1>3. OthersOK'
  BY <1>1, EmptyMetafile DEF TypeOK, OthersOK, Truncate
<1>4. ThreadOK(t, x)
  BY <1>2 DEF ThreadOK, ThreadStates, Steps, TypeOK, Truncate
<1>5. thr' = [thr EXCEPT ![t] = x]
  BY DEF Truncate
<1> QED BY <1>3, <1>4, <1>5, OneThread

LEMMA WriteLineType ==
    ASSUME TypeOK, NEW t \in Threads, WriteLine(t)
    PROVE  TypeOK'
<1>1. PICK f \in thr[t].todo :
         /\ disk' = [disk EXCEPT ![t[1]] = WithLine(@, f, thr[t].mem[f])]
         /\ thr' = [thr EXCEPT ![t].todo = @ \ {f}]
  BY DEF WriteLine
<1> DEFINE x == [thr[t] EXCEPT !.todo = @ \ {f}]
<1>2. t[1] \in Replicas /\ thr[t].mem \in Metafiles /\ f \in Files /\ f \in DOMAIN thr[t].mem
  BY ThreadReplica DEF TypeOK, ThreadStates
<1>3. thr[t].mem[f] \in Entry /\ disk[t[1]] \in Metafiles
  BY <1>2, MetafileFacts DEF TypeOK
<1>4. WithLine(disk[t[1]], f, thr[t].mem[f]) \in Metafiles
  BY <1>2, <1>3, WithLineMetafile
<1>5. OthersOK'
  BY <1>1, <1>2, <1>4 DEF TypeOK, OthersOK, WriteLine
<1>6. ThreadOK(t, thr[t])
  BY TypeOKParts
<1>7. ThreadOK(t, x)
  <2>1. x \in ThreadStates
    BY <1>6 DEF ThreadOK, ThreadStates
  <2> QED BY <1>6, <2>1 DEF ThreadOK, ThreadStates, WriteLine
<1>8. thr' = [thr EXCEPT ![t] = x]
  BY <1>1
<1> QED BY <1>5, <1>7, <1>8, OneThread

\* A file of the DIFF is done with.
LEMMA FileDoneType ==
    ASSUME TypeOK, OthersOK', NEW r \in Replicas, NEW f, FileDone(r, f),
           thr[Client(r)].pc = "transfer"
    PROVE  TypeOK'
<1> DEFINE t == Client(r)
           d == Restrict(thr[t].diff, DOMAIN thr[t].diff \ {f})
<1>1. t \in Threads
  BY ThreadNames
<1>2. thr[t].diff \in Metafiles
  BY <1>1 DEF TypeOK, ThreadStates
<1>3. d \in Metafiles
  BY <1>2, RestrictMetafile
<1> HIDE DEF t
<1> DEFINE x == [thr[t] EXCEPT !.pc = "fetch", !.got = 0, !.file = "none", !.diff = d]
<1>4. thr' = [thr EXCEPT ![t] = x]
  BY DEF FileDone, t
<1>5. thr[t].pc = "transfer"
  BY DEF t
<1> HIDE DEF d
<1>6. ThreadOK(t, thr[t])
  BY <1>1, TypeOKParts
<1>7. ThreadOK(t, x)
  <2>1. "fetch" \in Steps /\ 0 \in Versions
    BY DEF Steps, Versions
  <2>2. x \in ThreadStates
    BY <1>3, <1>6, <2>1 DEF ThreadOK, ThreadStates
  <2> QED BY <1>5, <1>6, <2>2 DEF ThreadOK, ThreadStates
<1> QED BY <1>1, <1>4, <1>7, OneThread

LEMMA StartSessionType ==
    ASSUME TypeOK, NEW r \in Replicas, NEW p \in Replicas, StartSession(r, p)
    PROVE  TypeOK'
BY ThreadNames, LoadType DEF StartSession

LEMMA TakeRequestType ==
    ASSUME TypeOK, NEW p \in Replicas, NEW r \in Replicas, TakeRequest(p, r)
    PROVE  TypeOK'
<1>1. p # r
  BY ThreadNames DEF TakeRequest, TypeOK
<1> QED BY <1>1, ThreadNames, LoadType DEF TakeRequest

LEMMA SendDescrType ==
    ASSUME TypeOK, NEW r \in Replicas, SendDescr(r)
    PROVE  TypeOK'
<1> DEFINE x == [thr[Client(r)] EXCEPT !.pc = "descr"]
<1>1. ThreadOK(Client(r), thr[Client(r)])
  BY ThreadNames, TypeOKParts
<1>2. x \in ThreadStates
  BY <1>1 DEF ThreadOK, ThreadStates, Steps
<1>3. ThreadOK(Client(r), x)
  BY <1>1, <1>2 DEF ThreadOK, ThreadStates, SendDescr, Constructed
<1>4. OthersOK'
  BY TypeOKParts DEF OthersOK, SendDescr
<1> QED BY <1>3, <1>4, ThreadNames, OneThread DEF SendDescr

LEMMA SendGetType ==
    ASSUME TypeOK, NEW r \in Replicas, SendGet(r)
    PROVE  TypeOK'
<1>1. PICK f \in DOMAIN thr[Client(r)].diff :
         thr' = [thr EXCEPT ![Client(r)].pc = "get", ![Client(r)].file = f]
  BY DEF SendGet
<1> DEFINE x == [thr[Client(r)] EXCEPT !.pc = "get", !.file = f]
<1>2. ThreadOK(Client(r), thr[Client(r)])
  BY ThreadNames, TypeOKParts
<1>3. f \in Files
  BY <1>2, MetafileFacts DEF ThreadOK, ThreadStates
<1>4. x \in ThreadStates
  BY <1>2, <1>3 DEF ThreadOK, ThreadStates, Steps
<1>5. ThreadOK(Client(r), x)
  BY <1>2, <1>4 DEF ThreadOK, ThreadStates, SendGet
<1>6. thr' = [thr EXCEPT ![Client(r)] = x]
  BY <1>1
<1>7. OthersOK'
  BY TypeOKParts DEF OthersOK, SendGet
<1> QED BY <1>5, <1>6, <1>7, ThreadNames, OneThread

\* The temporary hosts of a replica are replicas.
LEMMA RemovedType ==
    ASSUME TypeOK, NEW r \in Replicas
    PROVE  Removed(r) \in [Replicas -> SUBSET Replicas]
BY DEF TypeOK, Removed

LEMMA AnnouncedType ==
    ASSUME NEW hosts \in [Replicas -> SUBSET Replicas], NEW p \in Replicas, NEW r \in Replicas
    PROVE  Announced(hosts, p, r) \in [Replicas -> SUBSET Replicas]
BY DEF Announced

LEMMA EndSessionType ==
    ASSUME TypeOK, NEW r \in Replicas, EndSession(r)
    PROVE  TypeOK'
<1>1. OthersOK'
  BY TypeOKParts, RemovedType DEF OthersOK, EndSession
<1> QED BY <1>1, ThreadNames, IdleOK, OneThread DEF EndSession

LEMMA InstallType ==
    ASSUME TypeOK, NEW r \in Replicas, Install(r)
    PROVE  TypeOK'
<1> DEFINE c == thr[Client(r)]
<1>1. ThreadOK(Client(r), c)
  BY ThreadNames, TypeOKParts
<1>2. c.got \in Versions /\ c.pc = "transfer"
  BY <1>1 DEF ThreadOK, ThreadStates, Install
<1>3. OthersOK'
  BY <1>2 DEF TypeOK, OthersOK, Install
<1>4. FileDone(r, c.file)
  BY DEF Install
<1> QED BY <1>2, <1>3, <1>4, FileDoneType

LEMMA RejectType ==
    ASSUME TypeOK, NEW r \in Replicas, Reject(r)
    PROVE  TypeOK'
<1>1. OthersOK'
  BY TypeOKParts DEF OthersOK, Reject
<1>2. FileDone(r, thr[Client(r)].file) /\ thr[Client(r)].pc = "transfer"
  BY DEF Reject
<1> QED BY <1>1, <1>2, FileDoneType

\* The server answers the client of a peer.
LEMMA PeerNames ==
    ASSUME TypeOK, NEW p \in Replicas, thr[Server(p)].pc # "idle"
    PROVE  /\ thr[Server(p)].peer \in Replicas
           /\ Client(thr[Server(p)].peer) \in Threads
           /\ Client(thr[Server(p)].peer)[1] = thr[Server(p)].peer
           /\ Client(thr[Server(p)].peer) # Server(p)
<1>1. thr[Server(p)].peer \in Replicas
  BY ThreadNames DEF TypeOK
<1> QED BY <1>1, ThreadNames

LEMMA AnswerDescrType ==
    ASSUME TypeOK, NEW p \in Replicas, AnswerDescr(p)
    PROVE  TypeOK'
<1> DEFINE s == thr[Server(p)]
           c == Client(s.peer)
           d == Diff(s.mem, thr[c].mem)
           x == [thr[c] EXCEPT !.pc = "fetch", !.diff = d, !.mem = <<>>]
<1>1. c \in Threads /\ c # Server(p)
  BY PeerNames DEF AnswerDescr, Constructed
<1>2. ThreadOK(c, thr[c]) /\ ThreadOK(Server(p), s)
  BY <1>1, ThreadNames, TypeOKParts
<1>3. thr[c].pc = "descr"
  BY DEF AnswerDescr
<1>4. thr' = [thr EXCEPT ![c] = x, ![Server(p)] = Idle]
  BY <1>1 DEF AnswerDescr
<1>5. d \in Metafiles
  BY <1>2, DiffFacts DEF ThreadOK, ThreadStates
<1>6. OthersOK'
  <2>1. temporary' \in [Replicas -> SUBSET Replicas]
    BY PeerNames, AnnouncedType DEF AnswerDescr, Constructed, TypeOK
  <2> QED BY <2>1, TypeOKParts DEF OthersOK, AnswerDescr
<1> HIDE DEF s, c, d
<1>7. x \in ThreadStates
  BY <1>2, <1>5, EmptyMetafile DEF ThreadOK, ThreadStates, Steps
<1>8. ThreadOK(c, x)
  BY <1>2, <1>3, <1>7 DEF ThreadOK, ThreadStates
<1> QED BY <1>1, <1>4, <1>6, <1>8, ThreadNames, IdleOK, TwoThreads

LEMMA AnswerGetType ==
    ASSUME TypeOK, NEW p \in Replicas, AnswerGet(p)
    PROVE  TypeOK'
<1> DEFINE c == Client(thr[Server(p)].peer)
           v == folder[p][thr[c].file]
           x == [thr[c] EXCEPT !.pc = "transfer", !.got = v]
<1>1. c \in Threads /\ c # Server(p)
  BY PeerNames DEF AnswerGet, Constructed
<1>2. ThreadOK(c, thr[c])
  BY <1>1, TypeOKParts
<1>3. thr[c].pc = "get" /\ thr' = [thr EXCEPT ![c] = x, ![Server(p)] = Idle]
  BY <1>1 DEF AnswerGet
<1>4. v \in Versions
  <2>1. thr[c].file \in Files
    BY <1>2, <1>3, MetafileFacts DEF ThreadOK, ThreadStates
  <2> QED BY <2>1 DEF TypeOK
<1>5. OthersOK'
  BY TypeOKParts DEF OthersOK, AnswerGet
<1> HIDE DEF c, v
<1>6. x \in ThreadStates
  BY <1>2, <1>4 DEF ThreadOK, ThreadStates, Steps
<1>7. ThreadOK(c, x)
  BY <1>2, <1>3, <1>6 DEF ThreadOK, ThreadStates
<1> QED BY <1>1, <1>3, <1>5, <1>7, ThreadNames, IdleOK, TwoThreads

LEMMA RefuseGetType ==
    ASSUME TypeOK, NEW p \in Replicas, RefuseGet(p)
    PROVE  TypeOK'
<1> DEFINE c == Client(thr[Server(p)].peer)
           d == Restrict(thr[c].diff, DOMAIN thr[c].diff \ {thr[c].file})
           x == [thr[c] EXCEPT !.pc = "fetch", !.file = "none", !.diff = d]
<1>1. c \in Threads /\ c # Server(p)
  BY PeerNames DEF RefuseGet, Constructed
<1>2. ThreadOK(c, thr[c])
  BY <1>1, TypeOKParts
<1>3. thr[c].pc = "get" /\ thr' = [thr EXCEPT ![c] = x, ![Server(p)] = Idle]
  BY <1>1 DEF RefuseGet
<1>4. d \in Metafiles
  BY <1>2, RestrictMetafile DEF ThreadOK, ThreadStates
<1>5. OthersOK'
  BY TypeOKParts DEF OthersOK, RefuseGet
<1> HIDE DEF c, d
<1>6. x \in ThreadStates
  BY <1>2, <1>4 DEF ThreadOK, ThreadStates, Steps
<1>7. ThreadOK(c, x)
  BY <1>2, <1>3, <1>6 DEF ThreadOK, ThreadStates
<1> QED BY <1>1, <1>3, <1>5, <1>7, ThreadNames, IdleOK, TwoThreads

LEMMA CutOffType ==
    ASSUME TypeOK, NEW r \in Replicas, CutOff(r)
    PROVE  TypeOK'
<1> DEFINE p == thr[Client(r)].peer
<1>1. p \in Replicas
  BY ThreadNames DEF TypeOK, CutOff
<1>2. OthersOK'
  <2>1. temporary' \in [Replicas -> SUBSET Replicas]
    BY <1>1, RemovedType, AnnouncedType DEF CutOff
  <2> QED BY <2>1 DEF TypeOK, OthersOK, CutOff
<1>3. CASE thr' = [thr EXCEPT ![Client(r)] = Idle]
  BY <1>2, <1>3, ThreadNames, IdleOK, OneThread
<1>4. CASE thr' = [thr EXCEPT ![Client(r)] = Idle, ![Server(p)] = Idle]
  BY <1>1, <1>2, <1>4, ThreadNames, IdleOK, TwoThreads
<1> QED BY <1>3, <1>4 DEF CutOff

LEMMA EditType ==
    ASSUME TypeOK, NEW r \in Replicas, NEW f \in Files, Edit(r, f)
    PROVE  TypeOK'
<1>1. edits + 1 \in Versions /\ 0 \in Versions /\ edits' \in 0..MaxEdits
  BY DEF TypeOK, Edit, Versions
<1>2. PICK v \in Versions : folder' = [folder EXCEPT ![r][f] = v]
  BY <1>1 DEF Edit
<1>3. folder' \in [Replicas -> [Files -> Versions]]
  BY <1>2 DEF TypeOK
<1>4. UNCHANGED <<disk, known, temporary, thr, now, faults>>
  BY DEF Edit
<1> QED BY <1>1, <1>3, <1>4 DEF TypeOK

LEMMA InitType == Init => TypeOK
<1> SUFFICES ASSUME Init PROVE TypeOK
  OBVIOUS
<1>1. 0 \in Versions
  BY DEF Versions
<1>2. OthersOK
  BY <1>1, EmptyMetafile DEF Init, OthersOK
<1>3. Idle \in ThreadStates
  BY IdleOK DEF ThreadOK
<1>4. thr \in [Threads -> ThreadStates] /\ \A t \in Threads : ThreadOK(t, thr[t])
  BY <1>3, IdleOK DEF Init
<1> QED BY <1>2, <1>4, TypeOKParts

LEMMA NextType == TypeOK /\ [Next]_vars => TypeOK'
<1> SUFFICES ASSUME TypeOK, [Next]_vars PROVE TypeOK'
  OBVIOUS
<1>1. ASSUME NEW r \in Replicas, ClientStep(r) PROVE TypeOK'
  BY <1>1, ThreadNames, TruncateType, WriteLineType, SendDescrType, SendGetType,
     EndSessionType, InstallType, RejectType DEF ClientStep, Write
<1>2. ASSUME NEW p \in Replicas, ServerStep(p) PROVE TypeOK'
  BY <1>2, ThreadNames, TruncateType, WriteLineType, AnswerDescrType,
     AnswerGetType, RefuseGetType DEF ServerStep, Write
<1>3. CASE UNCHANGED vars
  BY <1>3 DEF TypeOK, vars
<1> QED
  BY <1>1, <1>2, <1>3, EditType, CutOffType, StartSessionType, TakeRequestType
  DEF Next

\* Every reachable state is well typed; in particular a thread only has lines left
\* to write while it writes, and only waits for files that its DIFF names.
THEOREM TypeCorrect == Spec => []TypeOK
<1> QED BY InitType, NextType, PTL DEF Spec

(***************************************************************************)
(* Replicas that agree                                                     *)
(***************************************************************************)

\* The part of Settled that is about one thread.
ThreadSettled(t, x) ==
    /\ x.pc \in {"truncate", "write", "descr"} =>
          Lists(t[1], x.mem) /\ DOMAIN x.mem = Present(t[1])
    /\ Lists(t[1], x.diff)

LEMMA SettledParts ==
    Settled <=> /\ \A p, r \in Replicas : folder[p] = folder[r]
                /\ \A t \in Threads : ThreadSettled(t, thr[t])
BY DEF Settled, ThreadSettled, InConstructor

LEMMA SettledKept ==
    ASSUME Settled, folder' = folder,
           \A t \in Threads : thr'[t] = thr[t] \/ ThreadSettled(t, thr'[t])
    PROVE  Settled'
<1>1. \A t \in Threads : ThreadSettled(t, thr'[t])
  BY SettledParts
<1>2. Settled' <=> /\ \A p, r \in Replicas : folder'[p] = folder'[r]
                   /\ \A t \in Threads : ThreadSettled(t, thr'[t])
  BY DEF Settled, ThreadSettled, InConstructor, Lists, Present
<1> QED BY <1>1, <1>2, SettledParts

LEMMA IdleSettled ==
    ASSUME NEW t
    PROVE  ThreadSettled(t, Idle)
BY EmptyMetafile DEF ThreadSettled, Idle, Lists

LEMMA LoadSettled ==
    ASSUME TypeOK, Settled, NEW t \in Threads, NEW p, Load(t, p)
    PROVE  Settled' /\ folder' = folder
<1> DEFINE r == t[1]
<1>1. r \in Replicas
  BY ThreadReplica
<1>2. PICK time \in ScanTimes(r) :
         thr' = [thr EXCEPT ![t].pc = "truncate", ![t].peer = p,
                            ![t].mem = Scanned(r, disk[r], time)]
  BY DEF Load
<1>3. time \in 0..MaxTime /\ disk[r] \in Metafiles
  BY <1>1, ScanTimesType DEF TypeOK
<1> DEFINE m == Scanned(r, disk[r], time)
<1>4. Lists(r, m) /\ DOMAIN m = Present(r)
  BY <1>1, <1>3, ScannedFacts DEF Lists
<1> HIDE DEF m
<1>5. thr'[t].mem = m /\ thr'[t].diff = thr[t].diff
  BY <1>2 DEF TypeOK, ThreadStates, m
<1>6. ThreadSettled(t, thr'[t])
  BY <1>4, <1>5, SettledParts DEF ThreadSettled
<1>7. \A u \in Threads : u # t => thr'[u] = thr[u]
  BY <1>2 DEF TypeOK
<1>8. folder' = folder
  BY DEF Load
<1> QED BY <1>6, <1>7, <1>8, SettledKept

\* Writing the metafile, and asking.
LEMMA QuietSettled ==
    ASSUME TypeOK, Settled, NEW t \in Threads,
           Truncate(t) \/ WriteLine(t)
             \/ (\E r \in Replicas : t = Client(r) /\ (SendDescr(r) \/ SendGet(r)))
    PROVE  Settled' /\ folder' = folder
<1>1. thr[t] \in ThreadStates /\ ThreadSettled(t, thr[t])
  BY SettledParts DEF TypeOK
<1>2. folder' = folder /\ \A u \in Threads : u # t => thr'[u] = thr[u]
  BY DEF TypeOK, Truncate, WriteLine, SendDescr, SendGet
<1>3. CASE Truncate(t)
  <2>1. thr[t].pc = "truncate" /\ thr'[t].mem = thr[t].mem /\ thr'[t].diff = thr[t].diff
    BY <1>1, <1>3 DEF TypeOK, ThreadStates, Truncate
  <2> QED BY <1>1, <1>2, <2>1, SettledKept DEF ThreadSettled
<1>4. CASE WriteLine(t)
  <2>1. thr[t].pc = "write" /\ thr'[t].mem = thr[t].mem /\ thr'[t].diff = thr[t].diff
    BY <1>1, <1>4 DEF TypeOK, ThreadStates, WriteLine
  <2> QED BY <1>1, <1>2, <2>1, SettledKept DEF ThreadSettled
<1>5. ASSUME NEW r \in Replicas, t = Client(r), SendDescr(r) PROVE Settled'
  <2>1. thr[t].pc = "write" /\ thr'[t].mem = thr[t].mem /\ thr'[t].diff = thr[t].diff
    BY <1>1, <1>5 DEF TypeOK, ThreadStates, SendDescr, Constructed
  <2> QED BY <1>1, <1>2, <2>1, SettledKept DEF ThreadSettled
<1>6. ASSUME NEW r \in Replicas, t = Client(r), SendGet(r) PROVE Settled'
  <2>1. thr'[t].pc = "get" /\ thr'[t].diff = thr[t].diff
    BY <1>1, <1>6 DEF TypeOK, ThreadStates, SendGet
  <2> QED BY <1>1, <1>2, <2>1, SettledKept DEF ThreadSettled
<1> QED BY <1>2, <1>3, <1>4, <1>5, <1>6

\* A file of the DIFF is dropped, downloaded or not.
LEMMA DropSettled ==
    ASSUME TypeOK, NEW t \in Threads, ThreadSettled(t, thr[t]), NEW f
    PROVE  Lists(t[1], Restrict(thr[t].diff, DOMAIN thr[t].diff \ {f}))
<1>1. thr[t].diff \in Metafiles
  BY DEF TypeOK, ThreadStates
<1> QED BY <1>1, RestrictMetafile DEF ThreadSettled, Lists

LEMMA FileDoneSettled ==
    ASSUME TypeOK, Settled, folder' = folder, NEW r \in Replicas, NEW f, FileDone(r, f)
    PROVE  Settled'
<1> DEFINE t == Client(r)
<1>1. t \in Threads
  BY ThreadNames
<1>2. ThreadSettled(t, thr[t])
  BY <1>1, SettledParts
<1>3. /\ thr'[t].pc = "fetch"
      /\ thr'[t].diff = Restrict(thr[t].diff, DOMAIN thr[t].diff \ {f})
  BY <1>1 DEF FileDone, TypeOK, ThreadStates
<1>4. ThreadSettled(t, thr'[t])
  BY <1>1, <1>2, <1>3, DropSettled DEF ThreadSettled
<1>5. \A u \in Threads : u # t => thr'[u] = thr[u]
  BY <1>1 DEF FileDone, TypeOK
<1> QED BY <1>4, <1>5, SettledKept

\* What is downloaded is what the folder already holds.
LEMMA InstallSettled ==
    ASSUME TypeOK, Settled, NEW r \in Replicas, Install(r)
    PROVE  Settled' /\ folder' = folder
<1> DEFINE c == thr[Client(r)]
<1>1. ThreadSettled(Client(r), c) /\ Client(r)[1] = r
  BY ThreadNames, SettledParts
<1>2. c.file \in DOMAIN c.diff
  BY ThreadNames DEF TypeOK, Install
<1>3. c.got = folder[r][c.file]
  BY <1>1, <1>2 DEF Install, ThreadSettled, Lists
<1>4. folder' = folder
  BY <1>3 DEF Install, TypeOK
<1> QED BY <1>4, FileDoneSettled DEF Install

\* Two lists of the same contents have no difference.
LEMMA AnswerDescrSettled ==
    ASSUME TypeOK, Settled, NEW p \in Replicas, AnswerDescr(p)
    PROVE  Settled' /\ folder' = folder
<1> DEFINE s == thr[Server(p)]
           c == Client(s.peer)
           d == Diff(s.mem, thr[c].mem)
<1>1. /\ c \in Threads /\ c # Server(p) /\ s.peer \in Replicas /\ c[1] = s.peer
      /\ Server(p) \in Threads /\ Server(p)[1] = p
  BY PeerNames, ThreadNames DEF AnswerDescr, Constructed
<1>2. ThreadSettled(c, thr[c]) /\ ThreadSettled(Server(p), s)
  BY <1>1, SettledParts
<1>3. s.mem \in Metafiles /\ thr[c].mem \in Metafiles
  BY <1>1 DEF TypeOK, ThreadStates
<1>4. s.pc = "write" /\ thr[c].pc = "descr"
  BY DEF AnswerDescr, Constructed
<1>5. folder[p] = folder[c[1]]
  BY <1>1, SettledParts
<1>6. /\ DOMAIN s.mem = DOMAIN thr[c].mem
      /\ \A f \in DOMAIN s.mem : s.mem[f].hash = thr[c].mem[f].hash
  <2>1. Present(p) = Present(c[1])
    BY <1>5 DEF Present
  <2>2. DOMAIN s.mem = Present(p) /\ Lists(p, s.mem)
    BY <1>1, <1>2, <1>4 DEF ThreadSettled
  <2>3. DOMAIN thr[c].mem = Present(c[1]) /\ Lists(c[1], thr[c].mem)
    BY <1>2, <1>4 DEF ThreadSettled
  <2> HIDE DEF s, c
  <2> QED BY <1>5, <2>1, <2>2, <2>3 DEF Lists
<1>7. DOMAIN d = {}
  <2>1. /\ DOMAIN d \subseteq DOMAIN s.mem
        /\ \A f \in DOMAIN d :
              f \in DOMAIN thr[c].mem => s.mem[f].hash # thr[c].mem[f].hash
    BY <1>3, DiffFacts
  <2> HIDE DEF s, c, d
  <2> QED BY <1>6, <2>1
<1>8. thr'[c].pc = "fetch" /\ thr'[c].diff = d
  BY <1>1 DEF AnswerDescr, TypeOK, ThreadStates
<1>9. ThreadSettled(c, thr'[c])
  BY <1>7, <1>8 DEF ThreadSettled, Lists
<1>10. /\ thr'[Server(p)] = Idle
       /\ \A u \in Threads : u # c /\ u # Server(p) => thr'[u] = thr[u]
       /\ folder' = folder
  BY <1>1 DEF AnswerDescr, TypeOK
<1> QED BY <1>9, <1>10, IdleSettled, SettledKept

LEMMA AnswerGetSettled ==
    ASSUME TypeOK, Settled, NEW p \in Replicas, AnswerGet(p) \/ RefuseGet(p)
    PROVE  Settled' /\ folder' = folder
<1> DEFINE c == Client(thr[Server(p)].peer)
<1>1. c \in Threads /\ c # Server(p) /\ Server(p) \in Threads
  BY PeerNames, ThreadNames DEF AnswerGet, RefuseGet, Constructed
<1>2. ThreadSettled(c, thr[c])
  BY <1>1, SettledParts
<1>3. /\ thr'[Server(p)] = Idle
      /\ \A u \in Threads : u # c /\ u # Server(p) => thr'[u] = thr[u]
      /\ folder' = folder
  BY <1>1 DEF AnswerGet, RefuseGet, TypeOK
<1>4. CASE AnswerGet(p)
  <2>1. thr'[c].pc = "transfer" /\ thr'[c].diff = thr[c].diff
    BY <1>1, <1>4 DEF AnswerGet, TypeOK, ThreadStates
  <2> QED BY <1>2, <1>3, <2>1, IdleSettled, SettledKept DEF ThreadSettled
<1>5. CASE RefuseGet(p)
  <2>1. /\ thr'[c].pc = "fetch"
        /\ thr'[c].diff = Restrict(thr[c].diff, DOMAIN thr[c].diff \ {thr[c].file})
    <3>1. thr' = [thr EXCEPT ![c].pc = "fetch", ![c].file = "none",
                             ![c].diff = Restrict(@, DOMAIN @ \ {thr[c].file}),
                             ![Server(p)] = Idle]
      BY <1>5 DEF RefuseGet
    <3>2. thr[c] \in ThreadStates /\ DOMAIN thr = Threads
      BY <1>1 DEF TypeOK
    <3> HIDE DEF c
    <3> QED BY <1>1, <3>1, <3>2 DEF ThreadStates
  <2>2. ThreadSettled(c, thr'[c])
    BY <1>1, <1>2, <2>1, DropSettled DEF ThreadSettled
  <2> QED BY <1>3, <2>2, IdleSettled, SettledKept
<1> QED BY <1>4, <1>5

LEMMA EndSettled ==
    ASSUME TypeOK, Settled, NEW r \in Replicas, EndSession(r) \/ CutOff(r)
    PROVE  Settled' /\ folder' = folder
<1>1. folder' = folder
  BY DEF EndSession, CutOff
<1>2. thr[Client(r)].peer \in Replicas \/ EndSession(r)
  BY ThreadNames DEF TypeOK, CutOff
<1>3. \A u \in Threads : thr'[u] = thr[u] \/ thr'[u] = Idle
  BY <1>2, ThreadNames DEF EndSession, CutOff, TypeOK
<1> QED BY <1>1, <1>3, IdleSettled, SettledKept

LEMMA NextSettled ==
    TypeOK /\ [Next]_vars /\ Settled /\ edits' = edits => Settled' /\ folder' = folder
<1> SUFFICES ASSUME TypeOK, [Next]_vars, Settled, edits' = edits
             PROVE  Settled' /\ folder' = folder
  OBVIOUS
<1>1. ASSUME NEW r \in Replicas, ClientStep(r) PROVE Settled' /\ folder' = folder
  <2>1. ASSUME Reject(r) PROVE Settled' /\ folder' = folder
    BY <2>1, FileDoneSettled DEF Reject
  <2> QED
    BY <1>1, <2>1, ThreadNames, QuietSettled, EndSettled, InstallSettled
    DEF ClientStep, Write
<1>2. ASSUME NEW p \in Replicas, ServerStep(p) PROVE Settled' /\ folder' = folder
  BY <1>2, ThreadNames, QuietSettled, AnswerDescrSettled, AnswerGetSettled
  DEF ServerStep, Write
<1>3. ASSUME NEW p \in Replicas, NEW r \in Replicas,
             StartSession(r, p) \/ TakeRequest(p, r)
      PROVE  Settled' /\ folder' = folder
  BY <1>3, ThreadNames, LoadSettled DEF StartSession, TakeRequest
<1>4. ASSUME NEW r \in Replicas, NEW f \in Files, Edit(r, f) PROVE FALSE
  BY <1>4 DEF Edit, TypeOK
<1>5. CASE UNCHANGED vars
  BY <1>5 DEF vars, Settled, InConstructor, Lists, Present
<1> QED BY <1>1, <1>2, <1>3, <1>4, <1>5, EndSettled DEF Next

\* Once all folders hold the same, and no scan or DIFF in use says otherwise, no
\* session changes anything: files are not downloaded back and forth though every
\* scan may give them a new time.  This holds however scans overlap.
THEOREM SettledIsStable == Spec => SettledStable
<1>1. TypeOK /\ [Next]_vars =>
         [Settled /\ edits' = edits => Settled' /\ folder' = folder]_vars
  BY NextSettled
<1> QED BY <1>1, TypeCorrect, PTL DEF Spec, SettledStable

(***************************************************************************)
(* Scans that do not overlap                                               *)
(***************************************************************************)

\* At most one thread of a replica is scanning.
ScansSerial ==
    \A t, u \in Threads : t[1] = u[1] /\ InConstructor(t) /\ InConstructor(u) => t = u

\* The inductive invariant.
ScanInv == ScansSerial /\ MetafileCurrent

\* A thread that has written all lines leaves the metafile of the last scan.
LEMMA WrittenIsCurrent ==
    ASSUME TypeOK, ScanInv, NEW t \in Threads, Constructed(t)
    PROVE  disk[t[1]] = known[t[1]]
<1>1. thr[t].mem \in Metafiles /\ t[1] \in Replicas
  BY ThreadReplica DEF TypeOK, ThreadStates
<1>2. disk[t[1]] = Restrict(thr[t].mem, DOMAIN thr[t].mem) /\ thr[t].mem = known[t[1]]
  <2>1. thr[t].pc = "write" /\ DOMAIN thr[t].mem \ thr[t].todo = DOMAIN thr[t].mem
    BY DEF Constructed
  <2>2. /\ disk[t[1]] = Restrict(thr[t].mem, DOMAIN thr[t].mem \ thr[t].todo)
        /\ thr[t].mem = known[t[1]]
    BY <1>1, <2>1 DEF ScanInv, MetafileCurrent, InConstructor
  <2> QED BY <2>1, <2>2
<1>3. thr[t].mem = [f \in DOMAIN thr[t].mem |-> thr[t].mem[f]]
  BY <1>1, MetafileFacts
<1> QED BY <1>2, <1>3 DEF Restrict

\* Steps that neither begin a scan nor write.
LEMMA CurrentKept ==
    ASSUME TypeOK, ScanInv, UNCHANGED <<disk, known>>,
           \A t \in Threads :
              \/ thr'[t] = thr[t]
              \/ /\ thr'[t].pc \notin {"truncate", "write"}
                 /\ InConstructor(t) => Constructed(t)
    PROVE  ScanInv'
<1>1. \A t \in Threads : InConstructor(t)' => InConstructor(t) /\ thr'[t] = thr[t]
  BY DEF InConstructor
<1>2. ScansSerial'
  BY <1>1 DEF ScanInv, ScansSerial
<1>3. MetafileCurrent'
  <2> SUFFICES ASSUME NEW r \in Replicas
      PROVE
        /\ (\A t \in Threads : t[1] = r => ~InConstructor(t)') => disk[r] = known[r]
        /\ \A t \in Threads : t[1] = r /\ InConstructor(t)' => thr'[t].mem = known[r]
        /\ \A t \in Threads : t[1] = r /\ thr'[t].pc = "write" =>
              disk[r] = Restrict(thr'[t].mem, DOMAIN thr'[t].mem \ thr'[t].todo)
    BY DEF MetafileCurrent
  <2>1. ASSUME \A t \in Threads : t[1] = r => ~InConstructor(t)'
        PROVE  disk[r] = known[r]
    <3>1. CASE \A t \in Threads : t[1] = r => ~InConstructor(t)
      BY <3>1 DEF ScanInv, MetafileCurrent
    <3>2. ASSUME NEW t \in Threads, t[1] = r, InConstructor(t) PROVE disk[r] = known[r]
      <4>1. Constructed(t)
        BY <2>1, <3>2 DEF InConstructor
      <4> QED BY <3>2, <4>1, WrittenIsCurrent
    <3> QED BY <3>1, <3>2
  <2>2. \A t \in Threads : t[1] = r /\ InConstructor(t)' => thr'[t].mem = known[r]
    BY <1>1 DEF ScanInv, MetafileCurrent
  <2>3. ASSUME NEW t \in Threads, t[1] = r, thr'[t].pc = "write"
        PROVE  disk[r] = Restrict(thr'[t].mem, DOMAIN thr'[t].mem \ thr'[t].todo)
    <3>1. thr'[t] = thr[t]
      BY <2>3, <1>1 DEF InConstructor
    <3> QED BY <2>3, <3>1 DEF ScanInv, MetafileCurrent
  <2> QED BY <2>1, <2>2, <2>3
<1> QED BY <1>2, <1>3 DEF ScanInv

\* A step of one thread t that ends inside the constructor: only its own replica
\* needs a look.
LEMMA CurrentStep ==
    ASSUME TypeOK, ScanInv, NEW t \in Threads, InConstructor(t)',
           \A u \in Threads : u # t => thr'[u] = thr[u],
           \A u \in Threads : u[1] = t[1] /\ u # t => ~InConstructor(u),
           \A r \in Replicas : r # t[1] => disk'[r] = disk[r] /\ known'[r] = known[r],
           thr'[t].mem = known'[t[1]],
           thr'[t].pc = "write" =>
              disk'[t[1]] = Restrict(thr'[t].mem, DOMAIN thr'[t].mem \ thr'[t].todo)
    PROVE  ScanInv'
<1>1. \A u \in Threads : u # t => (InConstructor(u)' <=> InConstructor(u))
  BY DEF InConstructor
<1>2. ScansSerial'
  BY <1>1 DEF ScanInv, ScansSerial
<1>3. ASSUME NEW r \in Replicas
      PROVE
        /\ (\A u \in Threads : u[1] = r => ~InConstructor(u)') => disk'[r] = known'[r]
        /\ \A u \in Threads : u[1] = r /\ InConstructor(u)' => thr'[u].mem = known'[r]
        /\ \A u \in Threads : u[1] = r /\ thr'[u].pc = "write" =>
              disk'[r] = Restrict(thr'[u].mem, DOMAIN thr'[u].mem \ thr'[u].todo)
  <2>1. CASE r = t[1]
    <3>1. \A u \in Threads : u[1] = r /\ InConstructor(u)' => u = t
      BY <2>1, <1>1
    <3> QED BY <2>1, <3>1 DEF InConstructor
  <2>2. CASE r # t[1]
    <3>1. \A u \in Threads : u[1] = r => u # t
      BY <2>2
    <3>2. disk'[r] = disk[r] /\ known'[r] = known[r]
      BY <2>2
    <3> QED BY <1>1, <3>1, <3>2 DEF ScanInv, MetafileCurrent
  <2> QED BY <2>1, <2>2
<1> QED BY <1>2, <1>3 DEF ScanInv, MetafileCurrent

LEMMA LoadCurrent ==
    ASSUME TypeOK, ScanInv, Concurrent = FALSE, NEW t \in Threads, NEW p, Load(t, p)
    PROVE  /\ ScanInv'
           /\ disk[t[1]] = known[t[1]]
           /\ \E time \in 0..MaxTime :
                 known' = [known EXCEPT ![t[1]] = Scanned(t[1], disk[t[1]], time)]
<1> DEFINE r == t[1]
<1>1. r \in Replicas
  BY ThreadReplica
<1>2. \A u \in Threads : u[1] = r => ~InConstructor(u)
  BY DEF Load
<1>3. disk[r] = known[r]
  BY <1>1, <1>2 DEF ScanInv, MetafileCurrent
<1>4. PICK time \in ScanTimes(r) :
         /\ known' = [known EXCEPT ![r] = Scanned(r, disk[r], time)]
         /\ thr' = [thr EXCEPT ![t].pc = "truncate", ![t].peer = p,
                               ![t].mem = Scanned(r, disk[r], time)]
  BY DEF Load
<1>5. time \in 0..MaxTime
  BY ScanTimesType
<1> DEFINE m == Scanned(r, disk[r], time)
<1> HIDE DEF m
<1>6. known' = [known EXCEPT ![r] = m] /\ disk' = disk
  BY <1>4 DEF m, Load
<1>7. /\ thr'[t].pc = "truncate" /\ thr'[t].mem = m
      /\ \A u \in Threads : u # t => thr'[u] = thr[u]
  BY <1>4 DEF m, TypeOK, ThreadStates
<1>8. /\ known'[r] = m
      /\ \A q \in Replicas : q # r => disk'[q] = disk[q] /\ known'[q] = known[q]
  BY <1>1, <1>6 DEF TypeOK
<1>9. ScanInv'
  BY <1>2, <1>7, <1>8, CurrentStep DEF InConstructor
<1> QED BY <1>3, <1>4, <1>5, <1>9

LEMMA TruncateCurrent ==
    ASSUME TypeOK, ScanInv, NEW t \in Threads, Truncate(t)
    PROVE  ScanInv'
<1> DEFINE r == t[1]
<1>1. r \in Replicas /\ thr[t] \in ThreadStates /\ InConstructor(t)
  BY ThreadReplica DEF TypeOK, Truncate, InConstructor
<1>2. thr[t].mem = known[r] /\ \A u \in Threads : u[1] = r /\ u # t => ~InConstructor(u)
  BY <1>1 DEF ScanInv, ScansSerial, MetafileCurrent
<1>3. /\ thr'[t].pc = "write" /\ thr'[t].mem = thr[t].mem
      /\ thr'[t].todo = DOMAIN thr[t].mem
      /\ \A u \in Threads : u # t => thr'[u] = thr[u]
  BY <1>1 DEF Truncate, TypeOK, ThreadStates
<1>4. /\ disk'[r] = <<>> /\ known' = known
      /\ \A q \in Replicas : q # r => disk'[q] = disk[q]
  BY <1>1 DEF Truncate, TypeOK
<1>5. Restrict(thr[t].mem, {}) = <<>>
  <2>1. <<>> = [f \in {} |-> <<>>[f]]
    BY EmptyMetafile, MetafileFacts
  <2> QED BY <2>1 DEF Restrict
<1>6. DOMAIN thr'[t].mem \ thr'[t].todo = {}
  BY <1>3
<1>7. disk'[r] = Restrict(thr'[t].mem, DOMAIN thr'[t].mem \ thr'[t].todo)
  BY <1>3, <1>4, <1>5, <1>6
<1> QED BY <1>2, <1>3, <1>4, <1>7, CurrentStep DEF InConstructor

LEMMA WriteLineCurrent ==
    ASSUME TypeOK, ScanInv, NEW t \in Threads, WriteLine(t)
    PROVE  ScanInv'
<1> DEFINE r == t[1]
           m == thr[t].mem
           S == DOMAIN m \ thr[t].todo
<1>1. r \in Replicas /\ thr[t] \in ThreadStates /\ InConstructor(t) /\ thr[t].pc = "write"
  BY ThreadReplica DEF TypeOK, WriteLine, InConstructor
<1>2. /\ m = known[r] /\ disk[r] = Restrict(m, S)
      /\ \A u \in Threads : u[1] = r /\ u # t => ~InConstructor(u)
  BY <1>1 DEF ScanInv, ScansSerial, MetafileCurrent
<1>3. PICK f \in thr[t].todo :
         /\ disk' = [disk EXCEPT ![r] = WithLine(@, f, m[f])]
         /\ thr' = [thr EXCEPT ![t].todo = @ \ {f}]
  BY DEF WriteLine
<1>4. f \in DOMAIN m /\ thr[t].todo \subseteq DOMAIN m
  BY DEF TypeOK
<1>5. /\ thr'[t].pc = "write" /\ thr'[t].mem = m /\ thr'[t].todo = thr[t].todo \ {f}
      /\ \A u \in Threads : u # t => thr'[u] = thr[u]
  BY <1>1, <1>3 DEF TypeOK, ThreadStates
<1>6. /\ disk'[r] = WithLine(disk[r], f, m[f]) /\ known' = known
      /\ \A q \in Replicas : q # r => disk'[q] = disk[q]
  BY <1>1, <1>3 DEF WriteLine, TypeOK
<1>7. WithLine(Restrict(m, S), f, m[f]) = Restrict(m, S \cup {f})
  <2> HIDE DEF m, S
  <2> QED BY DEF WithLine, Restrict
<1>8. DOMAIN m \ (thr[t].todo \ {f}) = S \cup {f}
  BY <1>4
<1>9. disk'[r] = Restrict(thr'[t].mem, DOMAIN thr'[t].mem \ thr'[t].todo)
  <2> HIDE DEF m, S
  <2> QED BY <1>2, <1>5, <1>6, <1>7, <1>8
<1> QED BY <1>2, <1>5, <1>6, <1>9, CurrentStep DEF InConstructor

\* Everything else.
LEMMA OtherCurrent ==
    ASSUME TypeOK, ScanInv,
           \/ \E r \in Replicas : \/ SendDescr(r) \/ SendGet(r) \/ EndSession(r)
                                  \/ Install(r) \/ Reject(r) \/ CutOff(r)
                                  \/ AnswerDescr(r) \/ AnswerGet(r) \/ RefuseGet(r)
           \/ \E r \in Replicas, f \in Files : Edit(r, f)
    PROVE  ScanInv' /\ UNCHANGED <<disk, known>>
<1>1. UNCHANGED <<disk, known>>
  BY DEF SendDescr, SendGet, EndSession, Install, Reject, CutOff, AnswerDescr,
     AnswerGet, RefuseGet, Edit
<1> DEFINE Leaves(t) == \/ thr'[t] = thr[t]
                        \/ /\ thr'[t].pc \notin {"truncate", "write"}
                           /\ InConstructor(t) => Constructed(t)
<1>2. ASSUME NEW r \in Replicas, SendDescr(r) \/ SendGet(r) \/ EndSession(r)
      PROVE  \A t \in Threads : Leaves(t)
  <2>1. Client(r) \in Threads /\ \A t \in Threads : t # Client(r) => thr'[t] = thr[t]
    BY <1>2, ThreadNames DEF SendDescr, SendGet, EndSession, TypeOK
  <2>2. /\ thr'[Client(r)].pc \in {"descr", "get", "idle"}
        /\ InConstructor(Client(r)) => Constructed(Client(r))
    BY <1>2, <2>1 DEF SendDescr, SendGet, EndSession, TypeOK, ThreadStates,
       InConstructor, Constructed, Idle
  <2> QED BY <2>1, <2>2
<1>3. ASSUME NEW r \in Replicas, Install(r) \/ Reject(r)
      PROVE  \A t \in Threads : Leaves(t)
  <2>1. /\ Client(r) \in Threads
        /\ \A t \in Threads : t # Client(r) => thr'[t] = thr[t]
    BY <1>3, ThreadNames DEF Install, Reject, FileDone, TypeOK
  <2>2. PICK f : FileDone(r, f)
    BY <1>3 DEF Install, Reject
  <2>3. thr'[Client(r)].pc = "fetch"
    BY <2>1, <2>2 DEF FileDone, TypeOK, ThreadStates
  <2>4. thr[Client(r)].pc = "transfer"
    BY <1>3 DEF Install, Reject
  <2> QED BY <2>1, <2>3, <2>4 DEF InConstructor
<1>4. ASSUME NEW r \in Replicas, CutOff(r)
      PROVE  \A t \in Threads : Leaves(t)
  <2> DEFINE p == thr[Client(r)].peer
  <2>1. /\ Client(r) \in Threads /\ p \in Replicas /\ Server(p) \in Threads
        /\ Client(r) # Server(p) /\ ~InConstructor(Client(r))
    BY <1>4, ThreadNames DEF CutOff, TypeOK, InConstructor
  <2>2. Idle.pc = "idle"
    BY DEF Idle
  <2>3. \/ thr' = [thr EXCEPT ![Client(r)] = Idle]
        \/ Constructed(Server(p)) /\ thr' = [thr EXCEPT ![Client(r)] = Idle, ![Server(p)] = Idle]
    BY <1>4 DEF CutOff
  <2> HIDE DEF p
  <2> QED BY <2>1, <2>2, <2>3 DEF TypeOK
<1>5. ASSUME NEW p \in Replicas, AnswerDescr(p) \/ AnswerGet(p) \/ RefuseGet(p)
      PROVE  \A t \in Threads : Leaves(t)
  <2> DEFINE c == Client(thr[Server(p)].peer)
  <2>1. /\ Constructed(Server(p)) /\ c \in Threads /\ Server(p) \in Threads
        /\ c # Server(p) /\ thr[c].pc \in {"descr", "get"}
    BY <1>5, PeerNames, ThreadNames DEF AnswerDescr, AnswerGet, RefuseGet, Constructed
  <2>2. \A t \in Threads : t # c /\ t # Server(p) => thr'[t] = thr[t]
    BY <1>5, <2>1 DEF AnswerDescr, AnswerGet, RefuseGet, TypeOK
  <2>3. thr'[Server(p)] = Idle
    BY <1>5, <2>1 DEF AnswerDescr, AnswerGet, RefuseGet, TypeOK
  <2>4. Idle.pc = "idle"
    BY DEF Idle
  <2>5. thr[c] \in ThreadStates /\ DOMAIN thr = Threads
    BY <2>1 DEF TypeOK
  <2>6. ASSUME AnswerDescr(p) PROVE thr'[c].pc = "fetch"
    <3>1. thr' = [thr EXCEPT ![c].pc = "fetch",
                             ![c].diff = Diff(thr[Server(p)].mem, thr[c].mem),
                             ![c].mem = <<>>, ![Server(p)] = Idle]
      BY <2>6 DEF AnswerDescr
    <3> HIDE DEF c
    <3> QED BY <2>1, <2>5, <3>1 DEF ThreadStates
  <2>7. ASSUME AnswerGet(p) PROVE thr'[c].pc = "transfer"
    <3>1. thr' = [thr EXCEPT ![c].pc = "transfer", ![c].got = folder[p][thr[c].file],
                             ![Server(p)] = Idle]
      BY <2>7 DEF AnswerGet
    <3> HIDE DEF c
    <3> QED BY <2>1, <2>5, <3>1 DEF ThreadStates
  <2>8. ASSUME RefuseGet(p) PROVE thr'[c].pc = "fetch"
    <3>1. thr' = [thr EXCEPT ![c].pc = "fetch", ![c].file = "none",
                             ![c].diff = Restrict(@, DOMAIN @ \ {thr[c].file}),
                             ![Server(p)] = Idle]
      BY <2>8 DEF RefuseGet
    <3> HIDE DEF c
    <3> QED BY <2>1, <2>5, <3>1 DEF ThreadStates
  <2> HIDE DEF c
  <2> QED BY <1>5, <2>1, <2>2, <2>3, <2>4, <2>6, <2>7, <2>8 DEF InConstructor
<1>6. ASSUME NEW r \in Replicas, NEW f \in Files, Edit(r, f)
      PROVE  \A t \in Threads : Leaves(t)
  BY <1>6 DEF Edit
<1> HIDE DEF Leaves
<1>7. \A t \in Threads : Leaves(t)
  BY <1>2, <1>3, <1>4, <1>5, <1>6
<1> QED BY <1>1, <1>7, CurrentKept DEF Leaves

LEMMA InitCurrent == Init => ScanInv
<1> SUFFICES ASSUME Init PROVE ScanInv
  OBVIOUS
<1>1. \A t \in Threads : thr[t].pc = "idle"
  BY DEF Init, Idle
<1>2. \A r \in Replicas : disk[r] = known[r]
  BY DEF Init
<1> QED BY <1>1, <1>2 DEF ScanInv, ScansSerial, MetafileCurrent, InConstructor

\* A step is a scan, a step of writing the metafile, or leaves it alone.
LEMMA StepKinds ==
    ASSUME [Next]_vars
    PROVE  \/ \E t \in Threads, p \in Replicas : Load(t, p)
           \/ \E t \in Threads : Truncate(t) \/ WriteLine(t)
           \/ \E r \in Replicas : \/ SendDescr(r) \/ SendGet(r) \/ EndSession(r)
                                  \/ Install(r) \/ Reject(r) \/ CutOff(r)
                                  \/ AnswerDescr(r) \/ AnswerGet(r) \/ RefuseGet(r)
           \/ \E r \in Replicas, f \in Files : Edit(r, f)
           \/ UNCHANGED vars
BY ThreadNames DEF Next, ClientStep, ServerStep, Write, StartSession, TakeRequest

LEMMA NextCurrent ==
    ASSUME Concurrent = FALSE, TypeOK, ScanInv, [Next]_vars
    PROVE  ScanInv'
<1>1. ASSUME UNCHANGED vars PROVE ScanInv'
  BY <1>1 DEF vars, ScanInv, ScansSerial, MetafileCurrent, InConstructor
<1> QED
  BY <1>1, StepKinds, LoadCurrent, TruncateCurrent, WriteLineCurrent, OtherCurrent

\* A scan that follows the last one keeps the time of what did not change.
LEMMA NextKeepsTime ==
    ASSUME Concurrent = FALSE, TypeOK, ScanInv, [Next]_vars,
           NEW r \in Replicas, NEW f \in DOMAIN known[r] \cap DOMAIN known'[r],
           known'[r][f].hash = known[r][f].hash
    PROVE  known'[r][f].time = known[r][f].time
<1>1. CASE known'[r] = known[r]
  BY <1>1
<1>2. ASSUME NEW t \in Threads, NEW p \in Replicas, Load(t, p), r = t[1]
      PROVE  known'[r][f].time = known[r][f].time
  <2>1. PICK time \in 0..MaxTime : known' = [known EXCEPT ![r] = Scanned(r, disk[r], time)]
    BY <1>2, LoadCurrent
  <2>2. known'[r] = Scanned(r, disk[r], time) /\ disk[r] \in Metafiles
    BY <2>1 DEF TypeOK
  <2>3. disk[r] = known[r]
    BY <1>2, LoadCurrent
  <2>4. /\ f \in Present(r) /\ f \in DOMAIN disk[r]
        /\ known'[r][f].hash = folder[r][f]
        /\ disk[r][f].hash = folder[r][f] => known'[r][f] = disk[r][f]
    <3> DEFINE m == Scanned(r, disk[r], time)
    <3>1. /\ DOMAIN m = Present(r)
          /\ \A g \in Present(r) :
                /\ m[g].hash = folder[r][g]
                /\ g \in DOMAIN disk[r] /\ disk[r][g].hash = folder[r][g] =>
                      m[g] = disk[r][g]
      BY <2>2, ScannedFacts
    <3>2. known'[r] = m
      BY <2>2
    <3> HIDE DEF m
    <3> QED BY <2>3, <3>1, <3>2
  <2> QED BY <2>3, <2>4
<1>3. ASSUME NEW t \in Threads, NEW p \in Replicas, Load(t, p), r # t[1]
      PROVE  known'[r] = known[r]
  BY <1>3, LoadCurrent DEF TypeOK
<1>4. ASSUME ~ \E t \in Threads, p \in Replicas : Load(t, p)
      PROVE  known'[r] = known[r]
  <2>1. known' = known
    BY <1>4, StepKinds, OtherCurrent DEF Truncate, WriteLine, vars
  <2> QED BY <2>1
<1> QED BY <1>1, <1>2, <1>3, <1>4

\* When the scans of a replica do not overlap, the metafile at rest is that of the
\* last scan, and one being written holds the lines written so far.
THEOREM MetafileStaysCurrent ==
    ASSUME Concurrent = FALSE
    PROVE  Spec => []MetafileCurrent
<1>1. TypeOK /\ ScanInv /\ [Next]_vars => ScanInv'
  BY NextCurrent
<1>2. ScanInv => MetafileCurrent
  BY DEF ScanInv
<1> QED BY <1>1, <1>2, InitCurrent, TypeCorrect, PTL DEF Spec

\* Under the same condition a file that is the same in two scans keeps its time
\* stamp.
THEOREM TimeIsKept ==
    ASSUME Concurrent = FALSE
    PROVE  Spec => UnchangedKeepsTime
<1> DEFINE Keeps ==
      \A r \in Replicas : \A f \in DOMAIN known[r] \cap DOMAIN known'[r] :
         known'[r][f].hash = known[r][f].hash => known'[r][f].time = known[r][f].time
<1>1. TypeOK /\ ScanInv /\ [Next]_vars => ScanInv'
  BY NextCurrent
<1>2. TypeOK /\ ScanInv /\ [Next]_vars => [Keeps]_vars
  BY NextKeepsTime
<1>3. UnchangedKeepsTime <=> [][Keeps]_vars
  BY DEF UnchangedKeepsTime
<1> HIDE DEF Keeps
<1> QED BY <1>1, <1>2, <1>3, InitCurrent, TypeCorrect, PTL DEF Spec

(***************************************************************************)
(* One of two versions is newer                                            *)
(***************************************************************************)

\* The entries for file f in the metafiles and in the lists of the threads.
Entries(f) ==
    {disk[r][f] : r \in {p \in Replicas : f \in DOMAIN disk[p]}}
    \cup {thr[t].mem[f] : t \in {u \in Threads : f \in DOMAIN thr[u].mem}}

\* A time stamp belongs to one version of a file, and the clock is not behind it.
StampsTellApart ==
    \A f \in Files : \A a, b \in Entries(f) :
       a.time <= now /\ (a.time = b.time => a.hash = b.hash)

LEMMA EntriesNext ==
    ASSUME NEW f, NEW X,
           \A r \in Replicas : f \in DOMAIN disk'[r] => disk'[r][f] \in X,
           \A t \in Threads : f \in DOMAIN thr'[t].mem => thr'[t].mem[f] \in X
    PROVE  Entries(f)' \subseteq X
BY DEF Entries

LEMMA EntryTypes ==
    ASSUME TypeOK
    PROVE  \A f \in Files : Entries(f) \subseteq Entry
<1> SUFFICES ASSUME NEW f \in Files PROVE Entries(f) \subseteq Entry
  OBVIOUS
<1>1. \A r \in Replicas : f \in DOMAIN disk[r] => disk[r][f] \in Entry
  BY MetafileFacts DEF TypeOK
<1>2. \A t \in Threads : f \in DOMAIN thr[t].mem => thr[t].mem[f] \in Entry
  BY MetafileFacts DEF TypeOK, ThreadStates
<1> QED BY <1>1, <1>2 DEF Entries

\* A step that makes no new entry.
LEMMA NothingNew ==
    ASSUME StampsTellApart, now' = now,
           \A r \in Replicas : \A f \in DOMAIN disk'[r] : disk'[r][f] \in Entries(f),
           \A t \in Threads : \A f \in DOMAIN thr'[t].mem : thr'[t].mem[f] \in Entries(f)
    PROVE  StampsTellApart'
<1>1. \A f \in Files : Entries(f)' \subseteq Entries(f)
  BY EntriesNext
<1> QED BY <1>1 DEF StampsTellApart

LEMMA Listed ==
    /\ \A r \in Replicas : \A f \in DOMAIN disk[r] : disk[r][f] \in Entries(f)
    /\ \A t \in Threads : \A f \in DOMAIN thr[t].mem : thr[t].mem[f] \in Entries(f)
BY DEF Entries

\* Only a scan makes new entries, and all of them have the time of the scan, which
\* is later than that of any entry so far.
LEMMA LoadStamps ==
    ASSUME Coarse = FALSE, TypeOK, StampsTellApart, NEW t \in Threads, NEW p \in Replicas, Load(t, p)
    PROVE  StampsTellApart'
<1> DEFINE r == t[1]
<1>1. r \in Replicas
  BY ThreadReplica
<1>2. PICK time \in ScanTimes(r) :
         /\ now' = time
         /\ thr' = [thr EXCEPT ![t].pc = "truncate", ![t].peer = p,
                               ![t].mem = Scanned(r, disk[r], time)]
         /\ disk' = disk
  BY DEF Load
<1> DEFINE m == Scanned(r, disk[r], time)
           new(f) == [hash |-> folder[r][f], time |-> time]
<1>3. time \in 0..MaxTime /\ now \in 0..MaxTime
  BY <1>1, <1>2, ScanTimesType DEF TypeOK
<1>4. /\ thr'[t].mem = m
      /\ \A u \in Threads : u # t => thr'[u] = thr[u]
  BY <1>2 DEF TypeOK, ThreadStates
<1>5. \A f \in DOMAIN m : f \in Present(r) /\ f \in Files
                          /\ m[f] = IF Unchanged(r, disk[r], f) THEN disk[r][f] ELSE new(f)
  BY DEF Scanned, Present
<1>6. now <= time /\ ((\E f \in DOMAIN m : ~Unchanged(r, disk[r], f)) => now < time)
  <2>1. CASE \A f \in Present(r) : Unchanged(r, disk[r], f)
    <3>1. ScanTimes(r) = {now}
      BY <2>1 DEF ScanTimes
    <3>2. ~ \E f \in DOMAIN m : ~Unchanged(r, disk[r], f)
      BY <1>5, <2>1
    <3> QED BY <1>2, <1>3, <3>1, <3>2
  <2>2. CASE ~ \A f \in Present(r) : Unchanged(r, disk[r], f)
    <3>1. ScanTimes(r) = {s \in {now, now + 1} : s <= MaxTime /\ (Coarse \/ s > now)}
      BY <2>2 DEF ScanTimes
    <3> HIDE DEF m, r
    <3> QED BY <1>2, <1>3, <3>1
  <2> QED BY <2>1, <2>2
<1>7. \A f \in DOMAIN m : Unchanged(r, disk[r], f) => m[f] \in Entries(f)
  <2>1. \A f : Unchanged(r, disk[r], f) => f \in DOMAIN disk[r]
    BY DEF Unchanged
  <2> QED BY <1>1, <1>5, <2>1, Listed
<1> HIDE DEF m, r
<1>8. ASSUME NEW f \in Files, NEW a \in Entries(f)', NEW b \in Entries(f)'
      PROVE  a.time <= time /\ (a.time = b.time => a.hash = b.hash)
  <2> DEFINE X == Entries(f) \cup {e \in {new(f)} : now < time}
  <2>1. \A q \in Replicas : f \in DOMAIN disk'[q] => disk'[q][f] \in X
    BY <1>2, Listed
  <2>2. \A u \in Threads : f \in DOMAIN thr'[u].mem => thr'[u].mem[f] \in X
    <3> SUFFICES ASSUME NEW u \in Threads, f \in DOMAIN thr'[u].mem PROVE thr'[u].mem[f] \in X
      OBVIOUS
    <3>1. CASE u # t
      BY <1>4, <3>1, Listed
    <3>2. CASE u = t
      BY <1>4, <1>5, <1>6, <1>7, <3>2
    <3> QED BY <3>1, <3>2
  <2> HIDE DEF X
  <2>3. a \in X /\ b \in X
    BY <2>1, <2>2, EntriesNext
  <2>4. \A e \in X : \/ e \in Entries(f) /\ e.time \in 0..MaxTime /\ e.time <= now
                     \/ e = new(f) /\ e.time = time /\ now < time
    BY EntryTypes DEF X, Entry, StampsTellApart
  <2>5. CASE a \in Entries(f) /\ b \in Entries(f)
    BY <1>3, <1>6, <2>3, <2>4, <2>5 DEF StampsTellApart, X, Entry
  <2>6. CASE a \notin Entries(f) \/ b \notin Entries(f)
    BY <1>3, <1>6, <2>3, <2>4, <2>6
  <2> QED BY <2>5, <2>6
<1> QED BY <1>2, <1>8 DEF StampsTellApart

LEMMA WriteStamps ==
    ASSUME TypeOK, StampsTellApart, NEW t \in Threads, Truncate(t) \/ WriteLine(t)
    PROVE  StampsTellApart'
<1>1. t[1] \in Replicas /\ now' = now /\ thr[t].mem \in Metafiles
  BY ThreadReplica DEF Truncate, WriteLine, TypeOK, ThreadStates
<1>2. \A u \in Threads : thr'[u].mem = thr[u].mem
  <2>1. CASE Truncate(t)
    BY <2>1 DEF Truncate, TypeOK, ThreadStates
  <2>2. CASE WriteLine(t)
    <3>1. PICK f : thr' = [thr EXCEPT ![t].todo = @ \ {f}]
      BY <2>2 DEF WriteLine
    <3> QED BY <3>1 DEF TypeOK, ThreadStates
  <2> QED BY <2>1, <2>2
<1>3. CASE Truncate(t)
  <2>1. \A r \in Replicas : disk'[r] = IF r = t[1] THEN <<>> ELSE disk[r]
    BY <1>1, <1>3 DEF Truncate, TypeOK
  <2>2. \A r \in Replicas : \A f \in DOMAIN disk'[r] : disk'[r][f] \in Entries(f)
    BY <2>1, EmptyMetafile, Listed
  <2> QED BY <1>1, <1>2, <2>2, Listed, NothingNew
<1>4. CASE WriteLine(t)
  <2>1. PICK f \in thr[t].todo : disk' = [disk EXCEPT ![t[1]] = WithLine(@, f, thr[t].mem[f])]
    BY <1>4 DEF WriteLine
  <2>2. f \in DOMAIN thr[t].mem
    BY <2>1 DEF TypeOK
  <2>3. \A r \in Replicas : disk'[r] = IF r = t[1] THEN WithLine(disk[r], f, thr[t].mem[f])
                                                   ELSE disk[r]
    BY <1>1, <2>1 DEF TypeOK
  <2>4. ASSUME NEW g \in DOMAIN WithLine(disk[t[1]], f, thr[t].mem[f])
        PROVE  WithLine(disk[t[1]], f, thr[t].mem[f])[g] \in Entries(g)
    <3>1. CASE g = f
      BY <2>2, <2>4, <3>1, Listed DEF WithLine
    <3>2. CASE g # f
      BY <1>1, <2>4, <3>2, Listed DEF WithLine
    <3> QED BY <3>1, <3>2
  <2>5. \A r \in Replicas : \A g \in DOMAIN disk'[r] : disk'[r][g] \in Entries(g)
    BY <2>3, <2>4, Listed
  <2> QED BY <1>1, <1>2, <2>5, Listed, NothingNew
<1> QED BY <1>3, <1>4

\* No other step touches a list, but for forgetting it.
LEMMA OtherStamps ==
    ASSUME TypeOK, StampsTellApart,
           \/ \E r \in Replicas : \/ SendDescr(r) \/ SendGet(r) \/ EndSession(r)
                                  \/ Install(r) \/ Reject(r) \/ CutOff(r)
                                  \/ AnswerDescr(r) \/ AnswerGet(r) \/ RefuseGet(r)
           \/ \E r \in Replicas, f \in Files : Edit(r, f)
    PROVE  StampsTellApart'
<1> DEFINE Forgets(t) == thr'[t].mem = thr[t].mem \/ thr'[t].mem = <<>>
<1>1. UNCHANGED <<disk, now>>
  BY DEF SendDescr, SendGet, EndSession, Install, Reject, CutOff, AnswerDescr,
     AnswerGet, RefuseGet, Edit
<1>2. Idle.mem = <<>>
  BY DEF Idle
<1>3. ASSUME NEW r \in Replicas, SendDescr(r) \/ SendGet(r) \/ EndSession(r)
      PROVE  \A t \in Threads : Forgets(t)
  <2> DEFINE c == Client(r)
  <2>1. c \in Threads /\ \A t \in Threads : t # c => thr'[t] = thr[t]
    BY <1>3, ThreadNames DEF SendDescr, SendGet, EndSession, TypeOK
  <2>2. CASE SendDescr(r)
    BY <2>1, <2>2 DEF SendDescr, TypeOK, ThreadStates
  <2>3. CASE SendGet(r)
    <3>1. PICK f : thr' = [thr EXCEPT ![c].pc = "get", ![c].file = f]
      BY <2>3 DEF SendGet
    <3> QED BY <2>1, <3>1 DEF TypeOK, ThreadStates
  <2>4. CASE EndSession(r)
    BY <1>2, <2>1, <2>4 DEF EndSession, TypeOK
  <2> QED BY <1>3, <2>2, <2>3, <2>4
<1>4. ASSUME NEW r \in Replicas, Install(r) \/ Reject(r)
      PROVE  \A t \in Threads : Forgets(t)
  <2>1. PICK f : FileDone(r, f)
    BY <1>4 DEF Install, Reject
  <2>2. Client(r) \in Threads
    BY ThreadNames
  <2> QED BY <2>1, <2>2 DEF FileDone, TypeOK, ThreadStates
<1>5. ASSUME NEW r \in Replicas, CutOff(r)
      PROVE  \A t \in Threads : Forgets(t)
  <2> DEFINE p == thr[Client(r)].peer
  <2>1. thr' = [thr EXCEPT ![Client(r)] = Idle]
        \/ thr' = [thr EXCEPT ![Client(r)] = Idle, ![Server(p)] = Idle]
    BY <1>5 DEF CutOff
  <2> HIDE DEF p
  <2> QED BY <1>2, <2>1 DEF TypeOK
<1>6. ASSUME NEW p \in Replicas, AnswerDescr(p) \/ AnswerGet(p) \/ RefuseGet(p)
      PROVE  \A t \in Threads : Forgets(t)
  <2> DEFINE c == Client(thr[Server(p)].peer)
  <2>1. c \in Threads /\ Server(p) \in Threads /\ c # Server(p)
    BY <1>6, PeerNames, ThreadNames DEF AnswerDescr, AnswerGet, RefuseGet, Constructed
  <2>2. \A t \in Threads : t # c /\ t # Server(p) => thr'[t] = thr[t]
    BY <1>6, <2>1 DEF AnswerDescr, AnswerGet, RefuseGet, TypeOK
  <2>3. thr'[Server(p)] = Idle
    BY <1>6, <2>1 DEF AnswerDescr, AnswerGet, RefuseGet, TypeOK
  <2>4. thr[c] \in ThreadStates /\ DOMAIN thr = Threads
    BY <2>1 DEF TypeOK
  <2>5. ASSUME AnswerDescr(p) PROVE Forgets(c)
    <3>1. thr' = [thr EXCEPT ![c].pc = "fetch",
                             ![c].diff = Diff(thr[Server(p)].mem, thr[c].mem),
                             ![c].mem = <<>>, ![Server(p)] = Idle]
      BY <2>5 DEF AnswerDescr
    <3> HIDE DEF c
    <3> QED BY <2>1, <2>4, <3>1 DEF ThreadStates
  <2>6. ASSUME AnswerGet(p) PROVE Forgets(c)
    <3>1. thr' = [thr EXCEPT ![c].pc = "transfer", ![c].got = folder[p][thr[c].file],
                             ![Server(p)] = Idle]
      BY <2>6 DEF AnswerGet
    <3> HIDE DEF c
    <3> QED BY <2>1, <2>4, <3>1 DEF ThreadStates
  <2>7. ASSUME RefuseGet(p) PROVE Forgets(c)
    <3>1. thr' = [thr EXCEPT ![c].pc = "fetch", ![c].file = "none",
                             ![c].diff = Restrict(@, DOMAIN @ \ {thr[c].file}),
                             ![Server(p)] = Idle]
      BY <2>7 DEF RefuseGet
    <3> HIDE DEF c
    <3> QED BY <2>1, <2>4, <3>1 DEF ThreadStates
  <2> HIDE DEF c
  <2> QED BY <1>2, <1>6, <2>1, <2>2, <2>3, <2>5, <2>6, <2>7
<1>7. ASSUME NEW r \in Replicas, NEW f \in Files, Edit(r, f)
      PROVE  \A t \in Threads : Forgets(t)
  BY <1>7 DEF Edit
<1> HIDE DEF Forgets
<1>8. \A t \in Threads : Forgets(t)
  BY <1>3, <1>4, <1>5, <1>6, <1>7
<1>9. \A t \in Threads : \A f \in DOMAIN thr'[t].mem : thr'[t].mem[f] \in Entries(f)
  BY <1>8, EmptyMetafile, Listed DEF Forgets
<1> QED BY <1>1, <1>9, Listed, NothingNew

\* However scans overlap, if no two of them that find something new fall into the
\* same second, getDiff can tell which of two versions is the newer one.
THEOREM OneIsAlwaysNewer ==
    ASSUME Coarse = FALSE
    PROVE  Spec => []OneIsNewer
<1>1. Init => StampsTellApart
  <2> SUFFICES ASSUME Init, NEW f \in Files PROVE Entries(f) = {}
    BY DEF StampsTellApart
  <2>1. \A r \in Replicas : disk[r] = <<>>
    BY DEF Init
  <2>2. \A t \in Threads : thr[t].mem = <<>>
    BY DEF Init, Idle
  <2> QED BY <2>1, <2>2, EmptyMetafile DEF Entries
<1>2. TypeOK /\ StampsTellApart /\ [Next]_vars => StampsTellApart'
  <2>1. ASSUME UNCHANGED vars, StampsTellApart PROVE StampsTellApart'
    BY <2>1 DEF vars, StampsTellApart, Entries
  <2> QED BY <2>1, StepKinds, LoadStamps, WriteStamps, OtherStamps
<1>3. TypeOK /\ StampsTellApart => OneIsNewer
  <2> SUFFICES ASSUME TypeOK, StampsTellApart, NEW t \in Threads, NEW u \in Threads,
                      NEW f \in DOMAIN thr[t].mem \cap DOMAIN thr[u].mem,
                      thr[t].mem[f].hash # thr[u].mem[f].hash
               PROVE  Newer(thr[t].mem[f], thr[u].mem[f]) \/ Newer(thr[u].mem[f], thr[t].mem[f])
    BY DEF OneIsNewer
  <2> DEFINE a == thr[t].mem[f]
             b == thr[u].mem[f]
  <2>1. f \in Files /\ a \in Entry /\ b \in Entry
    BY MetafileFacts DEF TypeOK, ThreadStates
  <2>2. a \in Entries(f) /\ b \in Entries(f)
    BY Listed
  <2> HIDE DEF a, b
  <2>3. a.time # b.time \/ a.hash = b.hash
    BY <2>1, <2>2 DEF StampsTellApart
  <2>4. a.hash # b.hash => Newer(a, b) \/ Newer(b, a)
    BY <2>1, <2>3 DEF Newer, Entry
  <2> QED BY <2>4 DEF a, b
<1> QED BY <1>1, <1>2, <1>3, TypeCorrect, PTL DEF Spec

=============================================================================
