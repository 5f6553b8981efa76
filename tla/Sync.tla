-------------------------------- MODULE Sync --------------------------------
(***************************************************************************)
(* Synchronised folders and their metafiles: the scan of a folder          *)
(* (MetaFile's constructor: read, updateAll, write), the comparison of two *)
(* metafiles (getDiff), and the download of the files the peer has newer.  *)
(*                                                                         *)
(* Every replica runs a client and a server thread.  Both construct a      *)
(* MetaFile of the same file on disk whenever they need one (the client    *)
(* for DESCR, the server for DESCR and for GET), with no lock between them. *)
(*                                                                         *)
(* The contents of files are numbered in the order in which users wrote    *)
(* them, so the greater version is the newer one, and 0 is no file.  The   *)
(* number is also the MD5 of the contents.  Sessions, windows and losses   *)
(* are the subject of Sessions and FileTransfer: here an exchange either   *)
(* succeeds or ends the session.                                           *)
(***************************************************************************)
EXTENDS Integers, Functions

CONSTANTS
    Replicas,        \* hosts
    PermanentHosts,  \* PermanentHosts[r]: the hosts of r's command line
    Files,           \* names of files
    MaxEdits,        \* bound on what users write and delete
    MaxTime,         \* bound on the clock
    MaxFaults,       \* bound on sessions that are cut off
    Concurrent,      \* TRUE: the threads of a replica may scan at the same time
    Coarse           \* TRUE: two scans may fall into the same second

ASSUME BoundsAssumption == MaxEdits \in Nat /\ MaxTime \in Nat /\ MaxFaults \in Nat
ASSUME HostsAssumption == PermanentHosts \in [Replicas -> SUBSET Replicas]
ASSUME ConcurrentAssumption == Concurrent \in BOOLEAN
ASSUME CoarseAssumption == Coarse \in BOOLEAN

VARIABLES
    folder,     \* the synchronised folder of each replica: a version per file
    disk,       \* its metafile: the lines of .sync.cft, one entry per file
    known,      \* history: what the last scan of each replica found
    temporary,  \* the hosts that each replica has added to its list
    thr,        \* the threads
    now,        \* time of the last scan that set a time stamp
    edits,      \* versions written by users so far
    faults      \* sessions cut off so far

vars == <<folder, disk, known, temporary, thr, now, edits, faults>>

Client(r) == <<r, "client">>
Server(r) == <<r, "server">>
Threads   == Replicas \X {"client", "server"}

Versions == 0..MaxEdits
Entry == [hash : Versions, time : 0..MaxTime]
Metafiles == UNION {[S -> Entry] : S \in SUBSET Files}

\* pc: "idle"; "truncate", "write": in the constructor of MetaFile, with "todo"
\* the lines yet to write; of a client also "descr", "get": waits for the
\* reply, "fetch": between two files of the DIFF, "transfer": receives "file".
Steps == {"idle", "truncate", "write", "descr", "fetch", "get", "transfer"}

ThreadStates ==
    [pc : Steps, peer : Replicas \cup {"none"}, mem : Metafiles, todo : SUBSET Files,
     diff : Metafiles, file : Files \cup {"none"}, got : Versions]

TypeOK ==
    /\ folder \in [Replicas -> [Files -> Versions]]
    /\ disk \in [Replicas -> Metafiles] /\ known \in [Replicas -> Metafiles]
    /\ temporary \in [Replicas -> SUBSET Replicas]
    /\ thr \in [Threads -> ThreadStates]
    /\ \A t \in Threads :
          /\ thr[t].todo \subseteq DOMAIN thr[t].mem
          /\ thr[t].pc # "write" => thr[t].todo = {}
          /\ thr[t].pc \in {"get", "transfer"} => thr[t].file \in DOMAIN thr[t].diff
          /\ thr[t].pc # "idle" => thr[t].peer \in Replicas \ {t[1]}
    /\ now \in 0..MaxTime /\ edits \in 0..MaxEdits /\ faults \in 0..MaxFaults

Idle == [pc |-> "idle", peer |-> "none", mem |-> <<>>, todo |-> {},
         diff |-> <<>>, file |-> "none", got |-> 0]

Init ==
    /\ folder = [r \in Replicas |-> [f \in Files |-> 0]]
    /\ disk = [r \in Replicas |-> <<>>] /\ known = disk
    /\ temporary = [r \in Replicas |-> {}]
    /\ thr = [t \in Threads |-> Idle]
    /\ now = 0 /\ edits = 0 /\ faults = 0

-----------------------------------------------------------------------------
(* Users *)

\* A user writes or deletes a file.
Edit(r, f) ==
    /\ edits < MaxEdits /\ edits' = edits + 1
    /\ \E v \in {edits + 1, 0} : folder' = [folder EXCEPT ![r][f] = v]
    /\ UNCHANGED <<disk, known, temporary, thr, now, faults>>

-----------------------------------------------------------------------------
(* Metafile *)

Present(r) == {f \in Files : folder[r][f] # 0}

\* Mutant: entries are matched by name only.
UnchangedByName(r, old, f) == f \in DOMAIN old

\* The stored entry "old" of file f, if there is one, is that of its contents.
Unchanged(r, old, f) == f \in DOMAIN old /\ old[f].hash = folder[r][f]

\* Mutant: every file gets the time of the scan.
ScannedAnew(r, old, time) == [f \in Present(r) |-> [hash |-> folder[r][f], time |-> time]]

\* updateAll: files that are gone are dropped, and a new or modified file gets
\* the time of the scan.
Scanned(r, old, time) ==
    [f \in Present(r) |-> IF Unchanged(r, old, f) THEN old[f]
                          ELSE [hash |-> folder[r][f], time |-> time]]

\* The clock: time(NULL) counts in seconds.
ScanTimes(r) ==
    IF \A f \in Present(r) : Unchanged(r, disk[r], f) THEN {now}
    ELSE {time \in {now, now + 1} : time <= MaxTime /\ (Coarse \/ time > now)}

InConstructor(t) == thr[t].pc \in {"truncate", "write"}

\* Thread t, working for or with "peer", reads the metafile and scans the folder.
Load(t, peer) ==
    LET r == t[1]
    IN  /\ Concurrent \/ \A u \in Threads : u[1] = r => ~InConstructor(u)
        /\ \E time \in ScanTimes(r) :
              /\ now' = time
              /\ known' = [known EXCEPT ![r] = Scanned(r, disk[r], time)]
              /\ thr' = [thr EXCEPT ![t].pc = "truncate", ![t].peer = peer,
                                    ![t].mem = Scanned(r, disk[r], time)]
        /\ UNCHANGED <<folder, disk, temporary, edits, faults>>

\* Mutant: lines are written for all files, also those that are gone.
TruncateAllLines(t) ==
    /\ thr[t].pc = "truncate"
    /\ disk' = [disk EXCEPT ![t[1]] = <<>>]
    /\ thr' = [thr EXCEPT ![t].pc = "write", ![t].todo = Files]
    /\ UNCHANGED <<folder, known, temporary, now, edits, faults>>

\* Mutant: the metafile is opened without fstream::trunc.
OpenOnly(t) ==
    /\ thr[t].pc = "truncate"
    /\ thr' = [thr EXCEPT ![t].pc = "write", ![t].todo = DOMAIN thr[t].mem]
    /\ UNCHANGED <<folder, disk, known, temporary, now, edits, faults>>

\* write: the metafile is opened with fstream::trunc ...
Truncate(t) ==
    /\ thr[t].pc = "truncate"
    /\ disk' = [disk EXCEPT ![t[1]] = <<>>]
    /\ thr' = [thr EXCEPT ![t].pc = "write", ![t].todo = DOMAIN thr[t].mem]
    /\ UNCHANGED <<folder, known, temporary, now, edits, faults>>

\* Metafile m with a line for file f.
WithLine(m, f, entry) ==
    [g \in DOMAIN m \cup {f} |-> IF g = f THEN entry ELSE m[g]]

\* ... and written line by line.
WriteLine(t) ==
    /\ thr[t].pc = "write"
    /\ \E f \in thr[t].todo :
          /\ disk' = [disk EXCEPT ![t[1]] = WithLine(@, f, thr[t].mem[f])]
          /\ thr' = [thr EXCEPT ![t].todo = @ \ {f}]
    /\ UNCHANGED <<folder, known, temporary, now, edits, faults>>

Constructed(t) == thr[t].pc = "write" /\ thr[t].todo = {}

\* Element::compare: the contents differ and this entry has the later time.
Newer(e, other) == e.hash # other.hash /\ e.time > other.time

\* getDiff: the entries of "own" that "other" does not have, or has older.
Diff(own, other) ==
    Restrict(own, {f \in DOMAIN own : f \in DOMAIN other => Newer(own[f], other[f])})

-----------------------------------------------------------------------------
(* Client *)

\* The refresh loop starts a session with host p.
StartSession(r, p) ==
    /\ r # p /\ p \in PermanentHosts[r] \cup temporary[r]
    /\ thr[Client(r)].pc = "idle"
    /\ Load(Client(r), p)

SendDescr(r) ==
    /\ Constructed(Client(r))
    /\ thr' = [thr EXCEPT ![Client(r)].pc = "descr"]
    /\ UNCHANGED <<folder, disk, known, temporary, now, edits, faults>>

\* The next file of the DIFF is requested.
SendGet(r) ==
    /\ thr[Client(r)].pc = "fetch"
    /\ \E f \in DOMAIN thr[Client(r)].diff :
          thr' = [thr EXCEPT ![Client(r)].pc = "get", ![Client(r)].file = f]
    /\ UNCHANGED <<folder, disk, known, temporary, now, edits, faults>>

\* A temporary host is removed after the session with it, whatever came of it.
Removed(r) == [temporary EXCEPT ![r] = @ \ {thr[Client(r)].peer}]

EndSession(r) ==
    /\ thr[Client(r)].pc = "fetch" /\ thr[Client(r)].diff = <<>>
    /\ thr' = [thr EXCEPT ![Client(r)] = Idle]
    /\ temporary' = Removed(r)
    /\ UNCHANGED <<folder, disk, known, now, edits, faults>>

\* File f of the DIFF is done with, one way or another.
FileDone(r, f) ==
    thr' = [thr EXCEPT ![Client(r)].pc = "fetch", ![Client(r)].got = 0,
                       ![Client(r)].file = "none",
                       ![Client(r)].diff = Restrict(@, DOMAIN @ \ {f})]

\* The download is complete and has the MD5 of the DIFF: it is renamed to its
\* final name, whatever the folder holds under that name by now.
Install(r) ==
    LET c == thr[Client(r)]
    IN  /\ c.pc = "transfer" /\ c.got = c.diff[c.file].hash
        /\ folder' = [folder EXCEPT ![r][c.file] = c.got]
        /\ FileDone(r, c.file)
        /\ UNCHANGED <<disk, known, temporary, now, edits, faults>>

\* The MD5 is another: the peer's file was modified since the DIFF, or while it
\* was being read.
Reject(r) ==
    LET c == thr[Client(r)]
    IN  /\ c.pc = "transfer"
        /\ c.got # c.diff[c.file].hash \/ folder[c.peer][c.file] # c.got
        /\ FileDone(r, c.file)
        /\ UNCHANGED <<folder, disk, known, temporary, now, edits, faults>>

-----------------------------------------------------------------------------
(* Server *)

\* Replica p takes up the DESCR or GET of replica r's client.
TakeRequest(p, r) ==
    /\ thr[Server(p)].pc = "idle"
    /\ thr[Client(r)].pc \in {"descr", "get"} /\ thr[Client(r)].peer = p
    /\ Load(Server(p), r)

\* Mutant: the lists are compared the wrong way round.
AnnouncedSwapped(hosts, p, r) ==
    IF r \notin PermanentHosts[p] /\ Diff(thr[Server(p)].mem, thr[Client(r)].mem) # <<>>
    THEN [hosts EXCEPT ![p] = @ \cup {r}] ELSE hosts

\* descrHandler: if client r has something newer than the server of p has, p
\* adds r to its hosts.
Announced(hosts, p, r) ==
    IF r \notin PermanentHosts[p] /\ Diff(thr[Client(r)].mem, thr[Server(p)].mem) # <<>>
    THEN [hosts EXCEPT ![p] = @ \cup {r}] ELSE hosts

\* descrHandler: DIFF has what the server has newer than the client's DESCR says.
AnswerDescr(p) ==
    LET s == thr[Server(p)]
        c == Client(s.peer)
    IN  /\ Constructed(Server(p)) /\ thr[c].pc = "descr"
        /\ thr' = [thr EXCEPT ![c].pc = "fetch", ![c].diff = Diff(s.mem, thr[c].mem),
                              ![c].mem = <<>>, ![Server(p)] = Idle]
        /\ temporary' = Announced(temporary, p, s.peer)
        /\ UNCHANGED <<folder, disk, known, now, edits, faults>>

\* getHandler: the file is in the metafile and can be opened.
AnswerGet(p) ==
    LET s == thr[Server(p)]
        c == Client(s.peer)
        f == thr[c].file
    IN  /\ Constructed(Server(p)) /\ thr[c].pc = "get"
        /\ f \in DOMAIN s.mem /\ folder[p][f] # 0
        /\ thr' = [thr EXCEPT ![c].pc = "transfer", ![c].got = folder[p][f],
                              ![Server(p)] = Idle]
        /\ UNCHANGED <<folder, disk, known, temporary, now, edits, faults>>

\* getHandler: the file is gone, and the client goes on with the next one.
RefuseGet(p) ==
    LET s == thr[Server(p)]
        c == Client(s.peer)
        f == thr[c].file
    IN  /\ Constructed(Server(p)) /\ thr[c].pc = "get"
        /\ f \notin DOMAIN s.mem \/ folder[p][f] = 0
        /\ thr' = [thr EXCEPT ![c].pc = "fetch", ![c].file = "none",
                              ![c].diff = Restrict(@, DOMAIN @ \ {f}),
                              ![Server(p)] = Idle]
        /\ UNCHANGED <<folder, disk, known, temporary, now, edits, faults>>

\* The session is cut off: a request, its answer or the download got lost.
CutOff(r) ==
    LET p == thr[Client(r)].peer
        c == thr[Client(r)]
        s == thr[Server(p)]
    IN  /\ faults < MaxFaults /\ faults' = faults + 1
        /\ \/ /\ c.pc \in {"descr", "get", "transfer"} /\ (s.pc # "idle" => s.peer # r)
              /\ thr' = [thr EXCEPT ![Client(r)] = Idle]
              /\ temporary' = Removed(r)
           \/ /\ c.pc \in {"descr", "get"} /\ Constructed(Server(p)) /\ s.peer = r
              /\ thr' = [thr EXCEPT ![Client(r)] = Idle, ![Server(p)] = Idle]
              /\ temporary' = IF c.pc = "descr" THEN Announced(Removed(r), p, r) ELSE Removed(r)
        /\ UNCHANGED <<folder, disk, known, now, edits>>

-----------------------------------------------------------------------------
Write(t) == Truncate(t) \/ WriteLine(t)

ClientStep(r) ==
    \/ Write(Client(r)) \/ SendDescr(r) \/ SendGet(r) \/ EndSession(r)
    \/ Install(r) \/ Reject(r)

ServerStep(p) ==
    Write(Server(p)) \/ AnswerDescr(p) \/ AnswerGet(p) \/ RefuseGet(p)

Next ==
    \/ \E r \in Replicas, f \in Files : Edit(r, f)
    \/ \E r \in Replicas : ClientStep(r) \/ ServerStep(r) \/ CutOff(r)
    \/ \E p, r \in Replicas : StartSession(r, p) \/ TakeRequest(p, r)

Spec == Init /\ [][Next]_vars

\* Threads run; the refresh loop comes to every host again and again, and every
\* request is taken up, though the other thread of the replica may be scanning
\* at the moment.
Fairness ==
    /\ \A r \in Replicas : WF_vars(ClientStep(r)) /\ WF_vars(ServerStep(r))
    /\ \A p, r \in Replicas : SF_vars(StartSession(r, p)) /\ SF_vars(TakeRequest(p, r))

FairSpec == Spec /\ Fairness

-----------------------------------------------------------------------------
(* Properties *)

\* A metafile that nobody is writing is that of the last scan, and one that is
\* being written has the lines written so far.
MetafileCurrent ==
    \A r \in Replicas :
       /\ (\A t \in Threads : t[1] = r => ~InConstructor(t)) => disk[r] = known[r]
       /\ \A t \in Threads : t[1] = r /\ InConstructor(t) => thr[t].mem = known[r]
       /\ \A t \in Threads : t[1] = r /\ thr[t].pc = "write" =>
             disk[r] = Restrict(thr[t].mem, DOMAIN thr[t].mem \ thr[t].todo)

\* A file that is the same in two scans of a replica keeps its time stamp,
\* whichever threads made the scans.
UnchangedKeepsTime ==
    [][\A r \in Replicas : \A f \in DOMAIN known[r] \cap DOMAIN known'[r] :
          known'[r][f].hash = known[r][f].hash => known'[r][f].time = known[r][f].time]_vars

\* Whichever two lists getDiff is given, one of two versions of a file is the newer
\* one: no file is left different because neither replica's version wins.
OneIsNewer ==
    \A t, u \in Threads : \A f \in DOMAIN thr[t].mem \cap DOMAIN thr[u].mem :
       LET a == thr[t].mem[f]
           b == thr[u].mem[f]
       IN  a.hash # b.hash => Newer(a, b) \/ Newer(b, a)

\* All folders have the same contents, and so has every list in use.
Lists(r, m) == \A f \in DOMAIN m : m[f].hash = folder[r][f]

Settled ==
    /\ \A p, r \in Replicas : folder[p] = folder[r]
    /\ \A t \in Threads :
          /\ InConstructor(t) \/ thr[t].pc = "descr" =>
                Lists(t[1], thr[t].mem) /\ DOMAIN thr[t].mem = Present(t[1])
          /\ Lists(t[1], thr[t].diff)

\* Once the replicas agree nothing moves until a user does.
SettledStable == [][Settled /\ edits' = edits => Settled' /\ folder' = folder]_vars

\* When the users leave them alone the replicas come to agree, for good.
Converges == <>[](\A p, r \in Replicas : folder[p] = folder[r])

=============================================================================
