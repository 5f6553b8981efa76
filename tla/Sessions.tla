------------------------------ MODULE Sessions ------------------------------
(***************************************************************************)
(* Sessions between several clients and one server: the HELLO handshake of *)
(* protocol versions 1 and 2 (Client::handshakeHandlerV1/V2 against        *)
(* Server::handshakeHandlerV1/V2), the server's table of sessions and of   *)
(* pending clients, and the exchanges of an established session (DESCR,    *)
(* GET, FILE, QUIT) with the slot they are dispatched to.                  *)
(*                                                                         *)
(* A client has one socket for all its sessions and exchanges, and never   *)
(* empties it: what is left over from one exchange is read by the next.    *)
(* So each direction is a FIFO queue per client, that may also lose a      *)
(* datagram or deliver it a second time behind the others.                 *)
(*                                                                         *)
(* Every session downloads one file of one chunk and one packet; the       *)
(* windows and packets of a download are the subject of FileTransfer.      *)
(* Nonces are numbers; the hash of a nonce with the shared secret is       *)
(* <<"hash", nonce>>, a session key is the pair of the two nonces, and the *)
(* MAC of a message is represented by the key it was computed with.        *)
(***************************************************************************)
EXTENDS Integers, Sequences, FiniteSets, SequencesExt

CONSTANTS
    Clients,     \* clients, each with its own address
    Slots,       \* SERVER_SESSION_HANDLERS
    Versions,    \* protocol versions in use, a subset of {1, 2}
    Retries,     \* CLIENT_CHUNK_RETRIES
    MaxFaults,   \* bound on lost, duplicated and late datagrams
    Surplus      \* TRUE: datagrams may be duplicated or late, FALSE: only lost

ASSUME ClientsAssumption == IsFiniteSet(Clients)
ASSUME SlotsAssumption == Slots \in Nat \ {0}
ASSUME VersionsAssumption == Versions \subseteq {1, 2}
ASSUME RetriesAssumption == Retries \in Nat
ASSUME MaxFaultsAssumption == MaxFaults \in Nat
ASSUME SurplusAssumption == Surplus \in BOOLEAN

VARIABLES
    sver, ver,     \* protocol version of the server, and of each client
    sessions,      \* _sessionHandlers: a function on the slots in use
    idle,          \* slots whose session has been idle for SESSION_TIMEOUT
    offered,       \* V1: the static clientID of handshakeHandlerV1
    pending,       \* V2: _pendingClients, the nonces of each client in it
    cl,            \* state of each client thread
    toServer, toClient,  \* datagrams in flight, per client
    held,          \* copies of datagrams that the network has yet to deliver
    faults         \* lost, duplicated and late datagrams so far

serverVars == <<sver, sessions, idle, offered, pending>>
vars == <<serverVars, ver, cl, toServer, toClient, held, faults>>

Ids == 0..(Slots - 1)

NoNonce == 0
NoKey   == <<NoNonce, NoNonce>>
NoBody  == <<"none", NoNonce>>
Nonce(n) == <<"nonce", n>>
Hash(n)  == <<"hash", n>>

\* A message: its type, HELLO flag, client id, chunk, payload and MAC key.
Msg(type, hello, id, chunk, body, key) ==
    [type |-> type, hello |-> hello, id |-> id, chunk |-> chunk,
     body |-> body, key |-> key]

NoMsg == Msg("none", FALSE, 0, 0, NoBody, NoKey)

Types == {"none", "HELLO", "ACK", "NACK", "DESCR", "DIFF", "GET", "FILE", "QUIT"}
Keys == Nat \X Nat
Bodies == {"none", "nonce", "hash"} \X Nat
Messages == [type : Types, hello : BOOLEAN, id : Ids, chunk : {0, 1},
             body : Bodies, key : Keys]

InSession == {"descr", "get", "file", "quit"}
ClientStates == {"rest", "hello", "hash"} \cup InSession

\* state: what the thread waits for ("rest": the sleep of the refresh loop or
\* the back-off before the next HELLO); msg: the Message object of fileTransfer.
ClientRecord ==
    [state : ClientStates, tries : 0..(Retries + 1), id : Ids, cNonce : Nat,
     sNonce : Nat, key : Keys, msg : Messages, synced : BOOLEAN]

TypeOK ==
    /\ sver \in Versions /\ ver \in [Clients -> Versions]
    /\ DOMAIN sessions \subseteq Ids
    /\ \A i \in DOMAIN sessions :
          sessions[i] \in [addr : Clients, key : Keys, flow : BOOLEAN]
    /\ idle \subseteq DOMAIN sessions
    /\ offered \in Ids
    /\ DOMAIN pending \subseteq Clients
    /\ \A c \in DOMAIN pending : pending[c] \in [s : Nat, c : Nat]
    /\ cl \in [Clients -> ClientRecord]
    /\ toServer \in [Clients -> Seq(Messages)]
    /\ toClient \in [Clients -> Seq(Messages)]
    /\ held \subseteq [to : {"server", "client"}, c : Clients, m : Messages]
    /\ faults \in 0..MaxFaults

Resting == [state |-> "rest", tries |-> 0, id |-> 0, cNonce |-> NoNonce,
            sNonce |-> NoNonce, key |-> NoKey, msg |-> NoMsg, synced |-> FALSE]

Init ==
    /\ sver \in Versions /\ ver \in [Clients -> Versions]
    /\ sessions = <<>> /\ idle = {} /\ offered = 0 /\ pending = <<>>
    /\ cl = [c \in Clients |-> Resting]
    /\ toServer = [c \in Clients |-> <<>>]
    /\ toClient = [c \in Clients |-> <<>>]
    /\ held = {} /\ faults = 0

-----------------------------------------------------------------------------
(* Nonces *)

AllMessages ==
    {h.m : h \in held}
    \cup UNION {ToSet(toServer[c]) \cup ToSet(toClient[c]) : c \in Clients}

\* Every nonce that some message, session, pending client or client refers to.
UsedNonces ==
    LET keys == {m.key : m \in AllMessages} \cup {cl[c].key : c \in Clients}
                \cup {cl[c].msg.key : c \in Clients}
                \cup {sessions[i].key : i \in DOMAIN sessions}
    IN  {m.body[2] : m \in AllMessages}
        \cup {k[1] : k \in keys} \cup {k[2] : k \in keys}
        \cup {cl[c].cNonce : c \in Clients} \cup {cl[c].sNonce : c \in Clients}
        \cup {pending[c].s : c \in DOMAIN pending}
        \cup {pending[c].c : c \in DOMAIN pending}

\* Utilities::randomBytes(16) never repeats a nonce in use.  Nonces are only
\* compared for equality, so it does not matter which unused one is taken.
FreshNonce == CHOOSE n \in 1..(Cardinality(UsedNonces) + 1) : n \notin UsedNonces

-----------------------------------------------------------------------------
(* Network *)

SendToServer(c, msgs) == toServer' = [toServer EXCEPT ![c] = @ \o msgs]

\* A datagram is lost.
Lose(c) ==
    /\ faults < MaxFaults /\ faults' = faults + 1
    /\ \/ \E i \in 1..Len(toServer[c]) :
             /\ toServer' = [toServer EXCEPT ![c] = RemoveAt(@, i)]
             /\ UNCHANGED toClient
       \/ \E i \in 1..Len(toClient[c]) :
             /\ toClient' = [toClient EXCEPT ![c] = RemoveAt(@, i)]
             /\ UNCHANGED toServer
    /\ UNCHANGED <<serverVars, ver, cl, held>>

Copy(to, c, m) == [to |-> to, c |-> c, m |-> m]

\* The network makes a copy of a datagram ...
Duplicate(c) ==
    /\ Surplus /\ faults < MaxFaults /\ faults' = faults + 1
    /\ \/ \E m \in ToSet(toServer[c]) : held' = held \cup {Copy("server", c, m)}
       \/ \E m \in ToSet(toClient[c]) : held' = held \cup {Copy("client", c, m)}
    /\ UNCHANGED <<serverVars, ver, cl, toServer, toClient>>

\* ... and delivers it at any later time.
DeliverCopy(c) ==
    /\ \E h \in held :
          /\ h.c = c /\ held' = held \ {h}
          /\ IF h.to = "server"
             THEN SendToServer(c, <<h.m>>) /\ UNCHANGED toClient
             ELSE toClient' = [toClient EXCEPT ![c] = Append(@, h.m)] /\ UNCHANGED toServer
    /\ UNCHANGED <<serverVars, ver, cl, faults>>

\* Client c takes the next datagram out of its socket.
ReceiveAtClient(c) ==
    toClient[c] # <<>> /\ toClient' = [toClient EXCEPT ![c] = Tail(@)]

\* The server takes the next datagram of client c and replies to it.
Exchange(c, replies) ==
    /\ toServer[c] # <<>>
    /\ toServer' = [toServer EXCEPT ![c] = Tail(@)]
    /\ toClient' = [toClient EXCEPT ![c] = @ \o replies]

-----------------------------------------------------------------------------
(* Client: handshake *)

NewHello(c, n) == Msg("HELLO", TRUE, 0, 0, IF ver[c] = 2 THEN Nonce(n) ELSE NoBody, NoKey)
Descr(id, key) == Msg("DESCR", FALSE, id, 0, NoBody, key)

\* The refresh or the back-off is over: a new handshake begins.
SendHello(c) ==
    /\ cl[c].state = "rest"
    /\ LET n == IF ver[c] = 2 THEN FreshNonce ELSE NoNonce
       IN  /\ SendToServer(c, <<NewHello(c, n)>>)
           /\ cl' = [cl EXCEPT ![c] = [Resting EXCEPT !.state = "hello", !.cNonce = n]]
    /\ UNCHANGED <<serverVars, ver, toClient, faults, held>>

\* The handshake failed: sleep, then try again.
GiveUp(c) == cl' = [cl EXCEPT ![c] = Resting]

\* The reply to HELLO is not an ACK, or (V2) carries no nonce.
HelloRefused(c) ==
    /\ cl[c].state = "hello"
    /\ ReceiveAtClient(c)
    /\ LET m == Head(toClient[c])
       IN  m.type # "ACK" \/ (ver[c] = 2 /\ m.body = NoBody)
    /\ GiveUp(c)
    /\ UNCHANGED <<serverVars, ver, toServer, faults, held>>

\* V1: the first ACK of any kind ends the handshake; the client takes the id in
\* it, acknowledges, and at once sends DESCR.
HelloAckV1(c) ==
    /\ cl[c].state = "hello" /\ ver[c] = 1
    /\ ReceiveAtClient(c)
    /\ LET m == Head(toClient[c])
       IN  /\ m.type = "ACK"
           /\ SendToServer(c, <<[m EXCEPT !.hello = TRUE, !.body = NoBody],
                                Descr(m.id, NoKey)>>)
           /\ cl' = [cl EXCEPT ![c].state = "descr", ![c].id = m.id]
    /\ UNCHANGED <<serverVars, ver, faults, held>>

\* The first 16 bytes of a payload taken as a nonce: those of a hash are no
\* nonce of anybody.
AsNonce(body) == IF body[1] = "nonce" THEN body[2] ELSE NoNonce

\* V2: the payload is the server's nonce, and its hash is sent back.
HelloAckV2(c) ==
    /\ cl[c].state = "hello" /\ ver[c] = 2
    /\ ReceiveAtClient(c)
    /\ LET m == Head(toClient[c])
       IN  /\ m.type = "ACK" /\ m.body # NoBody
           /\ SendToServer(c, <<[m EXCEPT !.hello = TRUE, !.body = Hash(AsNonce(m.body))]>>)
           /\ cl' = [cl EXCEPT ![c].state = "hash", ![c].sNonce = AsNonce(m.body)]
    /\ UNCHANGED <<serverVars, ver, faults, held>>

\* V2: the reply to the hash is not the hash of the client's own nonce.
HashRefused(c) ==
    /\ cl[c].state = "hash"
    /\ ReceiveAtClient(c)
    /\ Head(toClient[c]).body # Hash(cl[c].cNonce)
    /\ GiveUp(c)
    /\ UNCHANGED <<serverVars, ver, toServer, faults, held>>

\* V2: the server knows the secret; the client derives the session key, and at
\* once sends DESCR with the id it was given.
HashAccepted(c) ==
    /\ cl[c].state = "hash"
    /\ ReceiveAtClient(c)
    /\ LET m == Head(toClient[c])
           k == <<cl[c].sNonce, cl[c].cNonce>>
       IN  /\ m.body = Hash(cl[c].cNonce)
           /\ SendToServer(c, <<Descr(m.id, k)>>)
           /\ cl' = [cl EXCEPT ![c].state = "descr", ![c].id = m.id, ![c].key = k]
    /\ UNCHANGED <<serverVars, ver, faults, held>>

-----------------------------------------------------------------------------
(* Client: session *)

\* Transceiver::recv checks the MAC of a V2 message without the HELLO flag.
MacAccepted(c, m) == ver[c] = 1 \/ m.hello \/ m.key = cl[c].key

\* GET and QUIT leave initHeader with client id 0.
Get(c)  == Msg("GET", FALSE, 0, 0, NoBody, cl[c].key)
Quit(c) == Msg("QUIT", FALSE, 0, 0, NoBody, cl[c].key)

\* Transceiver::send computes the MAC unless the message has the HELLO flag.
Signed(c, m) == IF m.hello THEN m ELSE [m EXCEPT !.key = cl[c].key]

\* The acknowledgement of chunk n is made from a message received before.
FileAck(c, m, n) == Signed(c, [m EXCEPT !.type = "ACK", !.chunk = n, !.body = NoBody])

\* DIFF: the one file is requested.
DiffReceived(c) ==
    /\ cl[c].state = "descr"
    /\ ReceiveAtClient(c)
    /\ LET m == Head(toClient[c]) IN MacAccepted(c, m) /\ m.type = "DIFF"
    /\ SendToServer(c, <<Get(c)>>)
    /\ cl' = [cl EXCEPT ![c].state = "get", ![c].msg = Get(c)]
    /\ UNCHANGED <<serverVars, ver, faults, held>>

\* Anything else instead of DIFF: the session is terminated.
DiffMissed(c) ==
    /\ cl[c].state = "descr"
    /\ ReceiveAtClient(c)
    /\ LET m == Head(toClient[c]) IN ~(MacAccepted(c, m) /\ m.type = "DIFF")
    /\ SendToServer(c, <<Quit(c)>>)
    /\ cl' = [cl EXCEPT ![c].state = "quit"]
    /\ UNCHANGED <<serverVars, ver, faults, held>>

\* The FILE message with the chunk completes the download, whether it is the
\* reply to GET or comes later: it is acknowledged, and the session terminated.
FileReceived(c) ==
    /\ cl[c].state \in {"get", "file"}
    /\ ReceiveAtClient(c)
    /\ LET m == Head(toClient[c])
       IN  /\ MacAccepted(c, m) /\ m.type = "FILE"
           /\ SendToServer(c, <<FileAck(c, m, 1), Quit(c)>>)
    /\ cl' = [cl EXCEPT ![c].state = "quit", ![c].synced = TRUE, ![c].msg = NoMsg]
    /\ UNCHANGED <<serverVars, ver, faults, held>>

\* NACK as the reply to GET: the file is skipped.
FileRefused(c) ==
    /\ cl[c].state = "get"
    /\ ReceiveAtClient(c)
    /\ LET m == Head(toClient[c]) IN MacAccepted(c, m) /\ m.type = "NACK"
    /\ SendToServer(c, <<Quit(c)>>)
    /\ cl' = [cl EXCEPT ![c].state = "quit", ![c].msg = NoMsg]
    /\ UNCHANGED <<serverVars, ver, faults, held>>

\* Any other message: the reception loop goes on, with a fresh retry counter.
OtherReceived(c) ==
    /\ cl[c].state \in {"get", "file"}
    /\ ReceiveAtClient(c)
    /\ LET m == Head(toClient[c])
       IN  /\ MacAccepted(c, m) /\ m.type # "FILE"
           /\ ~(cl[c].state = "get" /\ m.type = "NACK")
           /\ cl' = [cl EXCEPT ![c].state = "file", ![c].tries = 0, ![c].msg = m]
    /\ UNCHANGED <<serverVars, ver, toServer, faults, held>>

\* Mutant: the retries of GET are not counted.
RetryGetUncounted(c, m) ==
    /\ SendToServer(c, <<Signed(c, m)>>)
    /\ cl' = [cl EXCEPT ![c].msg = Signed(c, m)]

\* The GET loop sends its Message object again, which after a rejected datagram
\* is that datagram; the last retry is sent, but not waited for.
RetryGet(c, m) ==
    IF cl[c].tries < Retries
    THEN /\ SendToServer(c, <<Signed(c, m)>>)
         /\ cl' = [cl EXCEPT ![c].tries = @ + 1, ![c].msg = Signed(c, m)]
    ELSE /\ SendToServer(c, <<Signed(c, m), Quit(c)>>)
         /\ cl' = [cl EXCEPT ![c].state = "quit", ![c].tries = 0, ![c].msg = NoMsg]

\* recvTimeout acknowledges nothing (chunk 0); after the retries the session is
\* terminated.
RetryFile(c, m) ==
    IF cl[c].tries <= Retries
    THEN /\ SendToServer(c, <<FileAck(c, m, 0)>>)
         /\ cl' = [cl EXCEPT ![c].tries = @ + 1, ![c].msg = m]
    ELSE /\ SendToServer(c, <<Quit(c)>>)
         /\ cl' = [cl EXCEPT ![c].state = "quit", ![c].tries = 0, ![c].msg = NoMsg]

\* A datagram with a MAC of another session counts as a timeout.
MacRejected(c) ==
    /\ ReceiveAtClient(c)
    /\ LET m == Head(toClient[c])
       IN  /\ ~MacAccepted(c, m)
           /\ \/ cl[c].state = "get" /\ RetryGet(c, m)
              \/ cl[c].state = "file" /\ RetryFile(c, m)
    /\ UNCHANGED <<serverVars, ver, faults, held>>

\* One reply of any kind ends the session.
QuitAnswered(c) ==
    /\ cl[c].state = "quit"
    /\ ReceiveAtClient(c)
    /\ cl' = [cl EXCEPT ![c] = [Resting EXCEPT !.synced = cl[c].synced]]
    /\ UNCHANGED <<serverVars, ver, toServer, faults, held>>

\* A receive times out: nothing is under way between the client and the server,
\* or the answer is late.
TimeOut(c) ==
    \/ toServer[c] = <<>> /\ toClient[c] = <<>> /\ UNCHANGED faults
    \/ /\ toServer[c] # <<>> \/ toClient[c] # <<>>
       /\ Surplus /\ faults < MaxFaults /\ faults' = faults + 1

HandshakeTimeout(c) ==
    /\ cl[c].state \in {"hello", "hash"}
    /\ TimeOut(c) /\ GiveUp(c)
    /\ UNCHANGED <<serverVars, ver, toServer, toClient, held>>

DescrTimeout(c) ==
    /\ cl[c].state = "descr"
    /\ TimeOut(c)
    /\ SendToServer(c, <<Quit(c)>>)
    /\ cl' = [cl EXCEPT ![c].state = "quit"]
    /\ UNCHANGED <<serverVars, ver, toClient, held>>

DownloadTimeout(c) ==
    /\ TimeOut(c)
    /\ \/ cl[c].state = "get" /\ RetryGet(c, cl[c].msg)
       \/ cl[c].state = "file" /\ RetryFile(c, cl[c].msg)
    /\ UNCHANGED <<serverVars, ver, toClient, held>>

QuitTimeout(c) ==
    /\ cl[c].state = "quit"
    /\ TimeOut(c)
    /\ cl' = [cl EXCEPT ![c] = [Resting EXCEPT !.synced = cl[c].synced]]
    /\ UNCHANGED <<serverVars, ver, toServer, toClient, held>>

-----------------------------------------------------------------------------
(* Server: slots *)

\* Mutant: nothing is ever reaped.
FreeIdsNeverReaped == Ids \ DOMAIN sessions

\* Mutant: the last slot is returned when none is free.
FreeIdsOrLast ==
    {i \in Ids : i \notin DOMAIN sessions \/ i \in idle \/ i = Slots - 1}

\* A slot is free when it is empty or its session has been idle too long.
FreeIds == {i \in Ids : i \notin DOMAIN sessions \/ i \in idle}
FreeId  == Min(FreeIds)

\* Mutant: the slot stays on record as idle.
ReapKeepsIdle ==
    /\ sessions' = Restrict(sessions, DOMAIN sessions \ {FreeId})
    /\ UNCHANGED idle

\* getFreeID deletes the idle session of the slot it returns.
ReapFreeId ==
    /\ sessions' = Restrict(sessions, DOMAIN sessions \ {FreeId})
    /\ idle' = idle \ {FreeId}

\* A table whose entry for x, there or not, becomes "entry".
With(table, x, entry) ==
    [y \in DOMAIN table \cup {x} |-> IF y = x THEN entry ELSE table[y]]

\* Mutant: the nonces enter the key in the wrong order.
CreateSessionSwapped(i, c, key) ==
    /\ sessions' = With(sessions, i, [addr |-> c, key |-> <<key[2], key[1]>>, flow |-> FALSE])
    /\ idle' = idle \ {i}

\* Slot i now holds a new session, whatever it held before.
CreateSession(i, c, key) ==
    /\ sessions' = With(sessions, i, [addr |-> c, key |-> key, flow |-> FALSE])
    /\ idle' = idle \ {i}

\* SESSION_TIMEOUT seconds without a valid message.  A client that waits for the
\* id of its session waits for less (CLIENT_TIMEOUT_HELLO); and unless datagrams
\* may be late, one under way for the client arrives before that.
BecomeIdle(i) ==
    /\ i \in DOMAIN sessions \ idle
    /\ LET s == sessions[i]
           a == s.addr
       IN  /\ cl[a].state = "hash" => cl[a].cNonce # s.key[2]
           /\ Surplus \/ (toServer[a] = <<>> /\ (toClient[a] = <<>> \/ cl[a].state = "rest"))
    /\ idle' = idle \cup {i}
    /\ UNCHANGED <<sver, sessions, offered, pending, ver, cl, toServer, toClient, faults, held>>

-----------------------------------------------------------------------------
(* Server: handshake *)

Nack(m) == [m EXCEPT !.type = "NACK", !.body = NoBody]

\* The client's protocol version is not the server's.
VersionRefused(c) ==
    /\ toServer[c] # <<>> /\ Head(toServer[c]).hello
    /\ ver[c] # sver
    /\ Exchange(c, <<Nack(Head(toServer[c]))>>)
    /\ UNCHANGED <<serverVars, ver, cl, faults, held>>

\* A datagram of the handshake in the version both use.
HelloFlagged(c, type, version) ==
    /\ toServer[c] # <<>>
    /\ Head(toServer[c]).hello /\ Head(toServer[c]).type = type
    /\ ver[c] = version /\ sver = version

\* No id is free: for HELLO of V1, and for HELLO of V2 from a new client.
IdsDepleted(c) ==
    /\ \/ HelloFlagged(c, "HELLO", 1)
       \/ HelloFlagged(c, "HELLO", 2) /\ c \notin DOMAIN pending
    /\ FreeIds = {}
    /\ Exchange(c, <<Nack(Head(toServer[c]))>>)
    /\ UNCHANGED <<serverVars, ver, cl, faults, held>>

\* V1: a free id is offered, not reserved.
HelloV1(c) ==
    /\ HelloFlagged(c, "HELLO", 1)
    /\ FreeIds # {}
    /\ Exchange(c, <<[Head(toServer[c]) EXCEPT !.type = "ACK", !.id = FreeId, !.body = NoBody]>>)
    /\ offered' = FreeId
    /\ ReapFreeId
    /\ UNCHANGED <<sver, pending, ver, cl, faults, held>>

\* V1: the ACK of the id offered last creates the session.
AckV1(c) ==
    /\ HelloFlagged(c, "ACK", 1)
    /\ Exchange(c, <<>>)
    /\ IF Head(toServer[c]).id = offered
       THEN CreateSession(offered, c, NoKey)
       ELSE UNCHANGED <<sessions, idle>>
    /\ UNCHANGED <<sver, offered, pending, ver, cl, faults, held>>

\* V2: the client becomes pending, or its pending nonces are overwritten.
HelloV2(c) ==
    /\ HelloFlagged(c, "HELLO", 2)
    /\ c \in DOMAIN pending \/ FreeIds # {}
    /\ LET m == Head(toServer[c])
           n == FreshNonce
       IN  /\ pending' = With(pending, c, [s |-> n, c |-> m.body[2]])
           /\ Exchange(c, <<[m EXCEPT !.type = "ACK", !.id = 0, !.body = Nonce(n)]>>)
    /\ IF c \in DOMAIN pending THEN UNCHANGED <<sessions, idle>> ELSE ReapFreeId
    /\ UNCHANGED <<sver, offered, ver, cl, faults, held>>

\* Mutant: the client stays pending.
RemovePendingForgotten(c) == UNCHANGED pending

RemovePending(c) == pending' = Restrict(pending, DOMAIN pending \ {c})

\* Mutant: the id of the session is not put into the reply.
HashV2WithoutId(c) ==
    /\ HelloFlagged(c, "ACK", 2)
    /\ c \in DOMAIN pending /\ FreeIds # {}
    /\ LET m == Head(toServer[c])
           p == pending[c]
       IN  /\ m.body = Hash(p.s)
           /\ Exchange(c, <<[m EXCEPT !.body = Hash(p.c)]>>)
           /\ CreateSession(FreeId, c, <<p.s, p.c>>)
    /\ RemovePending(c)
    /\ UNCHANGED <<sver, offered, ver, cl, faults, held>>

\* Mutant: the hash is not compared.
HashV2Unchecked(c) ==
    /\ HelloFlagged(c, "ACK", 2)
    /\ c \in DOMAIN pending /\ FreeIds # {}
    /\ LET m == Head(toServer[c])
           p == pending[c]
       IN  /\ Exchange(c, <<[m EXCEPT !.id = FreeId, !.body = Hash(p.c)]>>)
           /\ CreateSession(FreeId, c, <<p.s, p.c>>)
    /\ RemovePending(c)
    /\ UNCHANGED <<sver, offered, ver, cl, faults, held>>

\* V2: the hash of the server's nonce is right; the session exists as soon as
\* the server's own hash and the id are sent.
HashV2(c) ==
    /\ HelloFlagged(c, "ACK", 2)
    /\ c \in DOMAIN pending /\ FreeIds # {}
    /\ LET m == Head(toServer[c])
           p == pending[c]
       IN  /\ m.body = Hash(p.s)
           /\ Exchange(c, <<[m EXCEPT !.id = FreeId, !.body = Hash(p.c)]>>)
           /\ CreateSession(FreeId, c, <<p.s, p.c>>)
    /\ RemovePending(c)
    /\ UNCHANGED <<sver, offered, ver, cl, faults, held>>

\* V2: the client is not pending, no id is free, or the hash is wrong.
HashV2Refused(c) ==
    /\ HelloFlagged(c, "ACK", 2)
    /\ Exchange(c, <<Nack(Head(toServer[c]))>>)
    /\ \/ c \notin DOMAIN pending /\ UNCHANGED <<sessions, idle>>
       \/ c \in DOMAIN pending /\ FreeIds = {} /\ UNCHANGED <<sessions, idle>>
       \/ /\ c \in DOMAIN pending /\ FreeIds # {}
          /\ Head(toServer[c]).body # Hash(pending[c].s)
          /\ ReapFreeId
    /\ RemovePending(c)
    /\ UNCHANGED <<sver, offered, ver, cl, faults, held>>

-----------------------------------------------------------------------------
(* Server: session *)

\* SessionHandler::isValidMessage: the slot named in the message holds a session
\* of the sender's address, and the MAC is that of its key.
ForSession(c, m) ==
    /\ m.id \in DOMAIN sessions
    /\ sessions[m.id].addr = c
    /\ sessions[m.id].key = NoKey \/ m.key = sessions[m.id].key

\* A datagram of type "type" for an established session; its idle timer restarts.
SessionMessage(c, types) ==
    /\ toServer[c] # <<>>
    /\ LET m == Head(toServer[c])
       IN  /\ ~m.hello /\ ForSession(c, m) /\ m.type \in types
           /\ idle' = idle \ {m.id}
    /\ UNCHANGED <<sver, offered, pending, ver, cl, faults, held>>

\* A datagram for no session, or with another client's or another key's id.
Discard(c) ==
    /\ toServer[c] # <<>>
    /\ LET m == Head(toServer[c]) IN ~m.hello /\ ~ForSession(c, m)
    /\ Exchange(c, <<>>)
    /\ UNCHANGED <<serverVars, ver, cl, faults, held>>

Reply(m, type, chunk) == [m EXCEPT !.type = type, !.chunk = chunk, !.body = NoBody,
                                   !.key = sessions[m.id].key]

DescrHandler(c) ==
    /\ SessionMessage(c, {"DESCR"})
    /\ LET m == Head(toServer[c]) IN Exchange(c, <<Reply(m, "DIFF", m.chunk)>>)
    /\ UNCHANGED sessions

\* Chunk 1 of the file; initHeader sets its client id to 0.
Chunk(m) == [Reply(m, "FILE", 1) EXCEPT !.id = 0]

\* GET opens the flow and sends its first window; a second one is discarded.
GetHandler(c) ==
    /\ SessionMessage(c, {"GET"})
    /\ LET m == Head(toServer[c])
       IN  IF sessions[m.id].flow
           THEN Exchange(c, <<>>) /\ UNCHANGED sessions
           ELSE /\ Exchange(c, <<Reply(m, "ACK", m.chunk), Chunk(m)>>)
                /\ sessions' = [sessions EXCEPT ![m.id].flow = TRUE]

\* ACK of the last chunk ends the flow, an earlier one makes it send again.
FileHandler(c) ==
    /\ SessionMessage(c, {"ACK"})
    /\ LET m == Head(toServer[c])
       IN  IF sessions[m.id].flow /\ m.chunk = 0
           THEN Exchange(c, <<Chunk(m)>>) /\ UNCHANGED sessions
           ELSE /\ Exchange(c, <<>>)
                /\ sessions' = [sessions EXCEPT ![m.id].flow = FALSE]

\* QUIT is acknowledged and frees the slot.
QuitHandler(c) ==
    /\ SessionMessage(c, {"QUIT"})
    /\ LET m == Head(toServer[c])
       IN  /\ Exchange(c, <<Reply(m, "ACK", m.chunk)>>)
           /\ sessions' = Restrict(sessions, DOMAIN sessions \ {m.id})

\* Messages only a server sends, returned by a client's GET loop: no effect.
NoHandler(c) ==
    /\ SessionMessage(c, {"DIFF", "FILE", "NACK"})
    /\ Exchange(c, <<>>)
    /\ UNCHANGED sessions

-----------------------------------------------------------------------------
ClientStep(c) ==
    \/ SendHello(c) \/ HelloRefused(c) \/ HelloAckV1(c) \/ HelloAckV2(c)
    \/ HashRefused(c) \/ HashAccepted(c) \/ DiffReceived(c) \/ DiffMissed(c)
    \/ FileReceived(c) \/ FileRefused(c) \/ OtherReceived(c) \/ MacRejected(c)
    \/ QuitAnswered(c)
    \/ HandshakeTimeout(c) \/ DescrTimeout(c) \/ DownloadTimeout(c) \/ QuitTimeout(c)

ServerStep(c) ==
    \/ VersionRefused(c) \/ IdsDepleted(c) \/ HelloV1(c) \/ AckV1(c)
    \/ HelloV2(c) \/ HashV2(c) \/ HashV2Refused(c) \/ Discard(c)
    \/ DescrHandler(c) \/ GetHandler(c) \/ FileHandler(c) \/ QuitHandler(c)
    \/ NoHandler(c)

Next ==
    \/ \E c \in Clients : ClientStep(c) \/ ServerStep(c)
                          \/ Lose(c) \/ Duplicate(c) \/ DeliverCopy(c)
    \/ \E i \in Ids : BecomeIdle(i)

Spec == Init /\ [][Next]_vars

\* Every client thread keeps running and the server keeps reading its socket
\* (neither blocks without a timeout), and time passes for a session that gets
\* no valid message, whatever else comes and goes meanwhile.
Fairness ==
    /\ \A c \in Clients : WF_vars(ClientStep(c)) /\ WF_vars(ServerStep(c))
    /\ \A i \in Ids : SF_vars(BecomeIdle(i))

FairSpec == Spec /\ Fairness

-----------------------------------------------------------------------------
(* Properties *)

\* V2: client and server agree.  While a client is in a session, any session
\* the server made from the same client nonce has the client's key, and is in
\* the slot whose id the client was given.
KeyAgreement ==
    \A c \in Clients, i \in DOMAIN sessions :
        /\ cl[c].state \in InSession /\ cl[c].key # NoKey
        /\ sessions[i].addr = c /\ sessions[i].key[2] = cl[c].cNonce
        => sessions[i].key = cl[c].key /\ cl[c].id = i

\* V2: one handshake gives one session: no two slots have the same key, however
\* often its datagrams are delivered.
OneSessionPerHandshake ==
    \A i, j \in DOMAIN sessions :
        sessions[i].key # NoKey /\ sessions[i].key = sessions[j].key => i = j

\* V2: when the handshake of a client succeeds, the session it was told of is
\* there.
EstablishedHasSession ==
    [][\A c \in Clients :
          cl[c].state = "hash" /\ cl'[c].state = "descr" =>
             /\ cl'[c].id \in DOMAIN sessions'
             /\ sessions'[cl'[c].id].addr = c
             /\ sessions'[cl'[c].id].key = cl'[c].key]_vars

\* Session i stays, or its own client has sent QUIT.
Kept(i) ==
    \/ /\ i \in DOMAIN sessions'
       /\ sessions'[i].addr = sessions[i].addr
       /\ sessions'[i].key = sessions[i].key
    \/ /\ i \notin DOMAIN sessions'
       /\ toServer[sessions[i].addr] # <<>>
       /\ Head(toServer[sessions[i].addr]).type = "QUIT"

\* V2: a session that has not been idle ends only with a QUIT of its own client;
\* it is never replaced by the session of another handshake.  (V1 promises no
\* such thing: an id that was offered twice is taken by the second ACK.)
SlotKeptV2 == [][sver = 2 => \A i \in DOMAIN sessions \ idle : Kept(i)]_vars

\* With nothing lost, a download that was begun is completed.
DownloadsComplete ==
    [][\A c \in Clients : cl[c].state \in {"get", "file"} /\ cl'[c].state = "quit"
                             => cl'[c].synced]_vars

\* No client thread stays in one session for ever: whatever is lost, duplicated
\* or late, every wait ends, and the refresh loop gets to its next host.
Returns == \A c \in Clients : []<>(cl[c].state = "rest")

\* With the same version on both sides, every client is synchronised again and
\* again.
Resyncs == \A c \in Clients : sver = ver[c] => []<>cl[c].synced

=============================================================================
