---------------------------- MODULE FileTransfer ----------------------------
(***************************************************************************)
(* The transfer of one file over UDP: the client's GET exchange and        *)
(* receive loop (Client::fileTransfer, Client::completeFileTransfer and    *)
(* the receiving half of FileTransfer) against the server's GET and ACK    *)
(* handlers (SessionHandler::getHandler, fileHandler and the sending half  *)
(* of FileTransfer), inside one established session.                       *)
(*                                                                         *)
(* The file is NChunks chunks, cut into packets numbered 1..Bound[NChunks];*)
(* packet k stands for its bytes, so a file is a sequence of packet        *)
(* numbers and two files have the same MD5 iff the sequences are equal.    *)
(* UDP may lose, reorder and duplicate: a network direction is a set of    *)
(* datagrams, receiving one normally consumes it, and every loss or        *)
(* duplicate delivery is counted in "faults".                              *)
(***************************************************************************)
EXTENDS Integers, Sequences, FiniteSets

CONSTANTS
    NChunks,    \* _chunkEnd: chunks in the file
    Bound,      \* Bound[c]: packets in the first c chunks (file offset of chunk c+1)
    Retries,    \* CLIENT_CHUNK_RETRIES
    WindowMod,  \* 2^16: the window is a uint16_t
    MaxFaults,  \* bound on losses plus duplicate deliveries
    Patient     \* TRUE: a receive times out only when nothing is in flight

ASSUME NChunksAssumption == NChunks \in Nat
ASSUME BoundAssumption ==
    /\ Bound \in [0..NChunks -> Nat]
    /\ Bound[0] = 0
    /\ \A b, c \in 0..NChunks : b < c => Bound[b] < Bound[c]
ASSUME RetriesAssumption == Retries \in Nat
ASSUME WindowModAssumption == WindowMod \in Nat /\ WindowMod > 1
ASSUME MaxFaultsAssumption == MaxFaults \in Nat
ASSUME PatientAssumption == Patient \in BOOLEAN

VARIABLES
    \* --- server ---
    present,   \* the requested file is in the server's sync directory
    flow,      \* _fFlows[0] holds a FileTransfer object
    sChunk,    \* its _chunkCurrent: last chunk sent
    sSeq,      \* its _seqCurrent: last sequence number sent
    sPos,      \* position of its FILE*, in chunks
    \* --- client ---
    cState,    \* where Client::fileTransfer is with this file
    tries,     \* its retry counter
    lastWin,   \* window of the last message received (msg in completeFileTransfer)
    rChunk,    \* _chunkCurrent: last chunk written
    rSeq,      \* _seqCurrent: its last sequence number
    recvList,  \* _recvList: FILE messages not yet written
    out,       \* contents of the temporary file
    \* --- network ---
    toServer, toClient,  \* datagrams in flight
    faults               \* losses and duplicate deliveries so far

serverVars == <<present, flow, sChunk, sSeq, sPos>>
fileVars   == <<rChunk, rSeq, recvList, out>>
clientVars == <<cState, tries, lastWin, fileVars>>
vars == <<serverVars, clientVars, toServer, toClient, faults>>

File == [k \in 1..Bound[NChunks] |-> k]

\* Client and server datagrams.  A GET always asks for chunks 0-0 (the whole
\* file) with window 1; ACK and NACK replies to it copy its header.
GetMsg == [type |-> "GET", chunk |-> 0, seq |-> 0, window |-> 1]
AckMsg(c, s, w) == [type |-> "ACK", chunk |-> c, seq |-> s, window |-> w]
ReplyMsg(t) ==
    [type |-> t, chunk |-> 0, seq |-> 0, window |-> 1, last |-> FALSE, data |-> 0]

ServerMessages ==
    [type : {"GET", "ACK"}, chunk : Nat, seq : Nat, window : 0..(WindowMod-1)]
ClientMessages ==
    [type : {"ACK", "NACK", "FILE"}, chunk : Nat, seq : Nat,
     window : 0..(WindowMod-1), last : BOOLEAN, data : Nat]

Running == {"get", "file"}
Final   == {"installed", "invalid", "nacked", "failed"}

TypeOK ==
    /\ present \in BOOLEAN /\ flow \in BOOLEAN
    /\ sChunk \in Nat /\ sSeq \in Nat /\ sPos \in 0..NChunks
    /\ cState \in Running \cup Final
    /\ tries \in 0..(Retries + 1)
    /\ lastWin \in 0..(WindowMod - 1)
    /\ rChunk \in Nat /\ rSeq \in Nat /\ out \in Seq(Nat)
    /\ recvList \in SUBSET ClientMessages
    /\ toServer \in SUBSET ServerMessages
    /\ toClient \in SUBSET ClientMessages
    /\ faults \in 0..MaxFaults

\* Before the first GET is answered; the FileTransfer objects' initial values
\* are those of their constructor called with chunks 0-0 and seqnum 0.
Init ==
    /\ present = TRUE /\ flow = FALSE
    /\ sChunk = 0 /\ sSeq = 0 /\ sPos = 0
    /\ cState = "get" /\ tries = 0 /\ lastWin = 1
    /\ rChunk = 0 /\ rSeq = 0 /\ recvList = {} /\ out = <<>>
    /\ toServer = {GetMsg} /\ toClient = {} /\ faults = 0

-----------------------------------------------------------------------------
(* Network *)

\* Datagram m is read from a socket: it leaves the network, unless the network
\* duplicated it.
FromClient(m) ==
    /\ m \in toServer
    /\ \/ toServer' = toServer \ {m} /\ UNCHANGED faults
       \/ faults < MaxFaults /\ faults' = faults + 1 /\ UNCHANGED toServer

FromServer(m) ==
    /\ m \in toClient
    /\ \/ toClient' = toClient \ {m} /\ UNCHANGED faults
       \/ faults < MaxFaults /\ faults' = faults + 1 /\ UNCHANGED toClient

\* A datagram is lost, in the network or by Utilities::isPacketLost.
Lose ==
    /\ faults < MaxFaults
    /\ faults' = faults + 1
    /\ \/ \E m \in toServer : toServer' = toServer \ {m} /\ UNCHANGED toClient
       \/ \E m \in toClient : toClient' = toClient \ {m} /\ UNCHANGED toServer
    /\ UNCHANGED <<serverVars, clientVars>>

-----------------------------------------------------------------------------
(* Server *)

SmallerOf(a, b) == IF a <= b THEN a ELSE b

\* File position after reading a window of w chunks from position p.
LoadWindow(p, w) == SmallerOf(p + w, NChunks)

\* The packets of the chunks read from position p, labelled as the chunks that
\* follow chunk c and with the sequence numbers that follow s.
SendWindow(p, c, s, w) ==
    UNION { { [type |-> "FILE", chunk |-> c + (i - p), seq |-> s + (k - Bound[p]),
               window |-> w, last |-> (k = Bound[i]), data |-> k]
              : k \in (Bound[i-1] + 1)..Bound[i] }
            : i \in (p + 1)..LoadWindow(p, w) }

\* Send a window of w chunks from position p, after chunk c and sequence number s.
StartWindow(p, c, s, w, reply) ==
    /\ toClient' = toClient \cup reply \cup SendWindow(p, c, s, w)
    /\ sPos' = LoadWindow(p, w)
    /\ sChunk' = c + (LoadWindow(p, w) - p)
    /\ sSeq' = s + (Bound[LoadWindow(p, w)] - Bound[p])

\* The user deletes the file from the server's directory; an open flow keeps
\* its file handle.
DeleteFile ==
    /\ present /\ present' = FALSE
    /\ UNCHANGED <<flow, sChunk, sSeq, sPos, clientVars, toServer, toClient, faults>>

\* GET for a file the server does not have.
ServerGetMissing ==
    /\ FromClient(GetMsg)
    /\ ~present
    /\ toClient' = toClient \cup {ReplyMsg("NACK")}
    /\ UNCHANGED <<serverVars, clientVars>>

\* GET for a file whose transfer is active: discarded as a duplicate.
ServerGetDuplicate ==
    /\ FromClient(GetMsg)
    /\ present /\ flow
    /\ UNCHANGED <<serverVars, clientVars, toClient>>

\* GET that opens a flow: acknowledged, and the first window follows.
ServerGetAccept ==
    /\ FromClient(GetMsg)
    /\ present /\ ~flow
    /\ flow' = TRUE
    /\ StartWindow(0, 0, 0, GetMsg.window, {ReplyMsg("ACK")})
    /\ UNCHANGED <<present, clientVars>>

IsAck(m) == m.type = "ACK"

\* ACK without an active flow.
ServerAckIgnored ==
    /\ ~flow
    /\ \E m \in toServer : IsAck(m) /\ FromClient(m)
    /\ UNCHANGED <<serverVars, clientVars, toClient>>

\* Mutant: the flow ends when the last chunk sent so far is acknowledged.
AckFinalAtLastSent ==
    /\ flow
    /\ \E m \in toServer : IsAck(m) /\ m.chunk >= sChunk /\ FromClient(m)
    /\ flow' = FALSE /\ sChunk' = 0 /\ sSeq' = 0 /\ sPos' = 0
    /\ UNCHANGED <<present, clientVars, toClient>>

\* ACK of the last chunk: the FileTransfer object is deleted.
ServerAckFinal ==
    /\ flow
    /\ \E m \in toServer : IsAck(m) /\ m.chunk >= NChunks /\ FromClient(m)
    /\ flow' = FALSE /\ sChunk' = 0 /\ sSeq' = 0 /\ sPos' = 0
    /\ UNCHANGED <<present, clientVars, toClient>>

\* Mutant: the file is not rewound with the chunk and sequence numbers.
RewindKeepsPosition ==
    /\ flow
    /\ \E m \in toServer :
          /\ IsAck(m) /\ m.chunk < NChunks /\ m.chunk < sChunk
          /\ FromClient(m)
          /\ StartWindow(sPos, m.chunk, m.seq, m.window, {})
    /\ UNCHANGED <<present, flow, clientVars>>

\* Mutant: the sequence number is rewound one packet too far.
RewindOffByOne ==
    /\ flow
    /\ \E m \in toServer :
          /\ IsAck(m) /\ m.chunk < NChunks /\ m.chunk < sChunk
          /\ FromClient(m)
          /\ StartWindow(m.chunk, m.chunk, IF m.seq = 0 THEN 0 ELSE m.seq - 1, m.window, {})
    /\ UNCHANGED <<present, flow, clientVars>>

\* ACK of an earlier chunk than the last one sent: the file is rewound to it
\* and the window it asks for is sent from there.
ServerAckRewind ==
    /\ flow
    /\ \E m \in toServer :
          /\ IsAck(m) /\ m.chunk < NChunks /\ m.chunk < sChunk
          /\ FromClient(m)
          /\ StartWindow(m.chunk, m.chunk, m.seq, m.window, {})
    /\ UNCHANGED <<present, flow, clientVars>>

\* Any other ACK: the window it asks for is sent from the current position.
ServerAckAdvance ==
    /\ flow
    /\ \E m \in toServer :
          /\ IsAck(m) /\ m.chunk < NChunks /\ m.chunk >= sChunk
          /\ FromClient(m)
          /\ StartWindow(sPos, sChunk, sSeq, m.window, {})
    /\ UNCHANGED <<present, flow, clientVars>>

-----------------------------------------------------------------------------
(* Client *)

\* Add a message to the reception list; a second one with its number is dropped.
RecvListAdd(list, m) ==
    IF \E p \in list : p.seq = m.seq THEN list ELSE list \cup {m}

\* The messages of the list, in order of sequence number, up to the first gap.
Contiguous(list, s) ==
    {m \in list : /\ \A p \in list : p.seq > s
                  /\ \A k \in (s + 1)..m.seq : \E p \in list : p.seq = k}

\* The last packets of the chunks received completely after s.
ReceivedChunks(list, s) == {m \in Contiguous(list, s) : m.last}

LastMessage(chunks) == CHOOSE m \in chunks : \A p \in chunks : p.seq <= m.seq

\* Payloads written by writeRecvListToFile, from after s to message "last".
Payloads(list, s, last) ==
    [i \in 1..(last.seq - s) |-> (CHOOSE p \in list : p.seq = s + i).data]

\* Everything up to the end of the last complete chunk is written, the rest of
\* the list is thrown away and the receiver moves past what it wrote.
WriteRecvList(list, last) ==
    /\ out' = out \o Payloads(list, rSeq, last)
    /\ recvList' = {}
    /\ rChunk' = last.chunk
    /\ rSeq' = last.seq

\* Mutant: the short last window is not recognised.
WindowCompleteOnlyFull(n, w) == n > 0 /\ n >= w

\* The window is complete: enough chunks, or the rest of the file.
WindowComplete(n, w) == n > 0 /\ (n >= w \/ rChunk + n = NChunks)

\* The MD5 of the temporary file against the one announced in the DIFF.
FileFinish(content) == IF content = File THEN "installed" ELSE "invalid"

\* Every receive resets the retry counter and becomes "the last message".
Received(m) ==
    /\ FromServer(m)
    /\ tries' = 0
    /\ lastWin' = m.window

\* NACK as the reply to GET: the file is skipped.
ClientNacked ==
    /\ cState = "get"
    /\ \E m \in toClient : m.type = "NACK" /\ Received(m)
    /\ cState' = "nacked"
    /\ UNCHANGED <<serverVars, fileVars, toServer>>

\* Not a FILE message, or one of a chunk already written.
ClientIgnore ==
    /\ cState \in Running
    /\ \E m \in toClient :
          /\ m.type # "FILE" \/ m.chunk <= rChunk
          /\ ~(cState = "get" /\ m.type = "NACK")
          /\ Received(m)
    /\ cState' = "file"
    /\ UNCHANGED <<serverVars, fileVars, toServer>>

\* A FILE message that does not complete the window is kept.
ClientBuffer ==
    /\ cState \in Running
    /\ \E m \in toClient :
          /\ m.type = "FILE" /\ m.chunk > rChunk
          /\ LET list == RecvListAdd(recvList, m)
             IN  /\ ~WindowComplete(Cardinality(ReceivedChunks(list, rSeq)), m.window)
                 /\ recvList' = list
          /\ Received(m)
    /\ cState' = "file"
    /\ UNCHANGED <<serverVars, rChunk, rSeq, out, toServer>>

\* Mutant: the message just received is acknowledged, not the last one of a
\* complete chunk.
AckReceivedMessage ==
    /\ cState \in Running
    /\ \E m \in toClient :
          /\ m.type = "FILE" /\ m.chunk > rChunk
          /\ LET list   == RecvListAdd(recvList, m)
                 chunks == ReceivedChunks(list, rSeq)
                 last   == LastMessage(chunks)
             IN  /\ WindowComplete(Cardinality(chunks), m.window)
                 /\ WriteRecvList(list, last)
                 /\ toServer' = toServer \cup
                       {AckMsg(m.chunk, m.seq, (m.window + 1) % WindowMod)}
                 /\ cState' = IF last.chunk = NChunks THEN FileFinish(out') ELSE "file"
          /\ Received(m)
    /\ UNCHANGED serverVars

\* A FILE message that completes the window: write, acknowledge with a window
\* larger by one, and finish the file if this was its last chunk.
ClientWindow ==
    /\ cState \in Running
    /\ \E m \in toClient :
          /\ m.type = "FILE" /\ m.chunk > rChunk
          /\ LET list   == RecvListAdd(recvList, m)
                 chunks == ReceivedChunks(list, rSeq)
                 last   == LastMessage(chunks)
             IN  /\ WindowComplete(Cardinality(chunks), m.window)
                 /\ WriteRecvList(list, last)
                 /\ toServer' = toServer \cup
                       {AckMsg(last.chunk, last.seq, (m.window + 1) % WindowMod)}
                 /\ cState' = IF last.chunk = NChunks THEN FileFinish(out') ELSE "file"
          /\ Received(m)
    /\ UNCHANGED serverVars

TimeoutAllowed == Patient => toServer = {} /\ toClient = {}

\* Mutant: one retry too many.
GetTimeoutOffByOne ==
    /\ cState = "get" /\ TimeoutAllowed
    /\ toServer' = toServer \cup {GetMsg}
    /\ tries' = tries + 1
    /\ cState' = IF tries > Retries THEN "failed" ELSE "get"
    /\ UNCHANGED <<serverVars, lastWin, fileVars, toClient, faults>>

\* No reply to GET: GET is sent again, until the retries are used up.
ClientGetTimeout ==
    /\ cState = "get" /\ TimeoutAllowed
    /\ toServer' = toServer \cup {GetMsg}
    /\ tries' = tries + 1
    /\ cState' = IF tries + 1 > Retries THEN "failed" ELSE "get"
    /\ UNCHANGED <<serverVars, lastWin, fileVars, toClient, faults>>

\* Mutant: no lower limit.
HalfWindowToZero(w) == w \div 2

\* The window recvTimeout asks for: half of the last one, at least 1.
HalfWindow(w) == IF w \div 2 = 0 THEN 1 ELSE w \div 2

\* Receive timeout with retries left: complete chunks are written, and what is
\* on disk is acknowledged with a smaller window.
ClientFileTimeout ==
    /\ cState = "file" /\ TimeoutAllowed
    /\ tries <= Retries
    /\ tries' = tries + 1
    /\ LET chunks == ReceivedChunks(recvList, rSeq)
       IN  IF chunks # {} THEN WriteRecvList(recvList, LastMessage(chunks))
                          ELSE UNCHANGED fileVars
    /\ toServer' = toServer \cup {AckMsg(rChunk', rSeq', HalfWindow(lastWin))}
    /\ UNCHANGED <<serverVars, cState, lastWin, toClient, faults>>

\* Receive timeout with the retries used up.
ClientGiveUp ==
    /\ cState = "file" /\ TimeoutAllowed
    /\ tries > Retries
    /\ cState' = "failed"
    /\ UNCHANGED <<serverVars, tries, lastWin, fileVars, toServer, toClient, faults>>

-----------------------------------------------------------------------------
Server ==
    \/ ServerGetMissing \/ ServerGetDuplicate \/ ServerGetAccept
    \/ ServerAckIgnored \/ ServerAckFinal \/ ServerAckRewind \/ ServerAckAdvance

ClientReceive == ClientNacked \/ ClientIgnore \/ ClientBuffer \/ ClientWindow

ClientTimeout == ClientGetTimeout \/ ClientFileTimeout \/ ClientGiveUp

\* The client has moved on to the next file and the server is idle.
Finished == cState \in Final /\ toServer = {} /\ UNCHANGED vars

Next == Server \/ ClientReceive \/ ClientTimeout \/ DeleteFile \/ Lose \/ Finished

Spec == Init /\ [][Next]_vars

\* Both threads keep running: the server thread blocks only in recvfrom, the
\* client thread only in a receive with a timeout.
Fairness == WF_vars(Server) /\ WF_vars(ClientReceive) /\ WF_vars(ClientTimeout)

FairSpec == Spec /\ Fairness

-----------------------------------------------------------------------------
(* Properties *)

\* The sender's bookkeeping: file position, chunk number and sequence number
\* always agree, however often ACKs rewound or advanced the flow.
SenderConsistent ==
    flow => sPos = sChunk /\ sSeq = Bound[sChunk]

\* A FILE message is labelled with the chunk and the sequence number its data
\* has in the file, so packets of different windows never pass for each other.
Labelled(m) ==
    /\ m.chunk \in 1..NChunks
    /\ Bound[m.chunk - 1] < m.seq /\ m.seq <= Bound[m.chunk]
    /\ m.last = (m.seq = Bound[m.chunk])
    /\ m.data = m.seq

FilesLabelled == \A m \in toClient \cup recvList : m.type = "FILE" => Labelled(m)

\* What the client has written are whole chunks from the start of the file, and
\* what it buffers are FILE messages of later chunks, one per sequence number.
ReceiverConsistent ==
    /\ rChunk <= NChunks
    /\ rSeq = Bound[rChunk]
    /\ out = [k \in 1..rSeq |-> k]
    /\ \A m \in recvList : m.type = "FILE" /\ m.chunk > rChunk
    /\ \A m, p \in recvList : m.seq = p.seq => m = p

\* An acknowledgement in flight, however old, never acknowledges a chunk that
\* is not in the client's temporary file, and carries that chunk's own sequence
\* number (the server rewinds its numbering to it).
AcksCoverWritten ==
    \A m \in toServer : IsAck(m) => m.chunk <= rChunk /\ m.seq = Bound[m.chunk]

\* The receive loop never sits on a file that is already complete: the last
\* chunk is always written by the message that completes it, never by a timeout
\* (recvTimeout does not finish the file).
CompletionNotMissed == cState \in Running => rChunk = 0 \/ rChunk < NChunks

\* Nor does it buffer the rest of the file: the message that completes it also
\* writes it.
BufferIncomplete ==
    cState \in Running => \A m \in ReceivedChunks(recvList, rSeq) : m.chunk < NChunks

\* A GET is outstanding only while it may be sent again.
GetRetriesLeft == cState = "get" => tries <= Retries

\* The inductive invariant of the transfer.
IInv ==
    /\ TypeOK
    /\ GetRetriesLeft
    /\ SenderConsistent
    /\ FilesLabelled
    /\ ReceiverConsistent
    /\ AcksCoverWritten
    /\ CompletionNotMissed
    /\ BufferIncomplete

\* The server frees a flow only after the client has written the whole file,
\* whatever duplicated, late or reordered ACK made it do so.
FlowFreedWhenWritten == [][flow /\ ~flow' => rChunk = NChunks]_vars

\* The transfer implements the abstract copy: the temporary file grows by whole
\* chunks, always a prefix of the server's file, and is renamed to its final
\* name exactly when it is complete.  The MD5 check of fileFinish never fails.
Outcome ==
    IF cState \in Running THEN "pending"
    ELSE IF cState \in {"nacked", "failed"} THEN "aborted" ELSE cState

Copy == INSTANCE FileCopy WITH written <- out, outcome <- Outcome

CopySpec == Copy!Spec

\* The client ends with the file installed, or refused because the server no
\* longer has it; it never runs out of retries.
TransferCompletes == <>(cState \in {"installed", "nacked"})

=============================================================================
