------------------------ MODULE FileTransferProofs ------------------------
(***************************************************************************)
(* Proofs about FileTransfer, for every file size, chunk size, number of   *)
(* retries, number of faults and window width: the inductive invariant     *)
(* IInv, what it implies, and that the transfer implements FileCopy.       *)
(***************************************************************************)
EXTENDS FileTransfer, FiniteSetTheorems, FunctionTheorems, SequenceTheorems,
        WellFoundedInduction, TLAPS

USE NChunksAssumption, RetriesAssumption, WindowModAssumption,
    MaxFaultsAssumption, PatientAssumption

(***************************************************************************)
(* Chunk boundaries                                                        *)
(***************************************************************************)

LEMMA BoundType == \A c \in 0..NChunks : Bound[c] \in Nat
BY BoundAssumption

LEMMA BoundZero == 0 \in 0..NChunks /\ Bound[0] = 0
BY BoundAssumption

LEMMA BoundMonotonic ==
    ASSUME NEW b \in 0..NChunks, NEW c \in 0..NChunks, b <= c
    PROVE  Bound[b] <= Bound[c]
<1>1. CASE b = c
  BY <1>1, BoundType
<1>2. CASE b < c
  BY <1>2, BoundAssumption, BoundType
<1> QED BY <1>1, <1>2

\* A packet belongs to one chunk only.
LEMMA ChunkOfPacket ==
    ASSUME NEW b \in 1..NChunks, NEW c \in 1..NChunks, NEW k \in Nat,
           Bound[b-1] < k, k <= Bound[b], Bound[c-1] < k, k <= Bound[c]
    PROVE  b = c
<1> b \in 0..NChunks /\ c \in 0..NChunks /\ b-1 \in 0..NChunks /\ c-1 \in 0..NChunks
  OBVIOUS
<1> Bound[b] \in Nat /\ Bound[c] \in Nat /\ Bound[b-1] \in Nat /\ Bound[c-1] \in Nat
  BY BoundType
<1>1. ASSUME b < c PROVE FALSE
  <2>1. b <= c-1
    BY <1>1
  <2>2. Bound[b] <= Bound[c-1]
    BY <2>1, BoundMonotonic
  <2> QED BY <2>2
<1>2. ASSUME c < b PROVE FALSE
  <2>1. c <= b-1
    BY <1>2
  <2>2. Bound[c] <= Bound[b-1]
    BY <2>1, BoundMonotonic
  <2> QED BY <2>2
<1> QED BY <1>1, <1>2

(***************************************************************************)
(* The largest element of a bounded set of messages                        *)
(***************************************************************************)


LEMMA LessThanOnNat == OpToRel(<, Nat) = {ss \in Nat \X Nat : ss[1] < ss[2]}
BY DEF OpToRel

LEMMA NonEmptyHasLeast ==
    ASSUME NEW T, T \subseteq Nat, T # {}
    PROVE  \E x \in T : \A y \in T : x <= y
<1> DEFINE R == {ss \in Nat \X Nat : ss[1] < ss[2]}
<1>1. IsWellFoundedOn(R, Nat)
  BY LessThanOnNat, NatLessThanWellFounded, Zenon
<1>2. ASSUME NEW x \in Nat, NEW y \in Nat, y < x PROVE <<y, x>> \in R
  BY <1>2
<1> HIDE DEF R
<1>3. PICK x \in T : \A y \in T : ~ (<<y, x>> \in R)
  BY <1>1, WFMin
<1>4. ASSUME NEW y \in T PROVE x <= y
  <2>1. ~(y < x)
    BY <1>2, <1>3
  <2> QED BY <2>1
<1> QED BY <1>4

LEMMA LastMessageIsLast ==
    ASSUME NEW S, NEW B \in Nat, S # {},
           \A m \in S : m.seq \in Nat /\ m.seq <= B
    PROVE  LastMessage(S) \in S /\ \A p \in S : p.seq <= LastMessage(S).seq
<1> DEFINE T == {B - m.seq : m \in S}
<1>1. T \subseteq Nat /\ T # {}
  OBVIOUS
<1>2. PICK x \in T : \A y \in T : x <= y
  BY <1>1, NonEmptyHasLeast
<1>3. PICK m \in S : x = B - m.seq
  OBVIOUS
<1>4. ASSUME NEW p \in S PROVE p.seq <= m.seq
  <2>1. B - p.seq \in T
    OBVIOUS
  <2>2. B - m.seq <= B - p.seq
    BY <1>2, <1>3, <2>1
  <2> QED BY <2>2
<1> QED BY <1>4 DEF LastMessage

(***************************************************************************)
(* The reception list                                                      *)
(***************************************************************************)

\* What the reception list holds when the chunks up to c are written.
GoodList(list, c) ==
    /\ list \subseteq ClientMessages
    /\ \A m \in list : m.type = "FILE" /\ Labelled(m) /\ m.chunk > c
    /\ \A m, p \in list : m.seq = p.seq => m = p

LEMMA AddKeepsGood ==
    ASSUME NEW c \in 0..NChunks, NEW list, GoodList(list, c),
           NEW m \in ClientMessages, m.type = "FILE", Labelled(m), m.chunk > c
    PROVE  GoodList(RecvListAdd(list, m), c)
BY DEF GoodList, RecvListAdd

LEMMA GoodMessage ==
    ASSUME NEW c \in 0..NChunks, NEW list, GoodList(list, c), NEW m \in list
    PROVE  /\ m.seq \in Nat /\ m.data = m.seq
           /\ m.chunk \in (c+1)..NChunks
           /\ Bound[c] < m.seq /\ m.seq <= Bound[NChunks]
           /\ Bound[m.chunk] \in Nat
           /\ m.seq <= Bound[m.chunk]
           /\ m.last <=> m.seq = Bound[m.chunk]
<1>1. /\ m \in ClientMessages
      /\ Labelled(m) /\ m.chunk > c
  BY DEF GoodList
<1>2. /\ m.seq \in Nat /\ m.data = m.seq /\ m.chunk \in (c+1)..NChunks
      /\ Bound[m.chunk-1] < m.seq /\ m.seq <= Bound[m.chunk]
      /\ m.last <=> m.seq = Bound[m.chunk]
  BY <1>1 DEF Labelled, ClientMessages
<1>3. /\ m.chunk \in 0..NChunks /\ m.chunk-1 \in 0..NChunks /\ NChunks \in 0..NChunks
      /\ c <= m.chunk-1 /\ m.chunk <= NChunks
  BY <1>2
<1>4. Bound[c] <= Bound[m.chunk-1] /\ Bound[m.chunk] <= Bound[NChunks]
  BY <1>3, BoundMonotonic
<1>5. Bound[c] \in Nat /\ Bound[m.chunk-1] \in Nat /\ Bound[m.chunk] \in Nat /\ Bound[NChunks] \in Nat
  BY <1>3, BoundType
<1> QED BY <1>2, <1>4, <1>5

\* When some chunks were received completely: their last message is the last
\* packet of its chunk, and no chunk before it is missing.
LEMMA ReceivedChunksAreConsecutive ==
    ASSUME NEW c \in 0..NChunks, NEW list, GoodList(list, c),
           ReceivedChunks(list, Bound[c]) # {}
    PROVE  LET chunks == ReceivedChunks(list, Bound[c])
               last   == LastMessage(chunks)
           IN  /\ last \in list /\ last.chunk \in (c+1)..NChunks
               /\ last.seq = Bound[last.chunk]
               /\ \A k \in (Bound[c]+1)..last.seq : \E p \in list : p.seq = k
               /\ \A m \in chunks : m.chunk <= last.chunk
               /\ Cardinality(chunks) = last.chunk - c
<1> DEFINE chunks == ReceivedChunks(list, Bound[c])
           last   == LastMessage(chunks)
<1> Bound[c] \in Nat /\ Bound[NChunks] \in Nat
  BY BoundType
<1>1. chunks \subseteq list
  BY DEF ReceivedChunks, Contiguous
<1>2. \A m \in chunks : m.seq \in Nat /\ m.seq <= Bound[NChunks]
  BY <1>1, GoodMessage
<1>3. last \in chunks /\ \A p \in chunks : p.seq <= last.seq
  BY <1>2, LastMessageIsLast
<1>4. /\ last \in list /\ last.last
      /\ \A k \in (Bound[c]+1)..last.seq : \E p \in list : p.seq = k
  BY <1>3 DEF ReceivedChunks, Contiguous
<1> HIDE DEF last
<1>5. last.chunk \in (c+1)..NChunks /\ last.seq = Bound[last.chunk] /\ last.seq \in Nat
  BY <1>4, GoodMessage
<1>6. ASSUME NEW m \in chunks
      PROVE  m.chunk \in (c+1)..last.chunk /\ m.seq = Bound[m.chunk]
  <2>1. m \in list /\ m.last
    BY DEF ReceivedChunks, Contiguous
  <2>2. m.chunk \in (c+1)..NChunks /\ m.seq = Bound[m.chunk] /\ m.seq \in Nat
    BY <2>1, GoodMessage
  <2>3. m.seq <= last.seq
    BY <1>3
  <2>4. ~(last.chunk < m.chunk)
    <3>1. last.chunk \in 0..NChunks /\ m.chunk \in 0..NChunks
      BY <1>5, <2>2
    <3>2. last.chunk < m.chunk => Bound[last.chunk] < Bound[m.chunk]
      BY <3>1, BoundAssumption
    <3> QED BY <1>5, <2>2, <2>3, <3>2
  <2> QED BY <1>5, <2>2, <2>4
<1>7. ASSUME NEW i \in (c+1)..last.chunk
      PROVE  \E p \in chunks : p.chunk = i
  <2>1. i \in 1..NChunks /\ i \in 0..NChunks /\ i-1 \in 0..NChunks
        /\ last.chunk \in 0..NChunks /\ i <= last.chunk
    BY <1>5
  <2>2. Bound[i] \in Nat /\ Bound[i-1] \in Nat
    BY <2>1, BoundType
  <2>3. Bound[i] <= last.seq
    BY <1>5, <2>1, BoundMonotonic
  <2>4. Bound[c] <= Bound[i-1] /\ Bound[i-1] < Bound[i]
    <3>1. c <= i-1 /\ i-1 < i
      BY <2>1
    <3>2. Bound[c] <= Bound[i-1]
      BY <2>1, <3>1, BoundMonotonic
    <3>3. Bound[i-1] < Bound[i]
      BY <2>1, <3>1, BoundAssumption
    <3> QED BY <3>2, <3>3
  <2>5. PICK p \in list : p.seq = Bound[i]
    BY <1>4, <1>5, <2>2, <2>3, <2>4
  <2>6. /\ p.chunk \in (c+1)..NChunks
        /\ Bound[p.chunk-1] < p.seq /\ p.seq <= Bound[p.chunk]
        /\ p.last <=> p.seq = Bound[p.chunk]
    BY GoodMessage DEF GoodList, Labelled
  <2>7. p.chunk = i
    <3>1. p.chunk \in 1..NChunks
      BY <2>6
    <3> QED BY <2>1, <2>2, <2>4, <2>5, <2>6, <3>1, ChunkOfPacket
  <2>8. p.last
    BY <2>5, <2>6, <2>7
  <2>9. p \in chunks
    <3>1. \A k \in (Bound[c]+1)..p.seq : k \in (Bound[c]+1)..last.seq
      BY <1>5, <2>2, <2>3, <2>5
    <3>2. \A q \in list : q.seq > Bound[c]
      BY GoodMessage
    <3> QED BY <1>4, <2>8, <3>1, <3>2 DEF ReceivedChunks, Contiguous
  <2> QED BY <2>7, <2>9
<1>8. Cardinality(chunks) = last.chunk - c
  <2> DEFINE f == [m \in chunks |-> m.chunk]
             I == (c+1)..last.chunk
  <2>1. f \in [chunks -> I] /\ \A m \in chunks : f[m] = m.chunk
    BY <1>6
  <2>2. \A m, p \in chunks : f[m] = f[p] => m = p
    <3> SUFFICES ASSUME NEW m \in chunks, NEW p \in chunks, f[m] = f[p] PROVE m = p
      OBVIOUS
    <3>1. m.seq = p.seq
      BY <1>6, <2>1
    <3> QED BY <1>1, <3>1 DEF GoodList
  <2>3. \A i \in I : \E m \in chunks : f[m] = i
    BY <1>7, <2>1
  <2> HIDE DEF f
  <2>4. f \in Injection(chunks, I)
    BY <2>1, <2>2, Zenon DEF Injection, IsInjective
  <2>5. f \in Surjection(chunks, I)
    BY <2>1, <2>3 DEF Surjection
  <2>6. IsFiniteSet(I) /\ Cardinality(I) = last.chunk - c
    <3>1. c+1 \in Int /\ last.chunk \in Int /\ ~(c+1 > last.chunk)
          /\ last.chunk - (c+1) + 1 = last.chunk - c
      BY <1>5
    <3>2. IsFiniteSet(I) /\ Cardinality(I) = last.chunk - (c+1) + 1
      BY <3>1, FS_Interval
    <3> QED BY <3>1, <3>2
  <2>7. Cardinality(chunks) = Cardinality(I)
    BY <2>4, <2>5, <2>6, FS_Injection
  <2> QED BY <2>6, <2>7
<1> QED BY <1>4, <1>5, <1>6, <1>8 DEF last

\* What is written then continues the file where the last write ended.
LEMMA PayloadsAreTheFile ==
    ASSUME NEW c \in 0..NChunks, NEW list, GoodList(list, c), NEW last, last.seq \in Nat,
           \A k \in (Bound[c]+1)..last.seq : \E p \in list : p.seq = k
    PROVE  Payloads(list, Bound[c], last) = [i \in 1..(last.seq - Bound[c]) |-> Bound[c] + i]
<1> Bound[c] \in Nat
  BY BoundType
<1>1. ASSUME NEW i \in 1..(last.seq - Bound[c])
      PROVE  (CHOOSE p \in list : p.seq = Bound[c] + i).data = Bound[c] + i
  <2>1. \E p \in list : p.seq = Bound[c] + i
    OBVIOUS
  <2> DEFINE q == CHOOSE p \in list : p.seq = Bound[c] + i
  <2>2. q \in list /\ q.seq = Bound[c] + i
    BY <2>1
  <2> HIDE DEF q
  <2>3. q.data = q.seq
    BY <2>2, GoodMessage
  <2> QED BY <2>2, <2>3 DEF q
<1> QED BY <1>1 DEF Payloads

LEMMA AppendToPrefix ==
    ASSUME NEW s \in Nat, NEW t \in Nat, s <= t
    PROVE  [k \in 1..s |-> k] \o [i \in 1..(t - s) |-> s + i] = [k \in 1..t |-> k]
<1> DEFINE a == [k \in 1..s |-> k]
           b == [i \in 1..(t - s) |-> s + i]
<1>1. a \in Seq(Nat) /\ Len(a) = s
  OBVIOUS
<1>2. b \in Seq(Nat) /\ Len(b) = t - s
  OBVIOUS
<1>3. \A i \in 1..s : a[i] = i
  OBVIOUS
<1>4. \A i \in 1..(t - s) : b[i] = s + i
  OBVIOUS
<1>5. [k \in 1..t |-> k] \in Seq(Nat) /\ Len([k \in 1..t |-> k]) = t
  OBVIOUS
<1> HIDE DEF a, b
<1>6. a \o b \in Seq(Nat) /\ Len(a \o b) = t
  BY <1>1, <1>2, ConcatProperties
<1>7. \A i \in 1..t : (a \o b)[i] = i
  <2> TAKE i \in 1..t
  <2>1. i \in 1..(Len(a) + Len(b))
    BY <1>1, <1>2
  <2>2. (a \o b)[i] = IF i <= Len(a) THEN a[i] ELSE b[i - Len(a)]
    BY <1>1, <1>2, <2>1, ConcatProperties
  <2> QED BY <1>1, <1>3, <1>4, <2>2
<1>8. a \o b = [k \in 1..t |-> k]
  BY <1>5, <1>6, <1>7, SeqEqual
<1> QED BY <1>8 DEF a, b

(***************************************************************************)
(* Steps                                                                   *)
(***************************************************************************)

\* Receiving consumes: it adds nothing to the network.
LEMMA FromClientShrinks ==
    ASSUME TypeOK, NEW m, FromClient(m)
    PROVE  m \in toServer /\ toServer' \subseteq toServer /\ faults' \in 0..MaxFaults
BY DEF TypeOK, FromClient

LEMMA FromServerShrinks ==
    ASSUME TypeOK, NEW m, FromServer(m)
    PROVE  m \in toClient /\ toClient' \subseteq toClient /\ faults' \in 0..MaxFaults
BY DEF TypeOK, FromServer

\* The packets of a window that starts where chunk p ended are labelled with
\* the chunks and the sequence numbers of the data they carry.
LEMMA WindowLabelled ==
    ASSUME NEW p \in 0..NChunks, NEW w \in 0..(WindowMod-1),
           NEW m \in SendWindow(p, p, Bound[p], w)
    PROVE  m \in ClientMessages /\ Labelled(m)
<1>1. LoadWindow(p, w) \in p..NChunks
  BY DEF LoadWindow, SmallerOf
<1>2. PICK i \in (p+1)..LoadWindow(p, w) :
      \E k \in (Bound[i-1]+1)..Bound[i] :
         m = [type |-> "FILE", chunk |-> p + (i - p), seq |-> Bound[p] + (k - Bound[p]),
              window |-> w, last |-> (k = Bound[i]), data |-> k]
  BY DEF SendWindow
<1>3. i \in 1..NChunks /\ i \in 0..NChunks /\ i-1 \in 0..NChunks /\ p + (i - p) = i
  BY <1>1
<1>4. Bound[i] \in Nat /\ Bound[i-1] \in Nat /\ Bound[p] \in Nat
  BY <1>3, BoundType
<1>5. PICK k \in (Bound[i-1]+1)..Bound[i] :
         m = [type |-> "FILE", chunk |-> i, seq |-> Bound[p] + (k - Bound[p]),
              window |-> w, last |-> (k = Bound[i]), data |-> k]
  BY <1>2, <1>3
<1>6. k \in Nat /\ Bound[i-1] < k /\ k <= Bound[i] /\ Bound[p] + (k - Bound[p]) = k
  BY <1>4
<1>7. m = [type |-> "FILE", chunk |-> i, seq |-> k, window |-> w,
           last |-> (k = Bound[i]), data |-> k]
  BY <1>5, <1>6
<1>8. m.last = (m.seq = Bound[m.chunk])
  BY <1>7, Zenon
<1>9. (k = Bound[i]) \in BOOLEAN
  OBVIOUS
<1>10. m \in ClientMessages
  BY <1>3, <1>6, <1>7, <1>9 DEF ClientMessages
<1> QED BY <1>3, <1>6, <1>7, <1>8, <1>10 DEF Labelled

LEMMA StartWindowKeepsSender ==
    ASSUME TypeOK, FilesLabelled, NEW p \in 0..NChunks, NEW w \in 0..(WindowMod-1),
           NEW reply \in SUBSET {ReplyMsg("ACK")},
           StartWindow(p, p, Bound[p], w, reply), recvList' = recvList
    PROVE  /\ sPos' \in 0..NChunks /\ sChunk' = sPos' /\ sSeq' = Bound[sChunk']
           /\ sSeq' \in Nat
           /\ toClient' \subseteq ClientMessages
           /\ FilesLabelled'
<1>1. LoadWindow(p, w) \in 0..NChunks
  BY DEF LoadWindow, SmallerOf
<1>2. Bound[p] \in Nat /\ Bound[LoadWindow(p, w)] \in Nat
  BY <1>1, BoundType
<1>3. sPos' \in 0..NChunks /\ sChunk' = sPos' /\ sSeq' = Bound[sChunk'] /\ sSeq' \in Nat
  BY <1>1, <1>2 DEF StartWindow
<1>4. ReplyMsg("ACK") \in ClientMessages /\ ReplyMsg("ACK").type = "ACK"
  BY DEF ReplyMsg, ClientMessages
<1>5. toClient' = toClient \cup reply \cup SendWindow(p, p, Bound[p], w)
  BY DEF StartWindow
<1>6. toClient' \subseteq ClientMessages
  BY <1>4, <1>5, WindowLabelled DEF TypeOK
<1>7. FilesLabelled'
  BY <1>4, <1>5, WindowLabelled DEF FilesLabelled
<1> QED BY <1>3, <1>6, <1>7

\* The invariant speaks of the client's own state only through these conjuncts.
LEMMA ClientUnchanged ==
    ASSUME IInv, UNCHANGED clientVars
    PROVE  ReceiverConsistent' /\ CompletionNotMissed' /\ BufferIncomplete' /\ GetRetriesLeft'
<1>1. UNCHANGED <<cState, tries, rChunk, rSeq, recvList, out>>
  BY DEF clientVars, fileVars
<1>2. ReceiverConsistent'
  BY <1>1 DEF IInv, ReceiverConsistent
<1>3. CompletionNotMissed'
  BY <1>1 DEF IInv, CompletionNotMissed
<1>4. BufferIncomplete'
  BY <1>1 DEF IInv, BufferIncomplete
<1>5. GetRetriesLeft'
  BY <1>1 DEF IInv, GetRetriesLeft
<1> QED BY <1>2, <1>3, <1>4, <1>5

\* The inductive invariant holds in the initial state.
THEOREM InitIInv == Init => IInv
<1> SUFFICES ASSUME Init PROVE IInv
  OBVIOUS
<1> USE DEF Init
<1>1. TypeOK
  <2>1. GetMsg \in ServerMessages
    BY DEF GetMsg, ServerMessages
  <2>2. <<>> \in Seq(Nat)
    BY EmptySeq
  <2>3. present \in BOOLEAN /\ flow \in BOOLEAN
    BY Zenon
  <2>4. /\ sPos \in 0..NChunks /\ tries \in 0..(Retries + 1)
        /\ lastWin \in 0..(WindowMod - 1) /\ faults \in 0..MaxFaults
    OBVIOUS
  <2>5. /\ sChunk \in Nat /\ sSeq \in Nat /\ rChunk \in Nat /\ rSeq \in Nat
        /\ cState \in Running /\ out \in Seq(Nat)
    BY <2>2 DEF Running
  <2>6. /\ recvList \in SUBSET ClientMessages /\ toServer \in SUBSET ServerMessages
        /\ toClient \in SUBSET ClientMessages
    BY <2>1
  <2> QED BY <2>3, <2>4, <2>5, <2>6 DEF TypeOK
<1>2. SenderConsistent /\ FilesLabelled /\ CompletionNotMissed /\ GetRetriesLeft
  BY DEF SenderConsistent, FilesLabelled, CompletionNotMissed, GetRetriesLeft
<1>3. ReceiverConsistent
  BY BoundZero DEF ReceiverConsistent
<1>4. AcksCoverWritten
  BY DEF AcksCoverWritten, IsAck, GetMsg
<1>5. BufferIncomplete
  BY DEF BufferIncomplete, ReceivedChunks, Contiguous
<1> QED BY <1>1, <1>2, <1>3, <1>4, <1>5 DEF IInv

\* Actions of the server that change neither the client nor the flow.
LEMMA ServerIdleStep ==
    ASSUME IInv, UNCHANGED <<flow, sChunk, sSeq, sPos>>, UNCHANGED clientVars,
           present' \in BOOLEAN,
           toServer' \subseteq toServer, faults' \in 0..MaxFaults,
           toClient' \subseteq toClient \cup {ReplyMsg("NACK")}
    PROVE  IInv'
<1>0. ReplyMsg("NACK") \in ClientMessages /\ ReplyMsg("NACK").type = "NACK"
  BY DEF ReplyMsg, ClientMessages
<1>1. TypeOK'
  BY <1>0 DEF IInv, TypeOK, clientVars, fileVars
<1>2. SenderConsistent'
  BY DEF IInv, SenderConsistent
<1>3. FilesLabelled'
  BY <1>0 DEF IInv, FilesLabelled, clientVars, fileVars
<1>4. AcksCoverWritten'
  BY DEF IInv, AcksCoverWritten, clientVars, fileVars
<1> QED BY <1>1, <1>2, <1>3, <1>4, ClientUnchanged DEF IInv

\* Actions of the server that send a window.
LEMMA ServerWindowStep ==
    ASSUME IInv, UNCHANGED clientVars, UNCHANGED present, flow' \in BOOLEAN,
           toServer' \subseteq toServer, faults' \in 0..MaxFaults,
           NEW p \in 0..NChunks, NEW w \in 0..(WindowMod-1),
           NEW reply \in SUBSET {ReplyMsg("ACK")},
           StartWindow(p, p, Bound[p], w, reply)
    PROVE  IInv'
<1>1. /\ sPos' \in 0..NChunks /\ sChunk' = sPos' /\ sSeq' = Bound[sChunk']
      /\ sSeq' \in Nat /\ toClient' \subseteq ClientMessages /\ FilesLabelled'
  BY StartWindowKeepsSender DEF IInv, clientVars, fileVars
<1>2. TypeOK'
  BY <1>1 DEF IInv, TypeOK, clientVars, fileVars
<1>3. SenderConsistent'
  BY <1>1 DEF SenderConsistent
<1>4. AcksCoverWritten'
  BY DEF IInv, AcksCoverWritten, clientVars, fileVars
<1> QED BY <1>1, <1>2, <1>3, <1>4, ClientUnchanged DEF IInv

LEMMA BufferIsGood == IInv => rChunk \in 0..NChunks /\ GoodList(recvList, rChunk)
<1> SUFFICES ASSUME IInv PROVE rChunk \in 0..NChunks /\ GoodList(recvList, rChunk)
  OBVIOUS
<1>1. rChunk \in 0..NChunks /\ recvList \subseteq ClientMessages
  BY DEF IInv, TypeOK, ReceiverConsistent
<1>2. \A m \in recvList : m.type = "FILE" /\ Labelled(m) /\ m.chunk > rChunk
  BY DEF IInv, FilesLabelled, ReceiverConsistent
<1>3. \A m, p \in recvList : m.seq = p.seq => m = p
  BY DEF IInv, ReceiverConsistent
<1> QED BY <1>1, <1>2, <1>3 DEF GoodList

\* A FILE message of a new chunk is good for the reception list.
LEMMA ReceivedIsGood ==
    ASSUME IInv, NEW m \in toClient, m.type = "FILE", m.chunk > rChunk
    PROVE  GoodList(RecvListAdd(recvList, m), rChunk)
<1>1. m \in ClientMessages /\ Labelled(m)
  BY DEF IInv, TypeOK, FilesLabelled
<1> QED BY <1>1, BufferIsGood, AddKeepsGood

\* Writing the complete chunks moves the client to a later chunk boundary.
LEMMA WriteMovesToBoundary ==
    ASSUME IInv, NEW list, GoodList(list, rChunk), ReceivedChunks(list, rSeq) # {},
           WriteRecvList(list, LastMessage(ReceivedChunks(list, rSeq)))
    PROVE  /\ rChunk' \in (rChunk+1)..NChunks
           /\ rSeq' = Bound[rChunk'] /\ rSeq' \in Nat /\ rSeq < rSeq'
           /\ out' = [k \in 1..rSeq' |-> k]
           /\ recvList' = {}
           /\ rChunk' = LastMessage(ReceivedChunks(list, rSeq)).chunk
           /\ rSeq' = LastMessage(ReceivedChunks(list, rSeq)).seq
           /\ Cardinality(ReceivedChunks(list, rSeq)) = rChunk' - rChunk
<1> DEFINE chunks == ReceivedChunks(list, rSeq)
           last   == LastMessage(chunks)
<1>1. /\ rChunk \in 0..NChunks /\ rSeq = Bound[rChunk] /\ rSeq \in Nat
      /\ out = [k \in 1..rSeq |-> k]
  BY BufferIsGood, BoundType DEF IInv, ReceiverConsistent
<1>2. /\ last \in list /\ last.chunk \in (rChunk+1)..NChunks
      /\ last.seq = Bound[last.chunk]
      /\ \A k \in (rSeq+1)..last.seq : \E p \in list : p.seq = k
      /\ Cardinality(chunks) = last.chunk - rChunk
  BY <1>1, ReceivedChunksAreConsecutive
<1> HIDE DEF last
<1>3. last.chunk \in 0..NChunks /\ last.seq \in Nat /\ rSeq < last.seq
  <2>1. last.chunk \in 0..NChunks /\ rChunk < last.chunk
    BY <1>1, <1>2
  <2>2. Bound[rChunk] < Bound[last.chunk]
    BY <1>1, <2>1, BoundAssumption
  <2> QED BY <1>1, <1>2, <2>1, <2>2, BoundType
<1>4. Payloads(list, rSeq, last) = [i \in 1..(last.seq - rSeq) |-> rSeq + i]
  BY <1>1, <1>2, <1>3, PayloadsAreTheFile
<1>5. out' = out \o Payloads(list, rSeq, last) /\ recvList' = {}
      /\ rChunk' = last.chunk /\ rSeq' = last.seq
  BY DEF WriteRecvList, last
<1>6. out' = [k \in 1..last.seq |-> k]
  <2>1. [k \in 1..rSeq |-> k] \o [i \in 1..(last.seq - rSeq) |-> rSeq + i] = [k \in 1..last.seq |-> k]
    <3>1. last.seq \in Nat /\ rSeq \in Nat /\ rSeq <= last.seq
      BY <1>1, <1>3
    <3> QED BY <3>1, AppendToPrefix, Zenon
  <2> QED BY <1>1, <1>4, <1>5, <2>1
<1> QED BY <1>2, <1>3, <1>5, <1>6 DEF last

\* The parts of the invariant after the client wrote up to a chunk boundary and
\* sent one acknowledgement of it.
LEMMA WriteStep ==
    ASSUME IInv, UNCHANGED serverVars,
           rChunk' \in rChunk..NChunks, rSeq' = Bound[rChunk'], rSeq' \in Nat,
           out' = [k \in 1..rSeq' |-> k], recvList' = {},
           cState' \in Running => rChunk' = 0 \/ rChunk' < NChunks,
           cState' \in Running \cup Final,
           tries' \in 0..(Retries+1), cState' = "get" => tries' <= Retries,
           lastWin' \in 0..(WindowMod-1),
           faults' \in 0..MaxFaults, toClient' \subseteq toClient,
           NEW w \in 0..(WindowMod-1),
           toServer' = toServer \cup {AckMsg(rChunk', rSeq', w)}
    PROVE  IInv'
<1>0. rChunk \in 0..NChunks /\ rChunk' \in 0..NChunks
  BY BufferIsGood
<1>1. AckMsg(rChunk', rSeq', w) \in ServerMessages
  BY <1>0 DEF AckMsg, ServerMessages
<1>2. out' \in Seq(Nat)
  OBVIOUS
<1>3. TypeOK'
  BY <1>0, <1>1, <1>2 DEF IInv, TypeOK, serverVars
<1>4. SenderConsistent'
  BY DEF IInv, SenderConsistent, serverVars
<1>5. FilesLabelled'
  BY DEF IInv, FilesLabelled
<1>6. ReceiverConsistent'
  BY <1>0 DEF ReceiverConsistent
<1>7. AcksCoverWritten'
  BY <1>0 DEF IInv, AcksCoverWritten, AckMsg, TypeOK, ServerMessages
<1>8. CompletionNotMissed'
  BY DEF CompletionNotMissed
<1>9. BufferIncomplete'
  BY DEF BufferIncomplete, ReceivedChunks, Contiguous
<1>10. GetRetriesLeft'
  BY DEF GetRetriesLeft
<1> QED BY <1>3, <1>4, <1>5, <1>6, <1>7, <1>8, <1>9, <1>10 DEF IInv

\* Steps that leave the file on disk alone and add acknowledgements of it at most.
LEMMA ClientQuietStep ==
    ASSUME IInv, UNCHANGED serverVars, UNCHANGED <<rChunk, rSeq, out>>,
           GoodList(recvList', rChunk),
           cState' \in Running \cup Final, cState' \in Running => cState \in Running,
           cState' \in Running =>
               \A m \in ReceivedChunks(recvList', rSeq) : m.chunk < NChunks,
           tries' \in 0..(Retries+1), cState' = "get" => tries' <= Retries,
           lastWin' \in 0..(WindowMod-1),
           faults' \in 0..MaxFaults, toClient' \subseteq toClient,
           toServer' \subseteq toServer \cup
              {GetMsg} \cup {AckMsg(rChunk, rSeq, w) : w \in 0..(WindowMod-1)}
    PROVE  IInv'
<1>0. rChunk \in 0..NChunks /\ rSeq = Bound[rChunk] /\ rSeq \in Nat
  BY BufferIsGood, BoundType DEF IInv, ReceiverConsistent
<1>1. toServer' \subseteq ServerMessages
  <2>1. GetMsg \in ServerMessages
    BY DEF GetMsg, ServerMessages
  <2>2. \A w \in 0..(WindowMod-1) : AckMsg(rChunk, rSeq, w) \in ServerMessages
    BY <1>0 DEF AckMsg, ServerMessages
  <2> QED BY <2>1, <2>2 DEF IInv, TypeOK
<1>2. TypeOK'
  BY <1>1 DEF IInv, TypeOK, serverVars, GoodList
<1>3. SenderConsistent'
  BY DEF IInv, SenderConsistent, serverVars
<1>4. FilesLabelled'
  BY DEF IInv, FilesLabelled, GoodList
<1>5. ReceiverConsistent'
  BY DEF IInv, ReceiverConsistent, GoodList
<1>6. AcksCoverWritten'
  BY <1>0 DEF IInv, AcksCoverWritten, AckMsg, GetMsg, IsAck
<1>7. CompletionNotMissed'
  BY DEF IInv, CompletionNotMissed
<1>8. BufferIncomplete'
  BY DEF BufferIncomplete
<1>9. GetRetriesLeft'
  BY DEF GetRetriesLeft
<1> QED BY <1>2, <1>3, <1>4, <1>5, <1>6, <1>7, <1>8, <1>9 DEF IInv

\* Receiving resets the counter and keeps the message's window.
LEMMA ReceivedTypes ==
    ASSUME TypeOK, NEW m, Received(m)
    PROVE  /\ m \in toClient /\ m \in ClientMessages /\ m.window \in 0..(WindowMod-1)
           /\ toClient' \subseteq toClient /\ faults' \in 0..MaxFaults
           /\ tries' = 0 /\ tries' \in 0..(Retries+1) /\ lastWin' \in 0..(WindowMod-1)
<1>1. FromServer(m) /\ tries' = 0 /\ lastWin' = m.window
  BY DEF Received
<1>2. m \in toClient /\ toClient' \subseteq toClient /\ faults' \in 0..MaxFaults
  BY <1>1, FromServerShrinks
<1>3. m \in ClientMessages /\ m.window \in 0..(WindowMod-1)
  BY <1>2 DEF TypeOK, ClientMessages
<1> QED BY <1>1, <1>2, <1>3

\* A message that completes the window moves the client to a later chunk
\* boundary; with the last chunk the MD5 of the file is right.
LEMMA WindowWrites ==
    ASSUME IInv, ClientWindow
    PROVE  /\ rChunk' \in (rChunk+1)..NChunks /\ rSeq' = Bound[rChunk'] /\ rSeq' \in Nat
           /\ out' = [k \in 1..rSeq' |-> k] /\ recvList' = {}
           /\ cState' = IF rChunk' = NChunks THEN "installed" ELSE "file"
           /\ \E w \in 0..(WindowMod-1) :
                 toServer' = toServer \cup {AckMsg(rChunk', rSeq', w)}
<1>1. PICK m \in toClient :
         /\ m.type = "FILE" /\ m.chunk > rChunk
         /\ LET list   == RecvListAdd(recvList, m)
                chunks == ReceivedChunks(list, rSeq)
                last   == LastMessage(chunks)
            IN  /\ WindowComplete(Cardinality(chunks), m.window)
                /\ WriteRecvList(list, last)
                /\ toServer' = toServer \cup
                      {AckMsg(last.chunk, last.seq, (m.window + 1) % WindowMod)}
                /\ cState' = IF last.chunk = NChunks THEN FileFinish(out') ELSE "file"
         /\ Received(m)
  BY DEF ClientWindow
<1> DEFINE list   == RecvListAdd(recvList, m)
           chunks == ReceivedChunks(list, rSeq)
           last   == LastMessage(chunks)
<1>2. GoodList(list, rChunk)
  BY <1>1, ReceivedIsGood
<1>3. chunks # {}
  <2>1. Cardinality(chunks) > 0
    BY <1>1 DEF WindowComplete
  <2> QED BY <2>1, FS_EmptySet
<1>4. /\ rChunk' \in (rChunk+1)..NChunks /\ rSeq' = Bound[rChunk'] /\ rSeq' \in Nat
      /\ out' = [k \in 1..rSeq' |-> k] /\ recvList' = {}
      /\ rChunk' = last.chunk /\ rSeq' = last.seq
  BY <1>1, <1>2, <1>3, WriteMovesToBoundary
<1> HIDE DEF last, chunks, list
<1>5. (m.window + 1) % WindowMod \in 0..(WindowMod-1)
  <2>1. m.window \in Nat
    BY <1>1, ReceivedTypes DEF IInv
  <2> QED BY <2>1
<1>6. toServer' = toServer \cup {AckMsg(rChunk', rSeq', (m.window + 1) % WindowMod)}
  BY <1>1, <1>4 DEF last, chunks, list
<1>7. cState' = IF rChunk' = NChunks THEN FileFinish(out') ELSE "file"
  BY <1>1, <1>4 DEF last, chunks, list
<1>8. rChunk' = NChunks => FileFinish(out') = "installed"
  BY <1>4 DEF FileFinish, File
<1> QED BY <1>4, <1>5, <1>6, <1>7, <1>8

\* A timeout writes what is complete, which is never the end of the file.
LEMMA TimeoutWrites ==
    ASSUME IInv, ClientFileTimeout
    PROVE  /\ \/ UNCHANGED fileVars
              \/ /\ rChunk' \in (rChunk+1)..NChunks /\ rChunk' < NChunks
                 /\ rSeq' = Bound[rChunk'] /\ rSeq' \in Nat
                 /\ out' = [k \in 1..rSeq' |-> k] /\ recvList' = {}
           /\ \E w \in 0..(WindowMod-1) :
                 toServer' = toServer \cup {AckMsg(rChunk', rSeq', w)}
<1> DEFINE chunks == ReceivedChunks(recvList, rSeq)
           last   == LastMessage(chunks)
<1>1. /\ cState \in Running
      /\ IF chunks # {} THEN WriteRecvList(recvList, last) ELSE UNCHANGED fileVars
      /\ toServer' = toServer \cup {AckMsg(rChunk', rSeq', HalfWindow(lastWin))}
  BY DEF ClientFileTimeout, Running
<1>2. HalfWindow(lastWin) \in 0..(WindowMod-1)
  BY DEF IInv, TypeOK, HalfWindow
<1>3. CASE chunks # {}
  <2>1. rChunk \in 0..NChunks /\ GoodList(recvList, rChunk)
    BY BufferIsGood
  <2>2. /\ rChunk' \in (rChunk+1)..NChunks /\ rSeq' = Bound[rChunk'] /\ rSeq' \in Nat
        /\ out' = [k \in 1..rSeq' |-> k] /\ recvList' = {} /\ rChunk' = last.chunk
    BY <1>1, <1>3, <2>1, WriteMovesToBoundary
  <2>3. last \in chunks
    <3>1. \A p \in chunks : p.seq \in Nat /\ p.seq <= Bound[NChunks]
      BY <2>1, GoodMessage DEF ReceivedChunks, Contiguous
    <3>2. Bound[NChunks] \in Nat
      BY BoundType
    <3> QED BY <1>3, <3>1, <3>2, LastMessageIsLast
  <2>4. last.chunk < NChunks
    BY <1>1, <2>3 DEF IInv, BufferIncomplete
  <2> HIDE DEF last, chunks
  <2> QED BY <1>1, <1>2, <2>2, <2>4
<1>4. CASE chunks = {}
  BY <1>1, <1>2, <1>4
<1> QED BY <1>3, <1>4

\* Every step of the transfer preserves the inductive invariant.
THEOREM NextIInv == IInv /\ [Next]_vars => IInv'
<1> SUFFICES ASSUME IInv, [Next]_vars PROVE IInv'
  OBVIOUS
<1>t. TypeOK
  BY DEF IInv
<1>g. rChunk \in 0..NChunks /\ GoodList(recvList, rChunk)
  BY BufferIsGood
<1>1. CASE ServerGetMissing
  <2>1. /\ FromClient(GetMsg) /\ toClient' = toClient \cup {ReplyMsg("NACK")}
        /\ UNCHANGED serverVars /\ UNCHANGED clientVars
    BY <1>1 DEF ServerGetMissing
  <2>2. UNCHANGED <<flow, sChunk, sSeq, sPos>> /\ present' \in BOOLEAN
    BY <1>t, <2>1 DEF serverVars, TypeOK
  <2> QED BY <1>t, <2>1, <2>2, FromClientShrinks, ServerIdleStep
<1>2. CASE ServerGetDuplicate
  <2>1. FromClient(GetMsg) /\ toClient' = toClient
        /\ UNCHANGED serverVars /\ UNCHANGED clientVars
    BY <1>2 DEF ServerGetDuplicate
  <2>2. UNCHANGED <<flow, sChunk, sSeq, sPos>> /\ present' \in BOOLEAN
    BY <1>t, <2>1 DEF serverVars, TypeOK
  <2> QED BY <1>t, <2>1, <2>2, FromClientShrinks, ServerIdleStep
<1>3. CASE ServerGetAccept
  <2>1. /\ FromClient(GetMsg) /\ flow' \in BOOLEAN
        /\ StartWindow(0, 0, 0, 1, {ReplyMsg("ACK")})
        /\ UNCHANGED present /\ UNCHANGED clientVars
    BY <1>3 DEF ServerGetAccept, GetMsg
  <2>2. 1 \in 0..(WindowMod-1)
    OBVIOUS
  <2>3. toServer' \subseteq toServer /\ faults' \in 0..MaxFaults
    BY <1>t, <2>1, FromClientShrinks
  <2>4. StartWindow(0, 0, Bound[0], 1, {ReplyMsg("ACK")})
    BY <2>1, BoundZero
  <2> QED BY <2>1, <2>2, <2>3, <2>4, BoundZero, ServerWindowStep
<1>4. CASE ServerAckIgnored
  <2>1. PICK m \in toServer : FromClient(m)
    BY <1>4 DEF ServerAckIgnored
  <2>2. toClient' = toClient /\ UNCHANGED serverVars /\ UNCHANGED clientVars
    BY <1>4 DEF ServerAckIgnored
  <2>3. UNCHANGED <<flow, sChunk, sSeq, sPos>> /\ present' \in BOOLEAN
    BY <1>t, <2>2 DEF serverVars, TypeOK
  <2> QED BY <1>t, <2>1, <2>2, <2>3, FromClientShrinks, ServerIdleStep
<1>5. CASE ServerAckFinal
  <2>1. PICK m \in toServer : FromClient(m)
    BY <1>5 DEF ServerAckFinal
  <2>2. /\ flow' = FALSE /\ sChunk' = 0 /\ sSeq' = 0 /\ sPos' = 0
        /\ present' = present /\ UNCHANGED clientVars /\ toClient' = toClient
    BY <1>5 DEF ServerAckFinal
  <2>3. toServer' \subseteq toServer /\ faults' \in 0..MaxFaults
    BY <1>t, <2>1, FromClientShrinks
  <2>4. TypeOK'
    BY <1>t, <2>2, <2>3, BoundZero DEF TypeOK, clientVars, fileVars
  <2>5. SenderConsistent'
    BY <2>2 DEF SenderConsistent
  <2>6. FilesLabelled'
    BY <2>2 DEF IInv, FilesLabelled, clientVars, fileVars
  <2>7. AcksCoverWritten'
    BY <2>2, <2>3 DEF IInv, AcksCoverWritten, clientVars, fileVars
  <2> QED BY <2>2, <2>4, <2>5, <2>6, <2>7, ClientUnchanged DEF IInv
<1>6. CASE ServerAckRewind
  <2>1. PICK m \in toServer :
           /\ IsAck(m) /\ m.chunk < NChunks /\ FromClient(m)
           /\ StartWindow(m.chunk, m.chunk, m.seq, m.window, {})
    BY <1>6 DEF ServerAckRewind
  <2>2. present' = present /\ flow' \in BOOLEAN /\ UNCHANGED clientVars
    BY <1>6, <1>t DEF ServerAckRewind, TypeOK
  <2>3. m.chunk \in 0..NChunks /\ m.window \in 0..(WindowMod-1) /\ m.seq = Bound[m.chunk]
    BY <1>t, <2>1 DEF IInv, AcksCoverWritten, TypeOK, ServerMessages
  <2>4. toServer' \subseteq toServer /\ faults' \in 0..MaxFaults
    BY <1>t, <2>1, FromClientShrinks
  <2> DEFINE p == m.chunk
             w == m.window
  <2>5. StartWindow(p, p, Bound[p], w, {})
    BY <2>1, <2>3
  <2>6. p \in 0..NChunks /\ w \in 0..(WindowMod-1) /\ {} \in SUBSET {ReplyMsg("ACK")}
    BY <2>3
  <2> HIDE DEF p, w
  <2> QED BY <2>2, <2>4, <2>5, <2>6, ServerWindowStep
<1>7. CASE ServerAckAdvance
  <2>1. PICK m \in toServer :
           FromClient(m) /\ StartWindow(sPos, sChunk, sSeq, m.window, {})
    BY <1>7 DEF ServerAckAdvance
  <2>2. present' = present /\ flow' \in BOOLEAN /\ UNCHANGED clientVars
    BY <1>7, <1>t DEF ServerAckAdvance, TypeOK
  <2>3. sPos \in 0..NChunks /\ sChunk = sPos /\ sSeq = Bound[sPos]
        /\ m.window \in 0..(WindowMod-1)
    BY <1>7, <1>t, <2>1 DEF ServerAckAdvance, IInv, SenderConsistent, TypeOK, ServerMessages
  <2>4. toServer' \subseteq toServer /\ faults' \in 0..MaxFaults
    BY <1>t, <2>1, FromClientShrinks
  <2>5. StartWindow(sPos, sPos, Bound[sPos], m.window, {})
    BY <2>1, <2>3
  <2> QED BY <2>2, <2>3, <2>4, <2>5, ServerWindowStep
<1>8. CASE ClientNacked
  <2>1. PICK m \in toClient : Received(m)
    BY <1>8 DEF ClientNacked
  <2>2. /\ cState' = "nacked" /\ UNCHANGED serverVars
        /\ UNCHANGED <<rChunk, rSeq, out>> /\ recvList' = recvList /\ toServer' = toServer
    BY <1>8 DEF ClientNacked, fileVars
  <2>3. cState' \notin Running /\ cState' \in Final
    BY <2>2 DEF Running, Final
  <2> QED BY <1>t, <1>g, <2>1, <2>2, <2>3, ReceivedTypes, ClientQuietStep
<1>9. CASE ClientIgnore
  <2>1. PICK m \in toClient : Received(m)
    BY <1>9 DEF ClientIgnore
  <2>2. /\ cState \in Running /\ cState' = "file" /\ UNCHANGED serverVars
        /\ UNCHANGED <<rChunk, rSeq, out>> /\ recvList' = recvList /\ toServer' = toServer
    BY <1>9 DEF ClientIgnore, fileVars
  <2>3. cState' \in Running
    BY <2>2 DEF Running
  <2>4. \A p \in ReceivedChunks(recvList', rSeq) : p.chunk < NChunks
    BY <2>2 DEF IInv, BufferIncomplete
  <2> QED BY <1>t, <1>g, <2>1, <2>2, <2>3, <2>4, ReceivedTypes, ClientQuietStep
<1>10. CASE ClientBuffer
  <2>1. PICK m \in toClient :
           /\ m.type = "FILE" /\ m.chunk > rChunk
           /\ LET list == RecvListAdd(recvList, m)
              IN  /\ ~WindowComplete(Cardinality(ReceivedChunks(list, rSeq)), m.window)
                  /\ recvList' = list
           /\ Received(m)
    BY <1>10 DEF ClientBuffer
  <2>2. /\ cState \in Running /\ cState' = "file" /\ UNCHANGED serverVars
        /\ UNCHANGED <<rChunk, rSeq, out>> /\ toServer' = toServer
    BY <1>10 DEF ClientBuffer
  <2>3. cState' \in Running
    BY <2>2 DEF Running
  <2>4. GoodList(recvList', rChunk)
    BY <2>1, ReceivedIsGood
  <2>5. \A p \in ReceivedChunks(recvList', rSeq) : p.chunk < NChunks
    <3> DEFINE chunks == ReceivedChunks(recvList', rSeq)
    <3> SUFFICES ASSUME NEW p \in chunks PROVE p.chunk < NChunks
      OBVIOUS
    <3>1. rSeq = Bound[rChunk]
      BY DEF IInv, ReceiverConsistent
    <3>2. /\ LastMessage(chunks).chunk \in (rChunk+1)..NChunks
          /\ p.chunk <= LastMessage(chunks).chunk
          /\ Cardinality(chunks) = LastMessage(chunks).chunk - rChunk
      BY <1>g, <2>4, <3>1, ReceivedChunksAreConsecutive
    <3>3. ~WindowComplete(Cardinality(chunks), m.window)
      BY <2>1
    <3>4. rChunk + Cardinality(chunks) # NChunks
      BY <1>g, <3>2, <3>3 DEF WindowComplete
    <3>5. p \in recvList' /\ p.chunk \in Nat
      BY <2>4, <1>g, GoodMessage DEF ReceivedChunks, Contiguous
    <3> QED BY <1>g, <3>2, <3>4, <3>5
  <2> QED BY <1>t, <2>1, <2>2, <2>3, <2>4, <2>5, ReceivedTypes, ClientQuietStep
<1>11. CASE ClientWindow
  <2>1. PICK w \in 0..(WindowMod-1) :
           toServer' = toServer \cup {AckMsg(rChunk', rSeq', w)}
    BY <1>11, WindowWrites
  <2>2. UNCHANGED serverVars
    BY <1>11 DEF ClientWindow
  <2>3. /\ rChunk' \in (rChunk+1)..NChunks /\ rSeq' = Bound[rChunk'] /\ rSeq' \in Nat
        /\ out' = [k \in 1..rSeq' |-> k] /\ recvList' = {}
        /\ cState' = IF rChunk' = NChunks THEN "installed" ELSE "file"
    BY <1>11, WindowWrites
  <2>4. PICK m : Received(m)
    BY <1>11 DEF ClientWindow
  <2>5. /\ cState' \in Running \cup Final /\ cState' # "get"
        /\ cState' \in Running => rChunk' < NChunks
    BY <1>g, <2>3 DEF Running, Final
  <2>6. rChunk' \in rChunk..NChunks
    BY <1>g, <2>3
  <2> QED BY <1>t, <2>1, <2>2, <2>3, <2>4, <2>5, <2>6, ReceivedTypes, WriteStep
<1>12. CASE ClientGetTimeout
  <2>1. /\ cState = "get" /\ toServer' = toServer \cup {GetMsg} /\ tries' = tries + 1
        /\ cState' = IF tries + 1 > Retries THEN "failed" ELSE "get"
        /\ UNCHANGED serverVars /\ lastWin' = lastWin /\ toClient' = toClient
        /\ faults' = faults /\ UNCHANGED <<rChunk, rSeq, out>> /\ recvList' = recvList
    BY <1>12 DEF ClientGetTimeout, fileVars
  <2>2. tries' \in 0..(Retries+1) /\ (cState' = "get" => tries' <= Retries)
    BY <1>t, <2>1 DEF IInv, GetRetriesLeft, TypeOK
  <2>3. cState \in Running /\ cState' \in Running \cup Final
    BY <2>1 DEF Running, Final
  <2>4. \A p \in ReceivedChunks(recvList', rSeq) : p.chunk < NChunks
    BY <2>1, <2>3 DEF IInv, BufferIncomplete
  <2>5. lastWin' \in 0..(WindowMod-1) /\ faults' \in 0..MaxFaults
    BY <1>t, <2>1 DEF TypeOK
  <2> QED BY <1>g, <2>1, <2>2, <2>3, <2>4, <2>5, ClientQuietStep
<1>13. CASE ClientFileTimeout
  <2>1. /\ cState = "file" /\ tries <= Retries /\ tries' = tries + 1 /\ cState' = cState
        /\ UNCHANGED serverVars /\ lastWin' = lastWin /\ toClient' = toClient
        /\ faults' = faults
    BY <1>13 DEF ClientFileTimeout
  <2>2. /\ tries' \in 0..(Retries+1) /\ lastWin' \in 0..(WindowMod-1)
        /\ faults' \in 0..MaxFaults
    BY <1>t, <2>1 DEF TypeOK
  <2>3. cState \in Running /\ cState' \in Running /\ cState' # "get"
    BY <2>1 DEF Running
  <2>4. PICK w \in 0..(WindowMod-1) :
           toServer' = toServer \cup {AckMsg(rChunk', rSeq', w)}
    BY <1>13, TimeoutWrites
  <2>5. CASE UNCHANGED fileVars
    <3>1. UNCHANGED <<rChunk, rSeq, out>> /\ recvList' = recvList
      BY <2>5 DEF fileVars
    <3>2. toServer' \subseteq toServer \cup {AckMsg(rChunk, rSeq, v) : v \in 0..(WindowMod-1)}
      BY <2>4, <3>1
    <3>3. \A p \in ReceivedChunks(recvList', rSeq) : p.chunk < NChunks
      BY <2>3, <3>1 DEF IInv, BufferIncomplete
    <3> QED BY <1>g, <2>1, <2>2, <2>3, <3>1, <3>2, <3>3, ClientQuietStep
  <2>6. CASE ~ UNCHANGED fileVars
    <3>1. /\ rChunk' \in (rChunk+1)..NChunks /\ rChunk' < NChunks
          /\ rSeq' = Bound[rChunk'] /\ rSeq' \in Nat
          /\ out' = [k \in 1..rSeq' |-> k] /\ recvList' = {}
      BY <1>13, <2>6, TimeoutWrites
    <3>2. rChunk' \in rChunk..NChunks
      BY <1>g, <3>1
    <3> QED BY <2>1, <2>2, <2>3, <2>4, <3>1, <3>2, WriteStep
  <2> QED BY <2>5, <2>6
<1>14. CASE ClientGiveUp
  <2>1. /\ cState' = "failed" /\ UNCHANGED serverVars /\ tries' = tries /\ lastWin' = lastWin
        /\ UNCHANGED <<rChunk, rSeq, out>> /\ recvList' = recvList
        /\ toServer' = toServer /\ toClient' = toClient /\ faults' = faults
    BY <1>14 DEF ClientGiveUp, fileVars
  <2>2. cState' \notin Running /\ cState' \in Final /\ cState' # "get"
    BY <2>1 DEF Running, Final
  <2>3. /\ tries' \in 0..(Retries+1) /\ lastWin' \in 0..(WindowMod-1)
        /\ faults' \in 0..MaxFaults
    BY <1>t, <2>1 DEF TypeOK
  <2> QED BY <1>g, <2>1, <2>2, <2>3, ClientQuietStep
<1>15. CASE DeleteFile
  <2>1. /\ present' = FALSE /\ UNCHANGED <<flow, sChunk, sSeq, sPos>> /\ UNCHANGED clientVars
        /\ toServer' = toServer /\ toClient' = toClient /\ faults' = faults
    BY <1>15 DEF DeleteFile
  <2>2. faults' \in 0..MaxFaults /\ present' \in BOOLEAN
    BY <1>t, <2>1 DEF TypeOK
  <2> QED BY <2>1, <2>2, ServerIdleStep
<1>16. CASE Lose
  <2>1. /\ faults < MaxFaults /\ faults' = faults + 1
        /\ toServer' \subseteq toServer /\ toClient' \subseteq toClient
        /\ UNCHANGED serverVars /\ UNCHANGED clientVars
    BY <1>16 DEF Lose
  <2>2. /\ faults' \in 0..MaxFaults /\ present' \in BOOLEAN
        /\ UNCHANGED <<flow, sChunk, sSeq, sPos>>
    BY <1>t, <2>1 DEF TypeOK, serverVars
  <2> QED BY <2>1, <2>2, ServerIdleStep
<1>17. CASE UNCHANGED vars
  <2>1. /\ UNCHANGED <<flow, sChunk, sSeq, sPos>> /\ present' = present /\ UNCHANGED clientVars
        /\ toServer' = toServer /\ toClient' = toClient /\ faults' = faults
    BY <1>17 DEF vars, serverVars
  <2>2. faults' \in 0..MaxFaults /\ present' \in BOOLEAN
    BY <1>t, <2>1 DEF TypeOK
  <2> QED BY <2>1, <2>2, ServerIdleStep
<1> QED
  BY <1>1, <1>2, <1>3, <1>4, <1>5, <1>6, <1>7, <1>8, <1>9, <1>10, <1>11, <1>12, <1>13,
     <1>14, <1>15, <1>16, <1>17
  DEF Next, Server, ClientReceive, ClientTimeout, Finished

(***************************************************************************)
(* Theorems                                                                *)
(***************************************************************************)

\* The inductive invariant holds in every reachable state of every transfer.
THEOREM Invariance == Spec => []IInv
<1>1. Init => IInv
  BY InitIInv
<1>2. IInv /\ [Next]_vars => IInv'
  BY NextIInv
<1> QED BY <1>1, <1>2, PTL DEF Spec

\* Type correctness: every variable of both sides keeps its type.
THEOREM TypeCorrect == Spec => []TypeOK
<1>1. IInv => TypeOK
  BY DEF IInv
<1> QED BY <1>1, Invariance, PTL

\* No acknowledgement in flight covers data that is not in the temporary file,
\* and each carries its chunk's own sequence number.
THEOREM AcksAreSound == Spec => []AcksCoverWritten
<1>1. IInv => AcksCoverWritten
  BY DEF IInv
<1> QED BY <1>1, Invariance, PTL

\* The receive loop never waits for more of a file that is already complete.
THEOREM NoMissedCompletion == Spec => []CompletionNotMissed
<1>1. IInv => CompletionNotMissed
  BY DEF IInv
<1> QED BY <1>1, Invariance, PTL

\* The server frees a flow only when the client has written the whole file.
THEOREM FlowFreedSafely == Spec => FlowFreedWhenWritten
<1>1. IInv /\ [Next]_vars => [flow /\ ~flow' => rChunk = NChunks]_vars
  <2> SUFFICES ASSUME IInv, [Next]_vars, flow, ~flow' PROVE rChunk = NChunks
    OBVIOUS
  <2>1. rChunk \in 0..NChunks
    BY BufferIsGood
  <2>2. CASE ServerAckFinal
    <3>1. PICK m \in toServer : IsAck(m) /\ m.chunk >= NChunks
      BY <2>2 DEF ServerAckFinal
    <3>2. m.chunk <= rChunk /\ m.chunk \in Nat
      BY <3>1 DEF IInv, AcksCoverWritten, TypeOK, ServerMessages
    <3> QED BY <2>1, <3>1, <3>2
  <2>3. CASE ~ServerAckFinal
    <3>1. flow' = flow \/ flow' = TRUE
      BY <2>3 DEF Next, Server, ClientReceive, ClientTimeout, Finished, vars, serverVars,
         ServerGetMissing, ServerGetDuplicate, ServerGetAccept, ServerAckIgnored,
         ServerAckRewind, ServerAckAdvance, ClientNacked, ClientIgnore, ClientBuffer,
         ClientWindow, ClientGetTimeout, ClientFileTimeout, ClientGiveUp, DeleteFile, Lose
    <3> QED BY <3>1
  <2> QED BY <2>2, <2>3
<1> QED BY <1>1, Invariance, PTL DEF Spec, FlowFreedWhenWritten

\* Writing whole chunks extends the abstract copy.
LEMMA WriteExtendsCopy ==
    ASSUME IInv, cState \in Running,
           rChunk' \in (rChunk+1)..NChunks, rSeq' = Bound[rChunk'],
           out' = [k \in 1..rSeq' |-> k],
           cState' = IF rChunk' = NChunks THEN "installed" ELSE "file"
    PROVE  Copy!Extend
<1>1. rChunk \in 0..NChunks /\ rSeq = Bound[rChunk] /\ rSeq \in Nat
      /\ out = [k \in 1..rSeq |-> k]
  BY BufferIsGood, BoundType DEF IInv, ReceiverConsistent
<1>2. rChunk' \in 1..NChunks /\ rChunk' \in 0..NChunks /\ rChunk < rChunk'
  BY <1>1
<1>3. Len(out) < Bound[rChunk']
  <2>1. Len(out) = rSeq
    BY <1>1
  <2>2. Bound[rChunk] < Bound[rChunk']
    BY <1>1, <1>2, BoundAssumption
  <2> QED BY <1>1, <2>1, <2>2
<1>4. Outcome = "pending"
  BY DEF Outcome
<1>5. Outcome' = IF rChunk' = NChunks THEN "installed" ELSE "pending"
  BY DEF Outcome, Running
<1>6. out' = Copy!Prefix(rChunk')
  BY DEF Copy!Prefix
<1> QED BY <1>2, <1>3, <1>4, <1>5, <1>6 DEF Copy!Extend

LEMMA InitRefines == Init => Copy!Init
BY DEF Init, Copy!Init, Outcome, Running

LEMMA NextRefines == IInv /\ [Next]_vars => [Copy!Next]_<<out, Outcome>>
<1> SUFFICES ASSUME IInv, [Next]_vars PROVE Copy!Next \/ UNCHANGED <<out, Outcome>>
  OBVIOUS
<1>1. CASE UNCHANGED <<out, cState>>
  BY <1>1 DEF Outcome
<1>2. CASE cState \in Running /\ cState' \in {"nacked", "failed"} /\ out' = out
  BY <1>2 DEF Outcome, Running, Copy!Next, Copy!Abort
<1>3. CASE out' = out /\ cState \in Running /\ cState' \in Running
  BY <1>3 DEF Outcome
<1>4. CASE ClientWindow
  <2>1. cState \in Running
    BY <1>4 DEF ClientWindow
  <2> QED BY <1>4, <2>1, WindowWrites, WriteExtendsCopy DEF Copy!Next
<1>5. CASE ClientFileTimeout
  <2>1. cState = "file" /\ cState' = "file"
    BY <1>5 DEF ClientFileTimeout
  <2>2. CASE UNCHANGED fileVars
    BY <1>1, <2>1, <2>2 DEF fileVars
  <2>3. CASE ~ UNCHANGED fileVars
    <3>1. /\ rChunk' \in (rChunk+1)..NChunks /\ rChunk' # NChunks
          /\ rSeq' = Bound[rChunk'] /\ out' = [k \in 1..rSeq' |-> k]
      BY <1>5, <2>3, TimeoutWrites
    <3> QED BY <2>1, <3>1, WriteExtendsCopy DEF Copy!Next, Running
  <2> QED BY <2>2, <2>3
<1>6. CASE ClientNacked
  BY <1>2, <1>6 DEF ClientNacked, fileVars, Running
<1>7. CASE ClientIgnore
  BY <1>3, <1>7 DEF ClientIgnore, fileVars, Running
<1>8. CASE ClientBuffer
  BY <1>3, <1>8 DEF ClientBuffer, Running
<1>9. CASE ClientGetTimeout
  BY <1>2, <1>3, <1>9 DEF ClientGetTimeout, fileVars, Running
<1>10. CASE ClientGiveUp
  BY <1>2, <1>10 DEF ClientGiveUp, fileVars, Running
<1>11. CASE Server \/ DeleteFile \/ Lose \/ Finished \/ UNCHANGED vars
  <2>1. UNCHANGED clientVars
    BY <1>11 DEF Server, Finished, vars, ServerGetMissing, ServerGetDuplicate,
       ServerGetAccept, ServerAckIgnored, ServerAckFinal, ServerAckRewind,
       ServerAckAdvance, DeleteFile, Lose
  <2> QED BY <1>1, <2>1 DEF clientVars, fileVars
<1> QED
  BY <1>4, <1>5, <1>6, <1>7, <1>8, <1>9, <1>10, <1>11
  DEF Next, ClientReceive, ClientTimeout

\* The transfer implements the abstract copy: the temporary file is always a
\* prefix of the server's file ending on a chunk boundary, it only grows, and it
\* is installed exactly when complete; the MD5 check never fails.
THEOREM Refinement == Spec => CopySpec
<1>1. Init => Copy!Init
  BY InitRefines
<1>2. IInv /\ [Next]_vars => [Copy!Next]_<<out, Outcome>>
  BY NextRefines
<1>3. [Copy!Next]_<<out, Outcome>> => [Copy!Next]_(Copy!vars)
  BY DEF Copy!vars
<1> QED BY <1>1, <1>2, <1>3, Invariance, PTL DEF Spec, CopySpec, Copy!Spec
=============================================================================
