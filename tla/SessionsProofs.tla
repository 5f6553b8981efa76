--------------------------- MODULE SessionsProofs ---------------------------
EXTENDS Sessions, TLAPS, SequenceTheorems, FiniteSetTheorems, WellFoundedInduction, FunctionTheorems

(***************************************************************************)
(* Proofs about Sessions: types, one session per handshake, agreement on   *)
(* the key and the slot, and what may end a session of protocol version 2. *)
(*                                                                         *)
(* The inductive invariant follows one handshake of a client through the   *)
(* datagrams still under way for it: HELLO with a new nonce of the client, *)
(* the server's nonce in reply, the hash of that, and the hash and id that *)
(* end it.  Late and repeated datagrams of earlier handshakes may be among *)
(* them at every moment.                                                   *)
(*                                                                         *)
(* The steps are first sorted into the few kinds that differ in what they  *)
(* do to nonces, keys and slots (Begins ... Continues of a client, Quiet,  *)
(* Greets and Opens of the server); the invariant is then proved for each. *)
(***************************************************************************)

\* The datagrams of client c that are queued or held back in one direction.
InFlight(to, c) ==
    ToSet(IF to = "server" THEN toServer[c] ELSE toClient[c])
    \cup {h.m : h \in {x \in held : x.to = to /\ x.c = c}}

AtServer(c) == InFlight("server", c)
AtClient(c) == InFlight("client", c)

\* Only datagrams of the handshake carry nonces and hashes.
PlainOK ==
    \A c \in Clients :
       /\ \A m \in AtServer(c) \cup AtClient(c) : m.hello \/ m.body = NoBody
       /\ cl[c].state = "get" => cl[c].msg.body = NoBody

\* A nonce of the server belongs to one pending client or to one session.
ServerNonces ==
    /\ \A c \in DOMAIN pending :
          /\ pending[c].s # NoNonce
          /\ \A d \in DOMAIN pending : pending[c].s = pending[d].s => c = d
          /\ \A i \in DOMAIN sessions : pending[c].s # sessions[i].key[1]
    /\ \A i \in DOMAIN sessions :
          /\ sessions[i].key[1] = NoNonce => sessions[i].key = NoKey
          /\ sver = 1 => sessions[i].key = NoKey
          /\ \A j \in DOMAIN sessions :
                sessions[i].key[1] # NoNonce /\ sessions[i].key[1] = sessions[j].key[1] => i = j

\* The nonces and the key a client has in each state.
PhaseOK(c) ==
    LET r == cl[c]
    IN  /\ ver[c] = 1 \/ r.state = "rest" => r.cNonce = NoNonce
        /\ r.state = "hash" \/ (r.state = "hello" /\ ver[c] = 2) => r.cNonce # NoNonce
        /\ r.state \in {"rest", "hello"} => r.sNonce = NoNonce
        /\ r.key = IF r.state \in InSession /\ r.cNonce # NoNonce
                   THEN <<r.sNonce, r.cNonce>> ELSE NoKey

\* If the server has the client pending in the same handshake, the only hash it
\* can accept is that of the nonce the client has taken; and once the client is
\* in its session, that handshake is over.
PendingAgrees(c) ==
    cl[c].cNonce # NoNonce /\ c \in DOMAIN pending =>
        /\ pending[c].c = cl[c].cNonce =>
              \A m \in AtServer(c) : m.body = Hash(pending[c].s) => pending[c].s = cl[c].sNonce
        /\ cl[c].state \in InSession => pending[c].s # cl[c].sNonce

\* A session made in the client's present handshake has the nonce it has taken,
\* and is the one it was told of.
SessionsAgree(c) ==
    cl[c].cNonce # NoNonce =>
        \A i \in DOMAIN sessions :
            sessions[i].addr = c /\ sessions[i].key[2] = cl[c].cNonce =>
               /\ sessions[i].key[1] = cl[c].sNonce
               /\ cl[c].state \in InSession => i = cl[c].id

\* During the handshake no datagram is signed with its key yet, and the hash
\* that ends it names a session that is there and not idle.
HandshakeOK(c) ==
    cl[c].cNonce # NoNonce /\ cl[c].state \in {"hello", "hash"} =>
        /\ \A m \in AtServer(c) \cup AtClient(c) : m.key[2] # cl[c].cNonce
        /\ \A m \in AtClient(c) :
              m.body = Hash(cl[c].cNonce) =>
                 /\ m.id \in DOMAIN sessions \ idle
                 /\ sessions[m.id].addr = c
                 /\ sessions[m.id].key = <<cl[c].sNonce, cl[c].cNonce>>

IInv ==
    /\ TypeOK /\ IsFiniteSet(held) /\ PlainOK /\ ServerNonces
    /\ \A c \in Clients : PhaseOK(c) /\ PendingAgrees(c) /\ SessionsAgree(c) /\ HandshakeOK(c)

-----------------------------------------------------------------------------
(***************************************************************************)
(* Queues                                                                  *)
(***************************************************************************)

LEMMA TailFacts ==
    ASSUME NEW S, NEW s \in Seq(S), s # <<>>
    PROVE  /\ Head(s) \in S /\ Head(s) \in ToSet(s)
           /\ Tail(s) \in Seq(S) /\ ToSet(Tail(s)) \subseteq ToSet(s)
<1>1. Len(s) \in Nat /\ Len(s) > 0 /\ DOMAIN s = 1..Len(s)
    BY EmptySeq, LenProperties
<1>2. Tail(s) \in Seq(S) /\ Head(s) \in S /\ Head(s) = s[1]
    BY HeadTailProperties
<1>3. Len(Tail(s)) = Len(s) - 1 /\ \A i \in 1..Len(Tail(s)) : Tail(s)[i] = s[i + 1]
    BY HeadTailProperties
<1>4. DOMAIN Tail(s) = 1..Len(Tail(s))
    BY <1>2, LenProperties
<1> QED BY <1>1, <1>2, <1>3, <1>4 DEF ToSet

LEMMA ConcatFacts ==
    ASSUME NEW S, NEW s \in Seq(S), NEW t \in Seq(S)
    PROVE  s \o t \in Seq(S) /\ ToSet(s \o t) = ToSet(s) \cup ToSet(t)
<1>1. s \o t \in Seq(S) /\ Len(s \o t) = Len(s) + Len(t)
    BY ConcatProperties
<1>2. \A i \in 1..Len(s) + Len(t) :
         (s \o t)[i] = IF i <= Len(s) THEN s[i] ELSE t[i - Len(s)]
    BY ConcatProperties
<1>3. /\ Len(s) \in Nat /\ DOMAIN s = 1..Len(s)
      /\ Len(t) \in Nat /\ DOMAIN t = 1..Len(t)
      /\ DOMAIN (s \o t) = 1..Len(s \o t)
    BY <1>1, LenProperties
<1>4. ToSet(s \o t) \subseteq ToSet(s) \cup ToSet(t)
    BY <1>1, <1>2, <1>3 DEF ToSet
<1>5. ASSUME NEW i \in 1..Len(s) PROVE s[i] \in ToSet(s \o t)
    BY <1>1, <1>2, <1>3 DEF ToSet
<1>6. ASSUME NEW i \in 1..Len(t) PROVE t[i] \in ToSet(s \o t)
    <2>1. Len(s) + i \in 1..Len(s) + Len(t) /\ ~(Len(s) + i <= Len(s)) /\ Len(s) + i - Len(s) = i
        BY <1>3
    <2> QED BY <2>1, <1>1, <1>2, <1>3 DEF ToSet
<1> QED BY <1>1, <1>3, <1>4, <1>5, <1>6 DEF ToSet

LEMMA OneOrTwo ==
    ASSUME NEW S, NEW a \in S, NEW b \in S
    PROVE  /\ <<>> \in Seq(S) /\ ToSet(<<>>) = {}
           /\ <<a>> \in Seq(S) /\ ToSet(<<a>>) = {a}
           /\ <<a, b>> \in Seq(S) /\ ToSet(<<a, b>>) = {a, b}
<1>1. <<a>> \in Seq(S) /\ <<a, b>> \in Seq(S) /\ <<>> \in Seq(S)
    OBVIOUS
<1>2. DOMAIN <<a>> = {1} /\ DOMAIN <<a, b>> = {1, 2} /\ DOMAIN <<>> = {}
    OBVIOUS
<1> QED BY <1>1, <1>2 DEF ToSet

\* Behind position i.
LEMMA RestFacts ==
    ASSUME NEW S, NEW s \in Seq(S), NEW n \in Nat, n = Len(s), NEW i \in 1..n,
           NEW b, b = SubSeq(s, i + 1, n)
    PROVE  b \in Seq(S) /\ ToSet(b) \subseteq ToSet(s)
<1>1. DOMAIN s = 1..n /\ \A k \in 1..n : s[k] \in S
    BY LenProperties, ElementOfSeq
<1>2. i + 1 \in Int /\ n \in Int /\ \A k \in (i + 1)..n : s[k] \in S
    BY <1>1
<1>3. /\ b \in Seq(S)
      /\ Len(b) = IF i + 1 <= n THEN n - (i + 1) + 1 ELSE 0
      /\ \A k \in 1..n - (i + 1) + 1 : b[k] = s[(i + 1) + k - 1]
    BY <1>2, SubSeqProperties
<1>4. Len(b) = n - i
    BY <1>3
<1>5. DOMAIN b = 1..(n - i)
    BY <1>3, <1>4, LenProperties
<1>6. ASSUME NEW k \in 1..(n - i) PROVE b[k] \in ToSet(s)
    <2>1. k \in 1..n - (i + 1) + 1 /\ (i + 1) + k - 1 \in 1..n
        OBVIOUS
    <2>2. b[k] = s[(i + 1) + k - 1]
        BY <2>1, <1>3
    <2> QED BY <2>1, <2>2, <1>1 DEF ToSet
<1> QED BY <1>3, <1>5, <1>6 DEF ToSet

LEMMA RemoveAtFacts ==
    ASSUME NEW S, NEW s \in Seq(S), NEW i \in 1..Len(s)
    PROVE  RemoveAt(s, i) \in Seq(S) /\ ToSet(RemoveAt(s, i)) \subseteq ToSet(s)
<1> DEFINE a == SubSeq(s, 1, i - 1)
           b == SubSeq(s, i + 1, Len(s))
<1>1. Len(s) \in Nat /\ DOMAIN s = 1..Len(s) /\ \A k \in 1..Len(s) : s[k] \in S
    BY LenProperties, ElementOfSeq
<1>2. a \in Seq(S) /\ Len(a) = i - 1 /\ \A k \in 1..Len(a) : a[k] = s[k]
    BY <1>1, SubSeqProperties
<1>3. b \in Seq(S) /\ ToSet(b) \subseteq ToSet(s)
    BY <1>1, RestFacts
<1>4. RemoveAt(s, i) = a \o b
    BY DEF RemoveAt
<1>5. DOMAIN a = 1..(i - 1)
    BY <1>1, <1>2, LenProperties
<1> HIDE DEF a, b
<1>6. ToSet(a) \subseteq ToSet(s)
    BY <1>1, <1>2, <1>5 DEF ToSet
<1> QED BY <1>2, <1>3, <1>4, <1>6, ConcatFacts

-----------------------------------------------------------------------------
(***************************************************************************)
(* Free slots and fresh nonces                                             *)
(***************************************************************************)

LEMMA LessThanOnNat == OpToRel(<, Nat) = {ss \in Nat \X Nat : ss[1] < ss[2]}
BY DEF OpToRel

LEMMA NonEmptyHasLeast ==
    ASSUME NEW T, T \subseteq Nat, T # {}
    PROVE  Min(T) \in T
<1> DEFINE R == {ss \in Nat \X Nat : ss[1] < ss[2]}
<1>1. IsWellFoundedOn(R, Nat)
    BY LessThanOnNat, NatLessThanWellFounded, Zenon
<1>2. ASSUME NEW x \in Nat, NEW y \in Nat, y < x PROVE <<y, x>> \in R
    BY <1>2
<1> HIDE DEF R
<1>3. PICK x \in T : \A y \in T : ~ (<<y, x>> \in R)
    BY <1>1, WFMin
<1>4. ASSUME NEW y \in T PROVE x <= y
    <2>1. x \in Nat /\ y \in Nat /\ ~(y < x)
        BY <1>2, <1>3
    <2> QED BY <2>1
<1> QED BY <1>4 DEF Min

LEMMA SlotIds == Ids \subseteq Nat /\ 0 \in Ids
BY SlotsAssumption DEF Ids

\* getFreeID returns a slot that is empty or whose session is idle, when there
\* is one.
LEMMA FreeIdIsFree == FreeIds # {} => FreeId \in FreeIds
<1>1. FreeIds \subseteq Nat
    BY SlotIds DEF FreeIds
<1> QED BY <1>1, NonEmptyHasLeast DEF FreeId

\* The values of a function on a finite set are finitely many.
LEMMA FiniteImage ==
    ASSUME NEW S, IsFiniteSet(S), NEW f, DOMAIN f = S
    PROVE  IsFiniteSet({f[x] : x \in S})
<1> DEFINE T == {f[x] : x \in S}
           g == [x \in S |-> f[x]]
<1>1. g \in Surjection(S, T)
    BY DEF Surjection
<1> QED BY <1>1, FS_Surjection

LEMMA FiniteSeq ==
    ASSUME NEW S, NEW s \in Seq(S)
    PROVE  IsFiniteSet(ToSet(s))
<1>1. Len(s) \in Nat /\ DOMAIN s = 1..Len(s)
    BY LenProperties
<1>2. IsFiniteSet(DOMAIN s)
    BY <1>1, FS_Interval
<1> QED BY <1>2, FiniteImage DEF ToSet

LEMMA FiniteMessages == TypeOK /\ IsFiniteSet(held) => IsFiniteSet(AllMessages)
<1> SUFFICES ASSUME TypeOK, IsFiniteSet(held) PROVE IsFiniteSet(AllMessages)
    OBVIOUS
<1> DEFINE copies == [h \in held |-> h.m]
           queued == [c \in Clients |-> ToSet(toServer[c]) \cup ToSet(toClient[c])]
<1>1. IsFiniteSet({copies[h] : h \in held})
    BY FiniteImage
<1>2. IsFiniteSet({queued[c] : c \in Clients})
    BY FiniteImage, ClientsAssumption
<1>3. ASSUME NEW c \in Clients PROVE IsFiniteSet(queued[c])
    <2>1. toServer[c] \in Seq(Messages) /\ toClient[c] \in Seq(Messages)
        BY DEF TypeOK
    <2> QED BY <2>1, FiniteSeq, FS_Union
<1>4. IsFiniteSet(UNION {queued[c] : c \in Clients})
    BY <1>2, <1>3, FS_UNION
<1>5. /\ {copies[h] : h \in held} = {h.m : h \in held}
      /\ {queued[c] : c \in Clients} = {ToSet(toServer[c]) \cup ToSet(toClient[c]) : c \in Clients}
    OBVIOUS
<1> QED BY <1>1, <1>4, <1>5, FS_Union DEF AllMessages

LEMMA FiniteNonces == TypeOK /\ IsFiniteSet(held) => IsFiniteSet(UsedNonces)
<1> SUFFICES ASSUME TypeOK, IsFiniteSet(held) PROVE IsFiniteSet(UsedNonces)
    OBVIOUS
<1> DEFINE keys == {m.key : m \in AllMessages} \cup {cl[c].key : c \in Clients}
                   \cup {cl[c].msg.key : c \in Clients}
                   \cup {sessions[i].key : i \in DOMAIN sessions}
           bodyOf == [m \in AllMessages |-> m.body[2]]
           keyOf  == [m \in AllMessages |-> m.key]
           ownKey == [c \in Clients |-> cl[c].key]
           msgKey == [c \in Clients |-> cl[c].msg.key]
           slotKey == [i \in DOMAIN sessions |-> sessions[i].key]
           own    == [c \in Clients |-> cl[c].cNonce]
           given  == [c \in Clients |-> cl[c].sNonce]
           pendS  == [c \in DOMAIN pending |-> pending[c].s]
           pendC  == [c \in DOMAIN pending |-> pending[c].c]
           first  == [k \in keys |-> k[1]]
           second == [k \in keys |-> k[2]]
<1>1. IsFiniteSet(AllMessages) /\ IsFiniteSet(Clients)
    BY FiniteMessages, ClientsAssumption
<1>2. IsFiniteSet(DOMAIN pending)
    BY <1>1, FS_Subset DEF TypeOK
<1>3. IsFiniteSet(DOMAIN sessions)
    <2>1. IsFiniteSet(Ids)
        BY SlotsAssumption, FS_Interval DEF Ids
    <2> QED BY <2>1, FS_Subset DEF TypeOK
<1>4. /\ IsFiniteSet({bodyOf[m] : m \in AllMessages})
      /\ IsFiniteSet({keyOf[m] : m \in AllMessages})
      /\ IsFiniteSet({ownKey[c] : c \in Clients})
      /\ IsFiniteSet({msgKey[c] : c \in Clients})
      /\ IsFiniteSet({slotKey[i] : i \in DOMAIN sessions})
    BY <1>1, <1>3, FiniteImage
<1>5. /\ IsFiniteSet({own[c] : c \in Clients})
      /\ IsFiniteSet({given[c] : c \in Clients})
      /\ IsFiniteSet({pendS[c] : c \in DOMAIN pending})
      /\ IsFiniteSet({pendC[c] : c \in DOMAIN pending})
    BY <1>1, <1>2, FiniteImage
<1>6. IsFiniteSet(keys)
    <2>1. /\ {keyOf[m] : m \in AllMessages} = {m.key : m \in AllMessages}
          /\ {ownKey[c] : c \in Clients} = {cl[c].key : c \in Clients}
          /\ {msgKey[c] : c \in Clients} = {cl[c].msg.key : c \in Clients}
          /\ {slotKey[i] : i \in DOMAIN sessions} = {sessions[i].key : i \in DOMAIN sessions}
        OBVIOUS
    <2> QED BY <1>4, <2>1, FS_Union
<1> HIDE DEF keys
<1>7. IsFiniteSet({first[k] : k \in keys}) /\ IsFiniteSet({second[k] : k \in keys})
    BY <1>6, FiniteImage
<1>8. /\ {bodyOf[m] : m \in AllMessages} = {m.body[2] : m \in AllMessages}
      /\ {own[c] : c \in Clients} = {cl[c].cNonce : c \in Clients}
      /\ {given[c] : c \in Clients} = {cl[c].sNonce : c \in Clients}
      /\ {pendS[c] : c \in DOMAIN pending} = {pending[c].s : c \in DOMAIN pending}
      /\ {pendC[c] : c \in DOMAIN pending} = {pending[c].c : c \in DOMAIN pending}
      /\ {first[k] : k \in keys} = {k[1] : k \in keys}
      /\ {second[k] : k \in keys} = {k[2] : k \in keys}
    OBVIOUS
<1>9. UsedNonces = {m.body[2] : m \in AllMessages}
                   \cup {k[1] : k \in keys} \cup {k[2] : k \in keys}
                   \cup {cl[c].cNonce : c \in Clients} \cup {cl[c].sNonce : c \in Clients}
                   \cup {pending[c].s : c \in DOMAIN pending}
                   \cup {pending[c].c : c \in DOMAIN pending}
    BY DEF UsedNonces, keys
<1> HIDE DEF bodyOf, keyOf, ownKey, msgKey, slotKey, own, given, pendS, pendC, first, second
<1>10. /\ IsFiniteSet({m.body[2] : m \in AllMessages})
       /\ IsFiniteSet({k[1] : k \in keys}) /\ IsFiniteSet({k[2] : k \in keys})
       /\ IsFiniteSet({cl[c].cNonce : c \in Clients}) /\ IsFiniteSet({cl[c].sNonce : c \in Clients})
       /\ IsFiniteSet({pending[c].s : c \in DOMAIN pending})
       /\ IsFiniteSet({pending[c].c : c \in DOMAIN pending})
    BY <1>4, <1>5, <1>7, <1>8
<1> QED BY <1>9, <1>10, FS_Union

\* There is always a nonce that nobody refers to.
LEMMA FreshIsUnused ==
    TypeOK /\ IsFiniteSet(held) => FreshNonce \in Nat \ {0} /\ FreshNonce \notin UsedNonces
<1> SUFFICES ASSUME TypeOK, IsFiniteSet(held)
             PROVE  FreshNonce \in Nat \ {0} /\ FreshNonce \notin UsedNonces
    OBVIOUS
<1> DEFINE size == Cardinality(UsedNonces)
<1>1. IsFiniteSet(UsedNonces) /\ size \in Nat
    BY FiniteNonces, FS_CardinalityType
<1>2. Cardinality(1..(size + 1)) = size + 1
    BY <1>1, FS_Interval
<1>3. ~(1..(size + 1) \subseteq UsedNonces)
    <2>1. 1..(size + 1) \subseteq UsedNonces => Cardinality(1..(size + 1)) <= size
        BY <1>1, FS_Subset
    <2> QED BY <1>1, <1>2, <2>1
<1>4. \E n \in 1..(size + 1) : n \notin UsedNonces
    BY <1>3
<1>5. FreshNonce \in 1..(size + 1) /\ FreshNonce \notin UsedNonces
    BY <1>4 DEF FreshNonce
<1> QED BY <1>1, <1>5

-----------------------------------------------------------------------------
(***************************************************************************)
(* Messages and client records                                             *)
(***************************************************************************)

LEMMA MessageFields ==
    ASSUME NEW m \in Messages
    PROVE  /\ \A type \in Types : [m EXCEPT !.type = type] \in Messages
           /\ \A hello \in BOOLEAN : [m EXCEPT !.hello = hello] \in Messages
           /\ \A id \in Ids : [m EXCEPT !.id = id] \in Messages
           /\ \A chunk \in {0, 1} : [m EXCEPT !.chunk = chunk] \in Messages
           /\ \A body \in Bodies : [m EXCEPT !.body = body] \in Messages
           /\ \A key \in Keys : [m EXCEPT !.key = key] \in Messages
BY DEF Messages

LEMMA MsgType ==
    ASSUME NEW type \in Types, NEW hello \in BOOLEAN, NEW id \in Ids,
           NEW chunk \in {0, 1}, NEW body \in Bodies, NEW key \in Keys
    PROVE  Msg(type, hello, id, chunk, body, key) \in Messages
BY DEF Messages, Msg

LEMMA RecordFields ==
    ASSUME NEW r \in ClientRecord
    PROVE  /\ \A state \in ClientStates : [r EXCEPT !.state = state] \in ClientRecord
           /\ \A tries \in 0..(Retries + 1) : [r EXCEPT !.tries = tries] \in ClientRecord
           /\ \A id \in Ids : [r EXCEPT !.id = id] \in ClientRecord
           /\ \A n \in Nat : [r EXCEPT !.cNonce = n] \in ClientRecord
           /\ \A n \in Nat : [r EXCEPT !.sNonce = n] \in ClientRecord
           /\ \A key \in Keys : [r EXCEPT !.key = key] \in ClientRecord
           /\ \A m \in Messages : [r EXCEPT !.msg = m] \in ClientRecord
           /\ \A synced \in BOOLEAN : [r EXCEPT !.synced = synced] \in ClientRecord
BY DEF ClientRecord

\* Nonces, hashes and empty payloads are different things.
LEMMA Bodiless ==
    /\ \A n, k : Nonce(n) # Hash(k) /\ NoBody # Hash(k)
    /\ \A n, k : Hash(n) = Hash(k) => n = k
BY DEF Nonce, Hash, NoBody

LEMMA BasicTypes ==
    /\ NoKey \in Keys /\ NoNonce \in Nat /\ NoBody \in Bodies
    /\ NoMsg \in Messages /\ Resting \in ClientRecord
    /\ \A n \in Nat : Nonce(n) \in Bodies /\ Hash(n) \in Bodies
    /\ \A body \in Bodies : body[2] \in Nat /\ AsNonce(body) \in Nat
<1>1. NoKey \in Keys /\ NoNonce \in Nat /\ NoBody \in Bodies
    BY DEF NoKey, Keys, NoNonce, NoBody, Bodies
<1>2. NoMsg \in Messages
    BY <1>1, SlotIds DEF NoMsg, Msg, Messages, Types
<1>3. Resting \in ClientRecord
    BY <1>1, <1>2, SlotIds, RetriesAssumption DEF Resting, ClientRecord, ClientStates
<1>4. \A n \in Nat : Nonce(n) \in Bodies /\ Hash(n) \in Bodies
    BY DEF Nonce, Hash, Bodies
<1>5. \A body \in Bodies : body[2] \in Nat /\ AsNonce(body) \in Nat
    BY DEF AsNonce, Bodies, NoNonce
<1> QED BY <1>1, <1>2, <1>3, <1>4, <1>5

-----------------------------------------------------------------------------
(***************************************************************************)
(* What a step of a client does: its record becomes r, and it sends "out". *)
(***************************************************************************)

Moves(c, r, out) ==
    /\ r \in ClientRecord /\ out \in Seq(Messages)
    /\ cl' = [cl EXCEPT ![c] = r]
    /\ \/ out = <<>> /\ UNCHANGED toServer
       \/ SendToServer(c, out)
    /\ UNCHANGED toClient \/ ReceiveAtClient(c)
    /\ UNCHANGED <<serverVars, ver, held>>
    /\ UNCHANGED faults \/ (faults < MaxFaults /\ faults' = faults + 1)

Plain(out) == \A m \in ToSet(out) : m.body = NoBody

\* A handshake begins.
Begins(c, r, out) ==
    /\ r.state = "hello" /\ r.sNonce = NoNonce /\ r.key = NoKey
    /\ r.cNonce = IF ver[c] = 2 THEN FreshNonce ELSE NoNonce
    /\ \A m \in ToSet(out) : m.hello /\ m.key = NoKey /\ \A n \in Nat : m.body # Hash(n)

\* A handshake has failed, or a session is over.
Rests(c, r, out) ==
    /\ r.state = "rest" /\ r.cNonce = NoNonce /\ r.sNonce = NoNonce /\ r.key = NoKey
    /\ out = <<>>

\* A handshake of V1 succeeds.
TakesId(c, r, out) ==
    /\ cl[c].state = "hello" /\ ver[c] = 1 /\ r.state = "descr"
    /\ r.cNonce = cl[c].cNonce /\ r.key = cl[c].key
    /\ Plain(out)

\* V2: the hash of the server's nonce is sent.
Answers(c, r, out) ==
    /\ cl[c].state = "hello" /\ ver[c] = 2 /\ r.state = "hash"
    /\ r.cNonce = cl[c].cNonce /\ r.key = cl[c].key
    /\ \A m \in ToSet(out) : /\ m.hello /\ m.body = Hash(r.sNonce)
                             /\ \E x \in AtClient(c) : m.key = x.key

\* A handshake of V2 succeeds.
Succeeds(c, r, out) ==
    /\ cl[c].state = "hash" /\ r.state = "descr"
    /\ r.cNonce = cl[c].cNonce /\ r.sNonce = cl[c].sNonce
    /\ r.key = <<cl[c].sNonce, cl[c].cNonce>>
    /\ \E x \in AtClient(c) : x.body = Hash(cl[c].cNonce) /\ r.id = x.id
    /\ Plain(out)

\* The session goes on.
Continues(c, r, out) ==
    /\ cl[c].state \in InSession /\ r.state \in InSession
    /\ r.id = cl[c].id /\ r.key = cl[c].key
    /\ r.cNonce = cl[c].cNonce /\ r.sNonce = cl[c].sNonce
    /\ r.state = "get" => r.msg.body = NoBody
    /\ Plain(out)

ClientEffect(c) ==
    \E r, out :
       /\ Moves(c, r, out)
       /\ \/ Begins(c, r, out) \/ Rests(c, r, out) \/ TakesId(c, r, out)
          \/ Answers(c, r, out) \/ Succeeds(c, r, out) \/ Continues(c, r, out)

LEMMA ClientTypes ==
    ASSUME TypeOK, NEW c \in Clients
    PROVE  /\ cl[c] \in ClientRecord /\ cl[c].id \in Ids /\ cl[c].key \in Keys
           /\ cl[c].msg \in Messages /\ cl[c].tries \in 0..(Retries + 1)
           /\ cl[c].synced \in BOOLEAN /\ cl[c].cNonce \in Nat /\ cl[c].sNonce \in Nat
           /\ cl[c].state \in ClientStates
           /\ toServer[c] \in Seq(Messages) /\ toClient[c] \in Seq(Messages)
BY DEF TypeOK, ClientRecord

LEMMA MessageTypes ==
    ASSUME NEW m \in Messages
    PROVE  /\ m.type \in Types /\ m.hello \in BOOLEAN /\ m.id \in Ids
           /\ m.chunk \in {0, 1} /\ m.body \in Bodies /\ m.key \in Keys
BY DEF Messages

\* The datagram a client receives.
LEMMA Received ==
    ASSUME IInv, NEW c \in Clients, ReceiveAtClient(c)
    PROVE  /\ Head(toClient[c]) \in Messages /\ Head(toClient[c]) \in AtClient(c)
           /\ Head(toClient[c]).hello \/ Head(toClient[c]).body = NoBody
<1>1. toClient[c] \in Seq(Messages) /\ toClient[c] # <<>>
    BY DEF IInv, TypeOK, ReceiveAtClient
<1>2. Head(toClient[c]) \in Messages /\ Head(toClient[c]) \in ToSet(toClient[c])
    BY <1>1, TailFacts
<1>3. Head(toClient[c]) \in AtClient(c)
    BY <1>2 DEF AtClient, InFlight
<1> QED BY <1>2, <1>3 DEF IInv, PlainOK

LEMMA SendHelloEffect == ASSUME IInv, NEW c \in Clients, SendHello(c) PROVE ClientEffect(c)
<1> DEFINE n == IF ver[c] = 2 THEN FreshNonce ELSE NoNonce
           r == [[Resting EXCEPT !.state = "hello"] EXCEPT !.cNonce = n]
           out == <<NewHello(c, n)>>
<1>1. n \in Nat
    BY FreshIsUnused, BasicTypes DEF IInv
<1> HIDE DEF n
<1>2. r \in ClientRecord
    <2>1. "hello" \in ClientStates
        BY DEF ClientStates
    <2>2. [Resting EXCEPT !.state = "hello"] \in ClientRecord
        BY <2>1, BasicTypes, RecordFields DEF Resting
    <2> QED BY <1>1, <2>2, BasicTypes, RecordFields
<1>3. NewHello(c, n) \in Messages
    BY <1>1, BasicTypes, SlotIds, MsgType DEF NewHello, Types
<1>4. out \in Seq(Messages) /\ ToSet(out) = {NewHello(c, n)}
    BY <1>3, OneOrTwo
<1>5. Moves(c, r, out)
    BY <1>2, <1>4 DEF SendHello, Moves, n
<1>6. Begins(c, r, out)
    <2>1. /\ NewHello(c, n).hello /\ NewHello(c, n).key = NoKey
          /\ NewHello(c, n).body = IF ver[c] = 2 THEN Nonce(n) ELSE NoBody
        BY DEF NewHello, Msg
    <2>2. \A k \in Nat : NewHello(c, n).body # Hash(k)
        BY <2>1, Bodiless
    <2>3. r.state = "hello" /\ r.sNonce = NoNonce /\ r.key = NoKey /\ r.cNonce = n
        BY DEF Resting
    <2> HIDE DEF r, out
    <2> QED BY <1>4, <2>1, <2>2, <2>3 DEF Begins, n
<1> QED BY <1>5, <1>6 DEF ClientEffect

LEMMA RestEffect ==
    ASSUME NEW c \in Clients, NEW r \in ClientRecord, cl' = [cl EXCEPT ![c] = r],
           r = Resting \/ \E synced : r = [Resting EXCEPT !.synced = synced],
           UNCHANGED toClient \/ ReceiveAtClient(c),
           UNCHANGED <<serverVars, ver, toServer, held>>,
           UNCHANGED faults \/ (faults < MaxFaults /\ faults' = faults + 1)
    PROVE  ClientEffect(c)
<1>1. <<>> \in Seq(Messages)
    BY EmptySeq
<1>2. Moves(c, r, <<>>)
    BY <1>1 DEF Moves
<1>3. Rests(c, r, <<>>)
    BY DEF Rests, Resting
<1> QED BY <1>2, <1>3 DEF ClientEffect

LEMMA RestingSteps ==
    ASSUME IInv, NEW c \in Clients,
           HelloRefused(c) \/ HashRefused(c) \/ HandshakeTimeout(c)
              \/ QuitAnswered(c) \/ QuitTimeout(c)
    PROVE  ClientEffect(c)
<1>1. CASE HelloRefused(c)
    <2>1. cl' = [cl EXCEPT ![c] = Resting]
        BY <1>1 DEF HelloRefused, GiveUp
    <2> QED BY <1>1, <2>1, BasicTypes, RestEffect DEF HelloRefused
<1>2. CASE HashRefused(c)
    <2>1. cl' = [cl EXCEPT ![c] = Resting]
        BY <1>2 DEF HashRefused, GiveUp
    <2> QED BY <1>2, <2>1, BasicTypes, RestEffect DEF HashRefused
<1>3. CASE HandshakeTimeout(c)
    <2>1. cl' = [cl EXCEPT ![c] = Resting]
        BY <1>3 DEF HandshakeTimeout, GiveUp
    <2> QED BY <1>3, <2>1, BasicTypes, RestEffect DEF HandshakeTimeout, TimeOut
<1> DEFINE r == [Resting EXCEPT !.synced = cl[c].synced]
<1>4. r \in ClientRecord
    BY ClientTypes, BasicTypes, RecordFields DEF IInv
<1>5. CASE QuitAnswered(c)
    <2>1. cl' = [cl EXCEPT ![c] = r]
        BY <1>5 DEF QuitAnswered
    <2> QED BY <1>4, <1>5, <2>1, RestEffect DEF QuitAnswered
<1>6. CASE QuitTimeout(c)
    <2>1. cl' = [cl EXCEPT ![c] = r]
        BY <1>6 DEF QuitTimeout
    <2> QED BY <1>4, <1>6, <2>1, RestEffect DEF QuitTimeout, TimeOut
<1> QED BY <1>1, <1>2, <1>3, <1>5, <1>6

\* The messages a client makes.
LEMMA ClientMessages ==
    ASSUME TypeOK, NEW c \in Clients, NEW m \in Messages, NEW n \in {0, 1}
    PROVE  /\ Get(c) \in Messages /\ Get(c).body = NoBody
           /\ Quit(c) \in Messages /\ Quit(c).body = NoBody
           /\ Signed(c, m) \in Messages /\ Signed(c, m).body = m.body
           /\ FileAck(c, m, n) \in Messages /\ FileAck(c, m, n).body = NoBody
<1>1. Get(c) \in Messages /\ Quit(c) \in Messages
    BY ClientTypes, SlotIds, BasicTypes, MsgType DEF Get, Quit, Types
<1>2. Get(c).body = NoBody /\ Quit(c).body = NoBody
    BY DEF Get, Quit, Msg
<1>3. \A x \in Messages : Signed(c, x) \in Messages
    BY ClientTypes, MessageFields DEF Signed
<1>4. \A x \in Messages : Signed(c, x).body = x.body
    BY DEF Signed, Messages
<1> DEFINE a == [m EXCEPT !.type = "ACK"]
           b == [a EXCEPT !.chunk = n]
           d == [b EXCEPT !.body = NoBody]
<1>5. a \in Messages
    BY MessageFields DEF Types
<1>6. b \in Messages
    BY <1>5, MessageFields
<1>7. d \in Messages
    BY <1>6, BasicTypes, MessageFields
<1>8. d.body = NoBody
    BY <1>6 DEF Messages
<1>9. FileAck(c, m, n) = Signed(c, d)
    BY DEF FileAck
<1> HIDE DEF d
<1>10. FileAck(c, m, n) \in Messages /\ FileAck(c, m, n).body = NoBody
    BY <1>3, <1>4, <1>7, <1>8, <1>9
<1> QED BY <1>1, <1>2, <1>3, <1>4, <1>10

LEMMA DescrMessage ==
    ASSUME NEW id \in Ids, NEW key \in Keys
    PROVE  Descr(id, key) \in Messages /\ Descr(id, key).body = NoBody
BY BasicTypes, MsgType DEF Descr, Msg, Types

LEMMA HelloAckV1Effect == ASSUME IInv, NEW c \in Clients, HelloAckV1(c) PROVE ClientEffect(c)
<1> DEFINE m == Head(toClient[c])
           a == [m EXCEPT !.hello = TRUE, !.body = NoBody]
           r == [[cl[c] EXCEPT !.state = "descr"] EXCEPT !.id = m.id]
           out == <<a, Descr(m.id, NoKey)>>
<1>1. m \in Messages
    BY Received DEF HelloAckV1
<1>2. m.id \in Ids
    BY <1>1, MessageTypes
<1>3. cl[c] \in ClientRecord /\ cl \in [Clients -> ClientRecord]
    BY ClientTypes DEF IInv, TypeOK
<1>4. r \in ClientRecord
    <2>1. [cl[c] EXCEPT !.state = "descr"] \in ClientRecord
        BY <1>3, RecordFields DEF ClientStates, InSession
    <2> QED BY <1>2, <2>1, RecordFields
<1>5. a \in Messages /\ a.body = NoBody
    BY <1>1, BasicTypes DEF Messages
<1>6. Descr(m.id, NoKey) \in Messages /\ Descr(m.id, NoKey).body = NoBody
    BY <1>2, BasicTypes, DescrMessage
<1>7. cl' = [cl EXCEPT ![c] = r]
    BY <1>3 DEF HelloAckV1
<1>8. SendToServer(c, out)
    BY Zenon DEF HelloAckV1
<1> HIDE DEF m, a
<1>9. out \in Seq(Messages) /\ ToSet(out) = {a, Descr(m.id, NoKey)}
    <2> DEFINE d == Descr(m.id, NoKey)
    <2>1. d \in Messages /\ a \in Messages
        BY <1>5, <1>6
    <2> HIDE DEF d
    <2>2. <<a, d>> \in Seq(Messages) /\ ToSet(<<a, d>>) = {a, d}
        BY <2>1, OneOrTwo
    <2> QED BY <2>2 DEF d
<1>10. /\ r.state = "descr" /\ r.cNonce = cl[c].cNonce /\ r.key = cl[c].key
    BY <1>3 DEF ClientRecord
<1> HIDE DEF r, out
<1>11. Moves(c, r, out)
    BY <1>4, <1>7, <1>8, <1>9 DEF HelloAckV1, Moves
<1>12. TakesId(c, r, out)
    BY <1>5, <1>6, <1>9, <1>10 DEF HelloAckV1, TakesId, Plain
<1> QED BY <1>11, <1>12 DEF ClientEffect

LEMMA HelloAckV2Effect == ASSUME IInv, NEW c \in Clients, HelloAckV2(c) PROVE ClientEffect(c)
<1> DEFINE m == Head(toClient[c])
           n == AsNonce(m.body)
           a == [[m EXCEPT !.hello = TRUE] EXCEPT !.body = Hash(n)]
           r == [[cl[c] EXCEPT !.state = "hash"] EXCEPT !.sNonce = n]
           out == <<a>>
<1>1. m \in Messages /\ m \in AtClient(c)
    BY Received DEF HelloAckV2
<1>2. n \in Nat /\ Hash(n) \in Bodies
    BY <1>1, MessageTypes, BasicTypes
<1>3. cl[c] \in ClientRecord /\ cl \in [Clients -> ClientRecord]
    BY ClientTypes DEF IInv, TypeOK
<1>4. cl' = [cl EXCEPT ![c] = r] /\ SendToServer(c, out)
    BY <1>3 DEF HelloAckV2
<1> HIDE DEF m, n
<1>5. r \in ClientRecord
    <2>1. [cl[c] EXCEPT !.state = "hash"] \in ClientRecord
        BY <1>3, RecordFields DEF ClientStates
    <2> QED BY <1>2, <2>1, RecordFields
<1>6. a \in Messages /\ a.hello /\ a.body = Hash(n) /\ a.key = m.key
    <2>1. [m EXCEPT !.hello = TRUE] \in Messages
        BY <1>1, MessageFields
    <2>2. a \in Messages
        BY <1>2, <2>1, MessageFields
    <2>3. a.hello /\ a.body = Hash(n) /\ a.key = m.key
        BY <1>1 DEF Messages
    <2> QED BY <2>2, <2>3
<1> HIDE DEF a
<1>7. out \in Seq(Messages) /\ ToSet(out) = {a}
    BY <1>6, OneOrTwo
<1>8. /\ r.state = "hash" /\ r.cNonce = cl[c].cNonce /\ r.key = cl[c].key /\ r.sNonce = n
    BY <1>3 DEF ClientRecord
<1> HIDE DEF r, out
<1>9. Moves(c, r, out)
    BY <1>4, <1>5, <1>7 DEF HelloAckV2, Moves
<1>10. Answers(c, r, out)
    BY <1>1, <1>6, <1>7, <1>8 DEF HelloAckV2, Answers
<1> QED BY <1>9, <1>10 DEF ClientEffect

LEMMA HashAcceptedEffect == ASSUME IInv, NEW c \in Clients, HashAccepted(c) PROVE ClientEffect(c)
<1> DEFINE m == Head(toClient[c])
           k == <<cl[c].sNonce, cl[c].cNonce>>
           d == Descr(m.id, k)
           r == [[[cl[c] EXCEPT !.state = "descr"] EXCEPT !.id = m.id] EXCEPT !.key = k]
           out == <<d>>
<1>1. m \in Messages /\ m \in AtClient(c)
    BY Received DEF HashAccepted
<1>2. m.id \in Ids
    BY <1>1, MessageTypes
<1>3. cl[c] \in ClientRecord /\ cl \in [Clients -> ClientRecord]
    BY ClientTypes DEF IInv, TypeOK
<1>4. k \in Keys
    BY ClientTypes DEF Keys, IInv
<1>5. cl' = [cl EXCEPT ![c] = r] /\ SendToServer(c, out) /\ m.body = Hash(cl[c].cNonce)
    BY <1>3 DEF HashAccepted
<1>6. d \in Messages /\ d.body = NoBody
    BY <1>2, <1>4, DescrMessage
<1> HIDE DEF d, m
<1>7. r \in ClientRecord
    <2>1. [cl[c] EXCEPT !.state = "descr"] \in ClientRecord
        BY <1>3, RecordFields DEF ClientStates, InSession
    <2>2. [[cl[c] EXCEPT !.state = "descr"] EXCEPT !.id = m.id] \in ClientRecord
        BY <1>2, <2>1, RecordFields
    <2> QED BY <1>4, <2>2, RecordFields
<1>8. out \in Seq(Messages) /\ ToSet(out) = {d}
    BY <1>6, OneOrTwo
<1>9. /\ r.state = "descr" /\ r.cNonce = cl[c].cNonce /\ r.sNonce = cl[c].sNonce
      /\ r.key = <<cl[c].sNonce, cl[c].cNonce>> /\ r.id = m.id
    BY <1>3 DEF ClientRecord
<1> HIDE DEF r, out, k
<1>10. Moves(c, r, out)
    BY <1>5, <1>7, <1>8 DEF HashAccepted, Moves
<1>11. Succeeds(c, r, out)
    BY <1>1, <1>5, <1>6, <1>8, <1>9 DEF HashAccepted, Succeeds, Plain
<1> QED BY <1>10, <1>11 DEF ClientEffect

\* What a session never changes of a client's record.
Same(r, s) == r.id = s.id /\ r.key = s.key /\ r.cNonce = s.cNonce /\ r.sNonce = s.sNonce

LEMMA SameFields ==
    ASSUME NEW r \in ClientRecord
    PROVE  /\ \A state \in ClientStates :
                 /\ Same([r EXCEPT !.state = state], r)
                 /\ [r EXCEPT !.state = state].state = state
                 /\ [r EXCEPT !.state = state].msg = r.msg
                 /\ [r EXCEPT !.state = state].tries = r.tries
           /\ \A tries : /\ Same([r EXCEPT !.tries = tries], r)
                         /\ [r EXCEPT !.tries = tries].state = r.state
                         /\ [r EXCEPT !.tries = tries].msg = r.msg
           /\ \A m : /\ Same([r EXCEPT !.msg = m], r)
                     /\ [r EXCEPT !.msg = m].state = r.state
                     /\ [r EXCEPT !.msg = m].msg = m
           /\ \A synced : /\ Same([r EXCEPT !.synced = synced], r)
                          /\ [r EXCEPT !.synced = synced].state = r.state
                          /\ [r EXCEPT !.synced = synced].msg = r.msg
BY DEF Same, ClientRecord

LEMMA ContinueEffect ==
    ASSUME IInv, NEW c \in Clients, NEW r \in ClientRecord, NEW out \in Seq(Messages),
           cl' = [cl EXCEPT ![c] = r],
           cl[c].state \in InSession, r.state \in InSession, Same(r, cl[c]),
           r.state = "get" => r.msg.body = NoBody, Plain(out),
           (out = <<>> /\ UNCHANGED toServer) \/ SendToServer(c, out),
           UNCHANGED toClient \/ ReceiveAtClient(c),
           UNCHANGED <<serverVars, ver, held>>,
           UNCHANGED faults \/ (faults < MaxFaults /\ faults' = faults + 1)
    PROVE  ClientEffect(c)
<1>1. Moves(c, r, out)
    BY DEF Moves
<1>2. Continues(c, r, out)
    BY DEF Continues, Same
<1> QED BY <1>1, <1>2 DEF ClientEffect

LEMMA States ==
    /\ InSession \subseteq ClientStates
    /\ {"descr", "get", "file", "quit"} = InSession
BY DEF ClientStates, InSession

\* The session is terminated: QUIT, after the messages "before".
LEMMA QuitSent ==
    ASSUME IInv, NEW c \in Clients, NEW a \in Messages, a.body = NoBody
    PROVE  /\ <<Quit(c)>> \in Seq(Messages) /\ Plain(<<Quit(c)>>)
           /\ <<a, Quit(c)>> \in Seq(Messages) /\ Plain(<<a, Quit(c)>>)
           /\ <<a>> \in Seq(Messages) /\ Plain(<<a>>)
           /\ <<>> \in Seq(Messages) /\ Plain(<<>>)
<1>1. Quit(c) \in Messages /\ Quit(c).body = NoBody
    BY ClientMessages DEF IInv
<1>2. /\ <<Quit(c)>> \in Seq(Messages) /\ ToSet(<<Quit(c)>>) = {Quit(c)}
      /\ <<a, Quit(c)>> \in Seq(Messages) /\ ToSet(<<a, Quit(c)>>) = {a, Quit(c)}
      /\ <<a>> \in Seq(Messages) /\ ToSet(<<a>>) = {a}
      /\ <<>> \in Seq(Messages) /\ ToSet(<<>>) = {}
    <2>1. <<Quit(c)>> \in Seq(Messages) /\ ToSet(<<Quit(c)>>) = {Quit(c)}
        BY <1>1, OneOrTwo
    <2> QED BY <1>1, <2>1, OneOrTwo
<1>3. \A out : ToSet(out) \subseteq {a, Quit(c)} => Plain(out)
    BY <1>1 DEF Plain
<1> QED BY <1>2, <1>3

LEMMA DescrEffects ==
    ASSUME IInv, NEW c \in Clients, DiffReceived(c) \/ DiffMissed(c) \/ DescrTimeout(c)
    PROVE  ClientEffect(c)
<1>1. cl[c] \in ClientRecord /\ cl \in [Clients -> ClientRecord]
    BY ClientTypes DEF IInv, TypeOK
<1>2. NoMsg \in Messages /\ NoMsg.body = NoBody
    BY BasicTypes DEF NoMsg, Msg
<1>3. CASE DiffReceived(c)
    <2> DEFINE s == [cl[c] EXCEPT !.state = "get"]
               r == [s EXCEPT !.msg = Get(c)]
    <2>1. Get(c) \in Messages /\ Get(c).body = NoBody
        BY <1>2, ClientMessages DEF IInv
    <2>2. s \in ClientRecord /\ Same(s, cl[c]) /\ s.state = "get"
        BY <1>1, States, RecordFields, SameFields
    <2>3. cl' = [cl EXCEPT ![c] = r]
        BY <1>1, <1>3 DEF DiffReceived
    <2> HIDE DEF s
    <2>4. r \in ClientRecord /\ Same(r, s) /\ r.state = "get" /\ r.msg = Get(c)
        BY <2>1, <2>2, RecordFields, SameFields
    <2> HIDE DEF r
    <2>5. <<Get(c)>> \in Seq(Messages) /\ Plain(<<Get(c)>>)
        BY <2>1, QuitSent
    <2>6. Same(r, cl[c])
        BY <2>2, <2>4 DEF Same
    <2>7. cl[c].state \in InSession /\ r.state \in InSession
        BY <1>3, <2>4, States DEF DiffReceived
    <2> QED BY <1>3, <2>1, <2>3, <2>4, <2>5, <2>6, <2>7, ContinueEffect DEF DiffReceived
<1>4. CASE DiffMissed(c) \/ DescrTimeout(c)
    <2> DEFINE r == [cl[c] EXCEPT !.state = "quit"]
    <2>1. r \in ClientRecord /\ Same(r, cl[c]) /\ r.state = "quit"
        BY <1>1, States, RecordFields, SameFields
    <2>2. cl' = [cl EXCEPT ![c] = r]
        BY <1>1, <1>4 DEF DiffMissed, DescrTimeout
    <2> HIDE DEF r
    <2>3. <<Quit(c)>> \in Seq(Messages) /\ Plain(<<Quit(c)>>)
        BY <1>2, QuitSent
    <2>4. cl[c].state \in InSession /\ r.state \in InSession /\ r.state # "get"
        BY <1>4, <2>1, States DEF DiffMissed, DescrTimeout
    <2>5. CASE DiffMissed(c)
        BY <2>5, <2>1, <2>2, <2>3, <2>4, ContinueEffect DEF DiffMissed
    <2>6. CASE DescrTimeout(c)
        BY <2>6, <2>1, <2>2, <2>3, <2>4, ContinueEffect DEF DescrTimeout, TimeOut
    <2> QED BY <1>4, <2>5, <2>6
<1> QED BY <1>3, <1>4

\* A retry of GET or of an acknowledgement, with a message m without nonces.
LEMMA RetryEffect ==
    ASSUME IInv, NEW c \in Clients, NEW m \in Messages, m.body = NoBody \/ cl[c].state = "file",
           (cl[c].state = "get" /\ RetryGet(c, m)) \/ (cl[c].state = "file" /\ RetryFile(c, m)),
           UNCHANGED toClient \/ ReceiveAtClient(c),
           UNCHANGED <<serverVars, ver, held>>,
           UNCHANGED faults \/ (faults < MaxFaults /\ faults' = faults + 1)
    PROVE  ClientEffect(c)
<1>1. /\ cl[c] \in ClientRecord /\ cl \in [Clients -> ClientRecord]
      /\ cl[c].tries \in 0..(Retries + 1) /\ cl[c].state \in InSession
    BY ClientTypes, States DEF IInv, TypeOK
<1>2. NoMsg \in Messages /\ NoMsg.body = NoBody
    BY BasicTypes DEF NoMsg, Msg
<1>3. /\ Signed(c, m) \in Messages /\ Signed(c, m).body = m.body
      /\ FileAck(c, m, 0) \in Messages /\ FileAck(c, m, 0).body = NoBody
    BY ClientMessages DEF IInv
<1>4. ASSUME NEW x \in Messages, NEW n \in 0..(Retries + 1), NEW out \in Seq(Messages),
             cl' = [cl EXCEPT ![c].tries = n, ![c].msg = x],
             x.body = NoBody \/ cl[c].state = "file", Plain(out), SendToServer(c, out)
      PROVE  ClientEffect(c)
    <2> DEFINE s == [cl[c] EXCEPT !.tries = n]
               r == [s EXCEPT !.msg = x]
    <2>1. s \in ClientRecord /\ Same(s, cl[c]) /\ s.state = cl[c].state
        BY <1>1, RecordFields, SameFields
    <2>2. cl' = [cl EXCEPT ![c] = r]
        <3>1. cl' = [cl EXCEPT ![c].tries = n, ![c].msg = x]
            BY <1>4
        <3> QED BY <1>1, <3>1
    <2> HIDE DEF s
    <2>3. r \in ClientRecord /\ Same(r, s) /\ r.state = s.state /\ r.msg = x
        <3>1. r \in ClientRecord
            BY <2>1, RecordFields
        <3>2. Same(r, s) /\ r.state = s.state /\ r.msg = x
            <4>1. s \in ClientRecord
                BY <2>1
            <4> QED BY <4>1 DEF Same, ClientRecord
        <3> QED BY <3>1, <3>2
    <2> HIDE DEF r
    <2>4. Same(r, cl[c]) /\ r.state \in InSession /\ (r.state = "get" => r.msg.body = NoBody)
        BY <1>1, <1>4, <2>1, <2>3 DEF Same
    <2> QED BY <1>1, <1>4, <2>2, <2>3, <2>4, ContinueEffect
<1>5. ASSUME NEW out \in Seq(Messages),
             cl' = [cl EXCEPT ![c].state = "quit", ![c].tries = 0, ![c].msg = NoMsg],
             Plain(out), SendToServer(c, out)
      PROVE  ClientEffect(c)
    <2> DEFINE s == [cl[c] EXCEPT !.state = "quit"]
               t == [s EXCEPT !.tries = 0]
               r == [t EXCEPT !.msg = NoMsg]
    <2>1. s \in ClientRecord /\ Same(s, cl[c]) /\ s.state = "quit"
        BY <1>1, States, RecordFields, SameFields
    <2>2. cl' = [cl EXCEPT ![c] = r]
        <3>1. cl' = [cl EXCEPT ![c].state = "quit", ![c].tries = 0, ![c].msg = NoMsg]
            BY <1>5
        <3> QED BY <1>1, <3>1
    <2> HIDE DEF s
    <2>3. t \in ClientRecord /\ Same(t, s) /\ t.state = "quit"
        <3>1. t \in ClientRecord
            BY <2>1, RetriesAssumption, RecordFields
        <3>2. Same(t, s) /\ t.state = "quit"
            BY <2>1, SameFields
        <3> QED BY <3>1, <3>2
    <2> HIDE DEF t
    <2>4. r \in ClientRecord /\ Same(r, t) /\ r.state = "quit"
        BY <1>2, <2>3, RecordFields, SameFields
    <2> HIDE DEF r
    <2>5. Same(r, cl[c]) /\ r.state \in InSession /\ r.state # "get"
        BY <2>1, <2>3, <2>4, States DEF Same
    <2> QED BY <1>1, <1>5, <2>2, <2>4, <2>5, ContinueEffect
<1>6. CASE cl[c].state = "get" /\ RetryGet(c, m)
    <2>1. m.body = NoBody
        BY <1>6
    <2>2. /\ <<Signed(c, m)>> \in Seq(Messages) /\ Plain(<<Signed(c, m)>>)
          /\ <<Signed(c, m), Quit(c)>> \in Seq(Messages) /\ Plain(<<Signed(c, m), Quit(c)>>)
        BY <1>3, <2>1, QuitSent
    <2>3. CASE cl[c].tries < Retries
        <3>1. cl[c].tries + 1 \in 0..(Retries + 1)
            BY <1>1, <2>3, RetriesAssumption
        <3>2. /\ cl' = [cl EXCEPT ![c].tries = cl[c].tries + 1, ![c].msg = Signed(c, m)]
              /\ SendToServer(c, <<Signed(c, m)>>)
            BY <1>1, <1>6, <2>3 DEF RetryGet
        <3> QED BY <1>3, <1>4, <2>1, <2>2, <3>1, <3>2
    <2>4. CASE ~(cl[c].tries < Retries)
        BY <1>5, <1>6, <2>2, <2>4 DEF RetryGet
    <2> QED BY <2>3, <2>4
<1>7. CASE cl[c].state = "file" /\ RetryFile(c, m)
    <2>1. /\ <<FileAck(c, m, 0)>> \in Seq(Messages) /\ Plain(<<FileAck(c, m, 0)>>)
          /\ <<Quit(c)>> \in Seq(Messages) /\ Plain(<<Quit(c)>>)
        BY <1>3, QuitSent
    <2>2. CASE cl[c].tries <= Retries
        <3>1. cl[c].tries + 1 \in 0..(Retries + 1)
            BY <1>1, <2>2, RetriesAssumption
        <3>2. /\ cl' = [cl EXCEPT ![c].tries = cl[c].tries + 1, ![c].msg = m]
              /\ SendToServer(c, <<FileAck(c, m, 0)>>)
            BY <1>1, <1>7, <2>2 DEF RetryFile
        <3> QED BY <1>4, <1>7, <2>1, <3>1, <3>2
    <2>3. CASE ~(cl[c].tries <= Retries)
        BY <1>5, <1>7, <2>1, <2>3 DEF RetryFile
    <2> QED BY <2>2, <2>3
<1> QED BY <1>6, <1>7

LEMMA DownloadEffects ==
    ASSUME IInv, NEW c \in Clients,
           FileReceived(c) \/ FileRefused(c) \/ OtherReceived(c) \/ MacRejected(c)
              \/ DownloadTimeout(c)
    PROVE  ClientEffect(c)
<1> DEFINE m == Head(toClient[c])
<1>1. cl[c] \in ClientRecord /\ cl \in [Clients -> ClientRecord]
    BY ClientTypes DEF IInv, TypeOK
<1>2. NoMsg \in Messages /\ NoMsg.body = NoBody
    BY BasicTypes DEF NoMsg, Msg
<1>3. ReceiveAtClient(c) => m \in Messages /\ (m.hello \/ m.body = NoBody)
    BY Received
<1>4. CASE FileReceived(c)
    <2> DEFINE s == [cl[c] EXCEPT !.state = "quit"]
               t == [s EXCEPT !.synced = TRUE]
               r == [t EXCEPT !.msg = NoMsg]
               out == <<FileAck(c, m, 1), Quit(c)>>
    <2>1. s \in ClientRecord /\ Same(s, cl[c]) /\ s.state = "quit"
        BY <1>1, States, RecordFields, SameFields
    <2>2. cl' = [cl EXCEPT ![c] = r]
        BY <1>1, <1>4 DEF FileReceived
    <2> HIDE DEF s
    <2>3. t \in ClientRecord /\ Same(t, s) /\ t.state = "quit"
        BY <2>1, RecordFields, SameFields
    <2> HIDE DEF t
    <2>4. r \in ClientRecord /\ Same(r, t) /\ r.state = "quit"
        BY <1>2, <2>3, RecordFields, SameFields
    <2> HIDE DEF r
    <2>5. Same(r, cl[c]) /\ r.state \in InSession /\ r.state # "get" /\ cl[c].state \in InSession
        BY <1>4, <2>1, <2>3, <2>4, States DEF Same, FileReceived
    <2>6. SendToServer(c, out) /\ ReceiveAtClient(c) /\ UNCHANGED <<serverVars, ver, held, faults>>
        BY <1>4 DEF FileReceived
    <2> HIDE DEF m
    <2>7. FileAck(c, m, 1) \in Messages /\ FileAck(c, m, 1).body = NoBody
        BY <1>3, <2>6, ClientMessages DEF IInv
    <2>8. out \in Seq(Messages) /\ Plain(out)
        BY <2>7, QuitSent
    <2> QED BY <2>2, <2>4, <2>5, <2>6, <2>8, ContinueEffect
<1>5. CASE FileRefused(c)
    <2> DEFINE s == [cl[c] EXCEPT !.state = "quit"]
               r == [s EXCEPT !.msg = NoMsg]
    <2>1. s \in ClientRecord /\ Same(s, cl[c]) /\ s.state = "quit"
        BY <1>1, States, RecordFields, SameFields
    <2>2. cl' = [cl EXCEPT ![c] = r]
        BY <1>1, <1>5 DEF FileRefused
    <2> HIDE DEF s
    <2>3. r \in ClientRecord /\ Same(r, s) /\ r.state = "quit"
        BY <1>2, <2>1, RecordFields, SameFields
    <2> HIDE DEF r
    <2>4. Same(r, cl[c]) /\ r.state \in InSession /\ r.state # "get" /\ cl[c].state \in InSession
        BY <1>5, <2>1, <2>3, States DEF Same, FileRefused
    <2>5. <<Quit(c)>> \in Seq(Messages) /\ Plain(<<Quit(c)>>)
        BY <1>2, QuitSent
    <2> QED BY <1>5, <2>2, <2>3, <2>4, <2>5, ContinueEffect DEF FileRefused
<1>6. CASE OtherReceived(c)
    <2> DEFINE s == [cl[c] EXCEPT !.state = "file"]
               t == [s EXCEPT !.tries = 0]
               r == [t EXCEPT !.msg = m]
    <2>1. s \in ClientRecord /\ Same(s, cl[c]) /\ s.state = "file"
        BY <1>1, States, RecordFields, SameFields
    <2>2. cl' = [cl EXCEPT ![c] = r]
        BY <1>1, <1>6 DEF OtherReceived
    <2> HIDE DEF s
    <2>3. t \in ClientRecord /\ Same(t, s) /\ t.state = "file"
        BY <2>1, RetriesAssumption, RecordFields, SameFields
    <2> HIDE DEF t
    <2>4. r \in ClientRecord /\ Same(r, t) /\ r.state = "file"
        BY <1>3, <1>6, <2>3, RecordFields, SameFields DEF OtherReceived
    <2> HIDE DEF r
    <2>5. Same(r, cl[c]) /\ r.state \in InSession /\ r.state # "get" /\ cl[c].state \in InSession
        BY <1>6, <2>1, <2>3, <2>4, States DEF Same, OtherReceived
    <2>6. <<>> \in Seq(Messages) /\ Plain(<<>>)
        BY <1>2, QuitSent
    <2> QED BY <1>6, <2>2, <2>4, <2>5, <2>6, ContinueEffect DEF OtherReceived
<1>7. CASE MacRejected(c)
    <2>1. ~m.hello /\ ReceiveAtClient(c)
        BY <1>7 DEF MacRejected, MacAccepted
    <2>2. m \in Messages /\ m.body = NoBody
        BY <1>3, <2>1
    <2>3. (cl[c].state = "get" /\ RetryGet(c, m)) \/ (cl[c].state = "file" /\ RetryFile(c, m))
        BY <1>7 DEF MacRejected
    <2>4. UNCHANGED <<serverVars, ver, held, faults>>
        BY <1>7 DEF MacRejected
    <2> HIDE DEF m
    <2> QED BY <2>1, <2>2, <2>3, <2>4, RetryEffect
<1>8. CASE DownloadTimeout(c)
    <2>1. cl[c].msg \in Messages /\ (cl[c].state = "get" => cl[c].msg.body = NoBody)
        BY ClientTypes DEF IInv, PlainOK
    <2> DEFINE x == cl[c].msg
    <2>2. (cl[c].state = "get" /\ RetryGet(c, x)) \/ (cl[c].state = "file" /\ RetryFile(c, x))
        BY <1>8 DEF DownloadTimeout
    <2>3. /\ UNCHANGED <<serverVars, ver, held, toClient>>
          /\ UNCHANGED faults \/ (faults < MaxFaults /\ faults' = faults + 1)
        BY <1>8 DEF DownloadTimeout, TimeOut
    <2>4. x \in Messages /\ (x.body = NoBody \/ cl[c].state = "file")
        BY <2>1, <2>2
    <2> HIDE DEF x
    <2> QED BY <2>2, <2>3, <2>4, RetryEffect
<1> QED BY <1>4, <1>5, <1>6, <1>7, <1>8

\* Whatever a client does is one of these.
LEMMA ClientStepEffect == ASSUME IInv, NEW c \in Clients, ClientStep(c) PROVE ClientEffect(c)
BY SendHelloEffect, RestingSteps, HelloAckV1Effect, HelloAckV2Effect, HashAcceptedEffect,
   DescrEffects, DownloadEffects DEF ClientStep

-----------------------------------------------------------------------------
(***************************************************************************)
(* What a step of the server does for client c: it sends "out".            *)
(***************************************************************************)

ServerTypes ==
    /\ DOMAIN sessions \subseteq Ids
    /\ \A i \in DOMAIN sessions :
          sessions[i] \in [addr : Clients, key : Keys, flow : BOOLEAN]
    /\ idle \subseteq DOMAIN sessions
    /\ offered \in Ids
    /\ DOMAIN pending \subseteq Clients
    /\ \A c \in DOMAIN pending : pending[c] \in [s : Nat, c : Nat]

\* Session i is there after the step, not idle if it was not.
SameSession(i) ==
    /\ i \in DOMAIN sessions /\ i \in DOMAIN sessions'
    /\ sessions'[i].addr = sessions[i].addr /\ sessions'[i].key = sessions[i].key
    /\ i \in idle \/ i \notin idle'

\* Every session but that of slot k was there before; the ones that were not
\* idle are still there.
OnlyReaps(k) ==
    /\ \A i \in DOMAIN sessions' \ {k} : SameSession(i)
    /\ \A i \in DOMAIN sessions \ idle : i # k /\ SameSession(i)

Nowhere == -1

SamePending(d) == d \in DOMAIN pending /\ pending'[d] = pending[d]

\* QUIT of client c ends session i.
Quits(c, i) ==
    LET m == Head(toServer[c])
    IN  m.type = "QUIT" /\ m.id = i /\ sessions[i].addr = c
        /\ (sessions[i].key = NoKey \/ m.key = sessions[i].key)

Serves(c, out) ==
    /\ out \in Seq(Messages) /\ Exchange(c, out)
    /\ UNCHANGED <<sver, ver, cl, held, faults>>
    /\ ServerTypes'

\* No key is used in a reply but that of the request.
RepliesTo(c, out) ==
    \A m \in ToSet(out) : m.key = NoKey \/ \E x \in AtServer(c) : m.key = x.key

\* No nonce is made and no session of V2 is created.
Quiet(c, out) ==
    /\ RepliesTo(c, out) /\ Plain(out)
    /\ \A d \in DOMAIN pending' : SamePending(d)
    /\ \A i \in DOMAIN sessions' : SameSession(i) \/ (sver = 1 /\ sessions'[i].key = NoKey)
    /\ sver = 1 \/ \A i \in DOMAIN sessions \ idle : SameSession(i) \/ Quits(c, i)

\* HELLO of V2: the server makes a nonce.
Greets(c, out) ==
    /\ RepliesTo(c, out)
    /\ \A m \in ToSet(out) : m.hello /\ m.body = Nonce(FreshNonce)
    /\ c \in DOMAIN pending' /\ pending'[c].s = FreshNonce
    /\ \A d \in DOMAIN pending' \ {c} : SamePending(d)
    /\ OnlyReaps(Nowhere)

\* The hash of V2: the pending client gets a session.
Opens(c, out) ==
    /\ RepliesTo(c, out) /\ sver = 2
    /\ c \in DOMAIN pending /\ \E x \in AtServer(c) : x.body = Hash(pending[c].s)
    /\ c \notin DOMAIN pending' /\ \A d \in DOMAIN pending' : SamePending(d)
    /\ \E i \in DOMAIN sessions' \ idle' :
          /\ \A m \in ToSet(out) : m.hello /\ m.id = i /\ m.body = Hash(pending[c].c)
          /\ sessions'[i].addr = c /\ sessions'[i].key = <<pending[c].s, pending[c].c>>
          /\ OnlyReaps(i)

ServerEffect(c) ==
    \E out : Serves(c, out) /\ (Quiet(c, out) \/ Greets(c, out) \/ Opens(c, out))

\* The datagram the server receives.
LEMMA Request ==
    ASSUME IInv, NEW c \in Clients, toServer[c] # <<>>
    PROVE  /\ Head(toServer[c]) \in Messages /\ Head(toServer[c]) \in AtServer(c)
           /\ Head(toServer[c]).hello \/ Head(toServer[c]).body = NoBody
<1>1. toServer[c] \in Seq(Messages)
    BY DEF IInv, TypeOK
<1>2. Head(toServer[c]) \in Messages /\ Head(toServer[c]) \in ToSet(toServer[c])
    BY <1>1, TailFacts
<1>3. Head(toServer[c]) \in AtServer(c)
    BY <1>2 DEF AtServer, InFlight
<1> QED BY <1>2, <1>3 DEF IInv, PlainOK

LEMMA ServerTyped == IInv => ServerTypes
BY DEF IInv, TypeOK, ServerTypes

\* getFreeID ends no session but one that is idle.
LEMMA ReapFacts ==
    ASSUME ServerTypes, FreeIds # {}, ReapFreeId
    PROVE  /\ OnlyReaps(Nowhere)
           /\ (UNCHANGED pending /\ offered' \in Ids => ServerTypes')
<1>1. FreeId \in Ids /\ (FreeId \notin DOMAIN sessions \/ FreeId \in idle)
    BY FreeIdIsFree DEF FreeIds
<1>2. /\ DOMAIN sessions' = DOMAIN sessions \ {FreeId}
      /\ \A i \in DOMAIN sessions \ {FreeId} : sessions'[i] = sessions[i]
      /\ idle' = idle \ {FreeId}
    BY DEF ReapFreeId, Restrict
<1>3. \A i \in DOMAIN sessions : i # Nowhere
    BY SlotIds DEF ServerTypes, Nowhere, Ids
<1>4. OnlyReaps(Nowhere)
    BY <1>1, <1>2, <1>3 DEF OnlyReaps, SameSession
<1>5. ASSUME UNCHANGED pending, offered' \in Ids PROVE ServerTypes'
    BY <1>1, <1>2, <1>5 DEF ServerTypes
<1> QED BY <1>4, <1>5

LEMMA CreateFacts ==
    ASSUME ServerTypes, NEW i \in Ids, NEW c \in Clients, NEW key \in Keys,
           CreateSession(i, c, key)
    PROVE  /\ i \in DOMAIN sessions' \ idle'
           /\ sessions'[i].addr = c /\ sessions'[i].key = key
           /\ \A j \in DOMAIN sessions' \ {i} : SameSession(j)
           /\ \A j \in DOMAIN sessions \ {i} : SameSession(j)
           /\ DOMAIN sessions' \subseteq Ids /\ idle' \subseteq DOMAIN sessions'
           /\ \A j \in DOMAIN sessions' :
                 sessions'[j] \in [addr : Clients, key : Keys, flow : BOOLEAN]
<1> DEFINE new == [addr |-> c, key |-> key, flow |-> FALSE]
<1>1. /\ DOMAIN sessions' = {i} \cup DOMAIN sessions
      /\ sessions'[i] = new
      /\ \A j \in DOMAIN sessions \ {i} : sessions'[j] = sessions[j]
      /\ idle' = idle \ {i}
    BY DEF CreateSession, With
<1>2. new \in [addr : Clients, key : Keys, flow : BOOLEAN] /\ new.addr = c /\ new.key = key
    OBVIOUS
<1> HIDE DEF new
<1>3. i \in DOMAIN sessions' \ idle' /\ sessions'[i].addr = c /\ sessions'[i].key = key
    BY <1>1, <1>2
<1>4. ASSUME NEW j \in DOMAIN sessions \ {i} PROVE SameSession(j)
    BY <1>1 DEF SameSession
<1>5. DOMAIN sessions' \subseteq Ids /\ idle' \subseteq DOMAIN sessions'
    BY <1>1 DEF ServerTypes
<1>6. ASSUME NEW j \in DOMAIN sessions'
      PROVE  sessions'[j] \in [addr : Clients, key : Keys, flow : BOOLEAN]
    BY <1>1, <1>2 DEF ServerTypes
<1> QED BY <1>1, <1>3, <1>4, <1>5, <1>6

LEMMA NackReply ==
    ASSUME NEW m \in Messages
    PROVE  Nack(m) \in Messages /\ Nack(m).body = NoBody /\ Nack(m).key = m.key
<1> DEFINE a == [m EXCEPT !.type = "NACK"]
<1>1. a \in Messages
    BY MessageFields DEF Types
<1>2. Nack(m) = [a EXCEPT !.body = NoBody]
    BY DEF Nack
<1>3. a.key = m.key
    BY DEF Messages
<1> HIDE DEF a
<1>4. Nack(m) \in Messages
    BY <1>1, <1>2, BasicTypes, MessageFields
<1>5. Nack(m).body = NoBody /\ Nack(m).key = m.key
    BY <1>1, <1>2, <1>3 DEF Messages
<1> QED BY <1>4, <1>5

\* One reply, or none.
LEMMA OneReply ==
    ASSUME IInv, NEW c \in Clients, NEW x \in AtServer(c), NEW m \in Messages, m.key = x.key
    PROVE  /\ <<m>> \in Seq(Messages) /\ ToSet(<<m>>) = {m} /\ RepliesTo(c, <<m>>)
           /\ (m.body = NoBody => Plain(<<m>>))
           /\ <<>> \in Seq(Messages) /\ RepliesTo(c, <<>>) /\ Plain(<<>>)
<1>1. <<m>> \in Seq(Messages) /\ ToSet(<<m>>) = {m} /\ <<>> \in Seq(Messages) /\ ToSet(<<>>) = {}
    BY OneOrTwo
<1>2. ASSUME NEW out, ToSet(out) \subseteq {m}
      PROVE  RepliesTo(c, out) /\ (m.body = NoBody => Plain(out))
    BY <1>2 DEF RepliesTo, Plain
<1>3. \A out : ToSet(out) = {} => RepliesTo(c, out) /\ Plain(out)
    BY DEF RepliesTo, Plain
<1> QED BY <1>1, <1>2, <1>3

LEMMA QuietEffect ==
    ASSUME IInv, NEW c \in Clients, NEW out \in Seq(Messages), Exchange(c, out),
           RepliesTo(c, out), Plain(out), UNCHANGED <<sver, ver, cl, held, faults>>,
           ServerTypes', \A d \in DOMAIN pending' : SamePending(d),
           \A i \in DOMAIN sessions' : SameSession(i) \/ (sver = 1 /\ sessions'[i].key = NoKey),
           sver = 1 \/ \A i \in DOMAIN sessions \ idle : SameSession(i) \/ Quits(c, i)
    PROVE  ServerEffect(c)
<1>1. Serves(c, out) /\ Quiet(c, out)
    BY DEF Serves, Quiet
<1> QED BY <1>1 DEF ServerEffect

\* The tables of sessions and of pending clients stay as they are.
LEMMA TablesKept ==
    ASSUME IInv
    PROVE  /\ UNCHANGED pending => \A d \in DOMAIN pending' : SamePending(d)
           /\ UNCHANGED <<sessions, idle>> =>
                 /\ \A i \in DOMAIN sessions' : SameSession(i)
                 /\ \A i \in DOMAIN sessions : SameSession(i)
           /\ UNCHANGED <<sessions, idle, offered, pending>> => ServerTypes'
<1>1. ASSUME UNCHANGED <<sessions, idle, offered, pending>> PROVE ServerTypes'
    BY <1>1, ServerTyped DEF ServerTypes
<1> QED BY <1>1 DEF SamePending, SameSession

LEMMA RefusedEffects ==
    ASSUME IInv, NEW c \in Clients, VersionRefused(c) \/ IdsDepleted(c) \/ Discard(c)
    PROVE  ServerEffect(c)
<1> DEFINE h == Head(toServer[c])
<1>1. toServer[c] # <<>> /\ UNCHANGED serverVars /\ UNCHANGED <<ver, cl, held, faults>>
    BY DEF VersionRefused, IdsDepleted, Discard, HelloFlagged
<1>2. h \in Messages /\ h \in AtServer(c)
    BY <1>1, Request
<1>3. Exchange(c, <<Nack(h)>>) \/ Exchange(c, <<>>)
    BY DEF VersionRefused, IdsDepleted, Discard
<1> HIDE DEF h
<1>4. Nack(h) \in Messages /\ Nack(h).body = NoBody /\ Nack(h).key = h.key
    BY <1>2, NackReply
<1>5. PICK out \in Seq(Messages) : Exchange(c, out) /\ RepliesTo(c, out) /\ Plain(out)
    BY <1>2, <1>3, <1>4, OneReply
<1>6. /\ ServerTypes' /\ \A d \in DOMAIN pending' : SamePending(d)
      /\ \A i \in DOMAIN sessions' : SameSession(i)
      /\ \A i \in DOMAIN sessions : SameSession(i)
    BY <1>1, TablesKept DEF serverVars
<1>7. UNCHANGED <<sver, ver, cl, held, faults>>
    BY <1>1 DEF serverVars
<1> QED BY <1>5, <1>6, <1>7, QuietEffect

LEMMA HelloV1Effect == ASSUME IInv, NEW c \in Clients, HelloV1(c) PROVE ServerEffect(c)
<1> DEFINE h == Head(toServer[c])
           a == [h EXCEPT !.type = "ACK", !.id = FreeId, !.body = NoBody]
<1>1. toServer[c] # <<>> /\ FreeIds # {} /\ Exchange(c, <<a>>)
    BY DEF HelloV1, HelloFlagged
<1>2. h \in Messages /\ h \in AtServer(c)
    BY <1>1, Request
<1>3. FreeId \in Ids
    BY <1>1, FreeIdIsFree DEF FreeIds
<1> HIDE DEF h
<1>4. a \in Messages /\ a.body = NoBody /\ a.key = h.key
    <2> DEFINE d == [h EXCEPT !.type = "ACK"]
               e == [d EXCEPT !.id = FreeId]
    <2>1. d \in Messages /\ d.key = h.key
        BY <1>2, MessageFields DEF Types, Messages
    <2>2. a = [e EXCEPT !.body = NoBody]
        OBVIOUS
    <2> HIDE DEF d, a
    <2>3. e \in Messages /\ e.key = h.key
        BY <1>3, <2>1, MessageFields DEF Messages
    <2> HIDE DEF e
    <2> QED BY <2>2, <2>3, BasicTypes, MessageFields DEF Messages
<1> HIDE DEF a
<1>5. <<a>> \in Seq(Messages) /\ RepliesTo(c, <<a>>) /\ Plain(<<a>>)
    BY <1>2, <1>4, OneReply
<1>6. /\ ReapFreeId /\ UNCHANGED pending /\ offered' \in Ids
      /\ UNCHANGED <<sver, ver, cl, held, faults>>
    BY <1>3 DEF HelloV1
<1>7. OnlyReaps(Nowhere) /\ ServerTypes'
    BY <1>1, <1>6, ServerTyped, ReapFacts
<1>8. /\ \A i \in DOMAIN sessions' : SameSession(i)
      /\ \A i \in DOMAIN sessions \ idle : SameSession(i)
    BY <1>7, SlotIds DEF OnlyReaps, Nowhere, ServerTypes
<1>9. \A d \in DOMAIN pending' : SamePending(d)
    BY <1>6, TablesKept
<1> QED BY <1>1, <1>5, <1>6, <1>7, <1>8, <1>9, QuietEffect

LEMMA AckV1Effect == ASSUME IInv, NEW c \in Clients, AckV1(c) PROVE ServerEffect(c)
<1>1. toServer[c] # <<>> /\ sver = 1 /\ Exchange(c, <<>>) /\ UNCHANGED <<sver, offered, pending>>
      /\ UNCHANGED <<ver, cl, held, faults>>
    BY DEF AckV1, HelloFlagged
<1>2. Head(toServer[c]) \in Messages /\ Head(toServer[c]) \in AtServer(c)
    BY <1>1, Request
<1>3. <<>> \in Seq(Messages) /\ RepliesTo(c, <<>>) /\ Plain(<<>>)
    BY <1>2, OneReply
<1>4. \A d \in DOMAIN pending' : SamePending(d)
    BY <1>1, TablesKept
<1>5. CASE UNCHANGED <<sessions, idle>>
    <2>1. ServerTypes' /\ \A i \in DOMAIN sessions' : SameSession(i)
        BY <1>1, <1>5, TablesKept
    <2> QED BY <1>1, <1>3, <1>4, <2>1, QuietEffect
<1>6. CASE CreateSession(offered, c, NoKey)
    <2>1. offered \in Ids /\ NoKey \in Keys /\ ServerTypes
        BY ServerTyped, BasicTypes DEF ServerTypes
    <2>2. /\ sessions'[offered].key = NoKey
          /\ \A j \in DOMAIN sessions' \ {offered} : SameSession(j)
          /\ DOMAIN sessions' \subseteq Ids /\ idle' \subseteq DOMAIN sessions'
          /\ \A j \in DOMAIN sessions' :
                sessions'[j] \in [addr : Clients, key : Keys, flow : BOOLEAN]
        BY <1>6, <2>1, CreateFacts
    <2>3. ServerTypes'
        BY <1>1, <2>1, <2>2 DEF ServerTypes
    <2>4. \A i \in DOMAIN sessions' : SameSession(i) \/ (sver = 1 /\ sessions'[i].key = NoKey)
        BY <1>1, <2>2
    <2> QED BY <1>1, <1>3, <1>4, <2>3, <2>4, QuietEffect
<1> QED BY <1>5, <1>6 DEF AckV1

LEMMA HashV2RefusedEffect ==
    ASSUME IInv, NEW c \in Clients, HashV2Refused(c) PROVE ServerEffect(c)
<1> DEFINE h == Head(toServer[c])
<1>1. /\ toServer[c] # <<>> /\ Exchange(c, <<Nack(h)>>) /\ RemovePending(c)
      /\ UNCHANGED <<sver, ver, cl, held, faults>> /\ UNCHANGED offered
    BY DEF HashV2Refused, HelloFlagged
<1>2. h \in Messages /\ h \in AtServer(c)
    BY <1>1, Request
<1>3. (FreeIds # {} /\ ReapFreeId) \/ UNCHANGED <<sessions, idle>>
    BY DEF HashV2Refused
<1> HIDE DEF h
<1>4. Nack(h) \in Messages /\ Nack(h).body = NoBody /\ Nack(h).key = h.key
    BY <1>2, NackReply
<1>5. <<Nack(h)>> \in Seq(Messages) /\ RepliesTo(c, <<Nack(h)>>) /\ Plain(<<Nack(h)>>)
    BY <1>2, <1>4, OneReply
<1>6. /\ DOMAIN pending' = DOMAIN pending \ {c}
      /\ \A d \in DOMAIN pending' : pending'[d] = pending[d]
    BY <1>1 DEF RemovePending, Restrict
<1>7. \A d \in DOMAIN pending' : SamePending(d)
    BY <1>6 DEF SamePending
<1>8. /\ \A i \in DOMAIN sessions' : SameSession(i)
      /\ \A i \in DOMAIN sessions \ idle : SameSession(i)
    <2>1. CASE FreeIds # {} /\ ReapFreeId
        <3>1. OnlyReaps(Nowhere)
            BY <2>1, ServerTyped, ReapFacts
        <3> QED BY <2>1, <3>1, SlotIds, ServerTyped
                DEF OnlyReaps, Nowhere, ServerTypes, ReapFreeId, Restrict
    <2>2. CASE UNCHANGED <<sessions, idle>>
        BY <2>2, TablesKept
    <2> QED BY <1>3, <2>1, <2>2
<1>9. ServerTypes'
    <2>1. ServerTypes
        BY ServerTyped
    <2>2. /\ DOMAIN sessions' \subseteq Ids
          /\ \A i \in DOMAIN sessions' :
                sessions'[i] \in [addr : Clients, key : Keys, flow : BOOLEAN]
          /\ idle' \subseteq DOMAIN sessions'
        BY <1>3, <2>1 DEF ServerTypes, ReapFreeId, Restrict
    <2> QED BY <1>1, <1>6, <2>1, <2>2 DEF ServerTypes
<1> QED BY <1>1, <1>5, <1>7, <1>8, <1>9, QuietEffect

LEMMA HelloV2Effect == ASSUME IInv, NEW c \in Clients, HelloV2(c) PROVE ServerEffect(c)
<1> DEFINE h == Head(toServer[c])
           n == FreshNonce
           d == [h EXCEPT !.type = "ACK"]
           e == [d EXCEPT !.id = 0]
           a == [e EXCEPT !.body = Nonce(n)]
           p == [s |-> n, c |-> h.body[2]]
<1>1. /\ toServer[c] # <<>> /\ h.hello /\ Exchange(c, <<a>>)
      /\ pending' = With(pending, c, p)
      /\ UNCHANGED <<sver, ver, cl, held, faults>> /\ UNCHANGED offered
      /\ (FreeIds # {} /\ ReapFreeId) \/ UNCHANGED <<sessions, idle>>
    BY DEF HelloV2, HelloFlagged
<1>2. h \in Messages /\ h \in AtServer(c)
    BY <1>1, Request
<1>3. n \in Nat
    BY FreshIsUnused DEF IInv
<1>4. h.body[2] \in Nat
    BY <1>2, MessageTypes, BasicTypes
<1>5. p \in [s : Nat, c : Nat] /\ p.s = n
    BY <1>3, <1>4
<1> HIDE DEF h, n, p
<1>6. d \in Messages /\ d.key = h.key /\ d.hello = h.hello
    BY <1>2, MessageFields DEF Types, Messages
<1> HIDE DEF d
<1>7. e \in Messages /\ e.key = h.key /\ e.hello = h.hello
    BY <1>6, SlotIds, MessageFields DEF Messages
<1> HIDE DEF e
<1>8. a \in Messages
    BY <1>3, <1>7, BasicTypes, MessageFields
<1>9. a.key = h.key /\ a.hello = h.hello /\ a.body = Nonce(n)
    BY <1>7 DEF Messages
<1> HIDE DEF a
<1>10. <<a>> \in Seq(Messages) /\ ToSet(<<a>>) = {a} /\ RepliesTo(c, <<a>>)
    BY <1>2, <1>8, <1>9, OneReply
<1>11. /\ DOMAIN pending' = DOMAIN pending \cup {c}
       /\ pending'[c] = p
       /\ \A x \in DOMAIN pending \ {c} : pending'[x] = pending[x]
    BY <1>1 DEF With
<1>12. /\ OnlyReaps(Nowhere)
       /\ DOMAIN sessions' \subseteq Ids /\ idle' \subseteq DOMAIN sessions'
       /\ \A i \in DOMAIN sessions' :
             sessions'[i] \in [addr : Clients, key : Keys, flow : BOOLEAN]
    <2>1. ServerTypes
        BY ServerTyped
    <2>2. CASE FreeIds # {} /\ ReapFreeId
        <3>1. OnlyReaps(Nowhere)
            BY <2>1, <2>2, ReapFacts
        <3> QED BY <2>1, <2>2, <3>1 DEF ServerTypes, ReapFreeId, Restrict
    <2>3. CASE UNCHANGED <<sessions, idle>>
        <3>1. \A i \in DOMAIN sessions : i # Nowhere
            BY <2>1, SlotIds DEF Nowhere, ServerTypes
        <3> QED BY <2>1, <2>3, <3>1 DEF ServerTypes, OnlyReaps, SameSession
    <2> QED BY <1>1, <2>2, <2>3
<1>13. ServerTypes'
    <2>1. ServerTypes
        BY ServerTyped
    <2> QED BY <1>1, <1>5, <1>11, <1>12, <2>1 DEF ServerTypes
<1>14. Serves(c, <<a>>)
    BY <1>1, <1>10, <1>13 DEF Serves
<1>15. Greets(c, <<a>>)
    <2>1. \A m \in ToSet(<<a>>) : m.hello /\ m.body = Nonce(FreshNonce)
        BY <1>1, <1>9, <1>10 DEF n
    <2>2. c \in DOMAIN pending' /\ pending'[c].s = FreshNonce
        BY <1>5, <1>11 DEF n
    <2>3. \A x \in DOMAIN pending' \ {c} : SamePending(x)
        BY <1>11 DEF SamePending
    <2> QED BY <1>10, <1>12, <2>1, <2>2, <2>3 DEF Greets
<1> QED BY <1>14, <1>15 DEF ServerEffect

LEMMA HashV2Effect == ASSUME IInv, NEW c \in Clients, HashV2(c) PROVE ServerEffect(c)
<1> DEFINE h == Head(toServer[c])
           p == pending[c]
           i == FreeId
           e == [h EXCEPT !.id = i]
           a == [e EXCEPT !.body = Hash(p.c)]
           key == <<p.s, p.c>>
<1>1. /\ toServer[c] # <<>> /\ h.hello /\ sver = 2 /\ Exchange(c, <<a>>)
      /\ c \in DOMAIN pending /\ FreeIds # {} /\ h.body = Hash(p.s)
      /\ CreateSession(i, c, key) /\ RemovePending(c)
      /\ UNCHANGED <<sver, ver, cl, held, faults>> /\ UNCHANGED offered
    BY DEF HashV2, HelloFlagged
<1>2. h \in Messages /\ h \in AtServer(c)
    BY <1>1, Request
<1>3. i \in Ids /\ (i \notin DOMAIN sessions \/ i \in idle)
    BY <1>1, FreeIdIsFree DEF FreeIds
<1>4. p.s \in Nat /\ p.c \in Nat /\ key \in Keys
    BY <1>1, ServerTyped DEF ServerTypes, Keys
<1> HIDE DEF h, i
<1>5. e \in Messages /\ e.key = h.key /\ e.hello = h.hello /\ e.id = i
    BY <1>2, <1>3, MessageFields DEF Messages
<1> HIDE DEF e
<1>6. a \in Messages
    BY <1>4, <1>5, BasicTypes, MessageFields
<1>7. a.key = h.key /\ a.hello = h.hello /\ a.id = i /\ a.body = Hash(p.c)
    BY <1>5 DEF Messages
<1> HIDE DEF a
<1>8. <<a>> \in Seq(Messages) /\ ToSet(<<a>>) = {a} /\ RepliesTo(c, <<a>>)
    BY <1>2, <1>6, <1>7, OneReply
<1>9. /\ DOMAIN pending' = DOMAIN pending \ {c}
      /\ \A d \in DOMAIN pending' : pending'[d] = pending[d]
    BY <1>1 DEF RemovePending, Restrict
<1> HIDE DEF key
<1>10. /\ i \in DOMAIN sessions' \ idle'
       /\ sessions'[i].addr = c /\ sessions'[i].key = key
       /\ \A j \in DOMAIN sessions' \ {i} : SameSession(j)
       /\ \A j \in DOMAIN sessions \ {i} : SameSession(j)
       /\ DOMAIN sessions' \subseteq Ids /\ idle' \subseteq DOMAIN sessions'
       /\ \A j \in DOMAIN sessions' :
             sessions'[j] \in [addr : Clients, key : Keys, flow : BOOLEAN]
    BY <1>1, <1>3, <1>4, ServerTyped, CreateFacts
<1>11. ServerTypes'
    <2>1. ServerTypes
        BY ServerTyped
    <2> QED BY <1>1, <1>9, <1>10, <2>1 DEF ServerTypes
<1>12. Serves(c, <<a>>)
    BY <1>1, <1>8, <1>11 DEF Serves
<1>13. OnlyReaps(i)
    BY <1>3, <1>10 DEF OnlyReaps
<1>14. Opens(c, <<a>>)
    <2>1. \A m \in ToSet(<<a>>) : m.hello /\ m.id = i /\ m.body = Hash(pending[c].c)
        BY <1>1, <1>7, <1>8
    <2>2. \E x \in AtServer(c) : x.body = Hash(pending[c].s)
        BY <1>1, <1>2
    <2>3. c \notin DOMAIN pending' /\ \A d \in DOMAIN pending' : SamePending(d)
        BY <1>9 DEF SamePending
    <2>4. sessions'[i].addr = c /\ sessions'[i].key = <<pending[c].s, pending[c].c>>
        BY <1>10 DEF key
    <2> QED BY <1>1, <1>8, <1>10, <1>13, <2>1, <2>2, <2>3, <2>4 DEF Opens
<1> QED BY <1>12, <1>14 DEF ServerEffect

\* A datagram of an established session, and what the server may reply to it.
LEMMA SessionReply ==
    ASSUME IInv, NEW c \in Clients, NEW types \in SUBSET Types, SessionMessage(c, types),
           NEW h, h = Head(toServer[c])
    PROVE  /\ h \in Messages /\ h \in AtServer(c) /\ h.type \in types
           /\ h.id \in DOMAIN sessions /\ sessions[h.id].addr = c
           /\ sessions[h.id].key = NoKey \/ h.key = sessions[h.id].key
           /\ \A type \in Types, chunk \in {0, 1} :
                 /\ Reply(h, type, chunk) \in Messages /\ Reply(h, type, chunk).body = NoBody
                 /\ Reply(h, type, chunk).key = sessions[h.id].key
           /\ Chunk(h) \in Messages /\ Chunk(h).body = NoBody
           /\ Chunk(h).key = sessions[h.id].key
           /\ h.chunk \in {0, 1} /\ idle' = idle \ {h.id}
           /\ UNCHANGED <<sver, offered, pending, ver, cl, faults, held>>
<1>1. /\ toServer[c] # <<>> /\ ForSession(c, h) /\ h.type \in types /\ idle' = idle \ {h.id}
      /\ UNCHANGED <<sver, offered, pending, ver, cl, faults, held>>
    BY DEF SessionMessage
<1>2. h \in Messages /\ h \in AtServer(c)
    BY <1>1, Request
<1>3. /\ h.id \in DOMAIN sessions /\ sessions[h.id].addr = c
      /\ sessions[h.id].key = NoKey \/ h.key = sessions[h.id].key
    BY <1>1 DEF ForSession
<1>4. sessions[h.id].key \in Keys /\ h.chunk \in {0, 1}
    BY <1>2, <1>3, ServerTyped, MessageTypes DEF ServerTypes
<1>5. ASSUME NEW type \in Types, NEW chunk \in {0, 1}
      PROVE  /\ Reply(h, type, chunk) \in Messages /\ Reply(h, type, chunk).body = NoBody
             /\ Reply(h, type, chunk).key = sessions[h.id].key
    <2> DEFINE a == [h EXCEPT !.type = type]
               b == [a EXCEPT !.chunk = chunk]
               d == [b EXCEPT !.body = NoBody]
               e == [d EXCEPT !.key = sessions[h.id].key]
    <2>1. a \in Messages
        BY <1>2, MessageFields
    <2>2. Reply(h, type, chunk) = e
        BY DEF Reply
    <2> HIDE DEF a
    <2>3. b \in Messages
        BY <2>1, MessageFields
    <2> HIDE DEF b
    <2>4. d \in Messages /\ d.body = NoBody
        BY <2>3, BasicTypes, MessageFields DEF Messages
    <2> HIDE DEF d
    <2>5. e \in Messages
        BY <1>4, <2>4, MessageFields
    <2>6. e.body = NoBody /\ e.key = sessions[h.id].key
        BY <2>4 DEF Messages
    <2> QED BY <2>2, <2>5, <2>6
<1>6. /\ Chunk(h) \in Messages /\ Chunk(h).body = NoBody
      /\ Chunk(h).key = sessions[h.id].key
    <2> DEFINE a == Reply(h, "FILE", 1)
    <2>1. a \in Messages /\ a.body = NoBody /\ a.key = sessions[h.id].key
        BY <1>5 DEF Types
    <2>2. Chunk(h) = [a EXCEPT !.id = 0]
        BY DEF Chunk
    <2> HIDE DEF a
    <2>3. Chunk(h) \in Messages
        BY <2>1, <2>2, SlotIds, MessageFields
    <2>4. Chunk(h).body = NoBody /\ Chunk(h).key = sessions[h.id].key
        BY <2>1, <2>2 DEF Messages
    <2> QED BY <2>3, <2>4
<1> QED BY <1>1, <1>2, <1>3, <1>4, <1>5, <1>6

\* The replies are of the session's key, and carry no nonces.
LEMMA SessionOut ==
    ASSUME NEW c \in Clients, NEW h \in AtServer(c), NEW a \in Messages, NEW b \in Messages,
           NEW key, key = NoKey \/ h.key = key,
           a.body = NoBody, a.key = key, b.body = NoBody, b.key = key
    PROVE  \A out \in {<<>>, <<a>>, <<a, b>>} :
              out \in Seq(Messages) /\ RepliesTo(c, out) /\ Plain(out)
<1>1. /\ <<>> \in Seq(Messages) /\ ToSet(<<>>) = {}
      /\ <<a>> \in Seq(Messages) /\ ToSet(<<a>>) = {a}
      /\ <<a, b>> \in Seq(Messages) /\ ToSet(<<a, b>>) = {a, b}
    BY OneOrTwo
<1>2. ASSUME NEW out, ToSet(out) \subseteq {a, b} PROVE RepliesTo(c, out) /\ Plain(out)
    BY <1>2 DEF RepliesTo, Plain
<1>3. <<>> \in Seq(Messages) /\ RepliesTo(c, <<>>) /\ Plain(<<>>)
    BY <1>1, <1>2
<1>4. <<a>> \in Seq(Messages) /\ RepliesTo(c, <<a>>) /\ Plain(<<a>>)
    BY <1>1, <1>2
<1>5. <<a, b>> \in Seq(Messages) /\ RepliesTo(c, <<a, b>>) /\ Plain(<<a, b>>)
    BY <1>1, <1>2
<1> QED BY <1>3, <1>4, <1>5

\* What a message of a session does to the table of sessions.
LEMMA FlowChanges ==
    ASSUME IInv, NEW k \in DOMAIN sessions, NEW flow \in BOOLEAN, idle' = idle \ {k},
           UNCHANGED <<offered, pending>>,
           UNCHANGED sessions \/ sessions' = [sessions EXCEPT ![k].flow = flow]
    PROVE  /\ ServerTypes' /\ \A i \in DOMAIN sessions' : SameSession(i)
           /\ \A i \in DOMAIN sessions : SameSession(i)
<1>1. ServerTypes
    BY ServerTyped
<1>2. DOMAIN sessions' = DOMAIN sessions
    OBVIOUS
<1>3. ASSUME NEW i \in DOMAIN sessions
      PROVE  /\ sessions'[i].addr = sessions[i].addr /\ sessions'[i].key = sessions[i].key
             /\ sessions'[i] \in [addr : Clients, key : Keys, flow : BOOLEAN]
    BY <1>1 DEF ServerTypes
<1> QED BY <1>1, <1>2, <1>3 DEF ServerTypes, SameSession

LEMMA DescrHandlerEffect == ASSUME IInv, NEW c \in Clients, DescrHandler(c) PROVE ServerEffect(c)
<1> DEFINE h == Head(toServer[c])
           a == Reply(h, "DIFF", h.chunk)
<1>1. SessionMessage(c, {"DESCR"}) /\ Exchange(c, <<a>>) /\ UNCHANGED sessions
    BY DEF DescrHandler
<1>2. {"DESCR"} \in SUBSET Types /\ "DIFF" \in Types
    BY DEF Types
<1>3. /\ h \in AtServer(c) /\ h.id \in DOMAIN sessions
      /\ sessions[h.id].key = NoKey \/ h.key = sessions[h.id].key
      /\ a \in Messages /\ a.body = NoBody /\ a.key = sessions[h.id].key
      /\ idle' = idle \ {h.id}
      /\ UNCHANGED <<sver, offered, pending, ver, cl, faults, held>>
    BY <1>1, <1>2, SessionReply
<1> HIDE DEF a, h
<1>4. <<a>> \in Seq(Messages) /\ RepliesTo(c, <<a>>) /\ Plain(<<a>>)
    BY <1>3, SessionOut
<1>5. /\ ServerTypes' /\ \A i \in DOMAIN sessions' : SameSession(i)
      /\ \A i \in DOMAIN sessions : SameSession(i)
    BY <1>1, <1>3, FlowChanges
<1>6. \A d \in DOMAIN pending' : SamePending(d)
    BY <1>3, TablesKept
<1> QED BY <1>1, <1>3, <1>4, <1>5, <1>6, QuietEffect

LEMMA NoHandlerEffect == ASSUME IInv, NEW c \in Clients, NoHandler(c) PROVE ServerEffect(c)
<1> DEFINE h == Head(toServer[c])
           types == {"DIFF", "FILE", "NACK"}
<1>1. SessionMessage(c, types) /\ Exchange(c, <<>>) /\ UNCHANGED sessions
    BY DEF NoHandler
<1>2. types \in SUBSET Types
    BY DEF Types
<1> HIDE DEF types
<1>3. /\ h \in AtServer(c) /\ h \in Messages /\ h.id \in DOMAIN sessions
      /\ idle' = idle \ {h.id}
      /\ UNCHANGED <<sver, offered, pending, ver, cl, faults, held>>
    BY <1>1, <1>2, SessionReply
<1> HIDE DEF h
<1>4. <<>> \in Seq(Messages) /\ RepliesTo(c, <<>>) /\ Plain(<<>>)
    BY <1>3, OneReply
<1>5. /\ ServerTypes' /\ \A i \in DOMAIN sessions' : SameSession(i)
      /\ \A i \in DOMAIN sessions : SameSession(i)
    BY <1>1, <1>3, FlowChanges
<1>6. \A d \in DOMAIN pending' : SamePending(d)
    BY <1>3, TablesKept
<1> QED BY <1>1, <1>3, <1>4, <1>5, <1>6, QuietEffect

LEMMA FlowEffects ==
    ASSUME IInv, NEW c \in Clients, GetHandler(c) \/ FileHandler(c) PROVE ServerEffect(c)
<1> DEFINE h == Head(toServer[c])
           a == Reply(h, "ACK", h.chunk)
           b == Chunk(h)
<1>1. PICK types \in SUBSET Types, flow \in BOOLEAN :
         /\ SessionMessage(c, types)
         /\ Exchange(c, <<>>) \/ Exchange(c, <<b>>) \/ Exchange(c, <<a, b>>)
         /\ UNCHANGED sessions \/ sessions' = [sessions EXCEPT ![h.id].flow = flow]
    <2>1. {"GET"} \in SUBSET Types /\ {"ACK"} \in SUBSET Types
        BY DEF Types
    <2>2. CASE GetHandler(c)
        BY <2>1, <2>2 DEF GetHandler
    <2>3. CASE FileHandler(c)
        BY <2>1, <2>3 DEF FileHandler
    <2> QED BY <2>2, <2>3
<1>2. "ACK" \in Types
    BY DEF Types
<1>3. /\ h \in AtServer(c) /\ h.id \in DOMAIN sessions
      /\ sessions[h.id].key = NoKey \/ h.key = sessions[h.id].key
      /\ a \in Messages /\ a.body = NoBody /\ a.key = sessions[h.id].key
      /\ b \in Messages /\ b.body = NoBody /\ b.key = sessions[h.id].key
      /\ idle' = idle \ {h.id}
      /\ UNCHANGED <<sver, offered, pending, ver, cl, faults, held>>
    BY <1>1, <1>2, SessionReply
<1> HIDE DEF a, b, h
<1>4. /\ \A out \in {<<>>, <<a>>, <<a, b>>} :
            out \in Seq(Messages) /\ RepliesTo(c, out) /\ Plain(out)
      /\ \A out \in {<<>>, <<b>>, <<b, b>>} :
            out \in Seq(Messages) /\ RepliesTo(c, out) /\ Plain(out)
    BY <1>3, SessionOut
<1>5. PICK out \in Seq(Messages) : Exchange(c, out) /\ RepliesTo(c, out) /\ Plain(out)
    BY <1>1, <1>4
<1>6. /\ ServerTypes' /\ \A i \in DOMAIN sessions' : SameSession(i)
      /\ \A i \in DOMAIN sessions : SameSession(i)
    BY <1>1, <1>3, FlowChanges
<1>7. \A d \in DOMAIN pending' : SamePending(d)
    BY <1>3, TablesKept
<1> QED BY <1>3, <1>5, <1>6, <1>7, QuietEffect

LEMMA QuitHandlerEffect == ASSUME IInv, NEW c \in Clients, QuitHandler(c) PROVE ServerEffect(c)
<1> DEFINE h == Head(toServer[c])
           k == h.id
           a == Reply(h, "ACK", h.chunk)
<1>1. /\ SessionMessage(c, {"QUIT"}) /\ Exchange(c, <<a>>)
      /\ sessions' = Restrict(sessions, DOMAIN sessions \ {k})
    BY DEF QuitHandler
<1>2. {"QUIT"} \in SUBSET Types /\ "ACK" \in Types
    BY DEF Types
<1>3. /\ h \in AtServer(c) /\ h.type = "QUIT"
      /\ k \in DOMAIN sessions /\ sessions[k].addr = c
      /\ sessions[k].key = NoKey \/ h.key = sessions[k].key
      /\ a \in Messages /\ a.body = NoBody /\ a.key = sessions[k].key
      /\ idle' = idle \ {k}
      /\ UNCHANGED <<sver, offered, pending, ver, cl, faults, held>>
    BY <1>1, <1>2, SessionReply
<1>4. Quits(c, k)
    BY <1>3 DEF Quits
<1> HIDE DEF a, h, k
<1>5. <<a>> \in Seq(Messages) /\ RepliesTo(c, <<a>>) /\ Plain(<<a>>)
    BY <1>3, SessionOut
<1>6. /\ DOMAIN sessions' = DOMAIN sessions \ {k}
      /\ \A i \in DOMAIN sessions' : sessions'[i] = sessions[i]
    BY <1>1 DEF Restrict
<1>7. /\ \A i \in DOMAIN sessions' : SameSession(i)
      /\ \A i \in DOMAIN sessions \ {k} : SameSession(i)
    BY <1>3, <1>6 DEF SameSession
<1>8. ServerTypes'
    <2>1. ServerTypes
        BY ServerTyped
    <2> QED BY <1>3, <1>6, <2>1 DEF ServerTypes
<1>9. \A d \in DOMAIN pending' : SamePending(d)
    BY <1>3, TablesKept
<1>10. \A i \in DOMAIN sessions \ idle : SameSession(i) \/ Quits(c, i)
    BY <1>4, <1>7
<1> QED BY <1>1, <1>3, <1>5, <1>7, <1>8, <1>9, <1>10, QuietEffect

\* Whatever the server does for a client is one of these.
LEMMA ServerStepEffect == ASSUME IInv, NEW c \in Clients, ServerStep(c) PROVE ServerEffect(c)
BY RefusedEffects, HelloV1Effect, AckV1Effect, HelloV2Effect, HashV2Effect, HashV2RefusedEffect,
   DescrHandlerEffect, FlowEffects, QuitHandlerEffect, NoHandlerEffect DEF ServerStep

-----------------------------------------------------------------------------
(***************************************************************************)
(* Datagrams in flight after a step                                        *)
(***************************************************************************)

Flight(c) == AtServer(c) \cup AtClient(c)

LEMMA FlightByQueue ==
    /\ \A c : /\ ToSet(toServer[c]) \subseteq AtServer(c)
              /\ ToSet(toClient[c]) \subseteq AtClient(c)
    /\ \A c, h : h \in held /\ h.c = c =>
                    /\ h.to = "server" => h.m \in AtServer(c)
                    /\ h.to = "client" => h.m \in AtClient(c)
BY DEF AtServer, AtClient, InFlight

\* Nothing is held back by a step of a client or of the server.
LEMMA FlightNext ==
    ASSUME held' = held, NEW d
    PROVE  /\ \A S : ToSet(toServer'[d]) \subseteq ToSet(toServer[d]) \cup S
                        => AtServer(d)' \subseteq AtServer(d) \cup S
           /\ \A S : ToSet(toClient'[d]) \subseteq ToSet(toClient[d]) \cup S
                        => AtClient(d)' \subseteq AtClient(d) \cup S
BY DEF AtServer, AtClient, InFlight

LEMMA FlightTypes ==
    ASSUME TypeOK, NEW c \in Clients
    PROVE  AtServer(c) \subseteq Messages /\ AtClient(c) \subseteq Messages
<1>1. \A s \in Seq(Messages) : ToSet(s) \subseteq Messages
    <2> SUFFICES ASSUME NEW s \in Seq(Messages) PROVE ToSet(s) \subseteq Messages
        OBVIOUS
    <2>1. DOMAIN s = 1..Len(s) /\ \A i \in 1..Len(s) : s[i] \in Messages
        BY LenProperties, ElementOfSeq
    <2> QED BY <2>1 DEF ToSet
<1>2. \A h \in held : h.m \in Messages
    BY DEF TypeOK
<1> QED BY <1>1, <1>2 DEF AtServer, AtClient, InFlight, TypeOK

\* A queue after a datagram was taken out of it, or put into it.
LEMMA QueueNext ==
    ASSUME NEW q \in [Clients -> Seq(Messages)], NEW c \in Clients, NEW d \in Clients,
           NEW out \in Seq(Messages)
    PROVE  /\ [q EXCEPT ![c] = @ \o out] \in [Clients -> Seq(Messages)]
           /\ ToSet([q EXCEPT ![c] = @ \o out][d]) \subseteq
                 ToSet(q[d]) \cup (IF d = c THEN ToSet(out) ELSE {})
           /\ q[c] # <<>> => /\ [q EXCEPT ![c] = Tail(@)] \in [Clients -> Seq(Messages)]
                             /\ ToSet([q EXCEPT ![c] = Tail(@)][d]) \subseteq ToSet(q[d])
<1>1. q[c] \o out \in Seq(Messages) /\ ToSet(q[c] \o out) = ToSet(q[c]) \cup ToSet(out)
    BY ConcatFacts
<1>2. q[c] # <<>> => Tail(q[c]) \in Seq(Messages) /\ ToSet(Tail(q[c])) \subseteq ToSet(q[c])
    BY TailFacts
<1>3. [q EXCEPT ![c] = @ \o out][d] = IF d = c THEN q[c] \o out ELSE q[d]
    OBVIOUS
<1>4. [q EXCEPT ![c] = Tail(@)][d] = IF d = c THEN Tail(q[c]) ELSE q[d]
    OBVIOUS
<1>5. [q EXCEPT ![c] = @ \o out] \in [Clients -> Seq(Messages)]
    BY <1>1
<1>6. q[c] # <<>> => [q EXCEPT ![c] = Tail(@)] \in [Clients -> Seq(Messages)]
    BY <1>2
<1> QED BY <1>1, <1>2, <1>3, <1>4, <1>5, <1>6

LEMMA ClientFlight ==
    ASSUME IInv, NEW c \in Clients, NEW r, NEW out, Moves(c, r, out), NEW d \in Clients
    PROVE  /\ AtServer(d)' \subseteq AtServer(d) \cup (IF d = c THEN ToSet(out) ELSE {})
           /\ AtClient(d)' \subseteq AtClient(d)
           /\ toServer' \in [Clients -> Seq(Messages)] /\ toClient' \in [Clients -> Seq(Messages)]
           /\ held' = held
<1> DEFINE S == IF d = c THEN ToSet(out) ELSE {}
<1>1. toServer \in [Clients -> Seq(Messages)] /\ toClient \in [Clients -> Seq(Messages)]
    BY DEF IInv, TypeOK
<1>2. /\ out \in Seq(Messages) /\ held' = held
      /\ UNCHANGED toServer \/ toServer' = [toServer EXCEPT ![c] = @ \o out]
      /\ UNCHANGED toClient \/ (toClient[c] # <<>> /\ toClient' = [toClient EXCEPT ![c] = Tail(@)])
    BY DEF Moves, SendToServer, ReceiveAtClient
<1>3. toServer' \in [Clients -> Seq(Messages)] /\ ToSet(toServer'[d]) \subseteq ToSet(toServer[d]) \cup S
    <2>1. CASE UNCHANGED toServer
        BY <1>1, <2>1
    <2>2. CASE toServer' = [toServer EXCEPT ![c] = @ \o out]
        BY <1>1, <1>2, <2>2, QueueNext
    <2> QED BY <1>2, <2>1, <2>2
<1>4. toClient' \in [Clients -> Seq(Messages)] /\ ToSet(toClient'[d]) \subseteq ToSet(toClient[d]) \cup {}
    <2>1. CASE UNCHANGED toClient
        BY <1>1, <2>1
    <2>2. CASE toClient[c] # <<>> /\ toClient' = [toClient EXCEPT ![c] = Tail(@)]
        BY <1>1, <1>2, <2>2, QueueNext
    <2> QED BY <1>2, <2>1, <2>2
<1> HIDE DEF S
<1>5. AtServer(d)' \subseteq AtServer(d) \cup S
    BY <1>2, <1>3, FlightNext
<1>6. AtClient(d)' \subseteq AtClient(d) \cup {}
    BY <1>2, <1>4, FlightNext
<1> QED BY <1>2, <1>3, <1>4, <1>5, <1>6 DEF S

LEMMA ServerFlight ==
    ASSUME IInv, NEW c \in Clients, NEW out, Serves(c, out), NEW d \in Clients
    PROVE  /\ AtServer(d)' \subseteq AtServer(d)
           /\ AtClient(d)' \subseteq AtClient(d) \cup (IF d = c THEN ToSet(out) ELSE {})
           /\ toServer' \in [Clients -> Seq(Messages)] /\ toClient' \in [Clients -> Seq(Messages)]
           /\ held' = held
<1> DEFINE S == IF d = c THEN ToSet(out) ELSE {}
<1>1. toServer \in [Clients -> Seq(Messages)] /\ toClient \in [Clients -> Seq(Messages)]
    BY DEF IInv, TypeOK
<1>2. /\ out \in Seq(Messages) /\ held' = held /\ toServer[c] # <<>>
      /\ toServer' = [toServer EXCEPT ![c] = Tail(@)]
      /\ toClient' = [toClient EXCEPT ![c] = @ \o out]
    BY DEF Serves, Exchange
<1>3. toServer' \in [Clients -> Seq(Messages)] /\ ToSet(toServer'[d]) \subseteq ToSet(toServer[d]) \cup {}
    BY <1>1, <1>2, QueueNext
<1>4. toClient' \in [Clients -> Seq(Messages)] /\ ToSet(toClient'[d]) \subseteq ToSet(toClient[d]) \cup S
    BY <1>1, <1>2, QueueNext
<1> HIDE DEF S
<1>5. AtServer(d)' \subseteq AtServer(d) \cup {}
    BY <1>2, <1>3, FlightNext
<1>6. AtClient(d)' \subseteq AtClient(d) \cup S
    BY <1>2, <1>4, FlightNext
<1> QED BY <1>2, <1>3, <1>4, <1>5, <1>6 DEF S

\* The network invents nothing, and changes no other state.
NetworkStep(c) == Lose(c) \/ Duplicate(c) \/ DeliverCopy(c)

LEMMA NetworkFlight ==
    ASSUME IInv, NEW c \in Clients, NetworkStep(c)
    PROVE  /\ \A d \in Clients : AtServer(d)' \subseteq AtServer(d) /\ AtClient(d)' \subseteq AtClient(d)
           /\ toServer' \in [Clients -> Seq(Messages)] /\ toClient' \in [Clients -> Seq(Messages)]
           /\ held' \subseteq [to : {"server", "client"}, c : Clients, m : Messages]
           /\ IsFiniteSet(held') /\ faults' \in 0..MaxFaults
           /\ UNCHANGED <<serverVars, ver, cl>>
<1>1. /\ toServer \in [Clients -> Seq(Messages)] /\ toClient \in [Clients -> Seq(Messages)]
      /\ held \subseteq [to : {"server", "client"}, c : Clients, m : Messages]
      /\ faults \in 0..MaxFaults /\ IsFiniteSet(held)
    BY DEF IInv, TypeOK
<1>2. faults' \in 0..MaxFaults /\ UNCHANGED <<serverVars, ver, cl>>
    <2>1. CASE Lose(c)
        <3>1. faults < MaxFaults /\ faults' = faults + 1 /\ UNCHANGED <<serverVars, ver, cl>>
            BY <2>1 DEF Lose
        <3> QED BY <1>1, <3>1, MaxFaultsAssumption
    <2>2. CASE Duplicate(c)
        <3>1. faults < MaxFaults /\ faults' = faults + 1 /\ UNCHANGED <<serverVars, ver, cl>>
            BY <2>2 DEF Duplicate
        <3> QED BY <1>1, <3>1, MaxFaultsAssumption
    <2>3. CASE DeliverCopy(c)
        BY <1>1, <2>3 DEF DeliverCopy
    <2> QED BY <2>1, <2>2, <2>3 DEF NetworkStep
<1>3. CASE Lose(c)
    <2>1. ASSUME NEW q \in [Clients -> Seq(Messages)], NEW i \in 1..Len(q[c])
          PROVE  /\ [q EXCEPT ![c] = RemoveAt(@, i)] \in [Clients -> Seq(Messages)]
                 /\ \A d \in Clients : ToSet([q EXCEPT ![c] = RemoveAt(@, i)][d]) \subseteq ToSet(q[d])
        <3>1. RemoveAt(q[c], i) \in Seq(Messages) /\ ToSet(RemoveAt(q[c], i)) \subseteq ToSet(q[c])
            BY RemoveAtFacts
        <3> QED BY <3>1
    <2>2. /\ held' = held
          /\ \/ /\ \E i \in 1..Len(toServer[c]) :
                      toServer' = [toServer EXCEPT ![c] = RemoveAt(@, i)]
                /\ toClient' = toClient
             \/ /\ \E i \in 1..Len(toClient[c]) :
                      toClient' = [toClient EXCEPT ![c] = RemoveAt(@, i)]
                /\ toServer' = toServer
        BY <1>3 DEF Lose
    <2>3. /\ toServer' \in [Clients -> Seq(Messages)] /\ toClient' \in [Clients -> Seq(Messages)]
          /\ \A d \in Clients : /\ ToSet(toServer'[d]) \subseteq ToSet(toServer[d])
                                /\ ToSet(toClient'[d]) \subseteq ToSet(toClient[d])
        <3>1. CASE \E i \in 1..Len(toServer[c]) : /\ toServer' = [toServer EXCEPT ![c] = RemoveAt(@, i)]
                                                  /\ toClient' = toClient
            <4>1. PICK i \in 1..Len(toServer[c]) : toServer' = [toServer EXCEPT ![c] = RemoveAt(@, i)]
                BY <3>1
            <4>2. /\ toServer' \in [Clients -> Seq(Messages)]
                  /\ \A d \in Clients : ToSet(toServer'[d]) \subseteq ToSet(toServer[d])
                BY <1>1, <2>1, <4>1
            <4> QED BY <1>1, <3>1, <4>2
        <3>2. CASE \E i \in 1..Len(toClient[c]) : /\ toClient' = [toClient EXCEPT ![c] = RemoveAt(@, i)]
                                                  /\ toServer' = toServer
            <4>1. PICK i \in 1..Len(toClient[c]) : toClient' = [toClient EXCEPT ![c] = RemoveAt(@, i)]
                BY <3>2
            <4>2. /\ toClient' \in [Clients -> Seq(Messages)]
                  /\ \A d \in Clients : ToSet(toClient'[d]) \subseteq ToSet(toClient[d])
                BY <1>1, <2>1, <4>1
            <4> QED BY <1>1, <3>2, <4>2
        <3> QED BY <2>2, <3>1, <3>2
    <2>4. ASSUME NEW d \in Clients
          PROVE  AtServer(d)' \subseteq AtServer(d) /\ AtClient(d)' \subseteq AtClient(d)
        BY <2>2, <2>3 DEF AtServer, AtClient, InFlight
    <2> QED BY <1>1, <1>2, <2>2, <2>3, <2>4
<1>4. CASE Duplicate(c)
    <2>1. PICK to \in {"server", "client"}, m \in AtServer(c) \cup AtClient(c) :
             /\ held' = held \cup {Copy(to, c, m)}
             /\ to = "server" => m \in AtServer(c)
             /\ to = "client" => m \in AtClient(c)
        BY <1>4, FlightByQueue DEF Duplicate
    <2>2. toServer' = toServer /\ toClient' = toClient
        BY <1>4 DEF Duplicate
    <2>3. m \in Messages
        BY FlightTypes DEF IInv
    <2>4. /\ Copy(to, c, m) \in [to : {"server", "client"}, c : Clients, m : Messages]
          /\ Copy(to, c, m).to = to /\ Copy(to, c, m).c = c /\ Copy(to, c, m).m = m
        BY <2>3 DEF Copy
    <2>5. IsFiniteSet(held')
        BY <1>1, <2>1, FS_AddElement
    <2>6. ASSUME NEW d \in Clients
          PROVE  AtServer(d)' \subseteq AtServer(d) /\ AtClient(d)' \subseteq AtClient(d)
        BY <2>1, <2>2, <2>4 DEF AtServer, AtClient, InFlight
    <2> QED BY <1>1, <1>2, <2>1, <2>2, <2>4, <2>5, <2>6
<1>5. CASE DeliverCopy(c)
    <2>1. PICK h \in held :
             /\ h.c = c /\ held' = held \ {h}
             /\ IF h.to = "server"
                THEN toServer' = [toServer EXCEPT ![c] = @ \o <<h.m>>] /\ UNCHANGED toClient
                ELSE toClient' = [toClient EXCEPT ![c] = Append(@, h.m)] /\ UNCHANGED toServer
        BY <1>5 DEF DeliverCopy, SendToServer
    <2>2. h.m \in Messages /\ h.to \in {"server", "client"}
        BY <1>1
    <2> DEFINE out == <<h.m>>
    <2>3. out \in Seq(Messages) /\ ToSet(out) = {h.m}
        BY <2>2, OneOrTwo
    <2>4. Append(toClient[c], h.m) = toClient[c] \o out
        <3>1. toClient[c] \in Seq(Messages)
            BY <1>1
        <3> QED BY <2>2, <3>1, AppendIsConcat
    <2>5. /\ h.to = "server" => h.m \in AtServer(c)
          /\ h.to = "client" => h.m \in AtClient(c)
        BY <2>1, FlightByQueue
    <2>6. IsFiniteSet(held')
        BY <1>1, <2>1, FS_RemoveElement
    <2>7. /\ toServer' \in [Clients -> Seq(Messages)] /\ toClient' \in [Clients -> Seq(Messages)]
          /\ \A d \in Clients :
                /\ ToSet(toServer'[d]) \subseteq
                      ToSet(toServer[d]) \cup (IF d = c /\ h.to = "server" THEN {h.m} ELSE {})
                /\ ToSet(toClient'[d]) \subseteq
                      ToSet(toClient[d]) \cup (IF d = c /\ h.to # "server" THEN {h.m} ELSE {})
        <3>1. ASSUME NEW q \in [Clients -> Seq(Messages)]
              PROVE  /\ [q EXCEPT ![c] = @ \o out] \in [Clients -> Seq(Messages)]
                     /\ \A d \in Clients :
                           ToSet([q EXCEPT ![c] = @ \o out][d]) \subseteq
                              ToSet(q[d]) \cup (IF d = c THEN ToSet(out) ELSE {})
            <4> HIDE DEF out
            <4>1. ASSUME NEW d \in Clients
                  PROVE  /\ [q EXCEPT ![c] = @ \o out] \in [Clients -> Seq(Messages)]
                         /\ ToSet([q EXCEPT ![c] = @ \o out][d]) \subseteq
                              ToSet(q[d]) \cup (IF d = c THEN ToSet(out) ELSE {})
                BY <2>3, QueueNext
            <4> QED BY <4>1
        <3>2. CASE h.to = "server"
            <4>1. toServer' = [toServer EXCEPT ![c] = @ \o out] /\ toClient' = toClient
                BY <2>1, <3>2
            <4> HIDE DEF out
            <4> QED BY <1>1, <2>3, <3>1, <3>2, <4>1
        <3>3. CASE h.to # "server"
            <4>1. toClient' = [toClient EXCEPT ![c] = @ \o out] /\ toServer' = toServer
                BY <2>1, <2>4, <3>3
            <4> HIDE DEF out
            <4> QED BY <1>1, <2>3, <3>1, <3>3, <4>1
        <3> QED BY <3>2, <3>3
    <2>8. ASSUME NEW d \in Clients
          PROVE  AtServer(d)' \subseteq AtServer(d) /\ AtClient(d)' \subseteq AtClient(d)
        <3>1. AtServer(d)' \subseteq AtServer(d) \cup (IF d = c /\ h.to = "server" THEN {h.m} ELSE {})
            BY <2>1, <2>7 DEF AtServer, InFlight
        <3>2. AtClient(d)' \subseteq AtClient(d) \cup (IF d = c /\ h.to # "server" THEN {h.m} ELSE {})
            BY <2>1, <2>7 DEF AtClient, InFlight
        <3> QED BY <2>2, <2>5, <3>1, <3>2
    <2> QED BY <1>1, <1>2, <2>1, <2>6, <2>7, <2>8
<1> QED BY <1>3, <1>4, <1>5 DEF NetworkStep

-----------------------------------------------------------------------------
(***************************************************************************)
(* Types                                                                   *)
(***************************************************************************)

LEMMA TypesFrom ==
    ASSUME IInv, ServerTypes', cl' \in [Clients -> ClientRecord], UNCHANGED <<sver, ver>>,
           toServer' \in [Clients -> Seq(Messages)], toClient' \in [Clients -> Seq(Messages)],
           held' \subseteq [to : {"server", "client"}, c : Clients, m : Messages],
           faults' \in 0..MaxFaults
    PROVE  TypeOK'
BY DEF IInv, TypeOK, ServerTypes

LEMMA ClientStepTypes ==
    ASSUME IInv, NEW c \in Clients, NEW r, NEW out, Moves(c, r, out)
    PROVE  TypeOK' /\ IsFiniteSet(held')
<1>1. /\ r \in ClientRecord /\ cl' = [cl EXCEPT ![c] = r]
      /\ UNCHANGED <<sver, sessions, idle, offered, pending>> /\ UNCHANGED <<ver, held>>
      /\ UNCHANGED faults \/ (faults < MaxFaults /\ faults' = faults + 1)
    BY DEF Moves, serverVars
<1>2. /\ cl \in [Clients -> ClientRecord] /\ faults \in 0..MaxFaults /\ IsFiniteSet(held)
      /\ held \subseteq [to : {"server", "client"}, c : Clients, m : Messages]
    BY DEF IInv, TypeOK
<1>3. toServer' \in [Clients -> Seq(Messages)] /\ toClient' \in [Clients -> Seq(Messages)]
    BY ClientFlight
<1>4. cl' \in [Clients -> ClientRecord]
    BY <1>1, <1>2
<1>5. faults' \in 0..MaxFaults
    BY <1>1, <1>2, MaxFaultsAssumption
<1>6. ServerTypes'
    BY <1>1, ServerTyped DEF ServerTypes
<1> QED BY <1>1, <1>2, <1>3, <1>4, <1>5, <1>6, TypesFrom

LEMMA ServerStepTypes ==
    ASSUME IInv, NEW c \in Clients, NEW out, Serves(c, out)
    PROVE  TypeOK' /\ IsFiniteSet(held')
<1>1. ServerTypes' /\ UNCHANGED <<sver, ver, cl, held, faults>>
    BY DEF Serves
<1>2. /\ cl \in [Clients -> ClientRecord] /\ faults \in 0..MaxFaults /\ IsFiniteSet(held)
      /\ held \subseteq [to : {"server", "client"}, c : Clients, m : Messages]
    BY DEF IInv, TypeOK
<1>3. toServer' \in [Clients -> Seq(Messages)] /\ toClient' \in [Clients -> Seq(Messages)]
    BY ServerFlight
<1> QED BY <1>1, <1>2, <1>3, TypesFrom

LEMMA NetworkTypes ==
    ASSUME IInv, NEW c \in Clients, NetworkStep(c)
    PROVE  TypeOK' /\ IsFiniteSet(held')
<1>1. /\ toServer' \in [Clients -> Seq(Messages)] /\ toClient' \in [Clients -> Seq(Messages)]
      /\ held' \subseteq [to : {"server", "client"}, c : Clients, m : Messages]
      /\ IsFiniteSet(held') /\ faults' \in 0..MaxFaults
      /\ UNCHANGED <<serverVars, ver, cl>>
    BY NetworkFlight
<1>2. UNCHANGED <<sver, sessions, idle, offered, pending>> /\ UNCHANGED <<ver, cl>>
    BY <1>1 DEF serverVars
<1>3. ServerTypes'
    BY <1>2, ServerTyped DEF ServerTypes
<1>4. cl' \in [Clients -> ClientRecord]
    BY <1>2 DEF IInv, TypeOK
<1> QED BY <1>1, <1>2, <1>3, <1>4, TypesFrom

LEMMA IdleTypes ==
    ASSUME IInv, NEW i \in Ids, BecomeIdle(i)
    PROVE  TypeOK' /\ IsFiniteSet(held')
BY DEF IInv, TypeOK, BecomeIdle

LEMMA StutterTypes == ASSUME IInv, UNCHANGED vars PROVE TypeOK' /\ IsFiniteSet(held')
BY DEF IInv, TypeOK, vars, serverVars

-----------------------------------------------------------------------------
(***************************************************************************)
(* A nonce that is new to everybody                                        *)
(***************************************************************************)

LEMMA FlightIsUsed == \A c \in Clients : Flight(c) \subseteq AllMessages
BY DEF Flight, AtServer, AtClient, InFlight, AllMessages

LEMMA FreshFacts ==
    ASSUME IInv, NEW n, n = FreshNonce
    PROVE  /\ n \in Nat /\ n # NoNonce
           /\ \A c \in Clients :
                 /\ \A m \in Flight(c) : m.body # Hash(n) /\ m.key[2] # n
                 /\ cl[c].sNonce # n
           /\ \A c \in DOMAIN pending : pending[c].s # n /\ pending[c].c # n
           /\ \A i \in DOMAIN sessions : sessions[i].key[1] # n /\ sessions[i].key[2] # n
<1> DEFINE keys == {m.key : m \in AllMessages} \cup {cl[c].key : c \in Clients}
                   \cup {cl[c].msg.key : c \in Clients}
                   \cup {sessions[i].key : i \in DOMAIN sessions}
<1>1. n \in Nat /\ n # 0 /\ n \notin UsedNonces
    BY FreshIsUnused DEF IInv
<1>2. UsedNonces = {m.body[2] : m \in AllMessages}
                   \cup {k[1] : k \in keys} \cup {k[2] : k \in keys}
                   \cup {cl[c].cNonce : c \in Clients} \cup {cl[c].sNonce : c \in Clients}
                   \cup {pending[c].s : c \in DOMAIN pending}
                   \cup {pending[c].c : c \in DOMAIN pending}
    BY DEF UsedNonces
<1>3. /\ \A m \in AllMessages : m.key \in keys
      /\ \A i \in DOMAIN sessions : sessions[i].key \in keys
    OBVIOUS
<1> HIDE DEF keys
<1>4. \A m \in AllMessages : m.body[2] # n /\ m.key[2] # n
    BY <1>1, <1>2, <1>3
<1>5. Hash(n)[2] = n
    BY DEF Hash
<1>6. ASSUME NEW c \in Clients
      PROVE  /\ \A m \in Flight(c) : m.body # Hash(n) /\ m.key[2] # n
             /\ cl[c].sNonce # n
    <2>1. \A m \in Flight(c) : m \in AllMessages
        BY FlightIsUsed
    <2>2. cl[c].sNonce \in UsedNonces
        BY <1>2
    <2> QED BY <1>1, <1>4, <1>5, <2>1, <2>2
<1>7. \A c \in DOMAIN pending : pending[c].s # n /\ pending[c].c # n
    BY <1>1, <1>2
<1>8. \A i \in DOMAIN sessions : sessions[i].key[1] # n /\ sessions[i].key[2] # n
    BY <1>1, <1>2, <1>3
<1> QED BY <1>1, <1>6, <1>7, <1>8 DEF NoNonce

-----------------------------------------------------------------------------
(***************************************************************************)
(* The handshake of a client that takes no part in the step                *)
(***************************************************************************)

\* What the steps of others, and of the server without a new session for c,
\* have in common.
Undisturbed(c) ==
    /\ cl'[c] = cl[c] /\ ver'[c] = ver[c]
    /\ AtServer(c)' \subseteq AtServer(c)
    /\ \A m \in AtClient(c)' :
          \/ m \in AtClient(c)
          \/ /\ \A n : m.body # Hash(n)
             /\ m.key = NoKey \/ \E x \in AtServer(c) : m.key = x.key
    /\ c \in DOMAIN pending' =>
          \/ SamePending(c)
          \/ /\ pending'[c].s # cl[c].sNonce
             /\ \A m \in AtServer(c) : m.body # Hash(pending'[c].s)
    /\ \A i \in DOMAIN sessions' :
          sessions'[i].addr = c =>
             \/ i \in DOMAIN sessions /\ sessions'[i].addr = sessions[i].addr
                /\ sessions'[i].key = sessions[i].key
             \/ sessions'[i].key = NoKey
    /\ \A i \in DOMAIN sessions \ idle :
          cl[c].state = "hash" /\ sessions[i].addr = c
             /\ sessions[i].key = <<cl[c].sNonce, cl[c].cNonce>> => SameSession(i)

LEMMA UndisturbedKeeps ==
    ASSUME IInv, NEW c \in Clients, Undisturbed(c)
    PROVE  PhaseOK(c)' /\ PendingAgrees(c)' /\ SessionsAgree(c)' /\ HandshakeOK(c)'
<1>1. PhaseOK(c) /\ PendingAgrees(c) /\ SessionsAgree(c) /\ HandshakeOK(c) /\ ServerNonces
    BY DEF IInv
<1>2. cl'[c] = cl[c] /\ ver'[c] = ver[c] /\ AtServer(c)' \subseteq AtServer(c)
    BY DEF Undisturbed
<1>3. PhaseOK(c)'
    BY <1>1, <1>2 DEF PhaseOK
<1>4. PendingAgrees(c)'
    <2> SUFFICES ASSUME cl[c].cNonce # NoNonce, c \in DOMAIN pending'
                 PROVE  /\ pending'[c].c = cl[c].cNonce =>
                              \A m \in AtServer(c)' :
                                 m.body = Hash(pending'[c].s) => pending'[c].s = cl[c].sNonce
                        /\ cl[c].state \in InSession => pending'[c].s # cl[c].sNonce
        BY <1>2 DEF PendingAgrees
    <2>1. CASE SamePending(c)
        BY <1>1, <1>2, <2>1 DEF SamePending, PendingAgrees
    <2>2. CASE /\ pending'[c].s # cl[c].sNonce
               /\ \A m \in AtServer(c) : m.body # Hash(pending'[c].s)
        BY <1>2, <2>2
    <2> QED BY <2>1, <2>2 DEF Undisturbed
<1>5. NoKey[2] = NoNonce
    BY DEF NoKey
<1>6. SessionsAgree(c)'
    <2> SUFFICES ASSUME cl[c].cNonce # NoNonce, NEW i \in DOMAIN sessions',
                        sessions'[i].addr = c, sessions'[i].key[2] = cl[c].cNonce
                 PROVE  /\ sessions'[i].key[1] = cl[c].sNonce
                        /\ cl[c].state \in InSession => i = cl[c].id
        BY <1>2 DEF SessionsAgree
    <2>1. i \in DOMAIN sessions /\ sessions[i].addr = c /\ sessions'[i].key = sessions[i].key
        BY <1>5 DEF Undisturbed
    <2> QED BY <1>1, <2>1 DEF SessionsAgree
<1>7. HandshakeOK(c)'
    <2> SUFFICES ASSUME cl[c].cNonce # NoNonce, cl[c].state \in {"hello", "hash"}
                 PROVE  /\ \A m \in AtServer(c)' \cup AtClient(c)' : m.key[2] # cl[c].cNonce
                        /\ \A m \in AtClient(c)' :
                              m.body = Hash(cl[c].cNonce) =>
                                 /\ m.id \in DOMAIN sessions' \ idle'
                                 /\ sessions'[m.id].addr = c
                                 /\ sessions'[m.id].key = <<cl[c].sNonce, cl[c].cNonce>>
        BY <1>2 DEF HandshakeOK
    <2>1. \A m \in AtServer(c) \cup AtClient(c) : m.key[2] # cl[c].cNonce
        BY <1>1 DEF HandshakeOK
    <2>2. \A m \in AtServer(c)' \cup AtClient(c)' : m.key[2] # cl[c].cNonce
        BY <1>2, <1>5, <2>1 DEF Undisturbed
    <2>3. ASSUME NEW m \in AtClient(c)', m.body = Hash(cl[c].cNonce)
          PROVE  /\ m.id \in DOMAIN sessions' \ idle'
                 /\ sessions'[m.id].addr = c
                 /\ sessions'[m.id].key = <<cl[c].sNonce, cl[c].cNonce>>
        <3>1. m \in AtClient(c)
            BY <2>3 DEF Undisturbed
        <3>2. /\ m.id \in DOMAIN sessions \ idle
              /\ sessions[m.id].addr = c
              /\ sessions[m.id].key = <<cl[c].sNonce, cl[c].cNonce>>
            BY <1>1, <2>3, <3>1 DEF HandshakeOK
        <3>3. cl[c].state = "hash"
            <4>1. cl[c].state = "hello" => cl[c].sNonce = NoNonce
                BY <1>1 DEF PhaseOK
            <4>2. sessions[m.id].key[1] = cl[c].sNonce /\ sessions[m.id].key[2] = cl[c].cNonce
                BY <3>2
            <4>3. sessions[m.id].key[1] = NoNonce => sessions[m.id].key = NoKey
                BY <1>1, <3>2 DEF ServerNonces
            <4> QED BY <1>5, <4>1, <4>2, <4>3
        <3>4. SameSession(m.id)
            BY <3>2, <3>3 DEF Undisturbed
        <3> QED BY <3>2, <3>4 DEF SameSession
    <2> QED BY <2>2, <2>3
<1> QED BY <1>3, <1>4, <1>6, <1>7

-----------------------------------------------------------------------------
(***************************************************************************)
(* The invariant after a step of the server                                *)
(***************************************************************************)

LEMMA ServerPlain ==
    ASSUME IInv, NEW c \in Clients, NEW out, Serves(c, out),
           \A m \in ToSet(out) : m.hello \/ m.body = NoBody
    PROVE  PlainOK'
<1>1. cl' = cl
    BY DEF Serves
<1>2. ASSUME NEW d \in Clients
      PROVE  \A m \in AtServer(d)' \cup AtClient(d)' : m.hello \/ m.body = NoBody
    <2>1. /\ AtServer(d)' \subseteq AtServer(d)
          /\ AtClient(d)' \subseteq AtClient(d) \cup ToSet(out)
        BY ServerFlight
    <2>2. \A m \in AtServer(d) \cup AtClient(d) : m.hello \/ m.body = NoBody
        BY DEF IInv, PlainOK
    <2> QED BY <2>1, <2>2
<1>3. \A d \in Clients : cl[d].state = "get" => cl[d].msg.body = NoBody
    BY DEF IInv, PlainOK
<1> QED BY <1>1, <1>2, <1>3 DEF PlainOK

\* The flags of the replies.
LEMMA RepliesPlain ==
    ASSUME NEW c, NEW out, Quiet(c, out) \/ Greets(c, out) \/ Opens(c, out)
    PROVE  \A m \in ToSet(out) : m.hello \/ m.body = NoBody
<1>1. CASE Quiet(c, out)
    BY <1>1 DEF Quiet, Plain
<1>2. CASE Greets(c, out)
    BY <1>2 DEF Greets
<1>3. CASE Opens(c, out)
    BY <1>3 DEF Opens
<1> QED BY <1>1, <1>2, <1>3

LEMMA QuietNonces ==
    ASSUME IInv, NEW c \in Clients, NEW out, Serves(c, out), Quiet(c, out)
    PROVE  ServerNonces'
<1>1. sver' = sver
    BY DEF Serves
<1>2. \A d \in DOMAIN pending' : d \in DOMAIN pending /\ pending'[d] = pending[d]
    BY DEF Quiet, SamePending
<1>3. \A i \in DOMAIN sessions' :
         \/ i \in DOMAIN sessions /\ sessions'[i].key = sessions[i].key
         \/ sessions'[i].key = NoKey
    BY DEF Quiet, SameSession
<1>4. NoKey[1] = NoNonce
    BY DEF NoKey
<1>5. ServerNonces
    BY DEF IInv
<1>6. ASSUME NEW d \in DOMAIN pending'
      PROVE  /\ pending'[d].s # NoNonce
             /\ \A e \in DOMAIN pending' : pending'[d].s = pending'[e].s => d = e
             /\ \A i \in DOMAIN sessions' : pending'[d].s # sessions'[i].key[1]
    BY <1>2, <1>3, <1>4, <1>5 DEF ServerNonces
<1>7. ASSUME NEW i \in DOMAIN sessions'
      PROVE  /\ sessions'[i].key[1] = NoNonce => sessions'[i].key = NoKey
             /\ sver' = 1 => sessions'[i].key = NoKey
             /\ \A j \in DOMAIN sessions' :
                   sessions'[i].key[1] # NoNonce /\ sessions'[i].key[1] = sessions'[j].key[1] => i = j
    BY <1>1, <1>3, <1>4, <1>5 DEF ServerNonces
<1> QED BY <1>6, <1>7 DEF ServerNonces

LEMMA GreetsNonces ==
    ASSUME IInv, NEW c \in Clients, NEW out, Serves(c, out), Greets(c, out)
    PROVE  ServerNonces'
<1> DEFINE n == FreshNonce
<1>1. sver' = sver
    BY DEF Serves
<1>2. /\ n # NoNonce
      /\ \A d \in DOMAIN pending : pending[d].s # n
      /\ \A i \in DOMAIN sessions : sessions[i].key[1] # n
    BY FreshFacts
<1>3. /\ pending'[c].s = n
      /\ \A d \in DOMAIN pending' : d # c => d \in DOMAIN pending /\ pending'[d] = pending[d]
    BY DEF Greets, SamePending
<1> HIDE DEF n
<1>4. \A i \in DOMAIN sessions' : i \in DOMAIN sessions /\ sessions'[i].key = sessions[i].key
    <2>1. \A i \in DOMAIN sessions' : i # Nowhere
        BY SlotIds DEF Serves, ServerTypes, Nowhere
    <2> QED BY <2>1 DEF Greets, OnlyReaps, SameSession
<1>5. ServerNonces
    BY DEF IInv
<1>6. ASSUME NEW d \in DOMAIN pending'
      PROVE  /\ pending'[d].s # NoNonce
             /\ \A e \in DOMAIN pending' : pending'[d].s = pending'[e].s => d = e
             /\ \A i \in DOMAIN sessions' : pending'[d].s # sessions'[i].key[1]
    BY <1>2, <1>3, <1>4, <1>5 DEF ServerNonces
<1>7. ASSUME NEW i \in DOMAIN sessions'
      PROVE  /\ sessions'[i].key[1] = NoNonce => sessions'[i].key = NoKey
             /\ sver' = 1 => sessions'[i].key = NoKey
             /\ \A j \in DOMAIN sessions' :
                   sessions'[i].key[1] # NoNonce /\ sessions'[i].key[1] = sessions'[j].key[1] => i = j
    BY <1>1, <1>4, <1>5 DEF ServerNonces
<1> QED BY <1>6, <1>7 DEF ServerNonces

LEMMA OpensNonces ==
    ASSUME IInv, NEW c \in Clients, NEW out, Serves(c, out), Opens(c, out)
    PROVE  ServerNonces'
<1> DEFINE p == pending[c]
<1>1. sver' = 2 /\ c \in DOMAIN pending
    BY DEF Serves, Opens
<1>2. PICK k \in DOMAIN sessions' : sessions'[k].key = <<p.s, p.c>> /\ OnlyReaps(k)
    BY DEF Opens
<1>3. \A d \in DOMAIN pending' : d # c /\ d \in DOMAIN pending /\ pending'[d] = pending[d]
    BY DEF Opens, SamePending
<1>4. \A i \in DOMAIN sessions' :
         i # k => i \in DOMAIN sessions /\ sessions'[i].key = sessions[i].key
    BY <1>2 DEF OnlyReaps, SameSession
<1>5. ServerNonces /\ sessions'[k].key[1] = p.s
    BY <1>2 DEF IInv
<1>6. /\ p.s # NoNonce
      /\ \A d \in DOMAIN pending : d # c => pending[d].s # p.s
      /\ \A i \in DOMAIN sessions : p.s # sessions[i].key[1]
    BY <1>1, <1>5 DEF ServerNonces
<1> HIDE DEF p
<1>7. ASSUME NEW d \in DOMAIN pending'
      PROVE  /\ pending'[d].s # NoNonce
             /\ \A e \in DOMAIN pending' : pending'[d].s = pending'[e].s => d = e
             /\ \A i \in DOMAIN sessions' : pending'[d].s # sessions'[i].key[1]
    BY <1>3, <1>4, <1>5, <1>6 DEF ServerNonces
<1>8. ASSUME NEW i \in DOMAIN sessions'
      PROVE  /\ sessions'[i].key[1] = NoNonce => sessions'[i].key = NoKey
             /\ sver' = 1 => sessions'[i].key = NoKey
             /\ \A j \in DOMAIN sessions' :
                   sessions'[i].key[1] # NoNonce /\ sessions'[i].key[1] = sessions'[j].key[1] => i = j
    BY <1>1, <1>4, <1>5, <1>6 DEF ServerNonces
<1> QED BY <1>7, <1>8 DEF ServerNonces

\* What a client that is not served, or that is served without a session made,
\* sees of the step.
LEMMA ServedFlight ==
    ASSUME IInv, NEW c \in Clients, NEW d \in Clients, NEW out, Serves(c, out), RepliesTo(c, out),
           d # c \/ \A m \in ToSet(out) : \A n : m.body # Hash(n)
    PROVE  /\ cl'[d] = cl[d] /\ ver'[d] = ver[d]
           /\ AtServer(d)' \subseteq AtServer(d)
           /\ \A m \in AtClient(d)' :
                 \/ m \in AtClient(d)
                 \/ /\ \A n : m.body # Hash(n)
                    /\ m.key = NoKey \/ \E x \in AtServer(d) : m.key = x.key
<1>1. cl'[d] = cl[d] /\ ver'[d] = ver[d]
    BY DEF Serves
<1>2. /\ AtServer(d)' \subseteq AtServer(d)
      /\ AtClient(d)' \subseteq AtClient(d) \cup (IF d = c THEN ToSet(out) ELSE {})
    BY ServerFlight
<1>3. \A m \in ToSet(out) : m.key = NoKey \/ \E x \in AtServer(c) : m.key = x.key
    BY DEF RepliesTo
<1>4. CASE d # c
    BY <1>1, <1>2, <1>4
<1>5. CASE d = c
    BY <1>1, <1>2, <1>3, <1>5
<1> QED BY <1>4, <1>5

LEMMA QuietUndisturbed ==
    ASSUME IInv, NEW c \in Clients, NEW d \in Clients, NEW out, Serves(c, out), Quiet(c, out)
    PROVE  Undisturbed(d)
<1>1. \A m \in ToSet(out) : \A n : m.body # Hash(n)
    BY Bodiless DEF Quiet, Plain
<1>2. RepliesTo(c, out)
    BY DEF Quiet
<1>3. /\ cl'[d] = cl[d] /\ ver'[d] = ver[d]
      /\ AtServer(d)' \subseteq AtServer(d)
      /\ \A m \in AtClient(d)' :
            \/ m \in AtClient(d)
            \/ /\ \A n : m.body # Hash(n)
               /\ m.key = NoKey \/ \E x \in AtServer(d) : m.key = x.key
    BY <1>1, <1>2, ServedFlight
<1>4. d \in DOMAIN pending' => SamePending(d)
    BY DEF Quiet
<1>5. \A i \in DOMAIN sessions' :
         \/ i \in DOMAIN sessions /\ sessions'[i].addr = sessions[i].addr
            /\ sessions'[i].key = sessions[i].key
         \/ sessions'[i].key = NoKey
    BY DEF Quiet, SameSession
<1>6. ASSUME NEW i \in DOMAIN sessions \ idle, cl[d].state = "hash", sessions[i].addr = d,
             sessions[i].key = <<cl[d].sNonce, cl[d].cNonce>>
      PROVE  SameSession(i)
    <2>1. cl[d].cNonce # NoNonce
        BY <1>6 DEF IInv, PhaseOK
    <2>2. sessions[i].key # NoKey /\ sessions[i].key[2] = cl[d].cNonce
        BY <1>6, <2>1 DEF NoKey
    <2>3. sver # 1
        BY <2>2 DEF IInv, ServerNonces
    <2>4. ASSUME Quits(c, i) PROVE FALSE
        <3>1. d = c /\ Head(toServer[c]).key = sessions[i].key
            BY <1>6, <2>2, <2>4 DEF Quits
        <3>2. toServer[c] # <<>>
            BY DEF Serves, Exchange
        <3>3. Head(toServer[c]) \in AtServer(c)
            BY <3>2, Request
        <3>4. HandshakeOK(c)
            BY DEF IInv
        <3>5. \A m \in AtServer(c) : m.key[2] # cl[c].cNonce
            BY <1>6, <2>1, <3>1, <3>4 DEF HandshakeOK
        <3> QED BY <2>2, <3>1, <3>3, <3>5
    <2> QED BY <2>3, <2>4 DEF Quiet
<1> QED BY <1>3, <1>4, <1>5, <1>6 DEF Undisturbed

LEMMA GreetsUndisturbed ==
    ASSUME IInv, NEW c \in Clients, NEW d \in Clients, NEW out, Serves(c, out), Greets(c, out)
    PROVE  Undisturbed(d)
<1> DEFINE n == FreshNonce
<1>1. \A m \in ToSet(out) : \A k : m.body # Hash(k)
    BY Bodiless DEF Greets
<1>2. RepliesTo(c, out) /\ OnlyReaps(Nowhere)
    BY DEF Greets
<1>3. /\ cl'[d] = cl[d] /\ ver'[d] = ver[d]
      /\ AtServer(d)' \subseteq AtServer(d)
      /\ \A m \in AtClient(d)' :
            \/ m \in AtClient(d)
            \/ /\ \A k : m.body # Hash(k)
               /\ m.key = NoKey \/ \E x \in AtServer(d) : m.key = x.key
    BY <1>1, <1>2, ServedFlight
<1>4. pending'[c].s = n /\ (d \in DOMAIN pending' /\ d # c => SamePending(d))
    BY DEF Greets
<1>5. cl[c].sNonce # n /\ \A m \in AtServer(c) : m.body # Hash(n)
    BY FreshFacts DEF Flight
<1> HIDE DEF n
<1>6. d \in DOMAIN pending' =>
         \/ SamePending(d)
         \/ /\ pending'[d].s # cl[d].sNonce
            /\ \A m \in AtServer(d) : m.body # Hash(pending'[d].s)
    BY <1>4, <1>5
<1>7. \A i \in DOMAIN sessions' : SameSession(i)
    <2>1. \A i \in DOMAIN sessions' : i # Nowhere
        BY SlotIds DEF Serves, ServerTypes, Nowhere
    <2> QED BY <1>2, <2>1 DEF OnlyReaps
<1>8. \A i \in DOMAIN sessions' :
         i \in DOMAIN sessions /\ sessions'[i].addr = sessions[i].addr
         /\ sessions'[i].key = sessions[i].key
    BY <1>7 DEF SameSession
<1>9. \A i \in DOMAIN sessions \ idle : SameSession(i)
    BY <1>2 DEF OnlyReaps
<1> QED BY <1>3, <1>6, <1>8, <1>9 DEF Undisturbed

LEMMA OpensUndisturbed ==
    ASSUME IInv, NEW c \in Clients, NEW d \in Clients, d # c, NEW out, Serves(c, out), Opens(c, out)
    PROVE  Undisturbed(d)
<1>1. RepliesTo(c, out)
    BY DEF Opens
<1>2. /\ cl'[d] = cl[d] /\ ver'[d] = ver[d]
      /\ AtServer(d)' \subseteq AtServer(d)
      /\ \A m \in AtClient(d)' :
            \/ m \in AtClient(d)
            \/ /\ \A k : m.body # Hash(k)
               /\ m.key = NoKey \/ \E x \in AtServer(d) : m.key = x.key
    BY <1>1, ServedFlight
<1>3. d \in DOMAIN pending' => SamePending(d)
    BY DEF Opens
<1>4. PICK k \in DOMAIN sessions' : sessions'[k].addr = c /\ OnlyReaps(k)
    BY DEF Opens
<1>5. \A i \in DOMAIN sessions' :
         sessions'[i].addr = d =>
             i \in DOMAIN sessions /\ sessions'[i].addr = sessions[i].addr
             /\ sessions'[i].key = sessions[i].key
    BY <1>4 DEF OnlyReaps, SameSession
<1>6. \A i \in DOMAIN sessions \ idle : SameSession(i)
    BY <1>4 DEF OnlyReaps
<1> QED BY <1>2, <1>3, <1>5, <1>6 DEF Undisturbed

\* The client that gets the session: if the server's part of the handshake is
\* the client's own, the client has just answered, and waits for the id.
LEMMA OpensHandshake ==
    ASSUME IInv, NEW c \in Clients, NEW out, Serves(c, out), Opens(c, out)
    PROVE  PhaseOK(c)' /\ PendingAgrees(c)' /\ SessionsAgree(c)' /\ HandshakeOK(c)'
<1> DEFINE p == pending[c]
<1>1. PhaseOK(c) /\ PendingAgrees(c) /\ SessionsAgree(c) /\ HandshakeOK(c)
    BY DEF IInv
<1>2. /\ cl'[c] = cl[c] /\ ver'[c] = ver[c]
      /\ AtServer(c)' \subseteq AtServer(c)
      /\ AtClient(c)' \subseteq AtClient(c) \cup ToSet(out)
    BY ServerFlight DEF Serves
<1>3. PICK k \in DOMAIN sessions' \ idle' :
         /\ \A m \in ToSet(out) : m.id = k /\ m.body = Hash(p.c)
         /\ sessions'[k].addr = c /\ sessions'[k].key = <<p.s, p.c>>
         /\ OnlyReaps(k)
    BY DEF Opens
<1>4. /\ c \in DOMAIN pending /\ c \notin DOMAIN pending'
      /\ \E x \in AtServer(c) : x.body = Hash(p.s)
    BY DEF Opens
<1>5. ASSUME cl[c].cNonce # NoNonce, p.c = cl[c].cNonce
      PROVE  p.s = cl[c].sNonce /\ cl[c].state \notin InSession
    BY <1>1, <1>4, <1>5 DEF PendingAgrees
<1>6. sessions'[k].key[1] = p.s /\ sessions'[k].key[2] = p.c
    BY <1>3
<1>7. \A m \in ToSet(out) : m.key = NoKey \/ \E x \in AtServer(c) : m.key = x.key
    BY DEF Opens, RepliesTo
<1> HIDE DEF p
<1>8. PhaseOK(c)'
    BY <1>1, <1>2 DEF PhaseOK
<1>9. PendingAgrees(c)'
    BY <1>4 DEF PendingAgrees
<1>10. SessionsAgree(c)'
    <2> SUFFICES ASSUME cl[c].cNonce # NoNonce, NEW i \in DOMAIN sessions',
                        sessions'[i].addr = c, sessions'[i].key[2] = cl[c].cNonce
                 PROVE  /\ sessions'[i].key[1] = cl[c].sNonce
                        /\ cl[c].state \in InSession => i = cl[c].id
        BY <1>2 DEF SessionsAgree
    <2>1. CASE i = k
        BY <1>5, <1>6, <2>1
    <2>2. CASE i # k
        <3>1. i \in DOMAIN sessions /\ sessions[i].addr = c /\ sessions'[i].key = sessions[i].key
            BY <1>3, <2>2 DEF OnlyReaps, SameSession
        <3> QED BY <1>1, <3>1 DEF SessionsAgree
    <2> QED BY <2>1, <2>2
<1>11. HandshakeOK(c)'
    <2> SUFFICES ASSUME cl[c].cNonce # NoNonce, cl[c].state \in {"hello", "hash"}
                 PROVE  /\ \A m \in AtServer(c)' \cup AtClient(c)' : m.key[2] # cl[c].cNonce
                        /\ \A m \in AtClient(c)' :
                              m.body = Hash(cl[c].cNonce) =>
                                 /\ m.id \in DOMAIN sessions' \ idle'
                                 /\ sessions'[m.id].addr = c
                                 /\ sessions'[m.id].key = <<cl[c].sNonce, cl[c].cNonce>>
        BY <1>2 DEF HandshakeOK
    <2>1. \A m \in AtServer(c) \cup AtClient(c) : m.key[2] # cl[c].cNonce
        BY <1>1 DEF HandshakeOK
    <2>2. NoKey[2] = NoNonce
        BY DEF NoKey
    <2>3. \A m \in AtServer(c)' \cup AtClient(c)' : m.key[2] # cl[c].cNonce
        BY <1>2, <1>7, <2>1, <2>2
    <2>4. ASSUME NEW m \in AtClient(c)', m.body = Hash(cl[c].cNonce)
          PROVE  /\ m.id \in DOMAIN sessions' \ idle'
                 /\ sessions'[m.id].addr = c
                 /\ sessions'[m.id].key = <<cl[c].sNonce, cl[c].cNonce>>
        <3>1. CASE m \in AtClient(c)
            <4>1. /\ m.id \in DOMAIN sessions \ idle
                  /\ sessions[m.id].addr = c
                  /\ sessions[m.id].key = <<cl[c].sNonce, cl[c].cNonce>>
                BY <1>1, <2>4, <3>1 DEF HandshakeOK
            <4>2. SameSession(m.id)
                BY <1>3, <4>1 DEF OnlyReaps
            <4> QED BY <4>1, <4>2 DEF SameSession
        <3>2. CASE m \in ToSet(out)
            <4>1. m.id = k /\ Hash(p.c) = Hash(cl[c].cNonce)
                BY <1>3, <2>4, <3>2 DEF p
            <4>2. p.c = cl[c].cNonce
                BY <4>1, Bodiless
            <4> QED BY <1>3, <1>5, <4>1, <4>2 DEF p
        <3> QED BY <1>2, <3>1, <3>2
    <2> QED BY <2>3, <2>4
<1> QED BY <1>8, <1>9, <1>10, <1>11

LEMMA ServerStepKeeps == ASSUME IInv, NEW c \in Clients, ServerEffect(c) PROVE IInv'
<1>1. PICK out : Serves(c, out) /\ (Quiet(c, out) \/ Greets(c, out) \/ Opens(c, out))
    BY DEF ServerEffect
<1>2. TypeOK' /\ IsFiniteSet(held')
    BY <1>1, ServerStepTypes
<1>3. PlainOK'
    BY <1>1, RepliesPlain, ServerPlain
<1>4. ServerNonces'
    BY <1>1, QuietNonces, GreetsNonces, OpensNonces
<1>5. ASSUME NEW d \in Clients
      PROVE  PhaseOK(d)' /\ PendingAgrees(d)' /\ SessionsAgree(d)' /\ HandshakeOK(d)'
    <2>1. CASE Quiet(c, out)
        BY <1>1, <2>1, QuietUndisturbed, UndisturbedKeeps
    <2>2. CASE Greets(c, out)
        BY <1>1, <2>2, GreetsUndisturbed, UndisturbedKeeps
    <2>3. CASE Opens(c, out) /\ d # c
        BY <1>1, <2>3, OpensUndisturbed, UndisturbedKeeps
    <2>4. CASE Opens(c, out) /\ d = c
        BY <1>1, <2>4, OpensHandshake
    <2> QED BY <1>1, <2>1, <2>2, <2>3, <2>4
<1> QED BY <1>2, <1>3, <1>4, <1>5 DEF IInv

-----------------------------------------------------------------------------
(***************************************************************************)
(* The invariant after a step of the network, or as time passes            *)
(***************************************************************************)

LEMMA SameTables ==
    ASSUME IInv, UNCHANGED <<sver, sessions, pending>>
    PROVE  ServerNonces'
BY DEF IInv, ServerNonces

LEMMA NetworkStepKeeps == ASSUME IInv, NEW c \in Clients, NetworkStep(c) PROVE IInv'
<1>1. TypeOK' /\ IsFiniteSet(held')
    BY NetworkTypes
<1>2. /\ \A d \in Clients : AtServer(d)' \subseteq AtServer(d) /\ AtClient(d)' \subseteq AtClient(d)
      /\ UNCHANGED <<sver, sessions, idle, offered, pending>> /\ UNCHANGED <<ver, cl>>
    BY NetworkFlight DEF serverVars
<1>3. PlainOK'
    <2>1. PlainOK
        BY DEF IInv
    <2> QED BY <1>2, <2>1 DEF PlainOK
<1>4. ServerNonces'
    BY <1>2, SameTables
<1>5. ASSUME NEW d \in Clients PROVE Undisturbed(d)
    BY <1>2 DEF Undisturbed, SamePending, SameSession
<1> QED BY <1>1, <1>3, <1>4, <1>5, UndisturbedKeeps DEF IInv

LEMMA IdleStepKeeps == ASSUME IInv, NEW i \in Ids, BecomeIdle(i) PROVE IInv'
<1>1. TypeOK' /\ IsFiniteSet(held')
    BY IdleTypes
<1>2. /\ i \in DOMAIN sessions \ idle
      /\ cl[sessions[i].addr].state = "hash" => cl[sessions[i].addr].cNonce # sessions[i].key[2]
      /\ idle' = idle \cup {i}
      /\ UNCHANGED <<sver, sessions, pending>>
      /\ UNCHANGED <<ver, cl, toServer, toClient, held>>
    BY DEF BecomeIdle
<1>3. \A d : AtServer(d)' = AtServer(d) /\ AtClient(d)' = AtClient(d)
    BY <1>2 DEF AtServer, AtClient, InFlight
<1>4. PlainOK'
    <2>1. PlainOK
        BY DEF IInv
    <2> QED BY <1>2, <1>3, <2>1 DEF PlainOK
<1>5. ServerNonces'
    BY <1>2, SameTables
<1>6. ASSUME NEW d \in Clients PROVE Undisturbed(d)
    <2>1. ASSUME NEW j \in DOMAIN sessions \ idle, cl[d].state = "hash", sessions[j].addr = d,
                 sessions[j].key = <<cl[d].sNonce, cl[d].cNonce>>
          PROVE  SameSession(j)
        <3>1. sessions[j].key[2] = cl[d].cNonce
            BY <2>1
        <3>2. j # i
            BY <1>2, <2>1, <3>1
        <3> QED BY <1>2, <3>2 DEF SameSession
    <2> QED BY <1>2, <1>3, <2>1 DEF Undisturbed, SamePending
<1> QED BY <1>1, <1>4, <1>5, <1>6, UndisturbedKeeps DEF IInv

LEMMA StutterKeeps == ASSUME IInv, UNCHANGED vars PROVE IInv'
<1>1. /\ UNCHANGED <<sver, sessions, idle, offered, pending>>
      /\ UNCHANGED <<ver, cl, toServer, toClient, held>>
    BY DEF vars, serverVars
<1>2. TypeOK' /\ IsFiniteSet(held')
    BY StutterTypes
<1>3. \A d : AtServer(d)' = AtServer(d) /\ AtClient(d)' = AtClient(d)
    BY <1>1 DEF AtServer, AtClient, InFlight
<1>4. PlainOK'
    <2>1. PlainOK
        BY DEF IInv
    <2> QED BY <1>1, <1>3, <2>1 DEF PlainOK
<1>5. ServerNonces'
    BY <1>1, SameTables
<1>6. ASSUME NEW d \in Clients PROVE Undisturbed(d)
    BY <1>1, <1>3 DEF Undisturbed, SamePending, SameSession
<1> QED BY <1>2, <1>4, <1>5, <1>6, UndisturbedKeeps DEF IInv

-----------------------------------------------------------------------------
(***************************************************************************)
(* The invariant after a step of a client                                  *)
(***************************************************************************)

ClientKind(c, r, out) ==
    \/ Begins(c, r, out) \/ Rests(c, r, out) \/ TakesId(c, r, out)
    \/ Answers(c, r, out) \/ Succeeds(c, r, out) \/ Continues(c, r, out)

\* What every kind of step changes.
LEMMA ClientMoves ==
    ASSUME IInv, NEW c \in Clients, NEW r, NEW out, Moves(c, r, out)
    PROVE  /\ cl'[c] = r /\ \A d \in Clients : d # c => cl'[d] = cl[d]
           /\ UNCHANGED <<sver, sessions, idle, offered, pending>> /\ UNCHANGED <<ver, held>>
           /\ AtServer(c)' \subseteq AtServer(c) \cup ToSet(out)
           /\ \A d \in Clients : d # c => AtServer(d)' \subseteq AtServer(d)
           /\ \A d \in Clients : AtClient(d)' \subseteq AtClient(d)
<1>1. cl' = [cl EXCEPT ![c] = r] /\ cl \in [Clients -> ClientRecord]
    BY DEF Moves, IInv, TypeOK
<1>2. UNCHANGED <<sver, sessions, idle, offered, pending>> /\ UNCHANGED <<ver, held>>
    BY DEF Moves, serverVars
<1>3. ASSUME NEW d \in Clients
      PROVE  /\ AtServer(d)' \subseteq AtServer(d) \cup (IF d = c THEN ToSet(out) ELSE {})
             /\ AtClient(d)' \subseteq AtClient(d)
    BY ClientFlight
<1> QED BY <1>1, <1>2, <1>3

LEMMA ClientPlain ==
    ASSUME IInv, NEW c \in Clients, NEW r, NEW out, Moves(c, r, out), ClientKind(c, r, out)
    PROVE  PlainOK'
<1>1. PlainOK
    BY DEF IInv
<1>2. \A m \in ToSet(out) : m.hello \/ m.body = NoBody
    <2>1. CASE Rests(c, r, out)
        BY <2>1, OneOrTwo DEF Rests, ToSet
    <2>2. CASE Begins(c, r, out)
        BY <2>2 DEF Begins
    <2>3. CASE Answers(c, r, out)
        BY <2>3 DEF Answers
    <2>4. CASE TakesId(c, r, out) \/ Succeeds(c, r, out) \/ Continues(c, r, out)
        BY <2>4 DEF TakesId, Succeeds, Continues, Plain
    <2> QED BY <2>1, <2>2, <2>3, <2>4 DEF ClientKind
<1>3. r.state = "get" => r.msg.body = NoBody
    BY DEF ClientKind, Begins, Rests, TakesId, Answers, Succeeds, Continues
<1>4. /\ cl'[c] = r /\ \A d \in Clients : d # c => cl'[d] = cl[d]
      /\ AtServer(c)' \subseteq AtServer(c) \cup ToSet(out)
      /\ \A d \in Clients : d # c => AtServer(d)' \subseteq AtServer(d)
      /\ \A d \in Clients : AtClient(d)' \subseteq AtClient(d)
    BY ClientMoves
<1>5. ASSUME NEW d \in Clients
      PROVE  /\ \A m \in AtServer(d)' \cup AtClient(d)' : m.hello \/ m.body = NoBody
             /\ cl'[d].state = "get" => cl'[d].msg.body = NoBody
    BY <1>1, <1>2, <1>3, <1>4 DEF PlainOK
<1> QED BY <1>5 DEF PlainOK

LEMMA OthersUndisturbed ==
    ASSUME IInv, NEW c \in Clients, NEW r, NEW out, Moves(c, r, out), NEW d \in Clients, d # c
    PROVE  Undisturbed(d)
<1>1. /\ cl'[d] = cl[d]
      /\ UNCHANGED <<sver, sessions, idle, offered, pending>> /\ UNCHANGED <<ver, held>>
      /\ AtServer(d)' \subseteq AtServer(d) /\ AtClient(d)' \subseteq AtClient(d)
    BY ClientMoves
<1> QED BY <1>1 DEF Undisturbed, SamePending, SameSession

\* The four facts about client c after its step, in terms of r and out.
LEMMA AfterMove ==
    ASSUME IInv, NEW c \in Clients, NEW r, NEW out, Moves(c, r, out),
           ver[c] = 1 \/ r.state = "rest" => r.cNonce = NoNonce,
           r.state = "hash" \/ (r.state = "hello" /\ ver[c] = 2) => r.cNonce # NoNonce,
           r.state \in {"rest", "hello"} => r.sNonce = NoNonce,
           r.key = (IF r.state \in InSession /\ r.cNonce # NoNonce
                    THEN <<r.sNonce, r.cNonce>> ELSE NoKey),
           r.cNonce # NoNonce /\ c \in DOMAIN pending =>
              /\ pending[c].c = r.cNonce =>
                    \A m \in AtServer(c) \cup ToSet(out) :
                       m.body = Hash(pending[c].s) => pending[c].s = r.sNonce
              /\ r.state \in InSession => pending[c].s # r.sNonce,
           r.cNonce # NoNonce =>
              \A i \in DOMAIN sessions :
                 sessions[i].addr = c /\ sessions[i].key[2] = r.cNonce =>
                    /\ sessions[i].key[1] = r.sNonce
                    /\ r.state \in InSession => i = r.id,
           r.cNonce # NoNonce /\ r.state \in {"hello", "hash"} =>
              /\ \A m \in Flight(c) \cup ToSet(out) : m.key[2] # r.cNonce
              /\ \A m \in AtClient(c) : m.body # Hash(r.cNonce)
    PROVE  PhaseOK(c)' /\ PendingAgrees(c)' /\ SessionsAgree(c)' /\ HandshakeOK(c)'
<1>1. /\ cl'[c] = r
      /\ UNCHANGED <<sver, sessions, idle, offered, pending>> /\ UNCHANGED <<ver, held>>
      /\ AtServer(c)' \subseteq AtServer(c) \cup ToSet(out)
      /\ AtClient(c)' \subseteq AtClient(c)
    BY ClientMoves
<1>2. PhaseOK(c)'
    BY <1>1 DEF PhaseOK
<1>3. PendingAgrees(c)'
    BY <1>1 DEF PendingAgrees
<1>4. SessionsAgree(c)'
    BY <1>1 DEF SessionsAgree
<1>5. HandshakeOK(c)'
    BY <1>1 DEF HandshakeOK, Flight
<1> QED BY <1>2, <1>3, <1>4, <1>5

LEMMA RestsKeeps ==
    ASSUME IInv, NEW c \in Clients, NEW r, NEW out, Moves(c, r, out), Rests(c, r, out)
    PROVE  PhaseOK(c)' /\ PendingAgrees(c)' /\ SessionsAgree(c)' /\ HandshakeOK(c)'
<1>1. r.state = "rest" /\ r.cNonce = NoNonce /\ r.sNonce = NoNonce /\ r.key = NoKey
    BY DEF Rests
<1> QED BY <1>1, AfterMove

LEMMA BeginsKeeps ==
    ASSUME IInv, NEW c \in Clients, NEW r, NEW out, Moves(c, r, out), Begins(c, r, out)
    PROVE  PhaseOK(c)' /\ PendingAgrees(c)' /\ SessionsAgree(c)' /\ HandshakeOK(c)'
<1> DEFINE n == FreshNonce
<1>1. /\ n # NoNonce
      /\ \A m \in Flight(c) : m.body # Hash(n) /\ m.key[2] # n
      /\ c \in DOMAIN pending => pending[c].c # n
      /\ \A i \in DOMAIN sessions : sessions[i].key[2] # n
    BY FreshFacts
<1>2. /\ r.state = "hello" /\ r.sNonce = NoNonce /\ r.key = NoKey
      /\ r.cNonce = IF ver[c] = 2 THEN n ELSE NoNonce
      /\ \A m \in ToSet(out) : m.key = NoKey
    BY DEF Begins
<1> HIDE DEF n
<1>3. NoKey[2] = NoNonce /\ r.state \notin InSession
    BY <1>2 DEF NoKey, InSession
<1>4. \A m \in AtClient(c) : m.body # Hash(n)
    BY <1>1 DEF Flight
<1>5. CASE ver[c] = 2
    <2>1. r.cNonce = n
        BY <1>2, <1>5
    <2>2. \A m \in Flight(c) \cup ToSet(out) : m.key[2] # n
        BY <1>1, <1>2, <1>3
    <2>3. /\ ver[c] = 1 \/ r.state = "rest" => r.cNonce = NoNonce
          /\ r.state = "hash" \/ (r.state = "hello" /\ ver[c] = 2) => r.cNonce # NoNonce
        BY <1>1, <1>2, <1>5, <2>1
    <2>4. c \in DOMAIN pending => pending[c].c # r.cNonce
        BY <1>1, <2>1
    <2>5. \A i \in DOMAIN sessions : sessions[i].key[2] # r.cNonce
        BY <1>1, <2>1
    <2>6. /\ \A m \in Flight(c) \cup ToSet(out) : m.key[2] # r.cNonce
          /\ \A m \in AtClient(c) : m.body # Hash(r.cNonce)
        BY <1>4, <2>1, <2>2
    <2> QED BY <1>2, <1>3, <2>3, <2>4, <2>5, <2>6, AfterMove
<1>6. CASE ver[c] # 2
    <2>1. r.cNonce = NoNonce
        BY <1>2, <1>6
    <2> QED BY <1>2, <1>3, <1>6, <2>1, AfterMove
<1> QED BY <1>5, <1>6

LEMMA TakesIdKeeps ==
    ASSUME IInv, NEW c \in Clients, NEW r, NEW out, Moves(c, r, out), TakesId(c, r, out)
    PROVE  PhaseOK(c)' /\ PendingAgrees(c)' /\ SessionsAgree(c)' /\ HandshakeOK(c)'
<1>1. PhaseOK(c)
    BY DEF IInv
<1>2. ver[c] = 1 /\ r.state = "descr" /\ r.cNonce = NoNonce /\ r.key = NoKey
    BY <1>1 DEF TakesId, PhaseOK
<1> QED BY <1>2, AfterMove

\* A session made for client c has a nonce of the server.
LEMMA SessionNonce ==
    ASSUME IInv, NEW i \in DOMAIN sessions, sessions[i].key[2] # NoNonce
    PROVE  sessions[i].key[1] # NoNonce
<1>1. sessions[i].key # NoKey
    BY DEF NoKey
<1> QED BY <1>1 DEF IInv, ServerNonces

LEMMA AnswersKeeps ==
    ASSUME IInv, NEW c \in Clients, NEW r, NEW out, Moves(c, r, out), Answers(c, r, out)
    PROVE  PhaseOK(c)' /\ PendingAgrees(c)' /\ SessionsAgree(c)' /\ HandshakeOK(c)'
<1>1. PhaseOK(c) /\ PendingAgrees(c) /\ SessionsAgree(c) /\ HandshakeOK(c) /\ ServerNonces
    BY DEF IInv
<1>2. /\ cl[c].state = "hello" /\ ver[c] = 2 /\ r.state = "hash"
      /\ r.cNonce = cl[c].cNonce /\ r.key = cl[c].key
      /\ \A m \in ToSet(out) : m.body = Hash(r.sNonce) /\ \E x \in AtClient(c) : m.key = x.key
    BY DEF Answers
<1>3. /\ cl[c].cNonce # NoNonce /\ cl[c].sNonce = NoNonce /\ cl[c].key = NoKey
      /\ r.state \notin InSession
    BY <1>1, <1>2 DEF PhaseOK, InSession
<1>4. ASSUME c \in DOMAIN pending, pending[c].c = r.cNonce, NEW m \in AtServer(c) \cup ToSet(out),
             m.body = Hash(pending[c].s)
      PROVE  pending[c].s = r.sNonce
    <2>1. CASE m \in AtServer(c)
        <3>1. pending[c].s = NoNonce
            BY <1>1, <1>2, <1>3, <1>4, <2>1 DEF PendingAgrees
        <3> QED BY <1>1, <1>4, <3>1 DEF ServerNonces
    <2>2. CASE m \in ToSet(out)
        <3>1. Hash(pending[c].s) = Hash(r.sNonce)
            BY <1>2, <1>4, <2>2
        <3> QED BY <3>1, Bodiless
    <2> QED BY <2>1, <2>2
<1>5. ASSUME NEW i \in DOMAIN sessions, sessions[i].addr = c, sessions[i].key[2] = r.cNonce
      PROVE  FALSE
    <2>1. sessions[i].key[1] # NoNonce
        BY <1>2, <1>3, <1>5, SessionNonce
    <2>2. sessions[i].key[1] = NoNonce
        BY <1>1, <1>2, <1>3, <1>5 DEF SessionsAgree
    <2> QED BY <2>1, <2>2
<1>6. \A m \in Flight(c) \cup ToSet(out) : m.key[2] # r.cNonce
    <2>1. \A m \in AtServer(c) \cup AtClient(c) : m.key[2] # r.cNonce
        BY <1>1, <1>2, <1>3 DEF HandshakeOK
    <2> QED BY <1>2, <2>1 DEF Flight
<1>7. ASSUME NEW m \in AtClient(c), m.body = Hash(r.cNonce) PROVE FALSE
    <2>1. /\ m.id \in DOMAIN sessions /\ sessions[m.id].addr = c
          /\ sessions[m.id].key = <<cl[c].sNonce, cl[c].cNonce>>
        BY <1>1, <1>2, <1>3, <1>7 DEF HandshakeOK
    <2>2. sessions[m.id].key[2] = r.cNonce
        BY <1>2, <2>1
    <2> QED BY <1>5, <2>1, <2>2
<1>8. /\ r.cNonce # NoNonce /\ ver[c] # 1 /\ r.state = "hash" /\ r.key = NoKey
      /\ r.state \notin InSession
    BY <1>2, <1>3
<1>9. c \in DOMAIN pending /\ pending[c].c = r.cNonce =>
         \A m \in AtServer(c) \cup ToSet(out) :
            m.body = Hash(pending[c].s) => pending[c].s = r.sNonce
    BY <1>4
<1> QED BY <1>5, <1>6, <1>7, <1>8, <1>9, AfterMove

LEMMA SucceedsKeeps ==
    ASSUME IInv, NEW c \in Clients, NEW r, NEW out, Moves(c, r, out), Succeeds(c, r, out)
    PROVE  PhaseOK(c)' /\ PendingAgrees(c)' /\ SessionsAgree(c)' /\ HandshakeOK(c)'
<1>1. PhaseOK(c) /\ PendingAgrees(c) /\ SessionsAgree(c) /\ HandshakeOK(c) /\ ServerNonces
    BY DEF IInv
<1>2. /\ cl[c].state = "hash" /\ r.state = "descr"
      /\ r.cNonce = cl[c].cNonce /\ r.sNonce = cl[c].sNonce
      /\ r.key = <<cl[c].sNonce, cl[c].cNonce>>
    BY DEF Succeeds
<1>3. PICK x \in AtClient(c) : x.body = Hash(cl[c].cNonce) /\ r.id = x.id
    BY DEF Succeeds
<1>4. cl[c].cNonce # NoNonce /\ ver[c] # 1 /\ r.state \in InSession
    BY <1>1, <1>2 DEF PhaseOK, InSession
<1>5. /\ r.id \in DOMAIN sessions
      /\ sessions[r.id].key = <<cl[c].sNonce, cl[c].cNonce>>
    BY <1>1, <1>2, <1>3, <1>4 DEF HandshakeOK
<1>6. sessions[r.id].key[1] = r.sNonce /\ sessions[r.id].key[1] # NoNonce
    <2>1. sessions[r.id].key[1] = cl[c].sNonce /\ sessions[r.id].key[2] = cl[c].cNonce
        BY <1>5
    <2> QED BY <1>2, <1>4, <1>5, <2>1, SessionNonce
<1>7. \A m \in ToSet(out) : \A n : m.body # Hash(n)
    BY Bodiless DEF Succeeds, Plain
<1>8. ASSUME c \in DOMAIN pending
      PROVE  /\ pending[c].c = r.cNonce =>
                    \A m \in AtServer(c) \cup ToSet(out) :
                       m.body = Hash(pending[c].s) => pending[c].s = r.sNonce
             /\ pending[c].s # r.sNonce
    <2>1. pending[c].s # sessions[r.id].key[1]
        BY <1>1, <1>5, <1>8 DEF ServerNonces
    <2> QED BY <1>1, <1>2, <1>4, <1>6, <1>7, <1>8, <2>1 DEF PendingAgrees
<1>9. ASSUME NEW i \in DOMAIN sessions, sessions[i].addr = c, sessions[i].key[2] = r.cNonce
      PROVE  sessions[i].key[1] = r.sNonce /\ i = r.id
    <2>1. sessions[i].key[1] = r.sNonce
        BY <1>1, <1>2, <1>4, <1>9 DEF SessionsAgree
    <2> QED BY <1>1, <1>5, <1>6, <2>1 DEF ServerNonces
<1> QED BY <1>2, <1>4, <1>8, <1>9, AfterMove

LEMMA ContinuesKeeps ==
    ASSUME IInv, NEW c \in Clients, NEW r, NEW out, Moves(c, r, out), Continues(c, r, out)
    PROVE  PhaseOK(c)' /\ PendingAgrees(c)' /\ SessionsAgree(c)' /\ HandshakeOK(c)'
<1>1. PhaseOK(c) /\ PendingAgrees(c) /\ SessionsAgree(c)
    BY DEF IInv
<1>2. /\ cl[c].state \in InSession /\ r.state \in InSession
      /\ r.id = cl[c].id /\ r.key = cl[c].key
      /\ r.cNonce = cl[c].cNonce /\ r.sNonce = cl[c].sNonce
    BY DEF Continues
<1>3. \A m \in ToSet(out) : \A n : m.body # Hash(n)
    BY Bodiless DEF Continues, Plain
<1>4. r.state \notin {"rest", "hello", "hash"} /\ cl[c].state # "rest"
    BY <1>2 DEF InSession
<1>5. /\ ver[c] = 1 => r.cNonce = NoNonce
      /\ r.key = IF r.cNonce # NoNonce THEN <<r.sNonce, r.cNonce>> ELSE NoKey
    BY <1>1, <1>2 DEF PhaseOK
<1>6. r.cNonce # NoNonce /\ c \in DOMAIN pending =>
         /\ pending[c].c = r.cNonce =>
               \A m \in AtServer(c) \cup ToSet(out) :
                  m.body = Hash(pending[c].s) => pending[c].s = r.sNonce
         /\ pending[c].s # r.sNonce
    BY <1>1, <1>2, <1>3 DEF PendingAgrees
<1>7. r.cNonce # NoNonce =>
         \A i \in DOMAIN sessions :
            sessions[i].addr = c /\ sessions[i].key[2] = r.cNonce =>
               sessions[i].key[1] = r.sNonce /\ i = r.id
    BY <1>1, <1>2 DEF SessionsAgree
<1> QED BY <1>2, <1>4, <1>5, <1>6, <1>7, AfterMove

LEMMA ClientStepKeeps == ASSUME IInv, NEW c \in Clients, ClientEffect(c) PROVE IInv'
<1>1. PICK r, out : Moves(c, r, out) /\ ClientKind(c, r, out)
    BY DEF ClientEffect, ClientKind
<1>2. TypeOK' /\ IsFiniteSet(held')
    BY <1>1, ClientStepTypes
<1>3. PlainOK'
    BY <1>1, ClientPlain
<1>4. ServerNonces'
    <2>1. UNCHANGED <<sver, sessions, pending>>
        BY <1>1, ClientMoves
    <2> QED BY <2>1, SameTables
<1>5. PhaseOK(c)' /\ PendingAgrees(c)' /\ SessionsAgree(c)' /\ HandshakeOK(c)'
    BY <1>1, BeginsKeeps, RestsKeeps, TakesIdKeeps, AnswersKeeps, SucceedsKeeps, ContinuesKeeps
       DEF ClientKind
<1>6. ASSUME NEW d \in Clients, d # c
      PROVE  PhaseOK(d)' /\ PendingAgrees(d)' /\ SessionsAgree(d)' /\ HandshakeOK(d)'
    BY <1>1, <1>6, OthersUndisturbed, UndisturbedKeeps
<1> QED BY <1>2, <1>3, <1>4, <1>5, <1>6 DEF IInv

-----------------------------------------------------------------------------
(***************************************************************************)
(* Invariance                                                              *)
(***************************************************************************)

LEMMA InitIInv == Init => IInv
<1> SUFFICES ASSUME Init PROVE IInv
    OBVIOUS
<1>1. /\ sver \in Versions /\ ver \in [Clients -> Versions]
      /\ sessions = <<>> /\ idle = {} /\ offered = 0 /\ pending = <<>>
      /\ cl = [c \in Clients |-> Resting]
      /\ toServer = [c \in Clients |-> <<>>] /\ toClient = [c \in Clients |-> <<>>]
      /\ held = {} /\ faults = 0
    BY DEF Init
<1>2. DOMAIN sessions = {} /\ DOMAIN pending = {}
    BY <1>1
<1>3. IsFiniteSet(held)
    BY <1>1, FS_EmptySet
<1>4. TypeOK
    <2>1. cl \in [Clients -> ClientRecord]
        BY <1>1, BasicTypes
    <2>2. <<>> \in Seq(Messages)
        BY EmptySeq
    <2>3. toServer \in [Clients -> Seq(Messages)] /\ toClient \in [Clients -> Seq(Messages)]
        BY <1>1, <2>2
    <2>4. offered \in Ids /\ faults \in 0..MaxFaults
        BY <1>1, SlotIds, MaxFaultsAssumption
    <2> QED BY <1>1, <1>2, <2>1, <2>3, <2>4 DEF TypeOK
<1>5. \A c \in Clients : AtServer(c) = {} /\ AtClient(c) = {}
    BY <1>1, BasicTypes, OneOrTwo DEF AtServer, AtClient, InFlight
<1>6. \A c \in Clients :
         /\ cl[c].state = "rest" /\ cl[c].key = NoKey
         /\ cl[c].cNonce = NoNonce /\ cl[c].sNonce = NoNonce
    BY <1>1 DEF Resting
<1>7. PlainOK
    BY <1>5, <1>6 DEF PlainOK
<1>8. ServerNonces
    BY <1>2 DEF ServerNonces
<1>9. ASSUME NEW c \in Clients
      PROVE  PhaseOK(c) /\ PendingAgrees(c) /\ SessionsAgree(c) /\ HandshakeOK(c)
    BY <1>6 DEF PhaseOK, PendingAgrees, SessionsAgree, HandshakeOK
<1> QED BY <1>3, <1>4, <1>7, <1>8, <1>9 DEF IInv

LEMMA StepIInv == IInv /\ [Next]_vars => IInv'
<1> SUFFICES ASSUME IInv, [Next]_vars PROVE IInv'
    OBVIOUS
<1>1. ASSUME NEW c \in Clients, ClientStep(c) PROVE IInv'
    BY <1>1, ClientStepEffect, ClientStepKeeps
<1>2. ASSUME NEW c \in Clients, ServerStep(c) PROVE IInv'
    BY <1>2, ServerStepEffect, ServerStepKeeps
<1>3. ASSUME NEW c \in Clients, Lose(c) \/ Duplicate(c) \/ DeliverCopy(c) PROVE IInv'
    BY <1>3, NetworkStepKeeps DEF NetworkStep
<1>4. ASSUME NEW i \in Ids, BecomeIdle(i) PROVE IInv'
    BY <1>4, IdleStepKeeps
<1>5. CASE UNCHANGED vars
    BY <1>5, StutterKeeps
<1> QED BY <1>1, <1>2, <1>3, <1>4, <1>5 DEF Next

\* The inductive invariant holds at every moment.
THEOREM Invariance == Spec => []IInv
BY InitIInv, StepIInv, PTL DEF Spec

\* Every variable keeps its type: the slots in use are within the table, the
\* retry counters within CLIENT_CHUNK_RETRIES + 1, and every datagram under way
\* is one the program can make.
THEOREM TypeCorrect == Spec => []TypeOK
<1>1. IInv => TypeOK
    BY DEF IInv
<1> QED BY <1>1, Invariance, PTL

\* However often the datagrams of a handshake are delivered, and whatever the
\* other clients do, Server::handshakeHandlerV2 makes one session of it.
THEOREM OneSession == Spec => []OneSessionPerHandshake
<1>1. IInv => OneSessionPerHandshake
    <2> SUFFICES ASSUME IInv, NEW i \in DOMAIN sessions, NEW j \in DOMAIN sessions,
                        sessions[i].key # NoKey, sessions[i].key = sessions[j].key
                 PROVE  i = j
        BY DEF OneSessionPerHandshake
    <2> QED BY DEF IInv, ServerNonces
<1> QED BY <1>1, Invariance, PTL

\* A client of V2 in a session has the key of every session the server made
\* from its nonce, and knows its slot.
THEOREM KeysAgree == Spec => []KeyAgreement
<1>1. IInv => KeyAgreement
    <2> SUFFICES ASSUME IInv, NEW c \in Clients, NEW i \in DOMAIN sessions,
                        cl[c].state \in InSession, cl[c].key # NoKey,
                        sessions[i].addr = c, sessions[i].key[2] = cl[c].cNonce
                 PROVE  sessions[i].key = cl[c].key /\ cl[c].id = i
        BY DEF KeyAgreement
    <2>1. PhaseOK(c) /\ SessionsAgree(c)
        BY DEF IInv
    <2>2. cl[c].cNonce # NoNonce /\ cl[c].key = <<cl[c].sNonce, cl[c].cNonce>>
        BY <2>1 DEF PhaseOK
    <2>3. sessions[i].key[1] = cl[c].sNonce /\ cl[c].id = i
        BY <2>1, <2>2 DEF SessionsAgree
    <2>4. sessions[i].key \in Nat \X Nat
        BY DEF IInv, TypeOK, Keys
    <2> QED BY <2>2, <2>3, <2>4
<1> QED BY <1>1, Invariance, PTL

\* The steps that end a session of V2 that is not idle.
LEMMA ServerStepKept ==
    ASSUME IInv, NEW c \in Clients, ServerEffect(c), sver = 2, NEW i \in DOMAIN sessions \ idle
    PROVE  Kept(i)
<1>1. PICK out : Serves(c, out) /\ (Quiet(c, out) \/ Greets(c, out) \/ Opens(c, out))
    BY DEF ServerEffect
<1>2. SameSession(i) => Kept(i)
    BY DEF SameSession, Kept
<1>3. CASE Quiet(c, out)
    <2>1. SameSession(i) \/ (Quits(c, i) /\ i \notin DOMAIN sessions')
        BY <1>3 DEF Quiet
    <2>2. toServer[c] # <<>>
        BY <1>1 DEF Serves, Exchange
    <2>3. Quits(c, i) /\ i \notin DOMAIN sessions' => Kept(i)
        BY <2>2 DEF Quits, Kept
    <2> QED BY <1>2, <2>1, <2>3
<1>4. CASE Greets(c, out) \/ Opens(c, out)
    BY <1>2, <1>4 DEF Greets, Opens, OnlyReaps
<1> QED BY <1>1, <1>3, <1>4

LEMMA StepKept == IInv /\ [Next]_vars => [sver = 2 => \A i \in DOMAIN sessions \ idle : Kept(i)]_vars
<1> SUFFICES ASSUME IInv, Next, sver = 2, NEW i \in DOMAIN sessions \ idle PROVE Kept(i)
    OBVIOUS
<1>1. sessions' = sessions => Kept(i)
    BY DEF Kept
<1>2. ASSUME NEW c \in Clients, ClientStep(c) PROVE Kept(i)
    <2>1. ClientEffect(c)
        BY <1>2, ClientStepEffect
    <2>2. sessions' = sessions
        BY <2>1 DEF ClientEffect, Moves, serverVars
    <2> QED BY <1>1, <2>2
<1>3. ASSUME NEW c \in Clients, ServerStep(c) PROVE Kept(i)
    BY <1>3, ServerStepEffect, ServerStepKept
<1>4. ASSUME NEW c \in Clients, Lose(c) \/ Duplicate(c) \/ DeliverCopy(c) PROVE Kept(i)
    BY <1>1, <1>4 DEF Lose, Duplicate, DeliverCopy, serverVars
<1>5. ASSUME NEW j \in Ids, BecomeIdle(j) PROVE Kept(i)
    BY <1>1, <1>5 DEF BecomeIdle
<1> QED BY <1>2, <1>3, <1>4, <1>5 DEF Next

\* A session of V2 with recent traffic ends only with a QUIT of its own client:
\* no other handshake takes its slot.
THEOREM SlotKept == Spec => SlotKeptV2
BY Invariance, StepKept, PTL DEF Spec, SlotKeptV2

EstablishedStep(c) ==
    cl[c].state = "hash" /\ cl'[c].state = "descr" =>
       /\ cl'[c].id \in DOMAIN sessions'
       /\ sessions'[cl'[c].id].addr = c
       /\ sessions'[cl'[c].id].key = cl'[c].key

LEMMA ClientStepEstablished ==
    ASSUME IInv, NEW c \in Clients, ClientEffect(c), cl[c].state = "hash", cl'[c].state = "descr"
    PROVE  EstablishedStep(c)
<1>1. PICK r, out : Moves(c, r, out) /\ ClientKind(c, r, out)
    BY DEF ClientEffect, ClientKind
<1>2. cl'[c] = r /\ sessions' = sessions
    BY <1>1, ClientMoves
<1>3. Succeeds(c, r, out)
    BY <1>1, <1>2 DEF ClientKind, Begins, Rests, TakesId, Answers, Continues, InSession
<1>4. PICK x \in AtClient(c) : x.body = Hash(cl[c].cNonce) /\ r.id = x.id
    BY <1>3 DEF Succeeds
<1>5. r.key = <<cl[c].sNonce, cl[c].cNonce>>
    BY <1>3 DEF Succeeds
<1>6. cl[c].cNonce # NoNonce /\ HandshakeOK(c)
    BY DEF IInv, PhaseOK
<1>7. /\ x.id \in DOMAIN sessions /\ sessions[x.id].addr = c
      /\ sessions[x.id].key = <<cl[c].sNonce, cl[c].cNonce>>
    BY <1>4, <1>6 DEF HandshakeOK
<1> QED BY <1>2, <1>4, <1>5, <1>7 DEF EstablishedStep

LEMMA StepEstablished == IInv /\ [Next]_vars => [\A c \in Clients : EstablishedStep(c)]_vars
<1> SUFFICES ASSUME IInv, Next, NEW c \in Clients, cl[c].state = "hash", cl'[c].state = "descr"
             PROVE  EstablishedStep(c)
    BY DEF EstablishedStep
<1>1. cl'[c] # cl[c]
    OBVIOUS
<1>2. ASSUME NEW d \in Clients, ClientStep(d) PROVE EstablishedStep(c)
    <2>1. ClientEffect(d)
        BY <1>2, ClientStepEffect
    <2>2. d = c
        BY <1>1, <2>1, ClientMoves DEF ClientEffect
    <2> QED BY <2>1, <2>2, ClientStepEstablished
<1>3. ASSUME NEW d \in Clients, ServerStep(d) PROVE FALSE
    <2>1. ServerEffect(d)
        BY <1>3, ServerStepEffect
    <2> QED BY <1>1, <2>1 DEF ServerEffect, Serves
<1>4. ASSUME NEW d \in Clients, Lose(d) \/ Duplicate(d) \/ DeliverCopy(d) PROVE FALSE
    BY <1>1, <1>4 DEF Lose, Duplicate, DeliverCopy
<1>5. ASSUME NEW i \in Ids, BecomeIdle(i) PROVE FALSE
    BY <1>1, <1>5 DEF BecomeIdle
<1> QED BY <1>2, <1>3, <1>4, <1>5 DEF Next

\* When Client::handshakeHandlerV2 succeeds, the session it returns the id of
\* is there, is its own, and has its key.
THEOREM Established == Spec => EstablishedHasSession
<1>1. IInv /\ [Next]_vars =>
         [\A c \in Clients :
             cl[c].state = "hash" /\ cl'[c].state = "descr" =>
                /\ cl'[c].id \in DOMAIN sessions'
                /\ sessions'[cl'[c].id].addr = c
                /\ sessions'[cl'[c].id].key = cl'[c].key]_vars
    BY StepEstablished DEF EstablishedStep
<1> QED BY <1>1, Invariance, PTL DEF Spec, EstablishedHasSession

=============================================================================
