------------------------------- MODULE Messages -------------------------------
(***************************************************************************)
(* Messages between two processes: the header as bytes (Message.cc), the   *)
(* memory of the payload, and what Transceiver adds: the MAC and the check *)
(* of source and MAC.                                                      *)
(*                                                                         *)
(* The program keeps Message objects and uses them again and again: "out"  *)
(* is one that is filled in and sent, "in" one that datagrams are received *)
(* into.  Both ends run this code, so a datagram sent from "out" is        *)
(* received by "in".  Every datagram is one that sendMsg can have sent.    *)
(***************************************************************************)
EXTENDS Integers, Sequences

CONSTANTS
    Addresses,      \* where datagrams may come from
    Peer,           \* the address a Transceiver talks to
    Keys,           \* session keys, this session's and others
    Key,            \* this session's key
    Version,        \* protocol version of the Transceiver
    Settings,       \* values that the setters give a header (see Header)
    Payloads,       \* payloads, as sequences of bytes; all fit into the buffers
    MaxBlocks       \* bound on the blocks of memory allocated

ASSUME AddressesAssumption ==
    Peer \in Addresses /\ \A a \in Addresses : a = [ip |-> a.ip, port |-> a.port]
ASSUME KeysAssumption == Key \in Keys /\ "none" \notin Keys
ASSUME VersionAssumption == Version \in {1, 2}
ASSUME MaxBlocksAssumption == MaxBlocks \in Nat

Byte == 0..255
\* A MAC is named by what it is computed from; NoMac is 32 zero bytes, or none.
Macs  == [key : Keys \cup {"none"}, bytes : Seq(Byte)]
NoMac == [key |-> "none", bytes |-> <<>>]

Null   == 0
Blocks == 1..MaxBlocks

\* The header's attributes; Fits gives the width of the longer ones.
Header ==
    [version : 0..7, type : Byte, clientID : Byte, checksum : Byte, window : Nat,
     seqnum : Nat, chunk : Nat, hello : BOOLEAN, quit : BOOLEAN, first : BOOLEAN, last : BOOLEAN]

MaxPayload == 1500 - 16 - 32

Fits(h) ==
    /\ h \in Header
    /\ h.window \div 256 <= 255 /\ h.seqnum \div 16777216 <= 255 /\ h.chunk \div 16777216 <= 255

ASSUME SettingsAssumption == \A h \in Settings : Fits(h)
ASSUME PayloadsAssumption == \A p \in Payloads : p \in Seq(Byte) /\ Len(p) <= MaxPayload

VARIABLES
    heap,     \* contents of the allocated blocks
    out, in,  \* Message objects: header, block and length of the payload
    wire,     \* the datagram sent last, if any; "msg" is history: what "out" was
    result    \* what recv said of it: "valid", "invalid", or "none" yet

vars == <<heap, out, in, wire, result>>

Blank == [version |-> 0, type |-> 0, clientID |-> 0, checksum |-> 0, window |-> 0, seqnum |-> 0,
          chunk |-> 0, hello |-> FALSE, quit |-> FALSE, first |-> FALSE, last |-> FALSE]

NewMessage == [head |-> Blank, payload |-> Null, len |-> 0, mac |-> NoMac]

Message == [head : Header, payload : Blocks \cup {Null}, len : 0..MaxPayload, mac : Macs]

Content(m) == IF m.len > 0 THEN heap[m.payload] ELSE <<>>

TypeOK ==
    /\ DOMAIN heap \subseteq Blocks /\ heap \in [DOMAIN heap -> Seq(Byte)]
    /\ out \in Message /\ in \in Message /\ Fits(out.head) /\ Fits(in.head)
    /\ \A d \in wire : d.src \in Addresses /\ d.bytes \in Seq(Byte) /\ d.mac \in Macs
    /\ result \in {"none", "valid", "invalid"}

Init ==
    /\ heap = <<>> /\ out = NewMessage /\ in = NewMessage
    /\ wire = {} /\ result = "none"

-----------------------------------------------------------------------------
(* Bytes *)

Bit(b, value) == IF b THEN value ELSE 0

\* Mutant: the bytes above are not masked.
ByteOfUnmasked(n, weight) == n \div weight

\* The byte of n with the given weight, a power of 256.
ByteOf(n, weight) == (n \div weight) % 256

Flags(h) == Bit(h.hello, 1) + Bit(h.quit, 2) + Bit(h.first, 4) + Bit(h.last, 8)

\* Mutant: the version is shifted by one bit less.
HeaderBytesNarrow(h, len) ==
    <<(h.version % 8) * 16 + Flags(h), h.type, h.clientID, h.checksum,
      ByteOf(len, 256), ByteOf(len, 1), ByteOf(h.window, 256), ByteOf(h.window, 1),
      ByteOf(h.seqnum, 16777216), ByteOf(h.seqnum, 65536), ByteOf(h.seqnum, 256), ByteOf(h.seqnum, 1),
      ByteOf(h.chunk, 16777216), ByteOf(h.chunk, 65536), ByteOf(h.chunk, 256), ByteOf(h.chunk, 1)>>

\* parseToBytes: the header.
HeaderBytes(h, len) ==
    <<(h.version % 8) * 32 + Flags(h), h.type, h.clientID, h.checksum,
      ByteOf(len, 256), ByteOf(len, 1), ByteOf(h.window, 256), ByteOf(h.window, 1),
      ByteOf(h.seqnum, 16777216), ByteOf(h.seqnum, 65536), ByteOf(h.seqnum, 256), ByteOf(h.seqnum, 1),
      ByteOf(h.chunk, 16777216), ByteOf(h.chunk, 65536), ByteOf(h.chunk, 256), ByteOf(h.chunk, 1)>>

HeaderSize == 16

\* parseToBytes, without the MAC that it puts at the end.
ToBytes(m) == HeaderBytes(m.head, m.len) \o Content(m)

IsSet(byte, value) == (byte \div value) % 2 = 1

Number2(b, i) == b[i] * 256 + b[i + 1]
Number4(b, i) == Number2(b, i) * 65536 + Number2(b, i + 2)

\* parseFromBytes: the length in bytes 5 and 6 is read, and not used.
ParseHeader(b) ==
    [version |-> b[1] \div 32, type |-> b[2], clientID |-> b[3], checksum |-> b[4],
     window |-> Number2(b, 7), seqnum |-> Number4(b, 9), chunk |-> Number4(b, 13),
     hello |-> IsSet(b[1], 1), quit |-> IsSet(b[1], 2),
     first |-> IsSet(b[1], 4), last |-> IsSet(b[1], 8)]

ParsePayload(b) == SubSeq(b, HeaderSize + 1, Len(b))

-----------------------------------------------------------------------------
(* Memory *)

\* clearPayload: a payload of length 0 is not freed, and the pointer stays.
HasPayload(m) == m.len > 0 /\ m.payload # Null
ClearedHeap(m) == IF HasPayload(m) THEN [b \in DOMAIN heap \ {m.payload} |-> heap[b]] ELSE heap
Cleared(m) == IF HasPayload(m) THEN [m EXCEPT !.payload = Null, !.len = 0] ELSE m

FirstFree(h) == {b \in Blocks \ DOMAIN h : \A c \in Blocks \ DOMAIN h : b <= c}

\* The block for a payload, if one is needed, and the heap with contents p in it.
BlockFor(needed, h) == IF needed THEN FirstFree(h) ELSE {Null}
Allocated(h, b, p) ==
    IF b = Null THEN h ELSE [c \in DOMAIN h \cup {b} |-> IF c = b THEN p ELSE h[c]]

-----------------------------------------------------------------------------
(* The message that is sent *)

\* initHeader and the setters: payload and MAC stay.
InitHeader(h) ==
    /\ out' = [out EXCEPT !.head = h]
    /\ UNCHANGED <<heap, in, wire, result>>

\* init and the setters: payload and MAC are cleared.
InitMessage(h) ==
    /\ out' = [Cleared(out) EXCEPT !.head = h, !.mac = NoMac]
    /\ heap' = ClearedHeap(out)
    /\ UNCHANGED <<in, wire, result>>

\* Mutant: the old payload is not freed.
SetPayloadOnly(p) ==
    \E b \in BlockFor(p # <<>>, heap) :
       /\ heap' = Allocated(heap, b, p)
       /\ out' = [out EXCEPT !.payload = b, !.len = Len(p)]
       /\ UNCHANGED <<in, wire, result>>

\* setPayload; without a payload this is clearPayload.
SetPayload(p) ==
    \E b \in BlockFor(p # <<>>, ClearedHeap(out)) :
       /\ heap' = Allocated(ClearedHeap(out), b, p)
       /\ out' = IF b = Null THEN Cleared(out)
                 ELSE [out EXCEPT !.payload = b, !.len = Len(p)]
       /\ UNCHANGED <<in, wire, result>>

\* Mutant: the copy shares the payload.
ReplyShared(h) ==
    /\ out' = [in EXCEPT !.head.type = h.type]
    /\ heap' = ClearedHeap(out)
    /\ UNCHANGED <<in, wire, result>>

\* A reply is a copy of the message received, without payload and MAC.  The
\* object that "out" was before goes out of scope.
Reply(h) ==
    /\ out' = [NewMessage EXCEPT !.head = [in.head EXCEPT !.type = h.type]]
    /\ heap' = ClearedHeap(out)
    /\ UNCHANGED <<in, wire, result>>

\* send: a Transceiver of version 2 signs all but the HELLO messages; these are
\* sent with the MAC they have.  A message of version 1 is sent without one.
Send(src, key) ==
    LET mac == IF Version = 2 /\ ~out.head.hello THEN [key |-> key, bytes |-> ToBytes(out)]
               ELSE out.mac
    IN  /\ out' = [out EXCEPT !.mac = mac]
        /\ wire' = {[src |-> src, bytes |-> ToBytes(out),
                     mac |-> IF out.head.version = 2 THEN mac ELSE NoMac,
                     msg |-> [head |-> out.head, payload |-> Content(out)]]}
        /\ result' = "none"
        /\ UNCHANGED <<heap, in>>

-----------------------------------------------------------------------------
(* The message that is received *)

\* Mutant: the port is not compared.
CmpAddrOnly(a, b) == a.ip = b.ip

\* cmpAddr, for IPv4 addresses.
CmpAddr(a, b) == a.ip = b.ip /\ a.port = b.port

\* recv: what was in the message before is gone, whether recv succeeds or not.
\* Version 2 allocates memory for an empty payload, too.  The MAC is checked
\* against the bytes that the parsed message is turned into again.
Receive ==
    \E d \in wire :
       LET h == ParseHeader(d.bytes)
           p == ParsePayload(d.bytes)
           again == HeaderBytes(h, Len(p)) \o p
       IN  /\ result = "none"
           /\ \E b \in BlockFor(h.version = 2 \/ p # <<>>, ClearedHeap(in)) :
                 /\ heap' = Allocated(ClearedHeap(in), b, p)
                 /\ in' = [head |-> h, payload |-> b, len |-> Len(p), mac |-> d.mac]
           /\ result' = IF /\ CmpAddr(d.src, Peer)
                           /\ Version = 2 /\ ~h.hello => d.mac = [key |-> Key, bytes |-> again]
                        THEN "valid" ELSE "invalid"
           /\ UNCHANGED <<out, wire>>

-----------------------------------------------------------------------------
Next ==
    \/ \E h \in Settings : InitHeader(h) \/ InitMessage(h) \/ Reply(h)
    \/ \E p \in Payloads : SetPayload(p)
    \/ \E src \in Addresses, key \in Keys : Send(src, key)
    \/ Receive

Spec == Init /\ [][Next]_vars

-----------------------------------------------------------------------------
(* Properties *)

\* A message with a payload owns an allocated block of that length, which no
\* other message has.
PayloadsOwned ==
    /\ \A m \in {out, in} : m.len > 0 => m.payload \in DOMAIN heap /\ Len(heap[m.payload]) = m.len
    /\ HasPayload(out) /\ HasPayload(in) => out.payload # in.payload

\* "Existing payload is freed" (Message.hh 139) but for empty ones: every block
\* that has contents is the payload of a message.
ContentsFreed ==
    \A b \in DOMAIN heap : heap[b] # <<>> => \E m \in {out, in} : m.len > 0 /\ m.payload = b

\* The message received is the one that was sent, field by field.
Delivered ==
    \A d \in wire : result # "none" => in.head = d.msg.head /\ Content(in) = d.msg.payload

\* recv accepts what the peer sent in this session, and in version 2 nothing
\* else but HELLO messages.
Authentic ==
    \A d \in wire : result # "none" =>
       (result = "valid" <=>
          /\ d.src = Peer
          /\ Version = 2 /\ ~d.msg.head.hello => d.msg.head.version = 2 /\ d.mac.key = Key)

=============================================================================
