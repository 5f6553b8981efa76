---------------------------- MODULE MessagesProofs ----------------------------
(***************************************************************************)
(* What is so of messages for all headers and payloads, keys and sources,  *)
(* and any amount of memory, in whatever order the two Message objects are *)
(* filled in, sent and received.  The invariant relates the heap to the    *)
(* two objects (MemoryInv) and the datagram to what it was made from       *)
(* (WireInv); that it is parsed as that is lemma RoundTrip.                *)
(***************************************************************************)
EXTENDS Messages, SequenceTheorems, TLAPS

\* m is a Message object.
Object(m) == m = [head |-> m.head, payload |-> m.payload, len |-> m.len, mac |-> m.mac]

\* Message m owns the block of heap h that it points to, if any, and knows its
\* length; an empty payload may have a block, too.
Owns(m, h) ==
    /\ Object(m) /\ m.len \in Nat /\ m.len <= MaxPayload /\ m.mac \in Macs
    /\ m.payload # Null => m.payload \in DOMAIN h /\ Len(h[m.payload]) = m.len
    /\ m.payload = Null => m.len = 0

Distinct(m, n) == m.payload # Null => m.payload # n.payload

\* A block of heap h with contents is the payload of one of the two messages.
NothingLost(m, n, h) ==
    \A b \in DOMAIN h : h[b] # <<>> => b \in {m.payload, n.payload}

Heap(h) ==
    /\ DOMAIN h \subseteq Blocks
    /\ h = [b \in DOMAIN h |-> h[b]] /\ \A b \in DOMAIN h : h[b] \in Seq(Byte)

MemoryInv ==
    /\ Heap(heap)
    /\ Owns(out, heap) /\ Owns(in, heap)
    /\ Distinct(out, in) /\ NothingLost(out, in, heap)

\* The datagram is that of the message it was made from, and signed if need be.
FormedAs(d) ==
    /\ d.src \in Addresses /\ d.mac \in Macs
    /\ Fits(d.msg.head)
    /\ d.msg.payload \in Seq(Byte) /\ Len(d.msg.payload) <= MaxPayload
    /\ d.bytes = HeaderBytes(d.msg.head, Len(d.msg.payload)) \o d.msg.payload
    /\ Version = 2 /\ ~d.msg.head.hello =>
          IF d.msg.head.version = 2 THEN d.mac = [key |-> d.mac.key, bytes |-> d.bytes]
          ELSE d.mac = NoMac

WireInv == /\ \A d \in wire : FormedAs(d)
           /\ \A d, e \in wire : d = e

Inv ==
    /\ MemoryInv /\ WireInv
    /\ Fits(out.head) /\ Fits(in.head) /\ result \in {"none", "valid", "invalid"}
    /\ Delivered /\ Authentic

-----------------------------------------------------------------------------
(* Freeing and allocating *)

LEMMA NullNoBlock == Null \notin Blocks
BY DEF Null, Blocks

LEMMA Limits == MaxPayload \in Nat /\ NoMac \in Macs
<1>1. <<>> \in Seq(Byte)
    BY EmptySeq
<1> QED
    BY <1>1 DEF MaxPayload, NoMac, Macs

\* What is left of the heap when message m has given up its payload: that of the
\* other message n, and nothing else with contents.
LEMMA ClearFrees ==
    ASSUME NEW m, NEW n, Owns(m, heap), Owns(n, heap), Distinct(m, n),
           NothingLost(m, n, heap), Heap(heap)
    PROVE  /\ Heap(ClearedHeap(m))
           /\ Owns(n, ClearedHeap(m))
           /\ NothingLost(n, n, ClearedHeap(m))
           /\ n.len > 0 => ClearedHeap(m)[n.payload] = heap[n.payload]
           /\ Owns(Cleared(m), ClearedHeap(m))
           /\ Distinct(Cleared(m), n)
<1>1. CASE HasPayload(m)
    <2>1. ClearedHeap(m) = [b \in DOMAIN heap \ {m.payload} |-> heap[b]]
        BY <1>1 DEF ClearedHeap
    <2>2. Cleared(m) = [m EXCEPT !.payload = Null, !.len = 0]
        BY <1>1 DEF Cleared
    <2>3. Owns(Cleared(m), ClearedHeap(m)) /\ Distinct(Cleared(m), n)
        <3>1. Object(m)
            BY DEF Owns
        <3>2. /\ Cleared(m).payload = Null /\ Cleared(m).len = 0 /\ Object(Cleared(m))
              /\ Cleared(m).mac = m.mac
            BY <2>2, <3>1 DEF Object
        <3> QED
            BY <3>2, Limits DEF Owns, Distinct
    <2>4. n.payload # Null => n.payload \in DOMAIN ClearedHeap(m)
                                 /\ ClearedHeap(m)[n.payload] = heap[n.payload]
        BY <1>1, <2>1 DEF HasPayload, Owns, Distinct
    <2>5. NothingLost(n, n, ClearedHeap(m))
        BY <2>1 DEF NothingLost
    <2> QED
        BY <2>1, <2>3, <2>4, <2>5 DEF Owns, Heap
<1>2. CASE ~HasPayload(m)
    <2>1. ClearedHeap(m) = heap /\ Cleared(m) = m
        BY <1>2 DEF ClearedHeap, Cleared
    <2>2. m.len = 0
        BY <1>2 DEF HasPayload, Owns
    <2>3. m.payload \in DOMAIN heap => heap[m.payload] = <<>>
        <3>1. m.payload # Null => Len(heap[m.payload]) = 0
            BY <2>2 DEF Owns
        <3> QED
            BY <3>1, NullNoBlock, EmptySeq DEF Heap
    <2> QED
        BY <2>1, <2>3 DEF NothingLost, Heap
<1> QED
    BY <1>1, <1>2

\* Heap h is turned into g, and messages m and n are all there is; n is as before,
\* and the payload of m is p.
Taken(h, g, m, n, p) ==
    /\ Heap(g) /\ Owns(m, g) /\ Owns(n, g) /\ Distinct(m, n) /\ NothingLost(m, n, g)
    /\ m.len > 0 => g[m.payload] = p
    /\ n.len > 0 => g[n.payload] = h[n.payload]

\* Message m takes a block for payload p, if it needs one, beside message n.
LEMMA AllocateKeeps ==
    ASSUME NEW h, NEW m, NEW n, NEW p \in Seq(Byte), NEW b, NEW g,
           Heap(h), Owns(n, h), NothingLost(n, n, h),
           b \in FirstFree(h) \/ (b = Null /\ p = <<>>), g = Allocated(h, b, p),
           Object(m), m.payload = b, m.len = Len(p), Len(p) <= MaxPayload, m.mac \in Macs
    PROVE  Taken(h, g, m, n, p)
<1>1. Len(p) \in Nat
    BY LenProperties
<1>2. CASE b \in FirstFree(h)
    <2>1. b \in Blocks \ DOMAIN h /\ b # Null
        BY <1>2, NullNoBlock DEF FirstFree
    <2>2. g = [c \in DOMAIN h \cup {b} |-> IF c = b THEN p ELSE h[c]]
        BY <2>1 DEF Allocated
    <2> QED
        BY <1>1, <2>1, <2>2 DEF Taken, Heap, Owns, Distinct, NothingLost
<1>3. CASE b = Null /\ p = <<>>
    <2>1. Len(p) = 0 /\ g = h
        BY <1>3, EmptySeq DEF Allocated
    <2> QED
        BY <1>3, <2>1 DEF Taken, Owns, Distinct, NothingLost
<1> QED
    BY <1>2, <1>3

-----------------------------------------------------------------------------
(* Bytes *)

LEMMA BitValue ==
    ASSUME NEW b \in BOOLEAN, NEW v \in Nat \ {0}
    PROVE  Bit(b, v) \in {0, v} /\ (b <=> Bit(b, v) = v)
BY DEF Bit

LEMMA FlagByte ==
    ASSUME NEW h \in Header, NEW b, b = (h.version % 8) * 32 + Flags(h)
    PROVE  /\ b \in Byte /\ b \div 32 = h.version
           /\ IsSet(b, 1) <=> h.hello
           /\ IsSet(b, 2) <=> h.quit
           /\ IsSet(b, 4) <=> h.first
           /\ IsSet(b, 8) <=> h.last
<1>0. /\ h.hello \in BOOLEAN /\ h.quit \in BOOLEAN /\ h.first \in BOOLEAN /\ h.last \in BOOLEAN
      /\ h.version \in 0..7
    BY DEF Header
<1>1. PICK f \in {0, 1} : f = Bit(h.hello, 1) /\ (h.hello <=> f = 1)
    BY <1>0, BitValue
<1>2. PICK q \in {0, 2} : q = Bit(h.quit, 2) /\ (h.quit <=> q = 2)
    BY <1>0, BitValue
<1>3. PICK s \in {0, 4} : s = Bit(h.first, 4) /\ (h.first <=> s = 4)
    BY <1>0, BitValue
<1>4. PICK e \in {0, 8} : e = Bit(h.last, 8) /\ (h.last <=> e = 8)
    BY <1>0, BitValue
<1>5. b = (h.version % 8) * 32 + (f + q + s + e)
    BY <1>1, <1>2, <1>3, <1>4 DEF Flags
<1>6. PICK v \in 0..7 : v = h.version
    BY <1>0
<1>7. b = (v % 8) * 32 + (f + q + s + e)
    BY <1>5, <1>6
<1>8. b \in Byte /\ b \div 32 = v
    BY <1>7 DEF Byte
<1>9. (b \div 1) % 2 = 1 <=> f = 1
    BY <1>7
<1>10. (b \div 2) % 2 = 1 <=> q = 2
    BY <1>7
<1>11. (b \div 4) % 2 = 1 <=> s = 4
    BY <1>7
<1>12. (b \div 8) % 2 = 1 <=> e = 8
    BY <1>7
<1> QED
    BY <1>1, <1>2, <1>3, <1>4, <1>6, <1>8, <1>9, <1>10, <1>11, <1>12 DEF IsSet

LEMMA Division ==
    ASSUME NEW n \in Nat, NEW w \in {1, 256, 65536, 16777216},
           NEW q \in Int, NEW r \in Int, q = n \div w, r = n % w
    PROVE  n = q * w + r /\ r \in Nat /\ r < w /\ q \in Nat
OBVIOUS

LEMMA ByteOfByte ==
    ASSUME NEW n \in Nat, NEW w \in {1, 256, 65536, 16777216}
    PROVE  ByteOf(n, w) \in Byte
<1>1. n \div w \in Nat
    OBVIOUS
<1> QED
    BY <1>1 DEF ByteOf, Byte

LEMMA TwoBytes ==
    ASSUME NEW n \in Nat, n \div 256 <= 255
    PROVE  ByteOf(n, 256) * 256 + ByteOf(n, 1) = n
<1>1. PICK q \in Int, r \in Int : q = n \div 256 /\ r = n % 256
    OBVIOUS
<1>2. n = q * 256 + r /\ r \in Nat /\ r < 256 /\ q \in Nat
    BY <1>1, Division
<1>3. q <= 255 /\ q % 256 = q
    BY <1>1, <1>2
<1>4. ByteOf(n, 256) = q
    BY <1>1, <1>3 DEF ByteOf
<1>5. ByteOf(n, 1) = r
    BY <1>1 DEF ByteOf
<1> QED
    BY <1>2, <1>4, <1>5

LEMMA FourBytes ==
    ASSUME NEW n \in Nat, n \div 16777216 <= 255
    PROVE  (ByteOf(n, 16777216) * 256 + ByteOf(n, 65536)) * 65536
              + (ByteOf(n, 256) * 256 + ByteOf(n, 1)) = n
<1>1. PICK a \in Int, ra \in Int : a = n \div 16777216 /\ ra = n % 16777216
    OBVIOUS
<1>2. PICK b \in Int, rb \in Int : b = n \div 65536 /\ rb = n % 65536
    OBVIOUS
<1>3. PICK c \in Int, rc \in Int : c = n \div 256 /\ rc = n % 256
    OBVIOUS
<1>4. /\ n = a * 16777216 + ra /\ ra \in Nat /\ ra < 16777216 /\ a \in Nat /\ a <= 255
      /\ n = b * 65536 + rb /\ rb \in Nat /\ rb < 65536 /\ b \in Nat
      /\ n = c * 256 + rc /\ rc \in Nat /\ rc < 256 /\ c \in Nat
    <2>1. a <= 255
        BY <1>1
    <2>2. n = a * 16777216 + ra /\ ra \in Nat /\ ra < 16777216 /\ a \in Nat
        BY <1>1, Division
    <2>3. n = b * 65536 + rb /\ rb \in Nat /\ rb < 65536 /\ b \in Nat
        BY <1>2, Division
    <2>4. n = c * 256 + rc /\ rc \in Nat /\ rc < 256 /\ c \in Nat
        BY <1>3, Division
    <2> QED
        BY <2>1, <2>2, <2>3, <2>4
<1>5. PICK x \in Int, y \in Int : x = b \div 256 /\ y = b % 256
    BY <1>4
<1>6. b = x * 256 + y /\ y \in Nat /\ y < 256
    BY <1>4, <1>5, Division
<1>7. PICK u \in Int, v \in Int : u = c \div 256 /\ v = c % 256
    BY <1>4
<1>8. c = u * 256 + v /\ v \in Nat /\ v < 256
    BY <1>4, <1>7, Division
<1>9. x = a /\ u = b
    BY <1>4, <1>6, <1>8
<1>10. n = (a * 256 + y) * 65536 + (v * 256 + rc)
    BY <1>4, <1>6, <1>8, <1>9
<1>11. ByteOf(n, 16777216) = a
    BY <1>1, <1>4 DEF ByteOf
<1>12. ByteOf(n, 65536) = y
    BY <1>2, <1>5 DEF ByteOf
<1>13. ByteOf(n, 256) = v
    BY <1>3, <1>7 DEF ByteOf
<1>14. ByteOf(n, 1) = rc
    BY <1>3 DEF ByteOf
<1> QED
    BY <1>10, <1>11, <1>12, <1>13, <1>14

\* Datagram t is made up of the bytes q of a header and the payload c.
Consists(t, q, c) ==
    /\ \A i \in 1..16 : t[i] = q[i]
    /\ SubSeq(t, 17, Len(t)) = c /\ t \in Seq(Byte)

\* What follows the 16 bytes of a header is found behind them.
LEMMA Behind ==
    ASSUME NEW q \in Seq(Byte), Len(q) = 16, NEW c \in Seq(Byte), NEW t, t = q \o c
    PROVE  Consists(t, q, c)
<1>1. /\ Len(c) \in Nat /\ t \in Seq(Byte) /\ Len(t) = 16 + Len(c)
      /\ \A i \in 1..16 + Len(c) : t[i] = IF i <= 16 THEN q[i] ELSE c[i - 16]
    <2>1. Len(c) \in Nat
        BY LenProperties
    <2>2. /\ t \in Seq(Byte) /\ Len(t) = Len(q) + Len(c)
          /\ \A i \in 1..Len(q) + Len(c) : t[i] = IF i <= Len(q) THEN q[i] ELSE c[i - Len(q)]
        BY ConcatProperties, Zenon
    <2> QED
        BY <2>1, <2>2
<1>2. t \in Seq(Byte) /\ Len(t) = 16 + Len(c) /\ Len(c) \in Nat
    BY <1>1
<1>3. \A i \in 1..Len(c) : t[16 + i] = c[i]
    BY <1>1
<1>4. \A i \in 1..16 : t[i] = q[i]
    BY <1>1
<1>5. SubSeq(t, 17, Len(t)) = c
    <2>1. SubSeq(t, 17, Len(t)) \in Seq(Byte) /\ Len(SubSeq(t, 17, Len(t))) = Len(c)
        BY <1>2
    <2>2. \A i \in 1..Len(c) : SubSeq(t, 17, Len(t))[i] = c[i]
        BY <1>2, <1>3
    <2> QED
        BY <2>1, <2>2, SeqEqual
<1> QED
    BY <1>2, <1>4, <1>5 DEF Consists

\* Bytes t are parsed as header h and payload c.
Parses(t, h, c) == ParseHeader(t) = h /\ ParsePayload(t) = c /\ t \in Seq(Byte)

\* What is formatted is parsed as what it was.
LEMMA RoundTrip ==
    ASSUME NEW h, Fits(h), NEW n \in Nat, NEW c \in Seq(Byte)
    PROVE  Parses(HeaderBytes(h, n) \o c, h, c)
<1>1. SUFFICES ASSUME NEW t, t = HeaderBytes(h, n) \o c PROVE Parses(t, h, c)
    OBVIOUS
<1>2. /\ h.type \in Byte /\ h.clientID \in Byte /\ h.checksum \in Byte
      /\ h.window \in Nat /\ h.window \div 256 <= 255
      /\ h.seqnum \in Nat /\ h.seqnum \div 16777216 <= 255
      /\ h.chunk \in Nat /\ h.chunk \div 16777216 <= 255
      /\ h \in Header
    BY DEF Fits, Header
<1>3. PICK b : b = (h.version % 8) * 32 + Flags(h)
    OBVIOUS
<1>4. /\ b \in Byte /\ b \div 32 = h.version
      /\ IsSet(b, 1) <=> h.hello
      /\ IsSet(b, 2) <=> h.quit
      /\ IsSet(b, 4) <=> h.first
      /\ IsSet(b, 8) <=> h.last
    <2>1. h \in Header
        BY DEF Fits
    <2> QED
        BY <1>3, <2>1, FlagByte
<1>5. PICK l1 \in Byte, l2 \in Byte : l1 = ByteOf(n, 256) /\ l2 = ByteOf(n, 1)
    BY ByteOfByte, SMT
<1>6. PICK w1 \in Byte, w2 \in Byte : w1 = ByteOf(h.window, 256) /\ w2 = ByteOf(h.window, 1)
    BY <1>2, ByteOfByte, SMT
<1>7. PICK s1 \in Byte, s2 \in Byte, s3 \in Byte, s4 \in Byte :
         /\ s1 = ByteOf(h.seqnum, 16777216) /\ s2 = ByteOf(h.seqnum, 65536)
         /\ s3 = ByteOf(h.seqnum, 256) /\ s4 = ByteOf(h.seqnum, 1)
    BY <1>2, ByteOfByte, SMT
<1>8. PICK c1 \in Byte, c2 \in Byte, c3 \in Byte, c4 \in Byte :
         /\ c1 = ByteOf(h.chunk, 16777216) /\ c2 = ByteOf(h.chunk, 65536)
         /\ c3 = ByteOf(h.chunk, 256) /\ c4 = ByteOf(h.chunk, 1)
    BY <1>2, ByteOfByte, SMT
<1>9. PICK q : q = <<b, h.type, h.clientID, h.checksum, l1, l2, w1, w2,
                     s1, s2, s3, s4, c1, c2, c3, c4>>
    OBVIOUS
<1>10. t = q \o c
    BY <1>1, <1>3, <1>5, <1>6, <1>7, <1>8, <1>9, SMT DEF HeaderBytes
<1>11. q \in Seq(Byte) /\ Len(q) = 16
    <2>1. PICK t2 \in Byte, t3 \in Byte, t4 \in Byte :
             t2 = h.type /\ t3 = h.clientID /\ t4 = h.checksum
        BY <1>2
    <2>2. b \in Byte
        BY <1>4
    <2>3. <<b, t2, t3, t4, l1, l2, w1, w2, s1, s2, s3, s4, c1, c2, c3, c4>> \in Seq(Byte)
        BY <2>2
    <2>4. q = <<b, t2, t3, t4, l1, l2, w1, w2, s1, s2, s3, s4, c1, c2, c3, c4>>
        BY <1>9, <2>1
    <2> QED
        BY <2>3, <2>4, SMT
<1>12. /\ q[1] = b /\ q[2] = h.type /\ q[3] = h.clientID /\ q[4] = h.checksum
       /\ q[7] = w1 /\ q[8] = w2
       /\ q[9] = s1 /\ q[10] = s2 /\ q[11] = s3 /\ q[12] = s4
       /\ q[13] = c1 /\ q[14] = c2 /\ q[15] = c3 /\ q[16] = c4
    BY <1>9, SMT
<1>13. Consists(t, q, c)
    BY <1>10, <1>11, Behind, Zenon
<1>14. /\ t[1] = b /\ t[2] = h.type /\ t[3] = h.clientID /\ t[4] = h.checksum
       /\ t[7] = w1 /\ t[8] = w2
       /\ t[9] = s1 /\ t[10] = s2 /\ t[11] = s3 /\ t[12] = s4
       /\ t[13] = c1 /\ t[14] = c2 /\ t[15] = c3 /\ t[16] = c4
    <2>0. \A i \in 1..16 : t[i] = q[i]
        BY <1>13 DEF Consists
    <2>1. t[1] = q[1] /\ t[2] = q[2] /\ t[3] = q[3] /\ t[4] = q[4]
        BY <2>0
    <2>2. t[7] = q[7] /\ t[8] = q[8]
        BY <2>0
    <2>3. t[9] = q[9] /\ t[10] = q[10] /\ t[11] = q[11] /\ t[12] = q[12]
        BY <2>0
    <2>4. t[13] = q[13] /\ t[14] = q[14] /\ t[15] = q[15] /\ t[16] = q[16]
        BY <2>0
    <2> QED
        BY <2>1, <2>2, <2>3, <2>4, <1>12
<1>15. w1 * 256 + w2 = h.window
    BY <1>2, <1>6, TwoBytes
<1>16. (s1 * 256 + s2) * 65536 + (s3 * 256 + s4) = h.seqnum
    BY <1>2, <1>7, FourBytes
<1>17. (c1 * 256 + c2) * 65536 + (c3 * 256 + c4) = h.chunk
    BY <1>2, <1>8, FourBytes
<1>18. Number2(t, 7) = h.window /\ Number4(t, 9) = h.seqnum /\ Number4(t, 13) = h.chunk
    <2>1. Number2(t, 7) = t[7] * 256 + t[8]
        BY DEF Number2
    <2>2. Number4(t, 9) = (t[9] * 256 + t[10]) * 65536 + (t[11] * 256 + t[12])
        BY SMT DEF Number2, Number4
    <2>3. Number4(t, 13) = (t[13] * 256 + t[14]) * 65536 + (t[15] * 256 + t[16])
        BY SMT DEF Number2, Number4
    <2> QED
        BY <1>15, <1>16, <1>17, <1>14, <2>1, <2>2, <2>3, SMT
<1>19. ParseHeader(t) = h
    <2>1. h = [version |-> h.version, type |-> h.type, clientID |-> h.clientID,
               checksum |-> h.checksum, window |-> h.window, seqnum |-> h.seqnum, chunk |-> h.chunk,
               hello |-> h.hello, quit |-> h.quit, first |-> h.first, last |-> h.last]
        BY <1>2, SMT DEF Header
    <2>2. /\ h.hello \in BOOLEAN /\ h.quit \in BOOLEAN
          /\ h.first \in BOOLEAN /\ h.last \in BOOLEAN
        BY <1>2, SMT DEF Header
    <2>3. /\ IsSet(t[1], 1) = h.hello /\ IsSet(t[1], 2) = h.quit
          /\ IsSet(t[1], 4) = h.first /\ IsSet(t[1], 8) = h.last
        BY <1>4, <1>14, <2>2 DEF IsSet
    <2>4. t[1] \div 32 = h.version
        BY <1>4, <1>14, SMT
    <2> QED
        BY <2>1, <2>3, <2>4, <1>18, <1>14, SMT DEF ParseHeader
<1> QED
    BY <1>13, <1>19, SMT DEF Parses, Consists, ParsePayload, HeaderSize

-----------------------------------------------------------------------------
(* The actions *)

LEMMA InitInv == Init => Inv
<1> SUFFICES ASSUME Init PROVE Inv
    OBVIOUS
<1>1. MemoryInv
    BY EmptySeq, Limits DEF Init, MemoryInv, Heap, Owns, Object, Distinct, NothingLost, NewMessage, Null
<1>2. Fits(Blank)
    BY DEF Blank, Fits, Header, Byte
<1> QED
    BY <1>1, <1>2 DEF Init, Inv, WireInv, Delivered, Authentic, NewMessage

\* What has to be shown of a step that only changes the message sent, and memory.
LEMMA OutStep ==
    ASSUME Inv, UNCHANGED <<in, wire, result>>, MemoryInv', Fits(out'.head),
           in.len > 0 => heap'[in.payload] = heap[in.payload]
    PROVE  Inv'
<1>1. Content(in)' = Content(in)
    BY DEF Content
<1> QED
    BY <1>1 DEF Inv, WireInv, Delivered, Authentic

\* What is so of memory once "out" has given up its payload.
LEMMA OutCleared ==
    ASSUME Inv
    PROVE  /\ Heap(ClearedHeap(out))
           /\ Owns(in, ClearedHeap(out)) /\ NothingLost(in, in, ClearedHeap(out))
           /\ in.len > 0 => ClearedHeap(out)[in.payload] = heap[in.payload]
           /\ Owns(Cleared(out), ClearedHeap(out)) /\ Distinct(Cleared(out), in)
BY ClearFrees DEF Inv, MemoryInv

LEMMA InitHeaderStep == ASSUME Inv, NEW h \in Settings, InitHeader(h) PROVE Inv'
<1>1. out' = [out EXCEPT !.head = h] /\ UNCHANGED <<heap, in, wire, result>>
    BY DEF InitHeader
<1>2. Object(out) /\ Fits(h)
    BY SettingsAssumption DEF Inv, MemoryInv, Owns
<1>3. /\ out'.payload = out.payload /\ out'.len = out.len /\ out'.mac = out.mac
      /\ Object(out') /\ out'.head = h
    BY <1>1, <1>2 DEF Object
<1>4. MemoryInv'
    BY <1>1, <1>3 DEF Inv, MemoryInv, Owns, Distinct, NothingLost, Heap
<1> QED
    BY <1>1, <1>2, <1>3, <1>4, OutStep

LEMMA InitMessageStep == ASSUME Inv, NEW h \in Settings, InitMessage(h) PROVE Inv'
<1>1. /\ out' = [Cleared(out) EXCEPT !.head = h, !.mac = NoMac]
      /\ heap' = ClearedHeap(out) /\ UNCHANGED <<in, wire, result>>
    BY DEF InitMessage
<1>2. Object(Cleared(out)) /\ Fits(h)
    BY OutCleared, SettingsAssumption DEF Owns
<1>3. /\ out'.payload = Cleared(out).payload /\ out'.len = Cleared(out).len
      /\ Object(out') /\ out'.head = h /\ out'.mac = NoMac
    BY <1>1, <1>2 DEF Object
<1>4. MemoryInv'
    BY <1>1, <1>3, OutCleared, Limits DEF MemoryInv, Owns, Distinct, NothingLost, Heap
<1> QED
    BY <1>1, <1>2, <1>3, <1>4, OutStep, OutCleared

LEMMA ReplyStep == ASSUME Inv, NEW h \in Settings, Reply(h) PROVE Inv'
<1>1. /\ out' = [NewMessage EXCEPT !.head = [in.head EXCEPT !.type = h.type]]
      /\ heap' = ClearedHeap(out) /\ UNCHANGED <<in, wire, result>>
    BY DEF Reply
<1>2. /\ out'.payload = Null /\ out'.len = 0 /\ out'.mac = NoMac /\ Object(out')
      /\ out'.head = [in.head EXCEPT !.type = h.type]
    BY <1>1 DEF NewMessage, Object
<1>3. Fits(out'.head)
    BY <1>2, SettingsAssumption DEF Inv, Fits, Header
<1>4. MemoryInv'
    BY <1>1, <1>2, OutCleared, Limits DEF MemoryInv, Owns, Distinct, NothingLost, Heap
<1> QED
    BY <1>1, <1>3, <1>4, OutStep, OutCleared

LEMMA SetPayloadStep == ASSUME Inv, NEW p \in Payloads, SetPayload(p) PROVE Inv'
<1>1. PICK b \in BlockFor(p # <<>>, ClearedHeap(out)) :
         /\ heap' = Allocated(ClearedHeap(out), b, p)
         /\ out' = IF b = Null THEN Cleared(out) ELSE [out EXCEPT !.payload = b, !.len = Len(p)]
         /\ UNCHANGED <<in, wire, result>>
    BY DEF SetPayload
<1>2. p \in Seq(Byte) /\ Len(p) <= MaxPayload
    BY PayloadsAssumption
<1>3. CASE b = Null
    <2>1. heap' = ClearedHeap(out) /\ out' = Cleared(out)
        BY <1>1, <1>3 DEF Allocated
    <2>2. MemoryInv'
        BY <1>1, <2>1, OutCleared DEF MemoryInv, Distinct, NothingLost, Heap
    <2>3. Fits(out'.head)
        BY <2>1 DEF Inv, MemoryInv, Owns, Object, Cleared
    <2> QED
        BY <1>1, <2>1, <2>2, <2>3, OutStep, OutCleared
<1>4. CASE b # Null
    <2>1. out' = [out EXCEPT !.payload = b, !.len = Len(p)]
        BY <1>1, <1>4
    <2>2. /\ Object(out') /\ out'.payload = b /\ out'.len = Len(p) /\ out'.head = out.head
          /\ out'.mac = out.mac /\ out.mac \in Macs
        BY <2>1 DEF Inv, MemoryInv, Owns, Object
    <2>3. b \in FirstFree(ClearedHeap(out))
        BY <1>1, <1>4 DEF BlockFor
    <2>4. Taken(ClearedHeap(out), heap', out', in, p)
        <3>1. Heap(ClearedHeap(out)) /\ Owns(in, ClearedHeap(out)) /\ NothingLost(in, in, ClearedHeap(out))
            BY OutCleared
        <3> QED
            BY <1>1, <1>2, <2>2, <2>3, <3>1, AllocateKeeps
    <2>5. MemoryInv'
        BY <1>1, <2>4 DEF Taken, MemoryInv
    <2>6. in.len > 0 => heap'[in.payload] = heap[in.payload]
        BY <2>4, OutCleared DEF Taken
    <2> QED
        BY <1>1, <2>2, <2>5, <2>6, OutStep DEF Inv
<1> QED
    BY <1>3, <1>4

LEMMA SendStep == ASSUME Inv, NEW src \in Addresses, NEW key \in Keys, Send(src, key) PROVE Inv'
<1>1. PICK mac :
         /\ mac = IF Version = 2 /\ ~out.head.hello THEN [key |-> key, bytes |-> ToBytes(out)]
                  ELSE out.mac
         /\ out' = [out EXCEPT !.mac = mac]
         /\ wire' = {[src |-> src, bytes |-> ToBytes(out),
                      mac |-> IF out.head.version = 2 THEN mac ELSE NoMac,
                      msg |-> [head |-> out.head, payload |-> Content(out)]]}
         /\ result' = "none" /\ UNCHANGED <<heap, in>>
    BY DEF Send
<1>2. /\ Object(out') /\ out'.payload = out.payload /\ out'.len = out.len /\ out'.head = out.head
      /\ out'.mac = mac
    BY <1>1 DEF Inv, MemoryInv, Owns, Object
<1>3. Content(out) \in Seq(Byte) /\ Len(Content(out)) = out.len /\ out.len <= MaxPayload
    BY EmptySeq DEF Content, Inv, MemoryInv, Owns, Heap
<1>4. mac \in Macs
    <2>1. ToBytes(out) \in Seq(Byte)
        <3>1. Fits(out.head) /\ out.len \in Nat
            BY DEF Inv, MemoryInv, Owns
        <3> QED
            BY <1>3, <3>1, RoundTrip DEF ToBytes, Parses
    <2>2. out.mac \in Macs
        BY DEF Inv, MemoryInv, Owns
    <2> QED
        BY <1>1, <2>1, <2>2 DEF Macs
<1>5. MemoryInv'
    BY <1>1, <1>2, <1>4 DEF Inv, MemoryInv, Owns, Distinct, NothingLost, Heap
<1>6. WireInv'
    <2> SUFFICES ASSUME NEW d, d \in wire' PROVE FormedAs(d)
        BY <1>1 DEF WireInv
    <2>1. /\ d.src = src /\ d.bytes = ToBytes(out)
          /\ d.mac = IF out.head.version = 2 THEN mac ELSE NoMac
          /\ d.msg.head = out.head /\ d.msg.payload = Content(out)
        BY <1>1
    <2>2. Fits(out.head)
        BY DEF Inv
    <2>3. d.bytes = HeaderBytes(out.head, Len(Content(out))) \o Content(out)
        BY <1>3, <2>1 DEF ToBytes
    <2>4. Version = 2 /\ ~out.head.hello => mac = [key |-> key, bytes |-> ToBytes(out)]
        BY <1>1
    <2>5. Version = 2 /\ ~d.msg.head.hello =>
              IF d.msg.head.version = 2 THEN d.mac = [key |-> d.mac.key, bytes |-> d.bytes]
              ELSE d.mac = NoMac
        BY <2>1, <2>4
    <2> QED
        BY <1>3, <1>4, <2>1, <2>2, <2>3, <2>5, Limits DEF FormedAs
<1> QED
    BY <1>1, <1>2, <1>5, <1>6 DEF Inv, Delivered, Authentic

LEMMA SameAddress ==
    ASSUME NEW a \in Addresses PROVE CmpAddr(a, Peer) <=> a = Peer
<1>1. a = [ip |-> a.ip, port |-> a.port] /\ Peer = [ip |-> Peer.ip, port |-> Peer.port]
    BY AddressesAssumption, Zenon
<1> QED
    BY <1>1 DEF CmpAddr

LEMMA ReceiveStep == ASSUME Inv, Receive PROVE Inv'
<1>1. PICK d \in wire : LET h == ParseHeader(d.bytes)
                            p == ParsePayload(d.bytes)
                            again == HeaderBytes(h, Len(p)) \o p
         IN  /\ \E b \in BlockFor(h.version = 2 \/ p # <<>>, ClearedHeap(in)) :
                   /\ heap' = Allocated(ClearedHeap(in), b, p)
                   /\ in' = [head |-> h, payload |-> b, len |-> Len(p), mac |-> d.mac]
             /\ result' = IF /\ CmpAddr(d.src, Peer)
                             /\ Version = 2 /\ ~h.hello => d.mac = [key |-> Key, bytes |-> again]
                          THEN "valid" ELSE "invalid"
             /\ UNCHANGED <<out, wire>>
    BY DEF Receive
<1> DEFINE h == d.msg.head
           p == d.msg.payload
<1>2. /\ d.src \in Addresses /\ d.mac \in Macs
      /\ Fits(h) /\ p \in Seq(Byte) /\ Len(p) <= MaxPayload
      /\ d.bytes = HeaderBytes(h, Len(p)) \o p
      /\ Version = 2 /\ ~h.hello => IF h.version = 2 THEN d.mac = [key |-> d.mac.key, bytes |-> d.bytes]
                                    ELSE d.mac = NoMac
    BY DEF Inv, WireInv, FormedAs
<1>3. Len(p) \in Nat
    BY <1>2, LenProperties
<1>4. ParseHeader(d.bytes) = h /\ ParsePayload(d.bytes) = p
    <2> HIDE DEF h, p
    <2>1. Parses(HeaderBytes(h, Len(p)) \o p, h, p)
        BY <1>2, <1>3, RoundTrip
    <2> QED
        BY <1>2, <2>1 DEF Parses
<1>5. PICK b \in BlockFor(h.version = 2 \/ p # <<>>, ClearedHeap(in)) :
         /\ heap' = Allocated(ClearedHeap(in), b, p)
         /\ in' = [head |-> h, payload |-> b, len |-> Len(p), mac |-> d.mac]
    BY <1>1, <1>4
<1>6. /\ result' = IF /\ CmpAddr(d.src, Peer)
                      /\ Version = 2 /\ ~h.hello => d.mac = [key |-> Key, bytes |-> d.bytes]
                   THEN "valid" ELSE "invalid"
      /\ UNCHANGED <<out, wire>>
    BY <1>1, <1>2, <1>4
<1>7. Object(in') /\ in'.head = h /\ in'.payload = b /\ in'.len = Len(p) /\ in'.mac = d.mac
    BY <1>5 DEF Object
<1>8. Distinct(in, out) /\ NothingLost(in, out, heap)
    BY DEF Inv, MemoryInv, Distinct, NothingLost
<1>9. /\ Heap(ClearedHeap(in)) /\ Owns(out, ClearedHeap(in)) /\ NothingLost(out, out, ClearedHeap(in))
    BY <1>8, ClearFrees DEF Inv, MemoryInv
<1>10. /\ Heap(heap') /\ Owns(in', heap') /\ Owns(out, heap')
       /\ Distinct(in', out) /\ NothingLost(in', out, heap')
       /\ in'.len > 0 => heap'[b] = p
    <2> HIDE DEF h, p
    <2>1. b \in FirstFree(ClearedHeap(in)) \/ (b = Null /\ p = <<>>)
        BY <1>5 DEF BlockFor
    <2>2. Taken(ClearedHeap(in), heap', in', out, p)
        BY <1>2, <1>5, <1>7, <1>9, <2>1, AllocateKeeps
    <2> QED
        BY <1>7, <2>2 DEF Taken
<1>11. MemoryInv'
    BY <1>6, <1>10 DEF MemoryInv, Heap, Distinct, NothingLost
<1>12. Content(in)' = p
    BY <1>2, <1>7, <1>10, EmptySeq DEF Content
<1>13. wire' = wire /\ \A e \in wire : e = d
    BY <1>6 DEF Inv, WireInv
<1>14. Delivered'
    BY <1>7, <1>12, <1>13 DEF Delivered
<1>15. CmpAddr(d.src, Peer) <=> d.src = Peer
    BY <1>2, SameAddress
<1>16. Version = 2 /\ ~h.hello =>
          (d.mac = [key |-> Key, bytes |-> d.bytes] <=> h.version = 2 /\ d.mac.key = Key)
    <2>1. NoMac # [key |-> Key, bytes |-> d.bytes]
        BY KeysAssumption DEF NoMac
    <2> HIDE DEF h
    <2>2. CASE Version = 2 /\ ~h.hello /\ h.version = 2
        <3>1. d.mac = [key |-> d.mac.key, bytes |-> d.bytes]
            BY <1>2, <2>2, Zenon
        <3> QED
            BY <2>2, <3>1
    <2>3. CASE Version = 2 /\ ~h.hello /\ h.version # 2
        <3>1. d.mac = NoMac
            BY <1>2, <2>3, Zenon
        <3> QED
            BY <2>1, <2>3, <3>1
    <2> QED
        BY <2>2, <2>3
<1>17. result' = "valid" <=>
          d.src = Peer /\ (Version = 2 /\ ~h.hello => h.version = 2 /\ d.mac.key = Key)
    BY <1>6, <1>15, <1>16
<1>18. Authentic'
    BY <1>13, <1>17 DEF Authentic
<1>19. Fits(in'.head) /\ Fits(out'.head)
    BY <1>2, <1>6, <1>7 DEF Inv
<1>20. WireInv'
    BY <1>13 DEF Inv, WireInv
<1>21. result' \in {"none", "valid", "invalid"}
    BY <1>6
<1> QED
    BY <1>11, <1>14, <1>18, <1>19, <1>20, <1>21 DEF Inv

-----------------------------------------------------------------------------
(* Theorems *)

LEMMA InvAlways == Spec => []Inv
<1>1. ASSUME Inv, UNCHANGED vars PROVE Inv'
    <2>1. UNCHANGED <<heap, out, in, wire, result>>
        BY <1>1 DEF vars
    <2>2. Content(in)' = Content(in)
        BY <2>1 DEF Content
    <2> QED
        BY <1>1, <2>1, <2>2 DEF Inv, MemoryInv, WireInv, Delivered, Authentic
<1>2. ASSUME Inv, Next PROVE Inv'
    BY <1>2, InitHeaderStep, InitMessageStep, ReplyStep, SetPayloadStep, SendStep, ReceiveStep DEF Next
<1>3. Inv /\ [Next]_vars => Inv'
    BY <1>1, <1>2
<1> QED
    BY <1>3, InitInv, PTL DEF Spec

\* Every variable keeps its type: lengths stay within the buffers, and every field
\* of a header within its width, also of one that was received.
THEOREM TypeCorrect == Spec => []TypeOK
<1>1. ASSUME Inv PROVE TypeOK
    <2>1. heap \in [DOMAIN heap -> Seq(Byte)] /\ DOMAIN heap \subseteq Blocks
        BY <1>1 DEF Inv, MemoryInv, Heap
    <2>2. ASSUME NEW m, Owns(m, heap), Fits(m.head) PROVE m \in Message
        <3>1. m.head \in Header /\ m.len \in 0..MaxPayload /\ m.mac \in Macs
            BY <2>2, Limits DEF Owns, Fits
        <3>2. m.payload \in Blocks \cup {Null}
            BY <2>1, <2>2 DEF Owns
        <3>3. m = [head |-> m.head, payload |-> m.payload, len |-> m.len, mac |-> m.mac]
            BY <2>2 DEF Owns, Object
        <3> QED
            BY <3>1, <3>2, <3>3 DEF Message
    <2>3. out \in Message /\ in \in Message
        BY <1>1, <2>2 DEF Inv, MemoryInv
    <2>4. ASSUME NEW d \in wire PROVE d.src \in Addresses /\ d.bytes \in Seq(Byte) /\ d.mac \in Macs
        <3>1. FormedAs(d)
            BY <1>1 DEF Inv, WireInv
        <3>2. Len(d.msg.payload) \in Nat
            BY <3>1, LenProperties DEF FormedAs
        <3> QED
            BY <3>1, <3>2, RoundTrip DEF FormedAs, Parses
    <2> QED
        BY <1>1, <2>1, <2>3, <2>4 DEF TypeOK, Inv
<1> QED
    BY <1>1, InvAlways, PTL

\* Whatever is done with the two messages, each owns its payload and knows its
\* length: no payload is shared, and none is freed while it is used.
THEOREM PayloadsStayOwned == Spec => []PayloadsOwned
<1>1. Inv => PayloadsOwned
    BY DEF Inv, MemoryInv, Owns, Distinct, PayloadsOwned, HasPayload
<1> QED
    BY <1>1, InvAlways, PTL

\* No payload is forgotten before it is freed, but for empty ones.
THEOREM NoContentsLost == Spec => []ContentsFreed
<1>1. ASSUME Inv PROVE ContentsFreed
    <2> SUFFICES ASSUME NEW b \in DOMAIN heap, heap[b] # <<>>
                 PROVE  \E m \in {out, in} : m.len > 0 /\ m.payload = b
        BY DEF ContentsFreed
    <2>1. PICK m \in {out, in} : m.payload = b
        BY <1>1 DEF Inv, MemoryInv, NothingLost
    <2>2. b # Null
        BY <1>1, NullNoBlock DEF Inv, MemoryInv, Heap
    <2>3. Len(heap[b]) = m.len
        BY <1>1, <2>1, <2>2 DEF Inv, MemoryInv, Owns
    <2>4. Len(heap[b]) > 0
        BY <1>1, EmptySeq DEF Inv, MemoryInv, Heap
    <2> QED
        BY <2>1, <2>3, <2>4
<1> QED
    BY <1>1, InvAlways, PTL

\* What was formatted is parsed as what it was, for every header and payload that
\* a message can have, whatever the message was used for before.
THEOREM MessagesDelivered == Spec => []Delivered
<1>1. Inv => Delivered
    BY DEF Inv
<1> QED
    BY <1>1, InvAlways, PTL

\* recv accepts what this session's peer sent, and in version 2 nothing else but
\* HELLO messages, whatever the other addresses and keys are.
THEOREM MessagesAuthentic == Spec => []Authentic
<1>1. Inv => Authentic
    BY DEF Inv
<1> QED
    BY <1>1, InvAlways, PTL

=============================================================================
