---------------------------- MODULE RtpPacketProofs ----------------------------
(***************************************************************************)
(* What the setters of RtpPacket lay out, parse reads back: for every      *)
(* number of sources, length of the extension, payload and padding that    *)
(* 16 bits have room for.                                                  *)
(***************************************************************************)
EXTENDS RtpPacket, SequenceTheorems, TLAPS

Bytes == 0..(Room - 1)
IsBuffer(b) == b = [i \in Bytes |-> b[i]]

(* The members of a packet p, whose sizes and offsets fit together in the room
   there is. *)
Pkt == [count : 0..MaxCsrc, extended : BOOLEAN, id : Number16, length : 0..MaxWords,
        padding : 0..MaxPadding, extension_offset : 0..Room, payload_offset : 0..Room,
        payload_size : 0..MaxPayload, packet_size : 0..Room]

Sized(p) ==
  /\ p \in Pkt
  /\ p.extension_offset = kFixedRTPSize + kCsrcIdsize * p.count
  /\ p.payload_offset = p.extension_offset + ext_size(p)
  /\ p.packet_size = p.payload_offset + p.payload_size + p.padding

(* What the setters were asked for, a, is what the members say. *)
AskedParts == {"csrc", "extension", "padding", "marker", "type", "sequence", "timestamp", "ssrc",
               "size", "written"}

AskedFor(p, a) ==
  /\ a = [part \in AskedParts |-> a[part]]
  /\ a.csrc = [i \in 1..p.count |-> CsrcIds[i]]
  /\ a.extension = IF p.extended THEN <<p.id, p.length>> ELSE <<>>
  /\ a.padding = p.padding
  /\ a.size = p.payload_size
  /\ a.marker \in BOOLEAN
  /\ a.type \in 0..127
  /\ a.written \in BOOLEAN

(* The octets of the buffer b say so too, each part where the offsets put it. *)
Octet0(count, padded, extended) ==
  128 + (IF padded THEN Padded ELSE 0) + (IF extended THEN Extended ELSE 0) + count
Octet1(marker, type) == (IF marker THEN Marker ELSE 0) + type

FlagsSay(b, p)   == b[0] = Octet0(p.count, p.padding > 0, p.extended)
FixedSay(b, a)   == /\ b[1] = Octet1(a.marker, a.type)
                    /\ Read16(b, 2) = a.sequence
                    /\ Read32(b, 4) = a.timestamp
                    /\ Read32(b, 8) = a.ssrc
SourcesSay(b, p) == \A i \in 1..p.count :
                      Read32(b, kFixedRTPSize + kCsrcIdsize * (i - 1)) = CsrcIds[i]
HeaderSays(b, p) == p.extended => /\ Read16(b, p.extension_offset) = p.id
                                  /\ Read16(b, p.extension_offset + 2) = p.length
                                  /\ b[p.extension_offset + 2] \in Nat
PayloadSays(b, p, a) == a.written => \A i \in 1..p.payload_size :
                                       b[p.payload_offset + (i - 1)] = Payload[i]
PaddingSays(b, p) == p.padding > 0 => b[p.packet_size - 1] = p.padding

Octets(b, p, a) ==
  /\ IsBuffer(b)
  /\ FlagsSay(b, p)
  /\ FixedSay(b, a)
  /\ SourcesSay(b, p)
  /\ HeaderSays(b, p)
  /\ PayloadSays(b, p, a)
  /\ PaddingSays(b, p)

LaidOut(b, p, a) == Sized(p) /\ AskedFor(p, a) /\ Octets(b, p, a)

LayoutInv == whole => LaidOut(buffer, pkt, asked)

-----------------------------------------------------------------------------
(* Numbers: octets, flags, sizes. *)

(* The octets of a number, read again, are the number. *)
LEMMA Octets16 ==
  ASSUME NEW v \in Number16
  PROVE  /\ Len(Big16(v)) = 2
         /\ 256 * Big16(v)[1] + Big16(v)[2] = v
BY SMT DEF Big16, Number16

Spell(z, u, v) == /\ Len(z) = 4
                  /\ 256 * z[1] + z[2] = u
                  /\ 256 * z[3] + z[4] = v
                  /\ z[3] \in Nat

(* Two numbers one after the other. *)
LEMMA OctetsOfTwo ==
  ASSUME NEW u \in Number16, NEW v \in Number16, NEW z, z = Big16(u) \o Big16(v)
  PROVE  Spell(z, u, v)
<1> DEFINE x == Big16(u)
           y == Big16(v)
<1>1. x \in Seq(Nat) /\ y \in Seq(Nat) /\ y[1] \in Nat
  BY SMT DEF Big16, Number16
<1>2. /\ Len(x) = 2 /\ 256 * x[1] + x[2] = u
      /\ Len(y) = 2 /\ 256 * y[1] + y[2] = v
  BY Octets16
<1>3. z = x \o y
  OBVIOUS
<1> HIDE DEF x, y
<1>4. /\ Len(z) = Len(x) + Len(y)
      /\ \A i \in 1..(Len(x) + Len(y)) : z[i] = IF i <= Len(x) THEN x[i] ELSE y[i - Len(x)]
  BY <1>1, <1>3, ConcatProperties, ZenonT(60)
<1>5. /\ Len(z) = 4
      /\ z[1] = x[1] /\ z[2] = x[2] /\ z[3] = y[1] /\ z[4] = y[2]
  BY <1>2, <1>4, SMT
<1> QED BY <1>1, <1>2, <1>5, SMT DEF Spell

(* The same of four octets. *)
LEMMA Octets32 ==
  ASSUME NEW v \in Number32
  PROVE  /\ Len(Big32(v)) = 4
         /\ 65536 * (256 * Big32(v)[1] + Big32(v)[2]) + (256 * Big32(v)[3] + Big32(v)[4]) = v
<1> DEFINE h == v \div 65536
           l == v % 65536
<1>1. h \in Number16 /\ l \in Number16
  BY SMT DEF Number16, Number32
<1>2. v = 65536 * h + l
  BY SMT DEF Number32
<1>3. Big32(v) = Big16(h) \o Big16(l)
  BY SMT DEF Big32
<1> HIDE DEF h, l
<1>4. Spell(Big32(v), h, l)
  BY <1>1, <1>3, OctetsOfTwo, Zenon
<1> QED BY <1>2, <1>4, SMT DEF Spell

(* The first octet holds the version, the two flags and the count apart. *)
LEMMA FirstOctet ==
  ASSUME NEW count \in 0..15, NEW padded \in BOOLEAN, NEW extended \in BOOLEAN,
         NEW o, o = Octet0(count, padded, extended)
  PROVE  /\ o % 16 = count
         /\ o \div 64 = 2
         /\ Has(o, Padded) <=> padded
         /\ Has(o, Extended) <=> extended
BY DEF Has, Octet0, Padded, Extended

(* The flag of the padding is set or cleared, the rest of the octet stays. *)
LEMMA PaddedFlag ==
  ASSUME NEW b, NEW p, FlagsSay(b, p), p.count \in 0..15, p.extended \in BOOLEAN, p.padding \in Nat,
         NEW flag \in BOOLEAN, NEW b2, b2[0] = With(b[0], Padded, flag),
         NEW p2, p2.count = p.count, p2.extended = p.extended, p2.padding \in Nat,
         p2.padding > 0 <=> flag
  PROVE  FlagsSay(b2, p2)
<1> DEFINE extended == IF p.extended THEN 16 ELSE 0
<1>1. b[0] = 128 + (IF p.padding > 0 THEN 32 ELSE 0) + extended + p.count /\ extended \in {0, 16}
  BY SMT DEF FlagsSay, Octet0, Padded, Extended
<1>2. extended = IF p2.extended THEN 16 ELSE 0
  BY Zenon
<1> HIDE DEF extended
<1>3. b2[0] = 128 + (IF flag THEN 32 ELSE 0) + extended + p.count
  BY <1>1, SMT DEF Has, With, Padded
<1>4. (IF flag THEN 32 ELSE 0) = (IF p2.padding > 0 THEN 32 ELSE 0)
  BY Zenon
<1> QED BY <1>2, <1>3, <1>4, ZenonT(60) DEF FlagsSay, Octet0, Padded, Extended

(* So for the flag of the extension. *)
LEMMA ExtendedFlag ==
  ASSUME NEW b, NEW p, FlagsSay(b, p), p.count \in 0..15, p.extended \in BOOLEAN, p.padding \in Nat,
         NEW flag \in BOOLEAN, NEW b2, b2[0] = With(b[0], Extended, flag),
         NEW p2, p2.count = p.count, p2.extended \in BOOLEAN, p2.extended <=> flag,
         p2.padding = p.padding
  PROVE  FlagsSay(b2, p2)
<1> DEFINE padded == IF p.padding > 0 THEN 32 ELSE 0
<1>1. b[0] = 128 + padded + (IF p.extended THEN 16 ELSE 0) + p.count /\ padded \in {0, 32}
  BY SMT DEF FlagsSay, Octet0, Padded, Extended
<1> HIDE DEF padded
<1>2. b2[0] = 128 + padded + (IF flag THEN 16 ELSE 0) + p.count
  BY <1>1, SMT DEF Has, With, Extended
<1>3. (IF flag THEN 16 ELSE 0) = (IF p2.extended THEN 16 ELSE 0)
  BY Zenon
<1> QED BY <1>2, <1>3, Zenon DEF FlagsSay, Octet0, Padded, Extended, padded

(* And for the count. *)
LEMMA CountInFlags ==
  ASSUME NEW b, NEW p, FlagsSay(b, p), p.count \in 0..15, p.extended \in BOOLEAN, p.padding \in Nat,
         NEW n \in 0..15, NEW b2, b2[0] = (b[0] - (b[0] % 16)) + n,
         NEW p2, p2.count = n, p2.extended = p.extended, p2.padding = p.padding
  PROVE  FlagsSay(b2, p2)
BY SMT DEF FlagsSay, Octet0, Padded, Extended

(* The second holds the marker and the type apart. *)
LEMMA SecondOctet ==
  ASSUME NEW marker \in BOOLEAN, NEW type \in 0..127, NEW o, o = Octet1(marker, type)
  PROVE  /\ o % 128 = type
         /\ Has(o, Marker) <=> marker
BY DEF Has, Octet1, Marker

(* Each can be set and leaves the other as it was. *)
WithType(o, t) == (o - (o % Marker)) + t
Types == 0..127
SecondOctets(o) == \E marker \in BOOLEAN, type \in Types : o = Octet1(marker, type)

LEMMA SecondOctetSet ==
  ASSUME NEW o, SecondOctets(o), NEW flag \in BOOLEAN, NEW t \in Types
  PROVE  With(WithType(o, t), Marker, flag) = Octet1(flag, t)
<1>1. PICK marker \in BOOLEAN, type \in 0..127 : o = Octet1(marker, type)
  BY DEF SecondOctets, Types
<1> QED BY <1>1 DEF Has, With, WithType, Octet1, Marker, Types

(* What the assumptions say of the room there is. *)
LEMMA RoomFits == /\ Room \in Number16 /\ Room >= 12
                  /\ MaxCsrc \in 0..15 /\ MaxPadding \in 0..255
                  /\ MaxWords \in Nat /\ MaxPayload \in Nat
                  /\ Room = 16 + 4 * MaxCsrc + 4 * MaxWords + MaxPayload + MaxPadding
BY BoundsAssumption, RoomAssumption, SMT DEF Room, kFixedRTPSize, kCsrcIdsize, Number16

(* Sizes that fit are not cut off. *)
LEMMA NarrowKeeps ==
  ASSUME NEW n \in 0..Room
  PROVE  Narrow(n) = n
BY RoomFits, SMT DEF Narrow, Number16

(* A packet of any parts within the bounds has room. *)
LEMMA PartsFit ==
  ASSUME NEW count \in 0..MaxCsrc, NEW words \in 0..MaxWords, NEW payload \in 0..MaxPayload,
         NEW padding \in 0..MaxPadding, NEW extension, extension = 0 \/ extension = 4 + 4 * words
  PROVE  /\ extension \in Nat
         /\ 12 + 4 * count + extension + payload + padding \in 12..Room
         /\ 12 + 4 * count + extension + payload \in 12..Room
         /\ 12 + 4 * count + extension \in 12..Room
         /\ 12 + 4 * count \in 12..Room
BY RoomFits, SMT DEF Number16

(* The offsets of a packet of such parts, in terms of the parts. *)
LEMMA OffsetsFit ==
  ASSUME NEW p, Sized(p)
  PROVE  /\ ext_size(p) \in Nat
         /\ p.count \in 0..MaxCsrc /\ p.extended \in BOOLEAN /\ p.id \in Number16
         /\ p.length \in 0..MaxWords /\ p.padding \in 0..MaxPadding
         /\ p.payload_size \in 0..MaxPayload
         /\ p.extension_offset \in 12..Room
         /\ p.payload_offset \in 12..Room
         /\ p.packet_size \in 12..Room
         /\ p.extension_offset = 12 + 4 * p.count
         /\ p.payload_offset = p.extension_offset + ext_size(p)
         /\ p.packet_size = p.payload_offset + p.payload_size + p.padding
         /\ ext_size(p) = IF p.extended THEN 4 + 4 * p.length ELSE 0
<1>1. /\ p.count \in 0..MaxCsrc /\ p.extended \in BOOLEAN /\ p.id \in Number16
      /\ p.length \in 0..MaxWords /\ p.padding \in 0..MaxPadding
      /\ p.payload_size \in 0..MaxPayload
      /\ p.extension_offset \in 0..Room
      /\ p.payload_offset \in 0..Room
      /\ p.packet_size \in 0..Room
  BY DEF Sized, Pkt
<1>2. /\ p.extension_offset = 12 + 4 * p.count
      /\ p.payload_offset = p.extension_offset + ext_size(p)
      /\ p.packet_size = p.payload_offset + p.payload_size + p.padding
      /\ ext_size(p) = IF p.extended THEN 4 + 4 * p.length ELSE 0
  BY DEF Sized, ext_size, size_bytes, kFixedRTPSize, kCsrcIdsize
<1> QED BY <1>1, <1>2, RoomFits, SMT DEF Number16

(* Their types. *)
LEMMA OffsetsAreNumbers ==
  ASSUME NEW p, Sized(p)
  PROVE  /\ p.count \in 0..15 /\ p.extended \in BOOLEAN /\ p.length \in Nat
         /\ p.padding \in Nat /\ p.payload_size \in Nat
         /\ p.extension_offset \in Nat /\ p.payload_offset \in Nat /\ p.packet_size \in Nat
<1>1. p.count \in 0..15 /\ p.length \in Nat /\ p.padding \in Nat /\ p.payload_size \in Nat
  BY RoomFits, SMT DEF Sized, Pkt
<1>2. p.extension_offset \in Nat /\ p.payload_offset \in Nat /\ p.packet_size \in Nat
  BY RoomFits, SMT DEF Sized, Pkt, Number16
<1>3. p.extended \in BOOLEAN
  BY DEF Sized, Pkt
<1> QED BY <1>1, <1>2, <1>3

-----------------------------------------------------------------------------
(* Buffers: what each of the operations leaves in an octet. *)

LEMMA PutAt ==
  ASSUME NEW b, IsBuffer(b), NEW at \in Int, NEW octets, NEW n \in Nat, Len(octets) = n,
         NEW c, c = Put(b, at, octets)
  PROVE  /\ IsBuffer(c)
         /\ \A i \in Bytes : i < at \/ at + n <= i => c[i] = b[i]
         /\ \A k \in 1..n : at + (k - 1) \in Bytes => c[at + (k - 1)] = octets[k]
<1>1. DOMAIN b = Bytes
  BY DEF IsBuffer
<1>2. c = [i \in Bytes |-> IF i - at \in 0..(n - 1) THEN octets[i - at + 1] ELSE b[i]]
  BY <1>1 DEF Put
<1>3. \A i \in Bytes : i \in Int
  BY RoomFits, SMT DEF Bytes, Number16
<1>4. ASSUME NEW k \in 1..n, at + (k - 1) \in Bytes
      PROVE  c[at + (k - 1)] = octets[k]
  <2>1. (at + (k - 1)) - at \in 0..(n - 1) /\ (at + (k - 1)) - at + 1 = k
    OBVIOUS
  <2> QED BY <1>2, <1>4, <2>1
<1> QED BY <1>2, <1>3, <1>4 DEF IsBuffer

PutOne(b, at, o) == Put(b, at, <<o>>)

(* A single octet. *)
LEMMA PutOneAt ==
  ASSUME NEW b, IsBuffer(b), NEW at \in Bytes, NEW o, NEW c, c = PutOne(b, at, o)
  PROVE  /\ IsBuffer(c)
         /\ \A i \in Bytes : i # at => c[i] = b[i]
         /\ c[at] = o
<1>1. DOMAIN b = Bytes
  BY DEF IsBuffer
<1>2. Len(<<o>>) - 1 = 0 /\ <<o>>[1] = o
  OBVIOUS
<1>3. c = [i \in Bytes |-> IF i - at \in 0..0 THEN <<o>>[i - at + 1] ELSE b[i]]
  BY <1>1, <1>2, Zenon DEF PutOne, Put
<1>4. \A i \in Bytes : i \in Int /\ (i - at \in 0..0 <=> i = at)
  BY RoomFits, SMT DEF Bytes, Number16
<1>5. at - at + 1 = 1
  BY <1>4
<1>6. c = [i \in Bytes |-> IF i = at THEN o ELSE b[i]]
  BY <1>2, <1>3, <1>4, <1>5, Zenon
<1> QED BY <1>6 DEF IsBuffer

(* memmove. *)
LEMMA MoveAt ==
  ASSUME NEW b, IsBuffer(b), NEW to \in Int, NEW from \in Int, NEW n \in Nat,
         NEW c, c = Move(b, to, from, n)
  PROVE  /\ IsBuffer(c)
         /\ \A i \in Bytes : i < to \/ to + n <= i => c[i] = b[i]
         /\ \A k \in 0..(n - 1) : to + k \in Bytes => c[to + k] = b[from + k]
<1>1. DOMAIN b = Bytes
  BY DEF IsBuffer
<1>2. c = [i \in Bytes |-> IF i - to \in 0..(n - 1) THEN b[from + (i - to)] ELSE b[i]]
  BY <1>1 DEF Move
<1>3. \A i \in Bytes : i \in Int
  BY RoomFits, SMT DEF Bytes, Number16
<1>4. ASSUME NEW k \in 0..(n - 1), to + k \in Bytes
      PROVE  c[to + k] = b[from + k]
  <2>1. (to + k) - to = k
    OBVIOUS
  <2> QED BY <1>2, <1>4, <2>1
<1> QED BY <1>2, <1>3, <1>4 DEF IsBuffer

(* What is not part of the packet is not asked for. *)
LEMMA TrimAt ==
  ASSUME NEW b, IsBuffer(b), NEW size \in Int, NEW c, c = Trim(b, size)
  PROVE  /\ IsBuffer(c)
         /\ \A i \in Bytes : i < size => c[i] = b[i]
<1>1. DOMAIN b = Bytes
  BY DEF IsBuffer
<1> QED BY <1>1 DEF Trim, IsBuffer

(* A flag changes the first octet. *)
LEMMA FlagAt ==
  ASSUME NEW b, IsBuffer(b), NEW bit, NEW flag, NEW c, c = Flag(b, bit, flag)
  PROVE  /\ IsBuffer(c)
         /\ \A i \in Bytes : i # 0 => c[i] = b[i]
         /\ c[0] = With(b[0], bit, flag)
<1>1. DOMAIN b = Bytes
  BY DEF IsBuffer
<1>2. 0 \in Bytes
  BY RoomFits, SMT DEF Bytes, Number16
<1> QED BY <1>1, <1>2 DEF Flag, IsBuffer

-----------------------------------------------------------------------------
(* Parts: each still says what it said when its octets are where the offsets
   are. *)

SameFixed(a2, a) ==
  /\ a2.marker = a.marker /\ a2.type = a.type /\ a2.sequence = a.sequence
  /\ a2.timestamp = a.timestamp /\ a2.ssrc = a.ssrc

(* The fixed fields are in octets 1 to 11. *)
LEMMA FixedStay ==
  ASSUME NEW b, NEW a, FixedSay(b, a), NEW b2, NEW a2, SameFixed(a2, a),
         \A i \in 1..11 : b2[i] = b[i]
  PROVE  FixedSay(b2, a2)
<1>1. /\ b2[1] = b[1] /\ b2[2] = b[2] /\ b2[2 + 1] = b[2 + 1]
      /\ b2[4] = b[4] /\ b2[4 + 1] = b[4 + 1] /\ b2[4 + 2] = b[4 + 2] /\ b2[4 + 2 + 1] = b[4 + 2 + 1]
      /\ b2[8] = b[8] /\ b2[8 + 1] = b[8 + 1] /\ b2[8 + 2] = b[8 + 2] /\ b2[8 + 2 + 1] = b[8 + 2 + 1]
  OBVIOUS
<1> QED BY <1>1, SMT DEF FixedSay, SameFixed, Read32, Read16

(* The sources lie behind them. *)
LEMMA SourcesStay ==
  ASSUME NEW b, NEW p, p.count \in 0..15, SourcesSay(b, p), NEW b2, NEW p2, p2.count = p.count,
         \A i \in 12..(12 + 4 * p.count - 1) : b2[i] = b[i]
  PROVE  SourcesSay(b2, p2)
<1> SUFFICES ASSUME NEW i \in 1..p.count
             PROVE  Read32(b2, kFixedRTPSize + kCsrcIdsize * (i - 1)) = CsrcIds[i]
  BY DEF SourcesSay
<1> DEFINE at == kFixedRTPSize + kCsrcIdsize * (i - 1)
<1>1. /\ at \in 12..(12 + 4 * p.count - 1) /\ at + 1 \in 12..(12 + 4 * p.count - 1)
      /\ at + 2 \in 12..(12 + 4 * p.count - 1) /\ at + 2 + 1 \in 12..(12 + 4 * p.count - 1)
  BY DEF kFixedRTPSize, kCsrcIdsize
<1>2. Read32(b, at) = CsrcIds[i]
  BY DEF SourcesSay
<1> HIDE DEF at
<1>3. b2[at] = b[at] /\ b2[at + 1] = b[at + 1] /\ b2[at + 2] = b[at + 2]
      /\ b2[at + 2 + 1] = b[at + 2 + 1]
  BY <1>1
<1>4. Read32(b2, at) = Read32(b, at)
  BY <1>3, SMT DEF Read32, Read16
<1> QED BY <1>2, <1>4 DEF at

SameHeader(p2, p) == p2.extended = p.extended /\ p2.id = p.id /\ p2.length = p.length

(* The header of the extension may move with its offset. *)
LEMMA HeaderStays ==
  ASSUME NEW b, NEW p, HeaderSays(b, p), p.extension_offset \in Nat,
         NEW b2, NEW p2, SameHeader(p2, p), p2.extension_offset \in Nat,
         p.extended => \A k \in 0..3 : b2[p2.extension_offset + k] = b[p.extension_offset + k]
  PROVE  HeaderSays(b2, p2)
<1> SUFFICES ASSUME p.extended
             PROVE  /\ Read16(b2, p2.extension_offset) = p.id
                    /\ Read16(b2, p2.extension_offset + 2) = p.length
                    /\ b2[p2.extension_offset + 2] \in Nat
  BY Zenon DEF HeaderSays, SameHeader
<1> DEFINE e == p.extension_offset
           f == p2.extension_offset
<1>1. /\ b2[f + 0] = b[e + 0] /\ b2[f + 1] = b[e + 1] /\ b2[f + 2] = b[e + 2] /\ b2[f + 3] = b[e + 3]
  OBVIOUS
<1>2. e \in Nat /\ f \in Nat
  OBVIOUS
<1>3. Read16(b, e) = p.id /\ Read16(b, e + 2) = p.length /\ b[e + 2] \in Nat
  BY Zenon DEF HeaderSays
<1> HIDE DEF e, f
<1>4. f + 0 = f /\ e + 0 = e /\ f + 3 = f + 2 + 1 /\ e + 3 = e + 2 + 1
  BY <1>2
<1>5. Read16(b2, f) = Read16(b, e) /\ Read16(b2, f + 2) = Read16(b, e + 2)
  BY <1>1, <1>4, SMT DEF Read16
<1> QED BY <1>1, <1>3, <1>5, Zenon DEF f

(* So may the payload. *)
LEMMA PayloadStays ==
  ASSUME NEW b, NEW p, NEW a, PayloadSays(b, p, a),
         p.payload_size \in Nat,
         NEW b2, NEW p2, NEW a2, a2.written => a.written, p2.payload_size = p.payload_size,
         \A k \in 0..(p.payload_size - 1) : b2[p2.payload_offset + k] = b[p.payload_offset + k]
  PROVE  PayloadSays(b2, p2, a2)
<1> SUFFICES ASSUME a2.written, NEW i \in 1..p.payload_size
             PROVE  b2[p2.payload_offset + (i - 1)] = Payload[i]
  BY Zenon DEF PayloadSays
<1>1. i - 1 \in 0..(p.payload_size - 1)
  OBVIOUS
<1>2. b[p.payload_offset + (i - 1)] = Payload[i]
  BY Zenon DEF PayloadSays
<1> QED BY <1>1, <1>2, Zenon

(* And the octet that counts the padding. *)
LEMMA PaddingStays ==
  ASSUME NEW b, NEW p, PaddingSays(b, p), NEW b2, NEW p2, p2.padding = p.padding,
         p.padding > 0 => b2[p2.packet_size - 1] = b[p.packet_size - 1]
  PROVE  PaddingSays(b2, p2)
BY Zenon DEF PaddingSays

(* What lies below the octet numbered top lies where it lay. *)
LEMMA PartsBelow ==
  ASSUME NEW p, Sized(p), NEW top \in Int, p.payload_offset <= top, NEW b, NEW b2,
         \A i \in 1..(top - 1) : b2[i] = b[i]
  PROVE  /\ \A i \in 1..11 : b2[i] = b[i]
         /\ \A i \in 12..(12 + 4 * p.count - 1) : b2[i] = b[i]
         /\ p.extended => \A k \in 0..3 : b2[p.extension_offset + k] = b[p.extension_offset + k]
         /\ p.payload_offset + p.payload_size <= top =>
              \A k \in 0..(p.payload_size - 1) : b2[p.payload_offset + k] = b[p.payload_offset + k]
<1>1. /\ p.count \in 0..15 /\ p.payload_size \in Nat /\ p.payload_offset \in Nat
      /\ p.payload_offset >= 12 + 4 * p.count
      /\ p.extension_offset = 12 + 4 * p.count
      /\ p.extended => p.payload_offset >= p.extension_offset + 4
  BY OffsetsFit, RoomFits
<1> DEFINE count == p.count
           size == p.payload_size
           po == p.payload_offset
           eo == p.extension_offset
<1>2. /\ count \in 0..15 /\ size \in Nat /\ po \in Nat /\ po >= 12 + 4 * count /\ po <= top
      /\ eo = 12 + 4 * count
      /\ p.extended => po >= eo + 4
  BY <1>1
<1> HIDE DEF count, size, po, eo
<1>3. \A i \in 1..11 : i \in 1..(top - 1)
  BY <1>2
<1>4. \A i \in 12..(12 + 4 * count - 1) : i \in 1..(top - 1)
  BY <1>2
<1>5. p.extended => \A k \in 0..3 : eo + k \in 1..(top - 1)
  BY <1>2
<1>6. po + size <= top => \A k \in 0..(size - 1) : po + k \in 1..(top - 1)
  BY <1>2
<1> QED BY <1>3, <1>4, <1>5, <1>6, Zenon DEF count, size, po, eo

SameOffsets(p2, p) == /\ p2.count = p.count
                      /\ p2.extension_offset = p.extension_offset
                      /\ p2.payload_offset = p.payload_offset

(* So what they say stays. *)
LEMMA PartsStay ==
  ASSUME NEW p, Sized(p), NEW top \in Int, p.payload_offset <= top, NEW b, NEW b2,
         \A i \in 1..(top - 1) : b2[i] = b[i],
         NEW a, FixedSay(b, a), SourcesSay(b, p), NEW a2, SameFixed(a2, a),
         NEW p2, SameOffsets(p2, p)
  PROVE  /\ FixedSay(b2, a2)
         /\ SourcesSay(b2, p2)
         /\ HeaderSays(b, p) /\ SameHeader(p2, p) => HeaderSays(b2, p2)
         /\ /\ PayloadSays(b, p, a) /\ p.payload_offset + p.payload_size <= top
            /\ p2.payload_size = p.payload_size /\ (a2.written => a.written)
            => PayloadSays(b2, p2, a2)
<1>1. /\ \A i \in 1..11 : b2[i] = b[i]
      /\ \A i \in 12..(12 + 4 * p.count - 1) : b2[i] = b[i]
      /\ p.extended => \A k \in 0..3 : b2[p.extension_offset + k] = b[p.extension_offset + k]
      /\ p.payload_offset + p.payload_size <= top =>
           \A k \in 0..(p.payload_size - 1) : b2[p.payload_offset + k] = b[p.payload_offset + k]
  BY PartsBelow, SMT
<1>2. p.count \in 0..15 /\ p.extension_offset \in Nat /\ p.payload_size \in Nat
  BY OffsetsAreNumbers, Zenon
<1>3. FixedSay(b2, a2)
  BY <1>1, FixedStay, SMT
<1>4. SourcesSay(b2, p2)
  BY <1>1, <1>2, SourcesStay, SMT DEF SameOffsets
<1>5. HeaderSays(b, p) /\ SameHeader(p2, p) => HeaderSays(b2, p2)
  BY <1>1, <1>2, HeaderStays, SMT DEF SameOffsets
<1>6. ASSUME PayloadSays(b, p, a), p.payload_offset + p.payload_size <= top,
             p2.payload_size = p.payload_size, a2.written => a.written
      PROVE  PayloadSays(b2, p2, a2)
  <2>1. \A k \in 0..(p.payload_size - 1) : b2[p2.payload_offset + k] = b[p.payload_offset + k]
    BY <1>1, <1>6, SMT DEF SameOffsets
  <2> QED BY <1>2, <1>6, <2>1, PayloadStays, SMT
<1> QED BY <1>3, <1>4, <1>5, <1>6, Zenon

-----------------------------------------------------------------------------
(* Setters: each lays out the packet again. *)

LEMMA PadOctets ==
  ASSUME NEW b, IsBuffer(b), NEW size \in 13..Room, NEW n, NEW flag,
         NEW c, c = PutOne(b, size - 1, n),
         NEW d, d = Flag(c, Padded, flag),
         NEW b2, b2 = Trim(d, size)
  PROVE  /\ IsBuffer(b2)
         /\ b2[0] = With(b[0], Padded, flag)
         /\ \A i \in 1..(size - 2) : b2[i] = b[i]
         /\ b2[size - 1] = n
<1>1. size - 1 \in Bytes /\ 0 \in Bytes /\ size \in Int
      /\ (\A i \in 1..(size - 2) : i \in Bytes /\ i # size - 1 /\ i # 0 /\ i < size)
      /\ size - 1 # 0 /\ size - 1 < size /\ 0 < size
  BY RoomFits, SMT DEF Bytes, Number16
<1>2. /\ IsBuffer(c)
      /\ c[size - 1] = n
      /\ \A i \in Bytes : i # size - 1 => c[i] = b[i]
  BY <1>1, PutOneAt, SMT
<1>3. /\ IsBuffer(d)
      /\ \A i \in Bytes : i # 0 => d[i] = c[i]
      /\ d[0] = With(c[0], Padded, flag)
  BY <1>2, FlagAt, SMT
<1>4. /\ IsBuffer(b2)
      /\ \A i \in Bytes : i < size => b2[i] = d[i]
  BY <1>1, <1>3, TrimAt, SMT
<1> QED BY <1>1, <1>2, <1>3, <1>4, Zenon

(* The size it computes. *)
LEMMA PadSizes ==
  ASSUME NEW p, Sized(p), NEW n \in 1..MaxPadding, NEW size, size = p.packet_size - p.padding + n
  PROVE  /\ n \in 0..MaxPadding
         /\ size = p.payload_offset + p.payload_size + n
         /\ size \in 13..Room
         /\ p.payload_offset + p.payload_size <= size - 1
<1>1. /\ p.count \in 0..MaxCsrc /\ p.length \in 0..MaxWords /\ p.payload_size \in 0..MaxPayload
      /\ p.padding \in 0..MaxPadding
      /\ ext_size(p) \in Nat
      /\ ext_size(p) = 0 \/ ext_size(p) = 4 + 4 * p.length
      /\ p.payload_offset = 12 + 4 * p.count + ext_size(p)
      /\ p.packet_size = p.payload_offset + p.payload_size + p.padding
  BY OffsetsFit
<1>2. n \in 0..MaxPadding
  BY RoomFits
<1>3. 12 + 4 * p.count + ext_size(p) + p.payload_size + n \in 12..Room
  BY <1>1, <1>2, PartsFit, SMT
<1> QED BY <1>1, <1>2, <1>3, RoomFits, SMT DEF Number16

(* The step of SetPadding, for n > 0. *)
PadStep(n, b, p, a, b2, p2, a2) ==
  LET size == p.packet_size - p.padding + n
  IN /\ p2 = [p EXCEPT !.packet_size = size, !.padding = n]
     /\ b2 = Trim(Flag(Put(b, size - 1, <<n>>), Padded, TRUE), size)
     /\ a2 = [a EXCEPT !.padding = n]

LEMMA PadKeeps ==
  ASSUME NEW b, NEW p, NEW a, LaidOut(b, p, a), NEW n \in 1..MaxPadding,
         NEW b2, NEW p2, NEW a2, PadStep(n, b, p, a, b2, p2, a2)
  PROVE  LaidOut(b2, p2, a2)
<1> DEFINE size == p.packet_size - p.padding + n
<1>1. Sized(p) /\ AskedFor(p, a) /\ Octets(b, p, a)
  BY DEF LaidOut
<1>2. /\ n \in 0..MaxPadding
      /\ size = p.payload_offset + p.payload_size + n
      /\ size \in 13..Room
      /\ p.payload_offset + p.payload_size <= size - 1
  BY <1>1, PadSizes, Zenon
<1>3. /\ p2.packet_size = size /\ p2.padding = n /\ p2.payload_size = p.payload_size
      /\ SameOffsets(p2, p) /\ SameHeader(p2, p)
      /\ p2 \in Pkt
  <2> HIDE DEF size
  <2>1. size \in 0..Room
    BY <1>2, RoomFits, SMT DEF Number16
  <2>2. p2 = [p EXCEPT !.packet_size = size, !.padding = n]
    BY Zenon DEF PadStep, size
  <2> QED BY <1>1, <1>2, <2>1, <2>2 DEF Sized, Pkt, SameOffsets, SameHeader
<1>4. /\ IsBuffer(b2)
      /\ b2[0] = With(b[0], Padded, TRUE)
      /\ \A i \in 1..(size - 2) : b2[i] = b[i]
      /\ b2[size - 1] = n
  <2>1. PICK flag : flag = TRUE
    OBVIOUS
  <2>2. PICK c : c = PutOne(b, size - 1, n)
    OBVIOUS
  <2>3. PICK d : d = Flag(c, Padded, flag)
    OBVIOUS
  <2>4. b2 = Trim(d, size)
    BY <2>1, <2>2, <2>3, Zenon DEF PadStep, PutOne
  <2>5. IsBuffer(b)
    BY <1>1 DEF Octets
  <2> HIDE DEF size
  <2>6. /\ IsBuffer(b2)
        /\ b2[0] = With(b[0], Padded, flag)
        /\ \A i \in 1..(size - 2) : b2[i] = b[i]
        /\ b2[size - 1] = n
    BY <1>2, <2>2, <2>3, <2>4, <2>5, PadOctets, SMT
  <2> QED BY <2>1, <2>6, Zenon
<1>5. AskedFor(p2, a2) /\ SameFixed(a2, a) /\ a2.written = a.written
  <2>1. a2 = [a EXCEPT !.padding = n]
    BY DEF PadStep
  <2> QED BY <1>1, <1>3, <2>1 DEF AskedFor, AskedParts, SameFixed, SameOffsets, SameHeader
<1> HIDE DEF size
<1>6. Sized(p2)
  BY <1>1, <1>2, <1>3, Zenon DEF Sized, ext_size, SameOffsets, SameHeader
<1>7. FlagsSay(b2, p2)
  <2>1. p.count \in 0..15 /\ p.extended \in BOOLEAN
    BY <1>1, OffsetsAreNumbers, Zenon
  <2>2. FlagsSay(b, p) /\ p.padding \in Nat /\ p2.padding \in Nat
    BY <1>1, <1>3, OffsetsAreNumbers DEF Octets
  <2>3. p2.padding > 0 /\ p2.count = p.count /\ p2.extended = p.extended
    BY <1>3 DEF SameOffsets, SameHeader
  <2> QED BY <1>4, <2>1, <2>2, <2>3, PaddedFlag
<1>8. /\ FixedSay(b2, a2) /\ SourcesSay(b2, p2) /\ HeaderSays(b2, p2) /\ PayloadSays(b2, p2, a2)
  <2>1. /\ size - 1 \in Int /\ p.payload_offset <= size - 1
        /\ \A i \in 1..(size - 1 - 1) : b2[i] = b[i]
    BY <1>1, <1>2, <1>4, OffsetsFit, RoomFits
  <2>2. FixedSay(b, a) /\ SourcesSay(b, p) /\ HeaderSays(b, p) /\ PayloadSays(b, p, a)
    BY <1>1 DEF Octets
  <2> QED BY <1>1, <1>2, <1>3, <1>5, <2>1, <2>2, PartsStay, SMT
<1>9. PaddingSays(b2, p2)
  BY <1>3, <1>4 DEF PaddingSays
<1> QED BY <1>4, <1>5, <1>6, <1>7, <1>8, <1>9 DEF LaidOut, Octets

(* The step of SetPadding(0) of a packet without padding. *)
UnpadStep(b, p, a, b2, p2, a2) ==
  /\ p2 = p
  /\ b2 = Flag(b, Padded, FALSE)
  /\ a2 = [a EXCEPT !.padding = 0]

(* A flag leaves every octet but the first alone. *)
LEMMA FlagOctets ==
  ASSUME NEW b, IsBuffer(b), NEW bit, NEW flag, NEW b2, b2 = Flag(b, bit, flag)
  PROVE  /\ IsBuffer(b2)
         /\ b2[0] = With(b[0], bit, flag)
         /\ \A i \in 1..(Room - 1) : b2[i] = b[i]
<1>1. /\ IsBuffer(b2)
      /\ \A i \in Bytes : i # 0 => b2[i] = b[i]
      /\ b2[0] = With(b[0], bit, flag)
  BY FlagAt, SMT
<1>2. \A i \in 1..(Room - 1) : i \in Bytes /\ i # 0
  BY RoomFits, SMT DEF Bytes, Number16
<1> QED BY <1>1, <1>2, Zenon

LEMMA UnpadKeeps ==
  ASSUME NEW b, NEW p, NEW a, LaidOut(b, p, a), p.padding = 0,
         NEW b2, NEW p2, NEW a2, UnpadStep(b, p, a, b2, p2, a2)
  PROVE  LaidOut(b2, p2, a2)
<1>1. Sized(p) /\ AskedFor(p, a) /\ Octets(b, p, a)
  BY DEF LaidOut
<1>2. p2 = p
  BY DEF UnpadStep
<1>3. /\ IsBuffer(b2)
      /\ b2[0] = With(b[0], Padded, FALSE)
      /\ \A i \in 1..(Room - 1) : b2[i] = b[i]
  <2>1. PICK flag : flag = FALSE
    OBVIOUS
  <2>2. b2 = Flag(b, Padded, flag)
    BY <2>1, Zenon DEF UnpadStep
  <2>3. IsBuffer(b)
    BY <1>1 DEF Octets
  <2>4. /\ IsBuffer(b2)
        /\ b2[0] = With(b[0], Padded, flag)
        /\ \A i \in 1..(Room - 1) : b2[i] = b[i]
    BY <2>2, <2>3, FlagOctets, SMT
  <2> QED BY <2>1, <2>4, Zenon
<1>4. AskedFor(p2, a2) /\ SameFixed(a2, a) /\ a2.written = a.written
  <2>1. a2 = [a EXCEPT !.padding = 0]
    BY DEF UnpadStep
  <2> QED BY <1>1, <1>2, <2>1 DEF AskedFor, AskedParts, SameFixed
<1>5. FlagsSay(b2, p2)
  <2>1. FlagsSay(b, p) /\ p.count \in 0..15 /\ p.extended \in BOOLEAN /\ p.padding \in Nat
    BY <1>1, OffsetsAreNumbers DEF Octets
  <2>2. /\ p2.count = p.count /\ p2.extended = p.extended
        /\ p2.padding \in Nat /\ ~(p2.padding > 0)
    BY <1>2
  <2> QED BY <1>3, <2>1, <2>2, PaddedFlag
<1>6. /\ FixedSay(b2, a2) /\ SourcesSay(b2, p2) /\ HeaderSays(b2, p2) /\ PayloadSays(b2, p2, a2)
  <2>1. Room \in Int /\ p.payload_offset <= Room /\ p.payload_offset + p.payload_size <= Room
    BY <1>1, OffsetsFit, RoomFits, SMT DEF Number16
  <2>2. FixedSay(b, a) /\ SourcesSay(b, p) /\ HeaderSays(b, p) /\ PayloadSays(b, p, a)
    BY <1>1 DEF Octets
  <2>3. SameOffsets(p2, p) /\ SameHeader(p2, p) /\ p2.payload_size = p.payload_size
    BY <1>2 DEF SameOffsets, SameHeader
  <2> QED BY <1>1, <1>3, <1>4, <2>1, <2>2, <2>3, PartsStay, SMT
<1>7. PaddingSays(b2, p2)
  BY <1>2 DEF PaddingSays
<1> QED BY <1>1, <1>2, <1>3, <1>4, <1>5, <1>6, <1>7 DEF LaidOut, Octets

(* The step of RemoveExtension of a packet without an extension. *)
UnextendStep(b, p, a, b2, p2, a2) ==
  /\ p2 = [p EXCEPT !.extended = FALSE, !.id = 0, !.length = 0]
  /\ b2 = Flag(b, Extended, FALSE)
  /\ a2 = [a EXCEPT !.extension = <<>>]

LEMMA UnextendKeeps ==
  ASSUME NEW b, NEW p, NEW a, LaidOut(b, p, a), ~p.extended,
         NEW b2, NEW p2, NEW a2, UnextendStep(b, p, a, b2, p2, a2)
  PROVE  LaidOut(b2, p2, a2)
<1>1. Sized(p) /\ AskedFor(p, a) /\ Octets(b, p, a)
  BY DEF LaidOut
<1>2. /\ p2.extended = FALSE /\ SameOffsets(p2, p)
      /\ p2.payload_size = p.payload_size /\ p2.packet_size = p.packet_size
      /\ p2.padding = p.padding
      /\ p2 \in Pkt
  <2>1. p2 = [p EXCEPT !.extended = FALSE, !.id = 0, !.length = 0]
    BY DEF UnextendStep
  <2>2. 0 \in Number16 /\ 0 \in 0..MaxWords
    BY RoomFits, SMT DEF Number16
  <2> QED BY <1>1, <2>1, <2>2 DEF Sized, Pkt, SameOffsets
<1>3. /\ IsBuffer(b2)
      /\ b2[0] = With(b[0], Extended, FALSE)
      /\ \A i \in 1..(Room - 1) : b2[i] = b[i]
  <2>1. PICK flag : flag = FALSE
    OBVIOUS
  <2>2. b2 = Flag(b, Extended, flag)
    BY <2>1, Zenon DEF UnextendStep
  <2>3. IsBuffer(b)
    BY <1>1 DEF Octets
  <2>4. /\ IsBuffer(b2)
        /\ b2[0] = With(b[0], Extended, flag)
        /\ \A i \in 1..(Room - 1) : b2[i] = b[i]
    BY <2>2, <2>3, FlagOctets, SMT
  <2> QED BY <2>1, <2>4, Zenon
<1>4. AskedFor(p2, a2) /\ SameFixed(a2, a) /\ a2.written = a.written
  <2>1. a2 = [a EXCEPT !.extension = <<>>]
    BY DEF UnextendStep
  <2> QED BY <1>1, <1>2, <2>1 DEF AskedFor, AskedParts, SameFixed, SameOffsets
<1>5. Sized(p2)
  BY <1>1, <1>2, Zenon DEF Sized, ext_size, SameOffsets
<1>6. FlagsSay(b2, p2)
  <2>1. FlagsSay(b, p) /\ p.count \in 0..15 /\ p.extended \in BOOLEAN /\ p.padding \in Nat
    BY <1>1, OffsetsAreNumbers DEF Octets
  <2>2. p2.count = p.count /\ p2.extended \in BOOLEAN /\ ~p2.extended
    BY <1>2 DEF SameOffsets
  <2> QED BY <1>2, <1>3, <2>1, <2>2, ExtendedFlag
<1>7. /\ FixedSay(b2, a2) /\ SourcesSay(b2, p2) /\ PayloadSays(b2, p2, a2)
  <2>1. Room \in Int /\ p.payload_offset <= Room /\ p.payload_offset + p.payload_size <= Room
    BY <1>1, OffsetsFit, RoomFits, SMT DEF Number16
  <2>2. FixedSay(b, a) /\ SourcesSay(b, p) /\ PayloadSays(b, p, a)
    BY <1>1 DEF Octets
  <2> QED BY <1>1, <1>2, <1>3, <1>4, <2>1, <2>2, PartsStay, SMT
<1>8. HeaderSays(b2, p2)
  BY <1>2 DEF HeaderSays
<1>9. PaddingSays(b2, p2)
  <2>1. PaddingSays(b, p)
    BY <1>1 DEF Octets
  <2>2. p.padding > 0 => p.packet_size - 1 \in 1..(Room - 1)
    BY <1>1, OffsetsFit, RoomFits, SMT DEF Number16
  <2>3. p.padding > 0 => b2[p.packet_size - 1] = b[p.packet_size - 1]
    BY <1>3, <2>2
  <2> QED BY <1>2, <2>1, <2>3, PaddingStays
<1> QED BY <1>3, <1>4, <1>5, <1>6, <1>7, <1>8, <1>9 DEF LaidOut, Octets

(* The step of SetPayloadSize, unless payload and padding are both empty. *)
ResizeStep(n, b, p, a, b2, p2, a2) ==
  LET size == p.payload_offset + n + p.padding
  IN /\ b2 = Trim(Put(b, size - 1, <<p.padding>>), size)
     /\ p2 = [p EXCEPT !.payload_size = n, !.packet_size = Narrow(size)]
     /\ a2 = [a EXCEPT !.size = n, !.written = FALSE]

(* The size set_payload_size computes. *)
LEMMA ResizeSizes ==
  ASSUME NEW p, Sized(p), NEW n \in 0..MaxPayload, NEW size, size = p.payload_offset + n + p.padding,
         n + p.padding > 0
  PROVE  /\ size \in 13..Room
         /\ Narrow(size) = size
         /\ size - 1 \in Int /\ p.payload_offset <= size - 1
<1>1. /\ p.count \in 0..MaxCsrc /\ p.length \in 0..MaxWords
      /\ p.padding \in 0..MaxPadding
      /\ ext_size(p) \in Nat
      /\ ext_size(p) = 0 \/ ext_size(p) = 4 + 4 * p.length
      /\ p.payload_offset = 12 + 4 * p.count + ext_size(p)
  BY OffsetsFit
<1>2. 12 + 4 * p.count + ext_size(p) + n + p.padding \in 12..Room
  BY <1>1, PartsFit, SMT
<1>3. size \in 13..Room /\ p.payload_offset <= size - 1 /\ size - 1 \in Int
  BY <1>1, <1>2, RoomFits, SMT DEF Number16
<1>4. size \in 0..Room
  BY <1>3, RoomFits, SMT DEF Number16
<1> QED BY <1>3, <1>4, NarrowKeeps, Zenon

(* The octets it writes. *)
LEMMA ResizeOctets ==
  ASSUME NEW b, IsBuffer(b), NEW size \in 13..Room, NEW o,
         NEW c, c = PutOne(b, size - 1, o),
         NEW b2, b2 = Trim(c, size)
  PROVE  /\ IsBuffer(b2)
         /\ b2[0] = b[0]
         /\ \A i \in 1..(size - 2) : b2[i] = b[i]
         /\ b2[size - 1] = o
<1>1. size - 1 \in Bytes /\ 0 \in Bytes /\ size \in Int
      /\ (\A i \in 1..(size - 2) : i \in Bytes /\ i # size - 1 /\ i < size)
      /\ size - 1 # 0 /\ size - 1 < size /\ 0 < size
  BY RoomFits, SMT DEF Bytes, Number16
<1>2. /\ IsBuffer(c)
      /\ c[size - 1] = o
      /\ \A i \in Bytes : i # size - 1 => c[i] = b[i]
  BY <1>1, PutOneAt, SMT
<1>3. /\ IsBuffer(b2)
      /\ \A i \in Bytes : i < size => b2[i] = c[i]
  BY <1>1, <1>2, TrimAt, SMT
<1> QED BY <1>1, <1>2, <1>3, Zenon

(* It lays out the packet again, the payload to be written. *)
LEMMA ResizeKeeps ==
  ASSUME NEW b, NEW p, NEW a, LaidOut(b, p, a), NEW n \in 0..MaxPayload, n + p.padding > 0,
         NEW b2, NEW p2, NEW a2, ResizeStep(n, b, p, a, b2, p2, a2)
  PROVE  LaidOut(b2, p2, a2)
<1> DEFINE size == p.payload_offset + n + p.padding
<1>1. Sized(p) /\ AskedFor(p, a) /\ Octets(b, p, a)
  BY DEF LaidOut
<1>2. /\ size \in 13..Room
      /\ Narrow(size) = size
      /\ size - 1 \in Int /\ p.payload_offset <= size - 1
  BY <1>1, ResizeSizes, Zenon
<1>3. /\ p2.packet_size = size /\ p2.payload_size = n /\ p2.padding = p.padding
      /\ SameOffsets(p2, p) /\ SameHeader(p2, p)
      /\ p2 \in Pkt
  <2> HIDE DEF size
  <2>1. size \in 0..Room
    BY <1>2, RoomFits, SMT DEF Number16
  <2>2. p2 = [p EXCEPT !.payload_size = n, !.packet_size = size]
    BY <1>2, Zenon DEF ResizeStep, size
  <2> QED BY <1>1, <2>1, <2>2 DEF Sized, Pkt, SameOffsets, SameHeader
<1>4. /\ IsBuffer(b2)
      /\ b2[0] = b[0]
      /\ \A i \in 1..(size - 2) : b2[i] = b[i]
      /\ b2[size - 1] = p.padding
  <2>1. PICK c : c = PutOne(b, size - 1, p.padding)
    OBVIOUS
  <2>2. b2 = Trim(c, size)
    BY <2>1, Zenon DEF ResizeStep, PutOne
  <2>3. IsBuffer(b)
    BY <1>1 DEF Octets
  <2> HIDE DEF size
  <2> QED BY <1>2, <2>1, <2>2, <2>3, ResizeOctets, SMT
<1>5. AskedFor(p2, a2) /\ SameFixed(a2, a) /\ a2.written = FALSE
  <2>1. a2 = [a EXCEPT !.size = n, !.written = FALSE]
    BY DEF ResizeStep
  <2> QED BY <1>1, <1>3, <2>1 DEF AskedFor, AskedParts, SameFixed, SameOffsets, SameHeader
<1>6. Sized(p2)
  BY <1>1, <1>3, Zenon DEF Sized, ext_size, SameOffsets, SameHeader
<1> HIDE DEF size
<1>7. FlagsSay(b2, p2)
  <2>1. FlagsSay(b, p)
    BY <1>1 DEF Octets
  <2> QED BY <1>3, <1>4, <2>1, Zenon DEF FlagsSay, SameOffsets, SameHeader
<1>8. /\ FixedSay(b2, a2) /\ SourcesSay(b2, p2) /\ HeaderSays(b2, p2)
  <2>1. \A i \in 1..(size - 1 - 1) : b2[i] = b[i]
    BY <1>2, <1>4
  <2>2. FixedSay(b, a) /\ SourcesSay(b, p) /\ HeaderSays(b, p)
    BY <1>1 DEF Octets
  <2> QED BY <1>1, <1>2, <1>3, <1>5, <2>1, <2>2, PartsStay, SMT
<1>9. PayloadSays(b2, p2, a2) /\ PaddingSays(b2, p2)
  BY <1>3, <1>4, <1>5 DEF PayloadSays, PaddingSays
<1> QED BY <1>4, <1>5, <1>6, <1>7, <1>8, <1>9 DEF LaidOut, Octets

(* The step of WritePayload. *)
WriteStep(b, p, a, b2, p2, a2) ==
  /\ b2 = Put(b, p.payload_offset, [i \in 1..p.payload_size |-> Payload[i]])
  /\ p2 = p
  /\ a2 = [a EXCEPT !.written = TRUE]

LEMMA WriteKeeps ==
  ASSUME NEW b, NEW p, NEW a, LaidOut(b, p, a),
         NEW b2, NEW p2, NEW a2, WriteStep(b, p, a, b2, p2, a2)
  PROVE  LaidOut(b2, p2, a2)
<1>1. Sized(p) /\ AskedFor(p, a) /\ Octets(b, p, a)
  BY DEF LaidOut
<1>2. p2 = p
  BY DEF WriteStep
<1> DEFINE at == p.payload_offset
           n == p.payload_size
           list == [i \in 1..n |-> Payload[i]]
<1>3. /\ at \in Int /\ n \in Nat /\ 12 <= at /\ at + n <= p.packet_size /\ p.packet_size <= Room
      /\ p.padding > 0 => at + n <= p.packet_size - 1
      /\ p.packet_size \in Nat
  BY <1>1, OffsetsFit, RoomFits, SMT DEF Number16
<1>4. Len(list) = n /\ \A k \in 1..n : list[k] = Payload[k]
  BY <1>3
<1>5. b2 = Put(b, at, list)
  BY DEF WriteStep
<1> HIDE DEF at, n, list
<1>6. /\ IsBuffer(b2)
      /\ \A i \in Bytes : i < at \/ at + n <= i => b2[i] = b[i]
      /\ \A k \in 1..n : at + (k - 1) \in Bytes => b2[at + (k - 1)] = list[k]
  <2>1. IsBuffer(b)
    BY <1>1 DEF Octets
  <2> QED BY <1>3, <1>4, <1>5, <2>1, PutAt, SMT
<1>7. /\ 0 \in Bytes /\ 0 < at
      /\ \A i \in 1..(at - 1) : i \in Bytes /\ i < at
      /\ \A k \in 1..n : at + (k - 1) \in Bytes
      /\ p.padding > 0 => p.packet_size - 1 \in Bytes /\ at + n <= p.packet_size - 1
  BY <1>3, RoomFits, SMT DEF Bytes, Number16
<1>8. /\ b2[0] = b[0]
      /\ \A i \in 1..(at - 1) : b2[i] = b[i]
      /\ p.padding > 0 => b2[p.packet_size - 1] = b[p.packet_size - 1]
  BY <1>6, <1>7, Zenon
<1>9. PayloadSays(b2, p2, a2)
  <2>1. \A k \in 1..n : b2[at + (k - 1)] = Payload[k]
    BY <1>4, <1>6, <1>7, Zenon
  <2> QED BY <1>2, <2>1, Zenon DEF PayloadSays, at, n
<1>10. AskedFor(p2, a2) /\ SameFixed(a2, a)
  <2>1. a2 = [a EXCEPT !.written = TRUE]
    BY DEF WriteStep
  <2> QED BY <1>1, <1>2, <2>1 DEF AskedFor, AskedParts, SameFixed
<1>11. FlagsSay(b2, p2) /\ PaddingSays(b2, p2)
  <2>1. FlagsSay(b, p) /\ PaddingSays(b, p)
    BY <1>1 DEF Octets
  <2> QED BY <1>2, <1>8, <2>1, Zenon DEF FlagsSay, PaddingSays
<1>12. /\ FixedSay(b2, a2) /\ SourcesSay(b2, p2) /\ HeaderSays(b2, p2)
  <2>1. FixedSay(b, a) /\ SourcesSay(b, p) /\ HeaderSays(b, p)
    BY <1>1 DEF Octets
  <2>2. SameOffsets(p2, p) /\ SameHeader(p2, p)
    BY <1>2 DEF SameOffsets, SameHeader
  <2>3. p.payload_offset <= at
    BY <1>3 DEF at
  <2> QED BY <1>1, <1>3, <1>8, <1>10, <2>1, <2>2, <2>3, PartsStay, SMT
<1> QED BY <1>1, <1>2, <1>6, <1>9, <1>10, <1>11, <1>12 DEF LaidOut, Octets

(* The step of SetExtension. *)
ExtendStep(id, length, b, p, a, b2, p2, a2) ==
  LET to     == p.extension_offset + size_bytes(length)
      amount == p.payload_size + p.padding
      moved  == Move(b, to, p.payload_offset, amount)
      header == Big16(id) \o Big16(length)
  IN /\ b2 = Trim(Flag(Put(moved, p.extension_offset, header), Extended, TRUE), to + amount)
     /\ p2 = [p EXCEPT !.extended = TRUE, !.id = id, !.length = length,
                       !.payload_offset = Narrow(to), !.packet_size = Narrow(to + amount)]
     /\ a2 = [a EXCEPT !.extension = <<id, length>>]

(* Two numbers put at e are read from there. *)
LEMMA PutNumbersAt ==
  ASSUME NEW c, IsBuffer(c), NEW e \in Int, 12 <= e, e + 4 <= Room,
         NEW u, NEW v, NEW z, Spell(z, u, v), NEW d, d = Put(c, e, z)
  PROVE  /\ IsBuffer(d)
         /\ \A i \in Bytes : i < e \/ e + 4 <= i => d[i] = c[i]
         /\ Read16(d, e) = u /\ Read16(d, e + 2) = v /\ d[e + 2] \in Nat
<1>1. \A k \in 1..4 : e + (k - 1) \in Bytes
  BY RoomFits, SMT DEF Bytes, Number16
<1>2. PICK n \in Nat : n = 4
  OBVIOUS
<1>3. /\ IsBuffer(d)
      /\ \A i \in Bytes : i < e \/ e + 4 <= i => d[i] = c[i]
      /\ \A k \in 1..4 : e + (k - 1) \in Bytes => d[e + (k - 1)] = z[k]
  <2>1. Len(z) = n
    BY <1>2 DEF Spell
  <2>2. /\ IsBuffer(d)
        /\ \A i \in Bytes : i < e \/ e + n <= i => d[i] = c[i]
        /\ \A k \in 1..n : e + (k - 1) \in Bytes => d[e + (k - 1)] = z[k]
    BY <2>1, PutAt, SMT
  <2> QED BY <1>2, <2>2, Zenon
<1>4. /\ d[e + (1 - 1)] = z[1] /\ d[e + (2 - 1)] = z[2]
      /\ d[e + (3 - 1)] = z[3] /\ d[e + (4 - 1)] = z[4]
  <2>1. 1 \in 1..4 /\ 2 \in 1..4 /\ 3 \in 1..4 /\ 4 \in 1..4
    OBVIOUS
  <2> QED BY <1>1, <1>3, <2>1, Zenon
<1>5. /\ e + (1 - 1) = e /\ e + (2 - 1) = e + 1
      /\ e + (3 - 1) = e + 2 /\ e + (4 - 1) = e + 2 + 1
  OBVIOUS
<1>6. /\ d[e] = z[1] /\ d[e + 1] = z[2] /\ d[e + 2] = z[3] /\ d[e + 2 + 1] = z[4]
  BY <1>4, <1>5, Zenon
<1>7. Read16(d, e) = u /\ Read16(d, e + 2) = v /\ d[e + 2] \in Nat
  BY <1>6, SMT DEF Read16, Spell
<1> QED BY <1>3, <1>7, Zenon

(* A flag set and the end trimmed. *)
LEMMA FlagTrimAt ==
  ASSUME NEW d, IsBuffer(d), NEW bit, NEW flag, NEW size \in Int, 0 < size, size <= Room,
         NEW g, g = Flag(d, bit, flag), NEW b2, b2 = Trim(g, size)
  PROVE  /\ IsBuffer(b2)
         /\ b2[0] = With(d[0], bit, flag)
         /\ \A i \in 1..(size - 1) : b2[i] = d[i]
<1>1. /\ 0 \in Bytes /\ 0 < size
      /\ \A i \in 1..(size - 1) : i \in Bytes /\ i # 0 /\ i < size
  BY RoomFits, SMT DEF Bytes, Number16
<1>2. /\ IsBuffer(g)
      /\ \A i \in Bytes : i # 0 => g[i] = d[i]
      /\ g[0] = With(d[0], bit, flag)
  BY FlagAt, SMT
<1>3. /\ IsBuffer(b2)
      /\ \A i \in Bytes : i < size => b2[i] = g[i]
  BY <1>2, TrimAt, SMT
<1> QED BY <1>1, <1>2, <1>3, Zenon

Extending(b, e, to, from, amount, z, flag, b2) ==
  b2 = Trim(Flag(Put(Move(b, to, from, amount), e, z), Extended, flag), to + amount)

HasExtended(b, e, to, from, amount, id, length, flag, b2) ==
  /\ IsBuffer(b2)
  /\ b2[0] = With(b[0], Extended, flag)
  /\ \A i \in 1..(e - 1) : b2[i] = b[i]
  /\ Read16(b2, e) = id /\ Read16(b2, e + 2) = length /\ b2[e + 2] \in Nat
  /\ \A k \in 0..(amount - 1) : b2[to + k] = b[from + k]

(* What set_extension leaves where. *)
LEMMA ExtendOctets ==
  ASSUME NEW b, IsBuffer(b), NEW e \in Int, 12 <= e, NEW to \in Int, e + 4 <= to,
         NEW from \in Int, NEW amount \in Nat, to + amount <= Room,
         NEW id, NEW length, NEW z, Spell(z, id, length), NEW flag,
         NEW b2, Extending(b, e, to, from, amount, z, flag, b2)
  PROVE  HasExtended(b, e, to, from, amount, id, length, flag, b2)
<1>a. PICK c : c = Move(b, to, from, amount)
  OBVIOUS
<1>b. PICK d : d = Put(c, e, z)
  OBVIOUS
<1>c. PICK g : g = Flag(d, Extended, flag)
  OBVIOUS
<1>d. PICK size : size = to + amount
  OBVIOUS
<1>e. b2 = Trim(g, size)
  BY <1>a, <1>b, <1>c, <1>d, Zenon DEF Extending
<1>1. size \in Int /\ 0 < size /\ e + 4 <= Room
  BY <1>d, RoomFits, SMT DEF Number16
<1>2. /\ IsBuffer(c)
      /\ \A i \in Bytes : i < to \/ to + amount <= i => c[i] = b[i]
      /\ \A k \in 0..(amount - 1) : to + k \in Bytes => c[to + k] = b[from + k]
  BY <1>a, MoveAt, SMT
<1>3. /\ IsBuffer(d)
      /\ \A i \in Bytes : i < e \/ e + 4 <= i => d[i] = c[i]
      /\ Read16(d, e) = id /\ Read16(d, e + 2) = length /\ d[e + 2] \in Nat
  BY <1>1, <1>2, <1>b, PutNumbersAt, SMT
<1>4. /\ IsBuffer(b2)
      /\ b2[0] = With(d[0], Extended, flag)
      /\ \A i \in 1..(size - 1) : b2[i] = d[i]
  BY <1>1, <1>3, <1>c, <1>d, <1>e, FlagTrimAt, SMT
<1>5. b2[0] = With(b[0], Extended, flag)
  <2>1. 0 \in Bytes /\ 0 < e /\ 0 < to
    BY <1>d, RoomFits, SMT DEF Bytes, Number16
  <2> QED BY <1>2, <1>3, <1>4, <2>1, Zenon
<1>6. ASSUME NEW i \in 1..(e - 1)
      PROVE  b2[i] = b[i]
  <2>1. i \in Bytes /\ i < e /\ i < to /\ i \in 1..(size - 1)
    BY <1>d, RoomFits, SMT DEF Bytes, Number16
  <2>2. c[i] = b[i] /\ d[i] = c[i] /\ b2[i] = d[i]
    BY <1>2, <1>3, <1>4, <2>1, SMT
  <2> QED BY <2>2
<1>7. ASSUME NEW k \in 0..(amount - 1)
      PROVE  b2[to + k] = b[from + k]
  <2>1. to + k \in Bytes /\ e + 4 <= to + k /\ to + k \in 1..(size - 1)
    BY <1>d, RoomFits, SMT DEF Bytes, Number16
  <2>2. c[to + k] = b[from + k] /\ d[to + k] = c[to + k] /\ b2[to + k] = d[to + k]
    BY <1>2, <1>3, <1>4, <2>1, SMT
  <2> QED BY <2>2, Zenon
<1>8. /\ Read16(b2, e) = Read16(d, e) /\ Read16(b2, e + 2) = Read16(d, e + 2)
      /\ b2[e + 2] = d[e + 2]
  <2>1. /\ e \in 1..(size - 1) /\ e + 1 \in 1..(size - 1) /\ e + 2 \in 1..(size - 1)
        /\ e + 2 + 1 \in 1..(size - 1)
    BY <1>d, SMT
  <2>2. /\ b2[e] = d[e] /\ b2[e + 1] = d[e + 1] /\ b2[e + 2] = d[e + 2]
        /\ b2[e + 2 + 1] = d[e + 2 + 1]
    BY <1>4, <2>1, Zenon
  <2> QED BY <2>2, SMT DEF Read16
<1> QED BY <1>3, <1>4, <1>5, <1>6, <1>7, <1>8, Zenon DEF HasExtended

(* Its offsets and sizes fit, so that none is cut to 16 bits. *)
LEMMA ExtendSizes ==
  ASSUME NEW p, Sized(p), NEW length \in 0..MaxWords,
         NEW to, to = p.extension_offset + size_bytes(length),
         NEW amount, amount = p.payload_size + p.padding
  PROVE  /\ p.extension_offset \in Int /\ 12 <= p.extension_offset
         /\ to \in 12..Room /\ p.extension_offset + 4 <= to /\ to = p.extension_offset + (4 + 4 * length)
         /\ amount \in Nat /\ to + amount \in 12..Room
         /\ p.payload_offset \in Int
         /\ Narrow(to) = to /\ Narrow(to + amount) = to + amount
         /\ length \in Number16
<1>1. /\ p.count \in 0..MaxCsrc /\ p.payload_size \in 0..MaxPayload
      /\ p.padding \in 0..MaxPadding
      /\ p.extension_offset = 12 + 4 * p.count
  BY OffsetsFit
<1>2. to = p.extension_offset + (4 + 4 * length)
  BY Zenon DEF size_bytes
<1>3. /\ 4 + 4 * length \in Nat
      /\ 12 + 4 * p.count + (4 + 4 * length) + p.payload_size + p.padding \in 12..Room
      /\ 12 + 4 * p.count + (4 + 4 * length) \in 12..Room
  <2>1. PICK extension : extension = 4 + 4 * length
    OBVIOUS
  <2>2. PICK count \in 0..MaxCsrc, payload \in 0..MaxPayload, padding \in 0..MaxPadding :
          count = p.count /\ payload = p.payload_size /\ padding = p.padding
    BY <1>1, Zenon
  <2>3. /\ extension \in Nat
        /\ 12 + 4 * count + extension + payload + padding \in 12..Room
        /\ 12 + 4 * count + extension \in 12..Room
    BY <2>1, PartsFit, SMT
  <2> QED BY <2>1, <2>2, <2>3, Zenon
<1>4. /\ p.extension_offset \in Int /\ 12 <= p.extension_offset
      /\ to \in 12..Room /\ p.extension_offset + 4 <= to
      /\ amount \in Nat /\ to + amount \in 12..Room
      /\ length \in Number16
  BY <1>1, <1>2, <1>3, RoomFits, SMT DEF Number16
<1>5. to \in 0..Room /\ to + amount \in 0..Room
  BY <1>4, RoomFits, SMT DEF Number16
<1>6. p.payload_offset \in Int
  BY OffsetsAreNumbers
<1> QED BY <1>2, <1>4, <1>5, <1>6, NarrowKeeps, Zenon

(* The payload and the padding follow the extension as it grows or shrinks. *)
LEMMA ExtendKeeps ==
  ASSUME NEW b, NEW p, NEW a, LaidOut(b, p, a), NEW id \in Number16, NEW length \in 0..MaxWords,
         NEW b2, NEW p2, NEW a2, ExtendStep(id, length, b, p, a, b2, p2, a2)
  PROVE  LaidOut(b2, p2, a2)
<1> DEFINE to == p.extension_offset + size_bytes(length)
           amount == p.payload_size + p.padding
           e == p.extension_offset
<1>1. Sized(p) /\ AskedFor(p, a) /\ Octets(b, p, a)
  BY DEF LaidOut
<1>2. /\ e \in Int /\ 12 <= e
      /\ to \in 12..Room /\ e + 4 <= to /\ to = e + (4 + 4 * length)
      /\ amount \in Nat /\ to + amount \in 12..Room
      /\ p.payload_offset \in Int
      /\ Narrow(to) = to /\ Narrow(to + amount) = to + amount
      /\ length \in Number16
  BY <1>1, ExtendSizes, Zenon
<1>3. /\ p2.extended = TRUE /\ p2.id = id /\ p2.length = length /\ p2.count = p.count
      /\ p2.extension_offset = e /\ p2.payload_offset = to
      /\ p2.payload_size = p.payload_size /\ p2.padding = p.padding
      /\ p2.packet_size = to + amount
      /\ p2 \in Pkt
  <2>1. p2 = [p EXCEPT !.extended = TRUE, !.id = id, !.length = length,
                       !.payload_offset = to, !.packet_size = to + amount]
    BY <1>2, Zenon DEF ExtendStep
  <2> DEFINE whole_size == to + amount
  <2>2. to \in 0..Room /\ whole_size \in 0..Room
    BY <1>2, RoomFits, SMT DEF Number16
  <2> HIDE DEF to, amount, whole_size
  <2>3. p2 = [p EXCEPT !.extended = TRUE, !.id = id, !.length = length,
                       !.payload_offset = to, !.packet_size = whole_size]
    BY <2>1, Zenon DEF whole_size
  <2>4. /\ p2.extended = TRUE /\ p2.id = id /\ p2.length = length /\ p2.count = p.count
        /\ p2.extension_offset = e /\ p2.payload_offset = to
        /\ p2.payload_size = p.payload_size /\ p2.padding = p.padding
        /\ p2.packet_size = whole_size
        /\ p2 \in Pkt
    BY <1>1, <2>2, <2>3 DEF Sized, Pkt
  <2> QED BY <2>4, Zenon DEF whole_size
<1>4. /\ IsBuffer(b2)
      /\ b2[0] = With(b[0], Extended, TRUE)
      /\ \A i \in 1..(e - 1) : b2[i] = b[i]
      /\ Read16(b2, e) = id /\ Read16(b2, e + 2) = length /\ b2[e + 2] \in Nat
      /\ \A k \in 0..(amount - 1) : b2[to + k] = b[p.payload_offset + k]
  <2>1. PICK flag : flag = TRUE
    OBVIOUS
  <2>2. PICK from : from = p.payload_offset
    OBVIOUS
  <2>3. PICK z : z = Big16(id) \o Big16(length)
    OBVIOUS
  <2>4. Spell(z, id, length)
    <3>1. length \in Number16
      BY <1>2, Zenon
    <3> QED BY <2>3, <3>1, OctetsOfTwo, Zenon
  <2>5. Extending(b, e, to, from, amount, z, flag, b2)
    BY <2>1, <2>2, <2>3, Zenon DEF ExtendStep, Extending
  <2>6. IsBuffer(b)
    BY <1>1 DEF Octets
  <2>7. to \in Int /\ to + amount <= Room
    BY <1>2, RoomFits, SMT DEF Number16
  <2> HIDE DEF to, amount, e
  <2>8. e \in Int /\ 12 <= e /\ e + 4 <= to /\ from \in Int /\ amount \in Nat
    BY <1>2, <2>2, Zenon
  <2>9. HasExtended(b, e, to, from, amount, id, length, flag, b2)
    BY <2>4, <2>5, <2>6, <2>7, <2>8, ExtendOctets, SMT
  <2> QED BY <2>1, <2>2, <2>9, Zenon DEF HasExtended
<1>5. AskedFor(p2, a2) /\ SameFixed(a2, a) /\ a2.written = a.written
  <2> HIDE DEF to, amount
  <2>1. a2 = [a EXCEPT !.extension = <<id, length>>]
    BY Zenon DEF ExtendStep
  <2> QED BY <1>1, <1>3, <2>1 DEF AskedFor, AskedParts, SameFixed
<1>6. Sized(p2)
  <2>1. ext_size(p2) = 4 + 4 * length
    BY <1>3, Zenon DEF ext_size, size_bytes
  <2>2. p2.packet_size = p2.payload_offset + p2.payload_size + p2.padding
    <3>1. to + (p.payload_size + p.padding) = to + p.payload_size + p.padding
      BY <1>1, <1>2, OffsetsAreNumbers
    <3> QED BY <1>3, <3>1, Zenon
  <2> QED BY <1>1, <1>2, <1>3, <2>1, <2>2, Zenon DEF Sized
<1> HIDE DEF to, amount, e
<1>7. FlagsSay(b2, p2)
  <2>1. FlagsSay(b, p) /\ p.count \in 0..15 /\ p.extended \in BOOLEAN /\ p.padding \in Nat
    BY <1>1, OffsetsAreNumbers DEF Octets
  <2>2. p2.count = p.count /\ p2.extended \in BOOLEAN /\ p2.extended
    BY <1>3
  <2> QED BY <1>3, <1>4, <2>1, <2>2, ExtendedFlag
<1>8. FixedSay(b2, a2) /\ SourcesSay(b2, p2)
  <2>1. FixedSay(b, a) /\ SourcesSay(b, p) /\ p.count \in 0..15
    BY <1>1, OffsetsAreNumbers DEF Octets
  <2>2. e = 12 + 4 * p.count
    BY <1>1, OffsetsFit DEF e
  <2>3. (\A i \in 1..11 : i \in 1..(e - 1)) /\ \A i \in 12..(12 + 4 * p.count - 1) : i \in 1..(e - 1)
    BY <2>1, <2>2
  <2>4. (\A i \in 1..11 : b2[i] = b[i]) /\ \A i \in 12..(12 + 4 * p.count - 1) : b2[i] = b[i]
    BY <1>4, <2>3, Zenon
  <2>5. FixedSay(b2, a2)
    BY <1>5, <2>1, <2>4, FixedStay, SMT
  <2>6. SourcesSay(b2, p2)
    BY <1>3, <2>1, <2>4, SourcesStay, SMT
  <2> QED BY <2>5, <2>6
<1>9. HeaderSays(b2, p2)
  BY <1>3, <1>4, Zenon DEF HeaderSays
<1>10. PayloadSays(b2, p2, a2)
  <2>1. PayloadSays(b, p, a) /\ p.payload_size \in Nat /\ p.padding \in Nat
    BY <1>1, OffsetsAreNumbers DEF Octets
  <2>2. \A k \in 0..(p.payload_size - 1) : k \in 0..(amount - 1)
    BY <2>1 DEF amount
  <2>3. \A k \in 0..(p.payload_size - 1) : b2[to + k] = b[p.payload_offset + k]
    BY <1>4, <2>2, Zenon
  <2>4. p2.payload_offset = to /\ p2.payload_size = p.payload_size /\ (a2.written => a.written)
    BY <1>3, <1>5
  <2> QED BY <2>1, <2>3, <2>4, PayloadStays, SMT
<1>11. PaddingSays(b2, p2)
  <2>1. PaddingSays(b, p) /\ p.payload_size \in Nat /\ p.padding \in Nat /\ p.payload_offset \in Nat
    BY <1>1, OffsetsAreNumbers DEF Octets
  <2>2. p.packet_size = p.payload_offset + p.payload_size + p.padding
    BY <1>1, OffsetsFit
  <2>3. p.padding > 0 => /\ amount - 1 \in 0..(amount - 1)
                         /\ p.payload_offset + (amount - 1) = p.packet_size - 1
                         /\ to + (amount - 1) = to + amount - 1
    BY <1>2, <2>1, <2>2 DEF amount
  <2>4. \A k \in 0..(amount - 1) : b2[to + k] = b[p.payload_offset + k]
    BY <1>4
  <2>5. ASSUME p.padding > 0
        PROVE  b2[p2.packet_size - 1] = b[p.packet_size - 1]
    <3>1. b2[to + (amount - 1)] = b[p.payload_offset + (amount - 1)]
      BY <2>3, <2>5, <2>4, Zenon
    <3>2. p2.packet_size = to + amount /\ to + (amount - 1) = to + amount - 1
      BY <1>3, <2>3, <2>5
    <3>3. to \in Int /\ amount \in Int
      BY <1>2, RoomFits, SMT DEF Number16
    <3>4. p2.packet_size - 1 = to + (amount - 1)
      BY <3>2, <3>3, SMT
    <3> QED BY <2>3, <2>5, <3>1, <3>4, Zenon
  <2> QED BY <1>3, <2>1, <2>5, PaddingStays
<1> QED BY <1>4, <1>5, <1>6, <1>7, <1>8, <1>9, <1>10, <1>11 DEF LaidOut, Octets

(* The step of SetCsrc. *)
CsrcStep(n, b, p, a, b2, p2, a2) ==
  LET to     == kFixedRTPSize + kCsrcIdsize * n
      amount == p.payload_size + p.padding + ext_size(p)
      moved  == Move(b, to, p.extension_offset, amount)
      ids    == [i \in 1..n |-> CsrcIds[i]]
  IN /\ b2 = Trim(PutCsrcs(moved, ids), to + amount)
     /\ p2 = [p EXCEPT !.count = n, !.extension_offset = Narrow(to),
                       !.payload_offset = Narrow(to + ext_size(p)),
                       !.packet_size = Narrow(to + amount)]
     /\ a2 = [a EXCEPT !.csrc = ids]

(* The list written is the sources', four octets each. *)
CsrcList(ids) ==
  [i \in 1..(kCsrcIdsize * Len(ids)) |->
     Big32(ids[((i - 1) \div kCsrcIdsize) + 1])[((i - 1) % kCsrcIdsize) + 1]]

LEMMA CsrcListAt ==
  ASSUME NEW n \in 0..15, NEW ids, ids = [i \in 1..n |-> CsrcIds[i]]
  PROVE  /\ Len(ids) = n
         /\ Len(CsrcList(ids)) = 4 * n
         /\ \A j \in 1..n, k \in 1..4 : CsrcList(ids)[4 * (j - 1) + k] = Big32(CsrcIds[j])[k]
<1>1. Len(ids) = n
  OBVIOUS
<1>2. CsrcList(ids) = [i \in 1..(4 * n) |-> Big32(ids[((i - 1) \div 4) + 1])[((i - 1) % 4) + 1]]
  BY <1>1, Zenon DEF CsrcList, kCsrcIdsize
<1>3. 4 * n \in Nat
  OBVIOUS
<1>4. Len(CsrcList(ids)) = 4 * n
  <2>1. PICK m \in Nat : m = 4 * n
    BY <1>3
  <2>2. PICK o : o = [i \in 1..m |-> Big32(ids[((i - 1) \div 4) + 1])[((i - 1) % 4) + 1]]
    OBVIOUS
  <2>3. DOMAIN o = 1..m
    BY <2>2, Zenon
  <2>4. Len(o) = m
    BY <2>1, <2>2
  <2> QED BY <1>2, <2>1, <2>2, <2>4, Zenon
<1>5. ASSUME NEW j \in 1..n, NEW k \in 1..4
      PROVE  CsrcList(ids)[4 * (j - 1) + k] = Big32(CsrcIds[j])[k]
  <2>1. PICK at : at = 4 * (j - 1) + k
    OBVIOUS
  <2>2. at \in 1..(4 * n) /\ ((at - 1) \div 4) + 1 = j /\ ((at - 1) % 4) + 1 = k
    BY <2>1
  <2>3. ids[j] = CsrcIds[j]
    BY Zenon
  <2> QED BY <1>2, <2>1, <2>2, <2>3, Zenon
<1> QED BY <1>1, <1>4, <1>5, Zenon

ListedIn(c, n, d) ==
  /\ IsBuffer(d)
  /\ d[0] = (c[0] - (c[0] % 16)) + n
  /\ \A i \in Bytes : i # 0 /\ (i < 12 \/ 12 + 4 * n <= i) => d[i] = c[i]
  /\ \A j \in 1..n, k \in 1..4 : d[12 + (4 * (j - 1) + (k - 1))] = Big32(CsrcIds[j])[k]

(* They are written behind the fixed fields, and counted. *)
LEMMA PutCsrcsAt ==
  ASSUME NEW c, IsBuffer(c), NEW n \in 0..15, 12 + 4 * n <= Room,
         NEW ids, ids = [i \in 1..n |-> CsrcIds[i]], NEW d, d = PutCsrcs(c, ids)
  PROVE  ListedIn(c, n, d)
<1>1. /\ Len(ids) = n
      /\ Len(CsrcList(ids)) = 4 * n
      /\ \A j \in 1..n, k \in 1..4 : CsrcList(ids)[4 * (j - 1) + k] = Big32(CsrcIds[j])[k]
  BY CsrcListAt, ZenonT(60)
<1>2. PICK list : list = CsrcList(ids)
  OBVIOUS
<1>3. PICK m \in Nat : m = 4 * n
  OBVIOUS
<1>4. PICK at \in Int : at = 12
  OBVIOUS
<1>5. PICK g : g = Put(c, at, list)
  OBVIOUS
<1>6. /\ IsBuffer(g)
      /\ \A i \in Bytes : i < at \/ at + m <= i => g[i] = c[i]
      /\ \A k \in 1..m : at + (k - 1) \in Bytes => g[at + (k - 1)] = list[k]
  <2>1. Len(list) = m
    BY <1>1, <1>2, <1>3, Zenon
  <2> QED BY <1>5, <2>1, PutAt, SMT
<1>7. d = [g EXCEPT ![0] = (g[0] - (g[0] % 16)) + n]
  BY <1>1, <1>2, <1>4, <1>5, Zenon DEF PutCsrcs, CsrcList, kFixedRTPSize
<1>8. 0 \in Bytes
  BY RoomFits, SMT DEF Bytes, Number16
<1>9. /\ IsBuffer(d)
      /\ d[0] = (g[0] - (g[0] % 16)) + n
      /\ \A i \in Bytes : i # 0 => d[i] = g[i]
  <2>1. g = [i \in Bytes |-> g[i]]
    BY <1>6 DEF IsBuffer
  <2> QED BY <1>7, <1>8, <2>1 DEF IsBuffer
<1>10. g[0] = c[0]
  <2>1. 0 < at
    BY <1>4
  <2> QED BY <1>6, <1>8, <2>1, Zenon
<1>11. \A i \in Bytes : i # 0 /\ (i < 12 \/ 12 + 4 * n <= i) => d[i] = c[i]
  BY <1>3, <1>4, <1>6, <1>9, Zenon
<1>12. ASSUME NEW j \in 1..n, NEW k \in 1..4
       PROVE  d[12 + (4 * (j - 1) + (k - 1))] = Big32(CsrcIds[j])[k]
  <2>1. PICK l : l = 4 * (j - 1) + k
    OBVIOUS
  <2>2. /\ l \in 1..m /\ at + (l - 1) \in Bytes /\ at + (l - 1) # 0
        /\ at + (l - 1) = 12 + (4 * (j - 1) + (k - 1))
    BY <1>3, <1>4, <2>1, RoomFits, SMT DEF Bytes, Number16
  <2>3. g[at + (l - 1)] = list[l] /\ d[at + (l - 1)] = g[at + (l - 1)]
    BY <1>6, <1>9, <2>2, Zenon
  <2>4. list[l] = Big32(CsrcIds[j])[k]
    BY <1>1, <1>2, <2>1, Zenon
  <2> QED BY <2>2, <2>3, <2>4, Zenon
<1> QED BY <1>9, <1>10, <1>11, <1>12, Zenon DEF ListedIn

Listing(b, n, to, from, amount, b2) ==
  b2 = Trim(PutCsrcs(Move(b, to, from, amount), [i \in 1..n |-> CsrcIds[i]]), to + amount)

HasListed(b, n, to, from, amount, b2) ==
  /\ IsBuffer(b2)
  /\ b2[0] = (b[0] - (b[0] % 16)) + n
  /\ \A i \in 1..11 : b2[i] = b[i]
  /\ \A i \in 1..n : Read32(b2, 12 + 4 * (i - 1)) = CsrcIds[i]
  /\ \A k \in 0..(amount - 1) : b2[to + k] = b[from + k]

(* What commit_csrc leaves where. *)
LEMMA CsrcOctets ==
  ASSUME NEW b, IsBuffer(b), NEW n \in 0..MaxCsrc, NEW to \in Int, to = 12 + 4 * n,
         NEW from \in Int, NEW amount \in Nat, to + amount <= Room,
         NEW b2, Listing(b, n, to, from, amount, b2)
  PROVE  HasListed(b, n, to, from, amount, b2)
<1> n \in 0..15
  BY RoomFits
<1>1. PICK c : c = Move(b, to, from, amount)
  OBVIOUS
<1>2. PICK ids : ids = [i \in 1..n |-> CsrcIds[i]]
  OBVIOUS
<1>3. PICK d : d = PutCsrcs(c, ids)
  OBVIOUS
<1>4. PICK size \in Int : size = to + amount
  OBVIOUS
<1>5. b2 = Trim(d, size)
  BY <1>1, <1>2, <1>3, <1>4, Zenon DEF Listing
<1>6. /\ IsBuffer(c)
      /\ \A i \in Bytes : i < to \/ to + amount <= i => c[i] = b[i]
      /\ \A k \in 0..(amount - 1) : to + k \in Bytes => c[to + k] = b[from + k]
  BY <1>1, MoveAt, SMT
<1>7. 12 + 4 * n <= Room
  BY RoomFits, SMT DEF Number16
<1>8. /\ IsBuffer(d)
      /\ d[0] = (c[0] - (c[0] % 16)) + n
      /\ \A i \in Bytes : i # 0 /\ (i < 12 \/ 12 + 4 * n <= i) => d[i] = c[i]
      /\ \A j \in 1..n, k \in 1..4 : d[12 + (4 * (j - 1) + (k - 1))] = Big32(CsrcIds[j])[k]
  <2>1. ListedIn(c, n, d)
    BY <1>2, <1>3, <1>6, <1>7, PutCsrcsAt, Zenon
  <2> QED BY <2>1, Zenon DEF ListedIn
<1>9. /\ IsBuffer(b2)
      /\ \A i \in Bytes : i < size => b2[i] = d[i]
  BY <1>5, <1>8, TrimAt, ZenonT(60)
<1>10. b2[0] = (b[0] - (b[0] % 16)) + n
  <2>1. 0 \in Bytes /\ 0 < to /\ 0 < size
    BY <1>4, RoomFits, SMT DEF Bytes, Number16
  <2>2. c[0] = b[0] /\ b2[0] = d[0]
    BY <1>6, <1>9, <2>1, Zenon
  <2> QED BY <1>8, <2>2, Zenon
<1>11. ASSUME NEW i \in 1..11
       PROVE  b2[i] = b[i]
  <2>1. i \in Bytes /\ i # 0 /\ i < 12 /\ i < to /\ i < size
    BY <1>4, RoomFits, SMT DEF Bytes, Number16
  <2>2. c[i] = b[i] /\ d[i] = c[i] /\ b2[i] = d[i]
    BY <1>6, <1>8, <1>9, <2>1, Zenon
  <2> QED BY <2>2, Zenon
<1>12. ASSUME NEW k \in 0..(amount - 1)
       PROVE  b2[to + k] = b[from + k]
  <2>1. to + k \in Bytes /\ to + k # 0 /\ 12 + 4 * n <= to + k /\ to + k < size
    BY <1>4, RoomFits, SMT DEF Bytes, Number16
  <2>2. c[to + k] = b[from + k] /\ d[to + k] = c[to + k] /\ b2[to + k] = d[to + k]
    BY <1>6, <1>8, <1>9, <2>1, Zenon
  <2> QED BY <2>2, Zenon
<1>13. ASSUME NEW j \in 1..n
       PROVE  Read32(b2, 12 + 4 * (j - 1)) = CsrcIds[j]
  <2> DEFINE v == CsrcIds[j]
             at == 12 + 4 * (j - 1)
  <2>1. v \in Number32
    <3>1. j \in 1..MaxCsrc
      BY RoomFits
    <3> QED BY <3>1, ValuesAssumption
  <2>2. ASSUME NEW k \in 1..4
        PROVE  b2[12 + (4 * (j - 1) + (k - 1))] = Big32(CsrcIds[j])[k]
    <3>1. /\ 12 + (4 * (j - 1) + (k - 1)) \in Bytes
          /\ 12 + (4 * (j - 1) + (k - 1)) < size
      BY <1>4, RoomFits, SMT DEF Bytes, Number16
    <3> QED BY <1>8, <1>9, <3>1, Zenon
  <2>3. 1 \in 1..4 /\ 2 \in 1..4 /\ 3 \in 1..4 /\ 4 \in 1..4
    OBVIOUS
  <2>4. /\ 12 + (4 * (j - 1) + (1 - 1)) = at /\ 12 + (4 * (j - 1) + (2 - 1)) = at + 1
        /\ 12 + (4 * (j - 1) + (3 - 1)) = at + 2 /\ 12 + (4 * (j - 1) + (4 - 1)) = at + 2 + 1
    OBVIOUS
  <2>5. /\ b2[12 + (4 * (j - 1) + (1 - 1))] = Big32(v)[1]
        /\ b2[12 + (4 * (j - 1) + (2 - 1))] = Big32(v)[2]
        /\ b2[12 + (4 * (j - 1) + (3 - 1))] = Big32(v)[3]
        /\ b2[12 + (4 * (j - 1) + (4 - 1))] = Big32(v)[4]
    BY <2>2, <2>3, Zenon
  <2> HIDE DEF v, at
  <2>6. /\ b2[at] = Big32(v)[1] /\ b2[at + 1] = Big32(v)[2] /\ b2[at + 2] = Big32(v)[3]
        /\ b2[at + 2 + 1] = Big32(v)[4]
    BY <2>4, <2>5, Zenon
  <2>7. Read32(b2, at) = v
    BY <2>1, <2>6, Octets32, SMT DEF Read32, Read16
  <2> QED BY <2>7, Zenon DEF v, at
<1> QED BY <1>9, <1>10, <1>11, <1>12, <1>13, Zenon DEF HasListed

(* Its offsets and sizes fit. *)
LEMMA CsrcSizes ==
  ASSUME NEW p, Sized(p), NEW n \in 0..MaxCsrc,
         NEW to, to = kFixedRTPSize + kCsrcIdsize * n,
         NEW amount, amount = p.payload_size + p.padding + ext_size(p)
  PROVE  /\ n \in 0..15 /\ to = 12 + 4 * n /\ to \in 12..Room
         /\ amount \in Nat /\ to + amount \in 12..Room /\ to + ext_size(p) \in 12..Room
         /\ ext_size(p) \in Nat
         /\ Narrow(to) = to /\ Narrow(to + amount) = to + amount
         /\ Narrow(to + ext_size(p)) = to + ext_size(p)
<1>1. /\ p.length \in 0..MaxWords /\ p.payload_size \in 0..MaxPayload
      /\ p.padding \in 0..MaxPadding
      /\ ext_size(p) \in Nat
      /\ ext_size(p) = 0 \/ ext_size(p) = 4 + 4 * p.length
  BY OffsetsFit
<1>2. to = 12 + 4 * n
  BY Zenon DEF kFixedRTPSize, kCsrcIdsize
<1>3. /\ 12 + 4 * n + ext_size(p) + p.payload_size + p.padding \in 12..Room
      /\ 12 + 4 * n + ext_size(p) \in 12..Room
      /\ 12 + 4 * n \in 12..Room
  BY <1>1, PartsFit
<1>4. /\ n \in 0..15 /\ to \in 12..Room
      /\ amount \in Nat /\ to + amount \in 12..Room /\ to + ext_size(p) \in 12..Room
  BY <1>1, <1>2, <1>3, RoomFits, SMT DEF Number16
<1>5. to \in 0..Room /\ to + amount \in 0..Room /\ to + ext_size(p) \in 0..Room
  BY <1>4, RoomFits, SMT DEF Number16
<1> QED BY <1>1, <1>2, <1>4, <1>5, NarrowKeeps, Zenon

(* The extension, the payload and the padding follow the list of sources. *)
LEMMA CsrcKeeps ==
  ASSUME NEW b, NEW p, NEW a, LaidOut(b, p, a), NEW n \in 0..MaxCsrc,
         NEW b2, NEW p2, NEW a2, CsrcStep(n, b, p, a, b2, p2, a2)
  PROVE  LaidOut(b2, p2, a2)
<1> DEFINE to == kFixedRTPSize + kCsrcIdsize * n
           ext == ext_size(p)
           amount == p.payload_size + p.padding + ext
           e == p.extension_offset
<1>1. Sized(p) /\ AskedFor(p, a) /\ Octets(b, p, a)
  BY DEF LaidOut
<1>2. /\ n \in 0..15 /\ to = 12 + 4 * n /\ to \in 12..Room
      /\ amount \in Nat /\ to + amount \in 12..Room /\ to + ext \in 12..Room
      /\ ext \in Nat
      /\ Narrow(to) = to /\ Narrow(to + amount) = to + amount
      /\ Narrow(to + ext) = to + ext
  BY <1>1, CsrcSizes, Zenon
<1>3. /\ p2.extended = p.extended /\ p2.id = p.id /\ p2.length = p.length /\ p2.count = n
      /\ p2.extension_offset = to /\ p2.payload_offset = to + ext
      /\ p2.payload_size = p.payload_size /\ p2.padding = p.padding
      /\ p2.packet_size = to + amount
      /\ p2 \in Pkt
  <2>1. p2 = [p EXCEPT !.count = n, !.extension_offset = to,
                       !.payload_offset = to + ext, !.packet_size = to + amount]
    BY <1>2, Zenon DEF CsrcStep
  <2> DEFINE size == to + amount
             po == to + ext
  <2>2. to \in 0..Room /\ size \in 0..Room /\ po \in 0..Room
    BY <1>2, RoomFits, SMT DEF Number16
  <2> HIDE DEF to, amount, ext, size, po
  <2>3. p2 = [p EXCEPT !.count = n, !.extension_offset = to,
                       !.payload_offset = po, !.packet_size = size]
    BY <2>1, Zenon DEF size, po
  <2>4. /\ p2.extended = p.extended /\ p2.id = p.id /\ p2.length = p.length /\ p2.count = n
        /\ p2.extension_offset = to /\ p2.payload_offset = po
        /\ p2.payload_size = p.payload_size /\ p2.padding = p.padding
        /\ p2.packet_size = size
        /\ p2 \in Pkt
    BY <1>1, <2>2, <2>3 DEF Sized, Pkt
  <2> QED BY <2>4, Zenon DEF size, po
<1>4. HasListed(b, n, to, e, amount, b2)
  <2>1. Listing(b, n, to, e, amount, b2)
    BY Zenon DEF CsrcStep, Listing
  <2>2. IsBuffer(b)
    BY <1>1 DEF Octets
  <2>3. to \in Int /\ to + amount <= Room
    BY <1>2, RoomFits, SMT DEF Number16
  <2>4. e \in Int
    BY <1>1, OffsetsAreNumbers
  <2> HIDE DEF to, amount, e
  <2>5. n \in 0..15 /\ to = 12 + 4 * n /\ amount \in Nat
    BY <1>2, Zenon
  <2> QED BY <2>1, <2>2, <2>3, <2>4, <2>5, CsrcOctets, SMT
<1>5. AskedFor(p2, a2) /\ SameFixed(a2, a) /\ a2.written = a.written
  <2> HIDE DEF to, amount, ext
  <2>1. PICK ids : ids = [i \in 1..n |-> CsrcIds[i]]
    OBVIOUS
  <2>2. a2 = [a EXCEPT !.csrc = ids]
    BY <2>1, Zenon DEF CsrcStep
  <2>3. /\ a2 = [part \in AskedParts |-> a2[part]]
        /\ a2.csrc = ids /\ a2.extension = a.extension /\ a2.padding = a.padding
        /\ a2.size = a.size /\ a2.marker = a.marker /\ a2.type = a.type
        /\ a2.written = a.written /\ SameFixed(a2, a)
    BY <1>1, <2>2 DEF AskedFor, AskedParts, SameFixed
  <2>4. a2.csrc = [i \in 1..p2.count |-> CsrcIds[i]]
    BY <1>3, <2>1, <2>3, Zenon
  <2> QED BY <1>1, <1>3, <2>3, <2>4, Zenon DEF AskedFor
<1>6. Sized(p2)
  <2>1. ext_size(p2) = ext
    BY <1>3, Zenon DEF ext_size
  <2>2. p2.packet_size = p2.payload_offset + p2.payload_size + p2.padding
    <3>1. p.payload_size \in Nat /\ p.padding \in Nat /\ to \in Int /\ ext \in Int
      BY <1>1, <1>2, OffsetsAreNumbers
    <3> HIDE DEF to, ext
    <3>2. to + (p.payload_size + p.padding + ext) = to + ext + p.payload_size + p.padding
      BY <3>1
    <3> QED BY <1>3, <3>2, Zenon
  <2> QED BY <1>1, <1>3, <2>1, <2>2, Zenon DEF Sized
<1>7. /\ to \in Int /\ ext \in Nat /\ amount \in Nat /\ e \in Nat
      /\ p.payload_size \in Nat /\ p.padding \in Nat /\ p.count \in 0..15
      /\ p.extended \in BOOLEAN
      /\ amount = p.payload_size + p.padding + ext
      /\ p.payload_offset = e + ext /\ p.packet_size = e + ext + p.payload_size + p.padding
      /\ p.extended => ext >= 4
  <2>1. p.extended => ext >= 4
    BY <1>1, OffsetsFit, RoomFits
  <2>2. p.payload_offset = e + ext /\ p.packet_size = e + ext + p.payload_size + p.padding
    BY <1>1, OffsetsFit
  <2>3. to \in Int
    BY <1>2, RoomFits, SMT DEF Number16
  <2>4. e \in Nat /\ p.payload_size \in Nat /\ p.padding \in Nat /\ p.count \in 0..15
        /\ p.extended \in BOOLEAN
    BY <1>1, OffsetsAreNumbers
  <2> QED BY <1>2, <2>1, <2>2, <2>3, <2>4, Zenon
<1> HIDE DEF to, amount, e, ext
<1>8. /\ IsBuffer(b2) /\ b2[0] = (b[0] - (b[0] % 16)) + n
      /\ \A i \in 1..11 : b2[i] = b[i]
      /\ \A i \in 1..n : Read32(b2, 12 + 4 * (i - 1)) = CsrcIds[i]
      /\ \A k \in 0..(amount - 1) : b2[to + k] = b[e + k]
  BY <1>4, Zenon DEF HasListed
<1>9. FlagsSay(b2, p2)
  <2>1. FlagsSay(b, p)
    BY <1>1 DEF Octets
  <2> QED BY <1>2, <1>3, <1>7, <1>8, <2>1, CountInFlags, Zenon
<1>10. FixedSay(b2, a2) /\ SourcesSay(b2, p2)
  <2>1. FixedSay(b, a)
    BY <1>1 DEF Octets
  <2>2. FixedSay(b2, a2)
    BY <1>5, <1>8, <2>1, FixedStay, SMT
  <2>3. SourcesSay(b2, p2)
    BY <1>3, <1>8, Zenon DEF SourcesSay, kFixedRTPSize, kCsrcIdsize
  <2> QED BY <2>2, <2>3
<1>11. HeaderSays(b2, p2)
  <2>1. HeaderSays(b, p) /\ SameHeader(p2, p)
    BY <1>1, <1>3 DEF Octets, SameHeader
  <2>2. p.extended => \A k \in 0..3 : k \in 0..(amount - 1)
    BY <1>7
  <2>3. p.extended => \A k \in 0..3 : b2[p2.extension_offset + k] = b[p.extension_offset + k]
    BY <1>3, <1>8, <2>2, Zenon DEF e
  <2>4. p2.extension_offset \in Nat /\ p.extension_offset \in Nat
    BY <1>1, <1>6, OffsetsAreNumbers, Zenon
  <2> QED BY <2>1, <2>3, <2>4, HeaderStays, SMT
<1>12. PayloadSays(b2, p2, a2)
  <2>1. PayloadSays(b, p, a)
    BY <1>1 DEF Octets
  <2>2. ASSUME NEW k \in 0..(p.payload_size - 1)
        PROVE  b2[p2.payload_offset + k] = b[p.payload_offset + k]
    <3>1. ext + k \in 0..(amount - 1) /\ to + (ext + k) = to + ext + k /\ e + (ext + k) = e + ext + k
      BY <1>7
    <3>2. b2[to + (ext + k)] = b[e + (ext + k)]
      BY <1>8, <3>1, Zenon
    <3> QED BY <1>3, <1>7, <3>1, <3>2, Zenon
  <2>3. p2.payload_size = p.payload_size /\ (a2.written => a.written)
    BY <1>3, <1>5
  <2> QED BY <1>7, <2>1, <2>2, <2>3, PayloadStays, SMT
<1>13. PaddingSays(b2, p2)
  <2>1. PaddingSays(b, p)
    BY <1>1 DEF Octets
  <2>2. ASSUME p.padding > 0
        PROVE  b2[p2.packet_size - 1] = b[p.packet_size - 1]
    <3>1. /\ amount - 1 \in 0..(amount - 1)
          /\ to + (amount - 1) = to + amount - 1
          /\ e + (amount - 1) = e + ext + p.payload_size + p.padding - 1
      BY <1>7, <2>2
    <3>2. b2[to + (amount - 1)] = b[e + (amount - 1)]
      BY <1>8, <3>1, Zenon
    <3>3. p2.packet_size = to + amount
      BY <1>3
    <3>4. p2.packet_size - 1 = to + (amount - 1) /\ p.packet_size - 1 = e + (amount - 1)
      BY <1>7, <3>3, SMT
    <3> QED BY <3>2, <3>4, Zenon
  <2> QED BY <1>3, <2>1, <2>2, PaddingStays, ZenonT(60)
<1> QED BY <1>5, <1>6, <1>8, <1>9, <1>10, <1>11, <1>12, <1>13 DEF LaidOut, Octets

(* Numbers of two and of four octets put among the fixed fields. *)
PutNumber(c, at, octets) == Put(c, at, octets)

HasPut(c, at, n, octets, d) ==
  /\ IsBuffer(d)
  /\ \A i \in Bytes : i < at \/ at + n <= i => d[i] = c[i]
  /\ \A k \in 1..n : at + (k - 1) \in Bytes => d[at + (k - 1)] = octets[k]

LEMMA PutNumberAt ==
  ASSUME NEW c, IsBuffer(c), NEW at \in Int, NEW octets, NEW n \in Nat, Len(octets) = n,
         NEW d, d = PutNumber(c, at, octets)
  PROVE  HasPut(c, at, n, octets, d)
<1>1. d = Put(c, at, octets)
  BY Zenon DEF PutNumber
<1>2. /\ IsBuffer(d)
      /\ \A i \in Bytes : i < at \/ at + n <= i => d[i] = c[i]
      /\ \A k \in 1..n : at + (k - 1) \in Bytes => d[at + (k - 1)] = octets[k]
  BY <1>1, PutAt, SMT
<1> QED BY <1>2, Zenon DEF HasPut

HasPut16(c, at, v, d) ==
  /\ IsBuffer(d)
  /\ \A i \in Bytes : i < at \/ at + 2 <= i => d[i] = c[i]
  /\ Read16(d, at) = v

Put16(c, at, v) == PutNumber(c, at, Big16(v))

LEMMA Put16At ==
  ASSUME NEW c, IsBuffer(c), NEW at \in 2..8, NEW v \in Number16, NEW d, d = Put16(c, at, v)
  PROVE  HasPut16(c, at, v, d)
<1>1. PICK octets : octets = Big16(v)
  OBVIOUS
<1>2. Len(octets) = 2 /\ 256 * octets[1] + octets[2] = v
  BY <1>1, Octets16
<1>3. PICK n \in Nat : n = 2
  OBVIOUS
<1>4. at \in Int /\ (\A k \in 1..2 : at + (k - 1) \in Bytes)
      /\ at + (1 - 1) = at /\ at + (2 - 1) = at + 1 /\ 1 \in 1..2 /\ 2 \in 1..2
  BY RoomFits, SMT DEF Bytes, Number16
<1>5. HasPut(c, at, n, octets, d)
  <2>1. at \in Int /\ Len(octets) = n /\ d = PutNumber(c, at, octets)
    BY <1>1, <1>2, <1>3, <1>4, Zenon DEF Put16
  <2> QED BY <2>1, PutNumberAt, SMT
<1>6. d[at + (1 - 1)] = octets[1] /\ d[at + (2 - 1)] = octets[2]
  BY <1>3, <1>4, <1>5, Zenon DEF HasPut
<1>7. d[at] = octets[1] /\ d[at + 1] = octets[2]
  BY <1>4, <1>6, Zenon
<1>8. Read16(d, at) = v
  BY <1>2, <1>7, SMT DEF Read16
<1> QED BY <1>3, <1>5, <1>8, Zenon DEF HasPut, HasPut16

HasPut32(c, at, v, d) ==
  /\ IsBuffer(d)
  /\ \A i \in Bytes : i < at \/ at + 4 <= i => d[i] = c[i]
  /\ Read32(d, at) = v

Put32(c, at, v) == PutNumber(c, at, Big32(v))

LEMMA Put32At ==
  ASSUME NEW c, IsBuffer(c), NEW at \in 2..8, NEW v \in Number32, NEW d, d = Put32(c, at, v)
  PROVE  HasPut32(c, at, v, d)
<1>1. PICK octets : octets = Big32(v)
  OBVIOUS
<1>2. /\ Len(octets) = 4
      /\ 65536 * (256 * octets[1] + octets[2]) + (256 * octets[3] + octets[4]) = v
  BY <1>1, Octets32, SMT
<1>3. PICK n \in Nat : n = 4
  OBVIOUS
<1>4. at \in Int /\ (\A k \in 1..4 : at + (k - 1) \in Bytes)
      /\ at + (1 - 1) = at /\ at + (2 - 1) = at + 1 /\ at + (3 - 1) = at + 2
      /\ at + (4 - 1) = at + 2 + 1
      /\ 1 \in 1..4 /\ 2 \in 1..4 /\ 3 \in 1..4 /\ 4 \in 1..4
  BY RoomFits, SMT DEF Bytes, Number16
<1>5. HasPut(c, at, n, octets, d)
  <2>1. at \in Int /\ Len(octets) = n /\ d = PutNumber(c, at, octets)
    <3>1. d = PutNumber(c, at, octets)
      BY <1>1, Zenon DEF Put32
    <3> QED BY <1>2, <1>3, <1>4, <3>1, SMT
  <2> QED BY <2>1, PutNumberAt, SMT
<1>6. /\ d[at + (1 - 1)] = octets[1] /\ d[at + (2 - 1)] = octets[2]
      /\ d[at + (3 - 1)] = octets[3] /\ d[at + (4 - 1)] = octets[4]
  BY <1>3, <1>4, <1>5, Zenon DEF HasPut
<1>7. /\ d[at] = octets[1] /\ d[at + 1] = octets[2]
      /\ d[at + 2] = octets[3] /\ d[at + 2 + 1] = octets[4]
  BY <1>4, <1>6, Zenon
<1>8. Read32(d, at) = v
  BY <1>2, <1>7, SMT DEF Read32, Read16
<1> QED BY <1>3, <1>5, <1>8, Zenon DEF HasPut, HasPut32

(* The steps of the setters of the fixed fields. *)
Fielded(b, f, b2) ==
  b2 = set_ssrc(set_timestamp(set_sequence_number(set_marker(set_payload_type(
         b, f.type), f.marker), f.sequence), f.timestamp), f.ssrc)

HasFielded(b, f, b2) ==
  /\ IsBuffer(b2)
  /\ \A i \in Bytes : i = 0 \/ 12 <= i => b2[i] = b[i]
  /\ FixedSay(b2, f)

TypeSet(b, t)    == set_payload_type(b, t)
MarkerSet(b, m)  == set_marker(b, m)

(* set_payload_type and set_marker share an octet. *)
LEMMA TypeSetAt ==
  ASSUME NEW b, IsBuffer(b), NEW type, NEW c, c = TypeSet(b, type)
  PROVE  /\ IsBuffer(c)
         /\ \A i \in Bytes : i # 1 => c[i] = b[i]
         /\ c[1] = WithType(b[1], type)
<1>1. 1 \in Bytes
  BY RoomFits, SMT DEF Bytes, Number16
<1>2. b = [i \in Bytes |-> b[i]]
  BY DEF IsBuffer
<1>3. PICK o : o = WithType(b[1], type)
  OBVIOUS
<1>4. c = [b EXCEPT ![1] = o]
  BY <1>3, Zenon DEF TypeSet, set_payload_type, WithType
<1>5. /\ c = [i \in Bytes |-> c[i]]
      /\ \A i \in Bytes : i # 1 => c[i] = b[i]
      /\ c[1] = o
  BY <1>1, <1>2, <1>4, Zenon
<1> QED BY <1>3, <1>5, Zenon DEF IsBuffer

LEMMA MarkerSetAt ==
  ASSUME NEW b, IsBuffer(b), NEW marker, NEW c, c = MarkerSet(b, marker)
  PROVE  /\ IsBuffer(c)
         /\ \A i \in Bytes : i # 1 => c[i] = b[i]
         /\ c[1] = With(b[1], Marker, marker)
<1>1. 1 \in Bytes
  BY RoomFits, SMT DEF Bytes, Number16
<1>2. b = [i \in Bytes |-> b[i]]
  BY DEF IsBuffer
<1>3. PICK o : o = With(b[1], Marker, marker)
  OBVIOUS
<1>4. c = [b EXCEPT ![1] = o]
  BY <1>3, Zenon DEF MarkerSet, set_marker
<1>5. /\ c = [i \in Bytes |-> c[i]]
      /\ \A i \in Bytes : i # 1 => c[i] = b[i]
      /\ c[1] = o
  BY <1>1, <1>2, <1>4, Zenon
<1> QED BY <1>3, <1>5, Zenon DEF IsBuffer

(* The second octet is that of a marker and a payload type, and the five fields fit in theirs. *)
SaysMarker(b) == \E marker \in BOOLEAN, type \in 0..127 : b[1] = Octet1(marker, type)

FieldsInRange(f) ==
  /\ f.marker \in BOOLEAN /\ f.type \in 0..127 /\ f.sequence \in Number16
  /\ f.timestamp \in Number32 /\ f.ssrc \in Number32

(* All five fields are set, and no octet behind them is touched. *)
LEMMA FixedOctets ==
  ASSUME NEW b, IsBuffer(b), SaysMarker(b), NEW f, FieldsInRange(f), NEW b2, Fielded(b, f, b2)
  PROVE  HasFielded(b, f, b2)
<1>a. PICK marker \in BOOLEAN, type \in 0..127 : b[1] = Octet1(marker, type)
  BY DEF SaysMarker
<1>b. /\ f.marker \in BOOLEAN /\ f.type \in 0..127 /\ f.sequence \in Number16
      /\ f.timestamp \in Number32 /\ f.ssrc \in Number32
  BY DEF FieldsInRange
<1> USE <1>a, <1>b
<1>1. PICK a : a = TypeSet(b, f.type)
  OBVIOUS
<1>2. PICK c : c = MarkerSet(a, f.marker)
  OBVIOUS
<1>3. PICK d : d = Put16(c, 2, f.sequence)
  OBVIOUS
<1>4. PICK g : g = Put32(d, 4, f.timestamp)
  OBVIOUS
<1>5. b2 = Put32(g, 8, f.ssrc)
  BY <1>1, <1>2, <1>3, <1>4, Zenon
     DEF Fielded, set_ssrc, set_timestamp, set_sequence_number, TypeSet, MarkerSet, Put16, Put32, PutNumber
<1>6. /\ IsBuffer(a)
      /\ \A i \in Bytes : i # 1 => a[i] = b[i]
      /\ a[1] = WithType(b[1], f.type)
  BY <1>1, TypeSetAt, SMT
<1>7. /\ IsBuffer(c)
      /\ \A i \in Bytes : i # 1 => c[i] = a[i]
      /\ c[1] = With(a[1], Marker, f.marker)
  BY <1>2, <1>6, MarkerSetAt, SMT
<1>8. c[1] = Octet1(f.marker, f.type)
  <2>1. PICK o : o = b[1]
    OBVIOUS
  <2>2. PICK m \in BOOLEAN : m = f.marker
    OBVIOUS
  <2>3. PICK t \in Types : t = f.type
    BY DEF Types
  <2>4. SecondOctets(o)
    BY <2>1, Zenon DEF SecondOctets, Types
  <2>5. With(WithType(o, t), Marker, m) = Octet1(m, t)
    BY <2>4, SecondOctetSet, Zenon
  <2> QED BY <1>6, <1>7, <2>1, <2>2, <2>3, <2>5, Zenon
<1>9. 2 \in 2..8 /\ 4 \in 2..8 /\ 8 \in 2..8
  OBVIOUS
<1>10. HasPut16(c, 2, f.sequence, d)
  BY <1>3, <1>7, <1>9, Put16At, Zenon
<1>11. HasPut32(d, 4, f.timestamp, g)
  <2>1. IsBuffer(d)
    BY <1>10, Zenon DEF HasPut16
  <2> QED BY <1>4, <1>9, <2>1, Put32At, Zenon
<1>12. HasPut32(g, 8, f.ssrc, b2)
  <2>1. IsBuffer(g)
    BY <1>11, Zenon DEF HasPut32
  <2> QED BY <1>5, <1>9, <2>1, Put32At, Zenon
<1>13. \A i \in Bytes : /\ i < 4 \/ 8 <= i => g[i] = d[i]
                        /\ i < 8 \/ 12 <= i => b2[i] = g[i]
                        /\ i < 2 \/ 4 <= i => d[i] = c[i]
  <2>1. 2 + 2 = 4 /\ 4 + 4 = 8 /\ 8 + 4 = 12
    OBVIOUS
  <2> QED BY <1>10, <1>11, <1>12, <2>1, Zenon DEF HasPut16, HasPut32
<1>14. ASSUME NEW i \in Bytes, i = 0 \/ 12 <= i
       PROVE  b2[i] = b[i]
  <2>1. /\ i # 1 /\ (i < 2 \/ 4 <= i) /\ (i < 4 \/ 8 <= i) /\ (i < 8 \/ 12 <= i)
    BY <1>14, RoomFits, SMT DEF Bytes, Number16
  <2>2. a[i] = b[i] /\ c[i] = a[i] /\ d[i] = c[i] /\ g[i] = d[i] /\ b2[i] = g[i]
    BY <1>6, <1>7, <1>13, <2>1, Zenon
  <2> QED BY <2>2, Zenon
<1>15. \A i \in 1..7 : i \in Bytes /\ i < 8
  BY RoomFits, SMT DEF Bytes, Number16
<1>16. b2[1] = c[1]
  <2>1. 1 < 2 /\ 1 < 4 /\ 1 < 8 /\ 1 \in Bytes
    BY <1>15
  <2>2. d[1] = c[1] /\ g[1] = d[1] /\ b2[1] = g[1]
    BY <1>13, <2>1, Zenon
  <2> QED BY <2>2, Zenon
<1>17. Read16(b2, 2) = Read16(d, 2)
  <2>1. 2 \in Bytes /\ 3 \in Bytes /\ 2 < 4 /\ 3 < 4 /\ 2 < 8 /\ 3 < 8 /\ 2 + 1 = 3
    BY <1>15
  <2>2. b2[2] = d[2] /\ b2[3] = d[3]
    <3>1. b2[2] = g[2] /\ b2[3] = g[3]
      BY <1>13, <2>1, Zenon
    <3>2. g[2] = d[2] /\ g[3] = d[3]
      BY <1>13, <2>1, Zenon
    <3> QED BY <3>1, <3>2, Zenon
  <2>3. b2[2 + 1] = d[2 + 1]
    BY <2>1, <2>2, Zenon
  <2> QED BY <2>2, <2>3, Zenon DEF Read16
<1>18. Read32(b2, 4) = Read32(g, 4)
  <2>1. 4 \in Bytes /\ 5 \in Bytes /\ 6 \in Bytes /\ 7 \in Bytes /\ 4 < 8 /\ 5 < 8 /\ 6 < 8 /\ 7 < 8
    BY <1>15
  <2>2. b2[4] = g[4] /\ b2[5] = g[5] /\ b2[6] = g[6] /\ b2[7] = g[7]
    BY <1>13, <2>1, Zenon
  <2>3. 4 + 1 = 5 /\ 4 + 2 = 6 /\ 4 + 2 + 1 = 7
    OBVIOUS
  <2>4. b2[4 + 1] = g[4 + 1] /\ b2[4 + 2] = g[4 + 2] /\ b2[4 + 2 + 1] = g[4 + 2 + 1]
    BY <2>2, <2>3, Zenon
  <2> QED BY <2>2, <2>4, SMT DEF Read32, Read16
<1>19. FixedSay(b2, f)
  BY <1>8, <1>10, <1>11, <1>12, <1>16, <1>17, <1>18, Zenon DEF HasPut16, HasPut32, FixedSay
<1> QED BY <1>12, <1>14, <1>19, Zenon DEF HasPut32, HasFielded

(* The fixed fields the sender sets are within their octets. *)
FixedParts == {"marker", "type", "sequence", "timestamp", "ssrc"}

LEMMA FieldsFit ==
  ASSUME NEW f \in FixedFields
  PROVE  /\ DOMAIN f = FixedParts
         /\ f.marker \in BOOLEAN /\ f.type \in 0..127 /\ f.sequence \in Number16
         /\ f.timestamp \in Number32 /\ f.ssrc \in Number32
<1>1. f \in [marker : BOOLEAN, type : 0..127, sequence : Number16, timestamp : Number32,
             ssrc : Number32]
  BY ValuesAssumption
<1> QED BY <1>1 DEF FixedParts

(* The step of SetFixed. *)
FixedStep(f, b, p, a, b2, p2, a2) ==
  /\ Fielded(b, f, b2)
  /\ p2 = p
  /\ a2 = [part \in DOMAIN a |-> IF part \in DOMAIN f THEN f[part] ELSE a[part]]

LEMMA FixedKeeps ==
  ASSUME NEW b, NEW p, NEW a, LaidOut(b, p, a), NEW f \in FixedFields,
         NEW b2, NEW p2, NEW a2, FixedStep(f, b, p, a, b2, p2, a2)
  PROVE  LaidOut(b2, p2, a2)
<1>1. Sized(p) /\ AskedFor(p, a) /\ Octets(b, p, a)
  BY DEF LaidOut
<1>2. p2 = p
  BY DEF FixedStep
<1>3. HasFielded(b, f, b2)
  <2>1. PICK marker \in BOOLEAN : marker = a.marker
    BY <1>1 DEF AskedFor
  <2>2. PICK type \in 0..127 : type = a.type
    BY <1>1 DEF AskedFor
  <2>3. IsBuffer(b) /\ b[1] = Octet1(marker, type)
    BY <1>1, <2>1, <2>2, Zenon DEF Octets, FixedSay
  <2>4. Fielded(b, f, b2)
    BY Zenon DEF FixedStep
  <2>5. SaysMarker(b)
    BY <2>3, Zenon DEF SaysMarker
  <2>6. FieldsInRange(f)
    BY FieldsFit, Zenon DEF FieldsInRange
  <2> QED BY <2>3, <2>4, <2>5, <2>6, FixedOctets, Zenon
<1>4. a2 = [part \in AskedParts |-> IF part \in FixedParts THEN f[part] ELSE a[part]]
  <2>1. DOMAIN a = AskedParts
    BY <1>1, Zenon DEF AskedFor
  <2>2. DOMAIN f = FixedParts
    BY FieldsFit, Zenon
  <2> QED BY <2>1, <2>2, Zenon DEF FixedStep
<1>5. /\ a2 = [part \in AskedParts |-> a2[part]]
      /\ a2.csrc = a.csrc /\ a2.extension = a.extension /\ a2.padding = a.padding
      /\ a2.size = a.size /\ a2.written = a.written
      /\ a2.marker = f.marker /\ a2.type = f.type /\ a2.sequence = f.sequence
      /\ a2.timestamp = f.timestamp /\ a2.ssrc = f.ssrc
  BY <1>4 DEF AskedParts, FixedParts
<1>6. AskedFor(p2, a2)
  BY <1>1, <1>2, <1>5, FieldsFit, Zenon DEF AskedFor
<1>7. FixedSay(b2, a2)
  BY <1>3, <1>5, Zenon DEF HasFielded, FixedSay
<1>8. FlagsSay(b2, p2)
  <2>1. 0 \in Bytes
    BY RoomFits, SMT DEF Bytes, Number16
  <2>2. b2[0] = b[0]
    BY <1>3, <2>1, Zenon DEF HasFielded
  <2> QED BY <1>1, <1>2, <2>2, Zenon DEF Octets, FlagsSay
<1>9. \A i \in 12..(Room - 1) : b2[i] = b[i]
  <2>1. \A i \in 12..(Room - 1) : i \in Bytes /\ 12 <= i
    BY RoomFits, SMT DEF Bytes, Number16
  <2> QED BY <1>3, <2>1, Zenon DEF HasFielded
<1>10. /\ p.count \in 0..15 /\ p.payload_size \in Nat /\ p.extension_offset \in Nat
       /\ p.extension_offset = 12 + 4 * p.count /\ p.extension_offset <= Room
       /\ p.extended => p.extension_offset + 4 <= Room
       /\ 12 <= p.payload_offset /\ p.payload_offset \in Nat
       /\ p.payload_offset + p.payload_size <= Room
       /\ p.padding > 0 => 13 <= p.packet_size
       /\ p.packet_size <= Room /\ p.packet_size \in Nat /\ Room \in Nat
  BY <1>1, OffsetsFit, RoomFits, SMT DEF Number16
<1>11. SourcesSay(b2, p2)
  <2>1. \A i \in 12..(12 + 4 * p.count - 1) : b2[i] = b[i]
    <3>1. \A i \in 12..(12 + 4 * p.count - 1) : i \in 12..(Room - 1)
      BY <1>10
    <3> QED BY <1>9, <3>1, Zenon
  <2> QED BY <1>1, <1>2, <1>10, <2>1, SourcesStay, ZenonT(60) DEF Octets
<1>12. HeaderSays(b2, p2)
  <2>1. p.extended => \A k \in 0..3 : b2[p.extension_offset + k] = b[p.extension_offset + k]
    <3>1. p.extended => \A k \in 0..3 : p.extension_offset + k \in 12..(Room - 1)
      BY <1>10
    <3> QED BY <1>9, <3>1, Zenon
  <2> QED BY <1>1, <1>2, <1>10, <2>1, HeaderStays, Zenon DEF Octets, SameHeader
<1>13. PayloadSays(b2, p2, a2)
  <2>1. \A k \in 0..(p.payload_size - 1) : b2[p.payload_offset + k] = b[p.payload_offset + k]
    <3>1. \A k \in 0..(p.payload_size - 1) : p.payload_offset + k \in 12..(Room - 1)
      BY <1>10
    <3> QED BY <1>9, <3>1, Zenon
  <2> QED BY <1>1, <1>2, <1>5, <1>10, <2>1, PayloadStays, Zenon DEF Octets
<1>14. PaddingSays(b2, p2)
  <2>1. p.padding > 0 => b2[p.packet_size - 1] = b[p.packet_size - 1]
    <3>1. p.padding > 0 => p.packet_size - 1 \in 12..(Room - 1)
      BY <1>10
    <3> QED BY <1>9, <3>1, Zenon
  <2> QED BY <1>1, <1>2, <2>1, PaddingStays, Zenon DEF Octets
<1>15. IsBuffer(b2)
  BY <1>3, Zenon DEF HasFielded
<1> QED BY <1>1, <1>2, <1>6, <1>7, <1>8, <1>11, <1>12, <1>13, <1>14, <1>15, Zenon DEF LaidOut, Octets

-----------------------------------------------------------------------------
(* The invariant. *)

LEMMA InitLaidOut == Init => LayoutInv
<1> SUFFICES ASSUME Init
             PROVE  LaidOut(buffer, pkt, asked)
  BY DEF LayoutInv
<1>1. pkt = [count |-> 0, extended |-> FALSE, id |-> 0, length |-> 0, padding |-> 0,
             extension_offset |-> 12, payload_offset |-> 12, payload_size |-> 0, packet_size |-> 12]
  BY DEF Init, kFixedRTPSize
<1>2. asked = [csrc |-> <<>>, extension |-> <<>>, padding |-> 0, marker |-> FALSE, type |-> 0,
               sequence |-> 0, timestamp |-> 0, ssrc |-> 0, size |-> 0, written |-> FALSE]
  BY DEF Init
<1>3. buffer = [i \in Bytes |-> IF i = 0 THEN 128 ELSE 0]
  <2>1. PICK zeros : zeros = [i \in Bytes |-> 0]
    OBVIOUS
  <2>2. 0 \in Bytes
    BY RoomFits, SMT DEF Bytes, Number16
  <2>3. buffer = [zeros EXCEPT ![0] = 128 + (@ % 64)]
    BY <2>1, Zenon DEF Init, write_rtp_version, Bytes
  <2>4. zeros[0] = 0 /\ 128 + (0 % 64) = 128
    BY <2>1, <2>2
  <2>5. buffer = [i \in Bytes |-> IF i = 0 THEN 128 ELSE zeros[i]]
    BY <2>1, <2>3, <2>4
  <2> QED BY <2>1, <2>5
<1>4. /\ pkt.count = 0 /\ pkt.extended = FALSE /\ pkt.id = 0 /\ pkt.length = 0 /\ pkt.padding = 0
      /\ pkt.extension_offset = 12 /\ pkt.payload_offset = 12 /\ pkt.payload_size = 0
      /\ pkt.packet_size = 12
  BY <1>1
<1>5. Sized(pkt)
  <2>1. 0 \in 0..MaxCsrc /\ 0 \in Number16 /\ 0 \in 0..MaxWords /\ 0 \in 0..MaxPadding
        /\ 12 \in 0..Room /\ 0 \in 0..MaxPayload /\ FALSE \in BOOLEAN
    BY RoomFits, SMT DEF Number16
  <2>2. pkt \in Pkt
    BY <1>1, <2>1, Zenon DEF Pkt
  <2>3. ext_size(pkt) = 0
    BY <1>4 DEF ext_size
  <2> QED BY <1>4, <2>2, <2>3, SMT DEF Sized, kFixedRTPSize, kCsrcIdsize
<1>6. AskedFor(pkt, asked)
  <2>1. asked = [part \in AskedParts |-> asked[part]]
    BY <1>2 DEF AskedParts
  <2>2. <<>> = [i \in 1..0 |-> CsrcIds[i]]
    OBVIOUS
  <2> QED BY <1>2, <1>4, <2>1, <2>2 DEF AskedFor
<1>7. \A i \in 0..11 : i \in Bytes
  BY RoomFits, SMT DEF Bytes, Number16
<1>8. buffer[0] = 128 /\ \A i \in 1..11 : buffer[i] = 0
  BY <1>3, <1>7
<1>9. FlagsSay(buffer, pkt)
  BY <1>4, <1>8 DEF FlagsSay, Octet0
<1>10. FixedSay(buffer, asked)
  <2>1. /\ buffer[1] = 0 /\ buffer[2] = 0 /\ buffer[2 + 1] = 0
        /\ buffer[4] = 0 /\ buffer[4 + 1] = 0 /\ buffer[4 + 2] = 0 /\ buffer[4 + 2 + 1] = 0
        /\ buffer[8] = 0 /\ buffer[8 + 1] = 0 /\ buffer[8 + 2] = 0 /\ buffer[8 + 2 + 1] = 0
    BY <1>8
  <2> QED BY <1>2, <2>1, SMT DEF FixedSay, Octet1, Read32, Read16
<1>11. SourcesSay(buffer, pkt)
  BY <1>4 DEF SourcesSay
<1>12. HeaderSays(buffer, pkt) /\ PayloadSays(buffer, pkt, asked) /\ PaddingSays(buffer, pkt)
  BY <1>2, <1>4 DEF HeaderSays, PayloadSays, PaddingSays
<1>13. IsBuffer(buffer)
  BY <1>3 DEF IsBuffer
<1> QED BY <1>5, <1>6, <1>9, <1>10, <1>11, <1>12, <1>13, Zenon DEF LaidOut, Octets

(* Every call of a setter keeps it so. *)
LEMMA StepLaidOut == LayoutInv /\ [Next]_vars => LayoutInv'
<1> SUFFICES ASSUME LayoutInv, [Next]_vars, whole'
             PROVE  LaidOut(buffer, pkt, asked)'
  BY DEF LayoutInv
<1>1. CASE UNCHANGED vars
  BY <1>1 DEF LayoutInv, vars
<1>2. CASE Next
  <2>1. whole /\ LaidOut(buffer, pkt, asked)
    BY <1>2, Zenon DEF Next, LayoutInv
  <2>2. Sized(pkt)
    BY <2>1, Zenon DEF LaidOut
  <2>3. pkt.length \in 0..MaxWords /\ pkt.id \in Number16 /\ pkt.padding \in 0..MaxPadding
    BY <2>2, OffsetsFit
  <2>4. ASSUME NEW n \in 0..MaxPadding, SetPadding(n)
        PROVE  LaidOut(buffer', pkt', asked')
    <3>1. CASE n > 0
      <4>1. n \in 1..MaxPadding
        BY <3>1
      <4>2. PadStep(n, buffer, pkt, asked, buffer', pkt', asked')
        BY <2>4, <3>1, Zenon DEF SetPadding, PadStep
      <4> QED BY <2>1, <4>1, <4>2, PadKeeps, Zenon
    <3>2. CASE n = 0
      <4>1. ~(n > 0)
        BY <3>2
      <4>2. pkt.padding = 0
        BY <2>4, <4>1, Zenon DEF SetPadding
      <4>3. UnpadStep(buffer, pkt, asked, buffer', pkt', asked')
        BY <2>4, <3>2, <4>1, Zenon DEF SetPadding, UnpadStep
      <4> QED BY <2>1, <4>2, <4>3, UnpadKeeps, Zenon
    <3> QED BY <3>1, <3>2
  <2>5. ASSUME NEW id \in Number16, NEW length \in 0..MaxWords, SetExtension(id, length)
        PROVE  LaidOut(buffer', pkt', asked')
    <3>1. ExtendStep(id, length, buffer, pkt, asked, buffer', pkt', asked')
      BY <2>5, Zenon DEF SetExtension, ExtendStep
    <3> QED BY <2>1, <2>5, <3>1, ExtendKeeps, Zenon
  <2>6. ASSUME RemoveExtension
        PROVE  LaidOut(buffer', pkt', asked')
    <3>1. ~pkt.extended
      BY <2>6, Zenon DEF RemoveExtension
    <3>2. UnextendStep(buffer, pkt, asked, buffer', pkt', asked')
      BY <2>6, Zenon DEF RemoveExtension, UnextendStep
    <3> QED BY <2>1, <3>1, <3>2, UnextendKeeps, Zenon
  <2>7. ASSUME NEW n \in 0..MaxPayload, SetPayloadSize(n)
        PROVE  LaidOut(buffer', pkt', asked')
    <3>1. n + pkt.padding > 0
      BY <2>7, Zenon DEF SetPayloadSize
    <3>2. ResizeStep(n, buffer, pkt, asked, buffer', pkt', asked')
      BY <2>7, Zenon DEF SetPayloadSize, ResizeStep
    <3> QED BY <2>1, <2>7, <3>1, <3>2, ResizeKeeps, Zenon
  <2>8. ASSUME WritePayload
        PROVE  LaidOut(buffer', pkt', asked')
    <3>1. WriteStep(buffer, pkt, asked, buffer', pkt', asked')
      BY <2>8, Zenon DEF WritePayload, WriteStep
    <3> QED BY <2>1, <3>1, WriteKeeps, Zenon
  <2>9. ASSUME NEW n \in 0..MaxCsrc, SetCsrc(n)
        PROVE  LaidOut(buffer', pkt', asked')
    <3>1. CsrcStep(n, buffer, pkt, asked, buffer', pkt', asked')
      BY <2>9, Zenon DEF SetCsrc, CsrcStep
    <3> QED BY <2>1, <2>9, <3>1, CsrcKeeps, Zenon
  <2>10. ASSUME NEW f \in FixedFields, SetFixed(f)
         PROVE  LaidOut(buffer', pkt', asked')
    <3>1. FixedStep(f, buffer, pkt, asked, buffer', pkt', asked')
      BY <2>10, Zenon DEF SetFixed, FixedStep, Fielded
    <3> QED BY <2>1, <2>10, <3>1, FixedKeeps, Zenon
  <2>11. \A id \in ExtensionIds : id \in Number16
    BY ValuesAssumption
  <2>12. CASE \E id \in ExtensionIds, length \in 0..MaxWords : SetExtension(id, length)
    BY <2>5, <2>11, <2>12, Zenon
  <2>13. CASE \E id \in ExtensionIds : SetExtensionId(id)
    BY <2>3, <2>5, <2>11, <2>13, Zenon DEF SetExtensionId
  <2>14. CASE \E length \in 0..MaxWords : SetExtensionLength(length)
    BY <2>3, <2>5, <2>14, Zenon DEF SetExtensionLength
  <2> QED BY <1>2, <2>4, <2>6, <2>7, <2>8, <2>9, <2>10, <2>12, <2>13, <2>14, Zenon
         DEF Next, Parts, commit_csrc
<1> QED BY <1>1, <1>2

(* Whatever its setters are asked for, and however often the parts before the
   payload grow and shrink, a packet nothing was taken off has each part where
   its members say, and the members are what was asked for. *)
THEOREM Layout == Spec => []LayoutInv
<1>1. Init => LayoutInv
  BY InitLaidOut
<1>2. LayoutInv /\ [Next]_vars => LayoutInv'
  BY StepLaidOut
<1> QED BY <1>1, <1>2, PTL DEF Spec

-----------------------------------------------------------------------------
(* What parse finds in a packet laid out, all of it or what has arrived of it. *)

(* The first octet of the packet tells parse what the members say. *)
LEMMA FlagsRead ==
  ASSUME NEW b, NEW p, Sized(p), FlagsSay(b, p)
  PROVE  /\ csrc_count(b) = p.count
         /\ Version(b[0]) = 2
         /\ Has(b[0], Padded) <=> p.padding > 0
         /\ Has(b[0], Extended) <=> p.extended
         /\ kFixedRTPSize + csrc_list_size(b) = p.extension_offset
<1>1. PICK padded \in BOOLEAN : padded <=> p.padding > 0
  BY Zenon
<1>2. PICK o : o = b[0]
  OBVIOUS
<1>3. p.count \in 0..15 /\ p.extended \in BOOLEAN
  BY OffsetsAreNumbers, Zenon
<1>4. o = Octet0(p.count, padded, p.extended)
  BY <1>1, <1>2, Zenon DEF FlagsSay, Octet0
<1>5. /\ o % 16 = p.count
      /\ o \div 64 = 2
      /\ Has(o, Padded) <=> padded
      /\ Has(o, Extended) <=> p.extended
  BY <1>3, <1>4, FirstOctet, SMT
<1>6. p.extension_offset = kFixedRTPSize + kCsrcIdsize * p.count
  BY Zenon DEF Sized
<1> QED BY <1>1, <1>2, <1>5, <1>6, Zenon DEF csrc_count, csrc_list_size, Version

(* A size there is room for is the size parse takes. *)
LEMMA ParseKeepsSize ==
  ASSUME NEW b, NEW size \in 0..Room
  PROVE  parse(b, size) = parse_pkt(b, size)
BY NarrowKeeps, Zenon DEF parse, on_parse

(* The extension it finds, and where the payload begins. *)
ExtensionOf(p) == IF p.extended THEN <<p.id, p.length>> ELSE <<>>

LEMMA ExtensionRead ==
  ASSUME NEW b, NEW p, Sized(p), HeaderSays(b, p), p.extended, NEW size, NEW padding
  PROVE  parse_extension(b, size, padding, p.extension_offset) =
           IF p.payload_offset > size THEN Fail("kParseExtensionOverflow")
           ELSE Found(b, size, padding, ExtensionOf(p), p.payload_offset)
<1>1. Read16(b, p.extension_offset) = p.id /\ Read16(b, p.extension_offset + 2) = p.length
  BY Zenon DEF HeaderSays
<1>2. p.payload_offset = p.extension_offset + size_bytes(p.length)
  BY Zenon DEF Sized, ext_size
<1>3. p.payload_offset \in 0..Room
  BY Zenon DEF Sized, Pkt
<1>4. Narrow(p.payload_offset) = p.payload_offset
  BY <1>3, NarrowKeeps, Zenon
<1> QED BY <1>1, <1>2, <1>4, Zenon DEF parse_extension, ExtensionOf

(* A packet is accepted whose header has arrived, its payload where it is. *)
LEMMA ParseFinds ==
  ASSUME NEW b, NEW p, Sized(p), FlagsSay(b, p), HeaderSays(b, p),
         NEW size \in 0..Room, NEW padding \in Nat,
         padding = IF p.padding > 0 THEN b[size - 1] ELSE 0, p.padding > 0 => padding > 0,
         p.payload_offset + padding <= size
  PROVE  parse(b, size) = Found(b, size, padding, ExtensionOf(p), p.payload_offset)
<1>1. /\ p.extension_offset \in Nat /\ p.payload_offset \in Nat
      /\ 12 <= p.extension_offset /\ p.extension_offset <= p.payload_offset
      /\ ~p.extended => p.payload_offset = p.extension_offset
      /\ Room \in Nat
  BY OffsetsFit, RoomFits, SMT DEF Number16
<1>2. /\ ~(size < 12) /\ ~(size < padding + 12) /\ ~(p.extension_offset > size)
      /\ ~(p.payload_offset > size)
  BY <1>1, SMT
<1>3. p.padding > 0 => padding # 0
  OBVIOUS
<1>4. parse_pkt(b, size) =
        IF p.extended THEN parse_extension(b, size, padding, p.extension_offset)
        ELSE Found(b, size, padding, <<>>, p.extension_offset)
  <2>1. padding = IF Has(b[0], Padded) THEN b[size - 1] ELSE 0
    BY FlagsRead, Zenon
  <2>2. kFixedRTPSize = 12
    BY DEF kFixedRTPSize
  <2> QED BY <1>2, <1>3, <2>1, <2>2, FlagsRead, ZenonT(60) DEF parse_pkt
<1>5. CASE p.extended
  BY <1>2, <1>4, <1>5, ExtensionRead, ParseKeepsSize, Zenon
<1>6. CASE ~p.extended
  BY <1>1, <1>4, <1>6, ParseKeepsSize, Zenon DEF ExtensionOf
<1> QED BY <1>5, <1>6

LEMMA Failures ==
  /\ Fail("kBufferTooSmall").result # "kSuccess"
  /\ Fail("kInvalidRtpHeader").result # "kSuccess"
  /\ Fail("kParseBufferOverflow").result # "kSuccess"
  /\ Fail("kParseExtensionOverflow").result # "kSuccess"
BY DEF Fail

(* One of fewer octets than the fixed header is refused, whatever they are. *)
LEMMA ParseRefusesFew ==
  ASSUME NEW b, NEW size \in 0..Room, size < 12
  PROVE  parse(b, size).result # "kSuccess"
BY ParseKeepsSize, Failures, Zenon DEF parse_pkt, kFixedRTPSize

(* So is one that ends within the sources. *)
LEMMA ParseRefusesSources ==
  ASSUME NEW b, NEW p, Sized(p), FlagsSay(b, p), p.padding = 0,
         NEW size \in 0..Room, size < p.extension_offset
  PROVE  parse(b, size).result # "kSuccess"
<1>1. p.extension_offset > size
  BY OffsetsAreNumbers, RoomFits, SMT DEF Number16
<1>2. ~Has(b[0], Padded) /\ Version(b[0]) = 2
  <2>1. ~(p.padding > 0)
    OBVIOUS
  <2> QED BY <2>1, FlagsRead, Zenon
<1>3. kFixedRTPSize + csrc_list_size(b) = p.extension_offset
  BY FlagsRead, Zenon
<1> QED BY <1>1, <1>2, <1>3, ParseKeepsSize, Failures, ZenonT(60) DEF parse_pkt

(* Once the sources have arrived, the extension decides. *)
LEMMA ParseReadsOn ==
  ASSUME NEW b, NEW p, Sized(p), FlagsSay(b, p), p.padding = 0, p.extended,
         NEW size \in 0..Room, p.extension_offset <= size
  PROVE  parse(b, size) = parse_extension(b, size, 0, p.extension_offset)
<1>1. ~(size < 12) /\ ~(size < 0 + 12) /\ ~(p.extension_offset > size)
  BY OffsetsFit, RoomFits, SMT DEF Number16
<1>2. ~Has(b[0], Padded) /\ Version(b[0]) = 2 /\ Has(b[0], Extended)
  <2>1. ~(p.padding > 0)
    OBVIOUS
  <2> QED BY <2>1, FlagsRead, Zenon
<1>3. kFixedRTPSize + csrc_list_size(b) = p.extension_offset /\ kFixedRTPSize = 12
  BY FlagsRead, Zenon DEF kFixedRTPSize
<1> QED BY <1>1, <1>2, <1>3, ParseKeepsSize, ZenonT(60) DEF parse_pkt

(* With a header that has arrived, a packet that ends within the extension is
   refused. *)
LEMMA ParseRefusesExtension ==
  ASSUME NEW b, NEW p, Sized(p), FlagsSay(b, p), HeaderSays(b, p), p.padding = 0, p.extended,
         NEW size \in 0..Room, p.extension_offset <= size, p.payload_offset > size
  PROVE  parse(b, size).result # "kSuccess"
<1>1. parse(b, size) = parse_extension(b, size, 0, p.extension_offset)
  BY ParseReadsOn, Zenon
<1>2. parse_extension(b, size, 0, p.extension_offset) = Fail("kParseExtensionOverflow")
  BY ExtensionRead, Zenon
<1> QED BY <1>1, <1>2, Failures, Zenon

(* The parts of what it has found. *)
IsFound(r, b, size, padding, extension, offset) ==
  /\ r.result = "kSuccess"
  /\ r.csrc = Csrcs(b, b[0] % 16)
  /\ r.extension = extension
  /\ r.padding = padding
  /\ r.marker = Has(b[1], Marker)
  /\ r.type = b[1] % 128
  /\ r.sequence = Read16(b, 2)
  /\ r.timestamp = Read32(b, 4)
  /\ r.ssrc = Read32(b, 8)
  /\ r.offset = offset
  /\ r.size = Narrow(size - offset - padding)

LEMMA FoundParts ==
  ASSUME NEW b, NEW size, NEW padding, NEW extension, NEW offset,
         NEW r, r = Found(b, size, padding, extension, offset)
  PROVE  IsFound(r, b, size, padding, extension, offset)
BY Zenon DEF Found, IsFound, csrc_count, calculate_payload_size

(* With whatever length, the payload that is found ends where the packet does. *)
LEMMA ParseStaysWithin ==
  ASSUME NEW b, NEW p, Sized(p), FlagsSay(b, p), p.padding = 0, p.extended,
         NEW size \in 0..Room, p.extension_offset <= size,
         Read16(b, p.extension_offset + 2) \in Nat,
         NEW r, r = parse(b, size), r.result = "kSuccess"
  PROVE  r.offset + r.size = size
<1>1. PICK length \in Nat : length = Read16(b, p.extension_offset + 2)
  OBVIOUS
<1>2. PICK at \in Nat : at = p.extension_offset
  BY OffsetsAreNumbers, Zenon
<1>3. PICK offset : offset = Narrow(at + size_bytes(length))
  OBVIOUS
<1>4. offset \in Nat
  BY <1>3, SMT DEF Narrow, size_bytes
<1>5. r = IF offset > size THEN Fail("kParseExtensionOverflow")
          ELSE Found(b, size, 0, <<Read16(b, at), length>>, offset)
  <2>1. r = parse_extension(b, size, 0, at)
    BY <1>2, ParseReadsOn, Zenon
  <2> QED BY <1>1, <1>2, <1>3, <2>1, Zenon DEF parse_extension
<1>6. ~(offset > size)
  BY <1>5, Failures, Zenon
<1>7. r.offset = offset /\ r.size = Narrow(size - offset - 0)
  <2>1. r = Found(b, size, 0, <<Read16(b, at), length>>, offset)
    BY <1>5, <1>6, Zenon
  <2>2. IsFound(r, b, size, 0, <<Read16(b, at), length>>, offset)
    BY <2>1, FoundParts, Zenon
  <2> QED BY <2>2, Zenon DEF IsFound
<1>8. size - offset - 0 \in 0..Room /\ offset + (size - offset - 0) = size
  BY <1>4, <1>6, RoomFits, SMT DEF Number16
<1> QED BY <1>7, <1>8, NarrowKeeps, Zenon

(* Each part parse finds is the one that was asked for. *)
LEMMA PartsRead ==
  ASSUME NEW b, NEW p, NEW a, LaidOut(b, p, a),
         NEW r, r = Found(b, p.packet_size, p.padding, ExtensionOf(p), p.payload_offset)
  PROVE  /\ \A part \in AskedParts \ {"written"} : r[part] = a[part]
         /\ r.size = p.payload_size /\ r.offset = p.payload_offset
<1>1. Sized(p) /\ AskedFor(p, a) /\ FlagsSay(b, p) /\ FixedSay(b, a) /\ SourcesSay(b, p)
  BY Zenon DEF LaidOut, Octets
<1>2. IsFound(r, b, p.packet_size, p.padding, ExtensionOf(p), p.payload_offset)
  BY FoundParts, Zenon
<1>3. r.csrc = a.csrc
  <2>1. r.csrc = Csrcs(b, p.count)
    <3>1. b[0] % 16 = p.count
      BY <1>1, FlagsRead, Zenon DEF csrc_count
    <3> QED BY <1>2, <3>1, Zenon DEF IsFound
  <2>2. Csrcs(b, p.count) = [i \in 1..p.count |-> CsrcIds[i]]
    BY <1>1, Zenon DEF Csrcs, SourcesSay
  <2> QED BY <1>1, <2>1, <2>2, Zenon DEF AskedFor
<1>4. r.extension = a.extension
  BY <1>1, <1>2, Zenon DEF IsFound, AskedFor, ExtensionOf
<1>5. r.padding = a.padding
  BY <1>1, <1>2, Zenon DEF IsFound, AskedFor
<1>6. r.marker = a.marker /\ r.type = a.type
  <2>1. PICK marker \in BOOLEAN : marker = a.marker
    BY <1>1, Zenon DEF AskedFor
  <2>2. PICK type \in 0..127 : type = a.type
    BY <1>1, Zenon DEF AskedFor
  <2>3. PICK o : o = b[1]
    OBVIOUS
  <2>4. o = Octet1(marker, type)
    BY <1>1, <2>1, <2>2, <2>3, Zenon DEF FixedSay
  <2>5. o % 128 = type /\ (Has(o, Marker) <=> marker)
    BY <2>4, SecondOctet, SMT
  <2>6. r.type = o % 128 /\ r.marker = Has(o, Marker)
    BY <1>2, <2>3, Zenon DEF IsFound
  <2>7. Has(o, Marker) = marker
    BY <2>5, Zenon DEF Has
  <2> QED BY <2>1, <2>2, <2>5, <2>6, <2>7, Zenon
<1>7. r.sequence = a.sequence /\ r.timestamp = a.timestamp /\ r.ssrc = a.ssrc
  BY <1>1, <1>2, Zenon DEF IsFound, FixedSay
<1>8. r.size = p.payload_size
  <2>1. p.packet_size - p.payload_offset - p.padding = p.payload_size /\ p.payload_size \in 0..Room
    BY <1>1, OffsetsFit, RoomFits, SMT DEF Number16
  <2>2. r.size = Narrow(p.packet_size - p.payload_offset - p.padding)
    BY <1>2, Zenon DEF IsFound
  <2> QED BY <2>1, <2>2, NarrowKeeps, Zenon
<1>9. r.size = a.size
  BY <1>1, <1>8, Zenon DEF AskedFor
<1>10. r.offset = p.payload_offset
  BY <1>2, Zenon DEF IsFound
<1>11. ASSUME NEW part \in AskedParts \ {"written"}
       PROVE  r[part] = a[part]
  BY <1>3, <1>4, <1>5, <1>6, <1>7, <1>9, <1>11, Zenon DEF AskedParts
<1> QED BY <1>8, <1>10, <1>11, Zenon

(* The invariant gives the properties. *)
LEMMA LaidOutIsRead == LayoutInv => ReadsBack
<1> SUFFICES ASSUME LayoutInv, whole
             PROVE  LET r == parse(buffer, pkt.packet_size)
                    IN /\ r.result = "kSuccess"
                       /\ \A part \in DOMAIN asked \ {"written"} : r[part] = asked[part]
                       /\ asked.written =>
                            \A i \in 1..r.size : buffer[r.offset + (i - 1)] = Payload[i]
  BY Zenon DEF ReadsBack
<1>1. LaidOut(buffer, pkt, asked)
  BY DEF LayoutInv
<1>2. /\ Sized(pkt) /\ FlagsSay(buffer, pkt) /\ HeaderSays(buffer, pkt)
      /\ PayloadSays(buffer, pkt, asked) /\ PaddingSays(buffer, pkt)
  BY <1>1, Zenon DEF LaidOut, Octets
<1>3. DOMAIN asked = AskedParts
  BY <1>1, Zenon DEF LaidOut, AskedFor
<1>4. PICK r : r = parse(buffer, pkt.packet_size)
  OBVIOUS
<1>5. r = Found(buffer, pkt.packet_size, pkt.padding, ExtensionOf(pkt), pkt.payload_offset)
  <2>1. pkt.packet_size \in 0..Room /\ pkt.padding \in Nat
        /\ pkt.payload_offset + pkt.padding <= pkt.packet_size
    BY <1>2, OffsetsFit, RoomFits, SMT DEF Number16
  <2>2. pkt.padding = IF pkt.padding > 0 THEN buffer[pkt.packet_size - 1] ELSE 0
    <3>1. CASE pkt.padding > 0
      BY <1>2, <3>1, Zenon DEF PaddingSays
    <3>2. CASE ~(pkt.padding > 0)
      BY <2>1, <3>2, SMT
    <3> QED BY <3>1, <3>2, Zenon
  <2> QED BY <1>2, <1>4, <2>1, <2>2, ParseFinds, Zenon
<1>6. r.result = "kSuccess"
  <2>1. IsFound(r, buffer, pkt.packet_size, pkt.padding, ExtensionOf(pkt), pkt.payload_offset)
    BY <1>5, FoundParts, Zenon
  <2> QED BY <2>1, Zenon DEF IsFound
<1>7. /\ \A part \in AskedParts \ {"written"} : r[part] = asked[part]
      /\ r.size = pkt.payload_size /\ r.offset = pkt.payload_offset
  BY <1>1, <1>5, PartsRead, SMT
<1>8. asked.written => \A i \in 1..r.size : buffer[r.offset + (i - 1)] = Payload[i]
  BY <1>2, <1>7, Zenon DEF PayloadSays
<1> QED BY <1>3, <1>4, <1>6, <1>7, <1>8, Zenon

(* What has arrived of a packet says what it said, whatever lies behind. *)
LEMMA ReceivedSays ==
  ASSUME NEW a, LaidOut(buffer, pkt, a), NEW size \in 0..pkt.packet_size, NEW stray \in Stray,
         NEW c, c = Received(size, stray)
  PROVE  /\ size >= 12 => FlagsSay(c, pkt)
         /\ pkt.extended /\ pkt.extension_offset + 4 <= size => HeaderSays(c, pkt)
         /\ HeaderCut(size) => Read16(c, pkt.extension_offset + 2) \in Nat
<1>1. Sized(pkt) /\ IsBuffer(buffer) /\ FlagsSay(buffer, pkt) /\ HeaderSays(buffer, pkt)
  BY Zenon DEF LaidOut, Octets
<1>2. /\ pkt.extension_offset \in Nat /\ size \in Nat /\ size <= Room /\ Room \in Nat
      /\ pkt.extended => pkt.extension_offset + 4 <= Room
  BY <1>1, OffsetsFit, RoomFits, SMT DEF Number16
<1>3. \A i \in Bytes : c[i] = IF i - size \in 0..3 THEN stray[i - size] ELSE buffer[i]
  BY <1>1, Zenon DEF Received, IsBuffer
<1>4. \A i \in Bytes : i < size => c[i] = buffer[i]
  <2>1. ASSUME NEW i \in Bytes, i < size
        PROVE  i - size \notin 0..3
    BY <1>2, <2>1, SMT DEF Bytes
  <2> QED BY <1>3, <2>1, Zenon
<1>5. \A k \in 0..3 : size + k \in Bytes => c[size + k] \in Nat
  <2>1. ASSUME NEW k \in 0..3
        PROVE  (size + k) - size = k /\ stray[k] \in Nat
    <3>1. stray \in [0..3 -> 0..255]
      BY ValuesAssumption
    <3> QED BY <1>2, <3>1
  <2> QED BY <1>3, <2>1, Zenon
<1>6. ASSUME size >= 12
      PROVE  FlagsSay(c, pkt)
  <2>1. 0 \in Bytes /\ 0 < size
    BY <1>2, <1>6, SMT DEF Bytes
  <2> QED BY <1>1, <1>4, <2>1, Zenon DEF FlagsSay
<1>7. ASSUME pkt.extended, pkt.extension_offset + 4 <= size
      PROVE  HeaderSays(c, pkt)
  <2>1. \A k \in 0..3 : pkt.extension_offset + k \in Bytes /\ pkt.extension_offset + k < size
    BY <1>2, <1>7, SMT DEF Bytes
  <2>2. \A k \in 0..3 : c[pkt.extension_offset + k] = buffer[pkt.extension_offset + k]
    BY <1>4, <2>1, Zenon
  <2> QED BY <1>1, <1>2, <2>2, HeaderStays, SMT DEF SameHeader
<1>8. ASSUME HeaderCut(size)
      PROVE  Read16(c, pkt.extension_offset + 2) \in Nat
  <2>1. PICK at \in Nat : at = pkt.extension_offset
    BY <1>2
  <2>2. at <= size /\ size < at + 4 /\ at + 4 <= Room /\ buffer[at + 2] \in Nat
    BY <1>1, <1>2, <1>8, <2>1, Zenon DEF HeaderCut, HeaderSays
  <2>3. PICK k \in 0..3 : at + 3 = size + k
    <3>1. at + 3 - size \in 0..3 /\ at + 3 = size + (at + 3 - size)
      BY <1>2, <2>2, SMT
    <3> QED BY <3>1, Zenon
  <2>4. at + 2 \in Bytes /\ at + 3 \in Bytes
    BY <1>2, <2>2, SMT DEF Bytes
  <2>5. c[at + 3] \in Nat
    BY <1>5, <2>3, <2>4, Zenon
  <2>6. CASE k = 0
    <3>1. at + 2 < size
      BY <1>2, <2>3, <2>6, SMT
    <3>2. c[at + 2] \in Nat
      BY <1>4, <2>2, <2>4, <3>1, Zenon
    <3> QED BY <2>1, <2>5, <3>2, SMT DEF Read16
  <2>7. CASE k # 0
    <3>1. k - 1 \in 0..3 /\ at + 2 = size + (k - 1)
      BY <1>2, <2>3, <2>7, SMT
    <3>2. c[at + 2] \in Nat
      BY <1>5, <2>4, <3>1, Zenon
    <3> QED BY <2>1, <2>5, <3>2, SMT DEF Read16
  <2> QED BY <2>6, <2>7
<1> QED BY <1>6, <1>7, <1>8

LEMMA LaidOutIsCut == LayoutInv => CutIsNoticed
<1> SUFFICES ASSUME LayoutInv, whole, asked.padding = 0, NEW size \in 0..pkt.packet_size,
                    NEW stray \in Stray
             PROVE  LET r == parse(Received(size, stray), size)
                    IN IF size >= pkt.payload_offset
                         THEN /\ r.result = "kSuccess" /\ r.offset = pkt.payload_offset
                              /\ r.offset + r.size = size
                       ELSE IF HeaderCut(size) THEN r.result = "kSuccess" => r.offset + r.size = size
                       ELSE r.result # "kSuccess"
  BY Zenon DEF CutIsNoticed
<1>1. LaidOut(buffer, pkt, asked)
  BY DEF LayoutInv
<1>2. Sized(pkt) /\ pkt.padding = 0
  BY <1>1, Zenon DEF LaidOut, AskedFor
<1>3. /\ size \in 0..Room /\ size \in Nat
      /\ pkt.payload_offset \in Nat /\ pkt.extension_offset \in Nat
      /\ 12 <= pkt.extension_offset /\ pkt.extension_offset <= pkt.payload_offset
      /\ pkt.extended => pkt.extension_offset + 4 <= pkt.payload_offset
      /\ ~pkt.extended => pkt.payload_offset = pkt.extension_offset
  BY <1>2, OffsetsFit, RoomFits, SMT DEF Number16
<1>4. PICK c : c = Received(size, stray)
  OBVIOUS
<1>5. PICK r : r = parse(c, size)
  OBVIOUS
<1>6. /\ size >= 12 => FlagsSay(c, pkt)
      /\ pkt.extended /\ pkt.extension_offset + 4 <= size => HeaderSays(c, pkt)
      /\ HeaderCut(size) => Read16(c, pkt.extension_offset + 2) \in Nat
  BY <1>1, <1>4, ReceivedSays, Zenon
<1>7. CASE size >= pkt.payload_offset
  <2>1. FlagsSay(c, pkt) /\ HeaderSays(c, pkt)
    <3>1. size >= 12 /\ (pkt.extended => pkt.extension_offset + 4 <= size)
      BY <1>3, <1>7, SMT
    <3>2. ~pkt.extended => HeaderSays(c, pkt)
      BY Zenon DEF HeaderSays
    <3> QED BY <1>6, <3>1, <3>2, Zenon
  <2>2. PICK padding \in Nat : padding = 0
    OBVIOUS
  <2>3. r = Found(c, size, padding, ExtensionOf(pkt), pkt.payload_offset)
    <3>1. /\ padding = IF pkt.padding > 0 THEN c[size - 1] ELSE 0
          /\ ~(pkt.padding > 0)
          /\ pkt.payload_offset + padding <= size
      BY <1>2, <1>3, <1>7, <2>2, SMT
    <3> QED BY <1>2, <1>3, <1>5, <2>1, <3>1, ParseFinds, Zenon
  <2>4. r.result = "kSuccess" /\ r.offset = pkt.payload_offset
        /\ r.size = Narrow(size - pkt.payload_offset - padding)
    <3>1. IsFound(r, c, size, padding, ExtensionOf(pkt), pkt.payload_offset)
      BY <2>3, FoundParts, Zenon
    <3> QED BY <3>1, Zenon DEF IsFound
  <2>5. size - pkt.payload_offset - padding \in 0..Room
        /\ pkt.payload_offset + (size - pkt.payload_offset - padding) = size
    BY <1>3, <1>7, <2>2, RoomFits, SMT DEF Number16
  <2>6. r.offset + r.size = size
    BY <2>4, <2>5, NarrowKeeps, Zenon
  <2> QED BY <1>4, <1>5, <1>7, <2>4, <2>6, Zenon
<1>8. CASE ~(size >= pkt.payload_offset) /\ HeaderCut(size)
  <2>1. pkt.extended /\ pkt.extension_offset <= size /\ size >= 12
    <3>1. pkt.extended /\ pkt.extension_offset <= size
      BY <1>8, Zenon DEF HeaderCut
    <3> QED BY <1>3, <3>1, SMT
  <2>2. r.result = "kSuccess" => r.offset + r.size = size
    BY <1>2, <1>3, <1>5, <1>6, <1>8, <2>1, ParseStaysWithin, Zenon
  <2> QED BY <1>4, <1>5, <1>8, <2>2, Zenon
<1>9. CASE ~(size >= pkt.payload_offset) /\ ~HeaderCut(size)
  <2>1. r.result # "kSuccess"
    <3>1. CASE size < 12
      BY <1>3, <1>5, <3>1, ParseRefusesFew, Zenon
    <3>2. CASE ~(size < 12) /\ size < pkt.extension_offset
      <4>1. size >= 12
        BY <1>3, <3>2, SMT
      <4> QED BY <1>2, <1>3, <1>5, <1>6, <3>2, <4>1, ParseRefusesSources, Zenon
    <3>3. CASE ~(size < 12) /\ ~(size < pkt.extension_offset)
      <4>1. pkt.extended
        BY <1>3, <1>9, <3>3, SMT
      <4>2. pkt.extension_offset <= size /\ size >= 12 /\ pkt.payload_offset > size
        BY <1>3, <1>9, <3>3, SMT
      <4>3. pkt.extension_offset + 4 <= size
        <5>1. ~(size < pkt.extension_offset + 4)
          BY <1>9, <4>1, <4>2, Zenon DEF HeaderCut
        <5> QED BY <1>3, <5>1, SMT
      <4> QED BY <1>2, <1>3, <1>5, <1>6, <4>1, <4>2, <4>3, ParseRefusesExtension, Zenon
    <3> QED BY <3>1, <3>2, <3>3, Zenon
  <2> QED BY <1>4, <1>5, <1>9, <2>1, Zenon
<1> QED BY <1>7, <1>8, <1>9, Zenon

(* What the sender asked for is what the receiver finds, payload included, for
   every number of sources and every size that 16 bits have room for. *)
THEOREM WhatIsAskedIsRead == Spec => []ReadsBack
BY Layout, LaidOutIsRead, PTL

(* A packet without padding that arrives cut, whatever lies behind it, is refused,
   or only its payload is shorter; but for one cut within the header of the
   extension, or before it, of which only the end of the payload is certain. *)
THEOREM CutsAreNoticed == Spec => []CutIsNoticed
BY Layout, LaidOutIsCut, PTL

(* Why that one is excepted: of twelve octets that announce an extension, and of
   four behind them that read as a length of 16380 words, the offset of the payload
   is cut to 0 and passes the check.  The packet is accepted, all of it as payload
   (a debug build stops at the assertion of narrow_cast). *)
THEOREM CutHeaderIsAccepted ==
  ASSUME NEW b \in [0..15 -> 0..255], b[0] = 144, b[14] = 63, b[15] = 252
  PROVE  LET r == parse(b, 12)
         IN r.result = "kSuccess" /\ r.offset = 0 /\ r.size = 12
<1> DEFINE r == parse(b, 12)
<1>1. PICK size, none, length : size = 12 /\ none = 0 /\ length = 16380
  OBVIOUS
<1>2. on_parse(size) = size
  BY <1>1, SMT DEF on_parse, Narrow
<1>3. /\ Version(b[0]) = 2 /\ ~Has(b[0], Padded) /\ Has(b[0], Extended)
      /\ csrc_count(b) = 0
  BY SMT DEF Version, Has, Padded, Extended, csrc_count
<1>4. kFixedRTPSize + csrc_list_size(b) = size
  BY <1>1, <1>3 DEF csrc_list_size, kFixedRTPSize, kCsrcIdsize
<1>5. ~(size < kFixedRTPSize) /\ ~(size < 0 + kFixedRTPSize) /\ ~(size > size)
  BY <1>1 DEF kFixedRTPSize
<1>6. r = parse_extension(b, size, none, size)
  <2>1. r = parse(b, size)
    BY <1>1
  <2> HIDE DEF r
  <2>2. r = parse_pkt(b, size)
    BY <1>2, <2>1, Zenon DEF parse
  <2>3. r = parse_extension(b, size, 0, size)
    BY <1>3, <1>4, <1>5, <2>2, ZenonT(60) DEF parse_pkt
  <2> QED BY <1>1, <2>3
<1>7. Read16(b, size + 2) = length
  BY <1>1, SMT DEF Read16
<1>8. Narrow(size + size_bytes(length)) = none /\ ~(none > size)
  BY <1>1, SMT DEF Narrow, size_bytes
<1>9. r = Found(b, size, none, <<Read16(b, size), length>>, none)
  <2> HIDE DEF r
  <2> QED BY <1>6, <1>7, <1>8, Zenon DEF parse_extension
<1>10. IsFound(r, b, size, none, <<Read16(b, size), length>>, none)
  <2> HIDE DEF r
  <2> QED BY <1>9, FoundParts, Zenon
<1>11. Narrow(size - none - none) = size
  BY <1>1, SMT DEF Narrow
<1>12. r.result = "kSuccess" /\ r.offset = none /\ r.size = size
  <2> HIDE DEF r
  <2> QED BY <1>10, <1>11, Zenon DEF IsFound
<1> QED BY <1>1, <1>12
=============================================================================
