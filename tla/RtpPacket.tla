------------------------------ MODULE RtpPacket -------------------------------
(***************************************************************************)
(* The packet of RtpCpp, octet by octet: the setters with which a sender   *)
(* lays out a packet in place, each moving what lies behind the part it    *)
(* changes, and parse, with which WebRtc::Session finds the payload of     *)
(* what it has received.  The packet is the one over a buffer that grows   *)
(* (DynamicRtpPacket); the buffer here has the room the bounds allow.      *)
(***************************************************************************)
EXTENDS Integers, Sequences

CONSTANTS
  MaxCsrc,      \* bound on the contributing sources
  MaxWords,     \* bound on the length of the header extension
  MaxPayload,   \* bound on the size of the payload
  MaxPadding,   \* bound on the octets of padding
  CsrcIds,      \* the contributing sources, of which the first few are listed
  ExtensionIds, \* ids of header extensions
  FixedFields,  \* what the fixed fields are set to
  Payload,      \* the octets the sender writes
  Stray         \* four octets each that may lie behind what was received

ASSUME BoundsAssumption ==
  /\ MaxCsrc \in 0..15 /\ MaxPadding \in 0..255
  /\ MaxWords \in Nat /\ MaxPayload \in Nat

VARIABLES
  buffer,   \* buffer_
  pkt,      \* the other private members, but for what of fields_ is only written
  asked,    \* history: what the setters were asked for
  whole     \* history: no part was taken off again (see ReadsBack)

vars == <<buffer, pkt, asked, whole>>

kFixedRTPSize == 12
kCsrcIdsize   == 4
kMaxCsrcIds   == 15

Room  == kFixedRTPSize + kCsrcIdsize * MaxCsrc + 4 + 4 * MaxWords + MaxPayload + MaxPadding

(* narrow_cast asserts that an offset or a size has a place in 16 bits. *)
ASSUME RoomAssumption == Room <= 65535

(* The numbers of two octets and of four: the types of the setters' arguments. *)
Number16 == {n \in Nat : n < 65536}
Number32 == {n \in Nat : n \div 65536 < 65536}

ASSUME ValuesAssumption ==
  /\ CsrcIds \in [1..MaxCsrc -> Number32]
  /\ ExtensionIds \subseteq Number16
  /\ FixedFields \subseteq [marker : BOOLEAN, type : 0..127, sequence : Number16,
                            timestamp : Number32, ssrc : Number32]
  /\ Payload \in [1..MaxPayload -> 0..255]
  /\ Stray \subseteq [0..3 -> 0..255]

-----------------------------------------------------------------------------
(* Octets: read_big_endian and write_big_endian, memmove, and the flags. *)

Read16(b, i) == 256 * b[i] + b[i + 1]
Read32(b, i) == 65536 * Read16(b, i) + Read16(b, i + 2)
Big16(v) == <<(v \div 256) % 256, v % 256>>
Big32(v) == Big16(v \div 65536) \o Big16(v % 65536)

Put(b, at, octets) ==
  [i \in DOMAIN b |-> IF i - at \in 0..(Len(octets) - 1) THEN octets[i - at + 1] ELSE b[i]]

Move(b, to, from, amount) ==
  [i \in DOMAIN b |-> IF i - to \in 0..(amount - 1) THEN b[from + (i - to)] ELSE b[i]]

Marker    == 128
Padded    == 32
Extended  == 16
Has(o, bit) == (o \div bit) % 2 = 1
With(o, bit, flag) ==
  o - (IF Has(o, bit) THEN bit ELSE 0) + (IF flag THEN bit ELSE 0)

Flag(b, bit, flag) == [b EXCEPT ![0] = With(@, bit, flag)]

(* What lies behind the packet is nobody's, and taken to be 0. *)
Trim(b, size) == [i \in DOMAIN b |-> IF i < size THEN b[i] ELSE 0]

size_bytes(length) == 4 + 4 * length

-----------------------------------------------------------------------------
(* parse, of the first size octets of the memory b into a new packet. *)

Fail(result) == [result |-> result]

Version(o) == o \div 64
csrc_count(b) == b[0] % 16
csrc_list_size(b) == kCsrcIdsize * csrc_count(b)

(* extract_csrc. *)
Csrcs(b, count) == [i \in 1..count |-> Read32(b, kFixedRTPSize + kCsrcIdsize * (i - 1))]

(* The narrow_cast of the offsets and sizes; a debug build asserts that nothing
   is cut off. *)
Narrow(n) == n % 65536

on_parse(size) == Narrow(size)
calculate_payload_size(size, offset, padding) == Narrow(size - offset - padding)

(* What parse has found when it succeeds, the payload at offset. *)
Found(b, size, padding, extension, offset) ==
  [result     |-> "kSuccess",
   csrc       |-> Csrcs(b, csrc_count(b)),
   extension  |-> extension,
   padding    |-> padding,
   marker     |-> Has(b[1], Marker),
   type       |-> b[1] % 128,
   sequence   |-> Read16(b, 2),
   timestamp  |-> Read32(b, 4),
   ssrc       |-> Read32(b, 8),
   offset     |-> offset,
   size       |-> calculate_payload_size(size, offset, padding)]

(* The four octets of the header are read whether they are below size or not. *)
parse_extension(b, size, padding, at) ==
  LET length == Read16(b, at + 2)
      offset == Narrow(at + size_bytes(length))
  IN IF offset > size THEN Fail("kParseExtensionOverflow")
     ELSE Found(b, size, padding, <<Read16(b, at), length>>, offset)

(* Mutant: the list of sources is not checked against the size. *)
parse_unchecked(b, size) ==
  LET padding == IF Has(b[0], Padded) THEN b[size - 1] ELSE 0
      sources == kFixedRTPSize + csrc_list_size(b)
  IN IF size < kFixedRTPSize THEN Fail("kBufferTooSmall")
     ELSE IF Has(b[0], Extended) THEN parse_extension(b, size, padding, sources)
     ELSE Found(b, size, padding, <<>>, sources)

parse_pkt(b, size) ==
  LET padding == IF Has(b[0], Padded) THEN b[size - 1] ELSE 0
      sources == kFixedRTPSize + csrc_list_size(b)
  IN IF size < kFixedRTPSize THEN Fail("kBufferTooSmall")
     ELSE IF Version(b[0]) # 2 \/ (Has(b[0], Padded) /\ padding = 0) THEN Fail("kInvalidRtpHeader")
     ELSE IF size < padding + kFixedRTPSize \/ sources > size THEN Fail("kParseBufferOverflow")
     ELSE IF Has(b[0], Extended) THEN parse_extension(b, size, padding, sources)
     ELSE Found(b, size, padding, <<>>, sources)

parse(b, size) == parse_pkt(b, on_parse(size))

-----------------------------------------------------------------------------
(* The packet. *)

write_rtp_version(b) == [b EXCEPT ![0] = 128 + (@ % 64)]

Init ==
  /\ buffer = write_rtp_version([i \in 0..(Room - 1) |-> 0])
  /\ pkt = [count |-> 0, extended |-> FALSE, id |-> 0, length |-> 0, padding |-> 0,
            extension_offset |-> kFixedRTPSize, payload_offset |-> kFixedRTPSize,
            payload_size |-> 0, packet_size |-> kFixedRTPSize]
  /\ asked = [csrc |-> <<>>, extension |-> <<>>, padding |-> 0, marker |-> FALSE, type |-> 0,
              sequence |-> 0, timestamp |-> 0, ssrc |-> 0, size |-> 0, written |-> FALSE]
  /\ whole = TRUE

(* set_padding_bytes; for 0 it clears the bit only. *)
SetPadding(n) ==
  LET size == pkt.packet_size - pkt.padding + n
  IN /\ IF n > 0
          THEN /\ pkt' = [pkt EXCEPT !.packet_size = size, !.padding = n]
               /\ buffer' = Trim(Flag(Put(buffer, size - 1, <<n>>), Padded, TRUE), size)
          ELSE /\ buffer' = Flag(buffer, Padded, FALSE)
               /\ UNCHANGED pkt
     /\ asked' = [asked EXCEPT !.padding = n]
     /\ whole' = (whole /\ (n > 0 \/ pkt.padding = 0))

(* set_extension. *)
SetExtension(id, length) ==
  LET to     == pkt.extension_offset + size_bytes(length)
      amount == pkt.payload_size + pkt.padding
      moved  == Move(buffer, to, pkt.payload_offset, amount)
      header == Big16(id) \o Big16(length)
  IN /\ buffer' = Trim(Flag(Put(moved, pkt.extension_offset, header), Extended, TRUE), to + amount)
     /\ pkt' = [pkt EXCEPT !.extended = TRUE, !.id = id, !.length = length,
                           !.payload_offset = Narrow(to), !.packet_size = Narrow(to + amount)]
     /\ asked' = [asked EXCEPT !.extension = <<id, length>>]
     /\ UNCHANGED whole

(* set_extension of the id or of the length only; the other is 0 when there is
   no extension yet. *)
SetExtensionId(id)         == SetExtension(id, pkt.length)
SetExtensionLength(length) == SetExtension(pkt.id, length)

(* set_extension of none: the bit is cleared, the octets stay. *)
RemoveExtension ==
  /\ buffer' = Flag(buffer, Extended, FALSE)
  /\ pkt' = [pkt EXCEPT !.extended = FALSE, !.id = 0, !.length = 0]
  /\ asked' = [asked EXCEPT !.extension = <<>>]
  /\ whole' = (whole /\ ~pkt.extended)

(* set_payload_size, which leaves the octets of the payload to be written. *)
SetPayloadSize(n) ==
  LET size == pkt.payload_offset + n + pkt.padding
  IN /\ buffer' = Trim(Put(buffer, size - 1, <<pkt.padding>>), size)
     /\ pkt' = [pkt EXCEPT !.payload_size = n, !.packet_size = Narrow(size)]
     /\ asked' = [asked EXCEPT !.size = n, !.written = FALSE]
     /\ whole' = (whole /\ n + pkt.padding > 0)

(* The sender writes through payload(). *)
WritePayload ==
  /\ buffer' = Put(buffer, pkt.payload_offset, [i \in 1..pkt.payload_size |-> Payload[i]])
  /\ asked' = [asked EXCEPT !.written = TRUE]
  /\ UNCHANGED <<pkt, whole>>

ext_size(p) == IF p.extended THEN size_bytes(p.length) ELSE 0

(* The count in octet 0, and write_csrc. *)
PutCsrcs(b, ids) ==
  LET list == [i \in 1..(kCsrcIdsize * Len(ids)) |->
                 Big32(ids[((i - 1) \div kCsrcIdsize) + 1])[((i - 1) % kCsrcIdsize) + 1]]
  IN [Put(b, kFixedRTPSize, list) EXCEPT ![0] = (@ - (@ % 16)) + Len(ids)]

(* Mutant: the header extension stays where it is. *)
SetCsrcLeavingExtension(n) ==
  LET to     == kFixedRTPSize + kCsrcIdsize * n
      amount == pkt.payload_size + pkt.padding + ext_size(pkt)
      moved  == Move(buffer, to + ext_size(pkt), pkt.payload_offset, pkt.payload_size + pkt.padding)
      ids    == [i \in 1..n |-> CsrcIds[i]]
  IN /\ buffer' = Trim(PutCsrcs(moved, ids), to + amount)
     /\ pkt' = [pkt EXCEPT !.count = n, !.extension_offset = Narrow(to),
                           !.payload_offset = Narrow(to + ext_size(pkt)),
                           !.packet_size = Narrow(to + amount)]
     /\ asked' = [asked EXCEPT !.csrc = ids]
     /\ UNCHANGED whole

(* set_csrc of n sources: what lies behind the list is moved,
   the count set and the list written. *)
SetCsrc(n) ==
  LET to     == kFixedRTPSize + kCsrcIdsize * n
      amount == pkt.payload_size + pkt.padding + ext_size(pkt)
      moved  == Move(buffer, to, pkt.extension_offset, amount)
      ids    == [i \in 1..n |-> CsrcIds[i]]
  IN /\ buffer' = Trim(PutCsrcs(moved, ids), to + amount)
     /\ pkt' = [pkt EXCEPT !.count = n, !.extension_offset = Narrow(to),
                           !.payload_offset = Narrow(to + ext_size(pkt)),
                           !.packet_size = Narrow(to + amount)]
     /\ asked' = [asked EXCEPT !.csrc = ids]
     /\ UNCHANGED whole

(* set_marker, set_payload_type, set_sequence_number, set_timestamp, set_ssrc. *)
set_marker(b, flag)       == [b EXCEPT ![1] = With(@, Marker, flag)]
set_payload_type(b, t)    == [b EXCEPT ![1] = (@ - (@ % Marker)) + t]
set_sequence_number(b, v) == Put(b, 2, Big16(v))
set_timestamp(b, v)       == Put(b, 4, Big32(v))
set_ssrc(b, v)            == Put(b, 8, Big32(v))

(* The sender sets the fixed fields of f, which are octets of their own but for
   the two that share one. *)
SetFixed(f) ==
  /\ buffer' = set_ssrc(set_timestamp(set_sequence_number(set_marker(set_payload_type(
                 buffer, f.type), f.marker), f.sequence), f.timestamp), f.ssrc)
  /\ asked' = [part \in DOMAIN asked |-> IF part \in DOMAIN f THEN f[part] ELSE asked[part]]
  /\ UNCHANGED <<pkt, whole>>

(* commit_csrc, after the sender has put n sources into csrc_list(). *)
commit_csrc(n) == n <= kMaxCsrcIds /\ SetCsrc(n)

-----------------------------------------------------------------------------
Parts == \/ \E n \in 0..MaxPadding : SetPadding(n)
         \/ \E id \in ExtensionIds, length \in 0..MaxWords : SetExtension(id, length)
         \/ \E id \in ExtensionIds : SetExtensionId(id)
         \/ \E length \in 0..MaxWords : SetExtensionLength(length)
         \/ RemoveExtension
         \/ \E n \in 0..MaxPayload : SetPayloadSize(n)
         \/ WritePayload
         \/ \E n \in 0..MaxCsrc : commit_csrc(n)

Next == whole /\ (Parts \/ \E f \in FixedFields : SetFixed(f))

Spec == Init /\ [][Next]_vars
-----------------------------------------------------------------------------
(* Properties. *)

(* A packet laid out by the setters, in any order and with any number of
   changes, is read by parse as it was asked for: the payload Session relays is
   the one the sender wrote, however often the parts before it grew and shrank
   after it had been written.  The exception is a part that is taken off:
   set_padding_bytes(0) and set_extension of none clear a bit and leave the
   octets, which are read as payload, and set_payload_size(0) of a packet
   without padding writes its 0 over the last octet of the header. *)
ReadsBack ==
  whole =>
    LET r == parse(buffer, pkt.packet_size)
    IN /\ r.result = "kSuccess"
       /\ \A part \in DOMAIN asked \ {"written"} : r[part] = asked[part]
       /\ asked.written => \A i \in 1..r.size : buffer[r.offset + (i - 1)] = Payload[i]

(* The memory a packet of which size octets were received is parsed in: Session
   hands parse a span that ends there. *)
Received(size, stray) ==
  [i \in DOMAIN buffer |-> IF i - size \in 0..3 THEN stray[i - size] ELSE buffer[i]]

(* The header extension was cut within its four octets, or just before them. *)
HeaderCut(size) ==
  pkt.extended /\ pkt.extension_offset <= size /\ size < pkt.extension_offset + 4

(* A packet without padding that was cut is refused, or only its payload is
   shorter: no part of a header is taken for payload, nor the other way.  The
   exception is a header extension that was cut: its length is then read from what
   lies behind, and with some lengths the packet is accepted (CutHeaderIsAccepted),
   though never with a payload that goes beyond what was received. *)
CutIsNoticed ==
  whole /\ asked.padding = 0 =>
    \A size \in 0..pkt.packet_size, stray \in Stray :
      LET r == parse(Received(size, stray), size)
      IN IF size >= pkt.payload_offset
           THEN r.result = "kSuccess" /\ r.offset = pkt.payload_offset /\ r.offset + r.size = size
         ELSE IF HeaderCut(size) THEN r.result = "kSuccess" => r.offset + r.size = size
         ELSE r.result # "kSuccess"
=============================================================================
