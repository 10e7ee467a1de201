------------------------------ MODULE MCRtpPacket -------------------------------
(* The values RtpPacket is checked with, of distinct octets. *)
EXTENDS RtpPacket

MCCsrcIds      == [i \in 1..MaxCsrc |-> 66051 * i]
MCExtensionIds == {258}
MCFixedFields  == [marker : BOOLEAN, type : {111}, sequence : {515}, timestamp : {16909060},
                   ssrc : {84281096}]
MCPayload      == [i \in 1..MaxPayload |-> 160 + i]

(* No length, one that does not fit, and one whose offset does not fit in 16 bits,
   read at once or in part from the header that was cut. *)
MCStray == {[i \in 0..3 |-> s[i + 1]] :
             s \in {<<0, 0, 0, 0>>, <<7, 7, 7, 7>>, <<0, 0, 63, 252>>, <<0, 63, 252, 0>>,
                    <<63, 252, 0, 0>>, <<252, 255, 255, 255>>}}
=============================================================================
