----------------------------- MODULE Transcoders ------------------------------
(***************************************************************************)
(* Audio::OpusTranscoder: who owns the encoder and the decoder that the    *)
(* Opus library allocates for it.  A transcoder made for a session moves   *)
(* from the result of make through an optional and a parameter into the    *)
(* Session; the objects it is moved out of are destroyed, and the library  *)
(* is to free each of the two once, with the last of them.                 *)
(*                                                                         *)
(* The io thread makes and moves transcoders, one at a time; a Session,    *)
(* and with it its transcoder, may decode and be destroyed on a thread of  *)
(* the RTC library meanwhile.  A pointer is the set of what it points to:  *)
(* one address, or none for nullptr.  Addresses are used again.            *)
(***************************************************************************)
EXTENDS Naturals

CONSTANTS
  Object,      \* places for an OpusTranscoder
  Address,     \* memory for the codecs
  MaxFrames    \* bound on the frames a codec takes

VARIABLES
  encoders,    \* encoders allocated by the library
  decoders,    \* decoders allocated by the library
  making,      \* the make in progress and the encoder it has
  exists,      \* objects constructed and not yet destroyed
  encoder_,    \* of each object
  decoder_,    \* of each object
  took,        \* frames each codec has coded
  answered     \* history: frames encode and decode answered to the user of each object

memory == <<encoders, decoders>>
vars   == <<memory, making, exists, encoder_, decoder_, took, answered>>

nullptr == {}
Idle    == [stage |-> "idle", encoder |-> nullptr]

Init ==
  /\ encoders = {} /\ decoders = {}
  /\ making = Idle
  /\ exists = {}
  /\ encoder_ = [o \in Object |-> nullptr] /\ decoder_ = [o \in Object |-> nullptr]
  /\ took = [a \in Address |-> 0] /\ answered = [o \in Object |-> 0]

-----------------------------------------------------------------------------
(* make.  An encoder that cannot be created leaves nothing behind. *)

Free == Address \ (encoders \cup decoders)

CreateEncoder(a) ==
  /\ making = Idle
  /\ a \in Free
  /\ encoders' = encoders \cup {a}
  /\ took' = [took EXCEPT ![a] = 0]
  /\ making' = [stage |-> "configure", encoder |-> {a}]
  /\ UNCHANGED <<decoders, exists, encoder_, decoder_, answered>>

(* configure_encoder: every setting was taken. *)
Configured ==
  /\ making.stage = "configure"
  /\ making' = [making EXCEPT !.stage = "decoder"]
  /\ UNCHANGED <<memory, exists, encoder_, decoder_, took, answered>>

(* A setting was refused, or there is no decoder: the encoder is freed and the
   error returned. *)
MakeFails ==
  /\ making.stage # "idle"
  /\ encoders' = encoders \ making.encoder
  /\ making' = Idle
  /\ UNCHANGED <<decoders, exists, encoder_, decoder_, took, answered>>

Made(o, a) ==
  /\ making.stage = "decoder"
  /\ o \notin exists /\ a \in Free
  /\ decoders' = decoders \cup {a}
  /\ took' = [took EXCEPT ![a] = 0]
  /\ exists' = exists \cup {o}
  /\ encoder_' = [encoder_ EXCEPT ![o] = making.encoder]
  /\ decoder_' = [decoder_ EXCEPT ![o] = {a}]
  /\ answered' = [answered EXCEPT ![o] = 0]
  /\ making' = Idle
  /\ UNCHANGED encoders

-----------------------------------------------------------------------------
(* Moves and the end. *)

(* reset frees what o holds. *)
Reset(o) == encoders' = encoders \ encoder_[o] /\ decoders' = decoders \ decoder_[o]

(* What other holds goes to o, and other is left with nothing. *)
Take(o, other) ==
  /\ encoder_' = [encoder_ EXCEPT ![o] = encoder_[other], ![other] = nullptr]
  /\ decoder_' = [decoder_ EXCEPT ![o] = decoder_[other], ![other] = nullptr]
  /\ answered' = [answered EXCEPT ![o] = answered[other], ![other] = 0]

MoveConstruct(o, other) ==
  /\ making = Idle
  /\ other \in exists /\ o \notin exists
  /\ exists' = exists \cup {o}
  /\ Take(o, other)
  /\ UNCHANGED <<memory, making, took>>

(* operator=; of an object to itself nothing. *)
MoveAssign(o, other) ==
  /\ making = Idle
  /\ o \in exists /\ other \in exists /\ o # other
  /\ Reset(o)
  /\ Take(o, other)
  /\ UNCHANGED <<making, exists, took>>

Destroy(o) ==
  /\ o \in exists
  /\ Reset(o)
  /\ exists' = exists \ {o}
  /\ encoder_' = [encoder_ EXCEPT ![o] = nullptr]
  /\ decoder_' = [decoder_ EXCEPT ![o] = nullptr]
  /\ UNCHANGED <<making, took, answered>>

-----------------------------------------------------------------------------
(* A frame that the codec at a, of object o, is asked for.  One of the wrong
   size is refused before the codec sees it; of the others the codec may reject
   one, or make of it not the 160 octets or 960 samples that are wanted, and is
   not asked again. *)
Codes(o, a) ==
  /\ o \in exists
  /\ took[a] < MaxFrames
  /\ took' = [took EXCEPT ![a] = @ + 1]
  /\ answered' \in {answered, [answered EXCEPT ![o] = @ + 1]}
  /\ UNCHANGED <<memory, making, exists, encoder_, decoder_>>

encode(o) == \E a \in encoder_[o] : Codes(o, a)
decode(o) == \E a \in decoder_[o] : Codes(o, a)

-----------------------------------------------------------------------------
Next ==
  \/ \E a \in Address : CreateEncoder(a) \/ \E o \in Object : Made(o, a)
  \/ Configured \/ MakeFails
  \/ \E o \in Object :
       \/ Destroy(o) \/ encode(o) \/ decode(o)
       \/ \E other \in Object : MoveConstruct(o, other) \/ MoveAssign(o, other)

Spec == Init /\ [][Next]_vars
-----------------------------------------------------------------------------
(* Properties. *)

(* Every codec that is allocated has exactly one owner, an object or the make in
   progress, and every pointer is to a codec of its kind that is allocated: none
   leaks, none is freed twice, and none is used after it was freed, whatever was
   moved or failed.  The frames an object has answered came from the codecs it
   still has: a move does not put a stream on another decoder. *)
OneOwner ==
  /\ encoders = making.encoder \cup UNION {encoder_[o] : o \in exists}
  /\ decoders = UNION {decoder_[o] : o \in exists}
  /\ encoders \cap decoders = {}
  /\ \A o \in exists :
       /\ encoder_[o] \cap making.encoder = {}
       /\ \A p \in exists \ {o} : /\ encoder_[o] \cap encoder_[p] = {}
                                  /\ decoder_[o] \cap decoder_[p] = {}
       /\ \A e \in encoder_[o], d \in decoder_[o] : answered[o] <= took[e] + took[d]
=============================================================================
