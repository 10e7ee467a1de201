--------------------------- MODULE TranscodersProofs ---------------------------
(***************************************************************************)
(* Every codec has one owner, for any number of objects, calls of make and *)
(* frames.                                                                 *)
(***************************************************************************)
EXTENDS Transcoders, TLAPS

MakingType ==
  /\ making \in [stage : {"idle", "configure", "decoder"}, encoder : SUBSET Address]
  /\ making.stage = "idle" => making.encoder = {}
  /\ \A a, b \in making.encoder : a = b

Types ==
  /\ MakingType
  /\ exists \subseteq Object
  /\ encoder_ \in [Object -> SUBSET Address] /\ decoder_ \in [Object -> SUBSET Address]
  /\ took \in [Address -> Nat] /\ answered \in [Object -> Nat]

(* OneOwner address by address. *)
Owners ==
  /\ \A a : a \in encoders <=> a \in making.encoder \/ \E o \in exists : a \in encoder_[o]
  /\ \A a : a \in decoders <=> \E o \in exists : a \in decoder_[o]
  /\ \A a : a \notin encoders \/ a \notin decoders

Single ==
  \A o \in exists :
    /\ \A a, b \in encoder_[o] : a = b
    /\ \A a, b \in decoder_[o] : a = b
    /\ \A a \in encoder_[o] : a \notin making.encoder
    /\ \A p \in exists \ {o} : /\ \A a \in encoder_[o] : a \notin encoder_[p]
                               /\ \A a \in decoder_[o] : a \notin decoder_[p]

Covered == \A o \in exists : \A e \in encoder_[o], d \in decoder_[o] : answered[o] <= took[e] + took[d]

OwnerInv == Types /\ Owners /\ Single /\ Covered

USE DEF nullptr

-----------------------------------------------------------------------------
(* What the library allocates is nobody's yet, and its frames are counted anew. *)
LEMMA Fresh ==
  ASSUME OwnerInv, NEW a \in Free
  PROVE  /\ a \in Address /\ a \notin encoders /\ a \notin decoders /\ a \notin making.encoder
         /\ \A o \in exists : a \notin encoder_[o] /\ a \notin decoder_[o]
BY DEF OwnerInv, Owners, Free

LEMMA CreateOwner ==
  ASSUME OwnerInv, NEW a \in Address, CreateEncoder(a)
  PROVE  OwnerInv'
<1>1. /\ encoders' = encoders \cup {a} /\ took' = [took EXCEPT ![a] = 0]
      /\ making' = [stage |-> "configure", encoder |-> {a}]
      /\ UNCHANGED <<decoders, exists, encoder_, decoder_, answered>>
      /\ a \in Free /\ making.stage = "idle"
  BY DEF CreateEncoder, Idle
<1>2. making.encoder = {} /\ making'.encoder = {a}
  BY <1>1 DEF OwnerInv, Types, MakingType
<1>3. took' \in [Address -> Nat] /\ \A b \in Address : b # a => took'[b] = took[b]
  BY <1>1 DEF OwnerInv, Types
<1>4. Types'
  BY <1>1, <1>3 DEF OwnerInv, Types, MakingType
<1>5. Owners'
  BY <1>1, <1>2, Fresh DEF OwnerInv, Owners
<1>6. Single'
  BY <1>1, <1>2, Fresh DEF OwnerInv, Single
<1>7. Covered'
  BY <1>1, <1>3, Fresh DEF OwnerInv, Types, Covered
<1> QED BY <1>4, <1>5, <1>6, <1>7 DEF OwnerInv

LEMMA ConfiguredOwner ==
  ASSUME OwnerInv, Configured
  PROVE  OwnerInv'
<1>1. /\ making' = [making EXCEPT !.stage = "decoder"]
      /\ making \in [stage : {"idle", "configure", "decoder"}, encoder : SUBSET Address]
      /\ UNCHANGED <<encoders, decoders, exists, encoder_, decoder_, took, answered>>
  BY DEF OwnerInv, Types, MakingType, Configured, memory
<1>2. /\ making' \in [stage : {"idle", "configure", "decoder"}, encoder : SUBSET Address]
      /\ making'.encoder = making.encoder /\ making'.stage = "decoder"
  BY <1>1
<1> QED BY <1>1, <1>2 DEF OwnerInv, Types, MakingType, Owners, Single, Covered

(* The encoder of a make that fails is in no object. *)
LEMMA MakeFailsOwner ==
  ASSUME OwnerInv, MakeFails
  PROVE  OwnerInv'
<1>1. /\ encoders' = encoders \ making.encoder /\ making' = Idle /\ making'.encoder = {}
      /\ UNCHANGED <<decoders, exists, encoder_, decoder_, took, answered>>
  BY DEF MakeFails, Idle
<1>2. Types'
  BY <1>1 DEF OwnerInv, Types, MakingType, Idle
<1>3. Owners'
  BY <1>1 DEF OwnerInv, Owners, Single
<1> QED BY <1>1, <1>2, <1>3 DEF OwnerInv, Single, Covered

LEMMA MadeOwner ==
  ASSUME OwnerInv, NEW o \in Object, NEW a \in Address, Made(o, a)
  PROVE  OwnerInv'
<1>1. /\ o \notin exists /\ a \in Free /\ exists' = exists \cup {o}
      /\ encoders' = encoders /\ decoders' = decoders \cup {a}
      /\ making' = Idle /\ making'.encoder = {}
      /\ took' = [took EXCEPT ![a] = 0] /\ answered' = [answered EXCEPT ![o] = 0]
      /\ encoder_' = [encoder_ EXCEPT ![o] = making.encoder]
      /\ decoder_' = [decoder_ EXCEPT ![o] = {a}]
  BY DEF Made, Idle
<1>2. exists \subseteq Object /\ making.encoder \in SUBSET Address
  BY DEF OwnerInv, Types, MakingType
<1>3. /\ encoder_' \in [Object -> SUBSET Address] /\ decoder_' \in [Object -> SUBSET Address]
      /\ encoder_'[o] = making.encoder /\ decoder_'[o] = {a}
      /\ \A p \in exists : encoder_'[p] = encoder_[p] /\ decoder_'[p] = decoder_[p]
  BY <1>1, <1>2 DEF OwnerInv, Types
<1>4. /\ took' \in [Address -> Nat] /\ \A b \in Address : b # a => took'[b] = took[b]
      /\ answered' \in [Object -> Nat] /\ answered'[o] = 0
      /\ \A p \in exists : answered'[p] = answered[p]
  BY <1>1, <1>2 DEF OwnerInv, Types
<1>5. Types'
  BY <1>1, <1>2, <1>3, <1>4 DEF OwnerInv, Types, MakingType, Idle
<1>6. Owners'
  BY <1>1, <1>3, Fresh DEF OwnerInv, Owners
<1>7. Single'
  BY <1>1, <1>3, Fresh DEF OwnerInv, Single, Types, MakingType
<1>8. ASSUME NEW p \in exists', NEW e \in encoder_'[p], NEW d \in decoder_'[p]
      PROVE  answered'[p] <= took'[e] + took'[d]
  <2>1. e \in Address /\ d \in Address
    BY <1>1, <1>2, <1>3 DEF Types
  <2>2. CASE p = o
    BY <1>4, <2>1, <2>2
  <2>3. CASE p # o
    BY <1>1, <1>3, <1>4, <2>1, <2>3, Fresh DEF OwnerInv, Covered
  <2> QED BY <2>2, <2>3
<1> QED BY <1>5, <1>6, <1>7, <1>8 DEF OwnerInv, Covered

-----------------------------------------------------------------------------
(* What is moved into o is what the other object held. *)
LEMMA Taken ==
  ASSUME OwnerInv, NEW o \in Object, NEW other \in Object, o # other, Take(o, other)
  PROVE  /\ encoder_'[o] = encoder_[other] /\ encoder_'[other] = {}
         /\ decoder_'[o] = decoder_[other] /\ decoder_'[other] = {}
         /\ answered'[o] = answered[other]
         /\ \A p \in Object \ {o, other} : /\ encoder_'[p] = encoder_[p] /\ decoder_'[p] = decoder_[p]
                                           /\ answered'[p] = answered[p]
         /\ encoder_' \in [Object -> SUBSET Address] /\ decoder_' \in [Object -> SUBSET Address]
         /\ answered' \in [Object -> Nat]
<1>1. /\ encoder_ \in [Object -> SUBSET Address] /\ decoder_ \in [Object -> SUBSET Address]
      /\ answered \in [Object -> Nat] /\ {} \in SUBSET Address
  BY DEF OwnerInv, Types
<1>2. /\ encoder_' = [encoder_ EXCEPT ![o] = encoder_[other], ![other] = {}]
      /\ decoder_' = [decoder_ EXCEPT ![o] = decoder_[other], ![other] = {}]
      /\ answered' = [answered EXCEPT ![o] = answered[other], ![other] = 0]
  BY DEF Take
<1>3. /\ encoder_' \in [Object -> SUBSET Address] /\ decoder_' \in [Object -> SUBSET Address]
      /\ answered' \in [Object -> Nat]
  BY <1>1, <1>2
<1> QED BY <1>1, <1>2, <1>3

LEMMA MoveConstructOwner ==
  ASSUME OwnerInv, NEW o \in Object, NEW other \in Object, MoveConstruct(o, other)
  PROVE  OwnerInv'
<1>1. /\ o # other /\ other \in exists /\ o \notin exists /\ exists' = exists \cup {o} /\ Take(o, other)
      /\ UNCHANGED <<encoders, decoders, making, took>>
  BY DEF MoveConstruct, memory
<1>2. exists \subseteq Object
  BY DEF OwnerInv, Types
<1>3. Types'
  BY <1>1, Taken DEF OwnerInv, Types, MakingType
<1>4. Owners'
  BY <1>1, <1>2, Taken DEF OwnerInv, Owners
<1>5. Single'
  BY <1>1, <1>2, Taken DEF OwnerInv, Single
<1>6. Covered'
  BY <1>1, <1>2, Taken DEF OwnerInv, Covered
<1> QED BY <1>3, <1>4, <1>5, <1>6 DEF OwnerInv

(* What o held before it is assigned to is freed, and was in no other object. *)
LEMMA MoveAssignOwner ==
  ASSUME OwnerInv, NEW o \in Object, NEW other \in Object, MoveAssign(o, other)
  PROVE  OwnerInv'
<1>1. /\ o # other /\ other \in exists /\ o \in exists /\ Reset(o) /\ Take(o, other)
      /\ making = Idle /\ UNCHANGED <<making, exists, took>>
  BY DEF MoveAssign
<1>2. exists \subseteq Object /\ making.encoder = {}
  BY <1>1 DEF OwnerInv, Types, Idle
<1>3. Types'
  BY <1>1, Taken DEF OwnerInv, Types, MakingType
<1>4. Owners'
  BY <1>1, <1>2, Taken DEF OwnerInv, Owners, Single, Reset
<1>5. Single'
  BY <1>1, <1>2, Taken DEF OwnerInv, Single
<1>6. Covered'
  BY <1>1, <1>2, Taken DEF OwnerInv, Covered
<1> QED BY <1>3, <1>4, <1>5, <1>6 DEF OwnerInv

LEMMA DestroyOwner ==
  ASSUME OwnerInv, NEW o \in Object, Destroy(o)
  PROVE  OwnerInv'
<1>1. /\ o \in exists /\ exists' = exists \ {o} /\ Reset(o)
      /\ encoder_' = [encoder_ EXCEPT ![o] = {}] /\ decoder_' = [decoder_ EXCEPT ![o] = {}]
      /\ UNCHANGED <<making, took, answered>>
  BY DEF Destroy
<1>2. exists \subseteq Object /\ {} \in SUBSET Address
  BY DEF OwnerInv, Types
<1>3. /\ encoder_' \in [Object -> SUBSET Address] /\ decoder_' \in [Object -> SUBSET Address]
      /\ \A p \in exists' : encoder_'[p] = encoder_[p] /\ decoder_'[p] = decoder_[p]
  BY <1>1, <1>2 DEF OwnerInv, Types
<1>4. Types'
  BY <1>1, <1>3 DEF OwnerInv, Types, MakingType
<1>5. Owners'
  BY <1>1, <1>3 DEF OwnerInv, Owners, Single, Reset
<1>6. Single' /\ Covered'
  BY <1>1, <1>3 DEF OwnerInv, Single, Covered
<1> QED BY <1>4, <1>5, <1>6 DEF OwnerInv

-----------------------------------------------------------------------------
(* A frame counts for a codec of the object that was asked: of every pair of
   its codecs, which has one of each kind. *)
LEMMA CodesOwner ==
  ASSUME OwnerInv, NEW o \in Object, encode(o) \/ decode(o)
  PROVE  OwnerInv'
<1>1. PICK a : Codes(o, a) /\ a \in encoder_[o] \cup decoder_[o]
  BY DEF encode, decode
<1>2. /\ took' = [took EXCEPT ![a] = @ + 1]
      /\ answered' \in {answered, [answered EXCEPT ![o] = @ + 1]}
      /\ UNCHANGED <<encoders, decoders, making, exists, encoder_, decoder_>>
  BY <1>1 DEF Codes, memory
<1>3. o \in exists /\ exists \subseteq Object /\ a \in Address
  BY <1>1 DEF OwnerInv, Types, Codes
<1>4. /\ took' \in [Address -> Nat] /\ took'[a] = took[a] + 1
      /\ \A b \in Address : took[b] <= took'[b]
  BY <1>2, <1>3 DEF OwnerInv, Types
<1>5. /\ answered' \in [Object -> Nat] /\ answered'[o] <= answered[o] + 1
      /\ \A p \in exists \ {o} : answered'[p] = answered[p]
  BY <1>2, <1>3 DEF OwnerInv, Types
<1>6. Types'
  BY <1>2, <1>4, <1>5 DEF OwnerInv, Types, MakingType
<1>7. ASSUME NEW p \in exists, NEW e \in encoder_[p], NEW d \in decoder_[p]
      PROVE  answered'[p] <= took'[e] + took'[d]
  <2>1. /\ e \in Address /\ d \in Address /\ p \in Object
        /\ answered[p] <= took[e] + took[d] /\ took[e] \in Nat /\ took[d] \in Nat
        /\ took'[e] \in Nat /\ took'[d] \in Nat /\ answered[p] \in Nat /\ answered'[p] \in Nat
    BY <1>3, <1>4, <1>5 DEF OwnerInv, Types, Covered
  <2>2. took[e] <= took'[e] /\ took[d] <= took'[d]
    BY <1>4, <2>1
  <2>3. CASE p = o
    <3>1. e = a \/ d = a
      BY <1>1, <1>3, <2>3 DEF OwnerInv, Single
    <3> QED BY <1>4, <1>5, <2>1, <2>2, <2>3, <3>1
  <2>4. CASE p # o
    BY <1>5, <2>1, <2>2, <2>4
  <2> QED BY <2>3, <2>4
<1> QED BY <1>2, <1>6, <1>7 DEF OwnerInv, Owners, Single, Covered

-----------------------------------------------------------------------------
LEMMA OwnerInit == Init => OwnerInv
<1> SUFFICES ASSUME Init PROVE OwnerInv
  OBVIOUS
<1>1. Types
  BY DEF Init, Types, MakingType, Idle
<1>2. making.encoder = {} /\ exists = {} /\ encoders = {} /\ decoders = {}
  BY DEF Init, Idle
<1> QED BY <1>1, <1>2 DEF OwnerInv, Owners, Single, Covered

LEMMA OwnerStep == OwnerInv /\ [Next]_vars => OwnerInv'
<1> SUFFICES ASSUME OwnerInv, [Next]_vars PROVE OwnerInv'
  OBVIOUS
<1>1. CASE Configured \/ MakeFails
  BY <1>1, ConfiguredOwner, MakeFailsOwner
<1>2. ASSUME NEW a \in Address, CreateEncoder(a) \/ \E o \in Object : Made(o, a)
      PROVE  OwnerInv'
  BY <1>2, CreateOwner, MadeOwner
<1>3. ASSUME NEW o \in Object, Destroy(o) \/ encode(o) \/ decode(o)
      PROVE  OwnerInv'
  BY <1>3, DestroyOwner, CodesOwner
<1>4. ASSUME NEW o \in Object, NEW other \in Object, MoveConstruct(o, other) \/ MoveAssign(o, other)
      PROVE  OwnerInv'
  BY <1>4, MoveConstructOwner, MoveAssignOwner
<1>5. CASE UNCHANGED vars
  BY <1>5 DEF vars, memory, OwnerInv, Types, MakingType, Owners, Single, Covered
<1> QED BY <1>1, <1>2, <1>3, <1>4, <1>5 DEF Next

LEMMA OwnerOne == OwnerInv => OneOwner
<1> SUFFICES ASSUME OwnerInv PROVE OneOwner
  OBVIOUS
<1>1. encoders = making.encoder \cup UNION {encoder_[o] : o \in exists}
  BY DEF OwnerInv, Owners
<1>2. decoders = UNION {decoder_[o] : o \in exists} /\ encoders \cap decoders = {}
  BY DEF OwnerInv, Owners
<1> QED BY <1>1, <1>2 DEF OwnerInv, Single, Covered, OneOwner

(* However transcoders are made, moved, assigned and destroyed, with every way
   in which make may fail, nothing leaks and nothing is freed twice
   (OpusTranscoder.cpp, make, the move operations and reset). *)
THEOREM EachHasOneOwner == Spec => []OneOwner
BY OwnerInit, OwnerStep, OwnerOne, PTL DEF Spec
=============================================================================
