---------------------------- MODULE InboundProofs ----------------------------
(***************************************************************************)
(* Proofs about module Inbound: the client stays in step with the stream   *)
(* of the bridge, and the read loop implements PacketChannel.              *)
(***************************************************************************)
EXTENDS Inbound, SequenceTheorems, TLAPS

Key == "SM_KEY_EXCHANGE"

(***************************************************************************)
(* The inductive invariant.                                                *)
(***************************************************************************)
\* Between sessions nothing is left of the last one.
Fresh ==
    ~connected =>
        /\ ~is_encrypted /\ crypto = 0 /\ stage = "deaf" /\ left = 0 /\ stream = <<>>
        /\ faults = {} /\ ~out_of_step /\ exchange = "none" /\ ~public_key /\ sent = 0
        /\ got = <<>>

\* The frame that is read lacks what the read loop is about to read, and between
\* frames nothing is left over, unless a read has failed.
Remainder ==
    /\ stage = "fixed" => left = FixedRest(pkt.header) + pkt.size
    /\ stage = "dynamic" => left = pkt.size
    /\ stage = "data" => left = 1
    /\ stage \in {"task", "header", "size"} /\ left # 0 => "soft" \in faults

\* The mode of the read and the key.
Mode ==
    /\ stage \in {"size", "data"} => is_encrypted
    /\ stage \in {"header", "fixed", "dynamic"} => ~is_encrypted
    /\ is_encrypted => public_key /\ crypto = sessions
    /\ ~is_encrypted => crypto = 0
    /\ connected => sessions # 0

\* How far the exchange is at both ends.
Exchange ==
    /\ exchange = "secure" => public_key
    /\ public_key => exchange # "none" /\ (is_encrypted \/ "half" \in faults)
    /\ exchange = "keyed" /\ public_key => stream = <<>>

\* The frames on their way: the bridge's key is the last one in the clear.
Frames ==
    /\ exchange = "secure" => \A i \in 1..Len(stream) : stream[i].key = sessions
    /\ exchange # "secure" =>
          /\ \A i \in 1..Len(stream) :
                /\ stream[i].key = 0
                /\ stream[i].pkt.header = Key => exchange = "keyed" /\ i = Len(stream)
          /\ stage \in Middle /\ pkt.header = Key => exchange = "keyed" /\ stream = <<>>

Inv == TypeOK /\ Fresh /\ Remainder /\ Mode /\ Exchange /\ Frames /\ InStep

-----------------------------------------------------------------------------
LEMMA NoneInPacket == None \in Packet
BY InboundAssumption DEF None, Packet, Headers, Dynamic

\* What a packet is made of.
LEMMA PacketParts ==
    ASSUME NEW p, p \in Packet
    PROVE  /\ p.id \in 0..MaxPackets /\ p.header \in Headers
           /\ p.size \in Nat /\ p.size \in 0..MaxDynamic
           /\ p.header \notin Dynamic => p.size = 0
           /\ fixed_size(p.header) \in {1, 2}
BY InboundAssumption DEF Packet, fixed_size

\* The first frame and the others.
LEMMA HeadAndTail ==
    ASSUME NEW S, NEW s, s \in Seq(S), s # <<>>
    PROVE  /\ Head(s) \in S /\ Tail(s) \in Seq(S) /\ Head(s) = s[1]
           /\ Len(s) \in Nat \ {0} /\ Len(Tail(s)) = Len(s) - 1
           /\ \A i \in 1..Len(Tail(s)) : Tail(s)[i] = s[i + 1] /\ i + 1 \in 1..Len(s)
           /\ 1 \in 1..Len(s)
           /\ Len(s) = 1 => Tail(s) = <<>>
<1>1. /\ Head(s) \in S /\ Tail(s) \in Seq(S) /\ Len(Tail(s)) = Len(s) - 1
      /\ \A i \in 1..Len(Tail(s)) : Tail(s)[i] = s[i + 1]
  BY HeadTailProperties
<1>2. Len(s) \in Nat \ {0}
  BY EmptySeq
<1>3. Head(s) = s[1]
  OBVIOUS
<1>4. Len(s) = 1 => Tail(s) = <<>>
  <2>1. Tail(s) # <<>> => Len(Tail(s)) \in Nat \ {0}
    BY <1>1, EmptySeq
  <2> QED
    BY <1>1, <2>1
<1> QED
  BY <1>1, <1>2, <1>3, <1>4

LEMMA InitInv == Init => Inv
<1> SUFFICES ASSUME Init PROVE Inv
  OBVIOUS
<1>0. /\ <<>> \in Seq(Frame) /\ <<>> \in Seq(Packet) /\ 0 \in 0..MaxPackets
      /\ "deaf" \in Stages
  BY EmptySeq, InboundAssumption DEF Stages, Middle
<1>1. TypeOK
  BY <1>0, NoneInPacket DEF Init, TypeOK
<1>2. Fresh /\ Remainder /\ Mode /\ Exchange /\ Frames /\ InStep
  BY DEF Init, Fresh, Remainder, Mode, Exchange, Frames, InStep, Middle
<1> QED
  BY <1>1, <1>2 DEF Inv

-----------------------------------------------------------------------------
\* Posting a read ends the frame, and adds faults.
LEMMA PostReadEffect ==
    ASSUME TypeOK, NEW fs, fs \subseteq Faults, PostRead(fs)
    PROVE  /\ pkt' \in Packet /\ stage' \in {"task", "deaf"}
           /\ faults' \subseteq Faults /\ faults \subseteq faults' /\ fs \subseteq faults'
BY NoneInPacket DEF PostRead, TypeOK, Faults

\* What a handler may do: it changes the mode only for the bridge's key.
LEMMA HandleEffect ==
    ASSUME TypeOK, NEW p, p \in Packet, packet_handle(p)
    PROVE  /\ pkt' \in Packet /\ stage' \in {"task", "deaf"}
           /\ faults' \subseteq Faults /\ faults \subseteq faults'
           /\ got' = Append(got, p) /\ got' \in Seq(Packet)
           /\ UNCHANGED <<sessions, connected, exchange, sent>>
           /\ \/ UNCHANGED <<public_key, is_encrypted, crypto>>
              \/ /\ p.header = Key /\ public_key' = TRUE
                 /\ \/ /\ UNCHANGED <<is_encrypted, crypto>>
                       /\ is_encrypted \/ "half" \in faults'
                    \/ is_encrypted' = TRUE /\ crypto' = sessions
<1>1. got' = Append(got, p) /\ got' \in Seq(Packet) /\ UNCHANGED <<sessions, connected, exchange, sent>>
  BY DEF packet_handle, TypeOK
<1>2. CASE p.header # Key
  <2>1. PostRead({}) /\ UNCHANGED <<public_key, is_encrypted, crypto>>
    BY <1>2 DEF packet_handle, Key
  <2> QED
    BY <1>1, <2>1, PostReadEffect
<1>3. CASE p.header = Key
  <2>1. HandleKeyExchange
    BY <1>3 DEF packet_handle, Key
  <2>2. CASE UNCHANGED <<public_key, is_encrypted, crypto>> /\ PostRead({})
    BY <1>1, <2>2, PostReadEffect
  <2>3. CASE public_key' = TRUE /\ session_enable_encryption
    <3>1. CASE is_encrypted /\ UNCHANGED <<is_encrypted, crypto>> /\ PostRead({})
      BY <1>1, <1>3, <2>3, <3>1, PostReadEffect
    <3>2. CASE \E key \in {sessions, 0} : /\ key # 0 /\ is_encrypted' = TRUE /\ crypto' = key
                                          /\ PostRead({})
      BY <1>1, <1>3, <2>3, <3>2, PostReadEffect
    <3>3. CASE UNCHANGED <<is_encrypted, crypto>> /\ PostRead({"half"})
      <4>1. {"half"} \subseteq Faults
        BY DEF Faults
      <4> QED
        BY <1>1, <1>3, <2>3, <3>3, <4>1, PostReadEffect
    <3> QED
      BY <2>3, <3>1, <3>2, <3>3 DEF session_enable_encryption, computeSharedKey, initialize
  <2> QED
    BY <2>1, <2>2, <2>3 DEF HandleKeyExchange
<1> QED
  BY <1>2, <1>3

\* A packet that has been read to its end is handled.
LEMMA HandledInv ==
    ASSUME Inv, connected, ~out_of_step, stage \in Middle, packet_handle(pkt),
           left' = 0, UNCHANGED <<stream, out_of_step>>
    PROVE  Inv'
<1> USE DEF Inv
<1>0. pkt \in Packet /\ pkt.header \in Headers
  BY PacketParts DEF TypeOK
<1>1. /\ pkt' \in Packet /\ stage' \in {"task", "deaf"}
      /\ faults' \subseteq Faults /\ faults \subseteq faults'
      /\ got' = Append(got, pkt) /\ got' \in Seq(Packet)
      /\ UNCHANGED <<sessions, connected, exchange, sent>>
      /\ \/ UNCHANGED <<public_key, is_encrypted, crypto>>
         \/ /\ pkt.header = Key /\ public_key' = TRUE
            /\ \/ /\ UNCHANGED <<is_encrypted, crypto>>
                  /\ is_encrypted \/ "half" \in faults'
               \/ is_encrypted' = TRUE /\ crypto' = sessions
  BY <1>0, HandleEffect
<1>2. TypeOK'
  BY <1>1 DEF TypeOK, Stages
<1>3. Fresh'
  BY <1>1 DEF Fresh
<1>4. Remainder'
  BY <1>1 DEF Remainder
<1>5. Mode'
  BY <1>1 DEF Mode, TypeOK
<1>6. Exchange'
  BY <1>1 DEF Exchange, Frames, TypeOK
<1>7. Frames'
  BY <1>1 DEF Frames, Middle
<1>8. InStep'
  BY <1>1 DEF InStep
<1> QED
  BY <1>2, <1>3, <1>4, <1>5, <1>6, <1>7, <1>8

-----------------------------------------------------------------------------
LEMMA SessionStartInv == ASSUME Inv, SessionStart PROVE Inv'
<1> USE DEF SessionStart, client, bridge, Inv
<1>1. TypeOK'
  BY DEF TypeOK, Stages
<1>2. Fresh' /\ Remainder' /\ Mode' /\ Exchange' /\ InStep'
  BY DEF Fresh, Remainder, Mode, Exchange, InStep, TypeOK
<1>3. Frames'
  BY DEF Fresh, Frames, Middle
<1> QED
  BY <1>1, <1>2, <1>3

LEMMA SessionStopInv == ASSUME Inv, SessionStop PROVE Inv'
<1> USE DEF SessionStop, ResetCrypto, Inv
<1>0. /\ <<>> \in Seq(Frame) /\ <<>> \in Seq(Packet) /\ 0 \in 0..MaxPackets
  BY EmptySeq, InboundAssumption
<1>1. TypeOK'
  BY <1>0, NoneInPacket DEF TypeOK, Stages
<1>2. Fresh' /\ Remainder' /\ Mode' /\ Exchange' /\ Frames' /\ InStep'
  BY DEF Fresh, Remainder, Mode, Exchange, Frames, InStep, Middle
<1> QED
  BY <1>1, <1>2

LEMMA ReadTaskInv == ASSUME Inv, ReadTask PROVE Inv'
<1> USE DEF ReadTask, ReadMode, client, bridge, Inv
<1>1. TypeOK'
  BY DEF TypeOK, Stages
<1>2. Fresh' /\ Remainder' /\ Mode' /\ Exchange' /\ InStep'
  BY DEF Fresh, Remainder, Mode, Exchange, InStep, TypeOK
<1>3. Frames'
  BY DEF Frames, Middle
<1> QED
  BY <1>1, <1>2, <1>3

\* The argument for InStep: a read begins at a frame of its own kind.
LEMMA LoseStepInv == ASSUME Inv, LoseStep PROVE Inv'
<1> USE DEF LoseStep, client, reader, bridge, Inv
<1>1. TypeOK'
  BY DEF TypeOK
<1>2. Fresh' /\ Remainder' /\ Mode' /\ Exchange' /\ Frames'
  BY DEF Fresh, Remainder, Mode, Exchange, Frames
<1>3. InStep'
  <2>1. CASE left # 0
    BY <2>1 DEF Remainder, InStep
  <2>2. CASE left = 0
    <3>1. stream # <<>> /\ stream \in Seq(Frame) /\ sessions # 0
      BY <2>2 DEF Mode, TypeOK
    <3>2. Head(stream) = stream[1] /\ 1 \in 1..Len(stream)
      BY <3>1, HeadAndTail
    <3>3. CASE stage = "header" /\ Head(stream).key # 0
      <4>1. exchange = "secure"
        BY <3>2, <3>3 DEF Frames
      <4> QED
        BY <3>3, <4>1 DEF Exchange, Mode, InStep, TypeOK
    <3>4. CASE stage = "size" /\ Head(stream).key = 0
      <4>1. exchange # "secure"
        BY <3>1, <3>2, <3>4 DEF Frames
      <4> QED
        BY <3>1, <3>4, <4>1 DEF Exchange, Mode, TypeOK
    <3> QED
      BY <2>2, <3>1, <3>3, <3>4 DEF AtFrame
  <2> QED
    BY <2>1, <2>2
<1> QED
  BY <1>1, <1>2, <1>3

\* What follows from taking the first frame off the stream.
LEMMA TakeFrame ==
    ASSUME Inv, stream # <<>>, stream' = Tail(stream), UNCHANGED <<exchange, sessions, public_key>>
    PROVE  /\ Head(stream).pkt \in Packet /\ stream' \in Seq(Frame)
           /\ exchange' = "secure" => \A i \in 1..Len(stream') : stream'[i].key = sessions'
           /\ exchange' # "secure" =>
                 /\ \A i \in 1..Len(stream') :
                       /\ stream'[i].key = 0
                       /\ stream'[i].pkt.header = Key => exchange' = "keyed" /\ i = Len(stream')
                 /\ Head(stream).pkt.header = Key => exchange' = "keyed" /\ stream' = <<>>
           /\ ~(exchange = "keyed" /\ public_key)
<1>1. stream \in Seq(Frame)
  BY DEF Inv, TypeOK
<1>2. /\ Head(stream) \in Frame /\ Tail(stream) \in Seq(Frame) /\ Head(stream) = stream[1]
      /\ Len(stream) \in Nat \ {0} /\ Len(Tail(stream)) = Len(stream) - 1
      /\ \A i \in 1..Len(Tail(stream)) : Tail(stream)[i] = stream[i + 1] /\ i + 1 \in 1..Len(stream)
      /\ 1 \in 1..Len(stream)
      /\ Len(stream) = 1 => Tail(stream) = <<>>
  BY <1>1, HeadAndTail
<1>3. Head(stream).pkt \in Packet
  BY <1>2 DEF Frame
<1>4. ~(exchange = "keyed" /\ public_key)
  BY DEF Inv, Exchange
<1>5. exchange' = "secure" => \A i \in 1..Len(stream') : stream'[i].key = sessions'
  BY <1>2 DEF Inv, Frames
<1>6. exchange' # "secure" => \A i \in 1..Len(stream') :
                       /\ stream'[i].key = 0
                       /\ stream'[i].pkt.header = Key => exchange' = "keyed" /\ i = Len(stream')
  <2> SUFFICES ASSUME exchange # "secure", NEW i \in 1..(Len(stream) - 1)
               PROVE  /\ Tail(stream)[i].key = 0
                      /\ Tail(stream)[i].pkt.header = Key => exchange = "keyed" /\ i = Len(stream) - 1
    BY <1>2
  <2>1. Tail(stream)[i] = stream[i + 1] /\ i + 1 \in 1..Len(stream)
    BY <1>2
  <2>2. /\ stream[i + 1].key = 0
        /\ stream[i + 1].pkt.header = Key => exchange = "keyed" /\ i + 1 = Len(stream)
    BY <2>1 DEF Inv, Frames
  <2>3. i + 1 = Len(stream) => i = Len(stream) - 1
    <3>1. i \in Int
      OBVIOUS
    <3> QED
      BY <3>1
  <2> QED
    BY <2>1, <2>2, <2>3
<1>7. exchange' # "secure" /\ Head(stream).pkt.header = Key => exchange' = "keyed" /\ stream' = <<>>
  BY <1>2 DEF Inv, Frames
<1> QED
  BY <1>2, <1>3, <1>4, <1>5, <1>6, <1>7

LEMMA ReadHeaderInv == ASSUME Inv, ReadHeader PROVE Inv'
<1> DEFINE p == Head(stream).pkt
<1>1. /\ connected /\ ~out_of_step /\ stage = "header" /\ left = 0 /\ stream # <<>>
      /\ stream' = Tail(stream)
      /\ UNCHANGED <<sessions, connected, is_encrypted, crypto, got, out_of_step,
                     exchange, public_key, sent>>
      /\ left' = fixed_size(p.header) + p.size - 1
      /\ \/ p.header = "UNKNOWN" /\ stage' = "deaf" /\ pkt' = None /\ faults' = faults \cup {"unknown"}
         \/ p.header # "UNKNOWN" /\ stage' = "fixed" /\ pkt' = p /\ UNCHANGED faults
  BY DEF ReadHeader, AtFrame, client, bridge
<1>2. /\ p \in Packet /\ stream' \in Seq(Frame)
      /\ exchange' = "secure" => \A i \in 1..Len(stream') : stream'[i].key = sessions'
      /\ exchange' # "secure" =>
            /\ \A i \in 1..Len(stream') :
                  /\ stream'[i].key = 0
                  /\ stream'[i].pkt.header = Key => exchange' = "keyed" /\ i = Len(stream')
            /\ p.header = Key => exchange' = "keyed" /\ stream' = <<>>
      /\ ~(exchange = "keyed" /\ public_key)
  BY <1>1, TakeFrame
<1>3. p.size \in Nat /\ fixed_size(p.header) \in {1, 2}
  BY <1>2, PacketParts
<1> HIDE DEF p
<1>4. TypeOK'
  <2>1. left' \in Nat
    BY <1>1, <1>3
  <2>2. faults' \subseteq Faults
    BY <1>1 DEF Inv, TypeOK, Faults
  <2>3. stage' \in Stages /\ pkt' \in Packet
    BY <1>1, <1>2, NoneInPacket DEF Stages, Middle
  <2> QED
    BY <1>1, <1>2, <2>1, <2>2, <2>3 DEF Inv, TypeOK
<1>5. Fresh' /\ Mode' /\ Exchange' /\ InStep'
  BY <1>1, <1>2 DEF Inv, Fresh, Mode, Exchange, InStep, TypeOK
<1>6. Remainder'
  BY <1>1, <1>3 DEF Remainder, FixedRest
<1>7. Frames'
  BY <1>1, <1>2 DEF Frames, Middle
<1> QED
  BY <1>4, <1>5, <1>6, <1>7 DEF Inv

LEMMA ReadSizeInv == ASSUME Inv, ReadSize PROVE Inv'
<1> DEFINE p == Head(stream).pkt
<1>1. /\ connected /\ ~out_of_step /\ stage = "size" /\ left = 0 /\ stream # <<>>
      /\ stream' = Tail(stream) /\ stage' = "data" /\ pkt' = p /\ left' = 1
      /\ UNCHANGED <<sessions, connected, is_encrypted, crypto, got, out_of_step, faults,
                     exchange, public_key, sent>>
  BY DEF ReadSize, AtFrame, client, bridge
<1>2. /\ p \in Packet /\ stream' \in Seq(Frame)
      /\ exchange' = "secure" => \A i \in 1..Len(stream') : stream'[i].key = sessions'
      /\ exchange' # "secure" =>
            /\ \A i \in 1..Len(stream') :
                  /\ stream'[i].key = 0
                  /\ stream'[i].pkt.header = Key => exchange' = "keyed" /\ i = Len(stream')
            /\ p.header = Key => exchange' = "keyed" /\ stream' = <<>>
      /\ ~(exchange = "keyed" /\ public_key)
  BY <1>1, TakeFrame
<1> HIDE DEF p
<1>4. TypeOK'
  BY <1>1, <1>2 DEF Inv, TypeOK, Stages, Middle
<1>5. Fresh' /\ Mode' /\ Exchange' /\ InStep'
  BY <1>1, <1>2 DEF Inv, Fresh, Mode, Exchange, InStep, TypeOK
<1>6. Remainder'
  BY <1>1 DEF Remainder
<1>7. Frames'
  BY <1>1, <1>2 DEF Frames, Middle
<1> QED
  BY <1>4, <1>5, <1>6, <1>7 DEF Inv

LEMMA ReadFixedInv == ASSUME Inv, ReadFixed PROVE Inv'
<1>1. pkt \in Packet /\ left = FixedRest(pkt.header) + pkt.size
  BY DEF ReadFixed, Inv, TypeOK, Remainder
<1>2. /\ pkt.size \in Nat /\ fixed_size(pkt.header) \in {1, 2}
      /\ pkt.header \notin Dynamic => pkt.size = 0
  BY <1>1, PacketParts
<1>3. left' = pkt.size
  BY <1>1, <1>2 DEF ReadFixed, FixedRest
<1>4. CASE pkt.header \in Dynamic
  <2>1. /\ stage = "fixed" /\ stage' = "dynamic" /\ connected
        /\ UNCHANGED <<sessions, connected, is_encrypted, crypto, pkt, stream, got,
                       out_of_step, faults, exchange, public_key, sent>>
    BY <1>4 DEF ReadFixed, client, bridge
  <2>2. TypeOK'
    BY <1>2, <1>3, <2>1 DEF Inv, TypeOK, Stages, Middle
  <2>3. Fresh' /\ Remainder' /\ Mode' /\ Exchange' /\ InStep'
    BY <1>3, <2>1 DEF Inv, Fresh, Remainder, Mode, Exchange, InStep
  <2>4. Frames'
    BY <2>1 DEF Inv, Frames, Middle
  <2> QED
    BY <2>2, <2>3, <2>4 DEF Inv
<1>5. CASE pkt.header \notin Dynamic
  <2>1. /\ connected /\ ~out_of_step /\ stage \in Middle /\ packet_handle(pkt)
        /\ left' = 0 /\ UNCHANGED <<stream, out_of_step>>
    BY <1>2, <1>3, <1>5 DEF ReadFixed, Middle
  <2> QED
    BY <2>1, HandledInv
<1> QED
  BY <1>4, <1>5

LEMMA ReadDynamicInv == ASSUME Inv, ReadDynamic PROVE Inv'
<1>1. pkt \in Packet /\ left = pkt.size
  BY DEF ReadDynamic, Inv, TypeOK, Remainder
<1>2. pkt.size \in Nat
  BY <1>1, PacketParts
<1>3. /\ connected /\ ~out_of_step /\ stage \in Middle /\ packet_handle(pkt)
      /\ left' = 0 /\ UNCHANGED <<stream, out_of_step>>
  BY <1>1, <1>2 DEF ReadDynamic, Middle
<1> QED
  BY <1>3, HandledInv

\* The read loop posts its next read, or ends, when all of a frame is read or
\* a read has failed.
LEMMA FrameEndsInv ==
    ASSUME Inv, connected, ~out_of_step, pkt' \in Packet, stage' \in {"task", "deaf"},
           faults' \subseteq Faults, faults \subseteq faults',
           left' \in Nat, left' = 0 \/ "soft" \in faults' \/ stage' = "deaf",
           UNCHANGED <<client, stream, got, out_of_step, bridge>>
    PROVE  Inv'
<1> USE DEF client, bridge
<1>1. TypeOK'
  BY DEF Inv, TypeOK, Stages
<1>2. Fresh' /\ Mode' /\ Exchange' /\ InStep'
  BY DEF Inv, Fresh, Mode, Exchange, InStep, TypeOK
<1>3. Remainder'
  BY DEF Remainder
<1>4. Frames'
  BY DEF Inv, Frames, Middle
<1> QED
  BY <1>1, <1>2, <1>3, <1>4 DEF Inv

LEMMA ReadDataInv == ASSUME Inv, ReadData PROVE Inv'
<1>1. /\ connected /\ ~out_of_step /\ stage \in Middle /\ left' = 0
      /\ UNCHANGED <<stream, out_of_step>>
  BY DEF ReadData, Inv, Remainder, Middle
<1>2. CASE packet_handle(pkt)
  BY <1>1, <1>2, HandledInv
<1>3. CASE /\ stage' = "deaf" /\ pkt' = None /\ faults' = faults \cup {"unknown"}
           /\ UNCHANGED <<client, got, bridge>>
  <2>1. faults' \subseteq Faults /\ faults \subseteq faults'
    BY <1>3 DEF Inv, TypeOK, Faults
  <2> QED
    BY <1>1, <1>3, <2>1, NoneInPacket, FrameEndsInv
<1>4. CASE PostRead({}) /\ UNCHANGED <<client, got, bridge>>
  <2>1. /\ pkt' \in Packet /\ stage' \in {"task", "deaf"}
        /\ faults' \subseteq Faults /\ faults \subseteq faults'
    BY <1>4, PostReadEffect DEF Inv
  <2> QED
    BY <1>1, <1>4, <2>1, FrameEndsInv
<1> QED
  BY <1>2, <1>3, <1>4 DEF ReadData

LEMMA SoftReadErrorInv == ASSUME Inv, SoftReadError PROVE Inv'
<1>1. {"soft"} \subseteq Faults
  BY DEF Faults
<1>2. /\ pkt' \in Packet /\ stage' \in {"task", "deaf"}
      /\ faults' \subseteq Faults /\ faults \subseteq faults' /\ {"soft"} \subseteq faults'
  BY <1>1, PostReadEffect DEF SoftReadError, Inv
<1>3. left' \in Nat
  BY DEF SoftReadError, Inv, TypeOK
<1> QED
  BY <1>2, <1>3, FrameEndsInv DEF SoftReadError

-----------------------------------------------------------------------------
\* A frame the bridge writes.
LEMMA WriteEffect ==
    ASSUME Inv, NEW key, key \in Nat, NEW headers, headers \subseteq Headers, Write(key, headers)
    PROVE  \E f \in Frame :
             /\ stream' = Append(stream, f) /\ f.key = key /\ f.pkt.header \in headers
             /\ sent' \in 0..MaxPackets
<1>1. PICK h \in headers, n \in 0..MaxDynamic :
        /\ h \notin Dynamic => n = 0
        /\ stream' = Append(stream,
              [pkt |-> [id |-> sent + 1, header |-> h, size |-> n], key |-> key])
  BY DEF Write
<1>2. sent + 1 \in 0..MaxPackets /\ sent' = sent + 1
  BY InboundAssumption DEF Write, Inv, TypeOK
<1> DEFINE p == [id |-> sent + 1, header |-> h, size |-> n]
<1>3. p \in Packet /\ p.header = h
  BY <1>1, <1>2 DEF Packet
<1> HIDE DEF p
<1>4. [pkt |-> p, key |-> key] \in Frame
  BY <1>3 DEF Frame
<1>5. stream' = Append(stream, [pkt |-> p, key |-> key])
  BY <1>1 DEF p
<1> WITNESS [pkt |-> p, key |-> key] \in Frame
<1> QED
  BY <1>2, <1>3, <1>5

\* A frame joins those on their way: as the invariant wants it.
LEMMA WriteInv ==
    ASSUME Inv, connected, NEW f, f \in Frame, stream' = Append(stream, f),
           sent' \in 0..MaxPackets,
           UNCHANGED <<client, stage, pkt, left, got, out_of_step, faults, public_key>>,
           \/ /\ exchange = "none" /\ exchange' = "none"
              /\ f.key = 0 /\ f.pkt.header # Key
           \/ exchange = "none" /\ exchange' = "keyed" /\ f.key = 0
           \/ exchange = "secure" /\ exchange' = "secure" /\ f.key = sessions
    PROVE  Inv'
<1> USE DEF client
<1>1. stream \in Seq(Frame)
  BY DEF Inv, TypeOK
<1>2. /\ stream' \in Seq(Frame) /\ Len(stream') = Len(stream) + 1 /\ Len(stream) \in Nat
      /\ \A i \in 1..Len(stream) : stream'[i] = stream[i]
      /\ stream'[Len(stream) + 1] = f
  BY <1>1, AppendProperties, LenProperties
<1>3. TypeOK'
  BY <1>2 DEF Inv, TypeOK
<1>4. Fresh' /\ Remainder' /\ Mode' /\ InStep'
  BY DEF Inv, Fresh, Remainder, Mode, InStep
<1>5. Exchange'
  BY DEF Inv, Exchange
<1>6. Frames'
  <2>1. \A i \in 1..Len(stream') : i \in 1..Len(stream) \/ i = Len(stream')
    BY <1>2
  <2>2. exchange' = "secure" => \A i \in 1..Len(stream') : stream'[i].key = sessions'
    BY <1>2, <2>1 DEF Inv, Frames
  <2>3. exchange' # "secure" => \A i \in 1..Len(stream') :
                /\ stream'[i].key = 0
                /\ stream'[i].pkt.header = Key => exchange' = "keyed" /\ i = Len(stream')
    BY <1>2, <2>1 DEF Inv, Frames
  <2>4. exchange' # "secure" => ~(stage' \in Middle /\ pkt'.header = Key)
    BY DEF Inv, Frames
  <2> QED
    BY <2>2, <2>3, <2>4 DEF Frames
<1> QED
  BY <1>3, <1>4, <1>5, <1>6 DEF Inv

LEMMA BridgeInv ==
    ASSUME Inv, BridgeSends \/ BridgeSendsKey \/ BridgeSecures \/ BridgeSendsSecret
    PROVE  Inv'
<1>1. CASE BridgeSends
  <2>1. Write(0, Headers \ {"SM_KEY_EXCHANGE"}) /\ Headers \ {"SM_KEY_EXCHANGE"} \subseteq Headers
    BY <1>1 DEF BridgeSends
  <2>2. PICK f \in Frame : /\ stream' = Append(stream, f) /\ f.key = 0
                           /\ f.pkt.header \in Headers \ {"SM_KEY_EXCHANGE"}
                           /\ sent' \in 0..MaxPackets
    BY <2>1, WriteEffect
  <2> QED
    BY <1>1, <2>2, WriteInv DEF BridgeSends, Write, Key
<1>2. CASE BridgeSendsKey
  <2>1. Write(0, {"SM_KEY_EXCHANGE"}) /\ {"SM_KEY_EXCHANGE"} \subseteq Headers
    BY <1>2 DEF BridgeSendsKey, Headers, Dynamic
  <2>2. PICK f \in Frame : /\ stream' = Append(stream, f) /\ f.key = 0
                           /\ sent' \in 0..MaxPackets
    BY <2>1, WriteEffect
  <2> QED
    BY <1>2, <2>2, WriteInv DEF BridgeSendsKey, Write
<1>3. CASE BridgeSecures
  <2> USE <1>3 DEF BridgeSecures, client, reader, Inv
  <2>1. stream = <<>> /\ Len(stream) = 0
    BY DEF Exchange
  <2>2. TypeOK'
    BY DEF TypeOK
  <2>3. Fresh' /\ Remainder' /\ Mode' /\ Exchange' /\ InStep'
    BY DEF Fresh, Remainder, Mode, Exchange, InStep
  <2>4. Frames'
    BY <2>1 DEF Frames
  <2> QED
    BY <2>2, <2>3, <2>4
<1>4. CASE BridgeSendsSecret
  <2>1. Write(sessions, Headers) /\ sessions \in Nat
    BY <1>4 DEF BridgeSendsSecret, Inv, TypeOK
  <2>2. PICK f \in Frame : /\ stream' = Append(stream, f) /\ f.key = sessions
                           /\ sent' \in 0..MaxPackets
    BY <2>1, WriteEffect
  <2> QED
    BY <1>4, <2>2, WriteInv DEF BridgeSendsSecret, Write
<1> QED
  BY <1>1, <1>2, <1>3, <1>4

-----------------------------------------------------------------------------
LEMMA StepInv == Inv /\ [Next]_vars => Inv'
<1> SUFFICES ASSUME Inv, [Next]_vars PROVE Inv'
  OBVIOUS
<1>1. CASE UNCHANGED vars
  BY <1>1 DEF vars, client, reader, bridge, Inv, TypeOK, Fresh, Remainder, Mode, Exchange,
              Frames, InStep
<1>2. CASE Next
  BY <1>2, SessionStartInv, SessionStopInv, ReadTaskInv, ReadHeaderInv, ReadFixedInv,
     ReadDynamicInv, ReadSizeInv, ReadDataInv, SoftReadErrorInv, LoseStepInv, BridgeInv
     DEF Next
<1> QED
  BY <1>1, <1>2

\* The invariant holds in every behaviour of the read loop and the bridge.
LEMMA SpecInv == Spec => []Inv
BY InitInv, StepInv, PTL DEF Spec

\* The state of the read loop and of the key exchange keeps its type (session_read,
\* packet_process, session_enable_encryption).
THEOREM TypeCorrect == Spec => []TypeOK
<1>1. Inv => TypeOK
  BY DEF Inv
<1> QED
  BY SpecInv, <1>1, PTL

\* For any number of packets and sessions and any sizes: the read loop takes no bytes
\* for what they are not, unless a read or the key exchange failed half way.
THEOREM StaysInStep == Spec => []InStep
<1>1. Inv => InStep
  BY DEF Inv
<1> QED
  BY SpecInv, <1>1, PTL

\* The key in crypto_ is never that of an earlier session (session_stop).
THEOREM KeyOfSession == Spec => []KeyAgrees
<1>1. Inv => KeyAgrees
  BY DEF Inv, KeyAgrees, Mode, Fresh
<1> QED
  BY SpecInv, <1>1, PTL

(***************************************************************************)
(* The read loop implements PacketChannel.                                 *)
(***************************************************************************)
\* The packets of a sequence of frames.
Packets(s) == [i \in 1..Len(s) |-> s[i].pkt]

LEMMA PacketsType ==
    ASSUME NEW s, s \in Seq(Frame)
    PROVE  Packets(s) \in Seq(Packet) /\ Len(Packets(s)) = Len(s)
<1>1. Len(s) \in Nat /\ \A i \in 1..Len(s) : s[i] \in Frame
  BY LenProperties
<1>2. \A i \in 1..Len(s) : s[i].pkt \in Packet
  BY <1>1 DEF Frame
<1> QED
  BY <1>1, <1>2, IsASeq DEF Packets

LEMMA PacketsEmpty == Packets(<<>>) = <<>>
BY DEF Packets

LEMMA PacketsTail ==
    ASSUME NEW s, s \in Seq(Frame), s # <<>>
    PROVE  Packets(s) = <<Head(s).pkt>> \o Packets(Tail(s))
<1>1. /\ Head(s) \in Frame /\ Tail(s) \in Seq(Frame) /\ Head(s) = s[1]
      /\ Len(s) \in Nat \ {0} /\ Len(Tail(s)) = Len(s) - 1
      /\ \A i \in 1..Len(Tail(s)) : Tail(s)[i] = s[i + 1] /\ i + 1 \in 1..Len(s)
  BY HeadAndTail
<1>2. Head(s).pkt \in Packet
  BY <1>1 DEF Frame
<1>3. /\ Packets(s) \in Seq(Packet) /\ Packets(Tail(s)) \in Seq(Packet)
      /\ Len(Packets(s)) = Len(s) /\ Len(Packets(Tail(s))) = Len(s) - 1
  BY <1>1, PacketsType
<1>4. \A i \in 1..Len(s) : Packets(s)[i] = IF i = 1 THEN Head(s).pkt ELSE Packets(Tail(s))[i - 1]
  <2> TAKE i \in 1..Len(s)
  <2>1. Packets(s)[i] = s[i].pkt
    BY DEF Packets
  <2>2. CASE i = 1
    BY <1>1, <2>1, <2>2
  <2>3. CASE i # 1
    <3>1. i - 1 \in 1..Len(Tail(s)) /\ (i - 1) + 1 = i
      BY <1>1, <2>3
    <3>2. Packets(Tail(s))[i - 1] = Tail(s)[i - 1].pkt
      BY <3>1 DEF Packets
    <3>3. Tail(s)[i - 1] = s[i]
      BY <1>1, <3>1
    <3> QED
      BY <2>1, <2>3, <3>2, <3>3
  <2> QED
    BY <2>2, <2>3
<1>5. /\ <<Head(s).pkt>> \o Packets(Tail(s)) \in Seq(Packet)
      /\ Len(<<Head(s).pkt>> \o Packets(Tail(s))) = Len(s)
      /\ \A i \in 1..Len(s) : (<<Head(s).pkt>> \o Packets(Tail(s)))[i] =
            IF i = 1 THEN Head(s).pkt ELSE Packets(Tail(s))[i - 1]
  <2> DEFINE h == <<Head(s).pkt>>
             t == Packets(Tail(s))
  <2>1. h \in Seq(Packet) /\ Len(h) = 1 /\ h[1] = Head(s).pkt
    BY <1>2
  <2> HIDE DEF h, t
  <2>2. /\ t \in Seq(Packet) /\ Len(t) = Len(s) - 1 /\ Len(s) \in Nat
    BY <1>1, <1>3 DEF t
  <2>3. /\ h \o t \in Seq(Packet)
        /\ Len(h \o t) = Len(h) + Len(t)
        /\ \A i \in 1 .. Len(h) + Len(t) : (h \o t)[i] =
                     IF i <= Len(h) THEN h[i] ELSE t[i - Len(h)]
    BY <2>1, <2>2, ConcatProperties
  <2>4. Len(h) + Len(t) = Len(s)
    BY <2>1, <2>2
  <2>5. \A i \in 1..Len(s) : (h \o t)[i] = IF i = 1 THEN h[1] ELSE t[i - 1]
    BY <2>1, <2>3, <2>4
  <2> QED
    BY <2>1, <2>3, <2>4, <2>5 DEF h, t
<1> QED
  BY <1>3, <1>4, <1>5, SeqEqual

LEMMA PacketsAppend ==
    ASSUME NEW s, s \in Seq(Frame), NEW f, f \in Frame
    PROVE  Packets(Append(s, f)) = Append(Packets(s), f.pkt)
<1>1. /\ Append(s, f) \in Seq(Frame) /\ Len(Append(s, f)) = Len(s) + 1 /\ Len(s) \in Nat
      /\ \A i \in 1..Len(s) : Append(s, f)[i] = s[i]
      /\ Append(s, f)[Len(s) + 1] = f
  BY AppendProperties, LenProperties
<1> QED
  BY <1>1 DEF Packets

\* The queue of the channel, with and without a packet that is being read.
LEMMA QueueIs ==
    ASSUME TypeOK
    PROVE  /\ stage \in Middle => Queue = <<pkt>> \o Packets(stream)
           /\ stage \notin Middle => Queue = Packets(stream)
           /\ Packets(stream) \in Seq(Packet) /\ Queue \in Seq(Packet)
<1>1. Packets(stream) \in Seq(Packet) /\ pkt \in Packet
  BY PacketsType DEF TypeOK
<1>2. <<>> \o Packets(stream) = Packets(stream)
  BY <1>1, ConcatEmptySeq
<1>3. Queue = (IF stage \in Middle THEN <<pkt>> ELSE <<>>) \o Packets(stream)
  BY DEF Queue, Packets
<1> QED
  BY <1>1, <1>2, <1>3

LEMMA QueueNext ==
    ASSUME TypeOK'
    PROVE  /\ stage' \in Middle => Queue' = <<pkt'>> \o Packets(stream')
           /\ stage' \notin Middle => Queue' = Packets(stream')
<1>1. Packets(stream') \in Seq(Packet) /\ pkt' \in Packet
  BY PacketsType DEF TypeOK
<1>2. <<>> \o Packets(stream') = Packets(stream')
  BY <1>1, ConcatEmptySeq
<1>3. Queue' = (IF stage' \in Middle THEN <<pkt'>> ELSE <<>>) \o Packets(stream')
  BY DEF Queue, Packets
<1> QED
  BY <1>1, <1>2, <1>3

\* Taking the first of a sequence.
LEMMA ConsParts ==
    ASSUME NEW p, p \in Packet, NEW s, s \in Seq(Packet)
    PROVE  /\ <<p>> \o s # <<>> /\ Head(<<p>> \o s) = p /\ Tail(<<p>> \o s) = s
           /\ \A q \in Packet : Append(<<p>> \o s, q) = <<p>> \o Append(s, q)
OBVIOUS

LEMMA InitChannel == Init => Channel!Init
<1> SUFFICES ASSUME Init PROVE Channel!Init
  OBVIOUS
<1>1. Queue = <<>>
  <2>1. TypeOK
    BY InitInv DEF Inv
  <2> QED
    BY <2>1, QueueIs, PacketsEmpty DEF Init, Middle
<1> QED
  BY <1>1 DEF Channel!Init, Init

\* A step of the read loop that handles or drops the packet it is reading.
LEMMA EndChannel ==
    ASSUME TypeOK, TypeOK', ~out_of_step, ~out_of_step', stage \in Middle, stage' \notin Middle,
           UNCHANGED stream
    PROVE  /\ got' = Append(got, pkt) => Channel!Take
           /\ got' = got => Channel!Drop
<1>1. Queue = <<pkt>> \o Packets(stream) /\ Packets(stream) \in Seq(Packet) /\ pkt \in Packet
  BY QueueIs DEF TypeOK
<1>2. Queue' = Packets(stream)
  BY QueueNext
<1>3. Queue # <<>> /\ Head(Queue) = pkt /\ Tail(Queue) = Packets(stream)
  BY <1>1, ConsParts
<1> HIDE DEF Packets
<1> QED
  BY <1>2, <1>3 DEF Channel!Take, Channel!Drop

\* A step that changes neither what is on its way nor what is handled.
LEMMA QuietChannel ==
    ASSUME TypeOK, TypeOK', stage \notin Middle, stage' \notin Middle,
           UNCHANGED <<stream, got, out_of_step>>
    PROVE  UNCHANGED Channel!vars
<1>1. Queue' = Queue
  BY QueueIs, QueueNext
<1> QED
  BY <1>1 DEF Channel!vars

\* A step that begins to read the first frame, or drops it.
LEMMA BeginChannel ==
    ASSUME Inv, TypeOK', ~out_of_step, stage \notin Middle, stream # <<>>, stream' = Tail(stream),
           UNCHANGED <<got, out_of_step>>
    PROVE  /\ stage' \in Middle /\ pkt' = Head(stream).pkt => UNCHANGED Channel!vars
           /\ stage' \notin Middle => Channel!Drop
<1> DEFINE p == Head(stream).pkt
<1>1. stream \in Seq(Frame) /\ stream' \in Seq(Frame) /\ p \in Packet
  <2>1. stream \in Seq(Frame)
    BY DEF Inv, TypeOK
  <2>2. Head(stream) \in Frame /\ Tail(stream) \in Seq(Frame)
    BY <2>1, HeadAndTail
  <2> QED
    BY <2>1, <2>2 DEF Frame
<1>2. Queue = <<p>> \o Packets(stream')
  BY <1>1, QueueIs, PacketsTail DEF Inv
<1>3. Packets(stream') \in Seq(Packet)
  BY <1>1, PacketsType
<1>4. Queue # <<>> /\ Head(Queue) = p /\ Tail(Queue) = Packets(stream')
  BY <1>1, <1>2, <1>3, ConsParts
<1>5. CASE stage' \in Middle /\ pkt' = p
  <2>1. Queue' = Queue
    BY <1>2, <1>5, QueueNext
  <2> QED
    BY <1>5, <2>1 DEF Channel!vars, Middle
<1>6. CASE stage' \notin Middle
  <2>1. Queue' = Packets(stream')
    BY <1>6, QueueNext
  <2> QED
    BY <1>4, <1>6, <2>1 DEF Channel!Drop
<1> QED
  BY <1>5, <1>6

\* A step of the bridge that writes a frame.
LEMMA WriteChannel ==
    ASSUME Inv, TypeOK', NEW key, key \in Nat, NEW headers, headers \subseteq Headers,
           Write(key, headers)
    PROVE  Channel!Put \/ Channel!Lapse
<1>1. PICK f \in Frame : stream' = Append(stream, f)
  BY WriteEffect
<1>2. /\ stream \in Seq(Frame) /\ pkt \in Packet /\ f.pkt \in Packet
      /\ UNCHANGED <<stage, pkt, got, out_of_step>>
  BY DEF Write, Inv, TypeOK, Frame
<1>3. Packets(stream') = Append(Packets(stream), f.pkt) /\ Packets(stream) \in Seq(Packet)
  BY <1>1, <1>2, PacketsAppend, PacketsType
<1>4. Queue' = Append(Queue, f.pkt)
  <2>1. CASE stage \in Middle
    <3>1. Queue = <<pkt>> \o Packets(stream) /\ Queue' = <<pkt>> \o Packets(stream')
      BY <1>2, <2>1, QueueIs, QueueNext DEF Inv
    <3> QED
      BY <1>2, <1>3, <3>1, ConsParts
  <2>2. CASE stage \notin Middle
    BY <1>2, <1>3, <2>2, QueueIs, QueueNext DEF Inv
  <2> QED
    BY <2>1, <2>2
<1> QED
  BY <1>2, <1>4 DEF Channel!Put, Channel!Lapse

\* A packet that has been read to its end is handled: the channel's Take.
LEMMA HandledChannel ==
    ASSUME Inv, TypeOK', ~out_of_step, stage \in Middle, packet_handle(pkt),
           UNCHANGED <<stream, out_of_step>>
    PROVE  Channel!Take
<1>1. pkt \in Packet
  BY DEF Inv, TypeOK
<1>2. stage' \notin Middle /\ got' = Append(got, pkt)
  BY <1>1, HandleEffect DEF Inv, Middle
<1> QED
  BY <1>2, EndChannel DEF Inv

\* Every step of the read loop is a step of the channel or none.
LEMMA StepChannel == Inv /\ Inv' /\ [Next]_vars => [Channel!Next]_(Channel!vars)
<1> SUFFICES ASSUME Inv, Inv', [Next]_vars
             PROVE  Channel!Next \/ UNCHANGED Channel!vars
  OBVIOUS
<1> USE DEF Channel!Next
<1>0. TypeOK /\ TypeOK'
  BY DEF Inv
<1>1. CASE UNCHANGED vars
  <2>1. Queue' = Queue
    BY <1>1 DEF vars, reader, Queue
  <2> QED
    BY <1>1, <2>1 DEF vars, Channel!vars
<1>2. CASE SessionStart
  <2>1. stage \notin Middle /\ stage' \notin Middle
    BY <1>2 DEF SessionStart, Inv, Fresh, Middle
  <2> QED
    BY <1>0, <1>2, <2>1, QuietChannel DEF SessionStart
<1>3. CASE SessionStop
  <2>1. Queue' = <<>>
    BY <1>0, <1>3, QueueNext, PacketsEmpty DEF SessionStop, Middle
  <2> QED
    BY <1>3, <2>1 DEF SessionStop, Channel!Reset
<1>4. CASE ReadTask
  <2>1. stage \notin Middle /\ stage' \notin Middle
    BY <1>4 DEF ReadTask, ReadMode, Middle
  <2> QED
    BY <1>0, <1>4, <2>1, QuietChannel DEF ReadTask
<1>5. CASE ReadHeader
  <2>1. stage \notin Middle /\ (stage' \in Middle => pkt' = Head(stream).pkt)
    BY <1>5 DEF ReadHeader, Middle
  <2> QED
    BY <1>0, <1>5, <2>1, BeginChannel DEF ReadHeader, AtFrame
<1>6. CASE ReadSize
  <2>1. stage \notin Middle /\ stage' \in Middle /\ pkt' = Head(stream).pkt
    BY <1>6 DEF ReadSize, Middle
  <2> QED
    BY <1>0, <1>6, <2>1, BeginChannel DEF ReadSize, AtFrame
<1>7. CASE ReadFixed
  <2>1. CASE pkt.header \in Dynamic
    <3>1. stage \in Middle /\ stage' \in Middle /\ UNCHANGED <<pkt, stream, got, out_of_step>>
      BY <1>7, <2>1 DEF ReadFixed, Middle
    <3>2. Queue' = Queue
      BY <1>0, <3>1, QueueIs, QueueNext
    <3> QED
      BY <3>1, <3>2 DEF Channel!vars
  <2>2. CASE pkt.header \notin Dynamic
    BY <1>0, <1>7, <2>2, HandledChannel DEF ReadFixed, Middle
  <2> QED
    BY <2>1, <2>2
<1>8. CASE ReadDynamic
  BY <1>0, <1>8, HandledChannel DEF ReadDynamic, Middle
<1>9. CASE ReadData
  <2>1. stage \in Middle /\ ~out_of_step /\ UNCHANGED <<stream, out_of_step>>
    BY <1>9 DEF ReadData, Middle
  <2>2. CASE packet_handle(pkt)
    BY <1>0, <2>1, <2>2, HandledChannel
  <2>3. CASE stage' \in {"task", "deaf"} /\ got' = got
    <3>1. stage' \notin Middle
      BY <2>3 DEF Middle
    <3> QED
      BY <1>0, <2>1, <2>3, <3>1, EndChannel
  <2> QED
    BY <1>9, <2>2, <2>3 DEF ReadData, PostRead
<1>10. CASE SoftReadError
  <2>1. stage' \notin Middle /\ ~out_of_step /\ UNCHANGED <<stream, got, out_of_step>>
    BY <1>10 DEF SoftReadError, PostRead, Middle
  <2>2. CASE stage \in Middle
    BY <1>0, <2>1, <2>2, EndChannel
  <2>3. CASE stage \notin Middle
    BY <1>0, <2>1, <2>3, QuietChannel
  <2> QED
    BY <2>2, <2>3
<1>11. CASE LoseStep
  BY <1>11 DEF LoseStep, Channel!Lapse
<1>12. CASE BridgeSends
  <2>1. Headers \ {"SM_KEY_EXCHANGE"} \subseteq Headers
    OBVIOUS
  <2> QED
    BY <1>0, <1>12, <2>1, WriteChannel DEF BridgeSends
<1>13. CASE BridgeSendsKey
  <2>1. {"SM_KEY_EXCHANGE"} \subseteq Headers
    BY DEF Headers, Dynamic
  <2> QED
    BY <1>0, <1>13, <2>1, WriteChannel DEF BridgeSendsKey
<1>14. CASE BridgeSecures
  <2>1. Queue' = Queue
    BY <1>14 DEF BridgeSecures, reader, Queue
  <2> QED
    BY <1>14, <2>1 DEF BridgeSecures, Channel!vars
<1>15. CASE BridgeSendsSecret
  BY <1>0, <1>15, WriteChannel DEF BridgeSendsSecret, TypeOK
<1> QED
  BY <1>1, <1>2, <1>3, <1>4, <1>5, <1>6, <1>7, <1>8, <1>9, <1>10, <1>11, <1>12, <1>13,
     <1>14, <1>15 DEF Next

\* The read loop implements PacketChannel, for any number of packets, sessions and
\* any sizes: packets are handled in order, each once and whole, until the client is
\* out of step (packet_process, session_read_encrypted, packet_handle).
THEOREM ImplementsChannel == Spec => DeliversInOrder
<1>1. Inv /\ Inv' /\ [Next]_vars => [Channel!Next]_(Channel!vars)
  BY StepChannel
<1> QED
  BY InitChannel, SpecInv, <1>1, PTL DEF Spec, DeliversInOrder, Channel!Spec

-----------------------------------------------------------------------------
(***************************************************************************)
(* The session this module reduces the connection to is the client's.      *)
(* What packets say is of no account here.                                 *)
(***************************************************************************)
Session == INSTANCE BridgeSession
    WITH up <- connected, secure <- is_encrypted, informed <- FALSE

\* A packet may bring the key.
LEMMA HandledSession ==
    ASSUME Inv, connected, NEW STATE p, packet_handle(p)
    PROVE  [Session!Next]_(Session!vars)
<1>1. connected' = connected
  BY DEF packet_handle
<1>2. CASE is_encrypted' = is_encrypted
  BY <1>1, <1>2 DEF Session!vars
<1>3. CASE ~is_encrypted /\ is_encrypted' = TRUE
  BY <1>1, <1>3 DEF Session!Secure, Session!Next
<1>4. is_encrypted' = is_encrypted \/ (~is_encrypted /\ is_encrypted' = TRUE)
  BY Zenon DEF packet_handle, HandleKeyExchange, session_enable_encryption
<1> QED BY <1>2, <1>3, <1>4

LEMMA SessionStep == Inv /\ [Next]_vars => [Session!Next]_(Session!vars)
<1> SUFFICES ASSUME Inv, [Next]_vars PROVE [Session!Next]_(Session!vars)
  OBVIOUS
<1>1. CASE SessionStart
  <2>1. is_encrypted = FALSE
    BY <1>1, Zenon DEF SessionStart, Inv, TypeOK, Fresh
  <2> QED BY <1>1, <2>1 DEF SessionStart, Session!Begin, Session!Next
<1>2. CASE SessionStop
  BY <1>2 DEF SessionStop, ResetCrypto, Session!End, Session!Next
<1>3. CASE UNCHANGED client
  BY <1>3 DEF client, Session!vars
<1>4. CASE ReadFixed \/ ReadDynamic \/ ReadData
  BY <1>3, <1>4, HandledSession DEF ReadFixed, ReadDynamic, ReadData
<1>5. CASE \/ ReadTask \/ ReadHeader \/ ReadSize \/ SoftReadError \/ LoseStep
           \/ BridgeSends \/ BridgeSendsKey \/ BridgeSecures \/ BridgeSendsSecret
  BY <1>3, <1>5 DEF ReadTask, ReadHeader, ReadSize, SoftReadError, LoseStep, BridgeSends,
     BridgeSendsKey, BridgeSecures, BridgeSendsSecret, Write
<1>6. CASE UNCHANGED vars
  BY <1>3, <1>6 DEF vars, client
<1> QED BY <1>1, <1>2, <1>4, <1>5, <1>6 DEF Next

\* The stream of frames is modelled on sessions as BridgeSession has them, which are
\* those of the client (session_start, session_enable_encryption, session_stop).
THEOREM ImplementsSession == Spec => Session!Spec
<1>1. Init => Session!Init
  BY DEF Init, Session!Init
<1> QED BY <1>1, SessionStep, SpecInv, PTL DEF Spec, Session!Spec
=============================================================================
