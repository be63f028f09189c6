------------------------------- MODULE Inbound -------------------------------
(***************************************************************************)
(* The packets of the bridge on their way into the game: how the client    *)
(* cuts the byte stream of a session into packets (session_read,           *)
(* packet_process, session_read_encrypted, packet_process_decrypted), and  *)
(* how the key exchange in the middle of that stream changes the way it is *)
(* cut (HandleKeyExchange, session_enable_encryption, CryptoHelper).       *)
(*                                                                         *)
(* The stream is the sequence of the frames of which the client has read   *)
(* nothing, and what is left of the one it is reading.  A frame in the     *)
(* clear is a header, the rest of the fixed part and the dynamic part; an  *)
(* encrypted one is a size and the data.  Bytes are counted in units of    *)
(* one header.                                                             *)
(*                                                                         *)
(* The bridge is not in the repository.  It sends its public key in the    *)
(* clear, waits for the client's, and encrypts from then on, as the        *)
(* comment in HandleKeyExchange expects of it.  Reads that outlive their   *)
(* session are the matter of module RawClient.                             *)
(***************************************************************************)
EXTENDS Naturals, Sequences

CONSTANTS
    MaxPackets,     \* bound: packets the bridge sends in a session
    MaxSessions,    \* bound: sessions
    MaxDynamic      \* bound: the size of a dynamic part

ASSUME InboundAssumption ==
    MaxPackets \in Nat /\ MaxSessions \in Nat /\ MaxDynamic \in Nat

VARIABLES
    sessions,       \* how many sessions there have been
    connected,      \* connect_state_ is CONNECTED
    is_encrypted,   \* is_encrypted_
    crypto,         \* the key of crypto_: that of some session, or 0
    stage,          \* what the read loop is doing
    pkt,            \* v_packet: the packet it is reading
    left,           \* how much of the frame it has begun is not read yet
    stream,         \* the frames it has not begun
    got,            \* the packets handled in this session
    out_of_step,    \* it has taken bytes for what they are not
    faults,         \* what has gone wrong in this session
    \* The bridge:
    exchange,       \* how far its key exchange is
    public_key,     \* the client's public key is on its way to it
    sent            \* how many packets it has sent in this session

client == <<sessions, connected, is_encrypted, crypto>>
reader == <<stage, pkt, left, stream>>
bridge == <<exchange, public_key, sent>>
vars == <<client, reader, got, out_of_step, faults, bridge>>

-----------------------------------------------------------------------------
(***************************************************************************)
(* Packets and frames.                                                     *)
(***************************************************************************)
\* RegisterPackets: the packets with a dynamic part and those without, and one
\* without a descriptor.  SM_DB_INFO is nothing but its header.
Dynamic == {"SM_KEY_EXCHANGE", "SM_MESSAGE"}
Headers == Dynamic \cup {"SM_CORE_AUTHORITY", "SM_DB_INFO", "UNKNOWN"}

\* fixed_size of the descriptor, in units of HEADER_SIZE.
fixed_size(header) == IF header = "SM_DB_INFO" THEN 1 ELSE 2

\* A packet: its number in the session tells it from others.
Packet ==
    {p \in [id : 0..MaxPackets, header : Headers, size : 0..MaxDynamic] :
        p.header \notin Dynamic => p.size = 0}

None == [id |-> 0, header |-> "UNKNOWN", size |-> 0]

\* A frame: its packet and the session key it is encrypted with, 0 in the clear.
Frame == [pkt : Packet, key : Nat]

\* The stages of the read loop: "task" is a posted read, "deaf" is none at all.
Middle == {"fixed", "dynamic", "data"}
Stages == Middle \cup {"deaf", "task", "header", "size"}

\* A posted read is lost; a header has no descriptor; a read fails and the
\* session goes on; the key exchange fails when the client's key is already sent.
Faults == {"tasks", "unknown", "soft", "half"}

Init ==
    /\ sessions = 0 /\ connected = FALSE /\ is_encrypted = FALSE /\ crypto = 0
    /\ stage = "deaf" /\ pkt = None /\ left = 0 /\ stream = <<>>
    /\ got = <<>> /\ out_of_step = FALSE /\ faults = {}
    /\ exchange = "none" /\ public_key = FALSE /\ sent = 0

-----------------------------------------------------------------------------
(***************************************************************************)
(* The session.                                                            *)
(***************************************************************************)
\* session_start; the bridge accepts.
SessionStart ==
    /\ ~connected /\ sessions < MaxSessions
    /\ connected' = TRUE /\ sessions' = sessions + 1
    /\ stage' = "task"
    /\ UNCHANGED <<is_encrypted, crypto, pkt, left, stream, got, out_of_step, faults, bridge>>

\* Mutant of ResetCrypto: the mode and the key outlive the session.
KeepCrypto == UNCHANGED <<is_encrypted, crypto>>

\* is_encrypted_ = false and crypto_.reset().
ResetCrypto == is_encrypted' = FALSE /\ crypto' = 0

\* session_stop: the bridge closes, the network fails, or the client gives up.
\* What was on its way is lost.
SessionStop ==
    /\ connected
    /\ connected' = FALSE /\ ResetCrypto
    /\ stage' = "deaf" /\ pkt' = None /\ left' = 0 /\ stream' = <<>>
    /\ got' = <<>> /\ out_of_step' = FALSE /\ faults' = {}
    /\ exchange' = "none" /\ public_key' = FALSE /\ sent' = 0
    /\ UNCHANGED sessions

-----------------------------------------------------------------------------
(***************************************************************************)
(* Reading.                                                                *)
(***************************************************************************)
\* PostTask of the next read, after the faults fs of the step: with
\* MAX_PENDING_TASKS other tasks it is dropped, and nothing reads any more.
PostRead(fs) ==
    /\ pkt' = None
    /\ \/ stage' = "task" /\ faults' = faults \cup fs
       \/ stage' = "deaf" /\ faults' = faults \cup fs \cup {"tasks"}

\* Mutant of ReadMode: the mode of the session's beginning stays.
ReadModeClear == "header"

\* What the posted task reads first: session_read or session_read_encrypted.
ReadMode == IF is_encrypted THEN "size" ELSE "header"

ReadTask ==
    /\ connected /\ stage = "task"
    /\ stage' = ReadMode
    /\ UNCHANGED <<client, pkt, left, stream, got, out_of_step, faults, bridge>>

\* A read of a header or a size begins at a frame of that kind.
AtFrame ==
    /\ left = 0 /\ stream # <<>>
    /\ stage = IF Head(stream).key = 0 THEN "header" ELSE "size"

\* A read that begins anywhere else takes bytes for what they are not.  What it
\* makes of them is arbitrary, and nothing more is said of this session.
LoseStep ==
    /\ connected /\ ~out_of_step
    /\ stage \in {"header", "size"} /\ (left # 0 \/ stream # <<>>) /\ ~AtFrame
    /\ out_of_step' = TRUE
    /\ UNCHANGED <<client, reader, got, faults, bridge>>

\* session_read and the beginning of packet_process: the header of a frame in the
\* clear.  Without a descriptor for it the read loop ends.
ReadHeader ==
    /\ connected /\ ~out_of_step
    /\ stage = "header" /\ AtFrame
    /\ LET p == Head(stream).pkt
       IN  /\ left' = fixed_size(p.header) + p.size - 1
           /\ IF p.header = "UNKNOWN"
              THEN stage' = "deaf" /\ pkt' = None /\ faults' = faults \cup {"unknown"}
              ELSE stage' = "fixed" /\ pkt' = p /\ UNCHANGED faults
    /\ stream' = Tail(stream)
    /\ UNCHANGED <<client, got, out_of_step, bridge>>

-----------------------------------------------------------------------------
(***************************************************************************)
(* Handling.                                                               *)
(***************************************************************************)
\* session_get_public_key: whether there is a key pair.  KeyExchange makes it once,
\* and a failure then is one for good; here it may fail at any time.
session_get_public_key == BOOLEAN

\* computeSharedKey and deriveAESKey: the key of this session, or none.
computeSharedKey == {sessions, 0}

\* initialize: whether the contexts of the cipher are set up.
initialize(key) == IF key = 0 THEN {FALSE} ELSE BOOLEAN

\* A failure leaves the client in the clear.  The bridge has the client's key
\* already and knows of no failure.
session_enable_encryption ==
    \/ is_encrypted /\ UNCHANGED <<is_encrypted, crypto>> /\ PostRead({})
    \/ /\ ~is_encrypted
       /\ \E key \in computeSharedKey : \E done \in initialize(key) :
            \/ done /\ is_encrypted' = TRUE /\ crypto' = key /\ PostRead({})
            \/ ~done /\ UNCHANGED <<is_encrypted, crypto>> /\ PostRead({"half"})

\* HandleKeyExchange: the client answers with its own key, if it has one, and goes
\* over to encryption.
HandleKeyExchange ==
    \E made \in session_get_public_key :
        \/ made /\ public_key' = TRUE /\ session_enable_encryption
        \/ ~made /\ UNCHANGED <<public_key, is_encrypted, crypto>> /\ PostRead({})

\* Mutant of packet_handle: the packet is handled, and no read follows when the
\* handler fails.
packet_handle_once(p) ==
    /\ got' = Append(got, p)
    /\ IF p.header = "SM_KEY_EXCHANGE" THEN HandleKeyExchange
       ELSE /\ \/ PostRead({})
               \/ stage' = "deaf" /\ pkt' = None /\ UNCHANGED faults
            /\ UNCHANGED <<public_key, is_encrypted, crypto>>
    /\ UNCHANGED <<sessions, connected, exchange, sent>>

\* packet_handle and HandlePacket: whether the handler succeeds or fails, the
\* next read is posted.
packet_handle(p) ==
    /\ got' = Append(got, p)
    /\ IF p.header = "SM_KEY_EXCHANGE" THEN HandleKeyExchange
       ELSE PostRead({}) /\ UNCHANGED <<public_key, is_encrypted, crypto>>
    /\ UNCHANGED <<sessions, connected, exchange, sent>>

\* fixed_size - HEADER_SIZE
FixedRest(header) == fixed_size(header) - 1

\* Mutant of ReadFixed: without the return, a packet that is not dynamic goes on to
\* its dynamic part.
ReadFixedOn ==
    /\ connected /\ ~out_of_step
    /\ stage = "fixed" /\ left >= FixedRest(pkt.header)
    /\ left' = left - FixedRest(pkt.header)
    /\ stage' = "dynamic"
    /\ got' = IF pkt.header \in Dynamic THEN got ELSE Append(got, pkt)
    /\ UNCHANGED <<client, pkt, stream, out_of_step, faults, bridge>>

\* packet_process: the rest of the fixed part, which tells the size of the dynamic one.
ReadFixed ==
    /\ connected /\ ~out_of_step
    /\ stage = "fixed" /\ left >= FixedRest(pkt.header)
    /\ left' = left - FixedRest(pkt.header)
    /\ IF pkt.header \in Dynamic
       THEN stage' = "dynamic" /\ UNCHANGED <<client, pkt, got, faults, bridge>>
       ELSE packet_handle(pkt)
    /\ UNCHANGED <<stream, out_of_step>>

\* packet_process: dynamic_size units, even if that is none.
ReadDynamic ==
    /\ connected /\ ~out_of_step
    /\ stage = "dynamic" /\ left >= pkt.size
    /\ left' = left - pkt.size
    /\ packet_handle(pkt)
    /\ UNCHANGED <<stream, out_of_step>>

\* session_read_encrypted: the size of an encrypted frame, which the bridge keeps
\* within its limits.
ReadSize ==
    /\ connected /\ ~out_of_step
    /\ stage = "size" /\ AtFrame
    /\ stage' = "data" /\ pkt' = Head(stream).pkt /\ left' = 1
    /\ stream' = Tail(stream)
    /\ UNCHANGED <<client, got, out_of_step, faults, bridge>>

\* decrypt of data encrypted with the key: whether the padding comes out right.
decrypt(key) == IF crypto = key THEN BOOLEAN ELSE {FALSE}

\* Its data, and packet_process_decrypted.  The frames of a session are encrypted
\* with its key.
ReadData ==
    /\ connected /\ ~out_of_step
    /\ stage = "data" /\ left >= 1
    /\ left' = left - 1
    /\ \E done \in decrypt(sessions) :
         \/ done /\ pkt.header # "UNKNOWN" /\ packet_handle(pkt)
         \/ /\ done /\ pkt.header = "UNKNOWN"
            /\ stage' = "deaf" /\ pkt' = None /\ faults' = faults \cup {"unknown"}
            /\ UNCHANGED <<client, got, bridge>>
         \/ ~done /\ PostRead({}) /\ UNCHANGED <<client, got, bridge>>
    /\ UNCHANGED <<stream, out_of_step>>

\* A read ends with an error that does not close the session: session_handle_error
\* posts a read from the beginning, whatever was being read.
SoftReadError ==
    /\ connected /\ ~out_of_step
    /\ stage \in Middle \cup {"header", "size"}
    /\ PostRead({"soft"})
    /\ UNCHANGED <<client, left, stream, got, out_of_step, bridge>>

-----------------------------------------------------------------------------
(***************************************************************************)
(* The bridge.                                                             *)
(***************************************************************************)
\* It appends a frame with a packet of its choice.
Write(key, headers) ==
    /\ connected /\ sent < MaxPackets
    /\ sent' = sent + 1
    /\ \E h \in headers, n \in 0..MaxDynamic :
         /\ h \notin Dynamic => n = 0
         /\ stream' = Append(stream,
              [pkt |-> [id |-> sent + 1, header |-> h, size |-> n], key |-> key])
    /\ UNCHANGED <<client, stage, pkt, left, got, out_of_step, faults, public_key>>

\* In the clear, before the key exchange.
BridgeSends ==
    /\ exchange = "none"
    /\ Write(0, Headers \ {"SM_KEY_EXCHANGE"})
    /\ UNCHANGED exchange

\* The last frame in the clear.
BridgeSendsKey ==
    /\ exchange = "none" /\ exchange' = "keyed"
    /\ Write(0, {"SM_KEY_EXCHANGE"})

\* The client's public key arrives.
BridgeSecures ==
    /\ connected /\ exchange = "keyed" /\ public_key
    /\ exchange' = "secure"
    /\ UNCHANGED <<client, reader, got, out_of_step, faults, public_key, sent>>

BridgeSendsSecret ==
    /\ exchange = "secure"
    /\ Write(sessions, Headers)
    /\ UNCHANGED exchange

-----------------------------------------------------------------------------
\* The steps of the read loop, which run whenever their bytes are there.
Read == ReadTask \/ ReadHeader \/ ReadFixed \/ ReadDynamic \/ ReadSize \/ ReadData

Next ==
    \/ SessionStart \/ SessionStop
    \/ ReadTask \/ ReadHeader \/ ReadFixed \/ ReadDynamic \/ ReadSize \/ ReadData
    \/ SoftReadError \/ LoseStep
    \/ BridgeSends \/ BridgeSendsKey \/ BridgeSecures \/ BridgeSendsSecret

Spec == Init /\ [][Next]_vars

\* The socket's handlers run as their bytes arrive (PollOnce in every pulse).
FairSpec == Spec /\ WF_vars(Read)

-----------------------------------------------------------------------------
(***************************************************************************)
(* Properties.                                                             *)
(***************************************************************************)
\* The type of every variable: what session_read and packet_process may hold.
TypeOK ==
    /\ sessions \in Nat /\ connected \in BOOLEAN
    /\ is_encrypted \in BOOLEAN /\ crypto \in Nat
    /\ stage \in Stages /\ pkt \in Packet /\ left \in Nat /\ stream \in Seq(Frame)
    /\ got \in Seq(Packet) /\ out_of_step \in BOOLEAN /\ faults \subseteq Faults
    /\ exchange \in {"none", "keyed", "secure"} /\ public_key \in BOOLEAN /\ sent \in 0..MaxPackets

\* The read loop never takes bytes for what they are not, through the change to
\* encryption and into later sessions, unless a read failed in the middle of a
\* frame or the key exchange failed when the bridge had the client's key
\* (packet_process, session_read_encrypted, HandleKeyExchange, session_stop).
InStep == out_of_step => faults \cap {"soft", "half"} # {}

\* The key the client decrypts and encrypts with is that of the session
\* (session_stop, session_enable_encryption).
KeyAgrees == crypto # 0 => connected /\ crypto = sessions

\* What is read or on its way, for PacketChannel.
Queue ==
    (IF stage \in Middle THEN <<pkt>> ELSE <<>>)
        \o [i \in 1..Len(stream) |-> stream[i].pkt]

Channel == INSTANCE PacketChannel WITH queue <- Queue, intact <- ~out_of_step

\* The read loop implements the channel: as long as it is in step, packets are
\* handled in the order the bridge sent them, each at most once and whole, however
\* the frames are cut, across the change to encryption (packet_handle).
DeliversInOrder == Channel!Spec

\* What the bridge has sent is read in the end, unless the session ends or the read
\* loop has lost its next read or its step: packet_handle and session_handle_error
\* post a read after every packet, also one whose handler or decryption failed.
Drains == stream # <<>> ~> (stream = <<>> \/ faults # {})
=============================================================================
