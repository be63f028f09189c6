------------------------------ MODULE Delivery ------------------------------
(***************************************************************************)
(* The way of outgoing packets from the game to the bridge: SendPacket,    *)
(* Send, the write queue and the session_write tasks that empty it, the    *)
(* key exchange that switches encryption on, and the buffer of unprocessed *)
(* packets that keeps what must not be lost while there is no session.     *)
(*                                                                         *)
(* The life of the connection (module RawClient) is reduced to sessions    *)
(* that begin and are lost at any time.  A session begins on a new socket, *)
(* so that what the operating system still held for the old one is gone.   *)
(***************************************************************************)
EXTENDS Naturals, Sequences, FiniteSets

CONSTANTS
    Parts,              \* a packet is written in at most this many pieces
    SoftErrors,         \* whether a write may fail without closing the session
    MaxSent,            \* bound: packets the game sends
    MaxSessions,        \* bound: sessions
    MaxKeys,            \* bound: key exchange packets received in a session
    SyncPackets,        \* the packets that IsSyncPacket singles out
    MaxQueue,           \* MAX_WRITE_QUEUE_SIZE
    MaxTasks,           \* MAX_PENDING_TASKS
    MaxUnprocessed      \* MAX_UNPROCESSED_COUNT

\* At most one pending task is the read loop's: with two there is always one
\* for the write queue.
ASSUME LimitsAssumption ==
    /\ Parts \in Nat \ {0} /\ MaxSent \in Nat /\ SoftErrors \in BOOLEAN
    /\ MaxSessions \in Nat /\ MaxKeys \in Nat
    /\ SyncPackets \subseteq 1..MaxSent
    /\ MaxQueue \in Nat \ {0} /\ MaxUnprocessed \in Nat \ {0}
    /\ MaxTasks \in Nat \ {0, 1}

VARIABLES
    connected,      \* connect_state_ is CONNECTED
    is_encrypted,   \* is_encrypted_
    write_queue,    \* write_queue_
    ready,          \* the io_context's FIFO queue, as far as it concerns us
    pending,        \* the writes queued on the socket, in order
    wire,           \* the pieces the socket has taken in this session
    reading,        \* an async_read is outstanding
    unp_packets,    \* unp_packets_
    sent,           \* how many packets the game has sent (their names)
    past,           \* packets of which earlier sessions' sockets took a piece
    sessions,       \* how many sessions there have been
    keys            \* how many public keys this session has sent

sessionVars == <<connected, is_encrypted, sessions, keys>>
socketVars  == <<pending, wire, past>>
vars == <<sessionVars, write_queue, ready, socketVars, reading, unp_packets, sent>>

PublicKey == 0
Ids == 0..MaxSent

\* A packet as it is written: encrypted or in the clear.
Packet == [id : Ids, enc : BOOLEAN]

\* A write on the socket, with the number of its pieces that are written, and
\* one of these pieces.
Write == [pkt : Packet, done : 0..Parts]

\* The handlers in the queue: posted tasks; the end of a read, with what it
\* read; the end of a write_some, with the write it belongs to; and the end of
\* a write with an error that does not close the session.
Handler ==
    ({"task"} \X {"write", "read"})
        \cup ({"received"} \X {"key_exchange", "other"})
        \cup ({"written"} \X Write)
        \cup ({"failed"} \X {"soft"})

\* An entry of unp_packets_; its data is moved out when it is sent.
Entry == [id : 1..MaxSent, empty : BOOLEAN, bUsed : BOOLEAN]

Init ==
    /\ connected = FALSE /\ is_encrypted = FALSE
    /\ sessions = 0 /\ keys = 0
    /\ write_queue = <<>> /\ ready = <<>>
    /\ pending = <<>> /\ wire = <<>> /\ past = {}
    /\ reading = FALSE
    /\ unp_packets = <<>>
    /\ sent = 0

-----------------------------------------------------------------------------
IsTask(h) == h[1] = "task"

\* pending_tasks_count_
PendingTasks(r) == Cardinality({i \in 1..Len(r) : IsTask(r[i])})

\* PostTask of n tasks, one after the other: those beyond the limit are dropped.
PostTask(r, kind, n) ==
    LET free == MaxTasks - PendingTasks(r)
    IN  r \o [i \in 1..(IF n <= free THEN n ELSE free) |-> <<"task", kind>>]

\* The last n elements of s, or all of them if there are fewer.
LastOf(s, n) == IF Len(s) <= n THEN s ELSE SubSeq(s, Len(s) - n + 1, Len(s))

\* Mutant of Enqueue: the queue grows past its limit.
EnqueueUnbounded(pkts) == write_queue \o pkts

\* Send, in a session, of one packet after another: each joins the write
\* queue, where the oldest gives way when it is full.  Every caller also posts
\* a session_write for each.
Enqueue(pkts) == LastOf(write_queue \o pkts, MaxQueue)

\* unprocessed_add: only packets the bridge must learn of are kept.
unprocessed_add(id) ==
    LET entry == [id |-> id, empty |-> FALSE, bUsed |-> FALSE]
    IN  unp_packets' = IF id \in SyncPackets
                       THEN LastOf(Append(unp_packets, entry), MaxUnprocessed)
                       ELSE unp_packets

\* The ways, of which there is one, to go through some positions in order.
Ascending(keep) ==
    {pos \in [1..Cardinality(keep) -> keep] :
        \A i, j \in DOMAIN pos : i < j => pos[i] < pos[j]}

\* unprocessed_cleanup_expired of u when it is due: the used entries go, and
\* the k oldest, which have expired.
Cleanup(u, k) ==
    {[n \in DOMAIN pos |-> u[pos[n]]] :
        pos \in Ascending({i \in (k + 1)..Len(u) : ~u[i].bUsed})}

\* Cleanup runs at most once a minute; what has expired is a matter of time.
CleanedUp(u) == {u} \cup UNION {Cleanup(u, k) : k \in 0..Len(u)}

\* One of the senders (sendGuildJoin, sendOnlineCount, sendGuildWarStart...) has the
\* next packet.  A sender that refuses its arguments sends nothing, and what tells
\* packets apart here is only whether IsSyncPacket singles them out.
NextPacket == sent < MaxSent /\ sent' = sent + 1

\* MobiClient::SendPacket of that packet, asking for encryption.
SendPacket ==
    /\ NextPacket
    /\ \/ /\ connected
          /\ \/ /\ write_queue' = Enqueue(<<[id |-> sent', enc |-> is_encrypted]>>)
                /\ ready' = PostTask(ready, "write", 1)
             \/ is_encrypted /\ UNCHANGED <<write_queue, ready>>    \* encryption fails
          /\ UNCHANGED unp_packets
       \/ /\ ~connected
          /\ unprocessed_add(sent')
          /\ UNCHANGED <<write_queue, ready>>
    /\ UNCHANGED <<sessionVars, socketVars, reading>>

-----------------------------------------------------------------------------
(***************************************************************************)
(* Sessions.                                                               *)
(***************************************************************************)
\* session_start
SessionStart ==
    /\ ~connected
    /\ sessions < MaxSessions
    /\ connected' = TRUE
    /\ sessions' = sessions + 1
    /\ ready' = PostTask(ready, "read", 1)
    /\ UNCHANGED <<is_encrypted, keys, write_queue, socketVars, reading, unp_packets,
                   sent>>

\* Disconnect and session_stop.  Of what the session leaves in the queue only
\* its write tasks can still have an effect in a later one.
SessionLost ==
    /\ connected
    /\ connected' = FALSE /\ is_encrypted' = FALSE /\ keys' = 0
    /\ write_queue' = <<>>
    /\ ready' = LET writes == {i \in 1..Len(ready) : ready[i] = <<"task", "write">>}
                IN  [i \in 1..Cardinality(writes) |-> <<"task", "write">>]
    /\ pending' = <<>>
    /\ wire' = <<>>
    /\ past' = (past \cup {wire[i].pkt.id : i \in 1..Len(wire)}) \ {PublicKey}
    /\ reading' = FALSE
    /\ UNCHANGED <<sessions, unp_packets, sent>>

-----------------------------------------------------------------------------
(***************************************************************************)
(* The handlers.  q is the rest of the queue.                              *)
(***************************************************************************)
\* async_write_some of the rest of w.  Without other writes before it the
\* socket takes some pieces at once if it has room; else w waits its turn.
WriteSome(w, q) ==
    \/ /\ pending = <<>>
       /\ \E k \in 1..(Parts - w.done) :
             /\ wire' = wire \o [i \in 1..k |-> [pkt |-> w.pkt, part |-> w.done + i]]
             /\ ready' = Append(q, <<"written", [w EXCEPT !.done = @ + k]>>)
       /\ UNCHANGED pending
    \/ /\ pending' = Append(pending, w)
       /\ ready' = q
       /\ UNCHANGED wire

\* session_write: it does not wait for the write before it to end.
session_write(q) ==
    \/ /\ write_queue = <<>>
       /\ ready' = q
       /\ UNCHANGED <<write_queue, pending, wire>>
    \/ /\ write_queue # <<>>
       /\ write_queue' = Tail(write_queue)
       /\ WriteSome([pkt |-> Head(write_queue), done |-> 0], q)

RunWriteTask ==
    /\ ready # <<>> /\ Head(ready) = <<"task", "write">>
    /\ session_write(Tail(ready))
    /\ UNCHANGED <<sessionVars, past, reading, unp_packets, sent>>

\* Mutant of WriteDone: the end of a write does not look at the queue.
WriteDoneOnly(q) == ready' = q

\* The end of an async_write, and session_handle_error after a failed one.
WriteDone(q) ==
    ready' = IF connected /\ write_queue # <<>> THEN PostTask(q, "write", 1) ELSE q

RunWritten ==
    /\ ready # <<>> /\ Head(ready)[1] = "written"
    /\ LET w == Head(ready)[2]
       IN  \/ w.done < Parts /\ WriteSome(w, Tail(ready))
           \/ w.done = Parts /\ WriteDone(Tail(ready)) /\ UNCHANGED <<pending, wire>>
    /\ UNCHANGED <<sessionVars, write_queue, past, reading, unp_packets, sent>>

RunFailed ==
    /\ ready # <<>> /\ Head(ready)[1] = "failed"
    /\ WriteDone(Tail(ready))
    /\ UNCHANGED <<sessionVars, write_queue, socketVars, reading, unp_packets, sent>>

RunReadTask ==
    /\ ready # <<>> /\ Head(ready) = <<"task", "read">>
    /\ ready' = Tail(ready)
    /\ reading' = TRUE
    /\ UNCHANGED <<sessionVars, write_queue, socketVars, unp_packets, sent>>

\* Where the entries are that unprocessed_process hands to Send, except those
\* whose encryption fails.
Live(failed) ==
    {i \in 1..Len(unp_packets) : ~unp_packets[i].empty /\ unp_packets[i].id \notin failed}

\* Mutant of Replayed: the newest entry first.
ReplayedBackwards(failed) ==
    {[i \in DOMAIN pos |-> [id |-> unp_packets[pos[Len(pos) + 1 - i]].id, enc |-> TRUE]] :
        pos \in Ascending(Live(failed))}

\* The packets made of them, and what becomes of the buffer.
Replayed(failed) ==
    {[i \in DOMAIN pos |-> [id |-> unp_packets[pos[i]].id, enc |-> TRUE]] :
        pos \in Ascending(Live(failed))}

\* Mutant of AfterReplay: the data is copied, not moved.
AfterReplayCopied(failed) ==
    [i \in 1..Len(unp_packets) |->
        IF unp_packets[i].empty \/ unp_packets[i].id \in failed
        THEN unp_packets[i]
        ELSE [unp_packets[i] EXCEPT !.bUsed = TRUE]]

AfterReplay(failed) ==
    [i \in 1..Len(unp_packets) |->
        IF unp_packets[i].empty \/ unp_packets[i].id \in failed
        THEN unp_packets[i]
        ELSE [unp_packets[i] EXCEPT !.empty = TRUE, !.bUsed = TRUE]]

\* Mutant of HandleKeyExchange: encryption is enabled, and the buffer replayed,
\* before the public key is sent.
HandleKeyExchangeLate(q) ==
    LET key == [id |-> PublicKey, enc |-> FALSE]
    IN  \E replay \in Replayed({}) :
        /\ is_encrypted' = TRUE
        /\ unp_packets' \in CleanedUp(AfterReplay({}))
        /\ write_queue' = Enqueue(Append(replay, key))
        /\ ready' = PostTask(PostTask(q, "write", 1 + Len(replay)), "read", 1)

\* HandleKeyExchange and session_enable_encryption, with unprocessed_process
\* as part of OnEnabledEnc.  The public key goes first, in the clear.
HandleKeyExchange(q) ==
    LET key == [id |-> PublicKey, enc |-> FALSE]
    IN  \/ \* encryption is enabled already, or the shared key cannot be computed
           /\ write_queue' = Enqueue(<<key>>)
           /\ ready' = PostTask(PostTask(q, "write", 1), "read", 1)
           /\ UNCHANGED <<is_encrypted, unp_packets>>
        \/ /\ ~is_encrypted
           /\ is_encrypted' = TRUE
           /\ \E failed \in SUBSET {unp_packets[i].id : i \in 1..Len(unp_packets)} :
                 \E replay \in Replayed(failed) :
                     /\ write_queue' = Enqueue(<<key>> \o replay)
                     /\ ready' = PostTask(PostTask(q, "write", 1 + Len(replay)), "read", 1)
                     /\ unp_packets' \in CleanedUp(AfterReplay(failed))

\* The end of a read and packet_handle, which posts the next read last.
RunReceived ==
    /\ ready # <<>> /\ Head(ready)[1] = "received"
    /\ \/ /\ Head(ready)[2] = "key_exchange"
          /\ HandleKeyExchange(Tail(ready))
          /\ keys' = keys + 1
       \/ /\ Head(ready)[2] = "other"
          /\ ready' = PostTask(Tail(ready), "read", 1)
          /\ UNCHANGED <<is_encrypted, keys, write_queue, unp_packets>>
    /\ UNCHANGED <<connected, sessions, socketVars, reading, sent>>

\* The part of MobiClient::Process that concerns the buffer.
unprocessed_cleanup_expired ==
    /\ unp_packets' \in CleanedUp(unp_packets)
    /\ UNCHANGED <<sessionVars, write_queue, ready, socketVars, reading, sent>>

-----------------------------------------------------------------------------
(***************************************************************************)
(* The socket.                                                             *)
(***************************************************************************)
Writable ==
    /\ pending # <<>>
    /\ \E k \in 1..(Parts - Head(pending).done) :
          /\ wire' = wire \o [i \in 1..k |-> [pkt |-> Head(pending).pkt,
                                              part |-> Head(pending).done + i]]
          /\ ready' = Append(ready, <<"written", [Head(pending) EXCEPT !.done = @ + k]>>)
    /\ pending' = Tail(pending)
    /\ UNCHANGED <<sessionVars, write_queue, past, reading, unp_packets, sent>>

WriteFails ==
    /\ SoftErrors
    /\ pending # <<>>
    /\ pending' = Tail(pending)
    /\ ready' = Append(ready, <<"failed", "soft">>)
    /\ UNCHANGED <<sessionVars, write_queue, wire, past, reading, unp_packets, sent>>

Receives(what) ==
    /\ reading
    /\ what = "key_exchange" => keys < MaxKeys
    /\ reading' = FALSE
    /\ ready' = Append(ready, <<"received", what>>)
    /\ UNCHANGED <<sessionVars, write_queue, socketVars, unp_packets, sent>>

DoWork ==
    RunWriteTask \/ RunWritten \/ RunFailed \/ RunReadTask \/ RunReceived

Next ==
    \/ SendPacket
    \/ SessionStart \/ SessionLost
    \/ DoWork
    \/ unprocessed_cleanup_expired
    \/ Writable \/ WriteFails
    \/ \E what \in {"key_exchange", "other"} : Receives(what)

Spec == Init /\ [][Next]_vars

-----------------------------------------------------------------------------
(***************************************************************************)
(* Properties.                                                             *)
(***************************************************************************)
\* Type invariant, with the limits of the three queues.
TypeOK ==
    /\ connected \in BOOLEAN /\ is_encrypted \in BOOLEAN /\ reading \in BOOLEAN
    /\ sessions \in 0..MaxSessions /\ keys \in 0..MaxKeys /\ sent \in 0..MaxSent
    /\ write_queue \in Seq(Packet) /\ Len(write_queue) <= MaxQueue
    /\ ready \in Seq(Handler) /\ PendingTasks(ready) <= MaxTasks
    /\ pending \in Seq(Write)
    /\ wire \in Seq([pkt : Packet, part : 1..Parts])
    /\ unp_packets \in Seq(Entry) /\ Len(unp_packets) <= MaxUnprocessed
    /\ past \subseteq 1..MaxSent

\* The places of the packets of this session, from the front: those with a piece
\* on the wire, those waiting for the socket, those in the queue.
Path ==
    ({1} \X {i \in 1..Len(wire) : wire[i].part = 1})
        \cup ({2} \X {i \in 1..Len(pending) : pending[i].done = 0})
        \cup ({3} \X (1..Len(write_queue)))

At(x) ==
    CASE x[1] = 1 -> wire[x[2]].pkt
      [] x[1] = 2 -> pending[x[2]].pkt
      [] x[1] = 3 -> write_queue[x[2]]

Before(x, y) == x[1] < y[1] \/ (x[1] = y[1] /\ x[2] < y[2])

\* No packet is sent twice: not in one session, not in two, and not because a
\* replayed packet stays in the buffer until the next cleanup.
AtMostOnce ==
    /\ \A x, y \in Path : x # y /\ At(x).id = At(y).id => At(x).id = PublicKey
    /\ \A x \in Path : At(x).id \notin past
    /\ \A i \in 1..Len(unp_packets) :
          ~unp_packets[i].empty =>
              /\ unp_packets[i].id \notin past
              /\ \A x \in Path : At(x).id # unp_packets[i].id

\* In one session a packet may go before another if the game sent it before, and
\* also if it is in the clear and the other encrypted: Send takes packets before the
\* key exchange, and these overtake the older ones that wait in the buffer for it.
MayPrecede(p, q) ==
    p.id < q.id \/ (~p.enc /\ q.enc) \/ PublicKey \in {p.id, q.id}

\* That is the only overtaking there is.  What one session sends in the clear keeps
\* its order, what it sends encrypted does, replayed packets before those of the
\* present, and nothing in the clear follows anything encrypted.
SentInOrder ==
    \A x, y \in Path : Before(x, y) => MayPrecede(At(x), At(y))

\* Unless a public key was lost, to the limit of the queue or to a write that
\* failed softly, it is scheduled before anything encrypted with the key it leads
\* to (HandleKeyExchange sends it before it enables encryption).
KeyScheduledFirst ==
    LET at == {x \in Path : At(x).id = PublicKey}
    IN  Cardinality(at) = keys =>
            \A y \in Path : At(y).enc => \E x \in at : Before(x, y)

\* A packet in the queue is never stranded there: a task that will take it, or
\* a write whose end will post one, is under way, even if the packet's own task
\* was dropped at the limit.
QueueServed ==
    write_queue # <<>> =>
        \/ pending # <<>>
        \/ \E i \in 1..Len(ready) :
              \/ ready[i] = <<"task", "write">>
              \/ ready[i][1] \in {"written", "failed"}
=============================================================================
