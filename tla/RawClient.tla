----------------------------- MODULE RawClient -----------------------------
(***************************************************************************)
(* The TCP client that keeps a game core connected to the bridge server:   *)
(* NetworkClientImpl (Source/Raw/raw_client.cpp, raw_session.cpp,          *)
(* raw_data.cpp).  It is single threaded: the game heartbeat calls DoWork, *)
(* which runs completed handlers one at a time in FIFO order.  What makes  *)
(* it hard is that every operation is asynchronous: resolves, connects,    *)
(* reads and the two timers complete in any order, a handler that is       *)
(* already queued can no longer be cancelled, and attempts that timed out  *)
(* are not cancelled at all and may complete long after.                   *)
(*                                                                         *)
(* Outgoing packets are the subject of module Delivery.                    *)
(***************************************************************************)
EXTENDS Naturals, Sequences, FiniteSets

CONSTANTS
    MaxAttempts,    \* bound: overlapping connection attempts
    MaxWrites,      \* bound: writes posted, outstanding or just completed
    MaxTasks,       \* MAX_PENDING_TASKS
    Packets         \* what the bridge may send, a subset of PacketKinds

VARIABLES
    connect_state,      \* connect_state_
    is_encrypted,       \* is_encrypted_ (and crypto_, which is set with it)
    reconnect_timer,    \* a wait on reconnect_timer_ is outstanding
    connect_timeout,    \* a wait on connect_timeout_timer_ is outstanding
    resolves,           \* number of async_resolve operations outstanding
    connecting,         \* an async_connect is outstanding on socket_
    socket_open,        \* socket_.is_open()
    reads,              \* the async_read operations outstanding on socket_
    writes,             \* number of async_write operations outstanding
    ready,              \* the io_context's FIFO queue of runnable handlers
    bridge_cache_ready  \* MobiClient::bridge_cache_ready_

timers     == <<reconnect_timer, connect_timeout>>
socketVars == <<connecting, socket_open, reads, writes>>
vars == <<connect_state, is_encrypted, timers, resolves, socketVars, ready,
          bridge_cache_ready>>

EConnectState == {"CONNECTED", "DISCONNECTED", "CONNECTING"}

\* The stages of one packet read: header then body in the clear (the body
\* stands for the fixed and the dynamic part), size then data when encrypted.
Stages == {"header", "body", "size", "data"}

\* How a read or a write ends: an error that makes ErrorHandler close the
\* session (reset, abort, end of file ...) is "close", any other is "soft".
IOResults == {"ok", "close", "soft"}

\* A read also ends "unknown": it went through, and what it read is, or decrypts
\* to, a header that is invalid or has no descriptor.
ReadResults == IOResults \cup {"unknown"}

\* What OnDataReceived makes of a packet, "unknown" being one it never sees;
\* "other" is every handler that leaves this state alone, whether it succeeds or
\* fails.
PacketKinds == {"key_exchange", "cache_ready", "cache_stale", "other", "unknown"}

ASSUME BoundsAssumption == MaxAttempts \in Nat /\ MaxWrites \in Nat /\ MaxTasks \in Nat
ASSUME PacketsAssumption == Packets \subseteq PacketKinds

Handler ==
    ({"reconnect", "timeout", "read_task", "write_task"} \X {"ok"})
        \cup ({"resolve"} \X {"ok", "err", "no_v4"})
        \cup ({"connect"} \X {"ok", "err"})
        \cup ({"write"} \X IOResults)
        \cup (Stages \X ReadResults)

\* A handler of this operation is in the queue.
Queued(op) == \E i \in 1..Len(ready) : ready[i][1] = op

IsConnected == connect_state = "CONNECTED"

Init ==
    /\ connect_state = "DISCONNECTED"
    /\ is_encrypted = FALSE
    /\ reconnect_timer = FALSE
    /\ connect_timeout = FALSE
    /\ resolves = 0
    /\ connecting = FALSE
    /\ socket_open = FALSE
    /\ reads = <<>>
    /\ writes = 0
    /\ ready = <<>>
    /\ bridge_cache_ready = FALSE

-----------------------------------------------------------------------------
(***************************************************************************)
(* Closing a socket completes what is outstanding on it with               *)
(* operation_aborted.  The handlers of a cancelled timer return at once,   *)
(* so a cancelled wait is simply forgotten.                                *)
(***************************************************************************)
Aborted ==
    [i \in 1..Len(reads) |-> <<reads[i], "close">>]
        \o [i \in 1..writes |-> <<"write", "close">>]
        \o (IF connecting THEN <<<<"connect", "err">>>> ELSE <<>>)

\* session_stop, which does nothing unless the client is connected; q is the
\* queue it leaves the aborted handlers on.
session_stop(q) ==
    IF IsConnected
    THEN /\ is_encrypted' = FALSE
         /\ reads' = <<>>
         /\ writes' = 0
         /\ connecting' = FALSE
         /\ socket_open' = FALSE
         /\ ready' = q \o Aborted
    ELSE /\ ready' = q
         /\ UNCHANGED <<is_encrypted, socketVars>>

\* StartReconnectTimer, called when the state is (or just became) DISCONNECTED.
StartReconnectTimer ==
    /\ connect_state' = "CONNECTING"
    /\ reconnect_timer' = TRUE

\* Mutants of Disconnect: the timers cleared last, and the state changed first.
DisconnectClearsLast(q) ==
    /\ connect_state' = "CONNECTING"
    /\ reconnect_timer' = FALSE
    /\ connect_timeout' = FALSE
    /\ session_stop(q)
    /\ bridge_cache_ready' = FALSE
    /\ UNCHANGED resolves

DisconnectStateFirst(q) ==
    /\ StartReconnectTimer
    /\ connect_timeout' = FALSE
    /\ ready' = q
    /\ bridge_cache_ready' = FALSE
    /\ UNCHANGED <<resolves, is_encrypted, socketVars>>

\* Disconnect(true): stop the timers and the session, tell the game
\* (OnDisconnect), and arm the reconnect timer again.
Disconnect(q) ==
    /\ StartReconnectTimer
    /\ UNCHANGED resolves
    /\ IF connect_state = "DISCONNECTED"
       THEN /\ ready' = q
            /\ UNCHANGED <<connect_timeout, is_encrypted, socketVars,
                           bridge_cache_ready>>
       ELSE /\ connect_timeout' = FALSE
            /\ session_stop(q)
            /\ bridge_cache_ready' = FALSE

\* Mutant of Connect: no timeout is armed.
ConnectUntimed(q) ==
    /\ ready' = q
    /\ UNCHANGED <<is_encrypted, timers, socketVars, bridge_cache_ready>>
    /\ IF IsConnected
       THEN UNCHANGED <<connect_state, resolves>>
       ELSE connect_state' = "CONNECTING" /\ resolves' = resolves + 1

\* Connect: a new attempt, whatever attempts are still outstanding.
Connect(q) ==
    /\ ready' = q
    /\ UNCHANGED <<is_encrypted, reconnect_timer, socketVars, bridge_cache_ready>>
    /\ IF IsConnected
       THEN UNCHANGED <<connect_state, connect_timeout, resolves>>
       ELSE /\ connect_state' = "CONNECTING"
            /\ connect_timeout' = TRUE
            /\ resolves' = resolves + 1

\* pending_tasks_count_: a task leaves the count as it begins to run.
Tasks(q) == Cardinality({i \in 1..Len(q) : q[i][1] \in {"read_task", "write_task"}})

\* PostTask, which drops the task without a word when too many are pending.
PostTask(task, q) ==
    ready' = IF Tasks(q) >= MaxTasks THEN q ELSE Append(q, <<task, "ok">>)

\* PostTask of the next read.
PostRead(q) == PostTask("read_task", q)

-----------------------------------------------------------------------------
(***************************************************************************)
(* The handlers.  Each is run by DoWork with the rest of the queue as q.   *)
(***************************************************************************)
ReconnectHandler(q) == Connect(q)

\* The wait expired without an error, which the handler reports as a critical
\* error; its second report finds the state DISCONNECTED and only arms the
\* reconnect timer that the first has just armed.
TimeoutHandler(q) == Disconnect(q)

\* resolve_handler: async_connect closes the socket before it opens it anew.
ResolveHandler(res, q) ==
    \/ /\ res = "err"
       /\ Disconnect(q)
    \/ /\ res = "no_v4"
       /\ ready' = q
       /\ UNCHANGED <<connect_state, is_encrypted, timers, resolves, socketVars,
                      bridge_cache_ready>>
    \/ /\ res = "ok"
       /\ ready' = q \o Aborted
       /\ reads' = <<>>
       /\ writes' = 0
       /\ connecting' = TRUE
       /\ socket_open' = TRUE
       /\ UNCHANGED <<connect_state, is_encrypted, timers, resolves,
                      bridge_cache_ready>>

\* Mutant of ConnectHandler: session_start does not look for a session.
ConnectHandlerUnguarded(res, q) ==
    IF res = "ok" /\ socket_open
    THEN /\ connect_state' = "CONNECTED"
         /\ reconnect_timer' = FALSE
         /\ connect_timeout' = FALSE
         /\ PostRead(q)
         /\ UNCHANGED <<is_encrypted, resolves, socketVars, bridge_cache_ready>>
    ELSE Disconnect(q)

\* The async_connect handler and session_start.
ConnectHandler(res, q) ==
    IF res = "ok" /\ socket_open /\ ~IsConnected
    THEN /\ connect_state' = "CONNECTED"
         /\ reconnect_timer' = FALSE
         /\ connect_timeout' = FALSE
         /\ PostRead(q)
         /\ UNCHANGED <<is_encrypted, resolves, socketVars, bridge_cache_ready>>
    ELSE Disconnect(q)

\* Mutant of ReadTask: always reads in the clear.
ReadTaskPlain(q) ==
    /\ ready' = q
    /\ reads' = IF IsConnected THEN Append(reads, "header") ELSE reads
    /\ UNCHANGED <<connect_state, is_encrypted, timers, resolves, connecting,
                   socket_open, writes, bridge_cache_ready>>

\* session_read or session_read_encrypted, whichever the flag asks for now.
ReadTask(q) ==
    /\ ready' = q
    /\ reads' = IF IsConnected
                THEN Append(reads, IF is_encrypted THEN "size" ELSE "header")
                ELSE reads
    /\ UNCHANGED <<connect_state, is_encrypted, timers, resolves, connecting,
                   socket_open, writes, bridge_cache_ready>>

\* Mutant of RetryRead: the error is reported and nothing is posted.
RetryReadNot(q) ==
    /\ ready' = q
    /\ UNCHANGED <<connect_state, is_encrypted, timers, resolves, socketVars,
                   bridge_cache_ready>>

\* session_handle_error for an error that does not close the session: read on.
RetryRead(q) ==
    /\ IF IsConnected THEN PostRead(q) ELSE ready' = q
    /\ UNCHANGED <<connect_state, is_encrypted, timers, resolves, socketVars,
                   bridge_cache_ready>>

\* A read handler that finds the session gone, and a packet nobody can
\* process: neither posts another read.
StopReading(q) ==
    /\ ready' = q
    /\ UNCHANGED <<connect_state, is_encrypted, timers, resolves, socketVars,
                   bridge_cache_ready>>

\* Mutant of packet_handle: a key exchange in an encrypted session starts over, and
\* may fail.
packet_handle_rekeys(kind, q) ==
    /\ PostRead(q)
    /\ \/ kind = "key_exchange" /\ is_encrypted' \in BOOLEAN /\ UNCHANGED bridge_cache_ready
       \/ /\ kind \in {"cache_ready", "cache_stale"}
          /\ bridge_cache_ready' = (kind = "cache_ready")
          /\ UNCHANGED is_encrypted
       \/ kind = "other" /\ UNCHANGED <<is_encrypted, bridge_cache_ready>>
    /\ UNCHANGED <<connect_state, timers, resolves, socketVars>>

\* packet_handle: dispatch the packet, then post the next read.
packet_handle(kind, q) ==
    /\ PostRead(q)
    /\ \/ /\ kind = "key_exchange"          \* session_enable_encryption
          /\ is_encrypted' \in {TRUE, is_encrypted}
          /\ UNCHANGED bridge_cache_ready
       \/ /\ kind \in {"cache_ready", "cache_stale"}
          /\ bridge_cache_ready' = (kind = "cache_ready")
          /\ UNCHANGED is_encrypted
       \/ /\ kind = "other"
          /\ UNCHANGED <<is_encrypted, bridge_cache_ready>>
    /\ UNCHANGED <<connect_state, timers, resolves, socketVars>>

\* The next stage of a read that has begun.
ReadOn(stage, q) ==
    /\ reads' = Append(reads, stage)
    /\ ready' = q
    /\ UNCHANGED <<connect_state, is_encrypted, timers, resolves, connecting,
                   socket_open, writes, bridge_cache_ready>>

\* A read in the clear: session_read and packet_process.
HeaderHandler(q) == ReadOn("body", q)

BodyHandler(q) ==
    \E kind \in Packets \ {"unknown"} : packet_handle(kind, q)

\* An encrypted read: session_read_encrypted and packet_process_decrypted.
SizeHandler(q) ==
    \/ ReadOn("data", q)
    \/ RetryRead(q)                         \* invalid packet size

DataHandler(q) ==
    \/ RetryRead(q)                         \* decryption failed
    \/ BodyHandler(q)

\* The error handling the stages share.  Only a body read looks at the
\* connection before it looks at the error.
ReadHandler(stage, res, q) ==
    \/ /\ stage = "body" /\ ~IsConnected
       /\ StopReading(q)
    \/ /\ stage # "body" \/ IsConnected
       /\ \/ /\ res = "close"
             /\ Disconnect(q)
          \/ /\ res = "soft"
             /\ RetryRead(q)
          \/ /\ res = "unknown" \/ (res = "ok" /\ ~IsConnected)
             /\ StopReading(q)
          \/ /\ res = "ok" /\ IsConnected
             /\ \/ stage = "header" /\ HeaderHandler(q)
                \/ stage = "body" /\ BodyHandler(q)
                \/ stage = "size" /\ SizeHandler(q)
                \/ stage = "data" /\ DataHandler(q)

\* Another session_write is posted.
PostWrite(q) ==
    /\ PostTask("write_task", q)
    /\ UNCHANGED <<connect_state, is_encrypted, timers, resolves, socketVars,
                   bridge_cache_ready>>

\* The async_write handler: in a session, a write that failed softly posts
\* another, and one that went through does if a packet is waiting.
WriteHandler(res, q) ==
    \/ /\ res = "close"
       /\ Disconnect(q)
    \/ /\ res # "close" /\ IsConnected
       /\ PostWrite(q)
    \/ /\ res = "ok" \/ (res = "soft" /\ ~IsConnected)
       /\ StopReading(q)

\* session_write: there is a packet to write, in a session only, or there is none.
session_write(q) ==
    /\ ready' = q
    /\ writes' \in IF IsConnected THEN {writes, writes + 1} ELSE {writes}
    /\ UNCHANGED <<connect_state, is_encrypted, timers, resolves, connecting,
                   socket_open, reads, bridge_cache_ready>>

-----------------------------------------------------------------------------
\* ConnectToBridge, called once by start() before the first heartbeat.
Start ==
    /\ connect_state = "DISCONNECTED"
    /\ Connect(ready)

\* DoWork: run the handler at the head of the queue.
RunReconnect ==
    /\ ready # <<>> /\ Head(ready)[1] = "reconnect"
    /\ ReconnectHandler(Tail(ready))

RunTimeout ==
    /\ ready # <<>> /\ Head(ready)[1] = "timeout"
    /\ TimeoutHandler(Tail(ready))

RunResolve ==
    /\ ready # <<>> /\ Head(ready)[1] = "resolve"
    /\ ResolveHandler(Head(ready)[2], Tail(ready))

RunConnect ==
    /\ ready # <<>> /\ Head(ready)[1] = "connect"
    /\ ConnectHandler(Head(ready)[2], Tail(ready))

RunReadTask ==
    /\ ready # <<>> /\ Head(ready)[1] = "read_task"
    /\ ReadTask(Tail(ready))

RunRead ==
    /\ ready # <<>> /\ Head(ready)[1] \in Stages
    /\ ReadHandler(Head(ready)[1], Head(ready)[2], Tail(ready))

RunWrite ==
    /\ ready # <<>> /\ Head(ready)[1] = "write"
    /\ WriteHandler(Head(ready)[2], Tail(ready))

RunWriteTask ==
    /\ ready # <<>> /\ Head(ready)[1] = "write_task"
    /\ session_write(Tail(ready))

\* Send, from wherever in the game: what it queues is the subject of Delivery,
\* what it posts takes its place among the tasks.
Send ==
    /\ IsConnected
    /\ writes + Cardinality({i \in 1..Len(ready) : ready[i][1] \in {"write_task", "write"}})
          < MaxWrites
    /\ PostWrite(ready)

\* The end of DoWork.  The state is DISCONNECTED here only before Start.
DoWorkEnd ==
    /\ connect_state = "DISCONNECTED"
    /\ StartReconnectTimer
    /\ UNCHANGED <<is_encrypted, connect_timeout, resolves, socketVars, ready,
                   bridge_cache_ready>>

DoWork ==
    \/ RunReconnect
    \/ RunTimeout
    \/ RunResolve
    \/ RunConnect
    \/ RunReadTask
    \/ RunRead
    \/ RunWrite
    \/ RunWriteTask
    \/ DoWorkEnd

-----------------------------------------------------------------------------
(***************************************************************************)
(* The operating system and the network: outstanding operations complete   *)
(* and their handlers join the queue.                                      *)
(***************************************************************************)
\* The attempts that may still lead to a session.
AttemptOps == {"reconnect", "resolve", "connect"}

Attempts ==
    resolves + (IF connecting THEN 1 ELSE 0)
        + Cardinality({i \in 1..Len(ready) : ready[i][1] \in AttemptOps})

ReconnectExpires ==
    /\ reconnect_timer
    /\ Attempts < MaxAttempts
    /\ reconnect_timer' = FALSE
    /\ ready' = Append(ready, <<"reconnect", "ok">>)
    /\ UNCHANGED <<connect_state, is_encrypted, connect_timeout, resolves,
                   socketVars, bridge_cache_ready>>

TimeoutExpires ==
    /\ connect_timeout
    /\ connect_timeout' = FALSE
    /\ ready' = Append(ready, <<"timeout", "ok">>)
    /\ UNCHANGED <<connect_state, is_encrypted, reconnect_timer, resolves,
                   socketVars, bridge_cache_ready>>

ResolveCompletes(res) ==
    /\ resolves > 0
    /\ resolves' = resolves - 1
    /\ ready' = Append(ready, <<"resolve", res>>)
    /\ UNCHANGED <<connect_state, is_encrypted, timers, socketVars,
                   bridge_cache_ready>>

ConnectCompletes(res) ==
    /\ connecting
    /\ connecting' = FALSE
    /\ ready' = Append(ready, <<"connect", res>>)
    /\ UNCHANGED <<connect_state, is_encrypted, timers, resolves, socket_open,
                   reads, writes, bridge_cache_ready>>

ReadCompletes(res) ==
    /\ reads # <<>>
    /\ res = "unknown" => Head(reads) \in {"header", "data"} /\ "unknown" \in Packets
    /\ reads' = Tail(reads)
    /\ ready' = Append(ready, <<Head(reads), res>>)
    /\ UNCHANGED <<connect_state, is_encrypted, timers, resolves, connecting,
                   socket_open, writes, bridge_cache_ready>>

WriteCompletes(res) ==
    /\ writes > 0
    /\ writes' = writes - 1
    /\ ready' = Append(ready, <<"write", res>>)
    /\ UNCHANGED <<connect_state, is_encrypted, timers, resolves, connecting,
                   socket_open, reads, bridge_cache_ready>>

Network ==
    \/ ReconnectExpires
    \/ TimeoutExpires
    \/ \E res \in {"ok", "err", "no_v4"} : ResolveCompletes(res)
    \/ \E res \in {"ok", "err"} : ConnectCompletes(res)
    \/ \E res \in ReadResults : ReadCompletes(res)
    \/ \E res \in IOResults : WriteCompletes(res)

Next == Start \/ DoWork \/ Send \/ Network

Spec == Init /\ [][Next]_vars

(***************************************************************************)
(* The heartbeat never stops calling DoWork, timers expire, and name       *)
(* resolution and connecting end one way or the other.  Whoever tries      *)
(* forever to reach the bridge succeeds sometimes.                         *)
(***************************************************************************)
Fairness ==
    /\ WF_vars(DoWork)
    /\ WF_vars(ReconnectExpires)
    /\ WF_vars(TimeoutExpires)
    /\ WF_vars(\E res \in {"ok", "err", "no_v4"} : ResolveCompletes(res))
    /\ WF_vars(\E res \in {"ok", "err"} : ConnectCompletes(res))
    /\ SF_vars(ResolveCompletes("ok"))
    /\ SF_vars(ConnectCompletes("ok"))

FairSpec == Spec /\ Fairness

-----------------------------------------------------------------------------
(***************************************************************************)
(* Properties.                                                             *)
(***************************************************************************)
\* Type invariant of the client's state.
TypeOK ==
    /\ connect_state \in EConnectState
    /\ is_encrypted \in BOOLEAN
    /\ reconnect_timer \in BOOLEAN
    /\ connect_timeout \in BOOLEAN
    /\ resolves \in Nat
    /\ connecting \in BOOLEAN
    /\ socket_open \in BOOLEAN
    /\ reads \in Seq(Stages)
    /\ writes \in Nat
    /\ ready \in Seq(Handler)
    /\ bridge_cache_ready \in BOOLEAN

\* A client that is waiting to be connected always has something that will
\* wake it: one of its timers is running, or the handler of one is queued.
\* ClearTimers, Connect and Disconnect never leave it waiting for nothing.
RetryPending ==
    connect_state = "CONNECTING" =>
        \/ reconnect_timer \/ connect_timeout
        \/ Queued("reconnect") \/ Queued("timeout")

\* Nothing of a session outlives it: without a session there is no key, no
\* read on the socket and no belief that the bridge's cache is up to date.
\* This rests on session_stop running before connect_state_ is changed.
SessionScoped ==
    ~IsConnected => ~is_encrypted /\ reads = <<>> /\ ~bridge_cache_ready

\* The sessions of the client are those the rest of the core counts on: encrypted
\* once at most and never back in the clear, and ended, with the key and what the
\* bridge said of its cache, in one step, by whatever handler it is (session_start,
\* session_enable_encryption, session_stop, OnDisconnect).
Session == INSTANCE BridgeSession
    WITH up <- IsConnected, secure <- is_encrypted, informed <- bridge_cache_ready

SessionsSound == Session!Spec

\* The elements of the read loop: outstanding reads, and read tasks and read
\* handlers in the queue.
LoopOps == Stages \cup {"read_task"}

ReadLoop ==
    Len(reads) + Cardinality({i \in 1..Len(ready) : ready[i][1] \in LoopOps})

\* As long as no more than two attempts to connect overlap there is never more
\* than one read loop, so that two reads never share the socket's bytes between
\* them.  With a third attempt a session may begin while a read task of the one
\* before is still queued: nothing in session_start looks for it.
SingleReader == [](Attempts <= 2) => [](ReadLoop <= 1)

\* A read is begun in a mode, in the clear or encrypted, that is the session's.
InMode(stage) == (stage \in {"size", "data"}) = is_encrypted

\* Then also a read that completes in a session was begun under the session's
\* present mode: an encrypted read always finds crypto_, and no read in the clear
\* meets encrypted bytes.
ModeKept ==
    IsConnected =>
        /\ \A i \in 1..Len(reads) : InMode(reads[i])
        /\ \A i \in 1..Len(ready) : ready[i][1] \in Stages => InMode(ready[i][1])

ReadModeMatches == [](Attempts <= 2) => []ModeKept

\* A session that lasts keeps listening, from session_start on: no soft error, bad
\* size, lost race or failed decryption ends its read loop.  Only two things do: a
\* packet that nobody knows, and PostTask, when what should post the next read (the
\* first one, or session_handle_error's among them) finds MAX_PENDING_TASKS pending.
KeepsListening ==
    [][(IsConnected' /\ ReadLoop' = 0 /\ (IsConnected => ReadLoop >= 1))
          => \/ Head(ready)[2] = "unknown"
             \/ Tasks(Tail(ready)) >= MaxTasks]_vars

\* If attempts to reach the bridge keep succeeding, the client is connected
\* again and again: it recovers from every loss of the connection.
Recovers == []<>IsConnected
=============================================================================
