-------------------------- MODULE RawClientProofs --------------------------
(***************************************************************************)
(* The client is never stuck waiting for a connection, and nothing of a    *)
(* session outlives it, for every bound on attempts and writes and         *)
(* whatever the bridge sends.                                              *)
(***************************************************************************)
EXTENDS RawClient, SequenceTheorems, FiniteSetTheorems, TLAPS

\* The parts of the queue.
LEMMA QueueTail ==
    ASSUME NEW s \in Seq(Handler), s # <<>>
    PROVE  /\ Head(s) \in Handler
           /\ Tail(s) \in Seq(Handler)
           /\ Len(Tail(s)) = Len(s) - 1
           /\ \A i \in 1..Len(Tail(s)) : Tail(s)[i] = s[i + 1]
           /\ Len(s) \in Nat \ {0}
           /\ Head(s) = s[1]
  BY HeadTailProperties, EmptySeq

LEMMA AbortedType == TypeOK => Aborted \in Seq(Handler)
  <1> SUFFICES ASSUME TypeOK PROVE Aborted \in Seq(Handler)
    OBVIOUS
  <1>1. [i \in 1..Len(reads) |-> <<reads[i], "close">>] \in Seq(Handler)
    <2>1. \A i \in 1..Len(reads) : <<reads[i], "close">> \in Handler
      BY ElementOfSeq DEF TypeOK, Handler, IOResults, ReadResults
    <2> QED BY <2>1, LenProperties DEF TypeOK
  <1>2. [i \in 1..writes |-> <<"write", "close">>] \in Seq(Handler)
    BY DEF TypeOK, Handler, IOResults, ReadResults
  <1>3. (IF connecting THEN <<<<"connect", "err">>>> ELSE <<>>) \in Seq(Handler)
    BY DEF Handler
  <1> QED
    BY <1>1, <1>2, <1>3, ConcatProperties DEF Aborted

-----------------------------------------------------------------------------
\* What the two central operations establish, whatever was queued before.
LEMMA DisconnectEstablishes ==
    ASSUME TypeOK, SessionScoped, NEW STATE q, q \in Seq(Handler), Disconnect(q)
    PROVE  TypeOK' /\ RetryPending' /\ SessionScoped'
  <1>1. q \o Aborted \in Seq(Handler)
    BY AbortedType, ConcatProperties
  <1>2. TypeOK'
    <2>1. /\ connect_state' \in EConnectState
          /\ reads' \in Seq(Stages) /\ writes' \in Nat /\ resolves' \in Nat
          /\ ready' \in Seq(Handler)
      <3>1. connect_state' \in EConnectState /\ resolves' \in Nat
        BY DEF TypeOK, Disconnect, StartReconnectTimer, EConnectState
      <3>2. ready' \in Seq(Handler)
        BY <1>1 DEF Disconnect, session_stop
      <3>3. reads' \in Seq(Stages) /\ writes' \in Nat
        <4>1. \/ reads' = <<>> /\ writes' = 0
              \/ reads' = reads /\ writes' = writes
          BY Zenon DEF Disconnect, session_stop, socketVars
        <4>2. <<>> \in Seq(Stages) /\ 0 \in Nat
          OBVIOUS
        <4> QED BY <4>1, <4>2, Zenon DEF TypeOK
      <3> QED BY <3>1, <3>2, <3>3
    <2>2. /\ is_encrypted' \in BOOLEAN /\ reconnect_timer' \in BOOLEAN
          /\ connect_timeout' \in BOOLEAN /\ connecting' \in BOOLEAN
          /\ socket_open' \in BOOLEAN /\ bridge_cache_ready' \in BOOLEAN
      BY Zenon DEF TypeOK, Disconnect, StartReconnectTimer, session_stop, socketVars
    <2> QED BY <2>1, <2>2 DEF TypeOK
  <1>3. RetryPending'
    BY DEF RetryPending, Disconnect, StartReconnectTimer
  <1>4. SessionScoped'
    BY DEF SessionScoped, IsConnected, Disconnect, StartReconnectTimer, session_stop,
           socketVars
  <1> QED BY <1>2, <1>3, <1>4

LEMMA ConnectEstablishes ==
    ASSUME TypeOK, SessionScoped, NEW STATE q, q \in Seq(Handler), Connect(q)
    PROVE  TypeOK' /\ RetryPending' /\ SessionScoped'
  <1>1. TypeOK'
    <2>1. /\ connect_state' \in EConnectState
          /\ reads' \in Seq(Stages) /\ writes' \in Nat /\ resolves' \in Nat
          /\ ready' \in Seq(Handler)
      BY DEF TypeOK, Connect, socketVars, EConnectState
    <2>2. /\ is_encrypted' \in BOOLEAN /\ reconnect_timer' \in BOOLEAN
          /\ connect_timeout' \in BOOLEAN /\ connecting' \in BOOLEAN
          /\ socket_open' \in BOOLEAN /\ bridge_cache_ready' \in BOOLEAN
      BY Zenon DEF TypeOK, Connect, socketVars
    <2> QED BY <2>1, <2>2 DEF TypeOK
  <1>2. RetryPending'
    BY DEF RetryPending, Connect, IsConnected
  <1>3. SessionScoped'
    BY DEF SessionScoped, IsConnected, Connect, socketVars
  <1> QED BY <1>1, <1>2, <1>3

\* Running a handler that is not a timer's, and queueing another, loses no
\* timer's handler.
LEMMA QueuedKept ==
    ASSUME NEW op, TypeOK, ready # <<>>, Head(ready)[1] # op,
           NEW STATE more, more \in Seq(Handler), ready' = Tail(ready) \o more, Queued(op)
    PROVE  Queued(op)'
  <1>1. PICK i \in 1..Len(ready) : ready[i][1] = op
    BY DEF Queued
  <1>2. /\ Tail(ready) \in Seq(Handler) /\ Len(Tail(ready)) = Len(ready) - 1
        /\ \A j \in 1..Len(Tail(ready)) : Tail(ready)[j] = ready[j + 1]
        /\ Len(ready) \in Nat \ {0}
        /\ Head(ready) = ready[1]
    BY QueueTail DEF TypeOK
  <1>3. i # 1
    BY <1>1, <1>2
  <1>4. i - 1 \in 1..Len(Tail(ready)) /\ Tail(ready)[i - 1] = ready[i]
    BY <1>2, <1>3
  <1>5. /\ Len(Tail(ready) \o more) = Len(Tail(ready)) + Len(more)
        /\ \A j \in 1..Len(Tail(ready)) : (Tail(ready) \o more)[j] = Tail(ready)[j]
    BY <1>2, ConcatProperties
  <1>6. i - 1 \in 1..Len(Tail(ready) \o more)
    BY <1>2, <1>4, <1>5, LenProperties
  <1> QED BY <1>1, <1>4, <1>5, <1>6 DEF Queued

\* A handler that is not a timer's and leaves the state and the timers alone
\* leaves the client as well provided for as it found it.
LEMMA QuietRun ==
    ASSUME TypeOK, RetryPending, ready # <<>>,
           Head(ready)[1] # "reconnect", Head(ready)[1] # "timeout",
           NEW STATE more, more \in Seq(Handler), ready' = Tail(ready) \o more,
           connect_state' = connect_state, reconnect_timer' = reconnect_timer,
           connect_timeout' = connect_timeout
    PROVE  RetryPending' /\ ready' \in Seq(Handler)
  <1>1. Queued("reconnect") => Queued("reconnect")'
    BY QueuedKept
  <1>2. Queued("timeout") => Queued("timeout")'
    BY QueuedKept
  <1>3. ready' \in Seq(Handler)
    BY QueueTail, ConcatProperties DEF TypeOK
  <1> QED BY <1>1, <1>2, <1>3, Zenon DEF RetryPending

\* The forms the rest of the queue takes after such a handler.
LEMMA QuietForms ==
    ASSUME TypeOK, ready # <<>>, NEW STATE h, h \in Handler
    PROVE  /\ Tail(ready) = Tail(ready) \o <<>>
           /\ Append(Tail(ready), h) = Tail(ready) \o <<h>>
           /\ <<>> \in Seq(Handler) /\ <<h>> \in Seq(Handler)
           /\ Tail(ready) \in Seq(Handler)
  <1>1. Tail(ready) \in Seq(Handler)
    BY QueueTail DEF TypeOK
  <1>2. Tail(ready) \o <<>> = Tail(ready)
    BY <1>1, ConcatEmptySeq
  <1>3. Append(Tail(ready), h) = Tail(ready) \o <<h>>
    BY <1>1, AppendIsConcat
  <1>4. <<>> \in Seq(Handler) /\ <<h>> \in Seq(Handler)
    OBVIOUS
  <1> QED BY <1>1, <1>2, <1>3, <1>4

\* A completion that joins the queue.
LEMMA QueueGrows ==
    ASSUME TypeOK, NEW STATE h, h \in Handler, ready' = Append(ready, h)
    PROVE  /\ ready' \in Seq(Handler)
           /\ \A op : Queued(op) => Queued(op)'
           /\ \A op : h[1] = op => Queued(op)'
  <1>1. /\ ready' \in Seq(Handler) /\ Len(ready') = Len(ready) + 1
        /\ \A i \in 1..Len(ready) : ready'[i] = ready[i]
        /\ ready'[Len(ready) + 1] = h
    BY AppendProperties DEF TypeOK
  <1>2. Len(ready) \in Nat
    BY LenProperties DEF TypeOK
  <1>3. \A op : Queued(op) => Queued(op)'
    BY <1>1, <1>2 DEF Queued
  <1>4. \A op : h[1] = op => Queued(op)'
    BY <1>1, <1>2 DEF Queued
  <1> QED BY <1>1, <1>3, <1>4

-----------------------------------------------------------------------------
(***************************************************************************)
(* The inductive invariant.  The two safety properties need each other's   *)
(* company: Disconnect establishes SessionScoped only because a client     *)
(* without a session has nothing to stop, which is SessionScoped itself.   *)
(***************************************************************************)
Inv == TypeOK /\ RetryPending /\ SessionScoped

LEMMA InitInv == Init => Inv
  <1> SUFFICES ASSUME Init PROVE Inv
    OBVIOUS
  <1>1. TypeOK
    <2>1. /\ connect_state \in EConnectState /\ resolves \in Nat /\ writes \in Nat
          /\ reads \in Seq(Stages) /\ ready \in Seq(Handler)
      BY DEF Init, EConnectState
    <2>2. /\ is_encrypted \in BOOLEAN /\ reconnect_timer \in BOOLEAN
          /\ connect_timeout \in BOOLEAN /\ connecting \in BOOLEAN
          /\ socket_open \in BOOLEAN /\ bridge_cache_ready \in BOOLEAN
      BY DEF Init
    <2> QED BY <2>1, <2>2 DEF TypeOK
  <1>2. RetryPending /\ SessionScoped
    BY DEF Init, RetryPending, SessionScoped
  <1> QED BY <1>1, <1>2 DEF Inv

\* A handler that leaves the whole state but the queue, the reads of a
\* session, its key and its news of the bridge's cache alone.
LEMMA QuietKeeps ==
    ASSUME Inv, ready # <<>>,
           Head(ready)[1] # "reconnect", Head(ready)[1] # "timeout",
           NEW STATE h, h \in Handler,
           ready' = Tail(ready) \/ ready' = Append(Tail(ready), h),
           UNCHANGED <<connect_state, reconnect_timer, connect_timeout, resolves,
                       connecting, socket_open, writes>>,
           is_encrypted' \in BOOLEAN, bridge_cache_ready' \in BOOLEAN,
           reads' \in Seq(Stages),
           IsConnected \/ UNCHANGED <<is_encrypted, bridge_cache_ready, reads>>
    PROVE  Inv'
  <1>1. RetryPending' /\ ready' \in Seq(Handler)
    <2>1. PICK more \in {<<>>, <<h>>} : ready' = Tail(ready) \o more
      BY QuietForms, Zenon DEF Inv
    <2> QED
      <3>1. CASE ready' = Tail(ready) \o <<>>
        BY <3>1, QuietRun, QuietForms DEF Inv
      <3>2. CASE ready' = Tail(ready) \o <<h>>
        BY <3>2, QuietRun, QuietForms DEF Inv
      <3> QED BY <2>1, <3>1, <3>2
  <1>2. TypeOK'
    BY <1>1, Zenon DEF Inv, TypeOK
  <1>3. SessionScoped'
    BY Zenon DEF Inv, SessionScoped, IsConnected
  <1> QED BY <1>1, <1>2, <1>3 DEF Inv

\* The handlers of the read loop are of that kind, or end in Disconnect.
LEMMA ReadTaskKeeps ==
    ASSUME Inv, RunReadTask
    PROVE  Inv'
  <1> DEFINE h == <<"read_task", "ok">>
  <1>1. h \in Handler
    BY DEF Handler
  <1> HIDE DEF h
  <1>2. reads' \in Seq(Stages) /\ (IsConnected \/ reads' = reads)
    BY DEF RunReadTask, ReadTask, Inv, TypeOK, Stages
  <1>3. /\ ready # <<>> /\ ready' = Tail(ready)
        /\ Head(ready)[1] # "reconnect" /\ Head(ready)[1] # "timeout"
        /\ UNCHANGED <<connect_state, reconnect_timer, connect_timeout, resolves,
                       connecting, socket_open, writes>>
        /\ UNCHANGED <<is_encrypted, bridge_cache_ready>>
    BY DEF RunReadTask, ReadTask, timers
  <1>4. is_encrypted' \in BOOLEAN /\ bridge_cache_ready' \in BOOLEAN
    BY <1>3, Zenon DEF Inv, TypeOK
  <1> QED BY <1>1, <1>2, <1>3, <1>4, QuietKeeps

LEMMA ReadKeeps ==
    ASSUME Inv, RunRead
    PROVE  Inv'
  <1> DEFINE q == Tail(ready)
             h == <<"read_task", "ok">>
             stage == Head(ready)[1]
             res == Head(ready)[2]
  <1>1. /\ ready # <<>> /\ stage \in Stages
        /\ stage # "reconnect" /\ stage # "timeout"
    BY DEF RunRead, Stages
  <1>2. h \in Handler /\ q \in Seq(Handler)
    BY <1>1, QueueTail DEF Handler, Inv, TypeOK
  <1>3. CASE Disconnect(q)
    BY <1>2, <1>3, DisconnectEstablishes DEF Inv
  <1>4. CASE StopReading(q)
    <2>1. /\ ready' = q
          /\ UNCHANGED <<connect_state, reconnect_timer, connect_timeout, resolves,
                         connecting, socket_open, writes>>
          /\ UNCHANGED <<is_encrypted, bridge_cache_ready, reads>>
      BY <1>4 DEF StopReading, timers, socketVars
    <2>2. /\ is_encrypted' \in BOOLEAN /\ bridge_cache_ready' \in BOOLEAN
          /\ reads' \in Seq(Stages)
      BY <2>1, Zenon DEF Inv, TypeOK
    <2> HIDE DEF h
    <2> QED BY <1>1, <1>2, <2>1, <2>2, QuietKeeps
  <1>5. CASE RetryRead(q)
    <2>1. /\ ready' = q \/ ready' = Append(q, h)
          /\ UNCHANGED <<connect_state, reconnect_timer, connect_timeout, resolves,
                         connecting, socket_open, writes>>
          /\ UNCHANGED <<is_encrypted, bridge_cache_ready, reads>>
      BY <1>5 DEF RetryRead, PostRead, PostTask, timers, socketVars
    <2>2. /\ is_encrypted' \in BOOLEAN /\ bridge_cache_ready' \in BOOLEAN
          /\ reads' \in Seq(Stages)
      BY <2>1, Zenon DEF Inv, TypeOK
    <2> HIDE DEF h
    <2> QED BY <1>1, <1>2, <2>1, <2>2, QuietKeeps
  <1>6. ASSUME IsConnected, NEW to \in Stages, ReadOn(to, q)
        PROVE  Inv'
    <2>1. /\ ready' = q
          /\ UNCHANGED <<connect_state, reconnect_timer, connect_timeout, resolves,
                         connecting, socket_open, writes>>
          /\ UNCHANGED <<is_encrypted, bridge_cache_ready>>
      BY <1>6 DEF ReadOn, timers
    <2>2. is_encrypted' \in BOOLEAN /\ bridge_cache_ready' \in BOOLEAN
      BY <2>1, Zenon DEF Inv, TypeOK
    <2>3. reads' \in Seq(Stages)
      BY <1>6, AppendProperties DEF ReadOn, Inv, TypeOK
    <2> HIDE DEF h
    <2> QED BY <1>1, <1>2, <1>6, <2>1, <2>2, <2>3, QuietKeeps
  <1>7. ASSUME IsConnected, NEW kind \in Packets, packet_handle(kind, q)
        PROVE  Inv'
    <2>1. /\ ready' = q \/ ready' = Append(q, h)
          /\ UNCHANGED <<connect_state, reconnect_timer, connect_timeout, resolves,
                         connecting, socket_open, writes>>
          /\ UNCHANGED reads
      BY <1>7 DEF packet_handle, PostRead, PostTask, timers, socketVars
    <2>2. is_encrypted' \in BOOLEAN /\ bridge_cache_ready' \in BOOLEAN
      BY <1>7, Zenon DEF packet_handle, Inv, TypeOK
    <2>3. reads' \in Seq(Stages)
      BY <2>1 DEF Inv, TypeOK
    <2> HIDE DEF h
    <2> QED BY <1>1, <1>2, <1>7, <2>1, <2>2, <2>3, QuietKeeps
  <1>8. \/ Disconnect(q) \/ StopReading(q) \/ RetryRead(q)
        \/ IsConnected /\ \E to \in Stages : ReadOn(to, q)
        \/ IsConnected /\ \E kind \in Packets : packet_handle(kind, q)
    <2>1. ReadHandler(stage, res, q)
      BY DEF RunRead
    <2>2. "body" \in Stages /\ "data" \in Stages
      BY DEF Stages
    <2> QED
      BY <2>1, <2>2, Zenon
         DEF ReadHandler, HeaderHandler, BodyHandler, SizeHandler, DataHandler
  <1> QED BY <1>3, <1>4, <1>5, <1>6, <1>7, <1>8

LEMMA WriteKeeps ==
    ASSUME Inv, RunWrite
    PROVE  Inv'
  <1> DEFINE h == <<"write_task", "ok">>
  <1>1. /\ ready # <<>>
        /\ Head(ready)[1] # "reconnect" /\ Head(ready)[1] # "timeout"
    BY DEF RunWrite
  <1>2. h \in Handler /\ Tail(ready) \in Seq(Handler)
    BY <1>1, QueueTail DEF Handler, Inv, TypeOK
  <1> HIDE DEF h
  <1>3. CASE Disconnect(Tail(ready))
    BY <1>2, <1>3, DisconnectEstablishes DEF Inv
  <1>4. CASE StopReading(Tail(ready)) \/ PostWrite(Tail(ready))
    <2>1. /\ ready' = Tail(ready) \/ ready' = Append(Tail(ready), h)
          /\ UNCHANGED <<connect_state, reconnect_timer, connect_timeout, resolves,
                         connecting, socket_open, writes>>
          /\ UNCHANGED <<is_encrypted, bridge_cache_ready, reads>>
      BY <1>4 DEF h, StopReading, PostWrite, PostTask, timers, socketVars
    <2>2. /\ is_encrypted' \in BOOLEAN /\ bridge_cache_ready' \in BOOLEAN
          /\ reads' \in Seq(Stages)
      BY <2>1, Zenon DEF Inv, TypeOK
    <2> QED BY <1>1, <1>2, <2>1, <2>2, QuietKeeps
  <1> QED BY <1>3, <1>4 DEF RunWrite, WriteHandler

LEMMA WriteTaskKeeps ==
    ASSUME Inv, RunWriteTask
    PROVE  Inv'
  <1>1. /\ ready # <<>>
        /\ Head(ready)[1] # "reconnect" /\ Head(ready)[1] # "timeout"
        /\ ready' = Tail(ready)
        /\ UNCHANGED <<connect_state, is_encrypted, reconnect_timer, connect_timeout, resolves,
                       connecting, socket_open, reads, bridge_cache_ready>>
    BY DEF RunWriteTask, session_write, timers
  <1>2. writes' \in Nat
    BY DEF RunWriteTask, session_write, Inv, TypeOK
  <1>3. <<"write_task", "ok">> \in Handler
    BY DEF Handler
  <1>4. ready' = Tail(ready) \o <<>> /\ <<>> \in Seq(Handler)
    BY <1>1, <1>3, QuietForms DEF Inv
  <1>5. RetryPending' /\ ready' \in Seq(Handler)
    BY <1>1, <1>4, QuietRun DEF Inv
  <1>6. TypeOK'
    BY <1>1, <1>2, <1>5, Zenon DEF Inv, TypeOK
  <1>7. SessionScoped'
    BY <1>1, Zenon DEF Inv, SessionScoped, IsConnected
  <1> QED BY <1>5, <1>6, <1>7 DEF Inv

LEMMA ResolveKeeps ==
    ASSUME Inv, RunResolve
    PROVE  Inv'
  <1> DEFINE h == <<"read_task", "ok">>
             q == Tail(ready)
  <1>1. /\ ready # <<>>
        /\ Head(ready)[1] # "reconnect" /\ Head(ready)[1] # "timeout"
        /\ ResolveHandler(Head(ready)[2], q)
    BY DEF RunResolve
  <1>2. h \in Handler /\ q \in Seq(Handler)
    BY <1>1, QueueTail DEF Handler, Inv, TypeOK
  <1> HIDE DEF h
  <1>3. CASE Disconnect(q)
    BY <1>2, <1>3, DisconnectEstablishes DEF Inv
  <1>4. CASE /\ ready' = q
             /\ UNCHANGED <<connect_state, is_encrypted, timers, resolves, socketVars,
                            bridge_cache_ready>>
    <2>1. /\ UNCHANGED <<connect_state, reconnect_timer, connect_timeout, resolves,
                         connecting, socket_open, writes>>
          /\ UNCHANGED <<is_encrypted, bridge_cache_ready, reads>>
      BY <1>4 DEF timers, socketVars
    <2>2. /\ is_encrypted' \in BOOLEAN /\ bridge_cache_ready' \in BOOLEAN
          /\ reads' \in Seq(Stages)
      BY <2>1, Zenon DEF Inv, TypeOK
    <2> QED BY <1>1, <1>2, <1>4, <2>1, <2>2, QuietKeeps
  <1>5. CASE /\ ready' = q \o Aborted
             /\ reads' = <<>> /\ writes' = 0
             /\ connecting' = TRUE /\ socket_open' = TRUE
             /\ UNCHANGED <<connect_state, is_encrypted, timers, resolves,
                            bridge_cache_ready>>
    <2>1. UNCHANGED <<connect_state, reconnect_timer, connect_timeout, resolves,
                      is_encrypted, bridge_cache_ready>>
      BY <1>5 DEF timers
    <2>2. RetryPending' /\ ready' \in Seq(Handler)
      BY <1>1, <1>5, <2>1, AbortedType, QuietRun DEF Inv
    <2>3. TypeOK'
      <3>1. <<>> \in Seq(Stages) /\ 0 \in Nat
        OBVIOUS
      <3> QED BY <1>5, <2>1, <2>2, <3>1, Zenon DEF Inv, TypeOK
    <2>4. SessionScoped'
      BY <1>5, <2>1 DEF Inv, SessionScoped, IsConnected
    <2> QED BY <2>2, <2>3, <2>4 DEF Inv
  <1> QED BY <1>1, <1>3, <1>4, <1>5, Zenon DEF ResolveHandler

LEMMA RunConnectKeeps ==
    ASSUME Inv, RunConnect
    PROVE  Inv'
  <1> DEFINE h == <<"read_task", "ok">>
             q == Tail(ready)
  <1>1. q \in Seq(Handler) /\ h \in Handler
    BY QueueTail DEF RunConnect, Handler, Inv, TypeOK
  <1>2. CASE Disconnect(q)
    BY <1>1, <1>2, DisconnectEstablishes DEF Inv
  <1>3. CASE /\ connect_state' = "CONNECTED"
             /\ reconnect_timer' = FALSE /\ connect_timeout' = FALSE
             /\ PostRead(q)
             /\ UNCHANGED <<is_encrypted, resolves, socketVars, bridge_cache_ready>>
    <2>1. ready' \in Seq(Handler)
      BY <1>1, <1>3, AppendProperties DEF PostRead, PostTask
    <2>2. UNCHANGED <<is_encrypted, resolves, connecting, socket_open, reads, writes,
                      bridge_cache_ready>>
      BY <1>3 DEF socketVars
    <2>3. TypeOK'
      <3>1. connect_state' \in EConnectState
        BY <1>3 DEF EConnectState
      <3>2. reconnect_timer' \in BOOLEAN /\ connect_timeout' \in BOOLEAN
        BY <1>3
      <3> QED BY <2>1, <2>2, <3>1, <3>2, Zenon DEF Inv, TypeOK
    <2>4. RetryPending' /\ SessionScoped'
      BY <1>3 DEF RetryPending, SessionScoped, IsConnected
    <2> QED BY <2>3, <2>4 DEF Inv
  <1> QED BY <1>2, <1>3, Zenon DEF RunConnect, ConnectHandler

LEMMA TimerKeeps ==
    ASSUME Inv, Start \/ RunReconnect \/ RunTimeout
    PROVE  Inv'
  <1>1. CASE Start
    BY <1>1, ConnectEstablishes DEF Start, Inv, TypeOK
  <1>2. CASE RunReconnect
    BY <1>2, QueueTail, ConnectEstablishes DEF RunReconnect, ReconnectHandler, Inv, TypeOK
  <1>3. CASE RunTimeout
    BY <1>3, QueueTail, DisconnectEstablishes DEF RunTimeout, TimeoutHandler, Inv, TypeOK
  <1> QED BY <1>1, <1>2, <1>3

LEMMA QuietSteps ==
    ASSUME Inv, Send \/ DoWorkEnd
    PROVE  Inv'
  <1>1. CASE Send
    <2> DEFINE h == <<"write_task", "ok">>
    <2>1. /\ UNCHANGED <<connect_state, is_encrypted, reconnect_timer, connect_timeout,
                         resolves, connecting, socket_open, reads, writes,
                         bridge_cache_ready>>
          /\ ready' = ready \/ ready' = Append(ready, h)
      BY <1>1 DEF Send, PostWrite, PostTask, timers, socketVars
    <2>2. h \in Handler
      BY DEF Handler
    <2> HIDE DEF h
    <2>3. /\ ready' \in Seq(Handler)
          /\ Queued("reconnect") => Queued("reconnect")'
          /\ Queued("timeout") => Queued("timeout")'
      <3>1. CASE ready' = ready
        BY <3>1 DEF Inv, TypeOK, Queued
      <3>2. CASE ready' = Append(ready, h)
        BY <2>2, <3>2, QueueGrows DEF Inv
      <3> QED BY <2>1, <3>1, <3>2
    <2>4. TypeOK'
      BY <2>1, <2>3, Zenon DEF Inv, TypeOK
    <2>5. RetryPending' /\ SessionScoped'
      BY <2>1, <2>3, Zenon DEF Inv, RetryPending, SessionScoped, IsConnected
    <2> QED BY <2>4, <2>5 DEF Inv
  <1>2. CASE DoWorkEnd
    <2>1. /\ UNCHANGED <<is_encrypted, connect_timeout, resolves, connecting, socket_open,
                         reads, writes, ready, bridge_cache_ready>>
          /\ connect_state = "DISCONNECTED"
          /\ connect_state' = "CONNECTING" /\ reconnect_timer' = TRUE
      BY <1>2 DEF DoWorkEnd, StartReconnectTimer, socketVars
    <2>2. TypeOK'
      <3>1. connect_state' \in EConnectState
        BY <2>1 DEF EConnectState
      <3>2. reconnect_timer' \in BOOLEAN
        BY <2>1
      <3> QED BY <2>1, <3>1, <3>2, Zenon DEF Inv, TypeOK
    <2>3. RetryPending' /\ SessionScoped'
      BY <2>1 DEF Inv, RetryPending, SessionScoped, IsConnected
    <2> QED BY <2>2, <2>3 DEF Inv
  <1> QED BY <1>1, <1>2

\* The completions of the operating system.  The expiry of a timer trades the
\* timer for its handler.
LEMMA NetworkKeeps ==
    ASSUME Inv, Network
    PROVE  Inv'
  <1>1. CASE ReconnectExpires
    <2>1. /\ reconnect_timer' = FALSE /\ ready' = Append(ready, <<"reconnect", "ok">>)
          /\ UNCHANGED <<connect_state, is_encrypted, connect_timeout, resolves, connecting,
                         socket_open, reads, writes, bridge_cache_ready>>
      BY <1>1 DEF ReconnectExpires, socketVars
    <2>2. <<"reconnect", "ok">> \in Handler /\ <<"reconnect", "ok">>[1] = "reconnect"
      BY DEF Handler
    <2>3. ready' \in Seq(Handler) /\ Queued("reconnect")'
      BY <2>1, <2>2, QueueGrows DEF Inv
    <2>4. TypeOK'
      <3>1. reconnect_timer' \in BOOLEAN
        BY <2>1
      <3> QED BY <2>1, <2>3, <3>1, Zenon DEF Inv, TypeOK
    <2>5. RetryPending' /\ SessionScoped'
      BY <2>1, <2>3, Zenon DEF Inv, RetryPending, SessionScoped, IsConnected
    <2> QED BY <2>4, <2>5 DEF Inv
  <1>2. CASE TimeoutExpires
    <2>1. /\ connect_timeout' = FALSE /\ ready' = Append(ready, <<"timeout", "ok">>)
          /\ UNCHANGED <<connect_state, is_encrypted, reconnect_timer, resolves, connecting,
                         socket_open, reads, writes, bridge_cache_ready>>
      BY <1>2 DEF TimeoutExpires, socketVars
    <2>2. <<"timeout", "ok">> \in Handler /\ <<"timeout", "ok">>[1] = "timeout"
      BY DEF Handler
    <2>3. ready' \in Seq(Handler) /\ Queued("timeout")'
      BY <2>1, <2>2, QueueGrows DEF Inv
    <2>4. TypeOK'
      <3>1. connect_timeout' \in BOOLEAN
        BY <2>1
      <3> QED BY <2>1, <2>3, <3>1, Zenon DEF Inv, TypeOK
    <2>5. RetryPending' /\ SessionScoped'
      BY <2>1, <2>3, Zenon DEF Inv, RetryPending, SessionScoped, IsConnected
    <2> QED BY <2>4, <2>5 DEF Inv
  <1>3. ASSUME NEW STATE h, h \in Handler, ready' = Append(ready, h),
               UNCHANGED <<connect_state, is_encrypted, reconnect_timer, connect_timeout,
                           bridge_cache_ready, socket_open>>,
               resolves' \in Nat, connecting' \in BOOLEAN, writes' \in Nat,
               reads' \in Seq(Stages), reads = <<>> => reads' = <<>>
        PROVE  Inv'
    <2>1. /\ ready' \in Seq(Handler)
          /\ Queued("reconnect") => Queued("reconnect")'
          /\ Queued("timeout") => Queued("timeout")'
      BY <1>3, QueueGrows DEF Inv
    <2>2. TypeOK'
      BY <1>3, <2>1, Zenon DEF Inv, TypeOK
    <2>3. RetryPending' /\ SessionScoped'
      BY <1>3, <2>1, Zenon DEF Inv, RetryPending, SessionScoped, IsConnected
    <2> QED BY <2>1, <2>2, <2>3 DEF Inv
  <1>4. ASSUME NEW res \in {"ok", "err", "no_v4"}, ResolveCompletes(res)
        PROVE  Inv'
    <2>1. <<"resolve", res>> \in Handler
      BY <1>4 DEF Handler
    <2>2. UNCHANGED <<connect_state, is_encrypted, reconnect_timer, connect_timeout,
                      bridge_cache_ready, connecting, socket_open, reads, writes>>
      BY <1>4 DEF ResolveCompletes, timers, socketVars
    <2>3. resolves' \in Nat
      BY <1>4 DEF ResolveCompletes, Inv, TypeOK
    <2>4. connecting' \in BOOLEAN /\ writes' \in Nat /\ reads' \in Seq(Stages)
      BY <2>2, Zenon DEF Inv, TypeOK
    <2>5. ready' = Append(ready, <<"resolve", res>>)
      BY <1>4 DEF ResolveCompletes
    <2> QED BY <1>3, <2>1, <2>2, <2>3, <2>4, <2>5
  <1>5. ASSUME NEW res \in {"ok", "err"}, ConnectCompletes(res)
        PROVE  Inv'
    <2>1. <<"connect", res>> \in Handler
      BY <1>5 DEF Handler
    <2>2. /\ UNCHANGED <<connect_state, is_encrypted, reconnect_timer, connect_timeout,
                         bridge_cache_ready, resolves, socket_open, reads, writes>>
          /\ connecting' = FALSE
      BY <1>5 DEF ConnectCompletes, timers
    <2>3. connecting' \in BOOLEAN
      BY <2>2
    <2>4. resolves' \in Nat /\ writes' \in Nat /\ reads' \in Seq(Stages)
      BY <2>2, Zenon DEF Inv, TypeOK
    <2>5. ready' = Append(ready, <<"connect", res>>)
      BY <1>5 DEF ConnectCompletes
    <2> QED BY <1>3, <2>1, <2>2, <2>3, <2>4, <2>5
  <1>6. ASSUME NEW res \in ReadResults, ReadCompletes(res)
        PROVE  Inv'
    <2>1. Head(reads) \in Stages /\ reads' \in Seq(Stages)
      BY <1>6, HeadTailProperties, EmptySeq DEF ReadCompletes, Inv, TypeOK
    <2>2. <<Head(reads), res>> \in Handler
      BY <1>6, <2>1 DEF Handler
    <2>3. /\ UNCHANGED <<connect_state, is_encrypted, reconnect_timer, connect_timeout,
                         bridge_cache_ready, resolves, connecting, socket_open, writes>>
          /\ reads # <<>>
      BY <1>6 DEF ReadCompletes, timers
    <2>4. connecting' \in BOOLEAN /\ resolves' \in Nat /\ writes' \in Nat
      BY <2>3, Zenon DEF Inv, TypeOK
    <2>5. ready' = Append(ready, <<Head(reads), res>>)
      BY <1>6 DEF ReadCompletes
    <2> QED BY <1>3, <2>1, <2>2, <2>3, <2>4, <2>5
  <1>7. ASSUME NEW res \in IOResults, WriteCompletes(res)
        PROVE  Inv'
    <2>1. <<"write", res>> \in Handler
      BY <1>7 DEF Handler
    <2>2. UNCHANGED <<connect_state, is_encrypted, reconnect_timer, connect_timeout,
                      bridge_cache_ready, resolves, connecting, socket_open, reads>>
      BY <1>7 DEF WriteCompletes, timers
    <2>3. writes' \in Nat
      BY <1>7 DEF WriteCompletes, Inv, TypeOK
    <2>4. connecting' \in BOOLEAN /\ resolves' \in Nat /\ reads' \in Seq(Stages)
      BY <2>2, Zenon DEF Inv, TypeOK
    <2>5. ready' = Append(ready, <<"write", res>>)
      BY <1>7 DEF WriteCompletes
    <2> QED BY <1>3, <2>1, <2>2, <2>3, <2>4, <2>5
  <1> QED
    BY <1>1, <1>2, <1>4, <1>5, <1>6, <1>7 DEF Network

LEMMA StepKeeps == Inv /\ [Next]_vars => Inv'
  <1> SUFFICES ASSUME Inv, [Next]_vars PROVE Inv'
    OBVIOUS
  <1>1. CASE Start \/ RunReconnect \/ RunTimeout
    BY <1>1, TimerKeeps
  <1>2. CASE RunResolve
    BY <1>2, ResolveKeeps
  <1>3. CASE RunConnect
    BY <1>3, RunConnectKeeps
  <1>4. CASE RunReadTask
    BY <1>4, ReadTaskKeeps
  <1>5. CASE RunRead
    BY <1>5, ReadKeeps
  <1>6. CASE RunWrite
    BY <1>6, WriteKeeps
  <1>7. CASE Send \/ DoWorkEnd
    BY <1>7, QuietSteps
  <1>10. CASE RunWriteTask
    BY <1>10, WriteTaskKeeps
  <1>8. CASE Network
    BY <1>8, NetworkKeeps
  <1>9. CASE UNCHANGED vars
    BY <1>9 DEF vars, timers, socketVars, Inv, TypeOK, RetryPending, Queued,
                SessionScoped, IsConnected
  <1> QED
    BY <1>1, <1>2, <1>3, <1>4, <1>5, <1>6, <1>7, <1>8, <1>9, <1>10
    DEF Next, DoWork

-----------------------------------------------------------------------------
\* The inductive invariant holds throughout.
LEMMA Invariance == Spec => []Inv
  BY InitInv, StepKeeps, PTL DEF Spec

\* Every reachable state of the client has the types its fields declare.
THEOREM TypeCorrect == Spec => []TypeOK
  <1>1. Inv => TypeOK
    BY DEF Inv
  <1> QED BY <1>1, Invariance, PTL

\* A client that waits for a connection is always going to be woken, however
\* many attempts overlap and in whatever order their handlers run.
THEOREM NeverStuck == Spec => []RetryPending
  <1>1. Inv => RetryPending
    BY DEF Inv
  <1> QED BY <1>1, Invariance, PTL

\* No key, read or belief about the bridge's cache outlives its session.
THEOREM NothingOutlivesSession == Spec => []SessionScoped
  <1>1. Inv => SessionScoped
    BY DEF Inv
  <1> QED BY <1>1, Invariance, PTL

-----------------------------------------------------------------------------
(***************************************************************************)
(* The sessions of the client are sessions as BridgeSession has them.      *)
(***************************************************************************)
LEMMA QuietSession ==
    ASSUME UNCHANGED <<connect_state, is_encrypted, bridge_cache_ready>>
    PROVE  [Session!Next]_(Session!vars)
  BY DEF Session!vars, IsConnected

\* Disconnect ends a session, or finds none and nothing of one.
LEMMA DisconnectSession ==
    ASSUME Inv, NEW STATE q, Disconnect(q)
    PROVE  [Session!Next]_(Session!vars)
  <1>1. ~IsConnected'
    BY DEF Disconnect, StartReconnectTimer, IsConnected
  <1>2. CASE IsConnected
    <2>1. is_encrypted' = FALSE /\ bridge_cache_ready' = FALSE
      BY <1>2 DEF Disconnect, session_stop, IsConnected
    <2> QED BY <1>1, <1>2, <2>1 DEF Session!End, Session!Next
  <1>3. CASE ~IsConnected
    <2>1. is_encrypted = FALSE /\ bridge_cache_ready = FALSE
      BY <1>3, Zenon DEF Inv, TypeOK, SessionScoped
    <2>2. is_encrypted' = FALSE /\ bridge_cache_ready' = FALSE
      BY <1>3, <2>1, Zenon DEF Disconnect, session_stop
    <2>3. UNCHANGED IsConnected
      BY <1>1, <1>3 DEF IsConnected
    <2> QED BY <2>1, <2>2, <2>3 DEF Session!vars
  <1> QED BY <1>2, <1>3

\* A packet may bring the key, or news of the cache, and does so in a session.
LEMMA PacketSession ==
    ASSUME Inv, IsConnected, NEW kind, NEW STATE q, packet_handle(kind, q)
    PROVE  [Session!Next]_(Session!vars)
  <1>1. connect_state' = connect_state /\ is_encrypted \in BOOLEAN
    BY DEF packet_handle, Inv, TypeOK
  <1>2. IsConnected'
    BY <1>1 DEF IsConnected
  <1>3. CASE UNCHANGED <<is_encrypted, bridge_cache_ready>>
    BY <1>1, <1>3, QuietSession
  <1>4. CASE ~is_encrypted /\ is_encrypted' = TRUE /\ UNCHANGED bridge_cache_ready
    BY <1>2, <1>4 DEF Session!Secure, Session!Next
  <1>5. CASE bridge_cache_ready' \in BOOLEAN /\ UNCHANGED is_encrypted
    BY <1>2, <1>5 DEF Session!Inform, Session!Next
  <1>6. \/ UNCHANGED <<is_encrypted, bridge_cache_ready>>
        \/ ~is_encrypted /\ is_encrypted' = TRUE /\ UNCHANGED bridge_cache_ready
        \/ bridge_cache_ready' \in BOOLEAN /\ UNCHANGED is_encrypted
    BY <1>1, Zenon DEF packet_handle
  <1> QED BY <1>3, <1>4, <1>5, <1>6

LEMMA ReadSession ==
    ASSUME Inv, RunRead
    PROVE  [Session!Next]_(Session!vars)
  <1> DEFINE q == Tail(ready)
  <1>1. \/ Disconnect(q) \/ StopReading(q) \/ RetryRead(q)
        \/ \E to \in Stages : ReadOn(to, q)
        \/ IsConnected /\ \E kind \in Packets : packet_handle(kind, q)
    <2>1. ReadHandler(Head(ready)[1], Head(ready)[2], q)
      BY DEF RunRead
    <2>2. "body" \in Stages /\ "data" \in Stages
      BY DEF Stages
    <2> QED
      BY <2>1, <2>2, Zenon
         DEF ReadHandler, HeaderHandler, BodyHandler, SizeHandler, DataHandler
  <1>2. CASE StopReading(q) \/ RetryRead(q) \/ \E to \in Stages : ReadOn(to, q)
    BY <1>2, QuietSession DEF StopReading, RetryRead, ReadOn
  <1> HIDE DEF q
  <1> QED BY <1>1, <1>2, DisconnectSession, PacketSession

\* A session begins without a key and knowing nothing, because the one before left
\* nothing behind.
LEMMA ConnectSession ==
    ASSUME Inv, RunConnect
    PROVE  [Session!Next]_(Session!vars)
  <1> DEFINE q == Tail(ready)
  <1>1. CASE Disconnect(q)
    BY <1>1, DisconnectSession
  <1>2. CASE /\ ~IsConnected /\ connect_state' = "CONNECTED"
             /\ UNCHANGED <<is_encrypted, bridge_cache_ready>>
    <2>1. is_encrypted = FALSE /\ bridge_cache_ready = FALSE
      BY <1>2, Zenon DEF Inv, TypeOK, SessionScoped
    <2>2. IsConnected'
      BY <1>2 DEF IsConnected
    <2> QED BY <1>2, <2>1, <2>2 DEF Session!Begin, Session!Next
  <1> QED
    BY <1>1, <1>2 DEF RunConnect, ConnectHandler

LEMMA SessionStep == Inv /\ [Next]_vars => [Session!Next]_(Session!vars)
  <1> SUFFICES ASSUME Inv, [Next]_vars PROVE [Session!Next]_(Session!vars)
    OBVIOUS
  <1>1. CASE Start \/ RunReconnect
    <2>1. PICK q \in {ready, Tail(ready)} : Connect(q)
      BY <1>1 DEF Start, RunReconnect, ReconnectHandler
    <2>2. UNCHANGED <<is_encrypted, bridge_cache_ready>>
      BY <2>1 DEF Connect
    <2>3. UNCHANGED IsConnected
      BY <2>1 DEF Connect, IsConnected
    <2> QED BY <2>2, <2>3 DEF Session!vars
  <1>2. CASE RunTimeout
    BY <1>2, DisconnectSession DEF RunTimeout, TimeoutHandler
  <1>3. CASE RunResolve
    <2>1. CASE Disconnect(Tail(ready))
      BY <2>1, DisconnectSession
    <2> QED
      BY <1>3, <2>1, QuietSession DEF RunResolve, ResolveHandler
  <1>4. CASE RunConnect
    BY <1>4, ConnectSession
  <1>5. CASE RunReadTask
    BY <1>5, QuietSession DEF RunReadTask, ReadTask
  <1>6. CASE RunRead
    BY <1>6, ReadSession
  <1>7. CASE RunWrite
    <2>1. CASE Disconnect(Tail(ready))
      BY <2>1, DisconnectSession
    <2> QED
      BY <1>7, <2>1, QuietSession DEF RunWrite, WriteHandler, StopReading, PostWrite
  <1>8. CASE DoWorkEnd
    <2>1. UNCHANGED <<is_encrypted, bridge_cache_ready>>
      BY <1>8 DEF DoWorkEnd
    <2>2. UNCHANGED IsConnected
      BY <1>8 DEF DoWorkEnd, StartReconnectTimer, IsConnected
    <2> QED BY <2>1, <2>2 DEF Session!vars
  <1>9. CASE Send \/ RunWriteTask \/ Network
    BY <1>9, QuietSession DEF Send, PostWrite, RunWriteTask, session_write, Network,
       ReconnectExpires, TimeoutExpires, ResolveCompletes, ConnectCompletes, ReadCompletes,
       WriteCompletes
  <1>10. CASE UNCHANGED vars
    BY <1>10, QuietSession DEF vars
  <1> QED
    BY <1>1, <1>2, <1>3, <1>4, <1>5, <1>6, <1>7, <1>8, <1>9, <1>10 DEF Next, DoWork

\* The client's sessions are those the rest of the core counts on: encrypted once at
\* most, ended in one step with all that belongs to them, whichever of the overlapping
\* attempts and late handlers begins or ends them.
THEOREM ImplementsSession == Spec => SessionsSound
  <1>1. Init => Session!Init
    BY DEF Init, Session!Init, IsConnected
  <1> QED BY <1>1, SessionStep, Invariance, PTL DEF Spec, SessionsSound, Session!Spec

-----------------------------------------------------------------------------
(***************************************************************************)
(* The read loop.  What is queued in a session and what it leaves behind.  *)
(***************************************************************************)
\* Of the handlers of these operations a queue holds at most one, or none.
AtMostOne(s, Ops) ==
    \A i, j \in 1..Len(s) : s[i][1] \in Ops /\ s[j][1] \in Ops => i = j

NoneOf(s, Ops) == \A i \in 1..Len(s) : s[i][1] \notin Ops

\* There is one read loop: one read, or one element of the queue.
OneLoop ==
    /\ Len(reads) <= 1
    /\ AtMostOne(ready, LoopOps)
    /\ reads # <<>> => NoneOf(ready, LoopOps)

\* One attempt at most is left over.
OneAttempt ==
    /\ AtMostOne(ready, AttemptOps)
    /\ resolves <= 1 /\ (connecting => resolves = 0)
    /\ resolves = 1 \/ connecting => NoneOf(ready, AttemptOps)

\* A session begins no attempts, and of those before it at most one is left.
SessionAlone == IsConnected => ~reconnect_timer /\ OneAttempt

\* Ahead of what is left of a read loop there is one attempt at most, and if the
\* socket is open it is not about to end in a session.
Behind(s, open) ==
    \A j \in 1..Len(s) : s[j][1] \in LoopOps =>
        /\ \A i, k \in 1..(j - 1) :
              s[i][1] \in AttemptOps /\ s[k][1] \in AttemptOps => i = k
        /\ open => \A i \in 1..(j - 1) : s[i][1] # "connect"

LeftBehind == ~IsConnected => Behind(ready, socket_open)

LoopInv == OneLoop /\ SessionAlone /\ LeftBehind /\ ModeKept

\* The operations are different ones.
LEMMA OpsDiffer ==
    /\ \A op \in LoopOps : op \notin AttemptOps /\ op # "write" /\ op # "timeout"
    /\ \A op \in AttemptOps : op \notin LoopOps /\ op # "write" /\ op # "timeout"
    /\ "read_task" \in LoopOps /\ Stages \subseteq LoopOps /\ "read_task" \notin Stages
    /\ "write" \notin LoopOps \cup AttemptOps /\ "timeout" \notin LoopOps \cup AttemptOps
    /\ {"reconnect", "resolve", "connect"} = AttemptOps
    /\ "connect" \notin LoopOps /\ "write_task" \notin LoopOps \cup AttemptOps
  BY DEF LoopOps, AttemptOps, Stages

-----------------------------------------------------------------------------
(***************************************************************************)
(* The queue loses its head and grows at its end.                          *)
(***************************************************************************)
LEMMA TailOps ==
    ASSUME NEW s \in Seq(Handler), s # <<>>, NEW Ops
    PROVE  /\ AtMostOne(s, Ops) => AtMostOne(Tail(s), Ops)
           /\ NoneOf(s, Ops) => NoneOf(Tail(s), Ops)
           /\ AtMostOne(s, Ops) /\ Head(s)[1] \in Ops => NoneOf(Tail(s), Ops)
  <1>1. /\ Len(Tail(s)) = Len(s) - 1 /\ Len(s) \in Nat \ {0} /\ Head(s) = s[1]
        /\ \A i \in 1..Len(Tail(s)) : Tail(s)[i] = s[i + 1]
    BY QueueTail
  <1>2. \A i \in 1..Len(Tail(s)) : i + 1 \in 1..Len(s) /\ i + 1 # 1
    BY <1>1
  <1>3. 1 \in 1..Len(s)
    BY <1>1
  <1> QED BY <1>1, <1>2, <1>3 DEF AtMostOne, NoneOf

LEMMA ConcatOps ==
    ASSUME NEW s \in Seq(Handler), NEW t \in Seq(Handler), NEW Ops
    PROVE  /\ NoneOf(s, Ops) /\ NoneOf(t, Ops) => NoneOf(s \o t, Ops)
           /\ AtMostOne(s, Ops) /\ NoneOf(t, Ops) => AtMostOne(s \o t, Ops)
           /\ NoneOf(s, Ops) /\ AtMostOne(t, Ops) => AtMostOne(s \o t, Ops)
  <1>1. /\ Len(s \o t) = Len(s) + Len(t) /\ Len(s) \in Nat /\ Len(t) \in Nat
        /\ \A i \in 1..Len(s) + Len(t) :
              (s \o t)[i] = IF i <= Len(s) THEN s[i] ELSE t[i - Len(s)]
    BY ConcatProperties, LenProperties
  <1>2. \A i \in 1..Len(s \o t) :
            \/ i \in 1..Len(s) /\ (s \o t)[i] = s[i]
            \/ i - Len(s) \in 1..Len(t) /\ (s \o t)[i] = t[i - Len(s)]
    BY <1>1
  <1>3. \A i, j \in Int : i - Len(s) = j - Len(s) => i = j
    BY <1>1
  <1>4. 1..Len(s \o t) \subseteq Int
    OBVIOUS
  <1> QED BY <1>2, <1>3, <1>4 DEF AtMostOne, NoneOf

LEMMA AppendOps ==
    ASSUME NEW s \in Seq(Handler), NEW h \in Handler, NEW Ops
    PROVE  /\ NoneOf(s, Ops) /\ h[1] \notin Ops => NoneOf(Append(s, h), Ops)
           /\ AtMostOne(s, Ops) /\ h[1] \notin Ops => AtMostOne(Append(s, h), Ops)
           /\ NoneOf(s, Ops) => AtMostOne(Append(s, h), Ops)
  <1>1. Append(s, h) = s \o <<h>> /\ <<h>> \in Seq(Handler)
    BY AppendIsConcat
  <1>2. AtMostOne(<<h>>, Ops) /\ (h[1] \notin Ops => NoneOf(<<h>>, Ops))
    BY DEF AtMostOne, NoneOf
  <1> QED BY <1>1, <1>2, ConcatOps

LEMMA TailBehind ==
    ASSUME NEW s \in Seq(Handler), s # <<>>, NEW open \in BOOLEAN, Behind(s, open)
    PROVE  /\ Behind(Tail(s), open)
           /\ Head(s)[1] \in AttemptOps => Behind(Tail(s), TRUE)
  <1>1. /\ Len(Tail(s)) = Len(s) - 1 /\ Len(s) \in Nat \ {0} /\ Head(s) = s[1]
        /\ \A i \in 1..Len(Tail(s)) : Tail(s)[i] = s[i + 1]
    BY QueueTail
  <1> SUFFICES ASSUME NEW j \in 1..Len(Tail(s)), Tail(s)[j][1] \in LoopOps
               PROVE  /\ \A i, k \in 1..(j - 1) :
                           Tail(s)[i][1] \in AttemptOps /\ Tail(s)[k][1] \in AttemptOps => i = k
                      /\ open => \A i \in 1..(j - 1) : Tail(s)[i][1] # "connect"
                      /\ Head(s)[1] \in AttemptOps =>
                            \A i \in 1..(j - 1) : Tail(s)[i][1] # "connect"
    BY DEF Behind
  <1>2. j + 1 \in 1..Len(s) /\ s[j + 1][1] \in LoopOps
    BY <1>1
  <1>3. /\ \A i, k \in 1..j : s[i][1] \in AttemptOps /\ s[k][1] \in AttemptOps => i = k
        /\ open => \A i \in 1..j : s[i][1] # "connect"
    <2>1. (j + 1) - 1 = j
      BY <1>1
    <2> QED BY <1>2, <2>1 DEF Behind
  <1>4. \A i \in 1..(j - 1) : /\ Tail(s)[i] = s[i + 1] /\ i + 1 \in 1..j /\ i + 1 # 1
                              /\ i \in Int
    BY <1>1
  <1>5. 1 \in 1..j
    BY <1>1
  <1>6. \A i, k \in Int : i + 1 = k + 1 => i = k
    OBVIOUS
  <1>7. \A i, k \in 1..(j - 1) :
            Tail(s)[i][1] \in AttemptOps /\ Tail(s)[k][1] \in AttemptOps => i = k
    BY <1>3, <1>4, <1>6
  <1>8. open => \A i \in 1..(j - 1) : Tail(s)[i][1] # "connect"
    BY <1>3, <1>4
  <1>9. Head(s)[1] \in AttemptOps => \A i \in 1..(j - 1) : Tail(s)[i][1] # "connect"
    BY <1>1, <1>3, <1>4, <1>5, OpsDiffer
  <1> QED BY <1>7, <1>8, <1>9

LEMMA ConcatBehind ==
    ASSUME NEW s \in Seq(Handler), NEW t \in Seq(Handler), NEW open \in BOOLEAN,
           Behind(s, open), NoneOf(t, LoopOps)
    PROVE  Behind(s \o t, open)
  <1>1. /\ Len(s \o t) = Len(s) + Len(t) /\ Len(s) \in Nat /\ Len(t) \in Nat
        /\ \A i \in 1..Len(s) + Len(t) :
              (s \o t)[i] = IF i <= Len(s) THEN s[i] ELSE t[i - Len(s)]
    BY ConcatProperties, LenProperties
  <1> SUFFICES ASSUME NEW j \in 1..Len(s \o t), (s \o t)[j][1] \in LoopOps
               PROVE  /\ \A i, k \in 1..(j - 1) : (s \o t)[i][1] \in AttemptOps
                            /\ (s \o t)[k][1] \in AttemptOps => i = k
                      /\ open => \A i \in 1..(j - 1) : (s \o t)[i][1] # "connect"
    BY DEF Behind
  <1>2. j \in 1..Len(s) /\ (s \o t)[j] = s[j]
    BY <1>1 DEF NoneOf
  <1>3. \A i \in 1..(j - 1) : (s \o t)[i] = s[i]
    BY <1>1, <1>2
  <1> QED BY <1>2, <1>3 DEF Behind

LEMMA AppendBehind ==
    ASSUME NEW s \in Seq(Handler), NEW h \in Handler, NEW open \in BOOLEAN,
           Behind(s, open), h[1] \notin LoopOps
    PROVE  Behind(Append(s, h), open)
  <1>1. Append(s, h) = s \o <<h>> /\ <<h>> \in Seq(Handler)
    BY AppendIsConcat
  <1>2. NoneOf(<<h>>, LoopOps)
    BY DEF NoneOf
  <1> QED BY <1>1, <1>2, ConcatBehind

\* The handlers of an aborted socket.
LEMMA AbortedOps ==
    ASSUME TypeOK
    PROVE  /\ Len(reads) <= 1 => AtMostOne(Aborted, LoopOps)
           /\ reads = <<>> => NoneOf(Aborted, LoopOps)
           /\ reads # <<>> => ~NoneOf(Aborted, LoopOps)
           /\ AtMostOne(Aborted, AttemptOps)
           /\ ~connecting => NoneOf(Aborted, AttemptOps)
           /\ \A i \in 1..Len(Aborted) :
                 Aborted[i][1] \in Stages => \E k \in 1..Len(reads) : Aborted[i][1] = reads[k]
  <1> DEFINE r == [i \in 1..Len(reads) |-> <<reads[i], "close">>]
             w == [i \in 1..writes |-> <<"write", "close">>]
             c == IF connecting THEN <<<<"connect", "err">>>> ELSE <<>>
  <1>1. /\ r \in Seq(Handler) /\ Len(r) = Len(reads)
        /\ \A i \in 1..Len(r) : r[i][1] = reads[i] /\ reads[i] \in Stages
    <2>1. \A i \in 1..Len(reads) : <<reads[i], "close">> \in Handler /\ reads[i] \in Stages
      BY ElementOfSeq DEF TypeOK, Handler, IOResults, ReadResults
    <2>2. Len(reads) \in Nat
      BY LenProperties DEF TypeOK
    <2>3. r \in Seq(Handler) /\ Len(r) = Len(reads)
      BY <2>1, <2>2
    <2>4. \A i \in 1..Len(reads) : r[i][1] = reads[i]
      OBVIOUS
    <2> QED BY <2>1, <2>3, <2>4
  <1>2. w \in Seq(Handler) /\ \A i \in 1..Len(w) : w[i][1] = "write"
    BY DEF TypeOK, Handler, IOResults, ReadResults
  <1>3. /\ c \in Seq(Handler) /\ Len(c) <= 1
        /\ \A i \in 1..Len(c) : c[i][1] = "connect" /\ i = 1
        /\ ~connecting => c = <<>>
    BY DEF Handler
  <1>4. Aborted = r \o w \o c /\ r \o w \in Seq(Handler)
    BY <1>1, <1>2, ConcatProperties DEF Aborted
  <1> HIDE DEF r, w, c
  <1>5. NoneOf(w, LoopOps) /\ NoneOf(w, AttemptOps) /\ NoneOf(c, LoopOps)
    BY <1>2, <1>3, OpsDiffer DEF NoneOf
  <1>6. NoneOf(r, AttemptOps)
    BY <1>1, OpsDiffer DEF NoneOf
  <1>7. AtMostOne(c, AttemptOps) /\ (~connecting => NoneOf(c, AttemptOps))
    BY <1>3 DEF AtMostOne, NoneOf
  <1>8. AtMostOne(Aborted, AttemptOps) /\ (~connecting => NoneOf(Aborted, AttemptOps))
    BY <1>1, <1>2, <1>3, <1>4, <1>5, <1>6, <1>7, ConcatOps
  <1>9. Len(reads) <= 1 => AtMostOne(Aborted, LoopOps)
    <2>1. Len(reads) <= 1 => AtMostOne(r, LoopOps)
      BY <1>1, LenProperties DEF AtMostOne, TypeOK
    <2> QED BY <1>1, <1>2, <1>3, <1>4, <1>5, <2>1, ConcatOps
  <1>10. reads = <<>> => NoneOf(Aborted, LoopOps)
    <2>1. reads = <<>> => NoneOf(r, LoopOps)
      BY <1>1 DEF NoneOf
    <2> QED BY <1>1, <1>2, <1>3, <1>4, <1>5, <2>1, ConcatOps
  <1>11. /\ Len(Aborted) = Len(r) + Len(w) + Len(c)
         /\ Len(r) \in Nat /\ Len(w) \in Nat /\ Len(c) \in Nat
         /\ \A i \in 1..Len(r) : Aborted[i] = r[i]
         /\ \A i \in 1..Len(Aborted) :
               \/ i \in 1..Len(r) /\ Aborted[i] = r[i]
               \/ \E k \in 1..Len(w) : Aborted[i] = w[k]
               \/ \E k \in 1..Len(c) : Aborted[i] = c[k]
    <2>1. /\ Len(r \o w) = Len(r) + Len(w) /\ Len(r) \in Nat /\ Len(w) \in Nat
          /\ \A i \in 1..Len(r) + Len(w) :
                (r \o w)[i] = IF i <= Len(r) THEN r[i] ELSE w[i - Len(r)]
      BY <1>1, <1>2, ConcatProperties, LenProperties
    <2>2. /\ Len(Aborted) = Len(r \o w) + Len(c) /\ Len(c) \in Nat
          /\ \A i \in 1..Len(r \o w) + Len(c) :
                Aborted[i] = IF i <= Len(r \o w) THEN (r \o w)[i] ELSE c[i - Len(r \o w)]
      BY <1>3, <1>4, ConcatProperties, LenProperties
    <2>3. \A i \in 1..Len(r) : Aborted[i] = r[i]
      BY <2>1, <2>2
    <2>4. ASSUME NEW i \in 1..Len(Aborted)
          PROVE  \/ i \in 1..Len(r) /\ Aborted[i] = r[i]
                 \/ \E k \in 1..Len(w) : Aborted[i] = w[k]
                 \/ \E k \in 1..Len(c) : Aborted[i] = c[k]
      <3>1. CASE i <= Len(r)
        BY <2>1, <2>2, <3>1
      <3>2. CASE i > Len(r) /\ i <= Len(r) + Len(w)
        <4>1. i - Len(r) \in 1..Len(w) /\ Aborted[i] = w[i - Len(r)]
          BY <2>1, <2>2, <3>2
        <4> QED BY <4>1
      <3>3. CASE i > Len(r) + Len(w)
        <4>1. i - Len(r \o w) \in 1..Len(c) /\ Aborted[i] = c[i - Len(r \o w)]
          BY <2>1, <2>2, <3>3
        <4> QED BY <4>1
      <3> QED BY <2>1, <3>1, <3>2, <3>3
    <2> QED BY <2>1, <2>2, <2>3, <2>4
  <1>12. reads # <<>> => ~NoneOf(Aborted, LoopOps)
    <2> SUFFICES ASSUME reads # <<>> PROVE ~NoneOf(Aborted, LoopOps)
      OBVIOUS
    <2>1. 1 \in 1..Len(r) /\ 1 \in 1..Len(Aborted)
      BY <1>1, <1>11, EmptySeq, LenProperties DEF TypeOK
    <2> QED BY <1>1, <1>11, <2>1, OpsDiffer DEF NoneOf
  <1>13. \A i \in 1..Len(Aborted) :
             Aborted[i][1] \in Stages => \E k \in 1..Len(reads) : Aborted[i][1] = reads[k]
    BY <1>1, <1>2, <1>3, <1>11 DEF Stages
  <1> QED BY <1>8, <1>9, <1>10, <1>12, <1>13

-----------------------------------------------------------------------------
(***************************************************************************)
(* The steps keep LoopInv.                                                 *)
(***************************************************************************)
\* Closing the session, or finding none to close.
LEMMA DisconnectLoop ==
    ASSUME Inv, LoopInv, ready # <<>>, Disconnect(Tail(ready))
    PROVE  LoopInv'
  <1> DEFINE q == Tail(ready)
  <1>1. q \in Seq(Handler) /\ Aborted \in Seq(Handler) /\ socket_open \in BOOLEAN
    BY QueueTail, AbortedType DEF Inv, TypeOK
  <1>2. ~IsConnected'
    BY DEF Disconnect, StartReconnectTimer, IsConnected
  <1>3. SessionAlone' /\ ModeKept'
    BY <1>2 DEF SessionAlone, ModeKept
  <1>4. CASE IsConnected
    <2>1. ready' = q \o Aborted /\ reads' = <<>> /\ socket_open' = FALSE
      BY <1>4 DEF Disconnect, session_stop, IsConnected
    <2>2. AtMostOne(ready', LoopOps)
      <3>1. CASE reads = <<>>
        BY <1>1, <2>1, <3>1, AbortedOps, TailOps, ConcatOps DEF LoopInv, OneLoop, Inv, TypeOK
      <3>2. CASE reads # <<>>
        BY <1>1, <2>1, <3>2, AbortedOps, TailOps, ConcatOps DEF LoopInv, OneLoop, Inv, TypeOK
      <3> QED BY <3>1, <3>2
    <2>3. AtMostOne(ready', AttemptOps)
      <3>1. OneAttempt
        BY <1>4 DEF LoopInv, SessionAlone
      <3>2. CASE connecting
        BY <1>1, <2>1, <3>1, <3>2, AbortedOps, TailOps, ConcatOps DEF OneAttempt, Inv, TypeOK
      <3>3. CASE ~connecting
        BY <1>1, <2>1, <3>1, <3>3, AbortedOps, TailOps, ConcatOps DEF OneAttempt, Inv, TypeOK
      <3> QED BY <3>2, <3>3
    <2>4. Behind(ready', socket_open')
      <3>1. \A j \in 1..Len(ready') : 1..(j - 1) \subseteq 1..Len(ready')
        BY <1>1, <2>1, ConcatProperties, LenProperties
      <3> QED BY <2>1, <2>3, <3>1 DEF Behind, AtMostOne
    <2>5. Len(reads') <= 1
      BY <2>1
    <2> QED BY <1>3, <2>1, <2>2, <2>4, <2>5 DEF LoopInv, OneLoop, LeftBehind
  <1>5. CASE ~IsConnected
    <2>1. ready' = q /\ reads' = reads /\ socket_open' = socket_open
      BY <1>5 DEF Disconnect, session_stop, socketVars
    <2>2. OneLoop'
      BY <2>1, TailOps DEF LoopInv, OneLoop, Inv, TypeOK
    <2>3. LeftBehind'
      BY <1>1, <1>5, <2>1, TailBehind DEF LoopInv, LeftBehind, Inv, TypeOK
    <2> QED BY <1>3, <2>2, <2>3 DEF LoopInv
  <1> QED BY <1>4, <1>5

\* A step that takes the head of the queue, which is no part of the read loop, and
\* leaves the session and the reads alone.
LEMMA TakeLoop ==
    ASSUME Inv, LoopInv, ready # <<>>,
           ready' = Tail(ready) \/ ready' = Append(Tail(ready), <<"write_task", "ok">>),
           UNCHANGED <<connect_state, is_encrypted, reconnect_timer, reads, socket_open>>,
           ~IsConnected \/ UNCHANGED <<resolves, connecting>>
    PROVE  LoopInv'
  <1> DEFINE h == <<"write_task", "ok">>
             q == Tail(ready)
  <1>1. /\ socket_open \in BOOLEAN /\ ready \in Seq(Handler) /\ q \in Seq(Handler)
        /\ h \in Handler /\ h[1] \notin LoopOps /\ h[1] \notin AttemptOps
    BY QueueTail, OpsDiffer DEF Inv, TypeOK, Handler
  <1>2. (IsConnected' <=> IsConnected) /\ (ready' = q \/ ready' = Append(q, h))
    BY DEF IsConnected
  <1> HIDE DEF h
  <1>3. \A Ops \in {LoopOps, AttemptOps} :
            /\ AtMostOne(ready, Ops) => AtMostOne(ready', Ops)
            /\ NoneOf(ready, Ops) => NoneOf(ready', Ops)
    <2> TAKE Ops \in {LoopOps, AttemptOps}
    <2>1. /\ AtMostOne(ready, Ops) => AtMostOne(q, Ops)
          /\ NoneOf(ready, Ops) => NoneOf(q, Ops)
      BY <1>1, TailOps
    <2>2. /\ AtMostOne(q, Ops) => AtMostOne(Append(q, h), Ops)
          /\ NoneOf(q, Ops) => NoneOf(Append(q, h), Ops)
      BY <1>1, AppendOps
    <2> QED BY <1>2, <2>1, <2>2
  <1>4. OneLoop'
    BY <1>3 DEF LoopInv, OneLoop
  <1>5. SessionAlone'
    BY <1>2, <1>3, Zenon DEF LoopInv, SessionAlone, OneAttempt
  <1>6. LeftBehind'
    BY <1>1, <1>2, TailBehind, AppendBehind DEF LoopInv, LeftBehind
  <1>7. ModeKept'
    <2>1. \A i \in 1..Len(q) : q[i] = ready[i + 1] /\ i + 1 \in 1..Len(ready)
      BY <1>1, QueueTail
    <2>2. \A i \in 1..Len(ready') : ready'[i][1] \in Stages =>
              i \in 1..Len(q) /\ ready'[i] = q[i]
      <3>1. CASE ready' = q
        BY <3>1
      <3>2. CASE ready' = Append(q, h)
        <4>1. /\ Len(ready') = Len(q) + 1 /\ Len(q) \in Nat /\ ready'[Len(q) + 1] = h
              /\ \A i \in 1..Len(q) : ready'[i] = q[i]
          BY <1>1, <3>2, AppendProperties, LenProperties
        <4>2. \A i \in 1..Len(ready') : i \in 1..Len(q) \/ i = Len(q) + 1
          BY <4>1
        <4> QED BY <1>1, <4>1, <4>2, OpsDiffer
      <3> QED BY <1>2, <3>1, <3>2
    <2> QED BY <1>2, <2>1, <2>2 DEF LoopInv, ModeKept, InMode
  <1> QED BY <1>4, <1>5, <1>6, <1>7 DEF LoopInv

\* The attempts that the head of the queue leaves, if there were two.
LEMMA AttemptsLeft ==
    ASSUME TypeOK, ready # <<>>, Head(ready)[1] \in AttemptOps, Attempts <= 2
    PROVE  /\ AtMostOne(Tail(ready), AttemptOps)
           /\ resolves <= 1 /\ (connecting => resolves = 0)
           /\ resolves = 1 \/ connecting => NoneOf(Tail(ready), AttemptOps)
  <1> DEFINE A == {i \in 1..Len(ready) : ready[i][1] \in AttemptOps}
             c == IF connecting THEN 1 ELSE 0
  <1>1. /\ Len(Tail(ready)) = Len(ready) - 1 /\ Len(ready) \in Nat \ {0}
        /\ \A i \in 1..Len(Tail(ready)) : Tail(ready)[i] = ready[i + 1]
        /\ Head(ready) = ready[1]
    BY QueueTail DEF TypeOK
  <1>2. IsFiniteSet(A) /\ Cardinality(A) \in Nat
    <2>1. IsFiniteSet(1..Len(ready))
      BY <1>1, FS_Interval
    <2>2. A \in SUBSET (1..Len(ready))
      OBVIOUS
    <2> QED BY <2>1, <2>2, FS_Subset, FS_CardinalityType
  <1>3. 1 \in A
    BY <1>1
  <1>4. resolves + c + Cardinality(A) <= 2 /\ resolves \in Nat /\ c \in {0, 1}
    BY DEF Attempts, TypeOK
  <1> HIDE DEF A, c
  <1>5. ASSUME NEW T, T \in SUBSET A
        PROVE  Cardinality(T) <= Cardinality(A)
    BY <1>2, <1>5, FS_Subset
  <1>6. IsFiniteSet({1}) /\ Cardinality({1}) = 1
    BY FS_Singleton
  <1>7. ASSUME NEW i \in A, i # 1
        PROVE  /\ IsFiniteSet({1} \cup {i}) /\ Cardinality({1} \cup {i}) = 2
               /\ Cardinality(A) >= 2
    <2>1. IsFiniteSet({1} \cup {i}) /\ Cardinality({1} \cup {i}) = 2
      <3> DEFINE S == {1}
                 T == S \cup {i}
      <3>1. i \notin S
        BY <1>7
      <3>2. IsFiniteSet(S) /\ Cardinality(S) = 1
        BY <1>6
      <3> HIDE DEF S
      <3>3. IsFiniteSet(T) /\ Cardinality(T) = Cardinality(S) + 1
        BY <3>1, <3>2, FS_AddElement, Zenon
      <3> HIDE DEF T
      <3>4. 1 + 1 = 2
        OBVIOUS
      <3>5. IsFiniteSet(T) /\ Cardinality(T) = 2
        BY <3>2, <3>3, <3>4, Zenon
      <3> QED BY <3>5, Zenon DEF S, T
    <2>2. {1} \cup {i} \in SUBSET A
      BY <1>3
    <2>3. Cardinality({1} \cup {i}) <= Cardinality(A)
      BY <1>5, <2>2
    <2>4. 2 <= Cardinality(A)
      BY <2>1, <2>3, Zenon
    <2> QED BY <1>2, <2>1, <2>4
  <1>8. ASSUME NEW i \in A, NEW j \in A, i # 1, j # 1, i # j
        PROVE  FALSE
    <2>1. Cardinality({1} \cup {i} \cup {j}) = 3
      <3> DEFINE S == {1} \cup {i}
      <3>1. IsFiniteSet(S) /\ Cardinality(S) = 2
        BY <1>7, <1>8
      <3>2. j \notin S
        BY <1>8
      <3> HIDE DEF S
      <3>3. Cardinality(S \cup {j}) = Cardinality(S) + 1
        BY <3>1, <3>2, FS_AddElement, Zenon
      <3>4. 2 + 1 = 3
        OBVIOUS
      <3>5. Cardinality(S \cup {j}) = 3
        BY <3>1, <3>3, <3>4, Zenon
      <3> QED BY <3>5, Zenon DEF S
    <2>2. {1} \cup {i} \cup {j} \in SUBSET A
      BY <1>3
    <2>3. Cardinality({1} \cup {i} \cup {j}) <= Cardinality(A)
      BY <1>5, <2>2
    <2>4. 3 <= Cardinality(A)
      BY <2>1, <2>3, Zenon
    <2> QED BY <1>2, <1>4, <2>4
  <1>9. \A i \in 1..Len(Tail(ready)) :
            /\ Tail(ready)[i][1] \in AttemptOps => i + 1 \in A
            /\ i + 1 # 1 /\ i \in Int
    BY <1>1 DEF A
  <1>10. AtMostOne(Tail(ready), AttemptOps)
    <2>1. \A i, j \in Int : i + 1 = j + 1 => i = j
      OBVIOUS
    <2> QED BY <1>8, <1>9, <2>1 DEF AtMostOne
  <1>11. Cardinality(A) >= 1
    <2>1. {1} \in SUBSET A
      BY <1>3
    <2>2. Cardinality({1}) <= Cardinality(A)
      BY <1>5, <2>1
    <2> QED BY <1>2, <1>6, <2>2
  <1>12. resolves <= 1 /\ (connecting => resolves = 0)
    BY <1>2, <1>4, <1>11 DEF c
  <1>13. resolves = 1 \/ connecting => NoneOf(Tail(ready), AttemptOps)
    <2>1. resolves = 1 \/ connecting => ~(Cardinality(A) >= 2)
      BY <1>2, <1>4 DEF c
    <2> QED BY <1>7, <1>9, <2>1 DEF NoneOf
  <1> QED BY <1>10, <1>12, <1>13

\* The beginning of a session.  Of a read loop before it nothing can be left.
LEMMA SessionBegins ==
    ASSUME Inv, LoopInv, Attempts <= 2, ready # <<>>, Head(ready)[1] = "connect",
           socket_open, ~IsConnected, connect_state' = "CONNECTED",
           reconnect_timer' = FALSE, PostRead(Tail(ready)),
           UNCHANGED <<is_encrypted, resolves, connecting, reads>>
    PROVE  LoopInv'
  <1> DEFINE h == <<"read_task", "ok">>
             q == Tail(ready)
  <1>1. ready \in Seq(Handler) /\ q \in Seq(Handler) /\ h \in Handler /\ h[1] = "read_task"
    BY QueueTail DEF Handler, Inv, TypeOK
  <1>2. (ready' = q \/ ready' = Append(q, h)) /\ IsConnected'
    BY DEF PostRead, PostTask, IsConnected
  <1> HIDE DEF h
  <1>3. reads = <<>> /\ reads' = <<>>
    BY DEF Inv, SessionScoped
  <1>4. NoneOf(ready, LoopOps)
    <2>1. Len(ready) \in Nat \ {0} /\ Head(ready) = ready[1]
      BY <1>1, QueueTail
    <2> SUFFICES ASSUME NEW j \in 1..Len(ready), ready[j][1] \in LoopOps PROVE FALSE
      BY DEF NoneOf
    <2>2. j # 1
      BY <2>1, OpsDiffer
    <2>3. 1 \in 1..(j - 1)
      BY <2>1, <2>2
    <2>4. ready[1][1] = "connect"
      BY <2>1
    <2> QED BY <2>3, <2>4 DEF LoopInv, LeftBehind, Behind
  <1>5. NoneOf(q, LoopOps)
    BY <1>1, <1>4, TailOps
  <1>6. OneLoop'
    <2>1. AtMostOne(ready', LoopOps)
      BY <1>1, <1>2, <1>5, AppendOps DEF AtMostOne, NoneOf
    <2>2. Len(reads') <= 1
      BY <1>3
    <2> QED BY <1>3, <2>1, <2>2 DEF OneLoop
  <1>7. SessionAlone'
    <2>1. /\ AtMostOne(q, AttemptOps)
          /\ resolves <= 1 /\ (connecting => resolves = 0)
          /\ resolves = 1 \/ connecting => NoneOf(q, AttemptOps)
      BY AttemptsLeft, OpsDiffer DEF Inv
    <2>2. h[1] \notin AttemptOps
      BY <1>1, OpsDiffer
    <2>3. AtMostOne(ready', AttemptOps) /\ (NoneOf(q, AttemptOps) => NoneOf(ready', AttemptOps))
      BY <1>1, <1>2, <2>1, <2>2, AppendOps
    <2> QED BY <2>1, <2>3, Zenon DEF SessionAlone, OneAttempt
  <1>8. ModeKept'
    <2>3. \A i \in 1..Len(ready') : ready'[i][1] \notin Stages
      <3>1. CASE ready' = q
        BY <1>5, <3>1, OpsDiffer DEF NoneOf
      <3>2. CASE ready' = Append(q, h)
        <4>1. /\ Len(ready') = Len(q) + 1 /\ Len(q) \in Nat /\ ready'[Len(q) + 1] = h
              /\ \A i \in 1..Len(q) : ready'[i] = q[i]
          BY <1>1, <3>2, AppendProperties, LenProperties
        <4>2. \A i \in 1..Len(ready') : i \in 1..Len(q) \/ i = Len(q) + 1
          BY <4>1
        <4> QED BY <1>1, <1>5, <4>1, <4>2, OpsDiffer DEF NoneOf
      <3> QED BY <1>2, <3>1, <3>2
    <2>4. 1..Len(reads') = {}
      BY <1>3
    <2> QED BY <2>3, <2>4 DEF ModeKept
  <1>9. LeftBehind'
    BY <1>2 DEF LeftBehind
  <1> QED BY <1>6, <1>7, <1>8, <1>9 DEF LoopInv

\* A part of the loop runs in a session, and the loop goes on or ends.
LEMMA LoopRuns ==
    ASSUME Inv, LoopInv, ready # <<>>, Head(ready)[1] \in LoopOps, IsConnected,
           UNCHANGED <<connect_state, reconnect_timer, resolves, connecting>>,
           \/ ready' = Tail(ready) /\ reads' = reads
           \/ ready' = Append(Tail(ready), <<"read_task", "ok">>) /\ reads' = reads
           \/ /\ ready' = Tail(ready)
              /\ \E stage \in Stages : reads' = Append(reads, stage) /\ InMode(stage)'
    PROVE  LoopInv'
  <1> DEFINE h == <<"read_task", "ok">>
             q == Tail(ready)
  <1>1. ready \in Seq(Handler) /\ q \in Seq(Handler) /\ h \in Handler /\ h[1] = "read_task"
    BY QueueTail DEF Handler, Inv, TypeOK
  <1> HIDE DEF h
  <1>2. NoneOf(q, LoopOps)
    BY <1>1, TailOps DEF LoopInv, OneLoop
  <1>3. reads = <<>>
    <2>1. ~NoneOf(ready, LoopOps)
      <3>1. Len(ready) \in Nat \ {0} /\ Head(ready) = ready[1]
        BY <1>1, QueueTail
      <3>2. 1 \in 1..Len(ready)
        BY <3>1
      <3> QED BY <3>1, <3>2 DEF NoneOf
    <2> QED BY <2>1 DEF LoopInv, OneLoop
  <1>4. IsConnected' /\ LeftBehind'
    BY DEF IsConnected, LeftBehind
  <1>5. /\ ~reconnect_timer' /\ OneAttempt
    BY DEF LoopInv, SessionAlone
  <1>6. h[1] \notin AttemptOps
    BY <1>1, OpsDiffer
  <1>7. /\ AtMostOne(q, AttemptOps)
        /\ NoneOf(ready, AttemptOps) => NoneOf(q, AttemptOps)
    BY <1>1, <1>5, TailOps DEF OneAttempt
  <1>8. ready' = q \/ ready' = Append(q, h)
    BY DEF h
  <1>9. SessionAlone'
    <2>1. AtMostOne(ready', AttemptOps) /\ (NoneOf(q, AttemptOps) => NoneOf(ready', AttemptOps))
      BY <1>1, <1>6, <1>7, <1>8, AppendOps
    <2> QED BY <1>5, <1>7, <2>1, Zenon DEF SessionAlone, OneAttempt
  <1>10. CASE reads' = reads
    <2>1. AtMostOne(ready', LoopOps)
      BY <1>1, <1>2, <1>8, AppendOps DEF AtMostOne, NoneOf
    <2>2. Len(reads') <= 1 /\ reads' = <<>> /\ 1..Len(reads') = {}
      BY <1>3, <1>10
    <2>3. \A i \in 1..Len(ready') : ready'[i][1] \notin Stages
      <3>1. CASE ready' = q
        BY <1>2, <3>1, OpsDiffer DEF NoneOf
      <3>2. CASE ready' = Append(q, h)
        <4>1. /\ Len(ready') = Len(q) + 1 /\ Len(q) \in Nat /\ ready'[Len(q) + 1] = h
              /\ \A i \in 1..Len(q) : ready'[i] = q[i]
          BY <1>1, <3>2, AppendProperties, LenProperties
        <4>2. \A i \in 1..Len(ready') : i \in 1..Len(q) \/ i = Len(q) + 1
          BY <4>1
        <4> QED BY <1>1, <1>2, <4>1, <4>2, OpsDiffer DEF NoneOf
      <3> QED BY <1>8, <3>1, <3>2
    <2> QED BY <1>4, <1>9, <2>1, <2>2, <2>3 DEF LoopInv, OneLoop, ModeKept
  <1>11. ASSUME ready' = q, NEW stage \in Stages, reads' = Append(reads, stage), InMode(stage)'
         PROVE  LoopInv'
    <2>1. reads' = <<stage>>
      BY <1>3, <1>11
    <2>2. Len(reads') = 1 /\ reads'[1] = stage /\ \A i \in 1..Len(reads') : i = 1
      BY <2>1
    <2>3. OneLoop'
      BY <1>2, <1>11, <2>2 DEF OneLoop, AtMostOne, NoneOf
    <2>4. ModeKept'
      BY <1>2, <1>11, <2>2, OpsDiffer DEF ModeKept, NoneOf
    <2> QED BY <1>4, <1>9, <2>3, <2>4 DEF LoopInv
  <1> QED BY <1>10, <1>11

\* The handlers, one after the other.
LEMMA ReadLoopStep ==
    ASSUME Inv, LoopInv, RunRead
    PROVE  LoopInv'
  <1> DEFINE q == Tail(ready)
             stage == Head(ready)[1]
             res == Head(ready)[2]
  <1>1. ready # <<>> /\ stage \in Stages /\ stage \in LoopOps
    BY OpsDiffer DEF RunRead
  <1>2. \/ Disconnect(q) \/ StopReading(q) \/ RetryRead(q)
        \/ IsConnected /\ stage = "header" /\ ReadOn("body", q)
        \/ IsConnected /\ stage = "size" /\ ReadOn("data", q)
        \/ IsConnected /\ \E kind \in Packets : packet_handle(kind, q)
    BY Zenon DEF RunRead, ReadHandler, HeaderHandler, BodyHandler, SizeHandler, DataHandler
  <1>3. CASE Disconnect(q)
    BY <1>1, <1>3, DisconnectLoop
  <1>4. CASE StopReading(q)
    <2>1. /\ ready' = q
          /\ UNCHANGED <<connect_state, is_encrypted, reconnect_timer, reads, socket_open,
                         resolves, connecting>>
      BY <1>4 DEF StopReading, timers, socketVars
    <2> QED BY <1>1, <2>1, TakeLoop
  <1>5. CASE RetryRead(q)
    <2>1. UNCHANGED <<connect_state, is_encrypted, reconnect_timer, reads, socket_open,
                      resolves, connecting>>
      BY <1>5 DEF RetryRead, timers, socketVars
    <2>2. CASE IsConnected
      BY <1>1, <1>5, <2>1, <2>2, LoopRuns DEF RetryRead, PostRead, PostTask
    <2>3. CASE ~IsConnected
      BY <1>1, <1>5, <2>1, <2>3, TakeLoop DEF RetryRead
    <2> QED BY <2>2, <2>3
  <1>6. ASSUME IsConnected, NEW to \in Stages, ReadOn(to, q), InMode(to) = InMode(stage)
        PROVE  LoopInv'
    <2>1. /\ ready' = q /\ reads' = Append(reads, to)
          /\ UNCHANGED <<connect_state, is_encrypted, reconnect_timer, resolves, connecting>>
      BY <1>6 DEF ReadOn, timers
    <2>2. InMode(stage)
      <3>1. Len(ready) \in Nat \ {0} /\ Head(ready) = ready[1]
        BY <1>1, QueueTail DEF Inv, TypeOK
      <3>2. 1 \in 1..Len(ready)
        BY <3>1
      <3> QED BY <1>1, <1>6, <3>1, <3>2 DEF LoopInv, ModeKept
    <2>3. InMode(to)'
      BY <1>6, <2>1, <2>2 DEF InMode
    <2> HIDE DEF q
    <2>4. ready' = Tail(ready)
      BY <2>1 DEF q
    <2> QED BY <1>1, <1>6, <2>1, <2>3, <2>4, LoopRuns
  <1>7. ASSUME IsConnected, NEW kind \in Packets, packet_handle(kind, q)
        PROVE  LoopInv'
    <2>1. /\ ready' = q \/ ready' = Append(q, <<"read_task", "ok">>)
          /\ UNCHANGED <<connect_state, reconnect_timer, resolves, connecting, reads>>
      BY <1>7 DEF packet_handle, PostRead, PostTask, timers, socketVars
    <2> QED BY <1>1, <1>7, <2>1, LoopRuns
  <1>8. /\ "body" \in Stages /\ "data" \in Stages
        /\ stage = "header" => InMode("body") = InMode(stage)
        /\ stage = "size" => InMode("data") = InMode(stage)
    BY DEF Stages, InMode
  <1> QED BY <1>2, <1>3, <1>4, <1>5, <1>6, <1>7, <1>8

LEMMA ReadTaskLoopStep ==
    ASSUME Inv, LoopInv, RunReadTask
    PROVE  LoopInv'
  <1>1. /\ ready # <<>> /\ Head(ready)[1] \in LoopOps /\ ready' = Tail(ready)
        /\ UNCHANGED <<connect_state, is_encrypted, reconnect_timer, socket_open, resolves,
                       connecting>>
    BY OpsDiffer DEF RunReadTask, ReadTask, timers
  <1>2. CASE IsConnected
    <2>1. PICK stage \in Stages : reads' = Append(reads, stage) /\ InMode(stage)
      <3>1. CASE is_encrypted
        BY <1>2, <3>1 DEF RunReadTask, ReadTask, Stages, InMode
      <3>2. CASE ~is_encrypted
        <4>1. is_encrypted = FALSE
          BY <3>2, Zenon DEF Inv, TypeOK
        <4>2. reads' = Append(reads, "header") /\ "header" \in Stages
          BY <1>2, <3>2, Zenon DEF RunReadTask, ReadTask, Stages
        <4>3. InMode("header")
          <5>1. "header" \notin {"size", "data"}
            OBVIOUS
          <5>2. ("header" \in {"size", "data"}) = FALSE
            BY <5>1, SMT
          <5> QED BY <4>1, <5>2, Zenon DEF InMode
        <4> QED BY <4>2, <4>3
      <3> QED BY <3>1, <3>2
    <2>2. InMode(stage)'
      BY <1>1, <2>1 DEF InMode
    <2> QED BY <1>1, <1>2, <2>1, <2>2, LoopRuns
  <1>3. CASE ~IsConnected
    <2>1. reads' = reads
      BY <1>3 DEF RunReadTask, ReadTask
    <2> QED BY <1>1, <1>3, <2>1, TakeLoop
  <1> QED BY <1>2, <1>3

LEMMA WriteLoopStep ==
    ASSUME Inv, LoopInv, RunWrite \/ RunWriteTask
    PROVE  LoopInv'
  <1>1. CASE RunWrite /\ Disconnect(Tail(ready))
    BY <1>1, DisconnectLoop DEF RunWrite
  <1>2. CASE RunWrite /\ (StopReading(Tail(ready)) \/ PostWrite(Tail(ready)))
    <2>1. /\ ready # <<>>
          /\ ready' = Tail(ready) \/ ready' = Append(Tail(ready), <<"write_task", "ok">>)
          /\ UNCHANGED <<connect_state, is_encrypted, reconnect_timer, reads, socket_open,
                         resolves, connecting>>
      BY <1>2 DEF RunWrite, StopReading, PostWrite, PostTask, timers, socketVars
    <2> QED BY <2>1, TakeLoop
  <1>3. CASE RunWriteTask
    <2>1. /\ ready # <<>> /\ ready' = Tail(ready)
          /\ UNCHANGED <<connect_state, is_encrypted, reconnect_timer, reads, socket_open,
                         resolves, connecting>>
      BY <1>3 DEF RunWriteTask, session_write, timers
    <2> QED BY <2>1, TakeLoop
  <1> QED BY <1>1, <1>2, <1>3 DEF RunWrite, WriteHandler

LEMMA TimerLoopStep ==
    ASSUME Inv, LoopInv, RunReconnect \/ RunTimeout
    PROVE  LoopInv'
  <1>1. CASE RunTimeout
    BY <1>1, DisconnectLoop DEF RunTimeout, TimeoutHandler
  <1>2. CASE RunReconnect
    <2>1. /\ ready # <<>> /\ ready' = Tail(ready)
          /\ UNCHANGED <<is_encrypted, reconnect_timer, reads, socket_open, connecting>>
      BY <1>2 DEF RunReconnect, ReconnectHandler, Connect, socketVars
    <2>2. CASE IsConnected
      <3>1. UNCHANGED <<connect_state, resolves>>
        BY <1>2, <2>2 DEF RunReconnect, ReconnectHandler, Connect
      <3> QED BY <2>1, <3>1, TakeLoop
    <2>3. CASE ~IsConnected
      <3>1. ~IsConnected'
        BY <1>2, <2>3 DEF RunReconnect, ReconnectHandler, Connect, IsConnected
      <3>2. ready \in Seq(Handler) /\ socket_open \in BOOLEAN
        BY DEF Inv, TypeOK
      <3>3. OneLoop'
        BY <2>1, <3>2, TailOps DEF LoopInv, OneLoop
      <3>4. LeftBehind'
        BY <2>1, <2>3, <3>2, TailBehind DEF LoopInv, LeftBehind
      <3> QED BY <3>1, <3>3, <3>4 DEF LoopInv, SessionAlone, ModeKept
    <2> QED BY <2>2, <2>3
  <1> QED BY <1>1, <1>2

LEMMA ConnectLoopStep ==
    ASSUME Inv, LoopInv, RunConnect, Attempts <= 2
    PROVE  LoopInv'
  <1>1. CASE Disconnect(Tail(ready))
    BY <1>1, DisconnectLoop DEF RunConnect
  <1>2. CASE /\ socket_open /\ ~IsConnected
             /\ connect_state' = "CONNECTED"
             /\ reconnect_timer' = FALSE /\ connect_timeout' = FALSE
             /\ PostRead(Tail(ready))
             /\ UNCHANGED <<is_encrypted, resolves, socketVars, bridge_cache_ready>>
    <2>1. UNCHANGED <<is_encrypted, resolves, connecting, reads>>
      BY <1>2 DEF socketVars
    <2>2. ready # <<>> /\ Head(ready)[1] = "connect"
      BY DEF RunConnect
    <2> QED BY <1>2, <2>1, <2>2, SessionBegins
  <1> QED BY <1>1, <1>2, Zenon DEF RunConnect, ConnectHandler

\* A new attempt takes the socket from whatever was on it.
LEMMA ResolveLoopStep ==
    ASSUME Inv, LoopInv, RunResolve
    PROVE  LoopInv'
  <1> DEFINE q == Tail(ready)
  <1>1. /\ ready # <<>> /\ Head(ready)[1] = "resolve" /\ Head(ready)[1] \in AttemptOps
        /\ ResolveHandler(Head(ready)[2], q)
    BY OpsDiffer DEF RunResolve
  <1>2. CASE Disconnect(q)
    BY <1>1, <1>2, DisconnectLoop
  <1>3. CASE /\ ready' = q
             /\ UNCHANGED <<connect_state, is_encrypted, timers, resolves, socketVars,
                            bridge_cache_ready>>
    <2>1. UNCHANGED <<connect_state, is_encrypted, reconnect_timer, reads, socket_open,
                      resolves, connecting>>
      BY <1>3 DEF timers, socketVars
    <2> QED BY <1>1, <1>3, <2>1, TakeLoop
  <1>4. CASE /\ ready' = q \o Aborted
             /\ reads' = <<>> /\ writes' = 0
             /\ connecting' = TRUE /\ socket_open' = TRUE
             /\ UNCHANGED <<connect_state, is_encrypted, timers, resolves,
                            bridge_cache_ready>>
    <2>1. /\ ready \in Seq(Handler) /\ q \in Seq(Handler) /\ Aborted \in Seq(Handler)
          /\ socket_open \in BOOLEAN /\ resolves \in Nat
      BY <1>1, QueueTail, AbortedType DEF Inv, TypeOK
    <2>2. UNCHANGED <<connect_state, is_encrypted, reconnect_timer, resolves>>
      BY <1>4 DEF timers
    <2>3. IsConnected' <=> IsConnected
      BY <2>2 DEF IsConnected
    <2>4. OneLoop'
      <3>1. AtMostOne(q, LoopOps) /\ (reads # <<>> => NoneOf(q, LoopOps))
        BY <1>1, <2>1, TailOps DEF LoopInv, OneLoop
      <3>2. /\ AtMostOne(Aborted, LoopOps)
            /\ reads = <<>> => NoneOf(Aborted, LoopOps)
        BY AbortedOps DEF LoopInv, OneLoop, Inv
      <3>3. AtMostOne(ready', LoopOps)
        BY <1>4, <2>1, <3>1, <3>2, ConcatOps
      <3>4. Len(reads') <= 1
        BY <1>4
      <3> QED BY <1>4, <3>3, <3>4 DEF OneLoop
    <2>5. LeftBehind'
      <3> SUFFICES ASSUME ~IsConnected PROVE Behind(ready', TRUE)
        BY <1>4, <2>3 DEF LeftBehind
      <3>1. Behind(q, TRUE)
        BY <1>1, <2>1, TailBehind DEF LoopInv, LeftBehind
      <3>2. NoneOf(Aborted, LoopOps)
        BY AbortedOps DEF Inv, SessionScoped
      <3> QED BY <1>4, <2>1, <3>1, <3>2, ConcatBehind
    <2>6. SessionAlone'
      <3> SUFFICES ASSUME IsConnected PROVE ~reconnect_timer' /\ OneAttempt'
        BY <2>3 DEF SessionAlone
      <3>1. ~reconnect_timer /\ OneAttempt
        BY DEF LoopInv, SessionAlone
      <3>2. NoneOf(q, AttemptOps) /\ ~NoneOf(ready, AttemptOps)
        <4>1. Len(ready) \in Nat \ {0} /\ Head(ready) = ready[1]
          BY <1>1, <2>1, QueueTail
        <4>2. 1 \in 1..Len(ready)
          BY <4>1
        <4>3. NoneOf(q, AttemptOps)
          BY <1>1, <2>1, <3>1, TailOps DEF OneAttempt
        <4> QED BY <1>1, <4>1, <4>2, <4>3 DEF NoneOf
      <3>3. ~connecting /\ resolves = 0
        BY <2>1, <3>1, <3>2 DEF OneAttempt
      <3>4. NoneOf(Aborted, AttemptOps)
        BY <3>3, AbortedOps DEF Inv
      <3>5. NoneOf(ready', AttemptOps)
        BY <1>4, <2>1, <3>2, <3>4, ConcatOps
      <3>6. AtMostOne(ready', AttemptOps)
        BY <3>5 DEF NoneOf, AtMostOne
      <3>7. resolves' = 0
        BY <2>2, <3>3
      <3>8. ~reconnect_timer'
        BY <2>2, <3>1
      <3> QED BY <3>5, <3>6, <3>7, <3>8 DEF OneAttempt
    <2>7. ModeKept'
      <3> SUFFICES ASSUME IsConnected, NEW i \in 1..Len(ready'), ready'[i][1] \in Stages
                   PROVE  InMode(ready'[i][1])
        <4>1. 1..Len(reads') = {}
          BY <1>4
        <4> QED BY <2>2, <2>3, <4>1 DEF ModeKept, InMode
      <3>1. /\ Len(ready') = Len(q) + Len(Aborted) /\ Len(q) \in Nat /\ Len(Aborted) \in Nat
            /\ \A k \in 1..Len(q) + Len(Aborted) :
                  ready'[k] = IF k <= Len(q) THEN q[k] ELSE Aborted[k - Len(q)]
        BY <1>4, <2>1, ConcatProperties, LenProperties
      <3>2. CASE i <= Len(q)
        <4>1. i \in 1..Len(q) /\ ready'[i] = q[i]
          BY <3>1, <3>2
        <4>2. ready'[i] = ready[i + 1] /\ i + 1 \in 1..Len(ready)
          BY <1>1, <2>1, <4>1, QueueTail
        <4> QED BY <4>2 DEF LoopInv, ModeKept
      <3>3. CASE i > Len(q)
        <4>1. i - Len(q) \in 1..Len(Aborted) /\ ready'[i] = Aborted[i - Len(q)]
          BY <3>1, <3>3
        <4>2. \E k \in 1..Len(reads) : ready'[i][1] = reads[k]
          BY <4>1, AbortedOps DEF Inv
        <4> QED BY <4>2 DEF LoopInv, ModeKept
      <3> QED BY <3>1, <3>2, <3>3
    <2> QED BY <2>4, <2>5, <2>6, <2>7 DEF LoopInv
  <1> QED BY <1>1, <1>2, <1>3, <1>4, Zenon DEF ResolveHandler

\* A completion joins the queue.  Only a read is part of the loop, only a resolve
\* and a connect are attempts, and each takes the place of what completed.
LEMMA JoinLoop ==
    ASSUME Inv, LoopInv, NEW STATE h, h \in Handler, ready' = Append(ready, h),
           UNCHANGED <<connect_state, is_encrypted, socket_open>>,
           reconnect_timer' => reconnect_timer,
           \/ h[1] \notin LoopOps /\ reads' = reads
           \/ IsConnected /\ reads # <<>> /\ reads' = <<>> /\ h[1] \in Stages /\ InMode(h[1]),
           \/ h[1] \notin AttemptOps /\ UNCHANGED <<resolves, connecting>>
           \/ ~IsConnected
           \/ h[1] \in AttemptOps /\ resolves = 1 /\ resolves' = 0 /\ ~connecting'
           \/ h[1] \in AttemptOps /\ connecting /\ ~connecting' /\ UNCHANGED resolves
    PROVE  LoopInv'
  <1>1. ready \in Seq(Handler) /\ socket_open \in BOOLEAN /\ resolves \in Nat
    BY DEF Inv, TypeOK
  <1>2. IsConnected' <=> IsConnected
    BY DEF IsConnected
  <1>3. OneLoop'
    <2>1. CASE h[1] \notin LoopOps /\ reads' = reads
      BY <1>1, <2>1, AppendOps DEF LoopInv, OneLoop
    <2>2. CASE reads # <<>> /\ reads' = <<>>
      <3>1. AtMostOne(ready', LoopOps)
        BY <1>1, <2>2, AppendOps DEF LoopInv, OneLoop
      <3>2. Len(reads') <= 1
        BY <2>2
      <3> QED BY <2>2, <3>1, <3>2 DEF OneLoop
    <2> QED BY <2>1, <2>2
  <1>4. LeftBehind'
    BY <1>1, <1>2, AppendBehind DEF LoopInv, LeftBehind
  <1>5. SessionAlone'
    <2> SUFFICES ASSUME IsConnected PROVE ~reconnect_timer' /\ OneAttempt'
      BY <1>2 DEF SessionAlone
    <2>1. ~reconnect_timer' /\ OneAttempt
      BY DEF LoopInv, SessionAlone
    <2>2. CASE h[1] \notin AttemptOps /\ UNCHANGED <<resolves, connecting>>
      BY <1>1, <2>1, <2>2, AppendOps, Zenon DEF OneAttempt
    <2>3. CASE resolves = 1 /\ resolves' = 0 /\ ~connecting'
      <3>1. AtMostOne(ready', AttemptOps)
        BY <1>1, <2>1, <2>3, AppendOps DEF OneAttempt
      <3> QED BY <2>1, <2>3, <3>1 DEF OneAttempt
    <2>4. CASE connecting /\ ~connecting' /\ UNCHANGED resolves
      <3>1. AtMostOne(ready', AttemptOps)
        BY <1>1, <2>1, <2>4, AppendOps DEF OneAttempt
      <3> QED BY <2>1, <2>4, <3>1 DEF OneAttempt
    <2> QED BY <2>1, <2>2, <2>3, <2>4
  <1>6. ModeKept'
    <2> SUFFICES ASSUME IsConnected PROVE
               /\ \A i \in 1..Len(reads') : InMode(reads'[i])
               /\ \A i \in 1..Len(ready') : ready'[i][1] \in Stages => InMode(ready'[i][1])
      BY <1>2 DEF ModeKept, InMode
    <2>1. \A i \in 1..Len(reads') : InMode(reads'[i])
      <3>1. CASE reads' = reads
        BY <3>1 DEF LoopInv, ModeKept
      <3>2. CASE reads' = <<>>
        BY <3>2
      <3> QED BY <3>1, <3>2
    <2>2. /\ Len(ready') = Len(ready) + 1 /\ Len(ready) \in Nat /\ ready'[Len(ready) + 1] = h
          /\ \A i \in 1..Len(ready) : ready'[i] = ready[i]
      BY <1>1, AppendProperties, LenProperties
    <2>3. \A i \in 1..Len(ready') : i \in 1..Len(ready) \/ i = Len(ready) + 1
      BY <2>2
    <2>4. h[1] \in Stages => InMode(h[1])
      BY OpsDiffer
    <2> QED BY <2>1, <2>2, <2>3, <2>4 DEF LoopInv, ModeKept
  <1> QED BY <1>3, <1>4, <1>5, <1>6 DEF LoopInv

LEMMA NetworkLoopStep ==
    ASSUME Inv, LoopInv, Network
    PROVE  LoopInv'
  <1>1. /\ resolves \in Nat /\ reads \in Seq(Stages)
        /\ IsConnected => ~reconnect_timer
        /\ IsConnected => OneAttempt
    BY DEF Inv, TypeOK, LoopInv, SessionAlone
  <1>2. CASE ReconnectExpires
    <2>1. <<"reconnect", "ok">> \in Handler /\ <<"reconnect", "ok">>[1] \notin LoopOps
      BY OpsDiffer DEF Handler
    <2>2. /\ ready' = Append(ready, <<"reconnect", "ok">>) /\ ~reconnect_timer' /\ ~IsConnected
          /\ UNCHANGED <<connect_state, is_encrypted, socket_open>> /\ reads' = reads
      BY <1>1, <1>2 DEF ReconnectExpires, socketVars
    <2> QED BY <2>1, <2>2, JoinLoop
  <1>3. CASE TimeoutExpires
    <2>1. /\ <<"timeout", "ok">> \in Handler
          /\ <<"timeout", "ok">>[1] \notin LoopOps /\ <<"timeout", "ok">>[1] \notin AttemptOps
      BY OpsDiffer DEF Handler
    <2>2. /\ ready' = Append(ready, <<"timeout", "ok">>)
          /\ UNCHANGED <<connect_state, is_encrypted, socket_open>> /\ reads' = reads
          /\ UNCHANGED <<resolves, connecting>> /\ reconnect_timer' = reconnect_timer
      BY <1>3 DEF TimeoutExpires, socketVars
    <2> QED BY <2>1, <2>2, JoinLoop
  <1>4. ASSUME NEW res \in {"ok", "err", "no_v4"}, ResolveCompletes(res)
        PROVE  LoopInv'
    <2> DEFINE h == <<"resolve", res>>
    <2>1. h \in Handler /\ h[1] \notin LoopOps /\ h[1] \in AttemptOps
      BY <1>4, OpsDiffer DEF Handler
    <2>2. /\ ready' = Append(ready, h)
          /\ UNCHANGED <<connect_state, is_encrypted, socket_open>> /\ reads' = reads
          /\ reconnect_timer' = reconnect_timer /\ connecting' = connecting
          /\ resolves > 0 /\ resolves' = resolves - 1
      BY <1>4 DEF ResolveCompletes, timers, socketVars
    <2>3. IsConnected => resolves = 1 /\ resolves' = 0 /\ ~connecting'
      BY <1>1, <2>2 DEF OneAttempt
    <2> HIDE DEF h
    <2> QED BY <2>1, <2>2, <2>3, JoinLoop
  <1>5. ASSUME NEW res \in {"ok", "err"}, ConnectCompletes(res)
        PROVE  LoopInv'
    <2> DEFINE h == <<"connect", res>>
    <2>1. h \in Handler /\ h[1] \notin LoopOps /\ h[1] \in AttemptOps
      BY <1>5, OpsDiffer DEF Handler
    <2>2. /\ ready' = Append(ready, h)
          /\ UNCHANGED <<connect_state, is_encrypted, socket_open>> /\ reads' = reads
          /\ reconnect_timer' = reconnect_timer /\ connecting /\ ~connecting'
          /\ resolves' = resolves
      BY <1>5 DEF ConnectCompletes, timers
    <2> HIDE DEF h
    <2> QED BY <2>1, <2>2, JoinLoop
  <1>6. ASSUME NEW res \in ReadResults, ReadCompletes(res)
        PROVE  LoopInv'
    <2> DEFINE h == <<Head(reads), res>>
    <2>1. Len(reads) = 1 /\ Head(reads) = reads[1] /\ reads[1] \in Stages /\ reads # <<>>
      <3>1. reads # <<>>
        BY <1>6 DEF ReadCompletes
      <3>2. Len(reads) \in Nat /\ Len(reads) # 0
        BY <1>1, <3>1, EmptySeq, LenProperties
      <3>3. Len(reads) = 1
        <4>1. Len(reads) <= 1
          BY DEF LoopInv, OneLoop
        <4>2. \A n \in Nat : n # 0 /\ n <= 1 => n = 1
          OBVIOUS
        <4> QED BY <3>2, <4>1, <4>2
      <3>4. Head(reads) = reads[1]
        OBVIOUS
      <3> QED BY <1>1, <3>1, <3>3, <3>4, ElementOfSeq
    <2>2. Tail(reads) = <<>>
      <3>1. Tail(reads) \in Seq(Stages) /\ Len(Tail(reads)) = 0
        BY <1>1, <2>1, HeadTailProperties
      <3> QED BY <3>1, EmptySeq
    <2>3. IsConnected
      BY <2>1 DEF Inv, SessionScoped
    <2>4. InMode(h[1])
      BY <2>1, <2>3 DEF LoopInv, ModeKept
    <2>5. h \in Handler /\ h[1] \in Stages /\ h[1] \notin AttemptOps
      BY <1>6, <2>1, OpsDiffer DEF Handler
    <2>6. /\ ready' = Append(ready, h)
          /\ UNCHANGED <<connect_state, is_encrypted, socket_open>> /\ reads' = <<>>
          /\ UNCHANGED <<resolves, connecting>> /\ reconnect_timer' = reconnect_timer
      BY <1>6, <2>2 DEF ReadCompletes, timers
    <2> HIDE DEF h
    <2> QED BY <2>1, <2>3, <2>4, <2>5, <2>6, JoinLoop
  <1>7. ASSUME NEW res \in IOResults, WriteCompletes(res)
        PROVE  LoopInv'
    <2> DEFINE h == <<"write", res>>
    <2>1. h \in Handler /\ h[1] \notin LoopOps /\ h[1] \notin AttemptOps
      BY <1>7, OpsDiffer DEF Handler
    <2>2. /\ ready' = Append(ready, h)
          /\ UNCHANGED <<connect_state, is_encrypted, socket_open>> /\ reads' = reads
          /\ UNCHANGED <<resolves, connecting>> /\ reconnect_timer' = reconnect_timer
      BY <1>7 DEF WriteCompletes, timers
    <2> HIDE DEF h
    <2> QED BY <2>1, <2>2, JoinLoop
  <1> QED BY <1>2, <1>3, <1>4, <1>5, <1>6, <1>7 DEF Network

LEMMA InitLoop == Init => LoopInv
  <1> SUFFICES ASSUME Init PROVE LoopInv
    OBVIOUS
  <1>1. ready = <<>> /\ reads = <<>> /\ ~IsConnected
    BY DEF Init, IsConnected
  <1>2. 1..Len(ready) = {} /\ Len(reads) <= 1
    BY <1>1
  <1> QED
    BY <1>1, <1>2 DEF LoopInv, OneLoop, AtMostOne, NoneOf, SessionAlone, LeftBehind, Behind,
                      ModeKept

LEMMA LoopStep == Inv /\ LoopInv /\ Attempts <= 2 /\ [Next]_vars => LoopInv'
  <1> SUFFICES ASSUME Inv, LoopInv, Attempts <= 2, [Next]_vars PROVE LoopInv'
    OBVIOUS
  <1>1. CASE RunReconnect \/ RunTimeout
    BY <1>1, TimerLoopStep
  <1>2. CASE RunResolve
    BY <1>2, ResolveLoopStep
  <1>3. CASE RunConnect
    BY <1>3, ConnectLoopStep
  <1>4. CASE RunReadTask
    BY <1>4, ReadTaskLoopStep
  <1>5. CASE RunRead
    BY <1>5, ReadLoopStep
  <1>6. CASE RunWrite \/ RunWriteTask
    BY <1>6, WriteLoopStep
  <1>9. CASE Send
    <2> DEFINE h == <<"write_task", "ok">>
    <2>1. h \in Handler /\ h[1] \notin LoopOps /\ h[1] \notin AttemptOps
      BY OpsDiffer DEF Handler
    <2>2. /\ UNCHANGED <<connect_state, is_encrypted, reconnect_timer, socket_open, reads,
                         resolves, connecting>>
          /\ ready' = ready \/ ready' = Append(ready, h)
      BY <1>9 DEF Send, PostWrite, PostTask, timers, socketVars
    <2> HIDE DEF h
    <2>3. CASE ready' = ready
      BY <2>2, <2>3 DEF LoopInv, OneLoop, LeftBehind, SessionAlone, OneAttempt, ModeKept,
                        InMode, IsConnected
    <2> QED BY <2>1, <2>2, <2>3, JoinLoop
  <1>7. CASE Start \/ DoWorkEnd \/ UNCHANGED vars
    <2>1. UNCHANGED <<ready, reads, socket_open, is_encrypted>>
      BY <1>7 DEF Start, Connect, DoWorkEnd, socketVars, vars
    <2>2. \/ ~IsConnected /\ ~IsConnected'
          \/ UNCHANGED <<connect_state, reconnect_timer, resolves, connecting>>
      BY <1>7 DEF Start, Connect, DoWorkEnd, StartReconnectTimer, IsConnected, vars,
                  timers, socketVars
    <2>3. OneLoop'
      BY <2>1 DEF LoopInv, OneLoop
    <2>4. CASE ~IsConnected /\ ~IsConnected'
      BY <2>1, <2>3, <2>4 DEF LoopInv, LeftBehind, SessionAlone, ModeKept
    <2>5. CASE UNCHANGED <<connect_state, reconnect_timer, resolves, connecting>>
      BY <2>1, <2>3, <2>5 DEF LoopInv, LeftBehind, SessionAlone, OneAttempt, ModeKept, InMode,
                              IsConnected
    <2> QED BY <2>2, <2>4, <2>5
  <1>8. CASE Network
    BY <1>8, NetworkLoopStep
  <1> QED
    BY <1>1, <1>2, <1>3, <1>4, <1>5, <1>6, <1>7, <1>8, <1>9 DEF Next, DoWork

-----------------------------------------------------------------------------
\* While no more than two attempts overlap, two reads never share the socket.
THEOREM OneReadLoop == Spec => SingleReader
  <1>1. Inv /\ LoopInv => ReadLoop <= 1
    <2> SUFFICES ASSUME Inv, LoopInv PROVE ReadLoop <= 1
      OBVIOUS
    <2> DEFINE S == {i \in 1..Len(ready) : ready[i][1] \in LoopOps}
    <2>1. Len(reads) \in Nat /\ Len(reads) <= 1
      BY LenProperties DEF Inv, TypeOK, LoopInv, OneLoop
    <2>2. \A i, j \in S : i = j
      BY DEF LoopInv, OneLoop, AtMostOne
    <2>3. CASE S = {}
      <3>1. Cardinality(S) = 0
        BY <2>3, FS_EmptySet
      <3> QED BY <2>1, <3>1 DEF ReadLoop
    <2>4. CASE S # {}
      <3>1. PICK i : S = {i}
        BY <2>2, <2>4
      <3>2. Cardinality(S) = 1
        BY <3>1, FS_Singleton
      <3>3. reads = <<>>
        BY <2>4 DEF LoopInv, OneLoop, NoneOf
      <3>4. Len(reads) = 0
        BY <3>3
      <3> QED BY <3>2, <3>4 DEF ReadLoop
    <2> QED BY <2>3, <2>4
  <1> QED BY <1>1, Invariance, InitLoop, LoopStep, PTL DEF Spec, SingleReader

\* And a read always completes in the mode of the session it completes in.
THEOREM ReadsInMode == Spec => ReadModeMatches
  <1>1. LoopInv => ModeKept
    BY DEF LoopInv
  <1> QED BY <1>1, Invariance, InitLoop, LoopStep, PTL DEF Spec, ReadModeMatches

-----------------------------------------------------------------------------
(***************************************************************************)
(* A session keeps listening, however many attempts overlap.               *)
(***************************************************************************)
Listening == reads # <<>> \/ ~NoneOf(ready, LoopOps)

\* PostTask drops what it is given.
Full(q) == Tasks(q) >= MaxTasks

LEMMA ListeningCounts ==
    ASSUME TypeOK
    PROVE  ReadLoop \in Nat /\ (ReadLoop >= 1 <=> Listening)
  <1> DEFINE S == {i \in 1..Len(ready) : ready[i][1] \in LoopOps}
  <1>1. Len(ready) \in Nat /\ Len(reads) \in Nat /\ (Len(reads) = 0 <=> reads = <<>>)
    BY LenProperties, EmptySeq DEF TypeOK
  <1>2. IsFiniteSet(S) /\ Cardinality(S) \in Nat
    <2>1. IsFiniteSet(1..Len(ready))
      BY <1>1, FS_Interval
    <2>2. S \in SUBSET (1..Len(ready))
      OBVIOUS
    <2> QED BY <2>1, <2>2, FS_Subset, FS_CardinalityType
  <1>3. Cardinality(S) = 0 <=> S = {}
    BY <1>2, FS_EmptySet
  <1>4. S = {} <=> NoneOf(ready, LoopOps)
    BY DEF NoneOf
  <1>5. ReadLoop = Len(reads) + Cardinality(S)
    BY DEF ReadLoop
  <1> HIDE DEF S
  <1> QED BY <1>1, <1>2, <1>3, <1>4, <1>5 DEF Listening

\* What stays in the queue is still there.
LEMMA StillQueued ==
    ASSUME NEW s \in Seq(Handler), NEW t \in Seq(Handler), NEW Ops
    PROVE  /\ ~NoneOf(s, Ops) \/ ~NoneOf(t, Ops) => ~NoneOf(s \o t, Ops)
           /\ s # <<>> /\ Head(s)[1] \notin Ops /\ ~NoneOf(s, Ops) => ~NoneOf(Tail(s), Ops)
  <1>1. /\ Len(s \o t) = Len(s) + Len(t) /\ Len(s) \in Nat /\ Len(t) \in Nat
        /\ \A i \in 1..Len(s) + Len(t) :
              (s \o t)[i] = IF i <= Len(s) THEN s[i] ELSE t[i - Len(s)]
    BY ConcatProperties, LenProperties
  <1>2. ASSUME ~NoneOf(s, Ops) PROVE ~NoneOf(s \o t, Ops)
    <2>1. PICK i \in 1..Len(s) : s[i][1] \in Ops
      BY <1>2 DEF NoneOf
    <2>2. i \in 1..Len(s \o t) /\ (s \o t)[i] = s[i]
      BY <1>1
    <2> QED BY <2>1, <2>2 DEF NoneOf
  <1>3. ASSUME ~NoneOf(t, Ops) PROVE ~NoneOf(s \o t, Ops)
    <2>1. PICK i \in 1..Len(t) : t[i][1] \in Ops
      BY <1>3 DEF NoneOf
    <2>2. Len(s) + i \in 1..Len(s \o t) /\ (s \o t)[Len(s) + i] = t[i]
      BY <1>1
    <2> QED BY <2>1, <2>2 DEF NoneOf
  <1>4. ASSUME s # <<>>, Head(s)[1] \notin Ops, ~NoneOf(s, Ops) PROVE ~NoneOf(Tail(s), Ops)
    <2>1. PICK i \in 1..Len(s) : s[i][1] \in Ops
      BY <1>4 DEF NoneOf
    <2>2. /\ Len(Tail(s)) = Len(s) - 1 /\ Head(s) = s[1]
          /\ \A k \in 1..Len(Tail(s)) : Tail(s)[k] = s[k + 1]
      BY <1>4, QueueTail
    <2>3. i # 1
      BY <1>4, <2>1, <2>2
    <2>4. i - 1 \in 1..Len(Tail(s)) /\ Tail(s)[i - 1] = s[i]
      BY <1>1, <2>2, <2>3
    <2> QED BY <2>1, <2>4 DEF NoneOf
  <1> QED BY <1>2, <1>3, <1>4

\* A read that is posted, and a completion that joins the queue.
LEMMA StillListening ==
    ASSUME TypeOK
    PROVE  /\ \A h \in Handler : ready' = Append(ready, h) /\ ~NoneOf(ready, LoopOps)
                                    => Listening'
           /\ \A h \in Handler : ready' = Append(ready, h) /\ h[1] \in LoopOps => Listening'
           /\ ready # <<>> /\ ~Full(Tail(ready)) /\ PostRead(Tail(ready)) => Listening'
  <1>1. ASSUME NEW q \in Seq(Handler), NEW h \in Handler, ready' = Append(q, h),
               ~NoneOf(q, LoopOps) \/ h[1] \in LoopOps
        PROVE  Listening'
    <2>1. Append(q, h) = q \o <<h>> /\ <<h>> \in Seq(Handler)
      BY AppendIsConcat
    <2>2. h[1] \in LoopOps => ~NoneOf(<<h>>, LoopOps)
      BY DEF NoneOf
    <2> QED BY <1>1, <2>1, <2>2, StillQueued DEF Listening
  <1>2. ready \in Seq(Handler)
    BY DEF TypeOK
  <1>3. ASSUME ready # <<>>, ~Full(Tail(ready)), PostRead(Tail(ready)) PROVE Listening'
    <2>1. Tail(ready) \in Seq(Handler)
      BY <1>2, <1>3, QueueTail
    <2>2. <<"read_task", "ok">> \in Handler /\ <<"read_task", "ok">>[1] \in LoopOps
      BY OpsDiffer DEF Handler
    <2>3. ready' = Append(Tail(ready), <<"read_task", "ok">>)
      BY <1>3, Zenon DEF PostRead, PostTask, Full
    <2> QED BY <1>1, <2>1, <2>2, <2>3
  <1> QED BY <1>1, <1>2, <1>3

\* A handler that is no part of the loop and leaves the reads alone.
LEMMA OthersListen ==
    ASSUME TypeOK, Listening, ready # <<>>, Head(ready)[1] \notin LoopOps,
           ready' = Tail(ready) \/ ready' = Append(Tail(ready), <<"write_task", "ok">>),
           reads' = reads
    PROVE  Listening'
  <1> DEFINE h == <<"write_task", "ok">>
  <1>1. ready \in Seq(Handler) /\ Tail(ready) \in Seq(Handler) /\ h \in Handler
    BY QueueTail DEF TypeOK, Handler
  <1>2. ready' = Tail(ready) \/ ready' = Append(Tail(ready), h)
    OBVIOUS
  <1> HIDE DEF h
  <1>3. Append(Tail(ready), h) = Tail(ready) \o <<h>> /\ <<h>> \in Seq(Handler)
    BY <1>1, AppendIsConcat
  <1>4. ~NoneOf(ready, LoopOps) => ~NoneOf(Tail(ready), LoopOps)
    BY <1>1, StillQueued
  <1>5. ~NoneOf(Tail(ready), LoopOps) => ~NoneOf(Append(Tail(ready), h), LoopOps)
    BY <1>1, <1>3, StillQueued
  <1> QED BY <1>2, <1>4, <1>5 DEF Listening

LEMMA RunListens ==
    ASSUME Inv, IsConnected, IsConnected', Listening,
           \/ RunReconnect \/ RunTimeout \/ RunResolve \/ RunReadTask
           \/ RunWrite \/ RunWriteTask
    PROVE  Listening'
  <1>1. ASSUME NEW STATE q, Disconnect(q) PROVE FALSE
    BY <1>1 DEF Disconnect, StartReconnectTimer, IsConnected
  <1>2. TypeOK /\ ready \in Seq(Handler)
    BY DEF Inv, TypeOK
  <1>3. CASE RunReconnect
    <2>1. /\ ready # <<>> /\ ready' = Tail(ready) /\ reads' = reads
          /\ Head(ready)[1] = "reconnect" /\ Head(ready)[1] \notin LoopOps
      BY <1>3, OpsDiffer DEF RunReconnect, ReconnectHandler, Connect, socketVars
    <2> QED BY <1>2, <2>1, OthersListen
  <1>4. CASE RunTimeout
    BY <1>1, <1>4 DEF RunTimeout, TimeoutHandler
  <1>5. CASE RunResolve
    <2>1. ready # <<>> /\ Head(ready)[1] \notin LoopOps
      BY <1>5, OpsDiffer DEF RunResolve
    <2>2. CASE ready' = Tail(ready) /\ UNCHANGED socketVars
      BY <1>2, <2>1, <2>2, OthersListen DEF socketVars
    <2>3. CASE ready' = Tail(ready) \o Aborted
      <3>1. Tail(ready) \in Seq(Handler) /\ Aborted \in Seq(Handler)
        BY <1>2, <2>1, QueueTail, AbortedType
      <3>2. ~NoneOf(Tail(ready), LoopOps) \/ ~NoneOf(Aborted, LoopOps)
        BY <1>2, <2>1, StillQueued, AbortedOps DEF Listening
      <3> QED BY <2>3, <3>1, <3>2, StillQueued DEF Listening
    <2> QED BY <1>1, <1>5, <2>2, <2>3, Zenon DEF RunResolve, ResolveHandler
  <1>6. CASE RunWriteTask
    <2>1. /\ ready # <<>> /\ ready' = Tail(ready) /\ reads' = reads
          /\ Head(ready)[1] \notin LoopOps
      BY <1>6, OpsDiffer DEF RunWriteTask, session_write
    <2> QED BY <1>2, <2>1, OthersListen
  <1>7. CASE RunReadTask
    <2>1. PICK stage \in Stages : reads' = Append(reads, stage)
      BY <1>7 DEF RunReadTask, ReadTask, Stages
    <2>2. reads' # <<>>
      BY <1>2, <2>1, AppendProperties DEF TypeOK
    <2> QED BY <2>2 DEF Listening
  <1>8. CASE RunWrite
    <2>1. Disconnect(Tail(ready)) \/ StopReading(Tail(ready)) \/ PostWrite(Tail(ready))
      BY <1>8, Zenon DEF RunWrite, WriteHandler
    <2>2. ready # <<>> /\ Head(ready)[1] \notin LoopOps
      BY <1>8, OpsDiffer DEF RunWrite
    <2>3. CASE StopReading(Tail(ready)) \/ PostWrite(Tail(ready))
      <3>1. /\ ready' = Tail(ready) \/ ready' = Append(Tail(ready), <<"write_task", "ok">>)
            /\ reads' = reads
        BY <2>3 DEF StopReading, PostWrite, PostTask, socketVars
      <3> QED BY <1>2, <2>2, <3>1, OthersListen
    <2> QED BY <1>1, <2>1, <2>3
  <1> QED BY <1>3, <1>4, <1>5, <1>6, <1>7, <1>8

\* A session begins, and its first read is posted unless that is dropped.
LEMMA BeginListens ==
    ASSUME Inv, IsConnected', RunConnect, ~Listening'
    PROVE  Full(Tail(ready))
  <1>1. ~Disconnect(Tail(ready))
    BY DEF Disconnect, StartReconnectTimer, IsConnected
  <1>2. PostRead(Tail(ready)) /\ ready # <<>>
    BY <1>1, Zenon DEF RunConnect, ConnectHandler
  <1> QED BY <1>2, StillListening DEF Inv

LEMMA ReadListens ==
    ASSUME Inv, IsConnected, IsConnected', RunRead, ~Listening', ~Full(Tail(ready))
    PROVE  Head(ready)[2] = "unknown"
  <1> DEFINE q == Tail(ready)
             stage == Head(ready)[1]
             res == Head(ready)[2]
  <1>1. ~Disconnect(q)
    BY DEF Disconnect, StartReconnectTimer, IsConnected
  <1>2. ready # <<>> /\ TypeOK
    BY DEF RunRead, Inv
  <1>3. ~PostRead(q)
    BY <1>2, StillListening
  <1>4. ~RetryRead(q)
    BY <1>3, Zenon DEF RetryRead
  <1>5. \A kind : ~packet_handle(kind, q)
    BY <1>3, Zenon DEF packet_handle
  <1>6. ASSUME NEW to \in Stages, ReadOn(to, q) PROVE FALSE
    <2>1. reads' # <<>>
      BY <1>2, <1>6, AppendProperties DEF ReadOn, TypeOK
    <2> QED BY <2>1 DEF Listening
  <1>7. "body" \in Stages /\ "data" \in Stages
    BY DEF Stages
  <1>8. ReadHandler(stage, res, q)
    BY DEF RunRead
  <1> QED
    BY <1>1, <1>4, <1>5, <1>6, <1>7, <1>8, Zenon
       DEF ReadHandler, HeaderHandler, BodyHandler, SizeHandler, DataHandler

LEMMA NetworkListens ==
    ASSUME Inv, Listening, Network
    PROVE  Listening'
  <1>1. TypeOK /\ reads \in Seq(Stages)
    BY DEF Inv, TypeOK
  <1>2. ASSUME NEW h \in Handler, ready' = Append(ready, h), reads' = reads
        PROVE  Listening'
    BY <1>1, <1>2, StillListening DEF Listening
  <1>3. CASE ReconnectExpires \/ TimeoutExpires
    <2>1. <<"reconnect", "ok">> \in Handler /\ <<"timeout", "ok">> \in Handler
      BY DEF Handler
    <2>2. /\ ready' \in {Append(ready, <<"reconnect", "ok">>), Append(ready, <<"timeout", "ok">>)}
          /\ reads' = reads
      BY <1>3 DEF ReconnectExpires, TimeoutExpires, socketVars
    <2> QED BY <1>2, <2>1, <2>2
  <1>4. ASSUME NEW res \in {"ok", "err", "no_v4"}, ResolveCompletes(res)
        PROVE  Listening'
    BY <1>2, <1>4 DEF ResolveCompletes, socketVars, Handler
  <1>5. ASSUME NEW res \in {"ok", "err"}, ConnectCompletes(res)
        PROVE  Listening'
    BY <1>2, <1>5 DEF ConnectCompletes, Handler
  <1>6. ASSUME NEW res \in ReadResults, ReadCompletes(res)
        PROVE  Listening'
    <2> DEFINE h == <<Head(reads), res>>
    <2>1. Head(reads) \in Stages
      BY <1>1, <1>6, HeadTailProperties, EmptySeq DEF ReadCompletes
    <2>2. h \in Handler /\ h[1] \in LoopOps
      BY <1>6, <2>1, OpsDiffer DEF Handler
    <2>3. ready' = Append(ready, h)
      BY <1>6 DEF ReadCompletes
    <2> HIDE DEF h
    <2> QED BY <1>1, <2>2, <2>3, StillListening
  <1>7. ASSUME NEW res \in IOResults, WriteCompletes(res)
        PROVE  Listening'
    BY <1>2, <1>7 DEF WriteCompletes, Handler
  <1> QED BY <1>3, <1>4, <1>5, <1>6, <1>7 DEF Network

LEMMA SendListens ==
    ASSUME Inv, Listening, Send
    PROVE  Listening'
  <1> DEFINE h == <<"write_task", "ok">>
  <1>1. h \in Handler
    BY DEF Handler
  <1>2. reads' = reads /\ (ready' = ready \/ ready' = Append(ready, h))
    BY DEF Send, PostWrite, PostTask, socketVars
  <1> HIDE DEF h
  <1> QED BY <1>1, <1>2, StillListening DEF Listening, Inv

\* Nothing but a connection that succeeded begins a session.
LEMMA OnlyConnectBegins ==
    ASSUME [Next]_vars, ~IsConnected, ~RunConnect
    PROVE  ~IsConnected'
  <1>1. ASSUME NEW STATE q, Disconnect(q) PROVE ~IsConnected'
    BY <1>1 DEF Disconnect, StartReconnectTimer, IsConnected
  <1>2. ASSUME NEW STATE q, Connect(q) PROVE ~IsConnected'
    BY <1>2 DEF Connect, IsConnected
  <1>3. connect_state' = connect_state => ~IsConnected'
    BY DEF IsConnected
  <1>4. CASE RunRead
    BY <1>1, <1>3, <1>4, Zenon
       DEF RunRead, ReadHandler, HeaderHandler, BodyHandler, SizeHandler, DataHandler,
           StopReading, RetryRead, ReadOn, packet_handle
  <1>5. CASE Start \/ RunReconnect \/ RunTimeout \/ RunResolve \/ RunReadTask
    BY <1>1, <1>2, <1>3, <1>5, Zenon
       DEF Start, RunReconnect, ReconnectHandler, RunTimeout, TimeoutHandler, RunResolve,
           ResolveHandler, RunReadTask, ReadTask
  <1>6. CASE RunWrite \/ RunWriteTask \/ Send
    BY <1>1, <1>3, <1>6, Zenon
       DEF RunWrite, WriteHandler, StopReading, PostWrite, RunWriteTask, session_write, Send
  <1>7. CASE DoWorkEnd
    BY <1>7 DEF DoWorkEnd, StartReconnectTimer, IsConnected
  <1>8. CASE Network \/ UNCHANGED vars
    BY <1>3, <1>8, Zenon
       DEF Network, ReconnectExpires, TimeoutExpires, ResolveCompletes, ConnectCompletes,
           ReadCompletes, WriteCompletes, vars
  <1> QED BY <1>4, <1>5, <1>6, <1>7, <1>8 DEF Next, DoWork

\* Only a packet that nobody knows, and a read that PostTask dropped, leave a session
\* without a read loop.
THEOREM NeverDeaf == Spec => KeepsListening
  <1> DEFINE Deaf == IsConnected' /\ ReadLoop' = 0 /\ (IsConnected => ReadLoop >= 1)
             Known == Head(ready)[2] = "unknown" \/ Tasks(Tail(ready)) >= MaxTasks
             Counted == ReadLoop \in Nat /\ (ReadLoop >= 1 <=> Listening)
  <1>1. Inv => Counted
    BY ListeningCounts DEF Inv
  <1>2. Inv' => Counted'
    BY <1>1, PTL
  <1>3. Inv /\ Inv' /\ [Next]_vars => [Deaf => Known]_vars
    <2> SUFFICES ASSUME Inv, Inv', [Next]_vars, Deaf, ~UNCHANGED vars PROVE Known
      OBVIOUS
    <2>1. IsConnected' /\ ~Listening' /\ (IsConnected => Listening)
      <3>1. IsConnected => Listening
        BY <1>1
      <3>2. ReadLoop' \in Nat /\ (ReadLoop' >= 1 <=> Listening')
        BY <1>2
      <3> QED BY <3>1, <3>2
    <2>2. CASE RunConnect
      BY <2>1, <2>2, BeginListens DEF Full
    <2>3. CASE ~IsConnected /\ ~RunConnect
      BY <2>1, <2>3, OnlyConnectBegins
    <2>4. CASE IsConnected /\ Send
      BY <2>1, <2>4, SendListens
    <2>5. CASE IsConnected /\ RunRead
      BY <2>1, <2>5, ReadListens DEF Full
    <2>6. CASE IsConnected /\ Network
      BY <2>1, <2>6, NetworkListens
    <2>7. CASE IsConnected /\ (\/ RunReconnect \/ RunTimeout \/ RunResolve \/ RunReadTask
                              \/ RunWrite \/ RunWriteTask)
      BY <2>1, <2>7, RunListens
    <2>8. CASE IsConnected /\ (Start \/ DoWorkEnd)
      BY <2>8 DEF Start, DoWorkEnd, IsConnected
    <2> QED BY <2>2, <2>3, <2>4, <2>5, <2>6, <2>7, <2>8 DEF Next, DoWork
  <1>4. [Deaf => Known]_vars =>
            [(IsConnected' /\ ReadLoop' = 0 /\ (IsConnected => ReadLoop >= 1))
                => \/ Head(ready)[2] = "unknown"
                   \/ Tasks(Tail(ready)) >= MaxTasks]_vars
    OBVIOUS
  <1> HIDE DEF Deaf, Known
  <1> QED BY <1>3, <1>4, Invariance, PTL DEF Spec, KeepsListening
=============================================================================
