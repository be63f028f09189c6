---------------------------- MODULE PacketChannel ----------------------------
(***************************************************************************)
(* What the connection promises for the packets of one direction: in a     *)
(* session they are handled in the order in which they were sent, each at  *)
(* most once and as it was sent.  A packet may be dropped, a session may   *)
(* end with packets unhandled, and the promise may lapse for the rest of a *)
(* session (intact); nothing is promised after that.                       *)
(***************************************************************************)
EXTENDS Sequences

CONSTANT Packet

VARIABLES
    queue,      \* the packets sent and not yet handled, in order
    got,        \* the packets handled in this session, in order
    intact      \* the promise still holds in this session

vars == <<queue, got, intact>>

Init == queue = <<>> /\ got = <<>> /\ intact = TRUE

Put ==
    /\ intact /\ intact'
    /\ \E p \in Packet : queue' = Append(queue, p)
    /\ UNCHANGED got

Take ==
    /\ intact /\ intact'
    /\ queue # <<>>
    /\ queue' = Tail(queue)
    /\ got' = Append(got, Head(queue))

Drop ==
    /\ intact /\ intact'
    /\ queue # <<>>
    /\ queue' = Tail(queue)
    /\ UNCHANGED got

\* From here to the end of the session anything goes.
Lapse == ~intact'

Reset == queue' = <<>> /\ got' = <<>> /\ intact' = TRUE

Next == Put \/ Take \/ Drop \/ Lapse \/ Reset

Spec == Init /\ [][Next]_vars
=============================================================================
