---------------------------- MODULE BridgeSession ----------------------------
(***************************************************************************)
(* What the parts of a core may take for granted of its sessions with the  *)
(* bridge.  A session begins in the clear and with nothing known of the    *)
(* bridge; it turns to encryption once at most, and not back; what the     *)
(* bridge has told the core counts while the session lasts; key and        *)
(* knowledge go with the session, in the same step.                        *)
(***************************************************************************)
VARIABLES
    up,         \* there is a session
    secure,     \* it is encrypted
    informed    \* the core believes something the bridge told it in this session

vars == <<up, secure, informed>>

Init == up = FALSE /\ secure = FALSE /\ informed = FALSE

Begin ==
    /\ ~up /\ up' = TRUE
    /\ secure' = FALSE /\ informed' = FALSE

Secure ==
    /\ up /\ ~secure /\ secure' = TRUE
    /\ UNCHANGED <<up, informed>>

Inform ==
    /\ up /\ informed' \in BOOLEAN
    /\ UNCHANGED <<up, secure>>

End ==
    /\ up /\ up' = FALSE
    /\ secure' = FALSE /\ informed' = FALSE

Next == Begin \/ Secure \/ Inform \/ End

Spec == Init /\ [][Next]_vars
=============================================================================
