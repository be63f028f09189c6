---------------------------- MODULE MCRawClient ----------------------------
(* RawClient for TLC. *)
EXTENDS RawClient

AllPackets == PacketKinds
KnownPackets == PacketKinds \ {"unknown"}

\* The expiry of the connect timeout only matters while there is no session:
\* session_start sets the state before it clears the timers ("Don't touch this
\* order", raw_session.cpp), and the timeout handler asks for that state, so
\* that a session survives a timeout that expired just too late.
TimeoutSparesSession == [][RunTimeout /\ IsConnected => IsConnected']_vars
=============================================================================
