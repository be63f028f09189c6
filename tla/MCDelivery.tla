----------------------------- MODULE MCDelivery -----------------------------
(* Delivery for TLC. *)
EXTENDS Delivery

\* The packets whose loss matters.
FirstTwo == {1, 2}
First == {1}

\* "Sending the public key must be scheduled first, so that the bridge can
\* complete the encryption and read the encrypted data correctly" (the comment
\* in HandleKeyExchange): the bridge has the whole key before it gets any piece
\* of an encrypted packet.
KeyWholeBeforeEncrypted ==
    \A j \in 1..Len(wire) :
        wire[j].pkt.enc =>
            \E i \in 1..(j - 1) : wire[i].pkt.id = PublicKey /\ wire[i].part = Parts
=============================================================================
