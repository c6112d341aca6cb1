-------------------------- MODULE MCOutboundFlight --------------------------
(* TLC instance of OutboundFlight. *)
EXTENDS OutboundFlight

CONSTANTS p1, p2

\* Two sizes, so that releasing the bytes of the wrong packet shows.
MCPacketSize == [p \in Packet |-> IF p = p1 THEN 2 ELSE 1]
=============================================================================
