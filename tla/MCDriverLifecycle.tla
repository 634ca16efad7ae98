------------------------- MODULE MCDriverLifecycle -------------------------
(***************************************************************************)
(* An instance of DriverLifecycle for TLC: the driver's four callouts, one *)
(* injection handle for each direction, and two classify calls.            *)
(***************************************************************************)
EXTENDS DriverLifecycle

CONSTANTS outbound, inbound, outbound_IP, inbound_IP, ih_out, ih_in, p1, p2

MCCallouts == <<outbound, inbound, outbound_IP, inbound_IP>>
MCCleanupOrder == <<outbound_IP, inbound_IP, outbound, inbound>>
MCCalloutOf == [p \in Calls |-> IF p = p1 THEN outbound ELSE inbound]
=============================================================================
