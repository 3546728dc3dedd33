----------------------------- MODULE MCRtpFeed ------------------------------
(* Ports at both ends of the range and of what PortRange can draw, and one   *)
(* address that a random draw may share with the SSuT.                       *)
EXTENDS RtpFeed

MCPortDraws == {2, 1024, 11998, 12000, 15000, 15002, 22222, 65530}
MCRanges == {DefaultRange, [min |-> 15000, max |-> 65535], [min |-> 1000, max |-> 2000]}
MCHosts4 == {"127.0.0.1", "198.51.100.7"}
MCHosts6 == {"2001:0:0:0:0:0:0:1"}
=============================================================================
