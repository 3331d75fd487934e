---------------------------- MODULE MCPcapReader ----------------------------
(* Lengths on both sides of every test, and room for nine extension headers. *)
EXTENDS PcapReader

MCCapturedLengths == {0, 1, 13, 14, 17, 18, 20, 22, 24, 38, 42, 54, 62, 116}
=============================================================================
