---------------------------- MODULE MCDiscovery ----------------------------
(* The registry of one node, with two other nodes, for TLC. *)
EXTENDS Discovery

CONSTANTS self, other, long

MCNode == {self, other, long}
MCSelf == self
MCLongNick == {long}
=============================================================================
