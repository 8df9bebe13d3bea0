---------------------------- MODULE MCKeyExchange ----------------------------
(* KeyExchange for TLC. Two keygens choose among four paths, so that they may *)
(* collide on any file or on none, also with themselves. No symmetry: the run *)
(* checks a liveness property.                                                *)
EXTENDS KeyExchange
=============================================================================
