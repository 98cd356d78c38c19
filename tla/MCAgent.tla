------------------------------ MODULE MCAgent ------------------------------
(* Agent on one delivery of an event and up to two ExternalSecrets.          *)
EXTENDS Agent

CONSTANTS d1, s1, s2
=============================================================================
