------------------------------ MODULE MCSession ------------------------------
(* Instances of Session for TLC.                                             *)
EXTENDS Session

BothScripts  == {"protocol", "verify"}
ProtocolOnly == {"protocol"}
=============================================================================
