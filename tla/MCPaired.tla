------------------------------ MODULE MCPaired -------------------------------
(* An instance of PairedPaths for TLC: the compressed tensors are shorter    *)
(* than the raw ones, so the two arms lay their files out differently.       *)
EXTENDS PairedPaths

MCSizes == [comp \in BOOLEAN |-> IF comp THEN <<2, 1, 1>> ELSE <<3, 2, 2>>]
=============================================================================
