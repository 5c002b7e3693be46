------------------------------ MODULE MCOffload ------------------------------
(* An instance of OffloadFile for TLC: two tensors whose raw and compressed  *)
(* layouts differ, written in fsync_offload.main's four configurations.      *)
EXTENDS OffloadFile

MCSizes ==
  [a \in {"raw", "compressed"} |-> IF a = "raw" THEN <<2, 1>> ELSE <<1, 1>>]

MCConfigs ==
  <<[perTensor |-> TRUE,  fsync |-> TRUE],  [perTensor |-> FALSE, fsync |-> TRUE],
    [perTensor |-> TRUE,  fsync |-> FALSE], [perTensor |-> FALSE, fsync |-> FALSE]>>
=============================================================================
