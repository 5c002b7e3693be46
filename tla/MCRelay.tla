------------------------------- MODULE MCRelay -------------------------------
(* Instances of RelayPipeline for TLC: the tensors' sizes, longest first, so *)
(* that a slot's next tenant is shorter than its last.                       *)
EXTENDS RelayPipeline

MCBytes == [t \in Tensors |-> NTensors + 1 - t]

\* The buffers are the relay's own: a tensor's number names its bytes.
MCPayload == [t \in Tensors |-> t]
=============================================================================
