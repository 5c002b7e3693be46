------------------------------ MODULE Delivery ------------------------------
(***************************************************************************)
(* What the relay promises whoever calls it, with no threads, slots or     *)
(* streams: in every pass each tensor reaches the receiver once, right and *)
(* in cache order, starting from a zeroed receiver; a pass ends only when  *)
(* all of them are there together; and a run that cannot do that raises.   *)
(***************************************************************************)
EXTENDS Integers

CONSTANTS
  NTensors, Passes,
  Payload,          \* what the receiver is to get for each tensor
  MayRaise

VARIABLES out, pass, outcome

dvars == <<out, pass, outcome>>

Tensors == 1..NTensors

AllDelivered == \A t \in Tensors : out[t] = Payload[t]

Init ==
  /\ out = [t \in Tensors |-> 0]
  /\ pass = 1
  /\ outcome = "running"

Deliver ==
  /\ outcome = "running"
  /\ \E t \in Tensors :
       /\ out[t] = 0
       /\ \A u \in 1..(t - 1) : out[u] = Payload[u]
       /\ out' = [out EXCEPT ![t] = Payload[t]]
  /\ UNCHANGED <<pass, outcome>>

NextPass ==
  /\ outcome = "running" /\ AllDelivered /\ pass < Passes
  /\ out' = [t \in Tensors |-> 0]
  /\ pass' = pass + 1
  /\ UNCHANGED outcome

Return ==
  /\ outcome = "running" /\ AllDelivered /\ pass = Passes
  /\ outcome' = "returned"
  /\ UNCHANGED <<out, pass>>

Raise ==
  /\ MayRaise /\ outcome = "running"
  /\ outcome' = "raised"
  /\ UNCHANGED <<out, pass>>

Next == Deliver \/ NextPass \/ Return \/ Raise

\* A running relay goes on delivering until it has returned or raised.
Spec == Init /\ [][Next]_dvars /\ WF_dvars(Deliver \/ NextPass \/ Return)
=============================================================================
