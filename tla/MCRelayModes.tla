----------------------------- MODULE MCRelayModes -----------------------------
(* One instance for TLC of every way a cache travels: compressed or raw, over *)
(* pinned memory, one preallocated file with a region per slot, or a file per *)
(* slot whose writes may be short.  A behaviour keeps the mode it begins in,  *)
(* and all of them promise the same delivery.                                 *)
EXTENDS MCRelay

VARIABLE mode

\* In the spool a short write is the failure of interest; elsewhere any step
\* of either thread may raise.
Modes ==
  [compressed : BOOLEAN, transport : {"HostRing", "FileConcat"}, raises : {TRUE}, short : {FALSE}]
    \union [compressed : BOOLEAN, transport : {"FileSpool"}, raises : {FALSE}, short : {TRUE}]

Relay(m) ==
  INSTANCE RelayPipeline
    WITH Compressed <- m.compressed, Transport <- m.transport,
         Failures <- m.raises, ShortWrites <- m.short

ModesInit == \E m \in Modes : mode = m /\ Relay(m)!Init

ModesNext == \E m \in Modes : mode = m /\ Relay(m)!Next /\ UNCHANGED mode

\* RelayPipeline's fairness, in whichever mode the behaviour is.
ModesFairness ==
  /\ WF_vars(\E m \in Modes : mode = m /\ Relay(m)!ProducerStep)
  /\ WF_vars(\E m \in Modes : mode = m /\ Relay(m)!ConsumerStep)
  /\ WF_vars(\E m \in Modes : mode = m /\ Relay(m)!Main)
  /\ WF_vars(\E m \in Modes : mode = m /\ Relay(m)!RunCopy0)
  /\ WF_vars(\E m \in Modes : mode = m /\ Relay(m)!RunCopy1)
  /\ WF_vars(\E m \in Modes : mode = m /\ Relay(m)!RunDefault1)

ModesSpec == ModesInit /\ [][ModesNext]_<<mode, vars>> /\ ModesFairness
=============================================================================
