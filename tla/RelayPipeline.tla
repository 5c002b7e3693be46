---------------------------- MODULE RelayPipeline ----------------------------
(***************************************************************************)
(* scripts/pipeline_multistage.py, run_pipeline: a producer thread on GPU0 *)
(* and a consumer thread on GPU1 move a cache of tensors through Depth     *)
(* slots, pass after pass.  A slot names a scratch buffer on GPU0, a host  *)
(* ring entry (with a file behind it for the two file transports), a       *)
(* receive buffer and a decode destination on GPU1.  Slot numbers travel   *)
(* back through the `free' queue and forward through the `ready' queue.    *)
(*                                                                         *)
(* Copies and kernels are asynchronous.  Each stream is a FIFO of pending  *)
(* operations that the device runs when it likes; the threads only wait    *)
(* where the code synchronises.  The side streams do not order themselves  *)
(* against a device's default stream.                                      *)
(***************************************************************************)
EXTENDS Buffers, Sequences, FiniteSets

CONSTANTS
  NTensors,        \* tensors in the cache
  Depth,           \* slots in the ring
  Passes,          \* passes over the cache: warm, timed and checked alike
  Compressed,      \* codec on both ends, or the raw path
  Transport,       \* "HostRing", "FileSpool" or "FileConcat"
  Bytes,           \* bytes each tensor ships as
  Payload,         \* whose bytes those are, as the buffers that receive them know it
  Payloads,        \* all that a buffer may hold: what else uses the buffers leaves its own
  Failures,        \* may a thread's step raise?
  ShortWrites,     \* may one write() take fewer bytes than it was given?
  FillLandsFirst   \* does a fill on GPU1's default stream always finish
                   \* before a copy issued after it on the side stream?

Tensors == 1..NTensors
Slots   == 0..(Depth - 1)
Stop    == -1                              \* the consumer's word to the producer
NoItem  == [tensor |-> 0, slot |-> Stop]   \* the producer's None to the consumer

ASSUME ConstantsAssumption ==
  /\ NTensors \in Nat \ {0}
  /\ Depth \in Nat \ {0}
  /\ Passes \in Nat \ {0}
  /\ Compressed \in BOOLEAN
  /\ Transport \in {"HostRing", "FileSpool", "FileConcat"}
  /\ Bytes \in [Tensors -> Nat \ {0}]
  /\ Payloads \subseteq Nat \ {0} /\ Payload \in [Tensors -> Payloads]
  /\ Failures \in BOOLEAN
  /\ ShortWrites \in BOOLEAN
  /\ FillLandsFirst \in BOOLEAN

VARIABLES
  pPc, pItem,      \* producer: next step, and the tensor and slot it works on
  cPc, cItem,      \* consumer: next step, and the item it works on
  free, ready,     \* the two queues between them
  err,             \* who has raised, in order
  copy0,           \* GPU0 side stream: device-to-host copies
  copy1,           \* GPU1 side stream: host-to-device copies
  default1,        \* GPU1 default stream: fills, decode kernels, delivery
  scr, host, file, recv, dst,   \* what each slot's buffers hold
  out,             \* gpu_out: what has been delivered for each tensor
  pass, outcome    \* the main thread: passes begun, and how the run ended

producerVars == <<pPc, pItem>>
consumerVars == <<cPc, cItem>>
queues  == <<free, ready>>
streams == <<copy0, copy1, default1>>
buffers == <<scr, host, file, recv, dst, out>>
mainVars == <<pass, outcome>>
vars == <<producerVars, consumerVars, queues, err, streams, buffers, mainVars>>

Items == [tensor : Tensors, slot : Slots]

DeviceOps == [op : {"zeroRecv", "zeroDst", "decode", "deliver"}, item : Items]

Empty(content) == [s \in Slots |-> content]

-----------------------------------------------------------------------------
(* Start of a pass: all slots free, both threads started, gpu_out zeroed.   *)

FreshQueue == [k \in 1..Depth |-> k - 1]

\* Faulty variants (here and below) are what a definition must not become.
StaleOut == out

\* gpu_out, zeroed `so a skipped write cannot pass as stale'.
ClearedOut == [t \in Tensors |-> Nothing]

Init ==
  /\ pPc = "get" /\ pItem = [tensor |-> 1, slot |-> Stop]
  /\ cPc = "get" /\ cItem = NoItem
  /\ free = FreshQueue /\ ready = << >>
  /\ err = << >>
  /\ copy0 = << >> /\ copy1 = << >> /\ default1 = << >>
  /\ scr = Empty(Nothing) /\ host = Empty(Nothing) /\ dst = Empty(Nothing)
  /\ file = Empty(Zeroed) /\ recv = Empty(Zeroed)
  /\ out = [t \in Tensors |-> Nothing]
  /\ pass = 1 /\ outcome = "running"

-----------------------------------------------------------------------------
(* The waits.                                                               *)

\* Faulty: no wait at all.
Unawaited == TRUE
UnawaitedEvent(item) == item \in Items

\* current_stream().synchronize() in a file transport's put.
BytesInHost == copy0 = << >>

\* ev.synchronize(): the copy the event was recorded behind is done.
EventComplete(item) == \A k \in DOMAIN copy0 : copy0[k] # item

\* s_copy.synchronize().
PayloadLanded == copy1 = << >>

\* done.synchronize(): everything the consumer issued on the default stream.
DeliveryDone == default1 = << >>

-----------------------------------------------------------------------------
(* The producer thread on GPU0.                                             *)

\* slot = free.get(); a negative slot means the consumer has died.
PGet ==
  /\ pPc = "get" /\ free # << >>
  /\ free' = Tail(free)
  /\ pItem' = [pItem EXCEPT !.slot = Head(free)]
  /\ pPc' = IF Head(free) = Stop THEN "done"
            ELSE IF Compressed THEN "encode" ELSE "ship"
  /\ UNCHANGED <<consumerVars, ready, err, streams, buffers, mainVars>>

\* Zero the slot's scratch and compress into it; compress blocks its caller.
PEncode ==
  /\ pPc = "encode"
  /\ scr' = [scr EXCEPT ![pItem.slot] = Payload[pItem.tensor]]
  /\ pPc' = "ship"
  /\ UNCHANGED <<pItem, consumerVars, queues, err, streams,
                 host, file, recv, dst, out, mainVars>>

\* ring.put: the copy into the slot's pinned memory, on the side stream,
\* and the event recorded behind it.
PShip ==
  /\ pPc = "ship"
  /\ copy0' = Append(copy0, pItem)
  /\ pPc' = IF Transport = "HostRing" THEN "announce" ELSE "flush"
  /\ UNCHANGED <<pItem, consumerVars, queues, err, copy1, default1,
                 buffers, mainVars>>

\* FileSpool.put and FileConcat.put: wait for the bytes, then one unbuffered
\* write of them.  FileSpool opens its file anew, which empties it;
\* FileConcat seeks to the slot's offset, where the last lap's bytes still
\* are.  Neither looks at how many bytes the write took.
PFlush ==
  /\ pPc = "flush" /\ BytesInHost
  /\ LET t   == pItem.tensor
         s   == pItem.slot
         old == IF Transport = "FileSpool" THEN Zeroed ELSE file[s]
     IN  \/ file' = [file EXCEPT ![s] = CopiedInto(old, host[s], Bytes[t])]
         \/ /\ ShortWrites
            /\ \E k \in 1..(Bytes[t] - 1) :
                 file' = [file EXCEPT ![s] =
                   IF Transport = "FileSpool"
                   THEN [of |-> host[s], extent |-> k]
                   ELSE ShortWritten(old, host[s], k)]
  /\ pPc' = "announce"
  /\ UNCHANGED <<pItem, consumerVars, queues, err, streams,
                 scr, host, recv, dst, out, mainVars>>

\* ready.put((i, slot, nb, ev)) and on to the next tensor.
PAnnounce ==
  /\ pPc = "announce"
  /\ ready' = Append(ready, pItem)
  /\ IF pItem.tensor < NTensors
     THEN /\ pPc' = "get"
          /\ pItem' = [tensor |-> pItem.tensor + 1, slot |-> Stop]
     ELSE /\ pPc' = "finish"
          /\ UNCHANGED pItem
  /\ UNCHANGED <<consumerVars, free, err, streams, buffers, mainVars>>

\* ready.put(None) after the last tensor.
PFinish ==
  /\ pPc = "finish"
  /\ ready' = Append(ready, NoItem)
  /\ pPc' = "done"
  /\ UNCHANGED <<pItem, consumerVars, free, err, streams, buffers, mainVars>>

\* Any CUDA or file call raises: note it, tell the consumer there is no more.
PFail ==
  /\ Failures /\ pPc \in {"encode", "ship", "flush"}
  /\ err' = Append(err, "producer")
  /\ ready' = Append(ready, NoItem)
  /\ pPc' = "done"
  /\ UNCHANGED <<pItem, consumerVars, free, streams, buffers, mainVars>>

ProducerStep == PGet \/ PEncode \/ PShip \/ PFlush \/ PAnnounce \/ PFinish

Producer == ProducerStep \/ PFail

-----------------------------------------------------------------------------
(* The consumer thread on GPU1.                                             *)

\* Operations issued for an item on the default stream, in order.
Issue(names, item) ==
  [k \in DOMAIN names |-> [op |-> names[k], item |-> item]]

\* Faulty: a reused receive buffer is not cleared, nor a decode destination.
NoFill == << >>
DecodeUnzeroed == IF Compressed THEN <<"decode", "deliver">> ELSE <<"deliver">>

\* Before a payload arrives: `the tail past nb holds whatever the previous
\* tensor left'.
ReceiveOps == <<"zeroRecv">>

\* After it has: decompress into a zeroed destination and copy that into
\* gpu_out, or on the raw path copy the receive buffer.
DeliverOps ==
  IF Compressed THEN <<"zeroDst", "decode", "deliver">> ELSE <<"deliver">>

\* Faulty: the sentinel is taken for an item.
NeverNone(item) == item # item

\* if item is None.
IsNone(item) == item = NoItem

\* item = ready.get(); None ends the thread.
CGet ==
  /\ cPc = "get" /\ ready # << >>
  /\ ready' = Tail(ready)
  /\ cItem' = Head(ready)
  /\ cPc' = IF IsNone(Head(ready)) THEN "done" ELSE "sync"
  /\ UNCHANGED <<producerVars, free, err, streams, buffers, mainVars>>

\* ev.synchronize(): the bytes are in the ring.  Then the receive buffer is
\* zeroed, on the default stream.
CSync ==
  /\ cPc = "sync"
  /\ EventComplete(cItem)
  /\ default1' = default1 \o Issue(ReceiveOps, cItem)
  /\ cPc' = "fetch"
  /\ UNCHANGED <<producerVars, cItem, queues, err, copy0, copy1,
                 buffers, mainVars>>

\* The slot's file is long enough for the bytes the item says it has, as
\* FileConcat's always is: it was preallocated.
Readable(item) ==
  Transport = "FileConcat" \/ file[item.slot].extent >= Bytes[item.tensor]

\* ring.get: a file transport reads the slot's file back into its pinned
\* memory and asserts the byte count; then the copy to GPU1, on the side
\* stream.
CFetch ==
  /\ cPc = "fetch"
  /\ \/ Transport = "HostRing" /\ UNCHANGED host
     \/ /\ Transport # "HostRing" /\ Readable(cItem)
        /\ host' = [host EXCEPT ![cItem.slot] = file[cItem.slot].of]
  /\ copy1' = Append(copy1, cItem)
  /\ cPc' = "landed"
  /\ UNCHANGED <<producerVars, cItem, queues, err, copy0, default1,
                 scr, file, recv, dst, out, mainVars>>

\* s_copy.synchronize().
CLanded ==
  /\ cPc = "landed" /\ PayloadLanded
  /\ cPc' = "decode"
  /\ UNCHANGED <<producerVars, cItem, queues, err, streams, buffers, mainVars>>

\* The decode and the delivery, all of it on the default stream.
CDecode ==
  /\ cPc = "decode"
  /\ default1' = default1 \o Issue(DeliverOps, cItem)
  /\ cPc' = "await"
  /\ UNCHANGED <<producerVars, cItem, queues, err, copy0, copy1,
                 buffers, mainVars>>

\* done.synchronize(): the delivery has read the slot.
CAwait ==
  /\ cPc = "await" /\ DeliveryDone
  /\ cPc' = "free"
  /\ UNCHANGED <<producerVars, cItem, queues, err, streams, buffers, mainVars>>

\* free.put(slot).
CFree ==
  /\ cPc = "free"
  /\ free' = Append(free, cItem.slot)
  /\ cPc' = "get"
  /\ UNCHANGED <<producerVars, cItem, ready, err, streams, buffers, mainVars>>

\* Faulty: the producer is left waiting, or handed the same slot over and over.
NoStops == << >>
SlotAgain == [k \in 1..(Depth + NTensors) |-> cItem.slot]

\* More Stops than the producer can ever ask for.
Stops == [k \in 1..(Depth + NTensors) |-> Stop]

\* except BaseException: note it, and unblock the producer.
ConsumerRaises ==
  /\ err' = Append(err, "consumer")
  /\ free' = free \o Stops
  /\ cPc' = "done"
  /\ UNCHANGED <<producerVars, cItem, ready, streams, buffers, mainVars>>

\* A file read that comes up short trips its assertion.
CShortRead ==
  /\ cPc = "fetch" /\ Transport # "HostRing" /\ ~Readable(cItem)
  /\ ConsumerRaises

\* Any CUDA or file call raises.
CFail ==
  /\ Failures /\ cPc \in {"sync", "fetch", "landed", "decode", "await"}
  /\ ConsumerRaises

ConsumerStep ==
  CGet \/ CSync \/ CFetch \/ CLanded \/ CDecode \/ CAwait \/ CFree \/ CShortRead

Consumer == ConsumerStep \/ CFail

-----------------------------------------------------------------------------
(* The devices: each stream runs its oldest pending operation.              *)

\* GPU0 copies the payload from the scratch (compressed) or straight from
\* the cache (raw) into the slot's pinned memory.
RunCopy0 ==
  /\ copy0 # << >>
  /\ LET item == Head(copy0)
     IN  host' = [host EXCEPT ![item.slot] =
                    IF Compressed THEN scr[item.slot] ELSE Payload[item.tensor]]
  /\ copy0' = Tail(copy0)
  /\ UNCHANGED <<producerVars, consumerVars, queues, err, copy1, default1,
                 scr, file, recv, dst, out, mainVars>>

FillPending(slot) ==
  \E k \in DOMAIN default1 :
    default1[k].op = "zeroRecv" /\ default1[k].item.slot = slot

\* GPU1 copies the payload into the receive buffer.  Nothing orders this
\* after the fill pending on the default stream, unless FillLandsFirst.
RunCopy1 ==
  /\ copy1 # << >>
  /\ LET item == Head(copy1)
         s    == item.slot
     IN  /\ FillLandsFirst => ~FillPending(s)
         /\ recv' = [recv EXCEPT ![s] =
                       CopiedInto(recv[s], host[s], Bytes[item.tensor])]
  /\ copy1' = Tail(copy1)
  /\ UNCHANGED <<producerVars, consumerVars, queues, err, copy0, default1,
                 scr, host, file, dst, out, mainVars>>

ZeroRecv(s) ==
  /\ recv' = [recv EXCEPT ![s] = Zeroed]
  /\ UNCHANGED <<dst, out>>

ZeroDst(s) ==
  /\ dst' = [dst EXCEPT ![s] = Nothing]
  /\ UNCHANGED <<recv, out>>

\* L.decompress: what it yields for this receive buffer and destination.
Decode(t, s) ==
  /\ dst' = [dst EXCEPT ![s] = Decoded(recv[s], Payload[t], Bytes[t], dst[s])]
  /\ UNCHANGED <<recv, out>>

\* gpu_out[i].copy_(...).
Deliver(t, s) ==
  /\ out' = [out EXCEPT ![t] = IF Compressed THEN dst[s] ELSE recv[s].of]
  /\ UNCHANGED <<recv, dst>>

RunDefault1 ==
  /\ default1 # << >>
  /\ LET op == Head(default1).op
         t  == Head(default1).item.tensor
         s  == Head(default1).item.slot
     IN  \/ op = "zeroRecv" /\ ZeroRecv(s)
         \/ op = "zeroDst" /\ ZeroDst(s)
         \/ op = "decode" /\ Decode(t, s)
         \/ op = "deliver" /\ Deliver(t, s)
  /\ default1' = Tail(default1)
  /\ UNCHANGED <<producerVars, consumerVars, queues, err, copy0, copy1,
                 scr, host, file, mainVars>>

Device == RunCopy0 \/ RunCopy1 \/ RunDefault1

-----------------------------------------------------------------------------
(* The main thread: join both threads, synchronise both devices, raise what *)
(* was noted first, or begin the next pass over the same buffers.           *)

Joined ==
  /\ outcome = "running" /\ pPc = "done" /\ cPc = "done"
  /\ copy0 = << >> /\ copy1 = << >> /\ default1 = << >>

MRaise ==
  /\ Joined /\ err # << >>
  /\ outcome' = "raised"
  /\ UNCHANGED <<producerVars, consumerVars, queues, err, streams, buffers, pass>>

MNextPass ==
  /\ Joined /\ err = << >> /\ pass < Passes
  /\ pass' = pass + 1
  /\ out' = ClearedOut
  /\ free' = FreshQueue /\ ready' = << >>
  /\ pPc' = "get" /\ pItem' = [tensor |-> 1, slot |-> Stop]
  /\ cPc' = "get" /\ cItem' = NoItem
  /\ UNCHANGED <<err, streams, scr, host, file, recv, dst, outcome>>

MReturn ==
  /\ Joined /\ err = << >> /\ pass = Passes
  /\ outcome' = "returned"
  /\ UNCHANGED <<producerVars, consumerVars, queues, err, streams, buffers, pass>>

Main == MRaise \/ MNextPass \/ MReturn

\* The run is over; its last state is no deadlock.
Ended == outcome # "running" /\ UNCHANGED vars

Next == Producer \/ Consumer \/ Device \/ Main \/ Ended

\* The operating system runs both threads and the main one, and the devices
\* drain their streams.  Nothing is owed a failure.
Fairness ==
  /\ WF_vars(ProducerStep) /\ WF_vars(ConsumerStep) /\ WF_vars(Main)
  /\ WF_vars(RunCopy0) /\ WF_vars(RunCopy1) /\ WF_vars(RunDefault1)

Spec == Init /\ [][Next]_vars

FairSpec == Spec /\ Fairness

-----------------------------------------------------------------------------
(* Who holds a slot.                                                        *)

FreeSlots  == {free[k] : k \in DOMAIN free} \ {Stop}
ReadySlots == {ready[k].slot : k \in DOMAIN ready} \ {Stop}
ProducerHolds ==
  IF pPc \in {"encode", "ship", "flush", "announce"} THEN {pItem.slot} ELSE {}
ConsumerHolds ==
  IF cPc \in {"sync", "fetch", "landed", "decode", "await", "free"}
  THEN {cItem.slot} ELSE {}

\* Every variable stays within its type (run_pipeline's state).
TypeOK ==
  /\ pPc \in {"get", "encode", "ship", "flush", "announce", "finish", "done"}
  /\ pItem \in [tensor : Tensors, slot : Slots \union {Stop}]
  /\ pPc \in {"encode", "ship", "flush", "announce"} => pItem \in Items
  /\ cPc \in {"get", "sync", "fetch", "landed", "decode", "await", "free", "done"}
  /\ cItem \in Items \union {NoItem}
  /\ cPc \notin {"get", "done"} => cItem \in Items
  /\ free \in Seq(Slots \union {Stop})
  /\ ready \in Seq(Items \union {NoItem})
  /\ err \in Seq({"producer", "consumer"})
  /\ copy0 \in Seq(Items) /\ copy1 \in Seq(Items)
  /\ default1 \in Seq(DeviceOps)
  /\ scr \in [Slots -> Payloads \union {Nothing, Torn}]
  /\ host \in [Slots -> Payloads \union {Nothing, Torn}]
  /\ dst \in [Slots -> Payloads \union {Nothing, Torn}]
  /\ file \in [Slots -> Contents(Payloads)]
  /\ recv \in [Slots -> Contents(Payloads)]
  /\ out \in [Tensors -> Payloads \union {Nothing, Torn}]
  /\ pass \in 1..Passes
  /\ outcome \in {"running", "returned", "raised"}

\* A slot number is in one place at a time -- a queue, once, or the hands of
\* one thread -- through failures and sentinels alike; it is what lets the two
\* threads share four buffers per slot without a lock.
SlotExclusive ==
  /\ \A j, k \in DOMAIN free : free[j] = free[k] /\ free[j] # Stop => j = k
  /\ \A j, k \in DOMAIN ready :
       ready[j].slot = ready[k].slot /\ ready[j] # NoItem => j = k
  /\ FreeSlots \intersect ReadySlots = {}
  /\ (FreeSlots \union ReadySlots) \intersect (ProducerHolds \union ConsumerHolds) = {}
  /\ ProducerHolds \intersect ConsumerHolds = {}

\* "Nothing is reused while a stage still holds it" (run_pipeline's docstring):
\* a slot with an operation still pending on some stream is neither free nor in
\* the hands of a thread that may write its buffers again.
NothingReusedWhileHeld ==
  /\ \A k \in DOMAIN copy0 :
       /\ copy0[k].slot \notin FreeSlots
       /\ copy0[k].slot \in ProducerHolds => pPc \in {"flush", "announce"}
       /\ copy0[k].slot \in ConsumerHolds => cPc = "sync"
  /\ \A k \in DOMAIN copy1 :
       copy1[k].slot \notin FreeSlots \union ReadySlots \union ProducerHolds
  /\ \A k \in DOMAIN default1 :
       default1[k].item.slot \notin FreeSlots \union ReadySlots \union ProducerHolds

\* "After a pass returns all n are simultaneously live": when the threads are
\* joined, the devices idle and nobody has raised, gpu_out holds every tensor.
PassDeliversAll ==
  Joined /\ err = << >> => \A t \in Tensors : out[t] = Payload[t]

\* No tensor is ever delivered with bytes that are not its own: a lost or short
\* write has to surface as an exception, never as data.
NeverWrong == \A t \in Tensors : out[t] \in {Nothing, Payload[t]}

\* The relay implements in-order, all-or-raise delivery, and gets to the end of
\* it: no failure of either thread leaves the other one waiting.
Promise == INSTANCE Delivery
             WITH MayRaise <- Failures \/ (ShortWrites /\ Transport = "FileSpool")

ImplementsDelivery == Promise!Spec

\* Whatever fails, the run ends: "the producer blocks on free.get(); without this
\* it hangs on a billing GPU until something kills it".
Terminates == <>(outcome # "running")
=============================================================================
