----------------------------- MODULE RelayProofs -----------------------------
(***************************************************************************)
(* Theorems about RelayPipeline, for every cache, ring depth, transport    *)
(* and pattern of failures.  In the first half, whatever the transport:    *)
(* types, the ownership of slots, and no reuse while device work is        *)
(* pending.  In the second, what the relay delivers: nothing wrong,        *)
(* nothing missing at the end of a pass that nobody raised in, and every   *)
(* step a step of Delivery or none.                                        *)
(*                                                                         *)
(* Both assumptions of the second half (SoundTransport) are needed: the    *)
(* runs relay_fill_race and relay_concat_short find wrong data without     *)
(* either of them.                                                         *)
(***************************************************************************)
EXTENDS RelayPipeline, SequenceTheorems, TLAPS

-----------------------------------------------------------------------------
(* Type correctness.                                                        *)

\* A sequence of one repeated element, as the sentinels of ConsumerRaises are.
LEMMA RepeatedIsSeq ==
  ASSUME NEW S, NEW e \in S, NEW n \in Nat
  PROVE  [k \in 1..n |-> e] \in Seq(S)
BY IsASeq

\* FreshQueue is a queue of slots, each of them once.
LEMMA FreshQueueType ==
  /\ FreshQueue \in Seq(Slots \union {Stop})
  /\ \A j, k \in DOMAIN FreshQueue : FreshQueue[j] = FreshQueue[k] => j = k
<1>1. \A k \in 1..Depth : k - 1 \in Slots \union {Stop}
  BY ConstantsAssumption DEF Slots
<1>2. FreshQueue \in Seq(Slots \union {Stop})
  BY <1>1, ConstantsAssumption, IsASeq DEF FreshQueue
<1> QED
  BY <1>2, ConstantsAssumption DEF FreshQueue

\* Before the first pass.
LEMMA InitTypeOK == Init => TypeOK
<1> SUFFICES ASSUME Init PROVE TypeOK
  OBVIOUS
<1>1. free \in Seq(Slots \union {Stop})
  BY FreshQueueType DEF Init
<1>2. /\ [tensor |-> 1, slot |-> Stop] \in [tensor : Tensors, slot : Slots \union {Stop}]
      /\ 1 \in 1..Passes
  BY ConstantsAssumption DEF Tensors
<1>3. Zeroed \in Contents(Payloads)
  BY DEF Zeroed, Contents
<1> QED
  BY <1>1, <1>2, <1>3 DEF Init, TypeOK, Empty, ClearedOut

\* The producer moves a slot, fills its buffers, or sends a sentinel.
LEMMA ProducerTypeOK == TypeOK /\ Producer => TypeOK'
<1> SUFFICES ASSUME TypeOK, Producer PROVE TypeOK'
  OBVIOUS
<1> USE ConstantsAssumption
<1>1. CASE PGet
  <2>1. Head(free) \in Slots \union {Stop} /\ free' \in Seq(Slots \union {Stop})
    BY <1>1, HeadTailProperties DEF TypeOK, PGet
  <2>2. /\ pItem' = [tensor |-> pItem.tensor, slot |-> Head(free)]
        /\ pItem.tensor \in Tensors
    BY <1>1 DEF TypeOK, PGet
  <2>3. pItem' \in [tensor : Tensors, slot : Slots \union {Stop}]
    BY <2>1, <2>2
  <2>4. pPc' # "done" => pItem' \in Items
    BY <1>1, <2>1, <2>2 DEF PGet, Items
  <2>5. pPc' \in {"encode", "ship", "done"}
    BY <1>1 DEF PGet
  <2> QED
    BY <1>1, <2>1, <2>3, <2>4, <2>5
       DEF TypeOK, PGet, consumerVars, streams, buffers, mainVars
<1>2. CASE PEncode
  BY <1>2 DEF TypeOK, PEncode, consumerVars, queues, streams, mainVars, Items
<1>3. CASE PShip
  BY <1>3 DEF TypeOK, PShip, consumerVars, queues, buffers, mainVars
<1>4. CASE PFlush
  <2> DEFINE t == pItem.tensor
             s == pItem.slot
             old == IF Transport = "FileSpool" THEN Zeroed ELSE file[s]
  <2>1. t \in Tensors /\ s \in Slots /\ Bytes[t] \in Nat \ {0}
    BY <1>4 DEF TypeOK, PFlush, Items
  <2>2. old \in Contents(Payloads) /\ host[s] \in Payloads \union {Nothing, Torn}
    BY <2>1 DEF TypeOK, Contents, Zeroed
  <2>3. CopiedInto(old, host[s], Bytes[t]) \in Contents(Payloads)
    BY <2>1, <2>2 DEF Contents, CopiedInto, Further
  <2>4. \A k \in 1..(Bytes[t] - 1) :
          /\ [of |-> host[s], extent |-> k] \in Contents(Payloads)
          /\ ShortWritten(old, host[s], k) \in Contents(Payloads)
    BY <2>1, <2>2 DEF Contents, ShortWritten, Further
  <2>5. \E c \in Contents(Payloads) : file' = [file EXCEPT ![s] = c]
    <3> HIDE DEF old
    <3>1. CASE file' = [file EXCEPT ![s] = CopiedInto(old, host[s], Bytes[t])]
      BY <3>1, <2>3
    <3>2. CASE \E k \in 1..(Bytes[t] - 1) :
                 file' = [file EXCEPT ![s] =
                   IF Transport = "FileSpool"
                   THEN [of |-> host[s], extent |-> k]
                   ELSE ShortWritten(old, host[s], k)]
      BY <3>2, <2>4
    <3> QED
      BY <1>4, <3>1, <3>2 DEF PFlush, old
  <2>6. file' \in [Slots -> Contents(Payloads)]
    BY <2>5 DEF TypeOK
  <2>7. pPc = "flush" /\ pPc' = "announce" /\ pItem' = pItem
    BY <1>4 DEF PFlush
  <2> QED
    BY <1>4, <2>6, <2>7
       DEF TypeOK, PFlush, consumerVars, queues, streams, mainVars
<1>5. CASE PAnnounce
  <2>1. pItem \in Items /\ ready' \in Seq(Items \union {NoItem})
    BY <1>5, AppendProperties DEF TypeOK, PAnnounce
  <2>2. /\ pPc' \in {"get", "finish"}
        /\ pItem' \in [tensor : Tensors, slot : Slots \union {Stop}]
    <3>1. CASE pItem.tensor < NTensors
      <4>1. pItem.tensor + 1 \in Tensors
        BY <2>1, <3>1 DEF Items, Tensors
      <4> QED
        BY <1>5, <3>1, <4>1 DEF PAnnounce
    <3>2. CASE ~(pItem.tensor < NTensors)
      BY <1>5, <3>2 DEF PAnnounce, TypeOK
    <3> QED
      BY <3>1, <3>2
  <2> QED
    BY <1>5, <2>1, <2>2 DEF TypeOK, PAnnounce, consumerVars, streams, buffers, mainVars
<1>6. CASE PFinish
  BY <1>6 DEF TypeOK, PFinish, consumerVars, streams, buffers, mainVars
<1>7. CASE PFail
  BY <1>7 DEF TypeOK, PFail, consumerVars, streams, buffers, mainVars
<1> QED
  BY <1>1, <1>2, <1>3, <1>4, <1>5, <1>6, <1>7 DEF Producer, ProducerStep

\* What the consumer issues is device operations on its item.
LEMMA IssueType ==
  ASSUME NEW item \in Items, NEW names \in {ReceiveOps, DeliverOps}
  PROVE  /\ Issue(names, item) \in Seq(DeviceOps)
         /\ \A k \in DOMAIN Issue(names, item) : Issue(names, item)[k].item = item
<1> DEFINE Names == {"zeroRecv", "zeroDst", "decode", "deliver"}
<1>1. names \in Seq(Names)
  <2>1. /\ <<"zeroRecv">> \in Seq(Names) /\ <<"deliver">> \in Seq(Names)
        /\ <<"zeroDst", "decode", "deliver">> \in Seq(Names)
    OBVIOUS
  <2>2. ReceiveOps \in Seq(Names)
    BY <2>1 DEF ReceiveOps
  <2>3. DeliverOps \in Seq(Names)
    BY <2>1 DEF DeliverOps
  <2> QED
    BY <2>2, <2>3
<1>2. /\ DOMAIN names = 1..Len(names) /\ Len(names) \in Nat
      /\ \A k \in DOMAIN names : names[k] \in Names
  BY <1>1
<1>3. \A k \in DOMAIN names : [op |-> names[k], item |-> item] \in DeviceOps
  BY <1>2 DEF DeviceOps
<1> QED
  BY <1>2, <1>3, IsASeq DEF Issue

\* The consumer moves a slot, reads its buffers, or dies with its sentinels.
LEMMA ConsumerTypeOK == TypeOK /\ Consumer => TypeOK'
<1> SUFFICES ASSUME TypeOK, Consumer PROVE TypeOK'
  OBVIOUS
<1> USE ConstantsAssumption
<1>1. CASE CGet
  BY <1>1 DEF TypeOK, CGet, IsNone, producerVars, streams, buffers, mainVars
<1>2. CASE CSync
  <2>1. default1' \in Seq(DeviceOps)
    BY <1>2, IssueType, ConcatProperties DEF TypeOK, CSync
  <2> QED
    BY <1>2, <2>1 DEF TypeOK, CSync, producerVars, queues, buffers, mainVars
<1>3. CASE CFetch
  <2>1. cItem \in Items /\ cItem.slot \in Slots
    BY <1>3 DEF TypeOK, CFetch, Items
  <2>2. copy1' \in Seq(Items)
    BY <1>3, <2>1, AppendProperties DEF TypeOK, CFetch
  <2>3. file[cItem.slot].of \in Payloads \union {Nothing, Torn}
    BY <2>1 DEF TypeOK, Contents
  <2>4. host' \in [Slots -> Payloads \union {Nothing, Torn}]
    BY <1>3, <2>3 DEF TypeOK, CFetch
  <2> QED
    BY <1>3, <2>1, <2>2, <2>4 DEF TypeOK, CFetch, producerVars, queues, mainVars
<1>4. CASE CLanded
  BY <1>4 DEF TypeOK, CLanded, producerVars, queues, streams, buffers, mainVars
<1>5. CASE CDecode
  <2>1. default1' \in Seq(DeviceOps)
    BY <1>5, IssueType, ConcatProperties DEF TypeOK, CDecode
  <2> QED
    BY <1>5, <2>1 DEF TypeOK, CDecode, producerVars, queues, buffers, mainVars
<1>6. CASE CAwait
  BY <1>6 DEF TypeOK, CAwait, producerVars, queues, streams, buffers, mainVars
<1>7. CASE CFree
  BY <1>7 DEF TypeOK, CFree, producerVars, streams, buffers, mainVars, Items
<1>8. CASE ConsumerRaises
  <2>1. Stops \in Seq(Slots \union {Stop})
    BY RepeatedIsSeq DEF Stops
  <2> QED
    BY <1>8, <2>1 DEF TypeOK, ConsumerRaises, producerVars, streams, buffers, mainVars
<1> QED
  BY <1>1, <1>2, <1>3, <1>4, <1>5, <1>6, <1>7, <1>8
     DEF Consumer, ConsumerStep, CShortRead, CFail

\* A stream runs its oldest operation.
LEMMA DeviceTypeOK == TypeOK /\ Device => TypeOK'
<1> SUFFICES ASSUME TypeOK, Device PROVE TypeOK'
  OBVIOUS
<1> USE ConstantsAssumption
<1>1. CASE RunCopy0
  <2>1. Head(copy0) \in Items /\ copy0' \in Seq(Items)
    BY <1>1, HeadTailProperties DEF TypeOK, RunCopy0
  <2>2. /\ Head(copy0).tensor \in Tensors
        /\ scr[Head(copy0).slot] \in Payloads \union {Nothing, Torn}
    BY <2>1 DEF TypeOK, Items
  <2>3. host' \in [Slots -> Payloads \union {Nothing, Torn}]
    BY <1>1, <2>2 DEF TypeOK, RunCopy0
  <2> QED
    BY <1>1, <2>1, <2>3
       DEF TypeOK, RunCopy0, producerVars, consumerVars, queues, mainVars
<1>2. CASE RunCopy1
  <2> DEFINE item == Head(copy1)
  <2>1. item \in Items /\ copy1' \in Seq(Items)
    BY <1>2, HeadTailProperties DEF TypeOK, RunCopy1
  <2>2. /\ Bytes[item.tensor] \in Nat
        /\ recv[item.slot] \in Contents(Payloads)
        /\ host[item.slot] \in Payloads \union {Nothing, Torn}
    BY <2>1 DEF TypeOK, Items
  <2>3. CopiedInto(recv[item.slot], host[item.slot], Bytes[item.tensor])
          \in Contents(Payloads)
    BY <2>2 DEF Contents, CopiedInto, Further
  <2>4. recv' \in [Slots -> Contents(Payloads)]
    BY <1>2, <2>3 DEF TypeOK, RunCopy1
  <2> QED
    BY <1>2, <2>1, <2>4
       DEF TypeOK, RunCopy1, producerVars, consumerVars, queues, mainVars
<1>3. CASE RunDefault1
  <2> DEFINE t == Head(default1).item.tensor
             s == Head(default1).item.slot
  <2>1. Head(default1) \in DeviceOps /\ default1' \in Seq(DeviceOps)
    BY <1>3, HeadTailProperties DEF TypeOK, RunDefault1
  <2>2. t \in Tensors /\ s \in Slots
    BY <2>1 DEF DeviceOps, Items
  <2> HIDE DEF t, s
  <2>3. ZeroRecv(s) \/ ZeroDst(s) \/ Decode(t, s) \/ Deliver(t, s)
    BY <1>3 DEF RunDefault1, t, s
  <2>4. /\ recv' \in [Slots -> Contents(Payloads)]
        /\ dst' \in [Slots -> Payloads \union {Nothing, Torn}]
        /\ out' \in [Tensors -> Payloads \union {Nothing, Torn}]
    <3>1. CASE ZeroRecv(s)
      BY <3>1 DEF TypeOK, ZeroRecv, Zeroed, Contents
    <3>2. CASE ZeroDst(s)
      BY <3>2 DEF TypeOK, ZeroDst
    <3>3. CASE Decode(t, s)
      BY <3>3, <2>2 DEF TypeOK, Decode, Decoded
    <3>4. CASE Deliver(t, s)
      BY <3>4, <2>2 DEF TypeOK, Deliver, Contents
    <3> QED
      BY <2>3, <3>1, <3>2, <3>3, <3>4
  <2> QED
    BY <1>3, <2>1, <2>4
       DEF TypeOK, RunDefault1, producerVars, consumerVars, queues, mainVars
<1> QED
  BY <1>1, <1>2, <1>3 DEF Device

\* The main thread raises, begins the next pass with fresh queues, or returns.
LEMMA MainTypeOK == TypeOK /\ Main => TypeOK'
<1> SUFFICES ASSUME TypeOK, Main PROVE TypeOK'
  OBVIOUS
<1> USE ConstantsAssumption
<1>1. CASE MRaise
  BY <1>1 DEF TypeOK, MRaise, producerVars, consumerVars, queues, streams, buffers
<1>2. CASE MNextPass
  BY <1>2, FreshQueueType DEF TypeOK, MNextPass, ClearedOut, streams, Tensors
<1>3. CASE MReturn
  BY <1>3 DEF TypeOK, MReturn, producerVars, consumerVars, queues, streams, buffers
<1> QED
  BY <1>1, <1>2, <1>3 DEF Main

\* Nothing moves.
LEMMA StutterTypeOK == TypeOK /\ UNCHANGED vars => TypeOK'
BY DEF TypeOK, vars, producerVars, consumerVars, queues, streams, buffers, mainVars

\* Every reachable state of the relay is well typed: no queue carries anything
\* but slots and sentinels, no buffer anything but tensors' bytes.
THEOREM TypeCorrect == Spec => []TypeOK
<1>1. TypeOK /\ [Next]_vars => TypeOK'
  BY ProducerTypeOK, ConsumerTypeOK, DeviceTypeOK, MainTypeOK, StutterTypeOK
     DEF Next, Ended
<1> QED
  BY InitTypeOK, <1>1, PTL DEF Spec

-----------------------------------------------------------------------------
(* Slots have one holder.                                                   *)

SlotsInv == TypeOK /\ SlotExclusive

\* What Head and Tail do to a nonempty sequence, element by element.
LEMMA HeadTailElements ==
  ASSUME NEW S, NEW q \in Seq(S), q # << >>
  PROVE  /\ 1 \in DOMAIN q /\ Head(q) = q[1] /\ Head(q) \in S
         /\ DOMAIN Tail(q) = 1..(Len(q) - 1)
         /\ \A k \in DOMAIN Tail(q) : k + 1 \in DOMAIN q /\ Tail(q)[k] = q[k + 1]
BY HeadTailProperties

\* What Append does, element by element.
LEMMA AppendElements ==
  ASSUME NEW S, NEW q \in Seq(S), NEW e \in S
  PROVE  /\ DOMAIN Append(q, e) = 1..(Len(q) + 1)
         /\ DOMAIN q = 1..Len(q)
         /\ \A k \in DOMAIN Append(q, e) :
              Append(q, e)[k] = IF k \in DOMAIN q THEN q[k] ELSE e
BY AppendProperties

\* Slots and the two sentinels are told apart.
LEMMA SentinelsDiffer ==
  /\ Stop \notin Slots
  /\ NoItem \notin Items
  /\ \A i \in Items : i.slot \in Slots /\ i.slot # Stop /\ i # NoItem
  /\ NoItem.slot = Stop
BY ConstantsAssumption DEF Stop, Slots, NoItem, Items

\* The free queue is filled with each slot once.
LEMMA InitExclusive == Init => SlotExclusive
<1> SUFFICES ASSUME Init PROVE SlotExclusive
  OBVIOUS
<1> QED
  BY FreshQueueType DEF Init, SlotExclusive, FreeSlots, ReadySlots, ProducerHolds,
     ConsumerHolds

\* A slot leaves the free queue for the producer's hands.
LEMMA PGetExclusive == SlotsInv /\ PGet => SlotExclusive'
<1> SUFFICES ASSUME SlotsInv, PGet PROVE SlotExclusive'
  OBVIOUS
<1>1. /\ free \in Seq(Slots \union {Stop}) /\ free # << >> /\ free' = Tail(free)
      /\ ready' = ready /\ cPc' = cPc /\ cItem' = cItem
      /\ pPc = "get" /\ pItem'.slot = Head(free)
      /\ Head(free) = Stop => pPc' = "done"
  BY DEF SlotsInv, TypeOK, PGet, consumerVars
<1>2. /\ 1 \in DOMAIN free /\ Head(free) = free[1]
      /\ \A k \in DOMAIN free' : k + 1 \in DOMAIN free /\ free'[k] = free[k + 1]
      /\ DOMAIN free' \subseteq Nat \ {0}
  BY <1>1, HeadTailElements
<1>3. /\ \A j, k \in DOMAIN free' : free'[j] = free'[k] /\ free'[j] # Stop => j = k
      /\ FreeSlots' \subseteq FreeSlots \ {Head(free)}
      /\ Head(free) # Stop => Head(free) \in FreeSlots
  BY <1>2 DEF SlotsInv, SlotExclusive, FreeSlots
<1>4. /\ ReadySlots' = ReadySlots /\ ConsumerHolds' = ConsumerHolds
      /\ ProducerHolds' \subseteq {Head(free)} \ {Stop}
  BY <1>1 DEF ReadySlots, ConsumerHolds, ProducerHolds
<1> QED
  BY <1>1, <1>3, <1>4 DEF SlotsInv, SlotExclusive

\* An announced slot leaves the producer's hands for the ready queue; the
\* producer's None adds no slot to it.
LEMMA PAnnounceExclusive ==
  SlotsInv /\ (PAnnounce \/ PFinish \/ PFail) => SlotExclusive'
<1> SUFFICES ASSUME SlotsInv, PAnnounce \/ PFinish \/ PFail PROVE SlotExclusive'
  OBVIOUS
<1>1. PICK e \in Items \union {NoItem} :
        /\ ready' = Append(ready, e)
        /\ e \in Items => pPc = "announce" /\ e = pItem
  <2>1. CASE PAnnounce
    BY <2>1 DEF SlotsInv, TypeOK, PAnnounce
  <2>2. CASE PFinish \/ PFail
    BY <2>2, SentinelsDiffer DEF PFinish, PFail
  <2> QED
    BY <2>1, <2>2
<1>2. /\ free' = free /\ cPc' = cPc /\ cItem' = cItem
      /\ ready \in Seq(Items \union {NoItem})
      /\ pPc' \in {"get", "finish", "done"}
  BY DEF SlotsInv, TypeOK, PAnnounce, PFinish, PFail, consumerVars
<1>3. /\ DOMAIN ready = 1..Len(ready) /\ DOMAIN ready' = 1..(Len(ready) + 1)
      /\ Len(ready) \in Nat
      /\ \A k \in DOMAIN ready' : ready'[k] = IF k \in DOMAIN ready THEN ready[k] ELSE e
      /\ \A k \in DOMAIN ready : ready[k] \in Items \union {NoItem}
  BY <1>1, <1>2, AppendElements
<1>4. /\ FreeSlots' = FreeSlots /\ ConsumerHolds' = ConsumerHolds
      /\ ProducerHolds' = {}
  BY <1>2 DEF FreeSlots, ConsumerHolds, ProducerHolds
<1>5. ReadySlots' = ReadySlots \union ({e.slot} \ {Stop})
  <2>1. {ready'[k].slot : k \in DOMAIN ready'}
          = {ready[k].slot : k \in DOMAIN ready} \union {e.slot}
    BY <1>3
  <2> QED
    BY <2>1 DEF ReadySlots
<1>6. e \in Items => e.slot \in ProducerHolds
  BY <1>1 DEF ProducerHolds
<1>7. e.slot \notin ReadySlots
  BY <1>6, SentinelsDiffer DEF SlotsInv, SlotExclusive, ReadySlots
<1>8. \A j, k \in DOMAIN ready' :
        ready'[j].slot = ready'[k].slot /\ ready'[j] # NoItem => j = k
  <2> SUFFICES ASSUME NEW j \in DOMAIN ready', NEW k \in DOMAIN ready',
                      ready'[j].slot = ready'[k].slot, ready'[j] # NoItem
               PROVE  j = k
    OBVIOUS
  <2>1. CASE j \in DOMAIN ready /\ k \in DOMAIN ready
    BY <2>1, <1>3 DEF SlotsInv, SlotExclusive
  <2>2. CASE j \in DOMAIN ready /\ k \notin DOMAIN ready
    <3>1. ready[j].slot = e.slot /\ ready[j] \in Items
      BY <2>2, <1>3
    <3> QED
      BY <3>1, <2>2, <1>7, SentinelsDiffer DEF ReadySlots
  <2>3. CASE j \notin DOMAIN ready /\ k \in DOMAIN ready
    <3>1. ready[k].slot = e.slot /\ e \in Items
      BY <2>3, <1>3
    <3> QED
      BY <3>1, <2>3, <1>7, SentinelsDiffer DEF ReadySlots
  <2>4. CASE j \notin DOMAIN ready /\ k \notin DOMAIN ready
    BY <2>4, <1>3
  <2> QED
    BY <2>1, <2>2, <2>3, <2>4
<1>9. (ReadySlots' \ ReadySlots) \subseteq ProducerHolds
  BY <1>5, <1>6, SentinelsDiffer
<1> QED
  BY <1>4, <1>8, <1>9, <1>2 DEF SlotsInv, SlotExclusive

\* A slot leaves the ready queue for the consumer's hands.
LEMMA CGetExclusive == SlotsInv /\ CGet => SlotExclusive'
<1> SUFFICES ASSUME SlotsInv, CGet PROVE SlotExclusive'
  OBVIOUS
<1>1. /\ ready \in Seq(Items \union {NoItem}) /\ ready # << >> /\ ready' = Tail(ready)
      /\ free' = free /\ pPc' = pPc /\ pItem' = pItem
      /\ cPc = "get" /\ cItem' = Head(ready)
      /\ Head(ready) = NoItem => cPc' = "done"
  BY DEF SlotsInv, TypeOK, CGet, IsNone, producerVars
<1>2. /\ 1 \in DOMAIN ready /\ Head(ready) = ready[1]
      /\ Head(ready) \in Items \union {NoItem}
      /\ \A k \in DOMAIN ready' : k + 1 \in DOMAIN ready /\ ready'[k] = ready[k + 1]
      /\ DOMAIN ready' \subseteq Nat \ {0}
  BY <1>1, HeadTailElements
<1>3. \A j, k \in DOMAIN ready' :
        ready'[j].slot = ready'[k].slot /\ ready'[j] # NoItem => j = k
  BY <1>2 DEF SlotsInv, SlotExclusive
<1>4. ReadySlots' \subseteq ReadySlots
  BY <1>2 DEF ReadySlots
<1>5. Head(ready) # NoItem =>
        Head(ready).slot \in ReadySlots /\ Head(ready).slot \notin ReadySlots'
  <2> SUFFICES ASSUME Head(ready) # NoItem
               PROVE  Head(ready).slot \in ReadySlots /\ Head(ready).slot \notin ReadySlots'
    OBVIOUS
  <2>1. Head(ready).slot \in ReadySlots
    BY <1>2, SentinelsDiffer DEF ReadySlots
  <2>2. \A k \in DOMAIN ready' : ready'[k].slot # Head(ready).slot
    BY <1>2 DEF SlotsInv, SlotExclusive
  <2> QED
    BY <2>1, <2>2 DEF ReadySlots
<1>6. FreeSlots' = FreeSlots /\ ProducerHolds' = ProducerHolds
  BY <1>1 DEF FreeSlots, ProducerHolds
<1>7. ConsumerHolds' \subseteq ReadySlots \ ReadySlots'
  BY <1>1, <1>5 DEF ConsumerHolds
<1> QED
  BY <1>1, <1>3, <1>4, <1>6, <1>7 DEF SlotsInv, SlotExclusive

\* A slot leaves the consumer's hands for the free queue.
LEMMA CFreeExclusive == SlotsInv /\ CFree => SlotExclusive'
<1> SUFFICES ASSUME SlotsInv, CFree PROVE SlotExclusive'
  OBVIOUS
<1>1. /\ free \in Seq(Slots \union {Stop}) /\ free' = Append(free, cItem.slot)
      /\ ready' = ready /\ pPc' = pPc /\ pItem' = pItem
      /\ cPc = "free" /\ cPc' = "get" /\ cItem.slot \in Slots
  BY SentinelsDiffer DEF SlotsInv, TypeOK, CFree, producerVars
<1>2. /\ DOMAIN free = 1..Len(free) /\ DOMAIN free' = 1..(Len(free) + 1)
      /\ Len(free) \in Nat
      /\ \A k \in DOMAIN free' :
           free'[k] = IF k \in DOMAIN free THEN free[k] ELSE cItem.slot
  BY <1>1, AppendElements
<1>3. cItem.slot \in ConsumerHolds /\ cItem.slot # Stop
  BY <1>1, SentinelsDiffer DEF ConsumerHolds
<1>4. \A k \in DOMAIN free : free[k] # cItem.slot
  BY <1>3 DEF SlotsInv, SlotExclusive, FreeSlots
<1>5. \A j, k \in DOMAIN free' : free'[j] = free'[k] /\ free'[j] # Stop => j = k
  BY <1>2, <1>4 DEF SlotsInv, SlotExclusive
<1>6. FreeSlots' \subseteq FreeSlots \union ConsumerHolds
  BY <1>2, <1>3 DEF FreeSlots
<1>7. /\ ReadySlots' = ReadySlots /\ ProducerHolds' = ProducerHolds
      /\ ConsumerHolds' = {}
  BY <1>1 DEF ReadySlots, ProducerHolds, ConsumerHolds
<1> QED
  BY <1>1, <1>5, <1>6, <1>7 DEF SlotsInv, SlotExclusive

\* A consumer that dies drops its slot and adds only sentinels.
LEMMA RaisesExclusive == SlotsInv /\ ConsumerRaises => SlotExclusive'
<1> SUFFICES ASSUME SlotsInv, ConsumerRaises PROVE SlotExclusive'
  OBVIOUS
<1>1. /\ free \in Seq(Slots \union {Stop}) /\ free' = free \o Stops
      /\ ready' = ready /\ pPc' = pPc /\ pItem' = pItem /\ cPc' = "done"
  BY DEF SlotsInv, TypeOK, ConsumerRaises, producerVars
<1>2. Stops \in Seq({Stop}) /\ \A k \in 1..Len(Stops) : Stops[k] = Stop
  BY ConstantsAssumption, RepeatedIsSeq DEF Stops
<1>3. /\ DOMAIN free = 1..Len(free) /\ Len(free) \in Nat /\ Len(Stops) \in Nat
      /\ DOMAIN free' = 1..(Len(free) + Len(Stops))
      /\ \A k \in DOMAIN free' : free'[k] = IF k \in DOMAIN free THEN free[k] ELSE Stop
  BY <1>1, <1>2, ConcatProperties
<1>4. \A j, k \in DOMAIN free' : free'[j] = free'[k] /\ free'[j] # Stop => j = k
  BY <1>3 DEF SlotsInv, SlotExclusive
<1>5. FreeSlots' \subseteq FreeSlots
  BY <1>3 DEF FreeSlots
<1>6. /\ ReadySlots' = ReadySlots /\ ProducerHolds' = ProducerHolds
      /\ ConsumerHolds' = {}
  BY <1>1 DEF ReadySlots, ProducerHolds, ConsumerHolds
<1> QED
  BY <1>1, <1>4, <1>5, <1>6 DEF SlotsInv, SlotExclusive

\* The other steps of the threads keep their slots; a device step touches none.
LEMMA OthersExclusive ==
  /\ SlotsInv /\ (PEncode \/ PShip \/ PFlush) => SlotExclusive'
  /\ SlotsInv /\ (CSync \/ CFetch \/ CLanded \/ CDecode \/ CAwait) => SlotExclusive'
  /\ SlotsInv /\ (Device \/ MRaise \/ MReturn \/ UNCHANGED vars) => SlotExclusive'
<1>1. ASSUME SlotsInv, PEncode \/ PShip \/ PFlush PROVE SlotExclusive'
  <2>1. /\ free' = free /\ ready' = ready /\ cPc' = cPc /\ cItem' = cItem
        /\ ProducerHolds' = ProducerHolds
    BY <1>1 DEF PEncode, PShip, PFlush, queues, consumerVars, ProducerHolds
  <2> QED
    BY <1>1, <2>1 DEF SlotsInv, SlotExclusive, FreeSlots, ReadySlots, ConsumerHolds
<1>2. ASSUME SlotsInv, CSync \/ CFetch \/ CLanded \/ CDecode \/ CAwait PROVE SlotExclusive'
  <2>1. /\ free' = free /\ ready' = ready /\ pPc' = pPc /\ pItem' = pItem
        /\ ConsumerHolds' = ConsumerHolds
    BY <1>2 DEF CSync, CFetch, CLanded, CDecode, CAwait, queues, producerVars, ConsumerHolds
  <2> QED
    BY <1>2, <2>1 DEF SlotsInv, SlotExclusive, FreeSlots, ReadySlots, ProducerHolds
<1>3. ASSUME SlotsInv, Device \/ MRaise \/ MReturn \/ UNCHANGED vars PROVE SlotExclusive'
  <2>1. UNCHANGED <<producerVars, consumerVars, queues>>
    BY <1>3 DEF Device, RunCopy0, RunCopy1, RunDefault1, MRaise, MReturn, vars
  <2> QED
    BY <1>3, <2>1 DEF producerVars, consumerVars, queues, SlotsInv, SlotExclusive,
       FreeSlots, ReadySlots, ProducerHolds, ConsumerHolds
<1> QED
  BY <1>1, <1>2, <1>3

\* Each pass makes its queues anew.
LEMMA NextPassExclusive == MNextPass => SlotExclusive'
<1> SUFFICES ASSUME MNextPass PROVE SlotExclusive'
  OBVIOUS
<1>1. /\ free' = FreshQueue /\ ready' = << >> /\ pPc' = "get" /\ cPc' = "get"
  BY DEF MNextPass
<1> QED
  BY <1>1, FreshQueueType DEF SlotExclusive, FreeSlots, ReadySlots, ProducerHolds,
     ConsumerHolds

\* Every step keeps each slot in one place.
LEMMA SlotsInvInductive ==
  /\ Init => SlotsInv
  /\ SlotsInv /\ [Next]_vars => SlotsInv'
<1>1. Init => SlotsInv
  BY InitTypeOK, InitExclusive DEF SlotsInv
<1>2. SlotsInv /\ [Next]_vars => TypeOK'
  BY ProducerTypeOK, ConsumerTypeOK, DeviceTypeOK, MainTypeOK, StutterTypeOK
     DEF SlotsInv, Next, Ended
<1>3. SlotsInv /\ Producer => SlotExclusive'
  BY PGetExclusive, PAnnounceExclusive, OthersExclusive DEF Producer, ProducerStep
<1>4. SlotsInv /\ Consumer => SlotExclusive'
  BY CGetExclusive, CFreeExclusive, RaisesExclusive, OthersExclusive
     DEF Consumer, ConsumerStep, CShortRead, CFail
<1>5. SlotsInv /\ Main => SlotExclusive'
  BY OthersExclusive, NextPassExclusive DEF Main
<1>6. SlotsInv /\ [Next]_vars => SlotExclusive'
  BY <1>3, <1>4, <1>5, OthersExclusive DEF Next, Ended
<1> QED
  BY <1>1, <1>2, <1>6 DEF SlotsInv

\* In every run a slot has at most one holder: it is in one queue, once, or in
\* one thread's hands, whatever raises and whenever.
THEOREM SlotsAreExclusive == Spec => []SlotExclusive
<1>1. SlotsInv => SlotExclusive
  BY DEF SlotsInv
<1> QED
  BY SlotsInvInductive, <1>1, PTL DEF Spec

-----------------------------------------------------------------------------
(* Nothing is reused while a stage still holds it.  NothingReusedWhileHeld  *)
(* is not inductive: that the consumer may free a slot also rests on what   *)
(* its three waits have drained, and that an awaited event is the event of  *)
(* the slot's only pending copy.                                            *)

\* A slot's pending copy is the one its current holder was given.
CopiesCurrent ==
  \A k \in DOMAIN copy0 :
    /\ copy0[k].slot \in ProducerHolds => copy0[k] = pItem
    /\ \A j \in DOMAIN ready : ready[j].slot = copy0[k].slot => ready[j] = copy0[k]
    /\ copy0[k].slot \in ConsumerHolds => copy0[k] = cItem

\* What the consumer has waited for.
StreamsDrained ==
  /\ cPc \notin {"landed", "done"} => copy1 = << >>
  /\ cPc \in {"get", "sync", "free"} => default1 = << >>

HeldInv ==
  SlotsInv /\ CopiesCurrent /\ StreamsDrained /\ NothingReusedWhileHeld

\* Nothing is pending at first.
LEMMA InitHeld == Init => HeldInv
<1> SUFFICES ASSUME Init PROVE HeldInv
  OBVIOUS
<1>1. copy0 = << >> /\ copy1 = << >> /\ default1 = << >>
  BY DEF Init
<1> QED
  BY <1>1, SlotsInvInductive
     DEF HeldInv, CopiesCurrent, StreamsDrained, NothingReusedWhileHeld

\* The producer's steps before and after it issues a copy.
LEMMA ProducerHeld == HeldInv /\ Producer => (CopiesCurrent /\ StreamsDrained /\ NothingReusedWhileHeld)'
<1> SUFFICES ASSUME HeldInv, Producer
             PROVE  (CopiesCurrent /\ StreamsDrained /\ NothingReusedWhileHeld)'
  OBVIOUS
<1>1. UNCHANGED <<cPc, cItem, copy1, default1>>
  BY DEF Producer, ProducerStep, PGet, PEncode, PShip, PFlush, PAnnounce, PFinish,
     PFail, consumerVars, streams
<1>2. StreamsDrained' /\ ConsumerHolds' = ConsumerHolds
  BY <1>1 DEF HeldInv, StreamsDrained, ConsumerHolds
<1>3. CASE PGet
  <2>1. /\ ready' = ready /\ copy0' = copy0
        /\ FreeSlots' \subseteq FreeSlots
        /\ ProducerHolds' \subseteq FreeSlots
    <3>1. /\ free \in Seq(Slots \union {Stop}) /\ free # << >> /\ free' = Tail(free)
          /\ pItem'.slot = Head(free) /\ (Head(free) = Stop => pPc' = "done")
      BY <1>3 DEF PGet, HeldInv, SlotsInv, TypeOK
    <3>2. /\ 1 \in DOMAIN free /\ Head(free) = free[1]
          /\ \A k \in DOMAIN free' : k + 1 \in DOMAIN free /\ free'[k] = free[k + 1]
      BY <3>1, HeadTailElements
    <3> QED
      BY <1>3, <3>1, <3>2 DEF PGet, streams, FreeSlots, ProducerHolds
  <2>2. ReadySlots' = ReadySlots
    BY <2>1 DEF ReadySlots
  <2>3. CopiesCurrent'
    BY <1>1, <1>2, <2>1 DEF HeldInv, CopiesCurrent, NothingReusedWhileHeld
  <2> QED
    BY <1>1, <1>2, <2>1, <2>2, <2>3 DEF HeldInv, NothingReusedWhileHeld
<1>4. CASE PShip
  <2>1. /\ copy0 \in Seq(Items) /\ pItem \in Items /\ copy0' = Append(copy0, pItem)
        /\ free' = free /\ ready' = ready /\ pItem' = pItem
        /\ pPc = "ship" /\ pPc' \in {"flush", "announce"}
    BY <1>4 DEF PShip, queues, HeldInv, SlotsInv, TypeOK
  <2>2. \A k \in DOMAIN copy0' : (k \in DOMAIN copy0 /\ copy0'[k] = copy0[k])
                                 \/ copy0'[k] = pItem
    BY <2>1, AppendElements
  <2>3. /\ ProducerHolds' = ProducerHolds /\ ProducerHolds = {pItem.slot}
        /\ FreeSlots' = FreeSlots /\ ReadySlots' = ReadySlots
    BY <2>1 DEF ProducerHolds, FreeSlots, ReadySlots
  <2>4. /\ pItem.slot \notin FreeSlots /\ pItem.slot \notin ConsumerHolds
        /\ \A j \in DOMAIN ready : ready[j].slot # pItem.slot
    BY <2>1, <2>3, SentinelsDiffer DEF HeldInv, SlotsInv, SlotExclusive, ReadySlots
  <2>5. CopiesCurrent'
    BY <1>1, <1>2, <2>1, <2>2, <2>3, <2>4 DEF HeldInv, CopiesCurrent
  <2> QED
    BY <1>1, <1>2, <2>1, <2>2, <2>3, <2>4, <2>5 DEF HeldInv, NothingReusedWhileHeld
<1>5. CASE PEncode \/ PFlush
  <2>1. /\ free' = free /\ ready' = ready /\ copy0' = copy0 /\ pItem' = pItem
        /\ ProducerHolds' = ProducerHolds
        /\ pPc \in {"flush", "announce"} => pPc' \in {"flush", "announce"}
    BY <1>5 DEF PEncode, PFlush, queues, streams, ProducerHolds
  <2> QED
    BY <1>1, <1>2, <2>1 DEF HeldInv, CopiesCurrent, NothingReusedWhileHeld, FreeSlots,
       ReadySlots
<1>6. CASE PAnnounce
  <2>1. /\ ready \in Seq(Items \union {NoItem}) /\ pItem \in Items
        /\ ready' = Append(ready, pItem)
        /\ free' = free /\ copy0' = copy0 /\ pPc = "announce" /\ pPc' \in {"get", "finish"}
    BY <1>6 DEF PAnnounce, streams, HeldInv, SlotsInv, TypeOK
  <2>2. \A k \in DOMAIN ready' : (k \in DOMAIN ready /\ ready'[k] = ready[k])
                                 \/ ready'[k] = pItem
    BY <2>1, AppendElements
  <2>3. /\ ProducerHolds = {pItem.slot} /\ ProducerHolds' = {}
        /\ FreeSlots' = FreeSlots /\ ReadySlots' \subseteq ReadySlots \union ProducerHolds
    BY <2>1, <2>2 DEF ProducerHolds, FreeSlots, ReadySlots
  <2>4. CopiesCurrent'
    BY <1>1, <1>2, <2>1, <2>2, <2>3 DEF HeldInv, CopiesCurrent
  <2> QED
    BY <1>1, <1>2, <2>1, <2>3, <2>4 DEF HeldInv, NothingReusedWhileHeld
<1>7. CASE PFinish \/ PFail
  <2>1. /\ ready \in Seq(Items \union {NoItem}) /\ ready' = Append(ready, NoItem)
        /\ free' = free /\ copy0' = copy0 /\ pPc' = "done"
    BY <1>7 DEF PFinish, PFail, streams, HeldInv, SlotsInv, TypeOK
  <2>2. \A k \in DOMAIN ready' : (k \in DOMAIN ready /\ ready'[k] = ready[k])
                                 \/ ready'[k] = NoItem
    BY <2>1, AppendElements
  <2>3. /\ ProducerHolds' = {} /\ FreeSlots' = FreeSlots
        /\ ReadySlots' \subseteq ReadySlots
    BY <2>1, <2>2, SentinelsDiffer DEF ProducerHolds, FreeSlots, ReadySlots
  <2>4. \A k \in DOMAIN copy0 : copy0[k].slot # Stop
    BY SentinelsDiffer DEF HeldInv, SlotsInv, TypeOK
  <2>5. CopiesCurrent'
    BY <1>1, <1>2, <2>1, <2>2, <2>3, <2>4, SentinelsDiffer DEF HeldInv, CopiesCurrent
  <2> QED
    BY <1>1, <1>2, <2>1, <2>3, <2>5 DEF HeldInv, NothingReusedWhileHeld
<1> QED
  BY <1>3, <1>4, <1>5, <1>6, <1>7 DEF Producer, ProducerStep

\* The consumer's steps; its three waits are what CFree rests on.
LEMMA ConsumerHeld == HeldInv /\ Consumer => (CopiesCurrent /\ StreamsDrained /\ NothingReusedWhileHeld)'
<1> SUFFICES ASSUME HeldInv, Consumer
             PROVE  (CopiesCurrent /\ StreamsDrained /\ NothingReusedWhileHeld)'
  OBVIOUS
<1>1. UNCHANGED <<pPc, pItem, copy0>>
  BY DEF Consumer, ConsumerStep, CGet, CSync, CFetch, CLanded, CDecode, CAwait, CFree,
     CShortRead, CFail, ConsumerRaises, producerVars, streams
<1>2. ProducerHolds' = ProducerHolds
  BY <1>1 DEF ProducerHolds
<1>3. CASE CGet
  <2>1. /\ ready \in Seq(Items \union {NoItem}) /\ ready # << >> /\ ready' = Tail(ready)
        /\ free' = free /\ copy1' = copy1 /\ default1' = default1
        /\ cPc = "get" /\ cItem' = Head(ready)
        /\ cPc' = IF Head(ready) = NoItem THEN "done" ELSE "sync"
    BY <1>3 DEF CGet, IsNone, streams, HeldInv, SlotsInv, TypeOK
  <2>2. /\ 1 \in DOMAIN ready /\ Head(ready) = ready[1]
        /\ \A k \in DOMAIN ready' : k + 1 \in DOMAIN ready /\ ready'[k] = ready[k + 1]
    BY <2>1, HeadTailElements
  <2>3. FreeSlots' = FreeSlots /\ ReadySlots' \subseteq ReadySlots
    BY <2>1, <2>2 DEF FreeSlots, ReadySlots
  <2>4. StreamsDrained' /\ copy1 = << >> /\ default1 = << >>
    BY <2>1 DEF HeldInv, StreamsDrained
  <2>5. ConsumerHolds' \subseteq {cItem'.slot} /\ (ConsumerHolds' # {} => cPc' = "sync")
    BY <2>1 DEF ConsumerHolds
  <2>6. CopiesCurrent'
    BY <1>1, <1>2, <2>1, <2>2, <2>5 DEF HeldInv, CopiesCurrent
  <2> QED
    BY <1>1, <1>2, <2>1, <2>3, <2>4, <2>5, <2>6 DEF HeldInv, NothingReusedWhileHeld
<1>4. CASE CSync \/ CFetch \/ CLanded \/ CDecode \/ CAwait
  <2>1. /\ free' = free /\ ready' = ready /\ cItem' = cItem /\ cItem \in Items
        /\ ConsumerHolds' = ConsumerHolds /\ ConsumerHolds = {cItem.slot}
    BY <1>4 DEF CSync, CFetch, CLanded, CDecode, CAwait, queues, HeldInv, SlotsInv,
       TypeOK, ConsumerHolds
  <2>2. FreeSlots' = FreeSlots /\ ReadySlots' = ReadySlots
    BY <2>1 DEF FreeSlots, ReadySlots
  <2>3. CopiesCurrent'
    BY <1>1, <1>2, <2>1 DEF HeldInv, CopiesCurrent
  <2>4. cItem.slot \notin FreeSlots \union ReadySlots \union ProducerHolds
    BY <2>1 DEF HeldInv, SlotsInv, SlotExclusive
  <2>5. \A k \in DOMAIN copy0 : copy0[k].slot # cItem.slot \/ cPc' = "sync"
    <3>1. CASE CSync
      BY <3>1, <2>1 DEF CSync, EventComplete, HeldInv, CopiesCurrent
    <3>2. CASE ~CSync
      BY <3>2, <1>4, <2>1 DEF CFetch, CLanded, CDecode, CAwait, HeldInv,
         NothingReusedWhileHeld
    <3> QED
      BY <3>1, <3>2
  <2>6. /\ \A k \in DOMAIN copy1' : (k \in DOMAIN copy1 /\ copy1'[k] = copy1[k])
                                    \/ copy1'[k] = cItem
        /\ cPc' \notin {"landed", "done"} => copy1' = << >>
    <3>1. CASE CFetch
      <4>1. copy1 \in Seq(Items) /\ copy1' = Append(copy1, cItem) /\ cPc' = "landed"
        BY <3>1 DEF CFetch, HeldInv, SlotsInv, TypeOK
      <4> QED
        BY <4>1, <2>1, AppendElements
    <3>2. CASE ~CFetch
      BY <3>2, <1>4 DEF CSync, CLanded, CDecode, CAwait, PayloadLanded, streams, HeldInv,
         StreamsDrained
    <3> QED
      BY <3>1, <3>2
  <2>7. /\ \A k \in DOMAIN default1' : (k \in DOMAIN default1 /\ default1'[k] = default1[k])
                                       \/ default1'[k].item = cItem
        /\ cPc' \in {"get", "sync", "free"} => default1' = << >>
    <3>1. ASSUME NEW names \in {ReceiveOps, DeliverOps},
                 default1' = default1 \o Issue(names, cItem)
          PROVE  \A k \in DOMAIN default1' :
                   \/ (k \in DOMAIN default1 /\ default1'[k] = default1[k])
                   \/ default1'[k].item = cItem
      <4>1. /\ Issue(names, cItem) \in Seq(DeviceOps) /\ default1 \in Seq(DeviceOps)
            /\ \A k \in DOMAIN Issue(names, cItem) : Issue(names, cItem)[k].item = cItem
        BY <2>1, IssueType DEF HeldInv, SlotsInv, TypeOK
      <4> QED
        BY <4>1, <3>1, ConcatProperties
    <3>3. CASE CSync
      BY <3>3, <3>1 DEF CSync
    <3>4. CASE CDecode
      BY <3>4, <3>1 DEF CDecode
    <3>5. CASE CFetch \/ CLanded \/ CAwait
      BY <3>5 DEF CFetch, CLanded, CAwait, DeliveryDone, streams
    <3> QED
      BY <1>4, <3>3, <3>4, <3>5
  <2>8. StreamsDrained'
    BY <2>6, <2>7 DEF StreamsDrained
  <2> QED
    BY <1>1, <1>2, <2>1, <2>2, <2>3, <2>4, <2>5, <2>6, <2>7, <2>8
       DEF HeldInv, NothingReusedWhileHeld
<1>5. CASE CFree
  <2>1. /\ free \in Seq(Slots \union {Stop}) /\ cItem.slot \in Slots
        /\ free' = Append(free, cItem.slot)
        /\ ready' = ready /\ copy1' = copy1 /\ default1' = default1
        /\ cPc = "free" /\ cPc' = "get"
    BY <1>5, SentinelsDiffer DEF CFree, streams, HeldInv, SlotsInv, TypeOK
  <2>2. \A k \in DOMAIN free' : (k \in DOMAIN free /\ free'[k] = free[k])
                                \/ free'[k] = cItem.slot
    BY <2>1, AppendElements
  <2>3. /\ FreeSlots' \subseteq FreeSlots \union {cItem.slot}
        /\ ReadySlots' = ReadySlots
        /\ ConsumerHolds = {cItem.slot} /\ ConsumerHolds' = {}
    BY <2>1, <2>2 DEF FreeSlots, ReadySlots, ConsumerHolds
  <2>4. copy1 = << >> /\ default1 = << >> /\ StreamsDrained'
    BY <2>1 DEF HeldInv, StreamsDrained
  <2>5. CopiesCurrent'
    BY <1>1, <1>2, <2>1, <2>3 DEF HeldInv, CopiesCurrent
  <2> QED
    BY <1>1, <1>2, <2>1, <2>3, <2>4, <2>5 DEF HeldInv, NothingReusedWhileHeld
<1>6. CASE ConsumerRaises
  <2>1. /\ free \in Seq(Slots \union {Stop}) /\ free' = free \o Stops
        /\ ready' = ready /\ copy1' = copy1 /\ default1' = default1 /\ cPc' = "done"
    BY <1>6 DEF ConsumerRaises, streams, HeldInv, SlotsInv, TypeOK
  <2>2. Stops \in Seq({Stop}) /\ \A k \in 1..Len(Stops) : Stops[k] = Stop
    BY ConstantsAssumption, RepeatedIsSeq DEF Stops
  <2>3. \A k \in DOMAIN free' : (k \in DOMAIN free /\ free'[k] = free[k]) \/ free'[k] = Stop
    BY <2>1, <2>2, ConcatProperties
  <2>4. FreeSlots' \subseteq FreeSlots /\ ReadySlots' = ReadySlots /\ ConsumerHolds' = {}
    BY <2>1, <2>3 DEF FreeSlots, ReadySlots, ConsumerHolds
  <2>5. CopiesCurrent' /\ StreamsDrained'
    BY <1>1, <1>2, <2>1, <2>4 DEF HeldInv, CopiesCurrent, StreamsDrained
  <2> QED
    BY <1>1, <1>2, <2>1, <2>4, <2>5 DEF HeldInv, NothingReusedWhileHeld
<1> QED
  BY <1>3, <1>4, <1>5, <1>6 DEF Consumer, ConsumerStep, CShortRead, CFail

\* A stream that runs its oldest operation holds no more than it did.
LEMMA DeviceHeld == HeldInv /\ Device => (CopiesCurrent /\ StreamsDrained /\ NothingReusedWhileHeld)'
<1> SUFFICES ASSUME HeldInv, Device
             PROVE  (CopiesCurrent /\ StreamsDrained /\ NothingReusedWhileHeld)'
  OBVIOUS
<1>1. UNCHANGED <<producerVars, consumerVars, queues>>
  BY DEF Device, RunCopy0, RunCopy1, RunDefault1
<1>2. /\ \A k \in DOMAIN copy0' : \E j \in DOMAIN copy0 : copy0'[k] = copy0[j]
      /\ \A k \in DOMAIN copy1' : \E j \in DOMAIN copy1 : copy1'[k] = copy1[j]
      /\ \A k \in DOMAIN default1' : \E j \in DOMAIN default1 : default1'[k] = default1[j]
      /\ copy1 = << >> => copy1' = << >>
      /\ default1 = << >> => default1' = << >>
  <2>1. copy0 \in Seq(Items) /\ copy1 \in Seq(Items) /\ default1 \in Seq(DeviceOps)
    BY DEF HeldInv, SlotsInv, TypeOK
  <2>2. CASE RunCopy0
    BY <2>1, <2>2, HeadTailElements DEF RunCopy0
  <2>3. CASE RunCopy1
    BY <2>1, <2>3, HeadTailElements DEF RunCopy1
  <2>4. CASE RunDefault1
    BY <2>1, <2>4, HeadTailElements DEF RunDefault1
  <2> QED
    BY <2>2, <2>3, <2>4 DEF Device
<1>3. /\ FreeSlots' = FreeSlots /\ ReadySlots' = ReadySlots
      /\ ProducerHolds' = ProducerHolds /\ ConsumerHolds' = ConsumerHolds
      /\ pPc' = pPc /\ cPc' = cPc /\ pItem' = pItem /\ cItem' = cItem /\ ready' = ready
  BY <1>1 DEF producerVars, consumerVars, queues, FreeSlots, ReadySlots, ProducerHolds,
     ConsumerHolds
<1>4. CopiesCurrent' /\ StreamsDrained'
  BY <1>2, <1>3 DEF HeldInv, CopiesCurrent, StreamsDrained
<1> QED
  BY <1>2, <1>3, <1>4 DEF HeldInv, NothingReusedWhileHeld

\* The main thread acts on drained streams only.
LEMMA MainHeld == HeldInv /\ Main => (CopiesCurrent /\ StreamsDrained /\ NothingReusedWhileHeld)'
<1> SUFFICES ASSUME HeldInv, Main
             PROVE  (CopiesCurrent /\ StreamsDrained /\ NothingReusedWhileHeld)'
  OBVIOUS
<1>1. copy0' = << >> /\ copy1' = << >> /\ default1' = << >>
  BY DEF Main, MRaise, MNextPass, MReturn, Joined, streams
<1> QED
  BY <1>1 DEF CopiesCurrent, StreamsDrained, NothingReusedWhileHeld

\* Nothing moves.
LEMMA StutterHeld == HeldInv /\ UNCHANGED vars => HeldInv'
<1> SUFFICES ASSUME HeldInv, UNCHANGED vars PROVE HeldInv'
  OBVIOUS
<1>1. SlotsInv'
  BY SlotsInvInductive DEF HeldInv
<1>2. UNCHANGED <<pPc, pItem, cPc, cItem, free, ready, copy0, copy1, default1>>
  BY DEF vars, producerVars, consumerVars, queues, streams
<1> QED
  BY <1>1, <1>2 DEF HeldInv, CopiesCurrent, StreamsDrained, NothingReusedWhileHeld,
     FreeSlots, ReadySlots, ProducerHolds, ConsumerHolds

LEMMA HeldInvNext == HeldInv /\ [Next]_vars => HeldInv'
<1>1. HeldInv /\ [Next]_vars => SlotsInv'
  BY SlotsInvInductive DEF HeldInv
<1> QED
  BY <1>1, ProducerHeld, ConsumerHeld, DeviceHeld, MainHeld, StutterHeld
     DEF HeldInv, Next, Ended

\* The docstring's claim, for every cache, depth and transport, with or without
\* failures, and whether or not fills land before the copies behind them: no slot
\* with a device operation pending is free or in the hands of its next writer.
THEOREM NoReuseWhileHeld == Spec => []NothingReusedWhileHeld
<1>1. HeldInv => NothingReusedWhileHeld
  BY DEF HeldInv
<1> QED
  BY InitHeld, HeldInvNext, <1>1, PTL DEF Spec

-----------------------------------------------------------------------------
(* What the buffers of a slot hold, from the encoder to gpu_out.            *)

\* Fills come first, and a write that may be short is one whose reader would notice.
SoundTransport == FillLandsFirst /\ (Transport = "FileConcat" => ~ShortWrites)

\* The copy of an item into pinned memory is pending or has been made.
Shipped(x) == (\E k \in DOMAIN copy0 : copy0[k] = x) \/ host[x.slot] = Payload[x.tensor]

\* A file transport's file holds the item's bytes, all of them unless writes are short.
Written(x) ==
  Transport # "HostRing" =>
    /\ file[x.slot].of = Payload[x.tensor]
    /\ ~ShortWrites => file[x.slot].extent >= Bytes[x.tensor]

\* An item whose copy has been issued and whose payload is not yet on its way to
\* GPU1, and one that is in its file.
InTransit(x) ==
  \/ pPc \in {"flush", "announce"} /\ x = pItem
  \/ \E j \in DOMAIN ready : ready[j] = x
  \/ cPc \in {"sync", "fetch"} /\ x = cItem

OnFile(x) ==
  \/ pPc = "announce" /\ x = pItem
  \/ \E j \in DOMAIN ready : ready[j] = x
  \/ cPc \in {"sync", "fetch"} /\ x = cItem

ScratchInv ==
  Compressed =>
    /\ pPc = "ship" => scr[pItem.slot] = Payload[pItem.tensor]
    /\ \A k \in DOMAIN copy0 : scr[copy0[k].slot] = Payload[copy0[k].tensor]

TransitInv ==
  /\ \A x \in Items : InTransit(x) => Shipped(x)
  /\ \A x \in Items : OnFile(x) => Written(x)

\* The payload a pending copy to GPU1 will read is right and stays as it is.
PayloadInv ==
  \A k \in DOMAIN copy1 :
    /\ host[copy1[k].slot] = Payload[copy1[k].tensor]
    /\ \A j \in DOMAIN copy0 : copy0[j].slot # copy1[k].slot

\* From the scratch to the bytes a receiver's copy will read.
SourceInv == ScratchInv /\ TransitInv /\ PayloadInv

Op(name, x) == [op |-> name, item |-> x]

Fill(x)         == <<Op("zeroRecv", x)>>
DeliverOnly(x)  == <<Op("deliver", x)>>
FromDecode(x)   == <<Op("decode", x), Op("deliver", x)>>
FromZeroDst(x)  == <<Op("zeroDst", x), Op("decode", x), Op("deliver", x)>>

\* The receive buffer holds the consumer's item and nothing else.
Received == recv[cItem.slot] = [of |-> Payload[cItem.tensor], extent |-> Bytes[cItem.tensor]]

Idle    == copy1 = << >> /\ default1 = << >>
Filling == default1 = Fill(cItem) \/ (default1 = << >> /\ recv[cItem.slot] = Zeroed)
Landing == copy1 = <<cItem>> /\ Filling

Decoding ==
  /\ copy1 = << >> /\ Received
  /\ \/ Compressed /\ default1 = FromZeroDst(cItem)
     \/ Compressed /\ default1 = FromDecode(cItem) /\ dst[cItem.slot] = Nothing
     \/ default1 = DeliverOnly(cItem) /\ (Compressed => dst[cItem.slot] = Payload[cItem.tensor])

\* What is pending on the receiver at each point of the consumer's loop; one that died
\* leaves what it had issued.
SinkInv ==
  /\ cPc \in {"get", "sync", "free"} => Idle
  /\ cPc = "fetch" => copy1 = << >> /\ Filling
  /\ cPc = "landed" => Landing \/ (Idle /\ Received)
  /\ cPc = "decode" => Idle /\ Received
  /\ cPc = "await" => Idle \/ Decoding
  /\ cPc = "done" =>
       Idle \/ (cItem \in Items /\ (Landing \/ Decoding \/ (copy1 = << >> /\ Filling)))

-----------------------------------------------------------------------------
(* The order things arrive in.                                              *)

\* The first m tensors have been delivered, right, and nothing else.
DeliveredUpTo(m) == \A t \in Tensors : out[t] = IF t <= m THEN Payload[t] ELSE Nothing

\* The consumer's item is still to be delivered.
Owed ==
  \/ cPc \in {"sync", "fetch", "landed", "decode"}
  \/ default1 \in {FromZeroDst(cItem), FromDecode(cItem), DeliverOnly(cItem)}

\* The tensor the consumer's next item has, m being delivered.
NextUp(m) == IF Owed THEN m + 2 ELSE m + 1

\* Tensors travel in order, and nobody has left without a reason.
OrderFrom(m) ==
  /\ DeliveredUpTo(m)
  /\ Owed => cItem.tensor = m + 1
  /\ cPc # "done" =>
       /\ \A k \in DOMAIN ready : ready[k] # NoItem => ready[k].tensor = NextUp(m) + k - 1
       /\ pPc \notin {"finish", "done"} => pItem.tensor = NextUp(m) + Len(ready)
       /\ pPc = "finish" => NextUp(m) + Len(ready) = NTensors + 1
       /\ pPc = "done" /\ err = << >> => NextUp(m) + Len(ready) = NTensors + 2
  /\ cPc = "done" /\ err = << >> => m = NTensors /\ Idle

\* Sentinels come last, and there is one for whoever still waits.
QueueInv ==
  /\ \A k \in DOMAIN ready : ready[k] = NoItem => pPc = "done" /\ k = Len(ready)
  /\ pPc = "done" /\ err = << >> /\ cPc # "done" =>
       ready # << >> /\ ready[Len(ready)] = NoItem
  /\ (\E k \in DOMAIN free : free[k] = Stop) => err # << >>
  /\ cPc = "done" /\ err = << >> => pPc = "done"

OrderInv == QueueInv /\ \E m \in 0..NTensors : OrderFrom(m)

\* A run that is over has nothing under way, and raises only what may be raised.
EndInv ==
  /\ outcome # "running" => pPc = "done" /\ cPc = "done" /\ Idle
  /\ err # << >> => Failures \/ (ShortWrites /\ Transport = "FileSpool")
-----------------------------------------------------------------------------
(* Lemmas about what is issued.                                             *)

\* What the consumer issues, and what is left of it step by step.
LEMMA IssuedOps ==
  ASSUME NEW x
  PROVE  /\ Issue(ReceiveOps, x) = Fill(x)
         /\ Issue(DeliverOps, x) = IF Compressed THEN FromZeroDst(x) ELSE DeliverOnly(x)
<1>1. Issue(ReceiveOps, x) = Fill(x)
  BY DEF Issue, ReceiveOps, Fill, Op
<1>2. Issue(<<"zeroDst", "decode", "deliver">>, x) = FromZeroDst(x)
  BY DEF Issue, FromZeroDst, Op
<1>3. Issue(<<"deliver">>, x) = DeliverOnly(x)
  BY DEF Issue, DeliverOnly, Op
<1>4. DeliverOps = IF Compressed THEN <<"zeroDst", "decode", "deliver">> ELSE <<"deliver">>
  BY DEF DeliverOps
<1>. QED BY <1>1, <1>2, <1>3, <1>4

LEMMA OpsLeft ==
  ASSUME NEW x
  PROVE  /\ Fill(x) # << >> /\ Head(Fill(x)) = Op("zeroRecv", x) /\ Tail(Fill(x)) = << >>
         /\ DeliverOnly(x) # << >> /\ Head(DeliverOnly(x)) = Op("deliver", x)
         /\ Tail(DeliverOnly(x)) = << >>
         /\ FromDecode(x) # << >> /\ Head(FromDecode(x)) = Op("decode", x)
         /\ Tail(FromDecode(x)) = DeliverOnly(x)
         /\ FromZeroDst(x) # << >> /\ Head(FromZeroDst(x)) = Op("zeroDst", x)
         /\ Tail(FromZeroDst(x)) = FromDecode(x)
  BY DEF Fill, DeliverOnly, FromDecode, FromZeroDst, Op

\* Operations differ by their names.
LEMMA OpsDiffer ==
  ASSUME NEW x, NEW name
  PROVE  Op(name, x).op = name /\ Op(name, x).item = x
  BY DEF Op

LEMMA IssuedAlone ==
  ASSUME NEW names \in {ReceiveOps, DeliverOps}, NEW x \in Items, default1 = << >>
  PROVE  default1 \o Issue(names, x) = Issue(names, x)
<1>1. Issue(names, x) \in Seq(DeviceOps)
  BY IssueType
<1>. QED BY <1>1, ConcatEmptySeq
-----------------------------------------------------------------------------
(* The source.                                                              *)

\* An item in transit is alone in its slot.
LEMMA TransitAlone ==
  ASSUME HeldInv, NEW x \in Items, InTransit(x)
  PROVE  /\ \A k \in DOMAIN copy0 : copy0[k].slot = x.slot => copy0[k] = x
         /\ \A k \in DOMAIN copy1 : copy1[k].slot # x.slot
         /\ pPc \in {"encode", "ship", "flush", "announce"} /\ x.slot = pItem.slot => x = pItem
         /\ cPc \in {"sync", "fetch", "landed", "decode", "await", "free"}
              /\ x.slot = cItem.slot => x = cItem
<1>1. x # NoItem /\ x.slot # Stop
  BY SentinelsDiffer
<1>2. CASE pPc \in {"flush", "announce"} /\ x = pItem
  <2>1. x.slot \in ProducerHolds
    BY <1>2 DEF ProducerHolds
  <2>2. x.slot \notin ConsumerHolds
    BY <2>1 DEF HeldInv, SlotsInv, SlotExclusive
  <2>. QED BY <1>2, <2>1, <2>2 DEF HeldInv, CopiesCurrent, NothingReusedWhileHeld, ConsumerHolds
<1>3. CASE \E j \in DOMAIN ready : ready[j] = x
  <2>1. x.slot \in ReadySlots
    BY <1>1, <1>3 DEF ReadySlots
  <2>2. x.slot \notin ConsumerHolds /\ x.slot \notin ProducerHolds
    BY <2>1 DEF HeldInv, SlotsInv, SlotExclusive
  <2>3. \A k \in DOMAIN copy0 : copy0[k].slot = x.slot => copy0[k] = x
    BY <1>3 DEF HeldInv, CopiesCurrent
  <2>. QED BY <2>1, <2>2, <2>3 DEF HeldInv, NothingReusedWhileHeld, ConsumerHolds, ProducerHolds
<1>4. CASE cPc \in {"sync", "fetch"} /\ x = cItem
  <2>1. x.slot \in ConsumerHolds
    BY <1>4 DEF ConsumerHolds
  <2>2. x.slot \notin ProducerHolds
    BY <2>1 DEF HeldInv, SlotsInv, SlotExclusive
  <2>3. copy1 = << >>
    BY <1>4 DEF HeldInv, StreamsDrained
  <2>. QED BY <1>4, <2>1, <2>2, <2>3 DEF HeldInv, CopiesCurrent, ProducerHolds
<1>. QED BY <1>2, <1>3, <1>4 DEF InTransit

\* What is on file is in transit.
LEMMA OnFileInTransit == \A x \in Items : OnFile(x) => InTransit(x)
  BY DEF OnFile, InTransit

\* Most steps leave the buffers and what is in transit alone.
LEMMA TransitKept ==
  ASSUME TransitInv, UNCHANGED <<copy0, host, file>>,
         \A x \in Items : InTransit(x)' => InTransit(x),
         \A x \in Items : OnFile(x)' => OnFile(x)
  PROVE  TransitInv'
  BY DEF TransitInv, Shipped, Written

LEMMA ProducerTransit ==
  ASSUME HeldInv, Producer, ~PShip
  PROVE  /\ \A x \in Items : InTransit(x)' => InTransit(x)
         /\ PFlush \/ \A x \in Items : OnFile(x)' => OnFile(x)
<1>1. cPc' = cPc /\ cItem' = cItem
  BY DEF Producer, ProducerStep, PGet, PEncode, PShip, PFlush, PAnnounce, PFinish, PFail,
         consumerVars
<1>2. CASE PGet \/ PEncode
  <2>1. ready' = ready /\ pPc' \notin {"flush", "announce"}
    BY <1>2 DEF PGet, PEncode, queues
  <2>. QED BY <1>1, <2>1 DEF InTransit, OnFile
<1>3. CASE PFlush
  <2>1. ready' = ready /\ pItem' = pItem /\ pPc = "flush"
    BY <1>3 DEF PFlush, queues
  <2>. QED BY <1>1, <1>3, <2>1 DEF InTransit
<1>4. CASE PAnnounce
  <2>1. /\ ready \in Seq(Items \union {NoItem}) /\ pItem \in Items
        /\ ready' = Append(ready, pItem) /\ pPc = "announce" /\ pPc' \in {"get", "finish"}
    BY <1>4 DEF PAnnounce, HeldInv, SlotsInv, TypeOK
  <2>2. \A k \in DOMAIN ready' : (k \in DOMAIN ready /\ ready'[k] = ready[k])
                                 \/ ready'[k] = pItem
    BY <2>1, AppendElements
  <2>. QED BY <1>1, <2>1, <2>2 DEF InTransit, OnFile
<1>5. CASE PFinish \/ PFail
  <2>1. /\ ready \in Seq(Items \union {NoItem})
        /\ ready' = Append(ready, NoItem) /\ pPc' = "done"
    BY <1>5 DEF PFinish, PFail, HeldInv, SlotsInv, TypeOK
  <2>2. \A k \in DOMAIN ready' : (k \in DOMAIN ready /\ ready'[k] = ready[k])
                                 \/ ready'[k] = NoItem
    BY <2>1, AppendElements
  <2>. QED BY <1>1, <2>1, <2>2, SentinelsDiffer DEF InTransit, OnFile
<1>. QED BY <1>2, <1>3, <1>4, <1>5 DEF Producer, ProducerStep

LEMMA ConsumerTransit ==
  ASSUME HeldInv, Consumer
  PROVE  /\ \A x \in Items : InTransit(x)' => InTransit(x)
         /\ \A x \in Items : OnFile(x)' => OnFile(x)
<1>1. pPc' = pPc /\ pItem' = pItem
  BY DEF Consumer, ConsumerStep, CGet, CSync, CFetch, CLanded, CDecode, CAwait, CFree,
     CShortRead, CFail, ConsumerRaises, producerVars
<1>2. CASE CGet
  <2>1. /\ ready \in Seq(Items \union {NoItem}) /\ ready # << >> /\ ready' = Tail(ready)
        /\ cItem' = Head(ready)
    BY <1>2 DEF CGet, HeldInv, SlotsInv, TypeOK
  <2>2. /\ 1 \in DOMAIN ready /\ Head(ready) = ready[1]
        /\ \A k \in DOMAIN ready' : k + 1 \in DOMAIN ready /\ ready'[k] = ready[k + 1]
    BY <2>1, HeadTailElements
  <2>. QED BY <1>1, <2>1, <2>2 DEF InTransit, OnFile
<1>3. CASE ~CGet
  <2>1. /\ ready' = ready
        /\ cPc' \in {"sync", "fetch"} => cItem' = cItem /\ cPc \in {"sync", "fetch"}
    BY <1>3 DEF Consumer, ConsumerStep, CSync, CFetch, CLanded, CDecode, CAwait, CFree,
       CShortRead, CFail, ConsumerRaises, queues
  <2>. QED BY <1>1, <2>1 DEF InTransit, OnFile
<1>. QED BY <1>2, <1>3
LEMMA ShipSource ==
  ASSUME HeldInv, SourceInv, PShip
  PROVE  SourceInv'
<1>1. /\ copy0 \in Seq(Items) /\ pItem \in Items /\ copy0' = Append(copy0, pItem)
      /\ pPc = "ship" /\ pPc' \in {"flush", "announce"} /\ pItem' = pItem
      /\ pPc' = "announce" => Transport = "HostRing"
      /\ UNCHANGED <<cPc, cItem, ready, scr, host, file, copy1>>
  BY DEF PShip, consumerVars, queues, buffers, HeldInv, SlotsInv, TypeOK
<1>2. /\ DOMAIN copy0 = 1..Len(copy0) /\ DOMAIN copy0' = 1..(Len(copy0) + 1)
      /\ Len(copy0) \in Nat
      /\ \A k \in DOMAIN copy0' :
           copy0'[k] = IF k \in DOMAIN copy0 THEN copy0[k] ELSE pItem
  BY <1>1, AppendElements
<1>3. \A k \in DOMAIN copy0 : k \in DOMAIN copy0' /\ copy0'[k] = copy0[k]
  BY <1>2
<1>4. \E k \in DOMAIN copy0' : copy0'[k] = pItem
  <2>1. Len(copy0) + 1 \in DOMAIN copy0' /\ Len(copy0) + 1 \notin DOMAIN copy0
    BY <1>2
  <2>. QED BY <2>1, <1>2
<1>5. \A x \in Items : Shipped(x) => Shipped(x)'
  BY <1>1, <1>3 DEF Shipped
<1>6. \A x \in Items : InTransit(x)' => InTransit(x) \/ x = pItem
  BY <1>1 DEF InTransit
<1>7. \A x \in Items : InTransit(x)' => Shipped(x)'
  BY <1>4, <1>5, <1>6 DEF SourceInv, TransitInv, Shipped
<1>8. \A x \in Items : OnFile(x)' => Written(x)'
  BY <1>1 DEF OnFile, Written, SourceInv, TransitInv
<1>9. ScratchInv'
  BY <1>1, <1>2 DEF SourceInv, ScratchInv
<1>10. PayloadInv'
  <2>1. pItem.slot \in ProducerHolds
    BY <1>1 DEF ProducerHolds
  <2>2. \A k \in DOMAIN copy1 : copy1[k].slot # pItem.slot
    BY <2>1 DEF HeldInv, NothingReusedWhileHeld
  <2>. QED BY <2>2, <1>1, <1>2 DEF SourceInv, PayloadInv
<1>. QED BY <1>7, <1>8, <1>9, <1>10 DEF SourceInv, TransitInv

\* What a producer writes to a file is what its copy has put into pinned memory.
LEMMA FlushSource ==
  ASSUME SoundTransport, HeldInv, SourceInv, PFlush
  PROVE  SourceInv'
<1>1. /\ pPc = "flush" /\ pPc' = "announce" /\ pItem \in Items /\ pItem' = pItem
      /\ copy0 = << >>
      /\ UNCHANGED <<cPc, cItem, ready, scr, host, copy0, copy1>>
  BY DEF PFlush, BytesInHost, consumerVars, queues, streams, HeldInv, SlotsInv, TypeOK
<1> DEFINE t == pItem.tensor
           s == pItem.slot
           old == IF Transport = "FileSpool" THEN Zeroed ELSE file[s]
<1>2. /\ t \in Tensors /\ s \in Slots /\ Bytes[t] \in Nat \ {0} /\ old \in Contents(Payloads)
      /\ file \in [Slots -> Contents(Payloads)]
  BY <1>1, ConstantsAssumption DEF HeldInv, SlotsInv, TypeOK, Items, Contents, Zeroed
<1>3. host[s] = Payload[t]
  <2>1. Shipped(pItem)
    BY <1>1 DEF SourceInv, TransitInv, InTransit
  <2>. QED BY <2>1, <1>1 DEF Shipped
<1>4. ASSUME Transport # "HostRing"
      PROVE  \E n \in Nat : /\ file' = [file EXCEPT ![s] = [of |-> Payload[t], extent |-> n]]
                            /\ ~ShortWrites => n >= Bytes[t]
  <2>1. CASE file' = [file EXCEPT ![s] = CopiedInto(old, host[s], Bytes[t])]
    <3>1. Further(old.extent, Bytes[t]) \in Nat /\ Further(old.extent, Bytes[t]) >= Bytes[t]
      <4> HIDE DEF t, s, old
      <4>1. old.extent \in Nat
        BY <1>2 DEF Contents
      <4>. QED BY <4>1, <1>2 DEF Further
    <3>2. file' = [file EXCEPT ![s] = [of |-> Payload[t], extent |-> Further(old.extent, Bytes[t])]]
      BY <2>1, <1>3 DEF CopiedInto
    <3> HIDE DEF t, s, old
    <3>. QED BY <3>1, <3>2
  <2>2. CASE \E k \in 1..(Bytes[t] - 1) :
               /\ ShortWrites
               /\ file' = [file EXCEPT ![s] =
                    IF Transport = "FileSpool"
                    THEN [of |-> host[s], extent |-> k]
                    ELSE ShortWritten(old, host[s], k)]
    <3>1. ShortWrites /\ Transport = "FileSpool"
      BY <1>4, <2>2, ConstantsAssumption DEF SoundTransport
    <3>2. PICK k \in 1..(Bytes[t] - 1) : file' = [file EXCEPT ![s] = [of |-> Payload[t], extent |-> k]]
      BY <2>2, <3>1, <1>3
    <3>3. k \in Nat
      OBVIOUS
    <3> HIDE DEF t, s, old
    <3>. QED BY <3>1, <3>2, <3>3
  <2>. QED BY <2>1, <2>2 DEF PFlush
<1>5. \A x \in Items : InTransit(x)' => InTransit(x)
  BY <1>1 DEF InTransit
<1>6. \A x \in Items : OnFile(x)' => x = pItem \/ (OnFile(x) /\ x.slot # s)
  <2>1. SUFFICES ASSUME NEW x \in Items, OnFile(x)', x # pItem
                 PROVE  OnFile(x) /\ x.slot # s
    OBVIOUS
  <2>2. OnFile(x)
    BY <2>1, <1>1 DEF OnFile
  <2>. QED BY <2>1, <2>2, <1>1, OnFileInTransit, TransitAlone
<1>7. \A x \in Items : OnFile(x)' => Written(x)'
  <2>1. SUFFICES ASSUME NEW x \in Items, OnFile(x)', Transport # "HostRing"
                 PROVE  /\ file'[x.slot].of = Payload[x.tensor]
                        /\ ~ShortWrites => file'[x.slot].extent >= Bytes[x.tensor]
    BY DEF Written
  <2>2. PICK n \in Nat : /\ file' = [file EXCEPT ![s] = [of |-> Payload[t], extent |-> n]]
                         /\ ~ShortWrites => n >= Bytes[t]
    BY <2>1, <1>4
  <2>3. x.slot \in Slots
    BY DEF Items
  <2>4. CASE x = pItem
    <3>1. file'[s] = [of |-> Payload[t], extent |-> n]
      BY <2>2, <1>2
    <3>. QED BY <3>1, <2>2, <2>4
  <2>5. CASE x # pItem
    <3>1. OnFile(x) /\ x.slot # s
      BY <2>1, <2>5, <1>6
    <3>2. file'[x.slot] = file[x.slot]
      BY <3>1, <2>2, <2>3, <1>2
    <3>3. Written(x)
      BY <3>1 DEF SourceInv, TransitInv
    <3>. QED BY <3>2, <3>3, <2>1 DEF Written
  <2>. QED BY <2>4, <2>5
<1>8. \A x \in Items : InTransit(x)' => Shipped(x)'
  BY <1>1, <1>5 DEF SourceInv, TransitInv, Shipped
<1>9. ScratchInv' /\ PayloadInv'
  BY <1>1 DEF SourceInv, ScratchInv, PayloadInv
<1>. QED BY <1>7, <1>8, <1>9 DEF SourceInv, TransitInv
\* The consumer reads the slot's file back, or finds the bytes where the copy left them.
LEMMA FetchSource ==
  ASSUME HeldInv, SourceInv, CFetch
  PROVE  SourceInv'
<1>1. /\ cPc = "fetch" /\ cPc' = "landed" /\ cItem \in Items /\ cItem' = cItem
      /\ UNCHANGED <<pPc, pItem, ready, scr, file, copy0>>
      /\ copy1' = Append(copy1, cItem)
      /\ host \in [Slots -> Payloads \union {Nothing, Torn}]
      /\ host' = host \/ host' = [host EXCEPT ![cItem.slot] = file[cItem.slot].of]
  BY DEF CFetch, producerVars, queues, HeldInv, SlotsInv, TypeOK
<1>2. copy1 = << >> /\ copy1' = <<cItem>>
  BY <1>1 DEF HeldInv, StreamsDrained
<1>3. cItem.slot \in ConsumerHolds /\ cItem.slot \in Slots
  BY <1>1 DEF ConsumerHolds, Items
<1>4. \A k \in DOMAIN copy0 : copy0[k].slot # cItem.slot
  BY <1>1, <1>3 DEF HeldInv, NothingReusedWhileHeld
<1>5. host'[cItem.slot] = Payload[cItem.tensor]
  <2>1. InTransit(cItem) /\ OnFile(cItem)
    BY <1>1 DEF InTransit, OnFile
  <2>2. Shipped(cItem) /\ Written(cItem)
    BY <2>1, <1>1 DEF SourceInv, TransitInv
  <2>3. CASE Transport = "HostRing"
    BY <2>2, <2>3, <1>4 DEF Shipped, CFetch
  <2>4. CASE Transport # "HostRing"
    BY <2>2, <2>4, <1>1, <1>3 DEF Written, CFetch
  <2>. QED BY <2>3, <2>4
<1>6. \A x \in Items : InTransit(x)' => InTransit(x) /\ x.slot # cItem.slot
  <2>1. SUFFICES ASSUME NEW x \in Items, InTransit(x)' PROVE InTransit(x) /\ x.slot # cItem.slot
    OBVIOUS
  <2>2. (pPc \in {"flush", "announce"} /\ x = pItem) \/ \E j \in DOMAIN ready : ready[j] = x
    BY <2>1, <1>1 DEF InTransit
  <2>3. x.slot \in ProducerHolds \union ReadySlots
    BY <2>2, SentinelsDiffer DEF ProducerHolds, ReadySlots
  <2>. QED BY <2>2, <2>3, <1>3 DEF InTransit, HeldInv, SlotsInv, SlotExclusive
<1>7. \A x \in Items : InTransit(x)' => Shipped(x)'
  <2>1. SUFFICES ASSUME NEW x \in Items, InTransit(x)' PROVE Shipped(x)'
    OBVIOUS
  <2>2. Shipped(x) /\ x.slot # cItem.slot /\ x.slot \in Slots
    BY <2>1, <1>6 DEF SourceInv, TransitInv, Items
  <2>3. host'[x.slot] = host[x.slot]
    BY <2>2, <1>1, <1>3
  <2>. QED BY <2>2, <2>3, <1>1 DEF Shipped
<1>8. \A x \in Items : OnFile(x)' => Written(x)'
  BY <1>1 DEF OnFile, Written, SourceInv, TransitInv
<1>9. ScratchInv'
  BY <1>1 DEF SourceInv, ScratchInv
<1>10. PayloadInv'
  BY <1>1, <1>2, <1>4, <1>5 DEF PayloadInv
<1>. QED BY <1>7, <1>8, <1>9, <1>10 DEF SourceInv, TransitInv

\* The copy into pinned memory brings the bytes of the item it was issued for.
LEMMA Copy0Source ==
  ASSUME HeldInv, SourceInv, RunCopy0
  PROVE  SourceInv'
<1> DEFINE h == Head(copy0)
<1>1. /\ copy0 \in Seq(Items) /\ copy0 # << >> /\ copy0' = Tail(copy0)
      /\ host \in [Slots -> Payloads \union {Nothing, Torn}]
      /\ UNCHANGED <<pPc, pItem, cPc, cItem, ready, scr, file, copy1>>
      /\ host' = [host EXCEPT ![h.slot] = IF Compressed THEN scr[h.slot] ELSE Payload[h.tensor]]
  BY DEF RunCopy0, producerVars, consumerVars, queues, HeldInv, SlotsInv, TypeOK
<1>2. /\ 1 \in DOMAIN copy0 /\ h = copy0[1] /\ h \in Items
      /\ \A k \in DOMAIN copy0' : k + 1 \in DOMAIN copy0 /\ copy0'[k] = copy0[k + 1]
      /\ DOMAIN copy0 = 1..Len(copy0) /\ DOMAIN copy0' = 1..(Len(copy0) - 1)
  <2>1. Len(copy0') = Len(copy0) - 1 /\ Len(copy0) \in Nat
    BY <1>1, HeadTailProperties
  <2>. QED BY <2>1, <1>1, HeadTailElements
<1>3. \A k \in DOMAIN copy0 : copy0[k] = h \/ \E j \in DOMAIN copy0' : copy0'[j] = copy0[k]
  <2>1. SUFFICES ASSUME NEW k \in DOMAIN copy0, k # 1
                 PROVE  \E j \in DOMAIN copy0' : copy0'[j] = copy0[k]
    BY <1>2
  <2>2. k - 1 \in DOMAIN copy0' /\ (k - 1) + 1 = k
    BY <2>1, <1>1, <1>2, LenProperties
  <2>. QED BY <2>2, <1>2
<1>4. host'[h.slot] = Payload[h.tensor]
  <2>1. h.slot \in Slots
    BY <1>2 DEF Items
  <2>2. Compressed => scr[h.slot] = Payload[h.tensor]
    BY <1>2 DEF SourceInv, ScratchInv
  <2> HIDE DEF h
  <2>. QED BY <2>1, <2>2, <1>1
<1>5. \A s \in Slots : s # h.slot => host'[s] = host[s]
  BY <1>1
<1>6. \A x \in Items : InTransit(x)' => Shipped(x)'
  <2>1. SUFFICES ASSUME NEW x \in Items, InTransit(x)' PROVE Shipped(x)'
    OBVIOUS
  <2>2. InTransit(x)
    BY <2>1, <1>1 DEF InTransit
  <2>3. Shipped(x) /\ (h.slot = x.slot => h = x)
    BY <2>2, <1>2, TransitAlone DEF SourceInv, TransitInv
  <2>4. x.slot \in Slots
    BY DEF Items
  <2> HIDE DEF h
  <2>5. CASE x = h
    BY <2>5, <1>4 DEF Shipped
  <2>6. CASE x # h
    BY <2>6, <2>3, <2>4, <1>3, <1>5 DEF Shipped
  <2>. QED BY <2>5, <2>6
<1>7. \A x \in Items : OnFile(x)' => Written(x)'
  BY <1>1 DEF OnFile, Written, SourceInv, TransitInv
<1>8. ScratchInv'
  BY <1>1, <1>2 DEF SourceInv, ScratchInv
<1>9. PayloadInv'
  <2>1. \A k \in DOMAIN copy1 : copy1[k].slot \in Slots /\ copy1[k].slot # h.slot
    <3>1. copy1 \in Seq(Items)
      BY DEF HeldInv, SlotsInv, TypeOK
    <3>2. \A k \in DOMAIN copy1 : copy1[k] \in Items
      BY <3>1
    <3>3. \A k \in DOMAIN copy1 : copy1[k].slot # h.slot
      <4>1. \A k \in DOMAIN copy1 : copy0[1].slot # copy1[k].slot
        BY <1>2 DEF SourceInv, PayloadInv
      <4>. QED BY <4>1, <1>2
    <3>. QED BY <3>2, <3>3 DEF Items
  <2> HIDE DEF h
  <2>. QED BY <2>1, <1>1, <1>2, <1>5 DEF SourceInv, PayloadInv
<1>. QED BY <1>6, <1>7, <1>8, <1>9 DEF SourceInv, TransitInv
LEMMA SourceNext ==
  ASSUME SoundTransport, HeldInv, SourceInv, [Next]_vars
  PROVE  SourceInv'
<1>1. CASE PShip
  BY <1>1, ShipSource
<1>2. CASE PFlush
  BY <1>2, FlushSource
<1>3. CASE CFetch
  BY <1>3, FetchSource
<1>4. CASE RunCopy0
  BY <1>4, Copy0Source
<1>5. CASE Producer /\ ~PShip /\ ~PFlush
  <2>1. UNCHANGED <<copy0, copy1, host, file>>
    BY <1>5 DEF Producer, ProducerStep, PGet, PEncode, PAnnounce, PFinish, PFail, streams,
       buffers
  <2>2. TransitInv' /\ PayloadInv'
    BY <1>5, <2>1, ProducerTransit, TransitKept DEF SourceInv, PayloadInv
  <2>3. ScratchInv'
    <3>1. CASE PEncode
      <4>1. /\ pItem \in Items /\ pItem' = pItem /\ pPc = "encode"
            /\ scr \in [Slots -> Payloads \union {Nothing, Torn}]
            /\ scr' = [scr EXCEPT ![pItem.slot] = Payload[pItem.tensor]]
        BY <3>1 DEF PEncode, HeldInv, SlotsInv, TypeOK
      <4>2. pItem.slot \in Slots /\ pItem.slot \in ProducerHolds
        BY <4>1 DEF Items, ProducerHolds
      <4>3. copy0 \in Seq(Items)
        BY DEF HeldInv, SlotsInv, TypeOK
      <4>4. \A k \in DOMAIN copy0 : copy0[k] \in Items
        BY <4>3
      <4>5. \A k \in DOMAIN copy0 : copy0[k].slot \in Slots /\ copy0[k].slot # pItem.slot
        BY <4>1, <4>2, <4>4 DEF HeldInv, NothingReusedWhileHeld, Items
      <4>. QED BY <4>1, <4>2, <4>5, <2>1 DEF SourceInv, ScratchInv
    <3>2. CASE ~PEncode
      <4>1. scr' = scr /\ (pPc' = "ship" => ~Compressed)
        BY <1>5, <3>2 DEF Producer, ProducerStep, PGet, PAnnounce, PFinish, PFail, buffers
      <4>. QED BY <4>1, <2>1 DEF SourceInv, ScratchInv
    <3>. QED BY <3>1, <3>2
  <2>. QED BY <2>2, <2>3 DEF SourceInv
<1>6. CASE Consumer /\ ~CFetch
  <2>1. UNCHANGED <<pPc, pItem, copy0, copy1, scr, host, file>>
    BY <1>6 DEF Consumer, ConsumerStep, CGet, CSync, CLanded, CDecode, CAwait, CFree,
       CShortRead, CFail, ConsumerRaises, producerVars, streams, buffers
  <2>. QED BY <1>6, <2>1, ConsumerTransit, TransitKept
           DEF SourceInv, ScratchInv, PayloadInv
<1>7. CASE RunCopy1
  <2>1. UNCHANGED <<pPc, pItem, cPc, cItem, ready, copy0, scr, host, file>> /\ copy1' = Tail(copy1)
    BY <1>7 DEF RunCopy1, producerVars, consumerVars, queues
  <2>2. copy1 \in Seq(Items) /\ copy1 # << >>
    BY <1>7 DEF RunCopy1, HeldInv, SlotsInv, TypeOK
  <2>3. \A k \in DOMAIN copy1' : k + 1 \in DOMAIN copy1 /\ copy1'[k] = copy1[k + 1]
    BY <2>1, <2>2, HeadTailElements
  <2>. QED BY <2>1, <2>3 DEF SourceInv, ScratchInv, TransitInv, PayloadInv, InTransit, OnFile,
           Shipped, Written
<1>8. CASE RunDefault1 \/ MRaise \/ MReturn \/ UNCHANGED vars
  <2>1. UNCHANGED <<pPc, pItem, cPc, cItem, ready, copy0, copy1, scr, host, file>>
    BY <1>8 DEF RunDefault1, MRaise, MReturn, vars, producerVars, consumerVars, queues, streams,
       buffers
  <2>. QED BY <2>1 DEF SourceInv, ScratchInv, TransitInv, PayloadInv, InTransit, OnFile,
           Shipped, Written
<1>9. CASE MNextPass
  <2>1. /\ copy0' = << >> /\ copy1' = << >> /\ ready' = << >> /\ pPc' = "get" /\ cPc' = "get"
    BY <1>9 DEF MNextPass, Joined, streams
  <2>. QED BY <2>1 DEF SourceInv, ScratchInv, TransitInv, PayloadInv, InTransit, OnFile
<1>. QED BY <1>1, <1>2, <1>3, <1>4, <1>5, <1>6, <1>7, <1>8, <1>9
         DEF Next, Device, Main, Ended
-----------------------------------------------------------------------------
(* The receiver.                                                            *)

\* Operations on the default stream belong to the consumer's item.
LEMMA SinkCases ==
  ASSUME HeldInv, SinkInv
  PROVE  /\ copy1 # << >> => Landing /\ cItem \in Items /\ cPc \in {"landed", "done"}
         /\ default1 # << >> =>
              /\ cItem \in Items
              /\ \/ default1 = Fill(cItem) /\ cPc \in {"fetch", "landed", "done"}
                    /\ (copy1 = << >> \/ (copy1 = <<cItem>> /\ cPc # "fetch"))
                 \/ Decoding /\ cPc \in {"await", "done"}
<1>1. /\ cPc \in {"get", "sync", "fetch", "landed", "decode", "await", "free", "done"}
      /\ cPc \notin {"get", "done"} => cItem \in Items
  BY DEF HeldInv, SlotsInv, TypeOK
<1>. QED BY <1>1 DEF SinkInv, Idle, Landing, Filling, Decoding

LEMMA ConsumerSink ==
  ASSUME HeldInv, SinkInv, Consumer
  PROVE  SinkInv'
<1>1. /\ UNCHANGED <<recv, dst>>
      /\ cPc \in {"get", "sync", "fetch", "landed", "decode", "await", "free", "done"}
      /\ cPc \notin {"get", "done"} => cItem \in Items
      /\ copy1 \in Seq(Items)
  BY DEF Consumer, ConsumerStep, CGet, CSync, CFetch, CLanded, CDecode, CAwait, CFree,
     CShortRead, CFail, ConsumerRaises, buffers, HeldInv, SlotsInv, TypeOK
<1>2. CASE CGet \/ CFree
  <2>1. /\ cPc \in {"get", "free"} /\ cPc' \in {"get", "sync", "done"}
        /\ UNCHANGED <<copy1, default1>>
    BY <1>2 DEF CGet, CFree, streams
  <2>. QED BY <2>1 DEF SinkInv, Idle
<1>3. CASE CSync
  <2>1. /\ cPc = "sync" /\ cPc' = "fetch" /\ cItem' = cItem /\ copy1' = copy1
        /\ default1' = default1 \o Issue(ReceiveOps, cItem)
    BY <1>3 DEF CSync
  <2>2. copy1 = << >> /\ default1 = << >>
    BY <2>1 DEF SinkInv, Idle
  <2>3. default1' = Fill(cItem)
    BY <2>1, <2>2, <1>1, IssuedAlone, IssuedOps
  <2>. QED BY <2>1, <2>2, <2>3 DEF SinkInv, Filling, Fill, Op
<1>4. CASE CFetch
  <2>1. /\ cPc = "fetch" /\ cPc' = "landed" /\ cItem' = cItem /\ default1' = default1
        /\ copy1' = Append(copy1, cItem)
    BY <1>4 DEF CFetch
  <2>2. copy1 = << >> /\ Filling
    BY <2>1 DEF SinkInv
  <2>3. copy1' = <<cItem>>
    BY <2>1, <2>2
  <2>. QED BY <2>1, <2>2, <2>3, <1>1 DEF SinkInv, Landing, Filling, Fill, Op
<1>5. CASE CLanded
  <2>1. /\ cPc = "landed" /\ cPc' = "decode" /\ copy1 = << >>
        /\ UNCHANGED <<cItem, copy1, default1>>
    BY <1>5 DEF CLanded, PayloadLanded, streams
  <2>2. Idle /\ Received
    BY <2>1 DEF SinkInv, Landing
  <2>. QED BY <2>1, <2>2, <1>1 DEF SinkInv, Idle, Received
<1>6. CASE CDecode
  <2>1. /\ cPc = "decode" /\ cPc' = "await" /\ cItem' = cItem /\ copy1' = copy1
        /\ default1' = default1 \o Issue(DeliverOps, cItem)
    BY <1>6 DEF CDecode
  <2>2. copy1 = << >> /\ default1 = << >> /\ Received
    BY <2>1 DEF SinkInv, Idle
  <2>3. default1' = IF Compressed THEN FromZeroDst(cItem) ELSE DeliverOnly(cItem)
    BY <2>1, <2>2, <1>1, IssuedAlone, IssuedOps
  <2>4. Decoding'
    <3>1. Received'
      BY <2>1, <2>2, <1>1 DEF Received
    <3>2. CASE Compressed
      <4>1. default1' = FromZeroDst(cItem)'
        BY <2>1, <2>3, <3>2 DEF FromZeroDst, Op
      <4>. QED BY <4>1, <3>1, <3>2, <2>1, <2>2 DEF Decoding
    <3>3. CASE ~Compressed
      <4>1. default1' = DeliverOnly(cItem)'
        BY <2>1, <2>3, <3>3 DEF DeliverOnly, Op
      <4>. QED BY <4>1, <3>1, <3>3, <2>1, <2>2 DEF Decoding
    <3>. QED BY <3>2, <3>3
  <2>. QED BY <2>1, <2>4 DEF SinkInv
<1>7. CASE CAwait
  <2>1. /\ cPc = "await" /\ cPc' = "free" /\ default1 = << >>
        /\ UNCHANGED <<copy1, default1>>
    BY <1>7 DEF CAwait, DeliveryDone, streams
  <2>2. copy1 = << >>
    BY <2>1, SinkCases
  <2>. QED BY <2>1, <2>2 DEF SinkInv, Idle
<1>8. CASE ConsumerRaises /\ cPc \in {"sync", "fetch", "landed", "decode", "await"}
  <2>1. cPc' = "done" /\ UNCHANGED <<cItem, copy1, default1>> /\ cItem \in Items
    BY <1>8, <1>1 DEF ConsumerRaises, streams
  <2>2. Idle \/ Landing \/ Decoding \/ (copy1 = << >> /\ Filling)
    BY <1>8 DEF SinkInv
  <2>3. (Idle \/ Landing \/ Decoding \/ (copy1 = << >> /\ Filling))'
    BY <2>1, <2>2, <1>1 DEF Idle, Landing, Filling, Decoding, Received, Fill, DeliverOnly,
       FromDecode, FromZeroDst, Op
  <2>. QED BY <2>1, <2>3 DEF SinkInv
<1>. QED BY <1>2, <1>3, <1>4, <1>5, <1>6, <1>7, <1>8 DEF Consumer, ConsumerStep, CShortRead, CFail

\* A payload is copied over zeroes: its fill has run.
LEMMA Copy1Sink ==
  ASSUME SoundTransport, HeldInv, SourceInv, SinkInv, RunCopy1
  PROVE  SinkInv'
<1>1. /\ copy1 # << >> /\ copy1' = Tail(copy1)
      /\ UNCHANGED <<cPc, cItem, default1, host, dst>>
      /\ ~FillPending(Head(copy1).slot)
      /\ recv' = [recv EXCEPT ![Head(copy1).slot] =
                    CopiedInto(recv[Head(copy1).slot], host[Head(copy1).slot],
                               Bytes[Head(copy1).tensor])]
  BY DEF RunCopy1, SoundTransport, consumerVars
<1>2. /\ copy1 = <<cItem>> /\ Filling /\ cItem \in Items /\ cPc \in {"landed", "done"}
  BY <1>1, SinkCases DEF Landing
<1>3. Head(copy1) = cItem /\ copy1' = << >> /\ copy1[1] = cItem /\ 1 \in DOMAIN copy1
  BY <1>1, <1>2
<1>4. default1 = << >> /\ recv[cItem.slot] = Zeroed
  <2>1. default1 # Fill(cItem)
    <3>1. ASSUME default1 = Fill(cItem) PROVE FALSE
      <4>1. 1 \in DOMAIN default1 /\ default1[1] = Op("zeroRecv", cItem)
        BY <3>1 DEF Fill
      <4>. QED BY <4>1, <1>1, <1>3, OpsDiffer DEF FillPending
    <3>. QED BY <3>1
  <2>. QED BY <2>1, <1>2 DEF Filling
<1>5. host[cItem.slot] = Payload[cItem.tensor]
  BY <1>3 DEF SourceInv, PayloadInv
<1>6. /\ cItem.slot \in Slots /\ cItem.tensor \in Tensors /\ Bytes[cItem.tensor] \in Nat \ {0}
      /\ recv \in [Slots -> Contents(Payloads)]
  BY <1>2, ConstantsAssumption DEF Items, HeldInv, SlotsInv, TypeOK
<1>7. Received'
  <2>1. recv'[cItem.slot] = CopiedInto(Zeroed, Payload[cItem.tensor], Bytes[cItem.tensor])
    BY <1>1, <1>3, <1>4, <1>5, <1>6
  <2>. QED BY <2>1, <1>1, <1>6 DEF Received, CopiedInto, Zeroed, Further
<1>. QED BY <1>1, <1>2, <1>3, <1>4, <1>7 DEF SinkInv, Idle
\* What the default stream does next, by what is left on it.
LEMMA DefaultSteps ==
  ASSUME HeldInv, SinkInv, RunDefault1
  PROVE  /\ cItem \in Items
         /\ \/ /\ default1 = Fill(cItem) /\ default1' = << >> /\ cPc \in {"fetch", "landed", "done"}
               /\ recv'[cItem.slot] = Zeroed /\ UNCHANGED <<dst, out>>
               /\ copy1 = << >> \/ (copy1 = <<cItem>> /\ cPc # "fetch")
            \/ /\ Decoding /\ default1 = FromZeroDst(cItem) /\ default1' = FromDecode(cItem)
               /\ Compressed /\ dst'[cItem.slot] = Nothing /\ UNCHANGED <<recv, out>>
               /\ cPc \in {"await", "done"}
            \/ /\ Decoding /\ default1 = FromDecode(cItem) /\ default1' = DeliverOnly(cItem)
               /\ dst'[cItem.slot] = Payload[cItem.tensor] /\ UNCHANGED <<recv, out>>
               /\ cPc \in {"await", "done"}
            \/ /\ Decoding /\ default1 = DeliverOnly(cItem) /\ default1' = << >>
               /\ out' = [out EXCEPT ![cItem.tensor] = Payload[cItem.tensor]] /\ UNCHANGED <<recv, dst>>
               /\ cPc \in {"await", "done"}
<1> DEFINE t == cItem.tensor
           s == cItem.slot
<1>1. default1 # << >> /\ default1' = Tail(default1)
  BY DEF RunDefault1
<1>2. /\ cItem \in Items
      /\ \/ default1 = Fill(cItem) /\ cPc \in {"fetch", "landed", "done"}
            /\ (copy1 = << >> \/ (copy1 = <<cItem>> /\ cPc # "fetch"))
         \/ Decoding /\ cPc \in {"await", "done"}
  BY <1>1, SinkCases
<1>3. /\ s \in Slots /\ t \in Tensors
      /\ recv \in [Slots -> Contents(Payloads)]
      /\ dst \in [Slots -> Payloads \union {Nothing, Torn}]
  BY <1>2 DEF Items, HeldInv, SlotsInv, TypeOK
<1>4. ASSUME NEW name, Head(default1) = Op(name, cItem)
      PROVE  \/ name = "zeroRecv" /\ ZeroRecv(s)
             \/ name = "zeroDst" /\ ZeroDst(s)
             \/ name = "decode" /\ Decode(t, s)
             \/ name = "deliver" /\ Deliver(t, s)
  <2>1. /\ Head(default1).op = name /\ Head(default1).item.tensor = t
        /\ Head(default1).item.slot = s
    BY <1>4, OpsDiffer
  <2>. QED BY <2>1 DEF RunDefault1
<1>5. CASE default1 = Fill(cItem) /\ cPc \in {"fetch", "landed", "done"}
           /\ (copy1 = << >> \/ (copy1 = <<cItem>> /\ cPc # "fetch"))
  <2>1. Head(default1) = Op("zeroRecv", cItem) /\ Tail(default1) = << >>
    BY <1>5, OpsLeft
  <2>2. ZeroRecv(s)
    BY <2>1, <1>4
  <2>3. recv'[s] = Zeroed /\ UNCHANGED <<dst, out>>
    BY <2>2, <1>3 DEF ZeroRecv
  <2>. QED BY <2>1, <2>3, <1>1, <1>2, <1>5
<1>6. CASE Decoding /\ default1 = FromZeroDst(cItem) /\ Compressed /\ cPc \in {"await", "done"}
  <2>1. Head(default1) = Op("zeroDst", cItem) /\ Tail(default1) = FromDecode(cItem)
    BY <1>6, OpsLeft
  <2>2. ZeroDst(s)
    BY <2>1, <1>4
  <2>3. dst'[s] = Nothing /\ UNCHANGED <<recv, out>>
    BY <2>2, <1>3 DEF ZeroDst
  <2>. QED BY <2>1, <2>3, <1>1, <1>2, <1>6
<1>7. CASE Decoding /\ default1 = FromDecode(cItem) /\ cPc \in {"await", "done"}
           /\ dst[cItem.slot] = Nothing
  <2>1. Head(default1) = Op("decode", cItem) /\ Tail(default1) = DeliverOnly(cItem)
    BY <1>7, OpsLeft
  <2>2. Decode(t, s)
    BY <2>1, <1>4
  <2>3. recv[s].of = Payload[t] /\ recv[s].extent = Bytes[t]
    BY <1>7 DEF Decoding, Received
  <2>4. dst'[s] = Payload[t] /\ UNCHANGED <<recv, out>>
    BY <2>2, <2>3, <1>3, <1>7 DEF Decode, Decoded
  <2>. QED BY <2>1, <2>4, <1>1, <1>2, <1>7
<1>8. CASE Decoding /\ default1 = DeliverOnly(cItem) /\ cPc \in {"await", "done"}
           /\ (Compressed => dst[cItem.slot] = Payload[cItem.tensor])
  <2>1. Head(default1) = Op("deliver", cItem) /\ Tail(default1) = << >>
    BY <1>8, OpsLeft
  <2>2. Deliver(t, s)
    BY <2>1, <1>4
  <2>3. recv[s].of = Payload[t]
    BY <1>8 DEF Decoding, Received
  <2>4. out' = [out EXCEPT ![t] = Payload[t]] /\ UNCHANGED <<recv, dst>>
    BY <2>2, <2>3, <1>8 DEF Deliver
  <2>. QED BY <2>1, <2>4, <1>1, <1>2, <1>8
<1>. QED BY <1>2, <1>5, <1>6, <1>7, <1>8 DEF Decoding

LEMMA DefaultSink ==
  ASSUME HeldInv, SinkInv, RunDefault1
  PROVE  SinkInv'
<1>1. UNCHANGED <<cPc, cItem, copy1>>
  BY DEF RunDefault1, consumerVars
<1>2. CASE /\ default1 = Fill(cItem) /\ default1' = << >> /\ cPc \in {"fetch", "landed", "done"}
           /\ recv'[cItem.slot] = Zeroed /\ cItem \in Items
           /\ copy1 = << >> \/ (copy1 = <<cItem>> /\ cPc # "fetch")
  <2>1. Filling'
    BY <1>1, <1>2 DEF Filling
  <2>2. CASE cPc = "fetch"
    BY <2>1, <2>2, <1>1, <1>2 DEF SinkInv
  <2>3. CASE cPc = "landed"
    <3>1. copy1 = <<cItem>>
      <4>1. default1 # << >>
        BY <1>2, OpsLeft
      <4>. QED BY <4>1, <2>3 DEF SinkInv, Landing, Idle
    <3>. QED BY <3>1, <2>1, <2>3, <1>1 DEF SinkInv, Landing
  <2>4. CASE cPc = "done"
    BY <2>1, <2>4, <1>1, <1>2 DEF SinkInv, Landing
  <2>. QED BY <2>2, <2>3, <2>4, <1>2
<1>3. ASSUME Decoding, cPc \in {"await", "done"}, cItem \in Items,
             recv' = recv, default1' = << >> \/ Decoding'
      PROVE  SinkInv'
  <2>1. copy1' = << >>
    BY <1>1, <1>3 DEF Decoding
  <2>. QED BY <2>1, <1>1, <1>3 DEF SinkInv, Idle
<1>4. CASE /\ Decoding /\ default1' = FromDecode(cItem) /\ Compressed
           /\ dst'[cItem.slot] = Nothing /\ recv' = recv
           /\ cPc \in {"await", "done"} /\ cItem \in Items
  <2>1. Received' /\ copy1' = << >>
    BY <1>1, <1>4 DEF Decoding, Received
  <2>2. default1' = FromDecode(cItem)'
    BY <1>1, <1>4 DEF FromDecode, Op
  <2>3. Decoding'
    BY <2>1, <2>2, <1>1, <1>4 DEF Decoding
  <2>. QED BY <2>3, <1>3, <1>4
<1>5. CASE /\ Decoding /\ default1' = DeliverOnly(cItem)
           /\ dst'[cItem.slot] = Payload[cItem.tensor] /\ recv' = recv
           /\ cPc \in {"await", "done"} /\ cItem \in Items
  <2>1. Received' /\ copy1' = << >>
    BY <1>1, <1>5 DEF Decoding, Received
  <2>2. default1' = DeliverOnly(cItem)'
    BY <1>1, <1>5 DEF DeliverOnly, Op
  <2>3. Decoding'
    BY <2>1, <2>2, <1>1, <1>5 DEF Decoding
  <2>. QED BY <2>3, <1>3, <1>5
<1>6. CASE /\ Decoding /\ default1' = << >> /\ recv' = recv
           /\ cPc \in {"await", "done"} /\ cItem \in Items
  BY <1>3, <1>6
<1>. QED BY <1>2, <1>4, <1>5, <1>6, DefaultSteps

LEMMA SinkNext ==
  ASSUME SoundTransport, HeldInv, SourceInv, SinkInv, [Next]_vars
  PROVE  SinkInv'
<1>1. CASE Consumer
  BY <1>1, ConsumerSink
<1>2. CASE RunCopy1
  BY <1>2, Copy1Sink
<1>3. CASE RunDefault1
  BY <1>3, DefaultSink
<1>4. CASE Producer \/ RunCopy0 \/ MRaise \/ MReturn \/ UNCHANGED vars
  <2>1. UNCHANGED <<cPc, cItem, copy1, default1, recv, dst>>
    BY <1>4 DEF Producer, ProducerStep, PGet, PEncode, PShip, PFlush, PAnnounce, PFinish,
       PFail, RunCopy0, MRaise, MReturn, vars, consumerVars, streams, buffers
  <2>. QED BY <2>1 DEF SinkInv, Idle, Landing, Filling, Decoding, Received, Fill, DeliverOnly,
           FromDecode, FromZeroDst, Op
<1>5. CASE MNextPass
  <2>1. cPc' = "get" /\ copy1' = << >> /\ default1' = << >>
    BY <1>5 DEF MNextPass, Joined, streams
  <2>. QED BY <2>1 DEF SinkInv, Idle
<1>. QED BY <1>1, <1>2, <1>3, <1>4, <1>5 DEF Next, Device, Main, Ended
-----------------------------------------------------------------------------
(* The queues.                                                              *)

LEMMA ProducerQueue ==
  ASSUME HeldInv, QueueInv, Producer
  PROVE  QueueInv'
<1>1. /\ cPc' = cPc /\ pPc # "done" /\ (cPc = "done" => err # << >>)
      /\ \A k \in DOMAIN ready : ready[k] # NoItem
      /\ free \in Seq(Slots \union {Stop}) /\ ready \in Seq(Items \union {NoItem})
  BY DEF Producer, ProducerStep, PGet, PEncode, PShip, PFlush, PAnnounce, PFinish, PFail,
     consumerVars, QueueInv, HeldInv, SlotsInv, TypeOK
<1>2. CASE PGet
  <2>1. /\ free # << >> /\ free' = Tail(free) /\ UNCHANGED <<ready, err>>
        /\ pPc' = "done" => Head(free) = Stop
    BY <1>2 DEF PGet
  <2>2. /\ 1 \in DOMAIN free /\ Head(free) = free[1]
        /\ \A k \in DOMAIN free' : k + 1 \in DOMAIN free /\ free'[k] = free[k + 1]
    BY <1>1, <2>1, HeadTailElements
  <2>3. pPc' = "done" => err # << >>
    BY <2>1, <2>2 DEF QueueInv
  <2>. QED BY <1>1, <2>1, <2>2, <2>3 DEF QueueInv
<1>3. CASE PEncode \/ PShip \/ PFlush
  <2>1. UNCHANGED <<free, ready, err>> /\ pPc' # "done"
    BY <1>3 DEF PEncode, PShip, PFlush, queues
  <2>. QED BY <1>1, <2>1 DEF QueueInv
<1>4. CASE PAnnounce
  <2>1. /\ ready' = Append(ready, pItem) /\ pItem \in Items /\ UNCHANGED <<free, err>>
        /\ pPc' # "done"
    BY <1>4 DEF PAnnounce, HeldInv, SlotsInv, TypeOK
  <2>2. \A k \in DOMAIN ready' : ready'[k] # NoItem
    BY <1>1, <2>1, AppendElements, SentinelsDiffer
  <2>. QED BY <1>1, <2>1, <2>2 DEF QueueInv
<1>5. CASE PFinish \/ PFail
  <2>1. /\ ready' = Append(ready, NoItem) /\ free' = free /\ pPc' = "done"
        /\ err' = err \/ err' = Append(err, "producer")
    BY <1>5 DEF PFinish, PFail
  <2>2. /\ DOMAIN ready = 1..Len(ready) /\ DOMAIN ready' = 1..(Len(ready) + 1)
        /\ Len(ready) \in Nat /\ Len(ready') = Len(ready) + 1
        /\ \A k \in DOMAIN ready' :
             ready'[k] = IF k \in DOMAIN ready THEN ready[k] ELSE NoItem
    <3>1. Len(ready') = Len(ready) + 1
      BY <1>1, <2>1, AppendProperties
    <3>. QED BY <3>1, <1>1, <2>1, AppendElements
  <2>3. /\ \A k \in DOMAIN ready' : ready'[k] = NoItem => k = Len(ready')
        /\ ready' # << >> /\ ready'[Len(ready')] = NoItem
    BY <1>1, <2>2
  <2>4. err' = << >> => err = << >>
    <3>1. err \in Seq({"producer", "consumer"})
      BY DEF HeldInv, SlotsInv, TypeOK
    <3>. QED BY <3>1, <2>1, AppendProperties
  <2>. QED BY <1>1, <2>1, <2>3, <2>4 DEF QueueInv
<1>. QED BY <1>2, <1>3, <1>4, <1>5 DEF Producer, ProducerStep

LEMMA ConsumerQueue ==
  ASSUME HeldInv, QueueInv, Consumer
  PROVE  QueueInv'
<1>1. /\ pPc' = pPc /\ cPc # "done"
      /\ free \in Seq(Slots \union {Stop}) /\ ready \in Seq(Items \union {NoItem})
      /\ cPc \notin {"get", "done"} => cItem \in Items
  BY DEF Consumer, ConsumerStep, CGet, CSync, CFetch, CLanded, CDecode, CAwait, CFree,
     CShortRead, CFail, ConsumerRaises, producerVars, HeldInv, SlotsInv, TypeOK
<1>2. CASE CGet
  <2>1. /\ ready # << >> /\ ready' = Tail(ready) /\ UNCHANGED <<free, err>>
        /\ cPc' = IF Head(ready) = NoItem THEN "done" ELSE "sync"
    BY <1>2 DEF CGet, IsNone
  <2>2. /\ 1 \in DOMAIN ready /\ Head(ready) = ready[1]
        /\ \A k \in DOMAIN ready' : k + 1 \in DOMAIN ready /\ ready'[k] = ready[k + 1]
        /\ Len(ready') = Len(ready) - 1 /\ Len(ready) \in Nat \ {0}
        /\ DOMAIN ready' = 1..Len(ready') /\ DOMAIN ready = 1..Len(ready)
    <3>1. Len(ready') = Len(ready) - 1 /\ Len(ready) \in Nat \ {0} /\ ready' \in Seq(Items \union {NoItem})
      BY <1>1, <2>1, HeadTailProperties, EmptySeq
    <3>. QED BY <3>1, <1>1, <2>1, HeadTailElements, LenProperties
  <2>3. \A k \in DOMAIN ready' : ready'[k] = NoItem => pPc = "done" /\ k = Len(ready')
    BY <2>2 DEF QueueInv
  <2>4. ASSUME pPc = "done", err = << >>, Head(ready) # NoItem
        PROVE  ready' # << >> /\ ready'[Len(ready')] = NoItem
    <3>1. ready[Len(ready)] = NoItem
      BY <1>1, <2>4 DEF QueueInv
    <3>2. Len(ready) # 1
      BY <3>1, <2>2, <2>4
    <3>3. Len(ready') \in DOMAIN ready'
      BY <3>2, <2>2
    <3>. QED BY <3>1, <3>3, <2>2
  <2>5. Head(ready) = NoItem => pPc = "done"
    BY <2>2 DEF QueueInv
  <2>. QED BY <1>1, <2>1, <2>3, <2>4, <2>5 DEF QueueInv
<1>3. CASE CSync \/ CFetch \/ CLanded \/ CDecode \/ CAwait
  <2>1. UNCHANGED <<free, ready, err>> /\ cPc' # "done"
    BY <1>3 DEF CSync, CFetch, CLanded, CDecode, CAwait, queues
  <2>. QED BY <1>1, <2>1 DEF QueueInv
<1>4. CASE CFree
  <2>1. /\ free' = Append(free, cItem.slot) /\ UNCHANGED <<ready, err>> /\ cPc' = "get"
        /\ cItem.slot \in Slots \union {Stop} /\ cItem.slot # Stop
    BY <1>1, <1>4, SentinelsDiffer DEF CFree
  <2>2. \A k \in DOMAIN free' : (k \in DOMAIN free /\ free'[k] = free[k]) \/ free'[k] # Stop
    BY <1>1, <2>1, AppendElements
  <2>. QED BY <1>1, <2>1, <2>2 DEF QueueInv
<1>5. CASE ConsumerRaises
  <2>1. ready' = ready /\ err' = Append(err, "consumer")
    BY <1>5 DEF ConsumerRaises
  <2>2. err' # << >>
    <3>1. err \in Seq({"producer", "consumer"})
      BY DEF HeldInv, SlotsInv, TypeOK
    <3>. QED BY <3>1, <2>1, AppendProperties
  <2>. QED BY <1>1, <2>1, <2>2 DEF QueueInv
<1>. QED BY <1>2, <1>3, <1>4, <1>5 DEF Consumer, ConsumerStep, CShortRead, CFail

LEMMA QueueNext ==
  ASSUME HeldInv, QueueInv, [Next]_vars
  PROVE  QueueInv'
<1>1. CASE Producer
  BY <1>1, ProducerQueue
<1>2. CASE Consumer
  BY <1>2, ConsumerQueue
<1>3. CASE Device \/ MRaise \/ MReturn \/ UNCHANGED vars
  <2>1. UNCHANGED <<pPc, cPc, free, ready, err>>
    BY <1>3 DEF Device, RunCopy0, RunCopy1, RunDefault1, MRaise, MReturn, vars, producerVars,
       consumerVars, queues
  <2>. QED BY <2>1 DEF QueueInv
<1>4. CASE MNextPass
  <2>1. /\ free' = FreshQueue /\ ready' = << >> /\ pPc' = "get" /\ cPc' = "get"
    BY <1>4 DEF MNextPass
  <2>2. \A k \in DOMAIN FreshQueue : FreshQueue[k] # Stop
    BY ConstantsAssumption DEF FreshQueue, Stop
  <2>. QED BY <2>1, <2>2 DEF QueueInv
<1>. QED BY <1>1, <1>2, <1>3, <1>4 DEF Next, Main, Ended
-----------------------------------------------------------------------------
(* The order.                                                               *)

\* Between two items nothing is owed.
LEMMA NotOwed ==
  ASSUME HeldInv, SinkInv
  PROVE  /\ cPc \in {"get", "free"} => ~Owed
         /\ default1 = << >> /\ cPc \in {"await", "done"} => ~Owed
         /\ Owed => cItem \in Items
<1>1. default1 = << >> => default1 \notin {FromZeroDst(cItem), FromDecode(cItem), DeliverOnly(cItem)}
  BY OpsLeft
<1>2. cPc \in {"get", "free"} => default1 = << >>
  BY DEF SinkInv, Idle
<1>3. cPc \in {"sync", "fetch", "landed", "decode"} => cItem \in Items
  BY DEF HeldInv, SlotsInv, TypeOK
<1>4. default1 # << >> => cItem \in Items
  BY SinkCases
<1>. QED BY <1>1, <1>2, <1>3, <1>4 DEF Owed

LEMMA ProducerOrder ==
  ASSUME HeldInv, SinkInv, QueueInv, NEW m \in 0..NTensors, OrderFrom(m), Producer
  PROVE  OrderFrom(m)'
<1>1. /\ UNCHANGED <<cPc, cItem, default1, copy1, out>> /\ pPc # "done"
      /\ ready \in Seq(Items \union {NoItem}) /\ pItem.tensor \in Tensors
  BY DEF Producer, ProducerStep, PGet, PEncode, PShip, PFlush, PAnnounce, PFinish, PFail,
     consumerVars, streams, buffers, HeldInv, SlotsInv, TypeOK
<1>2. NextUp(m)' = NextUp(m) /\ (Owed' <=> Owed) /\ DeliveredUpTo(m)' /\ NextUp(m) \in Nat
  BY <1>1, ConstantsAssumption
     DEF NextUp, Owed, OrderFrom, DeliveredUpTo, FromZeroDst, FromDecode, DeliverOnly, Op
<1>3. cPc = "done" => err # << >> /\ err' # << >>
  <2>1. cPc = "done" => err # << >>
    BY <1>1 DEF QueueInv
  <2>2. err' = err \/ err' = Append(err, "producer")
    BY DEF Producer, ProducerStep, PGet, PEncode, PShip, PFlush, PAnnounce, PFinish, PFail
  <2>3. err \in Seq({"producer", "consumer"})
    BY DEF HeldInv, SlotsInv, TypeOK
  <2>. QED BY <2>1, <2>2, <2>3, AppendProperties
<1>4. ASSUME cPc # "done"
      PROVE  /\ \A k \in DOMAIN ready' : ready'[k] # NoItem => ready'[k].tensor = NextUp(m) + k - 1
             /\ pPc' \notin {"finish", "done"} => pItem'.tensor = NextUp(m) + Len(ready')
             /\ pPc' = "finish" => NextUp(m) + Len(ready') = NTensors + 1
             /\ pPc' = "done" /\ err' = << >> => NextUp(m) + Len(ready') = NTensors + 2
  <2>1. /\ \A k \in DOMAIN ready : ready[k] # NoItem => ready[k].tensor = NextUp(m) + k - 1
        /\ pPc # "finish" => pItem.tensor = NextUp(m) + Len(ready)
        /\ pPc = "finish" => NextUp(m) + Len(ready) = NTensors + 1
    BY <1>1, <1>4 DEF OrderFrom
  <2>2. CASE PGet
    <3>1. /\ ready' = ready /\ pItem'.tensor = pItem.tensor /\ err' = err /\ pPc = "get"
          /\ pPc' # "finish"
          /\ pPc' = "done" => Head(free) = Stop /\ free # << >>
      BY <2>2 DEF PGet, HeldInv, SlotsInv, TypeOK
    <3>2. pPc' = "done" => err # << >>
      <4>1. free \in Seq(Slots \union {Stop})
        BY DEF HeldInv, SlotsInv, TypeOK
      <4>. QED BY <4>1, <3>1, HeadTailElements DEF QueueInv
    <3>. QED BY <2>1, <3>1, <3>2
  <2>3. CASE PEncode \/ PShip \/ PFlush
    <3>1. /\ ready' = ready /\ pItem' = pItem /\ pPc # "finish" /\ pPc' \notin {"finish", "done"}
      BY <2>3 DEF PEncode, PShip, PFlush, queues
    <3>. QED BY <2>1, <3>1
  <2>4. CASE PAnnounce
    <3>1. /\ ready' = Append(ready, pItem) /\ pPc = "announce" /\ pItem \in Items
          /\ \/ pItem.tensor < NTensors /\ pPc' = "get" /\ pItem'.tensor = pItem.tensor + 1
             \/ ~(pItem.tensor < NTensors) /\ pPc' = "finish"
      BY <2>4 DEF PAnnounce, HeldInv, SlotsInv, TypeOK
    <3>2. /\ DOMAIN ready = 1..Len(ready) /\ DOMAIN ready' = 1..(Len(ready) + 1)
          /\ Len(ready) \in Nat /\ Len(ready') = Len(ready) + 1
          /\ \A k \in DOMAIN ready' :
               ready'[k] = IF k \in DOMAIN ready THEN ready[k] ELSE pItem
      BY <1>1, <3>1, AppendElements, AppendProperties
    <3>3. \A k \in DOMAIN ready' : ready'[k] # NoItem => ready'[k].tensor = NextUp(m) + k - 1
      <4>1. SUFFICES ASSUME NEW k \in DOMAIN ready', ready'[k] # NoItem
                     PROVE  ready'[k].tensor = NextUp(m) + k - 1
        OBVIOUS
      <4>2. CASE k \in DOMAIN ready
        BY <4>1, <4>2, <3>2, <2>1
      <4>3. CASE k \notin DOMAIN ready
        <5>1. k = Len(ready) + 1 /\ ready'[k] = pItem
          BY <4>3, <3>2
        <5>. QED BY <5>1, <3>1, <3>2, <2>1, <1>2
      <4>. QED BY <4>2, <4>3
    <3>4. NTensors \in Nat /\ pItem.tensor \in 1..NTensors /\ pItem.tensor = NextUp(m) + Len(ready)
      BY <1>1, <2>1, <3>1, ConstantsAssumption DEF Tensors
    <3>. QED BY <3>1, <3>2, <3>3, <3>4, <1>2
  <2>5. CASE PFinish \/ PFail
    <3>1. /\ ready' = Append(ready, NoItem) /\ pPc' = "done"
          /\ \/ PFinish /\ pPc = "finish" /\ err' = err
             \/ PFail /\ err' = Append(err, "producer")
      BY <2>5 DEF PFinish, PFail
    <3>2. /\ DOMAIN ready = 1..Len(ready) /\ DOMAIN ready' = 1..(Len(ready) + 1)
          /\ Len(ready) \in Nat /\ Len(ready') = Len(ready) + 1
          /\ \A k \in DOMAIN ready' :
               ready'[k] = IF k \in DOMAIN ready THEN ready[k] ELSE NoItem
      BY <1>1, <3>1, AppendElements, AppendProperties
    <3>3. err' = << >> => PFinish
      <4>1. err \in Seq({"producer", "consumer"})
        BY DEF HeldInv, SlotsInv, TypeOK
      <4>. QED BY <4>1, <3>1, AppendProperties
    <3>4. pPc' = "done" /\ err' = << >> => NextUp(m) + Len(ready') = NTensors + 2
      <4>1. NTensors \in Nat
        BY ConstantsAssumption
      <4>2. PFinish => pPc = "finish"
        BY DEF PFinish
      <4>. QED BY <4>1, <4>2, <3>2, <3>3, <2>1, <1>2
    <3>. QED BY <3>1, <3>2, <3>4, <2>1
  <2>. QED BY <2>2, <2>3, <2>4, <2>5 DEF Producer, ProducerStep
<1>5. Owed' => cItem'.tensor = m + 1
  BY <1>1, <1>2 DEF OrderFrom
<1>. QED BY <1>1, <1>2, <1>3, <1>4, <1>5 DEF OrderFrom
\* A step that only takes the consumer's item further changes no place in the order.
LEMMA SameOrder ==
  ASSUME NEW m, OrderFrom(m), UNCHANGED <<out, ready, pPc, pItem, err, cItem>>,
         cPc # "done", cPc' # "done", Owed' <=> Owed
  PROVE  OrderFrom(m)'
<1>1. NextUp(m)' = NextUp(m)
  BY DEF NextUp
<1>. QED BY <1>1 DEF OrderFrom, DeliveredUpTo

LEMMA ConsumerOrder ==
  ASSUME HeldInv, SinkInv, QueueInv, NEW m \in 0..NTensors, OrderFrom(m), Consumer
  PROVE  OrderFrom(m)'
<1>1. /\ UNCHANGED <<pPc, pItem, out>> /\ cPc # "done"
      /\ ready \in Seq(Items \union {NoItem}) /\ NTensors \in Nat
      /\ cPc \notin {"get", "done"} => cItem \in Items
  BY ConstantsAssumption DEF Consumer, ConsumerStep, CGet, CSync, CFetch, CLanded, CDecode,
     CAwait, CFree, CShortRead, CFail, ConsumerRaises, producerVars, buffers, HeldInv,
     SlotsInv, TypeOK
<1>2. CASE CGet
  <2>1. /\ ready # << >> /\ ready' = Tail(ready) /\ cItem' = Head(ready)
        /\ UNCHANGED <<err, copy1, default1>> /\ cPc = "get"
        /\ cPc' = IF Head(ready) = NoItem THEN "done" ELSE "sync"
    BY <1>2 DEF CGet, IsNone, streams
  <2>2. /\ 1 \in DOMAIN ready /\ Head(ready) = ready[1]
        /\ \A k \in DOMAIN ready' : k + 1 \in DOMAIN ready /\ ready'[k] = ready[k + 1]
        /\ Len(ready') = Len(ready) - 1 /\ Len(ready) \in Nat
        /\ DOMAIN ready' \subseteq Nat
    BY <1>1, <2>1, HeadTailElements, HeadTailProperties, LenProperties
  <2>3. ~Owed /\ NextUp(m) = m + 1 /\ default1 = << >> /\ copy1 = << >>
    BY <2>1, NotOwed DEF NextUp, SinkInv, Idle
  <2>4. /\ DeliveredUpTo(m)
        /\ \A k \in DOMAIN ready : ready[k] # NoItem => ready[k].tensor = m + k
        /\ pPc \notin {"finish", "done"} => pItem.tensor = m + 1 + Len(ready)
        /\ pPc = "finish" => m + 1 + Len(ready) = NTensors + 1
        /\ pPc = "done" /\ err = << >> => m + 1 + Len(ready) = NTensors + 2
    <3>1. \A k \in DOMAIN ready : k \in Nat
      BY <1>1
    <3>. QED BY <1>1, <2>1, <2>3, <3>1 DEF OrderFrom
  <2>5. DeliveredUpTo(m)'
    BY <1>1, <2>4 DEF DeliveredUpTo
  <2>6. CASE Head(ready) = NoItem
    <3>1. cPc' = "done" /\ ~Owed'
      <4>1. default1' \notin {FromZeroDst(cItem)', FromDecode(cItem)', DeliverOnly(cItem)'}
        BY <2>1, <2>3 DEF FromZeroDst, FromDecode, DeliverOnly
      <4>. QED BY <2>1, <2>6, <4>1 DEF Owed
    <3>2. pPc = "done" /\ Len(ready) = 1
      BY <2>2, <2>6 DEF QueueInv
    <3>3. err' = << >> => m = NTensors
      BY <2>1, <2>4, <3>2, <1>1
    <3>. QED BY <2>1, <2>3, <2>5, <3>1, <3>3 DEF OrderFrom, Idle
  <2>7. CASE Head(ready) # NoItem
    <3>1. cPc' = "sync" /\ Owed'
      BY <2>1, <2>7 DEF Owed
    <3>2. NextUp(m)' = m + 2
      BY <3>1 DEF NextUp
    <3>3. cItem'.tensor = m + 1
      BY <2>1, <2>2, <2>4, <2>7
    <3>4. \A k \in DOMAIN ready' : ready'[k] # NoItem => ready'[k].tensor = (m + 2) + k - 1
      BY <2>2, <2>4
    <3>5. /\ pPc \notin {"finish", "done"} => pItem.tensor = (m + 2) + Len(ready')
          /\ pPc = "finish" => (m + 2) + Len(ready') = NTensors + 1
          /\ pPc = "done" /\ err = << >> => (m + 2) + Len(ready') = NTensors + 2
      BY <2>2, <2>4, <1>1
    <3>. QED BY <1>1, <2>1, <2>5, <3>1, <3>2, <3>3, <3>4, <3>5 DEF OrderFrom
  <2>. QED BY <2>6, <2>7
<1>3. CASE CSync \/ CFetch \/ CLanded
  <2>1. /\ cPc \in {"sync", "fetch", "landed"} /\ cPc' \in {"fetch", "landed", "decode"}
        /\ UNCHANGED <<ready, err, cItem>>
    BY <1>3 DEF CSync, CFetch, CLanded, queues
  <2>. QED BY <1>1, <2>1, SameOrder DEF Owed
<1>4. CASE CDecode
  <2>1. /\ cPc = "decode" /\ cPc' = "await" /\ UNCHANGED <<ready, err, cItem>>
        /\ default1' = default1 \o Issue(DeliverOps, cItem)
    BY <1>4 DEF CDecode, queues
  <2>2. default1' = IF Compressed THEN FromZeroDst(cItem) ELSE DeliverOnly(cItem)
    BY <2>1, <1>1, IssuedAlone, IssuedOps DEF SinkInv, Idle
  <2>3. Owed /\ Owed'
    BY <2>1, <2>2 DEF Owed, FromZeroDst, DeliverOnly, Op
  <2>. QED BY <1>1, <2>1, <2>3, SameOrder
<1>5. CASE CAwait \/ CFree
  <2>1. /\ cPc \in {"await", "free"} /\ cPc' \in {"get", "free"} /\ default1 = << >>
        /\ UNCHANGED <<ready, err, cItem, default1>>
    BY <1>5 DEF CAwait, CFree, DeliveryDone, streams, queues, SinkInv, Idle
  <2>2. ~Owed
    BY <2>1, NotOwed
  <2>3. ~Owed'
    BY <2>1, <2>2 DEF Owed, FromZeroDst, FromDecode, DeliverOnly, Op
  <2>. QED BY <1>1, <2>1, <2>2, <2>3, SameOrder
<1>6. CASE ConsumerRaises
  <2>1. cPc' = "done" /\ UNCHANGED <<cItem, default1>> /\ err' = Append(err, "consumer")
    BY <1>6 DEF ConsumerRaises, streams
  <2>2. err' # << >>
    <3>1. err \in Seq({"producer", "consumer"})
      BY DEF HeldInv, SlotsInv, TypeOK
    <3>. QED BY <3>1, <2>1, AppendProperties
  <2>3. Owed' => Owed
    BY <2>1 DEF Owed, FromZeroDst, FromDecode, DeliverOnly, Op
  <2>. QED BY <1>1, <2>1, <2>2, <2>3 DEF OrderFrom, DeliveredUpTo
<1>. QED BY <1>2, <1>3, <1>4, <1>5, <1>6 DEF Consumer, ConsumerStep, CShortRead, CFail

\* Of all steps within a pass only a delivery moves the order on.
LEMMA DefaultOrder ==
  ASSUME HeldInv, SinkInv, NEW m \in 0..NTensors, OrderFrom(m), RunDefault1
  PROVE  \/ OrderFrom(m)' /\ out' = out
         \/ /\ OrderFrom(m + 1)' /\ m + 1 \in Tensors
            /\ out' = [out EXCEPT ![m + 1] = Payload[m + 1]]
<1>1. UNCHANGED <<pPc, pItem, cPc, cItem, ready, err, copy1>> /\ default1 # << >> /\ NTensors \in Nat
  BY ConstantsAssumption DEF RunDefault1, producerVars, consumerVars, queues
<1>2. cItem \in Items
  BY DefaultSteps
<1>3. ASSUME out' = out, Owed' <=> Owed, cPc = "done" => err # << >>
      PROVE  OrderFrom(m)'
  <2>1. NextUp(m)' = NextUp(m)
    BY <1>3 DEF NextUp
  <2>. QED BY <2>1, <1>1, <1>3 DEF OrderFrom, DeliveredUpTo
<1>4. cPc = "done" => err # << >>
  BY <1>1 DEF OrderFrom, Idle
<1>5. CASE /\ default1 = Fill(cItem) /\ default1' = << >> /\ out' = out
           /\ cPc \in {"fetch", "landed", "done"}
  <2>1. Owed' <=> Owed
    BY <1>1, <1>5 DEF Owed, Fill, FromZeroDst, FromDecode, DeliverOnly, Op
  <2>. QED BY <2>1, <1>3, <1>4, <1>5
<1>6. CASE /\ \/ default1 = FromZeroDst(cItem) /\ default1' = FromDecode(cItem)
              \/ default1 = FromDecode(cItem) /\ default1' = DeliverOnly(cItem)
           /\ out' = out
  <2>1. Owed' /\ Owed
    BY <1>1, <1>6 DEF Owed, FromZeroDst, FromDecode, DeliverOnly, Op
  <2>. QED BY <2>1, <1>3, <1>4, <1>6
<1>7. CASE /\ default1 = DeliverOnly(cItem) /\ default1' = << >> /\ cPc \in {"await", "done"}
           /\ out' = [out EXCEPT ![cItem.tensor] = Payload[cItem.tensor]]
  <2>1. Owed
    BY <1>7 DEF Owed
  <2>2. ~Owed'
    <3>1. default1' \notin {FromZeroDst(cItem)', FromDecode(cItem)', DeliverOnly(cItem)'}
      BY <1>7 DEF FromZeroDst, FromDecode, DeliverOnly
    <3>. QED BY <1>1, <1>7, <3>1 DEF Owed
  <2>3. cItem.tensor = m + 1 /\ m + 1 \in Tensors
    BY <1>2, <2>1 DEF OrderFrom, Items
  <2>4. NextUp(m + 1)' = NextUp(m)
    BY <2>1, <2>2 DEF NextUp
  <2>5. DeliveredUpTo(m + 1)'
    <3>1. DeliveredUpTo(m) /\ out \in [Tensors -> Payloads \union {Nothing, Torn}]
      BY DEF OrderFrom, HeldInv, SlotsInv, TypeOK
    <3>. QED BY <3>1, <1>7, <2>3 DEF DeliveredUpTo, Tensors
  <2>6. OrderFrom(m + 1)'
    BY <1>1, <1>4, <2>2, <2>4, <2>5 DEF OrderFrom
  <2>. QED BY <1>7, <2>3, <2>6
<1>. QED BY <1>5, <1>6, <1>7, DefaultSteps
-----------------------------------------------------------------------------
(* The whole.                                                               *)

DeliveryInv == HeldInv /\ SourceInv /\ SinkInv /\ OrderInv /\ EndInv

\* A pass about to begin, whatever the buffers hold of what went before.
FreshPass ==
  /\ pPc = "get" /\ pItem = [tensor |-> 1, slot |-> Stop] /\ cPc = "get" /\ cItem = NoItem
  /\ free = FreshQueue /\ ready = << >> /\ err = << >>
  /\ copy0 = << >> /\ copy1 = << >> /\ default1 = << >>
  /\ out = [t \in Tensors |-> Nothing] /\ outcome = "running"

LEMMA FreshDelivery == ASSUME TypeOK, FreshPass PROVE DeliveryInv
<1>1. /\ pPc = "get" /\ cPc = "get" /\ ready = << >> /\ free = FreshQueue /\ err = << >>
      /\ copy0 = << >> /\ copy1 = << >> /\ default1 = << >>
      /\ pItem.tensor = 1 /\ out = [t \in Tensors |-> Nothing] /\ outcome = "running"
  BY DEF FreshPass
<1>2. HeldInv
  <2>1. SlotExclusive
    BY <1>1, FreshQueueType DEF SlotExclusive, FreeSlots, ReadySlots, ProducerHolds, ConsumerHolds
  <2>2. CopiesCurrent /\ StreamsDrained /\ NothingReusedWhileHeld
    BY <1>1 DEF CopiesCurrent, StreamsDrained, NothingReusedWhileHeld
  <2>. QED BY <2>1, <2>2 DEF HeldInv, SlotsInv
<1>3. SourceInv
  BY <1>1 DEF SourceInv, ScratchInv, TransitInv, PayloadInv, InTransit, OnFile
<1>4. SinkInv
  BY <1>1 DEF SinkInv, Idle
<1>5. QueueInv
  <2>1. \A k \in DOMAIN FreshQueue : FreshQueue[k] # Stop
    BY ConstantsAssumption DEF FreshQueue, Stop
  <2>. QED BY <2>1, <1>1 DEF QueueInv
<1>6. OrderFrom(0)
  <2>1. ~Owed /\ NextUp(0) = 1
    BY <1>1, <1>2, <1>4, NotOwed DEF NextUp
  <2>2. DeliveredUpTo(0)
    BY <1>1 DEF DeliveredUpTo, Tensors
  <2>. QED BY <2>1, <2>2, <1>1 DEF OrderFrom
<1>7. EndInv
  BY <1>1 DEF EndInv
<1>. QED BY <1>2, <1>3, <1>4, <1>5, <1>6, <1>7, ConstantsAssumption DEF DeliveryInv, OrderInv

LEMMA DeliveryInvInit == Init => DeliveryInv
<1>1. Init => FreshPass
  BY DEF Init, FreshPass
<1>. QED BY <1>1, InitTypeOK, FreshDelivery

\* A pass that ends without an exception has delivered everything.
LEMMA JoinedMeansAll ==
  ASSUME DeliveryInv, Joined, err = << >>
  PROVE  \A t \in Tensors : out[t] = Payload[t]
<1>1. PICK m \in 0..NTensors : OrderFrom(m)
  BY DEF DeliveryInv, OrderInv
<1>2. m = NTensors /\ DeliveredUpTo(m)
  BY <1>1 DEF Joined, OrderFrom
<1>. QED BY <1>2 DEF DeliveredUpTo, Tensors

LEMMA OrderNext ==
  ASSUME DeliveryInv, [Next]_vars
  PROVE  OrderInv'
<1>1. QueueInv'
  BY QueueNext DEF DeliveryInv, OrderInv
<1>2. PICK m \in 0..NTensors : OrderFrom(m)
  BY DEF DeliveryInv, OrderInv
<1>3. CASE Producer
  BY <1>1, <1>2, <1>3, ProducerOrder DEF DeliveryInv, OrderInv
<1>4. CASE Consumer
  BY <1>1, <1>2, <1>4, ConsumerOrder DEF DeliveryInv, OrderInv
<1>5. CASE RunDefault1
  <2>1. m + 1 \in Tensors => m + 1 \in 0..NTensors
    BY ConstantsAssumption DEF Tensors
  <2>. QED BY <1>1, <1>2, <1>5, <2>1, DefaultOrder DEF DeliveryInv, OrderInv
<1>6. CASE RunCopy0 \/ RunCopy1 \/ MRaise \/ MReturn \/ UNCHANGED vars
  <2>1. UNCHANGED <<pPc, pItem, cPc, cItem, ready, err, default1, out>>
    BY <1>6 DEF RunCopy0, RunCopy1, MRaise, MReturn, vars, producerVars, consumerVars, queues,
       streams, buffers
  <2>2. Owed' <=> Owed
    BY <2>1 DEF Owed, FromZeroDst, FromDecode, DeliverOnly, Op
  <2>3. NextUp(m)' = NextUp(m)
    BY <2>2 DEF NextUp
  <2>4. cPc = "done" /\ err = << >> => Idle'
    <3>1. cPc = "done" /\ err = << >> => copy1 = << >> /\ default1 = << >>
      BY <1>2 DEF OrderFrom, Idle
    <3>2. copy1 = << >> => copy1' = << >>
      BY <1>6 DEF RunCopy0, RunCopy1, MRaise, MReturn, vars, streams
    <3>. QED BY <3>1, <3>2, <2>1 DEF Idle
  <2>5. OrderFrom(m)'
    BY <1>2, <2>1, <2>2, <2>3, <2>4 DEF OrderFrom, DeliveredUpTo
  <2>. QED BY <1>1, <1>2, <2>5 DEF OrderInv
<1>7. CASE MNextPass
  <2>1. /\ pPc' = "get" /\ pItem'.tensor = 1 /\ cPc' = "get" /\ ready' = << >>
        /\ default1' = << >> /\ out' = ClearedOut
    BY <1>7 DEF MNextPass, Joined, streams
  <2>2. ~Owed'
    <3>1. default1' \notin {FromZeroDst(cItem)', FromDecode(cItem)', DeliverOnly(cItem)'}
      BY <2>1 DEF FromZeroDst, FromDecode, DeliverOnly
    <3>. QED BY <2>1, <3>1 DEF Owed
  <2>3. NextUp(0)' = 1
    BY <2>2 DEF NextUp
  <2>4. DeliveredUpTo(0)'
    BY <2>1 DEF DeliveredUpTo, ClearedOut, Tensors
  <2>5. OrderFrom(0)'
    BY <2>1, <2>2, <2>3, <2>4 DEF OrderFrom
  <2>. QED BY <1>1, <2>5, ConstantsAssumption DEF OrderInv
<1>. QED BY <1>3, <1>4, <1>5, <1>6, <1>7 DEF Next, Device, Main, Ended

\* A file comes up short only after a short write into a file of its own.
LEMMA EndNext ==
  ASSUME DeliveryInv, [Next]_vars
  PROVE  EndInv'
<1>1. outcome' # "running" => pPc' = "done" /\ cPc' = "done" /\ Idle'
  <2>1. CASE outcome = "running"
    <3>1. outcome' # "running" => MRaise \/ MReturn
      BY <2>1 DEF Next, Producer, ProducerStep, PGet, PEncode, PShip, PFlush, PAnnounce, PFinish,
         PFail, Consumer, ConsumerStep, CGet, CSync, CFetch, CLanded, CDecode, CAwait, CFree,
         CShortRead, CFail, ConsumerRaises, Device, RunCopy0, RunCopy1, RunDefault1, Main,
         MNextPass, Ended, vars, mainVars
    <3>. QED BY <3>1 DEF MRaise, MReturn, Joined, Idle, producerVars, consumerVars, streams
  <2>2. CASE outcome # "running"
    <3>1. pPc = "done" /\ cPc = "done" /\ copy1 = << >> /\ default1 = << >>
      BY <2>2 DEF DeliveryInv, EndInv, Idle
    <3>2. ~Producer
      BY <3>1 DEF Producer, ProducerStep, PGet, PEncode, PShip, PFlush, PAnnounce, PFinish, PFail
    <3>3. ~Consumer
      BY <3>1 DEF Consumer, ConsumerStep, CGet, CSync, CFetch, CLanded, CDecode, CAwait, CFree,
         CShortRead, CFail
    <3>4. RunCopy0 \/ UNCHANGED vars
      BY <2>2, <3>1, <3>2, <3>3 DEF Next, Device, RunCopy1, RunDefault1, Main, MRaise, MNextPass,
         MReturn, Joined, Ended
    <3>. QED BY <3>1, <3>4 DEF RunCopy0, vars, producerVars, consumerVars, streams, Idle
  <2>. QED BY <2>1, <2>2
<1>2. err' # << >> => Failures \/ (ShortWrites /\ Transport = "FileSpool")
  <2>1. CASE CShortRead
    <3>1. cPc = "fetch" /\ Transport # "HostRing" /\ ~Readable(cItem) /\ cItem \in Items
      BY <2>1 DEF CShortRead, DeliveryInv, HeldInv, SlotsInv, TypeOK
    <3>2. Written(cItem)
      BY <3>1 DEF DeliveryInv, SourceInv, TransitInv, OnFile
    <3>3. ~ShortWrites => file[cItem.slot].extent >= Bytes[cItem.tensor]
      BY <3>1, <3>2 DEF Written
    <3>. QED BY <3>1, <3>3, ConstantsAssumption DEF Readable
  <2>2. CASE PFail \/ CFail
    BY <2>2 DEF PFail, CFail
  <2>3. CASE ~CShortRead /\ ~PFail /\ ~CFail
    <3>1. err' = err
      BY <2>3 DEF Next, Producer, ProducerStep, PGet, PEncode, PShip, PFlush, PAnnounce, PFinish,
         Consumer, ConsumerStep, CGet, CSync, CFetch, CLanded, CDecode, CAwait, CFree,
         Device, RunCopy0, RunCopy1, RunDefault1, Main, MRaise, MNextPass, MReturn, Ended, vars
    <3>. QED BY <3>1 DEF DeliveryInv, EndInv
  <2>. QED BY <2>1, <2>2, <2>3
<1>. QED BY <1>1, <1>2 DEF EndInv
LEMMA DeliveryInvNext ==
  ASSUME SoundTransport
  PROVE  DeliveryInv /\ [Next]_vars => DeliveryInv'
  BY HeldInvNext, SourceNext, SinkNext, OrderNext, EndNext DEF DeliveryInv

LEMMA DeliveryInvHolds ==
  ASSUME SoundTransport
  PROVE  Spec => []DeliveryInv
<1>1. DeliveryInv /\ [Next]_vars => DeliveryInv'
  BY DeliveryInvNext
<1>. QED BY <1>1, DeliveryInvInit, PTL DEF Spec

\* No tensor is ever delivered with bytes that are not its own, whatever fails: a lost or
\* short write surfaces as an exception or not at all, never as data.
THEOREM DeliversNothingWrong ==
  ASSUME SoundTransport
  PROVE  Spec => []NeverWrong
<1>1. DeliveryInv => NeverWrong
  BY DEF DeliveryInv, OrderInv, OrderFrom, DeliveredUpTo, NeverWrong, Tensors
<1>2. Spec => []DeliveryInv
  BY DeliveryInvHolds
<1>. QED BY <1>1, <1>2, PTL

\* After a pass in which nobody raised gpu_out holds every tensor at once (one_pass's
\* docstring), so what the checked pass compares is all there.
THEOREM PassesDeliverAll ==
  ASSUME SoundTransport
  PROVE  Spec => []PassDeliversAll
<1>1. DeliveryInv => PassDeliversAll
  BY JoinedMeansAll DEF PassDeliversAll
<1>2. Spec => []DeliveryInv
  BY DeliveryInvHolds
<1>. QED BY <1>1, <1>2, PTL

LEMMA InitPromised == Init => Promise!Init
  BY DEF Init, Promise!Init, Promise!Tensors, Tensors, Nothing

\* Each step of threads, devices and main thread is a step of Delivery or none.
LEMMA StepPromised ==
  ASSUME SoundTransport, DeliveryInv, [Next]_vars
  PROVE  [Promise!Next]_<<out, pass, outcome>>
<1>1. CASE RunDefault1
  <2>1. UNCHANGED <<pass, outcome>> /\ default1 # << >>
    BY <1>1 DEF RunDefault1, mainVars
  <2>2. outcome = "running"
    BY <2>1 DEF DeliveryInv, EndInv, Idle
  <2>3. PICK m \in 0..NTensors : OrderFrom(m)
    BY DEF DeliveryInv, OrderInv
  <2>4. CASE out' = out
    BY <2>1, <2>4
  <2>5. CASE m + 1 \in Tensors /\ out' = [out EXCEPT ![m + 1] = Payload[m + 1]]
    <3>1. \A u \in Tensors : out[u] = IF u <= m THEN Payload[u] ELSE 0
      BY <2>3 DEF OrderFrom, DeliveredUpTo, Nothing
    <3>2. out[m + 1] = 0
      BY <3>1, <2>3, <2>5
    <3>3. \A u \in 1..((m + 1) - 1) : out[u] = Payload[u]
      BY <3>1, <2>3, <2>5, ConstantsAssumption DEF Tensors
    <3>4. Promise!Deliver
      BY <2>1, <2>2, <2>5, <3>2, <3>3 DEF Promise!Deliver, Promise!Tensors, Tensors
    <3>. QED BY <3>4 DEF Promise!Next
  <2>. QED BY <1>1, <2>3, <2>4, <2>5, DefaultOrder DEF DeliveryInv
<1>2. CASE MNextPass
  <2>1. /\ outcome = "running" /\ pass < Passes /\ Joined /\ err = << >>
        /\ out' = ClearedOut /\ pass' = pass + 1 /\ outcome' = outcome
    BY <1>2 DEF MNextPass, Joined
  <2>2. \A t \in Tensors : out[t] = Payload[t]
    BY <2>1, JoinedMeansAll
  <2>3. Promise!NextPass
    BY <2>1, <2>2 DEF Promise!NextPass, Promise!AllDelivered, Promise!Tensors, Tensors,
       ClearedOut, Nothing
  <2>. QED BY <2>3 DEF Promise!Next
<1>3. CASE MReturn
  <2>1. /\ outcome = "running" /\ pass = Passes /\ Joined /\ err = << >>
        /\ outcome' = "returned" /\ UNCHANGED <<out, pass>>
    BY <1>3 DEF MReturn, Joined, buffers
  <2>2. \A t \in Tensors : out[t] = Payload[t]
    BY <2>1, JoinedMeansAll
  <2>3. Promise!Return
    BY <2>1, <2>2 DEF Promise!Return, Promise!AllDelivered, Promise!Tensors, Tensors
  <2>. QED BY <2>3 DEF Promise!Next
<1>4. CASE MRaise
  <2>1. /\ outcome = "running" /\ err # << >>
        /\ outcome' = "raised" /\ UNCHANGED <<out, pass>>
    BY <1>4 DEF MRaise, Joined, buffers
  <2>2. Failures \/ (ShortWrites /\ Transport = "FileSpool")
    BY <2>1 DEF DeliveryInv, EndInv
  <2>3. Promise!Raise
    BY <2>1, <2>2 DEF Promise!Raise
  <2>. QED BY <2>3 DEF Promise!Next
<1>5. CASE Producer \/ Consumer \/ RunCopy0 \/ RunCopy1 \/ UNCHANGED vars
  <2>1. CASE Producer
    BY <2>1 DEF Producer, ProducerStep, PGet, PEncode, PShip, PFlush, PAnnounce, PFinish, PFail,
       buffers, mainVars
  <2>2. CASE Consumer
    BY <2>2 DEF Consumer, ConsumerStep, CGet, CSync, CFetch, CLanded, CDecode, CAwait, CFree,
       CShortRead, CFail, ConsumerRaises, buffers, mainVars
  <2>3. CASE RunCopy0 \/ RunCopy1 \/ UNCHANGED vars
    BY <2>3 DEF RunCopy0, RunCopy1, vars, buffers, mainVars
  <2>. QED BY <1>5, <2>1, <2>2, <2>3
<1>. QED BY <1>1, <1>2, <1>3, <1>4, <1>5 DEF Next, Device, Main, Ended

\* The relay implements in-order, all-or-raise delivery: run_pipeline as its caller sees it
\* begins as Delivery does and takes only its steps.
THEOREM ImplementsDeliverySafely ==
  ASSUME SoundTransport
  PROVE  Spec => Promise!Init /\ [][Promise!Next]_<<out, pass, outcome>>
<1>1. DeliveryInv /\ [Next]_vars => [Promise!Next]_<<out, pass, outcome>>
  BY StepPromised
<1>2. Spec => []DeliveryInv
  BY DeliveryInvHolds
<1>. QED BY <1>1, <1>2, InitPromised, PTL DEF Spec
=============================================================================
