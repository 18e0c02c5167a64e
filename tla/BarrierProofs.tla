---------------------------- MODULE BarrierProofs ----------------------------
(***************************************************************************)
(* DurabilityBarrier for any number of channels, frames, restarts and      *)
(* takeovers: its invariants, the silence of a fenced writer, and that it  *)
(* implements WireRelease.                                                 *)
(***************************************************************************)
EXTENDS BarrierLemmas

-----------------------------------------------------------------------------
(* Connections, timeouts and failures.                                      *)

\* A channel keeps its queue and changes the state of its loop or of its link.
LEMMA WireMarkedAt ==
    ASSUME BInv, NEW c \in Channel, NEW l, NEW k,
           loop' = [loop EXCEPT ![c] = l], link' = [link EXCEPT ![c] = k],
           UNCHANGED <<queue, sent, tip, mark>>,
           ChannelGood(queue[c], l, k, sent[c], tip, mark)
    PROVE  WireGood'
<1>1. /\ queue' = [queue EXCEPT ![c] = queue[c]] /\ sent' = [sent EXCEPT ![c] = sent[c]]
      /\ tip' \in Nat /\ mark' \in Nat /\ tip <= tip' /\ mark <= mark'
      /\ ChannelGood(queue[c], l, k, sent[c], tip', mark')
  BY Books DEF BInv, WireGood
<1> QED
  BY Zenon, <1>1, WireChangedAt

\* A save is refused.
LEMMA PersistFailsStep ==
    ASSUME BInv, NEW c \in Channel, PersistFails(c)
    PROVE  BInv' /\ Promised
<1>1. /\ link[c] = "up" /\ link' = [link EXCEPT ![c] = "closing"]
      /\ UNCHANGED <<tip, mark, generation, stored, taken, retired, barrier, pump,
                     orphans, gate, ask, queue, loop, sent, seen, restarts>>
  BY DEF PersistFails, disk, guardians, replication, ownership
<1>2. PICK k : k = "closing"
  OBVIOUS
<1>3. ChannelGood(queue[c], loop[c], k, sent[c], tip, mark)
  <2>1. ChannelGood(queue[c], loop[c], link[c], sent[c], tip, mark)
    BY DEF BInv, WireGood
  <2> QED
    BY <1>2, <2>1 DEF ChannelGood
<1>4. loop' = [loop EXCEPT ![c] = loop[c]] /\ link' = [link EXCEPT ![c] = k]
  BY <1>1, <1>2 DEF BInv, WireGood
<1>5. WireGood'
  BY Zenon, <1>1, <1>3, <1>4, WireMarkedAt
<1>6. /\ tip' \in tip..MaxFrames /\ seen' \in 0..mark /\ orphans' \subseteq 1..tip'
      /\ PumpGood(pump', tip', mark, generation)
  BY <1>1, Books
<1>7. BInv'
  BY <1>1, <1>5, <1>6, ChannelStepGood
<1>8. Promise!Breaks(c)
  <2>1. [d \in Channel |-> link'[d] # "up"] =
           [[d \in Channel |-> link[d] # "up"] EXCEPT ![c] = TRUE]
    BY Zenon, <1>1 DEF BInv, WireGood
  <2> QED
    BY <1>1, <2>1 DEF Promise!Breaks
<1> QED
  BY <1>7, <1>8 DEF Promised, Promise!Next

\* The timer of a wait fires.
LEMMA TimesOutStep ==
    ASSUME BInv, NEW c \in Channel, TimesOut(c)
    PROVE  BInv' /\ Promised
<1>1. /\ loop[c] = "parked" /\ loop' = [loop EXCEPT ![c] = "refused"]
      /\ UNCHANGED <<tip, mark, generation, stored, taken, retired, barrier, pump,
                     orphans, gate, ask, queue, link, sent, seen, restarts>>
  BY DEF TimesOut, disk, guardians, replication, ownership
<1>2. PICK l : l = "refused"
  OBVIOUS
<1>3. ChannelGood(queue[c], loop[c], link[c], sent[c], tip, mark)
  BY DEF BInv, WireGood
<1>4. ChannelGood(queue[c], l, link[c], sent[c], tip, mark) /\ link[c] # "down"
  BY <1>1, <1>2, <1>3 DEF ChannelGood
<1>5. link' = [link EXCEPT ![c] = link[c]] /\ loop' = [loop EXCEPT ![c] = l]
  BY <1>1, <1>2 DEF BInv, WireGood
<1>6. WireGood'
  BY Zenon, <1>1, <1>4, <1>5, WireMarkedAt
<1>7. /\ tip' \in tip..MaxFrames /\ seen' \in 0..mark /\ orphans' \subseteq 1..tip'
      /\ PumpGood(pump', tip', mark, generation)
  BY <1>1, Books
<1>8. BInv'
  BY <1>1, <1>4, <1>6, <1>7, ChannelStepGood
<1> QED
  BY <1>1, <1>8, Books, StoresIsPromised

\* A connection ends: everything held is purged.
LEMMA DropsLinkStep ==
    ASSUME BInv, NEW c \in Channel, link[c] # "down", DropsLink(c)
    PROVE  BInv' /\ Promised
<1>1. /\ link' = [link EXCEPT ![c] = "down"] /\ queue' = [queue EXCEPT ![c] = << >>]
      /\ loop' = [loop EXCEPT ![c] = "none"] /\ sent' = [sent EXCEPT ![c] = 0]
      /\ orphans' = orphans \cup
            (IF loop[c] = "parked" THEN {queue[c][1].frame} ELSE {})
      /\ UNCHANGED <<tip, mark, generation, stored, taken, retired, barrier, pump,
                     gate, ask, seen, restarts>>
  BY DEF DropsLink, disk, guardians, ownership
<1>2. PICK k \in {"down", "up", "closing"}, s \in 0..tip : k = "down" /\ s = 0
  BY Books
<1>3. WireGood'
  <2>1. link' = [link EXCEPT ![c] = k] /\ sent' = [sent EXCEPT ![c] = s]
    BY <1>1, <1>2
  <2> QED
    BY Zenon, <1>1, <1>2, <2>1, WireEmptied
<1>4. loop[c] = "parked" => queue[c][1].frame \in 1..tip
  <2> SUFFICES ASSUME loop[c] = "parked" PROVE queue[c][1].frame \in 1..tip
    OBVIOUS
  <2>1. 1 \in 1..Len(queue[c]) /\ queue[c][1].frame \in Nat
    BY LoopHasQueue
  <2>2. ChannelGood(queue[c], loop[c], link[c], sent[c], tip, mark)
    BY DEF BInv, WireGood
  <2> QED
    BY <2>1, <2>2, Books DEF ChannelGood
<1>5. /\ tip' \in tip..MaxFrames /\ seen' \in 0..mark /\ orphans' \subseteq 1..tip'
      /\ PumpGood(pump', tip', mark, generation)
  BY <1>1, <1>4, Books
<1>6. BInv'
  BY <1>1, <1>3, <1>5, ChannelStepGood
<1>7. Promise!Drops({c})
  <2>1. queue' = [d \in Channel |-> IF d \in {c} THEN << >> ELSE queue[d]]
    BY Zenon, <1>1 DEF BInv, WireGood
  <2>2. sent' = [d \in Channel |-> IF d \in {c} THEN 0 ELSE sent[d]]
    BY Zenon, <1>1 DEF BInv, WireGood
  <2>3. [d \in Channel |-> link'[d] # "up"] =
           [d \in Channel |-> d \in {c} \/ [e \in Channel |-> link[e] # "up"][d]]
    BY Zenon, <1>1 DEF BInv, WireGood
  <2> QED
    BY Zenon, <1>1, <2>1, <2>2, <2>3 DEF Promise!Drops
<1> QED
  BY Zenon, <1>6, <1>7 DEF Promised, Promise!Next

\* A peer connects.
LEMMA ConnectsPeerStep ==
    ASSUME BInv, NEW c \in Channel, ConnectsPeer(c)
    PROVE  BInv' /\ Promised
<1>1. /\ link[c] = "down" /\ gate = "confirmed" /\ barrier = "open"
      /\ link' = [link EXCEPT ![c] = "up"]
      /\ UNCHANGED <<tip, mark, generation, stored, taken, retired, barrier, pump,
                     orphans, gate, ask, queue, loop, sent, seen, restarts>>
  BY DEF ConnectsPeer, PermitsPeerTraffic, disk, guardians, replication, ownership
<1>2. PICK k : k = "up"
  OBVIOUS
<1>3. ChannelGood(queue[c], loop[c], link[c], sent[c], tip, mark)
  BY DEF BInv, WireGood
<1>4. ChannelGood(queue[c], loop[c], k, sent[c], tip, mark)
  BY <1>2, <1>3 DEF ChannelGood
<1>5. loop' = [loop EXCEPT ![c] = loop[c]] /\ link' = [link EXCEPT ![c] = k]
  BY <1>1, <1>2 DEF BInv, WireGood
<1>6. WireGood'
  BY Zenon, <1>1, <1>4, <1>5, WireMarkedAt
<1>7. BInv'
  BY <1>1, <1>6 DEF BInv, BooksGood, SilentGood
<1>8. Promise!Replaces(c)
  <2>1. queue[c] = << >> /\ sent[c] = 0
    BY <1>1, <1>3 DEF ChannelGood
  <2>2. [d \in Channel |-> link'[d] # "up"] =
           [[d \in Channel |-> link[d] # "up"] EXCEPT ![c] = FALSE]
    BY Zenon, <1>1 DEF BInv, WireGood
  <2> QED
    BY Zenon, <1>1, <2>1, <2>2 DEF Promise!Replaces
<1> QED
  BY <1>7, <1>8 DEF Promised, Promise!Next

-----------------------------------------------------------------------------
(* The writer, and the other devices.                                       *)

\* A wait is for a frame of the journal.
LEMMA WaitingFrames ==
    ASSUME BInv PROVE Waiting(loop, queue) \subseteq 1..tip
<1> SUFFICES ASSUME NEW c \in Channel, loop[c] = "parked"
             PROVE  queue[c][1].frame \in 1..tip
  BY DEF Waiting
<1>1. 1 \in 1..Len(queue[c]) /\ queue[c][1].frame \in Nat
  BY LoopHasQueue
<1>2. ChannelGood(queue[c], loop[c], link[c], sent[c], tip, mark)
  BY DEF BInv, WireGood
<1> QED
  BY <1>1, <1>2, Books DEF ChannelGood

\* A step that leaves the wire alone, or freezes it, and moves no frame.
LEMMA QuietStepGood ==
    ASSUME BInv, UNCHANGED <<tip, mark, generation, stored, seen>>,
           UNCHANGED <<queue, loop, link, sent>> \/ Freezes,
           taken' \subseteq Generations, retired' \subseteq Generations,
           barrier' \in {"open", "fenced", "stopped"},
           gate' \in {"quarantined", "confirmed", "fenced"},
           ask' \in [kind : {"none", "confirm", "recheck"},
                     set : 0..MaxGeneration, clean : BOOLEAN],
           orphans' \subseteq 1..tip, restarts' \in 0..MaxRestarts,
           PumpGood(pump', tip, mark, generation),
           Freezes \/ (barrier' # "open" => barrier' = barrier),
           Freezes \/ (gate' = "fenced" => gate' = gate)
    PROVE  BInv' /\ Promised
<1>1. tip \in Nat /\ mark \in Nat /\ tip' \in Nat /\ mark' \in Nat
      /\ tip <= tip' /\ mark <= mark' /\ stored[generation] \in Nat
  BY Books
<1>2. BooksGood'
  BY DEF BInv, BooksGood
<1>3. CASE Freezes
  <2>1. WireGood' /\ SilentGood'
    BY <1>1, <1>3, WireFrozen DEF SilentGood
  <2>2. Promised
    BY <1>3, FreezeIsPromised
  <2> QED
    BY <1>2, <2>1, <2>2 DEF BInv
<1>4. CASE ~Freezes
  <2>1. WireGood'
    BY <1>1, <1>4, WireKept
  <2>2. SilentGood'
    BY <1>4 DEF BInv, SilentGood
  <2>3. Promised
    BY <1>1, <1>4, StoresIsPromised
  <2> QED
    BY <1>2, <2>1, <2>2, <2>3 DEF BInv
<1> QED
  BY <1>3, <1>4

\* The types of what the steps of the writer leave alone.
LEMMA BookTypes ==
    ASSUME BInv
    PROVE  /\ taken \subseteq Generations /\ retired \subseteq Generations
           /\ barrier \in {"open", "fenced", "stopped"}
           /\ gate \in {"quarantined", "confirmed", "fenced"}
           /\ ask \in [kind : {"none", "confirm", "recheck"},
                       set : 0..MaxGeneration, clean : BOOLEAN]
           /\ NoQuestion \in [kind : {"none", "confirm", "recheck"},
                              set : 0..MaxGeneration, clean : BOOLEAN]
           /\ orphans \subseteq 1..tip /\ restarts \in 0..MaxRestarts
           /\ generation \in 0..MaxGeneration
           /\ PumpGood(pump, tip, mark, generation)
           /\ PumpGood(Idle, tip, mark, generation)
           /\ PumpGood(Pass(tip, mark), tip, mark, generation)
           /\ PumpGood(Kick(pump, tip), tip, mark, generation)
<1>1. /\ PumpGood(Idle, tip, mark, generation)
      /\ PumpGood(Pass(tip, mark), tip, mark, generation)
      /\ PumpGood(Kick(pump, tip), tip, mark, generation)
  <2>1. tip \in 0..tip
    BY Books
  <2> QED
    BY <2>1, Books, PumpIsGood
<1>2. NoQuestion \in [kind : {"none", "confirm", "recheck"},
                      set : 0..MaxGeneration, clean : BOOLEAN]
  <2>1. 0 \in 0..MaxGeneration
    BY BarrierConstants
  <2> QED
    BY <2>1 DEF NoQuestion
<1>3. generation \in 0..MaxGeneration
  BY BarrierConstants DEF BInv, BooksGood, Generations
<1> QED
  BY <1>1, <1>2, <1>3 DEF BInv, BooksGood

\* The waits of purged queues, the retry timer, and the ownership questions.
LEMMA QuietWriterStep ==
    ASSUME BInv,
           \/ OrphanTimesOut \/ RetriesPass \/ AsksGuardians \/ GateOpens
           \/ AsksInVain \/ GateFences \/ PassIsFenced \/ Stops
    PROVE  BInv' /\ Promised
<1> USE DEF disk, guardians, replication, ownership, wire
<1>1. CASE OrphanTimesOut
  BY <1>1, BookTypes, QuietStepGood DEF OrphanTimesOut
<1>2. CASE RetriesPass
  BY <1>2, BookTypes, QuietStepGood DEF RetriesPass
<1>3. CASE AsksGuardians
  <2>1. ask' \in [kind : {"none", "confirm", "recheck"},
                  set : 0..MaxGeneration, clean : BOOLEAN]
    BY <1>3, BookTypes DEF AsksGuardians
  <2> QED
    BY <1>3, <2>1, BookTypes, QuietStepGood DEF AsksGuardians
<1>4. CASE GateOpens
  BY <1>4, BookTypes, QuietStepGood DEF GateOpens
<1>5. CASE AsksInVain
  BY <1>5, BookTypes, QuietStepGood DEF AsksInVain
<1>6. CASE GateFences
  <2>1. Freezes /\ seen' = seen
    BY <1>6 DEF GateFences, Freezes
  <2> QED
    BY <1>6, <2>1, BookTypes, WaitingFrames, QuietStepGood DEF GateFences
<1>7. CASE PassIsFenced
  <2>1. CASE barrier = "stopped"
    BY <1>7, <2>1, BookTypes, QuietStepGood DEF PassIsFenced
  <2>2. CASE barrier # "stopped"
    <3>1. Freezes /\ seen' = seen /\ barrier' = "fenced" /\ orphans' = {}
      BY <1>7, <2>2 DEF PassIsFenced, Freezes
    <3> QED
      BY <1>7, <2>2, <3>1, BookTypes, QuietStepGood DEF PassIsFenced
  <2> QED
    BY <2>1, <2>2
<1>8. CASE Stops
  <2>1. Freezes /\ seen' = seen
    BY <1>8 DEF Stops, Freezes
  <2> QED
    BY <1>8, <2>1, BookTypes, QuietStepGood DEF Stops
<1> QED
  BY <1>1, <1>2, <1>3, <1>4, <1>5, <1>6, <1>7, <1>8

\* The process restarts.
LEMMA ForgetsMemoryStep ==
    ASSUME BInv, ForgetsMemory, UNCHANGED <<disk, guardians>>
    PROVE  BInv' /\ Promised
<1>1. Freezes /\ seen' = seen
  BY DEF ForgetsMemory, Freezes
<1>2. restarts' \in 0..MaxRestarts
  BY BookTypes, BarrierConstants DEF ForgetsMemory
<1> QED
  BY <1>1, <1>2, BookTypes, QuietStepGood DEF ForgetsMemory, disk, guardians

\* Another device takes a set over.
LEMMA TakesOverStep ==
    ASSUME BInv, NEW s \in Generations, TakesOver(s)
    PROVE  BInv' /\ Promised
<1>1. taken' \subseteq Generations
  BY BookTypes DEF TakesOver
<1> QED
  BY <1>1, BookTypes, QuietStepGood DEF TakesOver, disk, replication, ownership, wire

\* Advance releases only the waiters that the new watermark covers.
LEMMA AdvanceGood ==
    ASSUME BInv, NEW through \in Nat, mark <= through, mark' = through,
           Advance(through) \/ UNCHANGED <<loop, orphans>>,
           UNCHANGED <<tip, queue, link, sent>>
    PROVE  WireGood' /\ orphans' \subseteq orphans
<1>1. orphans' \subseteq orphans
  BY DEF Advance
<1>2. tip \in Nat /\ mark \in Nat
  BY Books
<1>3. loop' \in [Channel -> {"none", "parked", "durable", "refused"}]
  BY DEF BInv, WireGood, Advance
<1>4. ASSUME NEW c \in Channel
      PROVE  ChannelGood(queue'[c], loop'[c], link'[c], sent'[c], tip', mark')
  <2>1. ChannelGood(queue[c], loop[c], link[c], sent[c], tip, mark)
    BY DEF BInv, WireGood
  <2>2. ChannelGood(queue[c], loop[c], link[c], sent[c], tip, through)
    BY <1>2, <2>1, ChannelGoodLater
  <2>3. \/ loop'[c] = loop[c]
        \/ loop[c] = "parked" /\ loop'[c] = "durable" /\ queue[c][1].frame <= through
    BY DEF Advance, BInv, WireGood
  <2>4. ChannelGood(queue[c], loop'[c], link[c], sent[c], tip, through)
    BY <2>2, <2>3 DEF ChannelGood
  <2> QED
    BY <2>4
<1> QED
  BY <1>1, <1>3, <1>4 DEF BInv, WireGood

\* A pass ends: the receipts of a quorum raise the watermark to a frame that
\* the set of the pass holds, and that set is the configured one or the frame
\* is below the watermark already.
LEMMA PassEndsStep ==
    ASSUME BInv, PassEnds
    PROVE  BInv' /\ Promised
<1>1. /\ tip \in Nat /\ mark \in Nat /\ mark <= tip /\ generation \in Generations
      /\ pump.set \in Generations /\ pump.tip \in 0..tip
      /\ pump.set # generation => pump.tip <= mark
      /\ stored \in [Generations -> 0..tip] /\ mark <= stored[generation]
      /\ stored[pump.set] \in 0..tip /\ stored[generation] \in 0..tip
  <2>1. pump.set \in Generations /\ pump.tip \in 0..tip
    BY Books DEF PassEnds, PumpGood
  <2> QED
    BY <2>1, Books DEF PumpGood, BInv, BooksGood
<1>2. PICK held \in stored[pump.set]..(IF pump.set \in taken THEN 0 ELSE pump.tip)
                   \cup {stored[pump.set]} :
      \E through \in mark..(IF held < pump.tip THEN held ELSE pump.tip) \cup {mark} :
          /\ stored' = [stored EXCEPT ![pump.set] = held]
          /\ mark' = through
          /\ IF barrier = "stopped"
             THEN pump' = Idle /\ UNCHANGED <<loop, orphans>>
             ELSE /\ Advance(through)
                  /\ pump' = IF Waiting(loop', queue) \cup orphans' # {}
                             THEN [Idle EXCEPT !.at = "delay"]
                             ELSE IF pump.kicked THEN Pass(tip, through)
                             ELSE Idle
  BY Zenon DEF PassEnds
<1>3. PICK through \in mark..(IF held < pump.tip THEN held ELSE pump.tip) \cup {mark} :
          /\ stored' = [stored EXCEPT ![pump.set] = held]
          /\ mark' = through
          /\ IF barrier = "stopped"
             THEN pump' = Idle /\ UNCHANGED <<loop, orphans>>
             ELSE /\ Advance(through)
                  /\ pump' = IF Waiting(loop', queue) \cup orphans' # {}
                             THEN [Idle EXCEPT !.at = "delay"]
                             ELSE IF pump.kicked THEN Pass(tip, through)
                             ELSE Idle
  BY <1>2
<1>4. held \in 0..tip /\ stored[pump.set] <= held
  BY <1>1
<1>5. /\ through \in 0..tip /\ through \in Nat /\ mark <= through
      /\ through = mark \/ (through <= held /\ through <= pump.tip)
  BY <1>1, <1>4
<1>6. UNCHANGED <<tip, generation, taken, retired, barrier, gate, ask, queue, link,
                  sent, seen, restarts>>
  BY DEF PassEnds, ownership
<1>7. WireGood' /\ orphans' \subseteq 1..tip
  BY <1>3, <1>5, <1>6, Books, AdvanceGood
<1>8. /\ stored' \in [Generations -> 0..tip]
      /\ stored[generation] <= stored'[generation] /\ mark' <= stored'[generation]
  <2>1. CASE pump.set = generation
    BY <1>1, <1>3, <1>4, <1>5, <2>1
  <2>2. CASE pump.set # generation
    <3>1. stored'[generation] = stored[generation] /\ through = mark
      BY <1>1, <1>3, <1>5, <2>2
    <3> QED
      BY <1>1, <1>3, <1>4, <3>1
  <2> QED
    BY <2>1, <2>2
<1>9. PumpGood(pump', tip, through, generation)
  <2>1. /\ PumpGood(Idle, tip, through, generation)
        /\ PumpGood([Idle EXCEPT !.at = "delay"], tip, through, generation)
        /\ PumpGood(Pass(tip, through), tip, through, generation)
    <3>1. tip \in 0..tip
      BY <1>1
    <3> QED
      BY Zenon, <1>1, <1>5, <3>1, PumpIsGood
  <2>2. \/ pump' = Idle \/ pump' = [Idle EXCEPT !.at = "delay"]
        \/ pump' = Pass(tip, through)
    BY <1>3
  <2> QED
    BY <2>1, <2>2
<1>10. mark' \in 0..tip /\ seen' \in 0..mark'
  BY <1>1, <1>3, <1>5, <1>6, Books
<1>11. BooksGood'
  BY <1>3, <1>6, <1>7, <1>8, <1>9, <1>10 DEF BInv, BooksGood
<1>12. SilentGood'
  BY <1>6 DEF BInv, SilentGood
<1>13. Promised
  BY <1>6, <1>8, StoresIsPromised
<1> QED
  BY <1>7, <1>11, <1>12, <1>13 DEF BInv

-----------------------------------------------------------------------------
(* The invariant and what it implies.                                       *)

\* A step of a channel or of the writer.
LEMMA SharedStep ==
    ASSUME BInv, (\E c \in Channel : ChannelSteps(c)) \/ WriterSteps
    PROVE  BInv' /\ Promised
<1>1. ASSUME NEW c \in Channel, ChannelSteps(c) PROVE BInv' /\ Promised
  BY <1>1, ProcessesBatchStep, ProcessesUnsavedStep, PersistFailsStep,
     ReleasesStep, DispatchThrowsStep, TimesOutStep, DropsLinkStep,
     ConnectsPeerStep
     DEF ChannelSteps, LosesPeer, DisconnectsPeer
<1>2. CASE WriterSteps
  BY <1>2, QuietWriterStep, PassEndsStep DEF WriterSteps
<1> QED
  BY <1>1, <1>2

\* A step of something else.
LEMMA BarrierStutter == ASSUME BInv, UNCHANGED vars PROVE BInv' /\ Promised
<1>1. /\ UNCHANGED <<tip, mark, generation, stored, taken, retired, barrier, pump,
                     orphans, gate, ask, restarts>>
      /\ UNCHANGED <<queue, loop, link, sent, seen>>
  BY DEF vars, disk, guardians, replication, ownership, wire
<1> QED
  BY <1>1, BookTypes, QuietStepGood

\* A step of DurabilityBarrier.
LEMMA BarrierStep == ASSUME BInv, [Next]_vars PROVE BInv' /\ Promised
<1>1. CASE (\E c \in Channel : ChannelSteps(c)) \/ WriterSteps
  BY <1>1, SharedStep
<1>2. CASE Restarts
  BY <1>2, ForgetsMemoryStep DEF Restarts
<1>3. CASE TakesOver(generation)
  BY <1>3, Books, TakesOverStep
<1>4. CASE UNCHANGED vars
  BY <1>4, BarrierStutter
<1> QED
  BY <1>1, <1>2, <1>3, <1>4 DEF Next

\* A node that was just set up.
LEMMA BarrierInit == ASSUME Init PROVE BInv /\ Promise!Init
<1>1. tip \in Nat /\ mark \in Nat /\ generation \in Generations
  BY BarrierConstants DEF Init, Generations
<1>2. ASSUME NEW c \in Channel
      PROVE  ChannelGood(queue[c], loop[c], link[c], sent[c], tip, mark)
  <2>1. ChannelGood(<< >>, "none", "down", 0, tip, mark)
    BY <1>1, EmptyIsGood
  <2> QED
    BY <2>1 DEF Init, Empty, Everywhere
<1>3. WireGood
  BY <1>2 DEF WireGood, Init, Empty, Everywhere
<1>4. PumpGood(pump, tip, mark, generation)
  BY <1>1, PumpIsGood DEF Init
<1>5. ask \in [kind : {"none", "confirm", "recheck"},
               set : 0..MaxGeneration, clean : BOOLEAN]
  BY BarrierConstants DEF Init, NoQuestion
<1>6. BooksGood
  BY <1>1, <1>4, <1>5, BarrierConstants DEF BooksGood, Init
<1>7. SilentGood
  BY DEF SilentGood, Init, Everywhere
<1>8. Promise!Init
  BY Zenon, <1>1 DEF Promise!Init, Init, Empty, Everywhere
<1> QED
  BY <1>3, <1>6, <1>7, <1>8 DEF BInv

\* The inductive invariant holds in every state.
LEMMA BarrierInvariant == Spec => []BInv
<1>1. Init => BInv
  BY BarrierInit
<1>2. BInv /\ [Next]_vars => BInv'
  BY BarrierStep
<1> QED
  BY <1>1, <1>2, PTL DEF Spec

\* Every state of the barrier, the queues, the gate and the pump is one the code
\* has a meaning for: a queue has a loop exactly when it holds something, and
\* the batch its loop waits for is a gated one.
THEOREM BarrierTypeOK == Spec => []TypeOK
<1>1. BInv => TypeOK
  BY BInvImplies
<1> QED
  BY <1>1, BarrierInvariant, PTL

\* No peer has seen a gated message of a frame that a quorum of guardians does
\* not hold (isReleased, whenReleased), for any number of channels, frames,
\* restarts and takeovers.
THEOREM BarrierReleasedIsHeld == Spec => []ReleasedIsHeld
<1>1. BInv => ReleasedIsHeld
  BY BInvImplies
<1> QED
  BY <1>1, BarrierInvariant, PTL

\* The queues behind the barrier, whatever the guardians, the timers and the
\* peers do, release messages only as WireRelease allows: in the order they
\* were made, gated ones once their frame is durable, and all or nothing of
\* what waits when a connection is given up.
THEOREM BarrierImplementsWireRelease == Spec => ImplementsWireRelease
<1>1. Init => Promise!Init
  BY BarrierInit
<1>2. BInv /\ [Next]_vars => [Promise!Next]_(Promise!vars)
  BY BarrierStep DEF Promised
<1> QED
  BY <1>1, <1>2, BarrierInvariant, PTL DEF Spec, ImplementsWireRelease, Promise!Spec

-----------------------------------------------------------------------------
(* The silence of a fenced writer.                                          *)

Fenced == barrier = "fenced" \/ gate = "fenced"
Silence == (\A c \in Channel : link'[c] = "down") /\ seen' = seen

\* A fenced writer has no link, no queue and no loop.
LEMMA FencedIsIdle ==
    ASSUME BInv, Fenced
    PROVE  \A c \in Channel :
              link[c] = "down" /\ queue[c] = << >> /\ loop[c] = "none"
BY DEF BInv, SilentGood, WireGood, ChannelGood, Fenced

\* Neither a channel nor the writer breaks the silence.
LEMMA SharedStepIsSilent ==
    ASSUME BInv, Fenced, (\E c \in Channel : ChannelSteps(c)) \/ WriterSteps
    PROVE  Silence
<1> USE DEF disk, guardians, replication, ownership, wire
<1>1. ASSUME Freezes \/ UNCHANGED <<link, seen>> PROVE Silence
  BY <1>1, FencedIsIdle DEF Freezes, Everywhere, Silence
<1>2. ASSUME NEW c \in Channel, ChannelSteps(c) PROVE FALSE
  <2>1. link[c] = "down" /\ loop[c] = "none" /\ ~PermitsPeerTraffic
    BY FencedIsIdle DEF Fenced, PermitsPeerTraffic
  <2> QED
    BY Zenon, <1>2, <2>1 DEF ChannelSteps, ProcessesBatch, ProcessesUnsaved, PersistFails,
       Releases, DispatchThrows, DiscardsHeld, TimesOut, LosesPeer,
       DisconnectsPeer, ConnectsPeer
<1>3. CASE WriterSteps
  <2>1. CASE OrphanTimesOut \/ RetriesPass \/ AsksGuardians \/ GateOpens \/ AsksInVain
    BY <1>1, <2>1
       DEF OrphanTimesOut, RetriesPass, AsksGuardians, GateOpens, AsksInVain
  <2>2. CASE PassIsFenced
    BY <1>1, <2>2 DEF PassIsFenced
  <2>3. CASE GateFences \/ Stops
    BY <1>1, <2>3 DEF GateFences, Stops
  <2>4. CASE PassEnds
    BY <1>1, <2>4 DEF PassEnds
  <2> QED
    BY <1>3, <2>1, <2>2, <2>3, <2>4 DEF WriterSteps
<1> QED
  BY <1>2, <1>3

\* A writer that learned of another device connects to no peer and sends
\* nothing, in no step, until it restarts (hardFreezeTransports,
\* recoveryPermitsPeerTraffic).
THEOREM BarrierFencedIsSilent == Spec => FencedIsSilent
<1>1. ASSUME BInv, [Next]_vars, Fenced PROVE Silence
  <2>1. CASE (\E c \in Channel : ChannelSteps(c)) \/ WriterSteps
    BY <1>1, <2>1, SharedStepIsSilent
  <2>2. CASE Restarts
    BY <2>2 DEF Restarts, ForgetsMemory, Freezes, Everywhere, Silence
  <2>3. CASE TakesOver(generation) \/ UNCHANGED vars
    BY <1>1, <2>3, FencedIsIdle DEF TakesOver, vars, wire, Silence
  <2> QED
    BY <1>1, <2>1, <2>2, <2>3 DEF Next
<1>2. BInv /\ [Next]_vars =>
        [barrier = "fenced" \/ gate = "fenced" =>
            (\A c \in Channel : link'[c] = "down") /\ seen' = seen]_vars
  BY <1>1 DEF Fenced, Silence
<1> QED
  BY <1>2, BarrierInvariant, PTL DEF Spec, FencedIsSilent

-----------------------------------------------------------------------------
(* The waiters.                                                             *)

\* A step keeps every waiter above the watermark: a wait begins only above
\* it, and an advance releases all that it covers.
LEMMA WaitersStep ==
    ASSUME BInv, WaitersAreAboveTheMark, [Next]_vars
    PROVE  WaitersAreAboveTheMark'
<1> USE DEF disk, guardians, replication, ownership, wire
<1> SUFFICES ASSUME NEW d \in Channel, loop'[d] = "parked"
             PROVE  queue'[d][1].frame > mark'
  BY DEF WaitersAreAboveTheMark
<1>1. mark \in Nat /\ (loop[d] = "parked" => queue[d][1].frame > mark)
  BY Books DEF WaitersAreAboveTheMark
<1>2. ASSUME UNCHANGED <<mark, loop>>, loop[d] = "parked" => queue'[d][1] = queue[d][1]
      PROVE  queue'[d][1].frame > mark'
  BY <1>1, <1>2
<1>3. ASSUME Freezes PROVE FALSE
  BY <1>3 DEF Freezes, Everywhere
<1>4. ASSUME NEW c \in Channel, NEW l, loop' = [loop EXCEPT ![c] = l], l # "parked",
             UNCHANGED mark, \A e \in Channel : e # c => queue'[e] = queue[e]
      PROVE  queue'[d][1].frame > mark'
  <2>1. loop'[c] # "parked"
    BY <1>4 DEF BInv, WireGood
  <2>2. d # c /\ loop'[d] = loop[d]
    BY <1>4, <2>1 DEF BInv, WireGood
  <2> QED
    BY <1>1, <1>4, <2>2
<1>5. ASSUME NEW c \in Channel, NEW b \in Batch, b.frame \in Nat, HoldBatch(c, b),
             UNCHANGED mark
      PROVE  queue'[d][1].frame > mark'
  <2>1. /\ queue' = [queue EXCEPT ![c] = Append(queue[c], b)]
        /\ loop' = IF queue[c] = << >>
                   THEN [loop EXCEPT ![c] = WhenReleased(b.frame)] ELSE loop
    BY <1>5 DEF HoldBatch
  <2>2. queue \in [Channel -> Seq(Batch)] /\ loop \in [Channel -> {"none", "parked", "durable", "refused"}]
    BY DEF BInv, WireGood
  <2>3. CASE d # c
    <3>1. queue'[d] = queue[d] /\ loop'[d] = loop[d]
      BY <2>1, <2>2, <2>3
    <3> QED
      BY <1>1, <1>5, <3>1
  <2>4. CASE d = c /\ queue[c] = << >>
    <3>1. queue'[d] = Append(queue[c], b) /\ Len(queue[c]) = 0
      BY <2>1, <2>2, <2>4
    <3>2. queue'[d][1] = b
      BY <2>2, <3>1
    <3>3. WhenReleased(b.frame) = "parked"
      BY <2>1, <2>2, <2>4
    <3> QED
      BY <1>1, <1>5, <3>2, <3>3 DEF WhenReleased
  <2>5. CASE d = c /\ queue[c] # << >>
    <3>1. queue'[d] = Append(queue[c], b) /\ loop'[d] = loop[d]
      BY <2>1, <2>2, <2>5
    <3>2. 1 \in 1..Len(queue[c])
      BY <2>2, <2>5
    <3>3. queue'[d][1] = queue[d][1]
      BY <2>2, <2>5, <3>1, <3>2
    <3> QED
      BY <1>1, <1>5, <3>1, <3>3
  <2> QED
    BY <2>3, <2>4, <2>5
<1>6. ASSUME NEW c \in Channel, ChannelSteps(c) PROVE queue'[d][1].frame > mark'
  <2>1. CASE \E gated \in BOOLEAN : ProcessesBatch(c, gated)
    <3>1. PICK gated \in BOOLEAN : ProcessesBatch(c, gated)
      BY <2>1
    <3>2. PICK b : b = [frame |-> tip + 1, gated |-> gated]
      BY Zenon
    <3>3. /\ b \in Batch /\ b.frame \in Nat /\ UNCHANGED mark
          /\ HoldBatch(c, b) \/ SendsNow(c, b)
      BY <3>1, <3>2, Books, BarrierConstants DEF ProcessesBatch, Batch
    <3>4. CASE HoldBatch(c, b)
      BY <1>5, <3>3, <3>4
    <3>5. CASE SendsNow(c, b)
      BY <1>2, <3>3, <3>5 DEF SendsNow
    <3> QED
      BY <3>3, <3>4, <3>5
  <2>2. CASE ProcessesUnsaved(c)
    <3>1. PICK b : b = [frame |-> tip, gated |-> FALSE]
      BY Zenon
    <3>2. /\ b \in Batch /\ b.frame \in Nat /\ UNCHANGED mark
          /\ HoldBatch(c, b) \/ SendsNow(c, b)
      BY <2>2, <3>1, Books, BarrierConstants DEF ProcessesUnsaved, Batch
    <3>3. CASE HoldBatch(c, b)
      BY <1>5, <3>2, <3>3
    <3>4. CASE SendsNow(c, b)
      BY <1>2, <3>2, <3>4 DEF SendsNow
    <3> QED
      BY <3>2, <3>3, <3>4
  <2>3. CASE PersistFails(c) \/ ConnectsPeer(c)
    BY <1>2, <2>3 DEF PersistFails, ConnectsPeer
  <2>4. CASE DispatchThrows(c) \/ DiscardsHeld(c) \/ LosesPeer(c) \/ DisconnectsPeer(c)
    <3>1. PICK l : l = "none"
      OBVIOUS
    <3>2. loop' = [loop EXCEPT ![c] = l] /\ UNCHANGED mark
      BY <2>4, <3>1
         DEF DispatchThrows, DiscardsHeld, LosesPeer, DisconnectsPeer, DropsLink
    <3>3. \A e \in Channel : e # c => queue'[e] = queue[e]
      BY <2>4 DEF DispatchThrows, DiscardsHeld, LosesPeer, DisconnectsPeer,
                  DropsLink, BInv, WireGood
    <3> QED
      BY Zenon, <1>4, <3>1, <3>2, <3>3
  <2>5. CASE TimesOut(c)
    <3>1. PICK l : l = "refused"
      OBVIOUS
    <3>2. loop' = [loop EXCEPT ![c] = l] /\ UNCHANGED <<mark, queue>>
      BY <2>5, <3>1 DEF TimesOut
    <3> QED
      BY Zenon, <1>4, <3>1, <3>2
  <2>6. CASE Releases(c)
    <3> DEFINE rest == SubSeq(queue[c], Drained(queue[c]) + 1, Len(queue[c]))
    <3>1. /\ queue' = [queue EXCEPT ![c] = rest]
          /\ loop' = [loop EXCEPT ![c] = IF rest = << >> THEN "none"
                                         ELSE WhenReleased(rest[1].frame)]
          /\ UNCHANGED mark /\ loop[c] = "durable"
      BY <2>6 DEF Releases
    <3>2. rest \in Seq(Batch)
      BY <3>1, LoopHasQueue, DrainedIsUngated, RestOfQueue
    <3> HIDE DEF rest
    <3>3. CASE d # c
      <4>1. queue'[d] = queue[d] /\ loop'[d] = loop[d]
        BY <3>1, <3>3 DEF BInv, WireGood
      <4> QED
        BY <1>1, <3>1, <4>1
    <3>4. CASE d = c
      <4>1. queue'[d] = rest /\ rest # << >> /\ WhenReleased(rest[1].frame) = "parked"
        BY <3>1, <3>4 DEF BInv, WireGood
      <4>2. rest[1] \in Batch
        BY <3>2, <4>1
      <4>3. rest[1].frame \in Nat
        BY <4>2, BarrierConstants DEF Batch
      <4> QED
        BY <1>1, <3>1, <4>1, <4>3 DEF WhenReleased
    <3> QED
      BY <3>3, <3>4
  <2> QED
    BY <1>6, <2>1, <2>2, <2>3, <2>4, <2>5, <2>6 DEF ChannelSteps
<1>7. CASE WriterSteps
  <2>1. CASE OrphanTimesOut \/ RetriesPass \/ AsksGuardians \/ GateOpens \/ AsksInVain
    BY <1>2, <2>1
       DEF OrphanTimesOut, RetriesPass, AsksGuardians, GateOpens, AsksInVain
  <2>2. CASE PassIsFenced
    BY <1>2, <1>3, <2>2 DEF PassIsFenced
  <2>3. CASE GateFences \/ Stops
    BY <1>3, <2>3 DEF GateFences, Stops
  <2>4. CASE PassEnds
    <3>1. PICK through \in Int : /\ mark <= through /\ mark' = through
                                 /\ IF barrier = "stopped" THEN UNCHANGED loop
                                    ELSE Advance(through)
      <4>1. pump.tip \in Nat
        BY Books DEF PumpGood
      <4> QED
        BY <1>1, <2>4, <4>1 DEF PassEnds
    <3>2. UNCHANGED queue
      BY <2>4 DEF PassEnds
    <3>3. CASE barrier = "stopped"
      <4>1. loop[d] = "none"
        BY <3>3 DEF BInv, SilentGood, WireGood, ChannelGood
      <4> QED
        BY <3>1, <3>3, <4>1
    <3>4. CASE barrier # "stopped"
      <4>1. loop[d] = "parked" /\ ~(through > mark /\ queue[d][1].frame <= through)
        BY <3>1, <3>4 DEF Advance
      <4>2. queue[d][1].frame \in Nat
        BY <4>1, LoopHasQueue
      <4> QED
        BY <1>1, <3>1, <3>2, <4>1, <4>2
    <3> QED
      BY <3>3, <3>4
  <2> QED
    BY <1>7, <2>1, <2>2, <2>3, <2>4 DEF WriterSteps
<1>8. CASE Restarts
  BY <1>3, <1>8 DEF Restarts, ForgetsMemory
<1>9. CASE TakesOver(generation) \/ UNCHANGED vars
  BY <1>2, <1>9 DEF TakesOver, vars
<1> QED
  BY <1>6, <1>7, <1>8, <1>9 DEF Next

\* A waiter of the barrier waits for a frame that is not durable yet, so one
\* advance resolves every waiter it covers (advance, whenReleased).
THEOREM BarrierWaiters == Spec => []WaitersAreAboveTheMark
<1>1. Init => WaitersAreAboveTheMark
  BY DEF Init, Everywhere, WaitersAreAboveTheMark
<1>2. BInv /\ WaitersAreAboveTheMark /\ [Next]_vars => WaitersAreAboveTheMark'
  BY WaitersStep
<1> QED
  BY <1>1, <1>2, BarrierInvariant, PTL DEF Spec

=============================================================================
