--------------------------- MODULE RotationProofs ---------------------------
(***************************************************************************)
(* GuardianRotation for any number of channels, frames, rotations, restarts*)
(* and takeovers: what DurabilityBarrier promises survives the switch to   *)
(* another guardian set, and the writer is never fenced by a rotation of   *)
(* its own.  The steps of DurabilityBarrier come from BarrierProofs.        *)
(***************************************************************************)
EXTENDS GuardianRotation, BarrierProofs

\* The rotation.  Only sets below the configured one are retired or owed their
\* retirement, and the incoming set holds what it receipted.
RotationGood ==
    /\ intent \in BOOLEAN
    /\ intent => generation < MaxGeneration
    /\ inMark \in 0..tip
    /\ generation < MaxGeneration => inMark <= stored[Incoming]
    /\ owed \in 0..(generation - 1)
    /\ retired \subseteq 1..(generation - 1)
    /\ stage \in {"none", "register", "backfill", "prove", "switch", "retire"}
    /\ stage \in {"register", "backfill", "prove", "switch"} => intent
    /\ passTip \in 0..tip

\* The attempts to retire a set: each names one that was left.
RetirementGood ==
    /\ timer \in BOOLEAN
    /\ retiring \in [Asker -> 0..(generation - 1)]
    /\ retiring["timer"] # 0 => timer
    /\ retiring["rotation"] # 0 => stage = "retire"

\* The inductive invariant.
RInv == BInv /\ RotationGood /\ RetirementGood /\ NeverFencedByItself

\* The numbers of the invariant, for the step lemmas.
LEMMA RotationNumbers ==
    ASSUME RInv
    PROVE  /\ tip \in Nat /\ mark \in Nat /\ mark <= tip /\ inMark \in Nat
           /\ passTip \in Nat /\ passTip <= tip /\ inMark <= tip
           /\ generation \in Nat /\ generation \in 1..MaxGeneration
           /\ MaxGeneration \in Nat /\ owed \in Nat /\ owed < generation
           /\ \A s \in Generations : stored[s] \in Nat /\ stored[s] <= tip
           /\ \A s \in retired : s \in Nat /\ s < generation /\ s > 0
BY Books, BarrierConstants DEF RInv, BInv, BooksGood, RotationGood, Generations

-----------------------------------------------------------------------------
(* The steps of DurabilityBarrier.                                          *)

\* A set that this writer left is no evidence against it.
LEMMA EvidenceIsATakeover ==
    ASSUME RInv, NEW s, Evidence(s) PROVE taken # {}
BY RotationNumbers DEF Evidence, RotationIsNews

\* What the steps of DurabilityBarrier leave to a rotation.
LEMMA SharedFrame ==
    ASSUME RInv, (\E c \in Channel : ChannelSteps(c)) \/ WriterSteps
    PROVE  /\ UNCHANGED <<generation, retired, taken>>
           /\ tip' \in Nat /\ tip <= tip'
           /\ \A s \in Generations : stored'[s] \in Int /\ stored[s] <= stored'[s]
           /\ NeverFencedByItself'
<1> USE DEF disk, guardians, replication, ownership, wire
<1>1. /\ tip \in Nat /\ \A s \in Generations : stored[s] \in Nat
      /\ pump.tip \in Nat /\ (pump.at = "pass" => pump.set \in Generations)
      /\ stored \in [Generations -> 0..tip]
  BY RotationNumbers DEF RInv, BInv, BooksGood, PumpGood
<1>2. NeverFencedByItself
  BY DEF RInv
<1>3. ASSUME NEW c \in Channel, ChannelSteps(c)
      PROVE  /\ UNCHANGED <<generation, retired, taken, stored, barrier, gate>>
             /\ tip' = tip \/ tip' = tip + 1
  <2>1. CASE \E gated \in BOOLEAN : ProcessesBatch(c, gated)
    BY <2>1 DEF ProcessesBatch
  <2>2. CASE ProcessesUnsaved(c) \/ PersistFails(c) \/ Releases(c)
    BY <2>2 DEF ProcessesUnsaved, PersistFails, Releases
  <2>3. CASE DispatchThrows(c) \/ DiscardsHeld(c) \/ TimesOut(c)
    BY <2>3 DEF DispatchThrows, DiscardsHeld, TimesOut
  <2>4. CASE LosesPeer(c) \/ DisconnectsPeer(c) \/ ConnectsPeer(c)
    BY <2>4 DEF LosesPeer, DisconnectsPeer, DropsLink, ConnectsPeer
  <2> QED
    BY <1>3, <2>1, <2>2, <2>3, <2>4 DEF ChannelSteps
<1>4. CASE \E c \in Channel : ChannelSteps(c)
  BY <1>1, <1>2, <1>3, <1>4 DEF NeverFencedByItself
<1>5. CASE OrphanTimesOut \/ RetriesPass \/ AsksGuardians \/ GateOpens \/ AsksInVain
           \/ Stops
  BY <1>1, <1>2, <1>5 DEF OrphanTimesOut, RetriesPass, AsksGuardians, GateOpens,
                          AsksInVain, Stops, NeverFencedByItself
<1>6. CASE GateFences \/ PassIsFenced
  <2>1. taken # {}
    BY <1>6, EvidenceIsATakeover DEF GateFences, PassIsFenced
  <2> QED
    BY <1>1, <1>6, <2>1 DEF GateFences, PassIsFenced, NeverFencedByItself
<1>7. CASE PassEnds
  <2>1. /\ UNCHANGED <<tip, generation, taken, retired, barrier, gate>>
        /\ pump.set \in Generations
    BY <1>1, <1>7 DEF PassEnds
  <2>2. PICK held \in stored[pump.set]..(IF pump.set \in taken THEN 0 ELSE pump.tip)
                     \cup {stored[pump.set]} :
           stored' = [stored EXCEPT ![pump.set] = held]
    BY Zenon, <1>7 DEF PassEnds
  <2>3. held \in Int /\ stored[pump.set] <= held
    BY <1>1, <2>1
  <2>4. \A s \in Generations : stored'[s] \in Int /\ stored[s] <= stored'[s]
    BY <1>1, <2>2, <2>3
  <2> QED
    BY <1>1, <1>2, <2>1, <2>4 DEF NeverFencedByItself
<1> QED
  BY <1>4, <1>5, <1>6, <1>7 DEF WriterSteps

\* A step that leaves the rotation alone.
LEMMA RotationKept ==
    ASSUME RInv, UNCHANGED <<rotation, generation, retired>>,
           tip' \in Nat, tip <= tip',
           \A s \in Generations : stored'[s] \in Int /\ stored[s] <= stored'[s]
    PROVE  RotationGood'
<1>1. UNCHANGED <<intent, inMark, owed, stage, passTip>>
  BY DEF rotation
<1>2. inMark' \in 0..tip' /\ passTip' \in 0..tip'
  BY <1>1, RotationNumbers
<1>3. generation' < MaxGeneration => inMark' <= stored'[Incoming']
  <2> SUFFICES ASSUME generation < MaxGeneration PROVE inMark <= stored'[Incoming]
    BY <1>1 DEF Incoming
  <2>1. Incoming \in Generations
    BY RotationNumbers DEF Incoming, Generations
  <2>2. inMark <= stored[Incoming]
    BY DEF RInv, RotationGood
  <2> QED
    BY <2>1, <2>2, RotationNumbers
<1> QED
  BY <1>1, <1>2, <1>3 DEF RInv, RotationGood

\* A step that leaves the attempts of the retirement alone.
LEMMA RetirementKept ==
    ASSUME RInv, UNCHANGED retirement, generation' \in Nat, generation <= generation',
           retiring["rotation"] # 0 => stage' = "retire"
    PROVE  RetirementGood'
<1>1. UNCHANGED <<timer, retiring>>
  BY DEF retirement
<1>2. retiring' \in [Asker -> 0..(generation' - 1)]
  <2>1. 0..(generation - 1) \subseteq 0..(generation' - 1)
    BY RotationNumbers
  <2> QED
    BY <1>1, <2>1 DEF RInv, RetirementGood
<1> QED
  BY <1>1, <1>2 DEF RInv, RetirementGood

\* startRetireRetries, whatever else is in flight.
LEMMA RetriesStarted ==
    ASSUME RInv, UNCHANGED generation,
           NEW inFlight \in [Asker -> 0..(generation - 1)],
           inFlight["timer"] = retiring["timer"],
           inFlight["rotation"] # 0 => stage' = "retire",
           StartsRetries(inFlight)
    PROVE  RetirementGood'
<1>1. owed \in 0..(generation - 1)
  BY DEF RInv, RotationGood
<1>2. timer \in BOOLEAN /\ (retiring["timer"] # 0 => timer)
  BY Zenon DEF RInv, RetirementGood
<1>3. CASE timer
  <2>1. timer' = TRUE /\ retiring' = inFlight
    BY Zenon, <1>3 DEF StartsRetries
  <2> QED
    BY <2>1 DEF RetirementGood
<1>4. CASE ~timer
  <2>1. timer' = (owed # 0) /\ retiring' = [inFlight EXCEPT !["timer"] = owed]
    BY Zenon, <1>2, <1>4 DEF StartsRetries
  <2>2. /\ retiring' \in [Asker -> 0..(generation' - 1)]
        /\ retiring'["timer"] = owed /\ retiring'["rotation"] = inFlight["rotation"]
    BY <1>1, <2>1 DEF Asker
  <2>3. timer' \in BOOLEAN /\ (retiring'["timer"] # 0 => timer')
    BY Zenon, <2>1, <2>2
  <2> QED
    BY Zenon, <2>2, <2>3 DEF RetirementGood
<1> QED
  BY <1>3, <1>4

\* A step of the barrier, the queues, the gate or another device.
LEMMA SharedRotationStep ==
    ASSUME RInv, UNCHANGED rotation, ResumesRetirement \/ UNCHANGED retirement,
           \/ (\E c \in Channel : ChannelSteps(c)) \/ WriterSteps
           \/ \E s \in 1..generation : TakesOver(s)
    PROVE  RInv' /\ Promised
<1>0. ASSUME UNCHANGED generation PROVE RetirementGood'
  <2>1. UNCHANGED stage /\ generation \in Nat
    BY RotationNumbers DEF rotation
  <2>2. retiring \in [Asker -> 0..(generation - 1)]
        /\ (retiring["rotation"] # 0 => stage = "retire")
    BY DEF RInv, RetirementGood
  <2>3. CASE UNCHANGED retirement
    BY <1>0, <2>1, <2>2, <2>3, RetirementKept
  <2>4. CASE StartsRetries(retiring)
    BY <1>0, <2>1, <2>2, <2>4, RetriesStarted
  <2> QED
    BY <2>3, <2>4 DEF ResumesRetirement
<1>1. CASE (\E c \in Channel : ChannelSteps(c)) \/ WriterSteps
  <2>1. BInv' /\ Promised
    BY <1>1, SharedStep DEF RInv
  <2>2. RotationGood' /\ RetirementGood' /\ NeverFencedByItself'
    BY <1>0, <1>1, SharedFrame, RotationKept
  <2> QED
    BY <2>1, <2>2 DEF RInv
<1>2. ASSUME NEW s \in 1..generation, TakesOver(s) PROVE RInv' /\ Promised
  <2>1. s \in Generations
    BY RotationNumbers DEF Generations
  <2>2. BInv' /\ Promised
    BY <1>2, <2>1, TakesOverStep DEF RInv
  <2>3. UNCHANGED <<tip, generation, stored, retired>> /\ taken' # {}
    BY <1>2 DEF TakesOver, disk
  <2>4. RotationGood'
    <3>1. \A r \in Generations : stored'[r] \in Int /\ stored[r] <= stored'[r]
      BY <2>3, RotationNumbers
    <3> QED
      BY <2>3, <3>1, RotationNumbers, RotationKept
  <2> QED
    BY <1>0, <2>2, <2>3, <2>4 DEF RInv, NeverFencedByItself
<1> QED
  BY <1>1, <1>2

-----------------------------------------------------------------------------
(* The steps of a rotation.                                                 *)

\* The stages that touch nothing of the writer.
LEMMA StageStep ==
    ASSUME RInv, UNCHANGED retirement,
           BeginsRotation \/ RotationRefused \/ Registers \/ ProvesEmpty
    PROVE  RInv' /\ Promised
<1>1. UNCHANGED vars
  BY DEF BeginsRotation, RotationRefused, Registers, ProvesEmpty
<1>2. BInv' /\ Promised
  BY <1>1, BarrierStutter DEF RInv
<1>3. UNCHANGED <<tip, generation, stored, retired, taken, barrier, gate>>
  BY <1>1 DEF vars, disk, guardians, replication, ownership
<1>4. UNCHANGED <<inMark, owed, Incoming>>
  BY <1>3 DEF BeginsRotation, RotationRefused, Registers, ProvesEmpty, Incoming
<1>5. /\ intent' \in BOOLEAN
      /\ intent' => generation < MaxGeneration
      /\ stage' \in {"none", "register", "backfill", "prove", "switch", "retire"}
      /\ stage' \in {"register", "backfill", "prove", "switch"} => intent'
      /\ passTip' \in 0..tip
  <2>1. tip \in 0..tip /\ 0 \in 0..tip
    BY RotationNumbers
  <2>2. RotationGood
    BY DEF RInv
  <2>3. CASE BeginsRotation
    BY <2>2, <2>3 DEF RotationGood, BeginsRotation
  <2>4. CASE Registers \/ RotationRefused
    BY <2>1, <2>2, <2>4 DEF RotationGood, Registers, RotationRefused
  <2>5. CASE ProvesEmpty
    BY <2>2, <2>5 DEF RotationGood, ProvesEmpty
  <2> QED
    BY <2>3, <2>4, <2>5
<1>6. RotationGood'
  BY <1>3, <1>4, <1>5 DEF RInv, RotationGood
<1>7. NeverFencedByItself'
  BY <1>3 DEF RInv, NeverFencedByItself
<1>8. RetirementGood'
  <2>1. retiring["rotation"] = 0
    BY DEF RInv, RetirementGood, BeginsRotation, RotationRefused, Registers, ProvesEmpty
  <2> QED
    BY <1>3, <2>1, RotationNumbers, RetirementKept
<1> QED
  BY <1>2, <1>6, <1>7, <1>8 DEF RInv

\* The switch: the incoming set holds every frame, so the watermark, what peers
\* have seen and the passes of the outgoing set are all below what it holds.
LEMMA SwitchesStep ==
    ASSUME RInv, intent, stage # "retire", UNCHANGED retirement,
           NEW through \in Nat, tip <= through, Switches(through),
           stored' \in [Generations -> 0..tip], through <= stored'[Incoming]
    PROVE  RInv' /\ Promised
<1>1. /\ generation < MaxGeneration /\ Incoming \in Generations
      /\ Incoming = generation + 1 /\ generation \in Generations
  BY RotationNumbers DEF RInv, RotationGood, Incoming, Generations
<1>2. /\ mark' = through /\ inMark' = 0 /\ generation' = Incoming
      /\ intent' = FALSE /\ owed' = generation /\ stage' = "retire" /\ passTip' = 0
      /\ UNCHANGED <<tip, taken, retired, barrier, pump, orphans, gate, ask,
                     queue, loop, link, sent, seen, restarts>>
  BY DEF Switches, replication, ownership, wire
<1>3. through = tip /\ stored'[Incoming] = tip
  BY <1>1, RotationNumbers
<1>4. WireGood'
  <2>1. tip' \in Nat /\ mark' \in Nat /\ tip <= tip' /\ mark <= mark'
    BY <1>2, <1>3, RotationNumbers
  <2> QED
    BY <1>2, <2>1, WireKept DEF RInv
<1>5. PumpGood(pump, tip, through, generation')
  <2>1. PumpGood(pump, tip, mark, generation)
    BY Books DEF RInv
  <2> QED
    BY <1>3, <2>1, RotationNumbers DEF PumpGood
<1>6. BooksGood'
  <2>1. seen' \in 0..mark' /\ mark' \in 0..tip'
    BY <1>2, <1>3, Books, RotationNumbers DEF RInv
  <2> QED
    BY <1>1, <1>2, <1>3, <1>5, <2>1 DEF RInv, BInv, BooksGood
<1>7. SilentGood'
  BY <1>2 DEF RInv, BInv, SilentGood
<1>8. RotationGood'
  <2>1. /\ owed' \in 0..(generation' - 1) /\ retired' \subseteq 1..(generation' - 1)
        /\ 0 \in 0..tip'
    BY <1>1, <1>2, RotationNumbers
  <2>2. generation' < MaxGeneration => inMark' <= stored'[Incoming']
    <3> SUFFICES ASSUME generation' < MaxGeneration PROVE 0 <= stored'[Incoming']
      BY <1>2
    <3>1. Incoming' \in Generations
      BY <1>1, <1>2, RotationNumbers DEF Incoming, Generations
    <3> QED
      BY <3>1, RotationNumbers
  <2> QED
    BY Zenon, <1>2, <2>1, <2>2 DEF RotationGood
<1>9. NeverFencedByItself'
  BY <1>2 DEF RInv, NeverFencedByItself
<1>10. Promised
  <2>1. stored[generation] <= stored'[generation']
    BY <1>1, <1>2, <1>3, RotationNumbers
  <2> QED
    BY <1>2, <2>1, StoresIsPromised
<1>11. RetirementGood'
  BY <1>1, <1>2, RotationNumbers, RetirementKept DEF RInv, RetirementGood
<1> QED
  BY <1>4, <1>6, <1>7, <1>8, <1>9, <1>10, <1>11 DEF RInv, BInv

\* A backfill pass ends: with the switch, or with more in the incoming set.
LEMMA BackfillEndsStep ==
    ASSUME RInv, UNCHANGED retirement, BackfillEnds
    PROVE  RInv' /\ Promised
<1>1. /\ intent /\ generation < MaxGeneration /\ Incoming \in Generations
      /\ Incoming = generation + 1 /\ inMark <= stored[Incoming]
      /\ generation \in Generations /\ stored \in [Generations -> 0..tip]
  <2>1. stage = "backfill"
    BY DEF BackfillEnds
  <2>2. intent /\ generation < MaxGeneration /\ inMark <= stored[Incoming]
    BY <2>1 DEF RInv, RotationGood
  <2>3. Incoming = generation + 1 /\ Incoming \in Generations /\ generation \in Generations
    BY <2>2, RotationNumbers DEF Incoming, Generations
  <2>4. stored \in [Generations -> 0..tip]
    BY DEF RInv, BInv, BooksGood
  <2> QED
    BY <2>2, <2>3, <2>4
<1> DEFINE Outcome(through) ==
         \/ /\ CoversTip(through) /\ ~AtGenesis
            /\ Switches(through)
         \/ /\ CoversTip(through) /\ AtGenesis
            /\ stage' = "prove" /\ inMark' = through
            /\ UNCHANGED <<disk, taken, retired, replication, ownership,
                           wire, restarts, intent, owed, passTip>>
         \/ /\ ~CoversTip(through)
            /\ inMark' = through /\ passTip' = tip
            /\ UNCHANGED <<disk, taken, retired, replication, ownership,
                           wire, restarts, intent, owed, stage>>
<1>2. PICK held \in stored[Incoming]..passTip \cup {stored[Incoming]} :
         \E through \in inMark..held \cup {inMark} :
            stored' = [stored EXCEPT ![Incoming] = held] /\ Outcome(through)
  BY Zenon DEF BackfillEnds
<1>3. PICK through \in inMark..held \cup {inMark} :
         stored' = [stored EXCEPT ![Incoming] = held] /\ Outcome(through)
  BY <1>2
<1>4. held \in Nat /\ held <= tip /\ stored[Incoming] <= held
  BY <1>1, RotationNumbers
<1>5. through \in Nat /\ through <= held
  BY <1>1, <1>4, RotationNumbers
<1>6. stored' \in [Generations -> 0..tip] /\ stored'[Incoming] = held
  BY <1>1, <1>3, <1>4, RotationNumbers
<1>7. CASE CoversTip(through) /\ ~AtGenesis /\ Switches(through)
  <2>1. stage # "retire"
    BY DEF BackfillEnds
  <2> QED
    BY <1>1, <1>5, <1>6, <1>7, <2>1, SwitchesStep DEF CoversTip
<1>8. ASSUME /\ stage' \in {"prove", "backfill"} /\ inMark' = through
             /\ passTip' \in {passTip, tip}
             /\ UNCHANGED <<disk, taken, retired, replication, ownership, wire,
                            restarts, intent, owed>>
      PROVE  RInv' /\ Promised
  <2>1. UNCHANGED <<tip, mark, generation, taken, retired, barrier, pump, orphans,
                    gate, ask, queue, loop, link, sent, seen, restarts, intent, owed>>
    BY <1>8 DEF disk, replication, ownership, wire
  <2>2. stored'[generation'] = stored[generation]
    BY <1>1, <1>3, <2>1, RotationNumbers
  <2>3. BooksGood'
    BY <1>6, <2>1, <2>2 DEF RInv, BInv, BooksGood
  <2>4. WireGood'
    BY <2>1, RotationNumbers, WireKept DEF RInv
  <2>5. SilentGood' /\ NeverFencedByItself'
    BY <2>1 DEF RInv, BInv, SilentGood, NeverFencedByItself
  <2>6. RotationGood'
    <3>1. inMark' \in 0..tip /\ passTip' \in 0..tip
      BY <1>4, <1>5, <1>8, RotationNumbers
    <3>2. inMark' <= stored'[Incoming'] /\ Incoming' = Incoming
      BY <1>5, <1>6, <1>8, <2>1 DEF Incoming
    <3> QED
      BY <1>1, <1>8, <2>1, <3>1, <3>2 DEF RInv, RotationGood
  <2>7. Promised
    BY <1>1, <2>1, <2>2, RotationNumbers, StoresIsPromised
  <2>8. RetirementGood'
    <3>1. retiring["rotation"] = 0
      BY DEF BackfillEnds, RInv, RetirementGood
    <3> QED
      BY <2>1, <3>1, RotationNumbers, RetirementKept
  <2> QED
    BY <2>3, <2>4, <2>5, <2>6, <2>7, <2>8 DEF RInv, BInv
<1> QED
  BY <1>3, <1>7, <1>8 DEF BackfillEnds

\* The switch of a node that has no frame yet.
LEMMA SwitchesAtGenesisStep ==
    ASSUME RInv, UNCHANGED retirement, SwitchesAtGenesis
    PROVE  RInv' /\ Promised
<1>1. /\ intent /\ Incoming \in Generations /\ inMark <= stored[Incoming]
      /\ stored \in [Generations -> 0..tip]
  BY RotationNumbers
     DEF SwitchesAtGenesis, RInv, RotationGood, Incoming, Generations, BInv, BooksGood
<1>2. tip <= inMark /\ inMark \in Nat
  BY RotationNumbers DEF SwitchesAtGenesis, AtGenesis, CoversTip
<1>3. Switches(inMark) /\ UNCHANGED stored /\ stage # "retire"
  BY DEF SwitchesAtGenesis
<1>4. stored' \in [Generations -> 0..tip] /\ inMark <= stored'[Incoming]
  BY <1>1, <1>3
<1> QED
  BY <1>1, <1>2, <1>3, <1>4, SwitchesStep

\* A member of the outgoing set learns that it is retired.
LEMMA MemberRetiresStep ==
    ASSUME RInv, NEW a \in Asker, MemberRetires(a)
    PROVE  RInv' /\ Promised
<1>1. /\ retiring[a] # 0 /\ retired' = retired \cup {retiring[a]}
      /\ UNCHANGED <<tip, mark, generation, stored, seen>>
      /\ UNCHANGED <<queue, loop, link, sent>>
      /\ UNCHANGED <<taken, barrier, pump, orphans, gate, ask, restarts>>
      /\ UNCHANGED <<intent, inMark, owed, stage, passTip, Incoming>>
      /\ UNCHANGED retirement
  BY DEF MemberRetires, disk, replication, ownership, wire, rotation, Incoming
<1>2. retiring[a] \in 1..(generation - 1) /\ retiring[a] \in Generations
  <2>1. retiring[a] \in 0..(generation - 1)
    BY DEF RInv, RetirementGood
  <2> QED
    BY <1>1, <2>1, RotationNumbers DEF Generations
<1>3. BInv' /\ Promised
  <2>1. retired' \subseteq Generations
    BY <1>1, <1>2, BookTypes DEF RInv
  <2> QED
    BY <1>1, <2>1, BookTypes, QuietStepGood DEF RInv
<1>4. RotationGood'
  BY <1>1, <1>2 DEF RInv, RotationGood
<1>5. RetirementGood'
  BY <1>1, RotationNumbers, RetirementKept DEF RInv, RetirementGood
<1>6. NeverFencedByItself'
  BY <1>1 DEF RInv, NeverFencedByItself
<1> QED
  BY <1>3, <1>4, <1>5, <1>6 DEF RInv

\* An attempt to retire a set begins or ends.
LEMMA AttemptStep ==
    ASSUME RInv,
           \/ RetirementBegins \/ RetriesRetirement
           \/ \E a \in Asker : RetirementAccepted(a) \/ RetirementUnanswered(a)
    PROVE  RInv' /\ Promised
<1>1. /\ UNCHANGED vars /\ UNCHANGED <<intent, inMark, passTip>>
      /\ owed' \in {0, owed} /\ stage' \in {stage, "none"}
  BY Zenon DEF RetirementBegins, RetriesRetirement, RetirementAccepted,
               RetirementUnanswered, rotation
<1>2. UNCHANGED <<tip, generation, stored, retired, taken, barrier, gate, Incoming>>
  BY <1>1 DEF vars, disk, guardians, replication, ownership, Incoming
<1>3. BInv' /\ Promised
  BY <1>1, BarrierStutter DEF RInv
<1>4. RotationGood'
  <2>1. owed' \in 0..(generation' - 1)
    BY <1>1, <1>2, RotationNumbers
  <2> QED
    BY <1>1, <1>2, <2>1 DEF RInv, RotationGood
<1>5. NeverFencedByItself'
  BY <1>2 DEF RInv, NeverFencedByItself
<1>6. /\ retiring \in [Asker -> 0..(generation - 1)]
      /\ owed \in 0..(generation - 1) /\ 0 \in 0..(generation - 1)
  BY RotationNumbers DEF RInv, RetirementGood
<1>7. timer \in BOOLEAN /\ (retiring["timer"] # 0 => timer)
  BY Zenon DEF RInv, RetirementGood
<1>8. retiring["rotation"] # 0 => stage = "retire"
  BY DEF RInv, RetirementGood
<1>9. CASE RetirementBegins
  <2>1. CASE owed = 0
    <3>1. StartsRetries(retiring) /\ retiring["rotation"] = 0
      BY <1>9, <2>1 DEF RetirementBegins
    <3> QED
      BY <1>2, <1>3, <1>4, <1>5, <1>6, <3>1, RetriesStarted DEF RInv
  <2>2. CASE owed # 0
    <3>1. /\ retiring' = [retiring EXCEPT !["rotation"] = owed] /\ timer' = timer
          /\ stage = "retire" /\ stage' = stage
      BY <1>9, <2>2 DEF RetirementBegins
    <3>2. /\ retiring' \in [Asker -> 0..(generation' - 1)]
          /\ retiring'["timer"] = retiring["timer"] /\ stage' = "retire"
      BY <1>2, <1>6, <3>1 DEF Asker
    <3>3. RetirementGood'
      BY <1>7, <3>1, <3>2 DEF RetirementGood
    <3> QED
      BY <1>3, <1>4, <1>5, <3>3 DEF RInv
  <2> QED
    BY <2>1, <2>2
<1>10. CASE RetriesRetirement
  <2>1. /\ retiring' = [retiring EXCEPT !["timer"] = owed] /\ timer' = (owed # 0)
        /\ stage' = stage
    BY <1>10 DEF RetriesRetirement, rotation
  <2>2. /\ retiring' \in [Asker -> 0..(generation' - 1)]
        /\ retiring'["timer"] = owed /\ retiring'["rotation"] = retiring["rotation"]
    BY <1>2, <1>6, <2>1 DEF Asker
  <2>3. timer' \in BOOLEAN /\ (retiring'["timer"] # 0 => timer')
    BY Zenon, <2>1, <2>2
  <2>4. retiring'["rotation"] # 0 => stage' = "retire"
    BY <1>8, <2>1, <2>2
  <2>5. RetirementGood'
    BY Zenon, <2>2, <2>3, <2>4 DEF RetirementGood
  <2> QED
    BY <1>3, <1>4, <1>5, <2>5 DEF RInv
<1>11. ASSUME NEW a \in Asker, RetirementAccepted(a) \/ RetirementUnanswered(a)
       PROVE  RInv' /\ Promised
  <2> DEFINE inFlight == [retiring EXCEPT ![a] = 0]
  <2>1. /\ inFlight \in [Asker -> 0..(generation - 1)] /\ inFlight[a] = 0
        /\ \A b \in Asker : b # a => inFlight[b] = retiring[b]
    BY <1>6
  <2>2. a \in {"rotation", "timer"} /\ "rotation" \in Asker /\ "timer" \in Asker
    BY DEF Asker
  <2>3. CASE RetirementUnanswered(a) /\ a = "rotation"
    <3>1. StartsRetries(inFlight)
      BY <2>3 DEF RetirementUnanswered
    <3>2. inFlight["rotation"] = 0 /\ inFlight["timer"] = retiring["timer"]
      BY <2>1, <2>2, <2>3
    <3> HIDE DEF inFlight
    <3>3. RetirementGood'
      BY <1>2, <2>1, <3>1, <3>2, RetriesStarted
    <3> QED
      BY <1>3, <1>4, <1>5, <3>3 DEF RInv
  <2>4. CASE RetirementAccepted(a) \/ (RetirementUnanswered(a) /\ a = "timer")
    <3>1. /\ retiring' = inFlight /\ timer' = timer
          /\ stage' = stage \/ a = "rotation"
      BY Zenon, <2>4 DEF RetirementAccepted, RetirementUnanswered
    <3>2. /\ inFlight["timer"] \in {0, retiring["timer"]}
          /\ inFlight["rotation"] = 0
             \/ (a = "timer" /\ inFlight["rotation"] = retiring["rotation"])
      BY <2>1, <2>2
    <3> HIDE DEF inFlight
    <3>3. retiring'["timer"] # 0 => timer'
      BY Zenon, <1>7, <3>1, <3>2
    <3>4. retiring'["rotation"] # 0 => stage' = "retire"
      BY <1>8, <3>1, <3>2
    <3>5. timer' \in BOOLEAN /\ retiring' \in [Asker -> 0..(generation' - 1)]
      BY <1>2, <1>7, <2>1, <3>1
    <3>6. RetirementGood'
      BY Zenon, <3>3, <3>4, <3>5 DEF RetirementGood
    <3> QED
      BY <1>3, <1>4, <1>5, <3>6 DEF RInv
  <2> QED
    BY <1>11, <2>2, <2>3, <2>4
<1> QED
  BY <1>9, <1>10, <1>11

\* A restart during a rotation.
LEMMA RotationRestartsStep ==
    ASSUME RInv, RotationRestarts
    PROVE  RInv' /\ Promised
<1>1. BInv' /\ Promised
  BY ForgetsMemoryStep DEF RInv, RotationRestarts
<1>2. /\ UNCHANGED <<tip, generation, stored, taken, retired, intent, inMark, owed, Incoming>>
      /\ stage' = "none" /\ passTip' = 0 /\ barrier' = "open" /\ gate' = "quarantined"
      /\ timer' = FALSE /\ retiring' = NoRetirement
  BY DEF RotationRestarts, ForgetsMemory, disk, guardians, Incoming
<1>3. RotationGood'
  <2>1. passTip' \in 0..tip'
    BY <1>2, RotationNumbers
  <2> QED
    BY <1>2, <2>1 DEF RInv, RotationGood
<1>4. NeverFencedByItself'
  BY <1>2 DEF NeverFencedByItself
<1>5. RetirementGood'
  <2>1. /\ retiring' \in [Asker -> 0..(generation' - 1)]
        /\ retiring'["timer"] = 0 /\ retiring'["rotation"] = 0
    BY <1>2, RotationNumbers DEF NoRetirement, Asker
  <2> QED
    BY Zenon, <1>2, <2>1 DEF RetirementGood
<1> QED
  BY <1>1, <1>3, <1>4, <1>5 DEF RInv

-----------------------------------------------------------------------------
(* The theorems.                                                            *)

\* Every step of the writer and of a rotation keeps the invariant and is one
\* that WireRelease allows.
LEMMA RotationStep ==
    ASSUME RInv, [RotationNext]_allVars
    PROVE  RInv' /\ Promised
<1>1. CASE \/ (\E c \in Channel : ChannelSteps(c)) /\ UNCHANGED <<rotation, retirement>>
           \/ WriterSteps /\ UNCHANGED rotation /\ ResumesRetirement
           \/ /\ \E s \in 1..generation : TakesOver(s)
              /\ UNCHANGED <<rotation, retirement>>
  BY <1>1, SharedRotationStep
<1>2. CASE RotationSteps
  BY <1>2, StageStep, BackfillEndsStep, SwitchesAtGenesisStep, MemberRetiresStep,
     AttemptStep, RotationRestartsStep DEF RotationSteps
<1>3. CASE UNCHANGED allVars
  <2>1. UNCHANGED vars /\ UNCHANGED rotation /\ UNCHANGED retirement
    BY <1>3 DEF allVars
  <2>2. BInv' /\ Promised
    BY <2>1, BarrierStutter DEF RInv
  <2>3. UNCHANGED <<tip, generation, stored, retired, taken, barrier, gate>>
    BY <2>1 DEF vars, disk, guardians, replication, ownership
  <2>4. \A s \in Generations : stored'[s] \in Int /\ stored[s] <= stored'[s]
    BY <2>3, RotationNumbers
  <2>5. RotationGood'
    BY <2>1, <2>3, <2>4, RotationNumbers, RotationKept
  <2>6. RetirementGood'
    BY <2>1, <2>3, RotationNumbers, RetirementKept DEF RInv, RetirementGood, rotation
  <2> QED
    BY <2>2, <2>3, <2>5, <2>6 DEF RInv, NeverFencedByItself
<1> QED
  BY <1>1, <1>2, <1>3 DEF RotationNext

\* The first state, of a node that never rotated.
LEMMA RotationBegins ==
    ASSUME RotationInit PROVE RInv /\ Promise!Init
<1>1. BInv /\ Promise!Init
  BY BarrierInit DEF RotationInit
<1>2. tip = 0 /\ generation = 1 /\ retired = {} /\ barrier = "open" /\ gate = "quarantined"
  BY DEF RotationInit, Init
<1>3. generation < MaxGeneration => 0 <= stored[Incoming]
  <2> SUFFICES ASSUME generation < MaxGeneration PROVE 0 <= stored[Incoming]
    OBVIOUS
  <2>1. Incoming \in Generations
    BY <1>2, BarrierConstants DEF Incoming, Generations
  <2> QED
    BY <1>1, <1>2, <2>1 DEF BInv, BooksGood
<1>4. RotationGood
  <2>1. /\ inMark = 0 /\ owed = 0 /\ stage = "none" /\ passTip = 0
        /\ 0 \in 0..tip /\ 0 \in 0..(generation - 1)
    BY <1>2 DEF RotationInit
  <2>2. intent \in BOOLEAN /\ ~intent
    BY Zenon DEF RotationInit
  <2> QED
    BY <1>2, <1>3, <2>1, <2>2 DEF RotationGood
<1>5. RetirementGood
  <2>1. timer = FALSE /\ retiring = NoRetirement
    BY Zenon DEF RotationInit
  <2>2. /\ retiring \in [Asker -> 0..(generation - 1)]
        /\ retiring["timer"] = 0 /\ retiring["rotation"] = 0
    BY <1>2, <2>1 DEF NoRetirement, Asker
  <2> QED
    BY Zenon, <2>1, <2>2 DEF RetirementGood
<1> QED
  BY <1>1, <1>2, <1>4, <1>5 DEF RInv, NeverFencedByItself

\* The inductive invariant holds in every state.
LEMMA RotationInvariant == RotationSpec => []RInv
<1>1. RotationInit => RInv
  BY RotationBegins
<1>2. RInv /\ [RotationNext]_allVars => RInv'
  BY RotationStep
<1> QED
  BY <1>1, <1>2, PTL DEF RotationSpec

\* Every state of a rotation is one that the code has a meaning for: the
\* stages before the switch have their intent on disk, the incoming mark is of
\* frames that exist, and what is owed its retirement is a set that was left.
THEOREM RotationKeepsTypes == RotationSpec => []RotationTypeOK
<1>1. ASSUME RInv PROVE RotationTypeOK
  <2>1. TypeOK
    BY <1>1, BInvImplies DEF RInv
  <2>2. owed \in 0..generation
    BY <1>1, RotationNumbers
  <2>3. timer \in BOOLEAN /\ retiring \in [Asker -> 0..generation]
        /\ (retiring["timer"] # 0 => timer)
        /\ (retiring["rotation"] # 0 => stage = "retire")
    <3>1. 0..(generation - 1) \subseteq 0..generation
      BY <1>1, RotationNumbers
    <3>2. retiring \in [Asker -> 0..generation]
      BY <1>1, <3>1 DEF RInv, RetirementGood
    <3> QED
      BY Zenon, <1>1, <3>2 DEF RInv, RetirementGood
  <2> QED
    BY <1>1, <2>1, <2>2, <2>3 DEF RInv, RotationGood, RotationTypeOK
<1> QED
  BY <1>1, RotationInvariant, PTL

\* What a peer has seen, and what the journal calls durable, is held by a
\* quorum of the configured set, in every state of any number of rotations:
\* the switch never trusts a set with less than the tip (CoversTip, the
\* transaction of the switch).
THEOREM RotationKeepsReleasedHeld == RotationSpec => []ReleasedIsHeld
<1>1. RInv => ReleasedIsHeld
  BY BInvImplies DEF RInv
<1> QED
  BY <1>1, RotationInvariant, PTL

\* No rotation, finished, refused or cut by a restart, makes the writer fence
\* itself: the retirement of a set that it left is no news (verifiedRotation).
THEOREM RotationNeverFencesItself == RotationSpec => []NeverFencedByItself
<1>1. RInv => NeverFencedByItself
  BY DEF RInv
<1> QED
  BY <1>1, RotationInvariant, PTL

\* The order and the gating of messages that WireRelease promises hold across
\* the switch of the guardian set as well.
THEOREM RotationImplementsWireRelease == RotationSpec => ImplementsWireRelease
<1>1. RotationInit => Promise!Init
  BY RotationBegins
<1>2. RInv /\ [RotationNext]_allVars => [Promise!Next]_(Promise!vars)
  BY RotationStep DEF Promised
<1> QED
  BY <1>1, <1>2, RotationInvariant, PTL
     DEF RotationSpec, ImplementsWireRelease, Promise!Spec

\* What no attempt of a patient writer can lose: every set it left is retired
\* or owed, and the debt on disk, if there is one, is the one being paid.
DebtGood ==
    /\ LeftSetIsRetiredOrOwed
    /\ \A a \in Asker : retiring[a] # 0 => owed \in {0, retiring[a]}

\* What a step may do to the debt and to the attempts when it is no switch.
AttemptFrame ==
    /\ generation' = generation
    /\ retired \subseteq retired'
    /\ \/ owed' = owed
       \/ owed' = 0 /\ \E a \in Asker : retiring[a] # 0 /\ retiring[a] \in retired
    /\ \A a \in Asker :
          retiring'[a] \in {0, retiring[a]} \/ (retiring'[a] = owed /\ owed' = owed)

\* Retries that start name the debt on disk.
LEMMA RetriesNameTheDebt ==
    ASSUME RInv, NEW inFlight \in [Asker -> 0..(generation - 1)], StartsRetries(inFlight)
    PROVE  \A a \in Asker : retiring'[a] \in {inFlight[a], owed}
<1>1. retiring' = inFlight \/ retiring' = [inFlight EXCEPT !["timer"] = owed]
  BY Zenon DEF StartsRetries
<1> QED
  BY <1>1

\* A step is a switch, or it leaves the set and pays debts at most.
LEMMA StepIsFrameOrSwitch ==
    ASSUME RInv, [RotationNext]_allVars
    PROVE  \/ AttemptFrame
           \/ /\ generation' = generation + 1 /\ owed' = generation
              /\ UNCHANGED <<retired, retiring>>
<1>1. retiring \in [Asker -> 0..(generation - 1)]
  BY DEF RInv, RetirementGood
<1>2. ASSUME UNCHANGED <<generation, retired, owed, retiring>> PROVE AttemptFrame
  BY <1>2 DEF AttemptFrame
<1>3. CASE UNCHANGED allVars
  BY <1>2, <1>3 DEF allVars, vars, disk, guardians, rotation, retirement
<1>4. CASE (\E c \in Channel : ChannelSteps(c)) /\ UNCHANGED <<rotation, retirement>>
  BY <1>2, <1>4, SharedFrame DEF rotation, retirement
<1>5. CASE WriterSteps /\ UNCHANGED rotation /\ ResumesRetirement
  <2>1. UNCHANGED <<generation, retired, owed>>
    BY <1>5, SharedFrame DEF rotation
  <2>2. CASE UNCHANGED retirement
    BY <1>2, <2>1, <2>2 DEF retirement
  <2>3. CASE StartsRetries(retiring)
    BY <1>1, <2>1, <2>3, RetriesNameTheDebt DEF AttemptFrame
  <2> QED
    BY <1>5, <2>2, <2>3 DEF ResumesRetirement
<1>6. CASE (\E s \in 1..generation : TakesOver(s)) /\ UNCHANGED <<rotation, retirement>>
  BY <1>2, <1>6 DEF TakesOver, disk, rotation, retirement
<1>7. CASE /\ BeginsRotation \/ RotationRefused \/ Registers \/ ProvesEmpty
           /\ UNCHANGED retirement
  BY <1>2, <1>7 DEF BeginsRotation, RotationRefused, Registers, ProvesEmpty,
                    vars, disk, guardians, retirement
<1>8. CASE (BackfillEnds \/ SwitchesAtGenesis) /\ UNCHANGED retirement
  <2>1. UNCHANGED <<retired, retiring>>
    BY <1>8 DEF BackfillEnds, SwitchesAtGenesis, Switches, retirement
  <2>2. \/ generation' = Incoming /\ owed' = generation
        \/ UNCHANGED <<generation, owed>>
    BY <1>8 DEF BackfillEnds, SwitchesAtGenesis, Switches, disk
  <2> QED
    BY <1>2, <2>1, <2>2 DEF Incoming
<1>9. CASE RotationRestarts
  <2>1. UNCHANGED <<generation, retired, owed>> /\ retiring' = NoRetirement
    BY <1>9 DEF RotationRestarts, disk, guardians
  <2> QED
    BY <2>1 DEF AttemptFrame, NoRetirement
<1>10. CASE RetirementBegins \/ RetriesRetirement
  <2>1. UNCHANGED <<generation, retired, owed>>
    BY <1>10 DEF RetirementBegins, RetriesRetirement, vars, disk, guardians, rotation
  <2>2. CASE StartsRetries(retiring)
    BY <1>1, <2>1, <2>2, RetriesNameTheDebt DEF AttemptFrame
  <2>3. CASE \E a \in Asker : retiring' = [retiring EXCEPT ![a] = owed]
    BY <1>1, <2>1, <2>3 DEF AttemptFrame
  <2> QED
    BY <1>10, <2>2, <2>3 DEF RetirementBegins, RetriesRetirement, Asker
<1>11. ASSUME NEW a \in Asker, MemberRetires(a) PROVE AttemptFrame
  BY <1>11 DEF MemberRetires, AttemptFrame, disk, rotation, retirement
<1>12. ASSUME NEW a \in Asker, RetirementAccepted(a) PROVE AttemptFrame
  <2>1. /\ UNCHANGED <<generation, retired>> /\ owed' = 0
        /\ retiring[a] # 0 /\ retiring[a] \in retired
        /\ retiring' = [retiring EXCEPT ![a] = 0]
    BY <1>12 DEF RetirementAccepted, vars, disk, guardians
  <2> QED
    BY <1>1, <2>1 DEF AttemptFrame
<1>13. ASSUME NEW a \in Asker, RetirementUnanswered(a) PROVE AttemptFrame
  <2> DEFINE inFlight == [retiring EXCEPT ![a] = 0]
  <2>1. UNCHANGED <<generation, retired, owed>>
    BY <1>13 DEF RetirementUnanswered, vars, disk, guardians
  <2>2. /\ inFlight \in [Asker -> 0..(generation - 1)]
        /\ \A b \in Asker : inFlight[b] \in {0, retiring[b]}
    BY <1>1, RotationNumbers
  <2>3. StartsRetries(inFlight) \/ retiring' = inFlight
    BY Zenon, <1>13 DEF RetirementUnanswered
  <2> HIDE DEF inFlight
  <2>4. \A b \in Asker : retiring'[b] \in {inFlight[b], owed}
    BY <2>2, <2>3, RetriesNameTheDebt
  <2> QED
    BY <2>1, <2>2, <2>4 DEF AttemptFrame
<1> QED
  BY <1>3, <1>4, <1>5, <1>6, <1>7, <1>8, <1>9, <1>10, <1>11, <1>12, <1>13
     DEF RotationNext, RotationSteps

\* Every step but a switch over an unfinished retirement keeps the debts.
LEMMA DebtKept ==
    ASSUME RInv, DebtGood, [RotationNext]_allVars,
           generation' # generation => owed = 0 /\ retiring = NoRetirement
    PROVE  DebtGood'
<1>1. CASE AttemptFrame
  <2>1. owed' = owed \/ (owed' = 0 /\ owed \in retired \cup {0})
    BY <1>1 DEF AttemptFrame, DebtGood
  <2>2. LeftSetIsRetiredOrOwed'
    BY <1>1, <2>1, RotationNumbers DEF AttemptFrame, DebtGood, LeftSetIsRetiredOrOwed
  <2>3. ASSUME NEW a \in Asker, retiring'[a] # 0 PROVE owed' \in {0, retiring'[a]}
    BY <1>1, <2>1, <2>3 DEF AttemptFrame, DebtGood
  <2> QED
    BY <2>2, <2>3 DEF DebtGood
<1>2. CASE /\ generation' = generation + 1 /\ owed' = generation
           /\ UNCHANGED <<retired, retiring>>
  <2>1. owed = 0 /\ retiring' = NoRetirement
    BY <1>2, RotationNumbers
  <2>2. LeftSetIsRetiredOrOwed'
    BY <1>2, <2>1, RotationNumbers DEF DebtGood, LeftSetIsRetiredOrOwed
  <2> QED
    BY <2>1, <2>2 DEF DebtGood, NoRetirement
<1> QED
  BY <1>1, <1>2, StepIsFrameOrSwitch

\* A writer that moves on only when the set it left before is retired forgets
\* no set, after any number of rotations: an attempt whose answer is lost, one
\* of the timer beside one of the rotation, and a restart between the request
\* and the deletion of the debt leave it retired or owed (retireOutgoingSet).
\* Nothing in rotateGuardians makes a writer wait, and without the wait the
\* switch writes over a debt, and an attempt deletes one it was not sent for.
THEOREM PatientRotationsForgetNoSet ==
    RotationSpec /\ WaitsForRetirement => []LeftSetIsRetiredOrOwed
<1>1. RotationInit => DebtGood
  BY DEF RotationInit, Init, DebtGood, LeftSetIsRetiredOrOwed, NoRetirement
<1>2. /\ RInv /\ DebtGood /\ [RotationNext]_allVars
      /\ [generation' # generation => owed = 0 /\ retiring = NoRetirement]_allVars
      => DebtGood'
  <2>1. UNCHANGED allVars => generation' = generation
    BY DEF allVars, vars, disk
  <2> QED
    BY <2>1, DebtKept
<1>3. DebtGood => LeftSetIsRetiredOrOwed
  BY DEF DebtGood
<1> QED
  BY <1>1, <1>2, <1>3, RotationInvariant, PTL DEF RotationSpec, WaitsForRetirement

\* A fenced writer stays silent through a rotation too: no stage of it opens a
\* connection or sends what was held back.
THEOREM RotationFencedIsSilent == RotationSpec => FencedIsSilent
<1>1. ASSUME RInv, [RotationNext]_allVars, Fenced PROVE Silence
  <2>1. CASE (\E c \in Channel : ChannelSteps(c)) \/ WriterSteps
    BY <1>1, <2>1, SharedStepIsSilent DEF RInv
  <2>2. CASE RotationRestarts
    BY <2>2 DEF RotationRestarts, ForgetsMemory, Freezes, Everywhere, Silence
  <2>3. CASE UNCHANGED wire
    BY <1>1, <2>3, FencedIsIdle DEF wire, Silence, RInv
  <2>4. CASE \E s \in 1..generation : TakesOver(s)
    BY <2>3, <2>4 DEF TakesOver
  <2>5. CASE RotationSteps /\ ~RotationRestarts
    <3>1. UNCHANGED wire
      BY <2>5 DEF RotationSteps, BeginsRotation, RotationRefused, Registers,
                  BackfillEnds, Switches, ProvesEmpty, SwitchesAtGenesis,
                  RetirementBegins, RetriesRetirement, MemberRetires,
                  RetirementAccepted, RetirementUnanswered, vars, wire
    <3> QED
      BY <2>3, <3>1
  <2>6. CASE UNCHANGED allVars
    BY <2>3, <2>6 DEF allVars, vars
  <2> QED
    BY <1>1, <2>1, <2>2, <2>4, <2>5, <2>6 DEF RotationNext
<1>2. RInv /\ [RotationNext]_allVars =>
        [barrier = "fenced" \/ gate = "fenced" =>
            (\A c \in Channel : link'[c] = "down") /\ seen' = seen]_vars
  BY <1>1 DEF Fenced, Silence
<1> QED
  BY <1>2, RotationInvariant, PTL DEF RotationSpec, FencedIsSilent

=============================================================================
