-------------------------- MODULE GuardianRotation --------------------------
(***************************************************************************)
(* The writer of DurabilityBarrier replacing its guardian set while it runs *)
(* (recovery/guardian-rotation.ts, and rotateGuardians in                   *)
(* cli/beignet-node.ts): persist the intent, register with the incoming     *)
(* set, backfill it, switch in one transaction, retire the outgoing set.    *)
(* The next set is the next generation.                                     *)
(***************************************************************************)
EXTENDS DurabilityBarrier

VARIABLES
    intent,     \* disk: a rotation to the next generation is under way
    inMark,     \* disk: frames a quorum of the incoming set receipted
    owed,       \* disk: the set that is owed its retirement, or 0
    stage,      \* memory: what the running rotation waits for
    passTip,    \* memory: the tip its backfill pass began with
    timer,      \* memory: the retry timer of an owed retirement is set
    retiring    \* memory: [Asker -> the set its ROTATE_SET in flight names, or 0]

rotation == <<intent, inMark, owed, stage, passTip>>
retirement == <<timer, retiring>>
allVars == <<vars, rotation, retirement>>

\* Who sends a ROTATE_SET: the rotation itself, and the retry timer.
Asker == {"rotation", "timer"}
NoRetirement == [a \in Asker |-> 0]

RotationTypeOK ==
    /\ TypeOK
    /\ intent \in BOOLEAN
    /\ intent => generation < MaxGeneration
    /\ inMark \in 0..tip
    /\ owed \in 0..generation
    /\ stage \in {"none", "register", "backfill", "prove", "switch", "retire"}
    /\ stage \in {"register", "backfill", "prove", "switch"} => intent
    /\ passTip \in 0..tip
    /\ timer \in BOOLEAN
    /\ retiring \in [Asker -> 0..generation]
    /\ retiring["timer"] # 0 => timer
    /\ retiring["rotation"] # 0 => stage = "retire"

RotationInit ==
    /\ Init
    /\ intent = FALSE /\ inMark = 0 /\ owed = 0 /\ stage = "none" /\ passTip = 0
    /\ timer = FALSE /\ retiring = NoRetirement

Incoming == generation + 1
AtGenesis == tip = 0 /\ mark = 0 /\ inMark = 0

\* The operator asks, or a restarted node finds the intent on disk.
BeginsRotation ==
    /\ stage = "none" /\ gate = "confirmed" /\ barrier = "open"
    /\ generation < MaxGeneration
    /\ intent' = TRUE /\ stage' = "register"
    /\ UNCHANGED <<vars, inMark, owed, passTip>>

\* Too few registrations, an incoming set that names a newer writer, a
\* backfill that no longer advances, or a proof that is refused.
RotationRefused ==
    /\ stage \in {"register", "backfill", "prove", "switch"}
    /\ stage' = "none" /\ passTip' = 0
    /\ UNCHANGED <<vars, intent, inMark, owed>>

Registers ==
    /\ stage = "register"
    /\ stage' = "backfill" /\ passTip' = tip
    /\ UNCHANGED <<vars, intent, inMark, owed>>

\* Mutant of Switches: the intent survives the switch.
SwitchKeepsIntent(through) ==
    /\ mark' = through /\ inMark' = 0
    /\ generation' = Incoming
    /\ owed' = generation
    /\ stage' = "retire" /\ passTip' = 0
    /\ UNCHANGED <<intent, tip, taken, retired, replication, ownership, wire,
                   restarts>>

\* Mutant of Switches: the debt of the retirement is written after the
\* transaction, and a crash comes first.
SwitchForgetsDebt(through) ==
    /\ mark' = through /\ inMark' = 0
    /\ generation' = Incoming
    /\ intent' = FALSE
    /\ stage' = "none" /\ passTip' = 0
    /\ UNCHANGED <<owed, tip, taken, retired, replication, ownership, wire,
                   restarts>>

\* The switch and the swap of the replicators: mark, generation and the debt
\* of the retirement move in one transaction.  The barrier takes the new mark
\* and releases nobody.
Switches(through) ==
    /\ mark' = through /\ inMark' = 0
    /\ generation' = Incoming
    /\ intent' = FALSE
    /\ owed' = generation
    /\ stage' = "retire" /\ passTip' = 0
    /\ UNCHANGED <<tip, taken, retired, replication, ownership, wire, restarts>>

\* Mutant of CoversTip: the tip the pass began with is good enough.
CoversPassTip(through) == through >= passTip

CoversTip(through) == through >= tip

\* A backfill pass ends.  When it covers the tip of now the switch follows at
\* once, except at genesis, where the sets are asked first.
BackfillEnds ==
    /\ stage = "backfill"
    /\ \E held \in stored[Incoming]..passTip \cup {stored[Incoming]} :
       \E through \in inMark..held \cup {inMark} :
          /\ stored' = [stored EXCEPT ![Incoming] = held]
          /\ \/ /\ CoversTip(through) /\ ~AtGenesis
                /\ Switches(through)
             \/ /\ CoversTip(through) /\ AtGenesis
                /\ stage' = "prove" /\ inMark' = through
                /\ UNCHANGED <<disk, taken, retired, replication, ownership,
                               wire, restarts, intent, owed, passTip>>
             \/ /\ ~CoversTip(through)
                /\ inMark' = through /\ passTip' = tip
                /\ UNCHANGED <<disk, taken, retired, replication, ownership,
                               wire, restarts, intent, owed, stage>>

\* proveNamespaceEmpty: both sets confirm this lease and an empty log.
ProvesEmpty ==
    /\ stage = "prove"
    /\ taken \cap {generation, Incoming} = {}
    /\ stored[generation] = 0 /\ stored[Incoming] = 0
    /\ stage' = "switch"
    /\ UNCHANGED <<vars, intent, inMark, owed, passTip>>

\* The transaction tests again whether the journal is at genesis.
SwitchesAtGenesis ==
    /\ stage = "switch"
    /\ AtGenesis \/ CoversTip(inMark)
    /\ Switches(inMark)
    /\ UNCHANGED stored

-----------------------------------------------------------------------------
(* The retirement: ROTATE_SET to the outgoing set, by the rotation and, when *)
(* it had no answer, by the retry timer.  The debt is read before the        *)
(* requests leave and deleted, whichever it is by then, after an acceptance. *)

\* startRetireRetries: a timer that is not set yet tries at once.
StartsRetries(inFlight) ==
    /\ timer' = (timer \/ owed # 0)
    /\ retiring' = IF timer THEN inFlight ELSE [inFlight EXCEPT !["timer"] = owed]

\* The rotation reads the debt it has just written, if it is still there.
RetirementBegins ==
    /\ stage = "retire" /\ retiring["rotation"] = 0
    /\ IF owed = 0 THEN stage' = "none" /\ StartsRetries(retiring)
       ELSE /\ retiring' = [retiring EXCEPT !["rotation"] = owed]
            /\ UNCHANGED <<stage, timer>>
    /\ UNCHANGED <<vars, intent, inMark, owed, passTip>>

\* A tick of the timer.  One attempt is over before the next tick: a request
\* times out in half the interval.
RetriesRetirement ==
    /\ timer /\ retiring["timer"] = 0 /\ barrier # "stopped"
    /\ timer' = (owed # 0)
    /\ retiring' = [retiring EXCEPT !["timer"] = owed]
    /\ UNCHANGED <<vars, rotation>>

\* A member of the set takes the request; it does not look at the lease.
MemberRetires(a) ==
    /\ retiring[a] # 0
    /\ retired' = retired \cup {retiring[a]}
    /\ UNCHANGED <<disk, stored, taken, replication, ownership, wire, restarts,
                   rotation, retirement>>

\* The answers are in, and a member accepted.
RetirementAccepted(a) ==
    /\ retiring[a] # 0 /\ retiring[a] \in retired
    /\ owed' = 0
    /\ retiring' = [retiring EXCEPT ![a] = 0]
    /\ stage' = IF a = "rotation" THEN "none" ELSE stage
    /\ UNCHANGED <<vars, intent, inMark, passTip, timer>>

\* No acceptance was heard: the retirement is still owed.
RetirementUnanswered(a) ==
    /\ retiring[a] # 0
    /\ IF a = "rotation"
       THEN stage' = "none" /\ StartsRetries([retiring EXCEPT ![a] = 0])
       ELSE retiring' = [retiring EXCEPT ![a] = 0] /\ UNCHANGED <<stage, timer>>
    /\ UNCHANGED <<vars, intent, inMark, owed, passTip>>

\* resumeRotationWork, when the gate opens: the retries of an owed retirement.
\* A pending intent is BeginsRotation's.
ResumesRetirement ==
    IF gate # "confirmed" /\ gate' = "confirmed" THEN StartsRetries(retiring)
    ELSE UNCHANGED retirement

RotationRestarts ==
    /\ ForgetsMemory
    /\ stage' = "none" /\ passTip' = 0
    /\ timer' = FALSE /\ retiring' = NoRetirement
    /\ UNCHANGED <<disk, guardians, intent, inMark, owed>>

RotationSteps ==
    \/ /\ BeginsRotation \/ RotationRefused \/ Registers \/ BackfillEnds
       /\ UNCHANGED retirement
    \/ /\ ProvesEmpty \/ SwitchesAtGenesis
       /\ UNCHANGED retirement
    \/ RetirementBegins \/ RetriesRetirement
    \/ \E a \in Asker :
          MemberRetires(a) \/ RetirementAccepted(a) \/ RetirementUnanswered(a)
    \/ RotationRestarts

RotationNext ==
    \/ (\E c \in Channel : ChannelSteps(c)) /\ UNCHANGED <<rotation, retirement>>
    \/ WriterSteps /\ UNCHANGED rotation /\ ResumesRetirement
    \/ /\ \E s \in 1..generation : TakesOver(s)
       /\ UNCHANGED <<rotation, retirement>>
    \/ RotationSteps

RotationSpec == RotationInit /\ [][RotationNext]_allVars

-----------------------------------------------------------------------------
(* Properties, besides those of DurabilityBarrier.                          *)

\* A set the writer left is retired, or its retirement is still on disk to be
\* retried, whatever the attempts of the rotation and of the timer make of it
\* (RECOVERY-GUARDIAN-WIRE.md 5.9, step 5).  It is a promise of one rotation.
\* The switch of a second one writes its own debt over a debt no member has
\* taken, and an attempt that still runs for the first set deletes the debt of
\* the second.
LeftSetIsRetiredOrOwed == \A s \in 1..(generation - 1) : s \in retired \cup {owed}

\* The second rotation waits until the first set is retired: no debt is on
\* disk and no attempt in flight when the writer moves on.
WaitsForRetirement ==
    [][generation' # generation => owed = 0 /\ retiring = NoRetirement]_allVars

=============================================================================
