------------------------- MODULE DurabilityBarrier --------------------------
(***************************************************************************)
(* A quorum-mode writer between its journal and its peers: the quorum       *)
(* durability barrier (recovery/durability-barrier.ts), the queues in which *)
(* the channel manager holds wire messages behind it                        *)
(* (channel/channel-manager.ts), the startup gate                           *)
(* (recovery/startup-gate.ts), and the guardians as the writer sees them    *)
(* (recovery/guardian-replication.ts).  A guardian set is named by its      *)
(* generation.  One channel per peer: its link is the peer's connection.    *)
(***************************************************************************)
EXTENDS Integers, Sequences, FiniteSets, FiniteSetsExt

CONSTANTS
    Channel,
    MaxFrames,          \* bound: journal frames
    MaxHeld,            \* bound: batches of one queue when an unsaved one joins
    MaxGeneration,      \* bound: guardian sets
    MaxTakeovers,       \* bound: sets another device takes over
    MaxRestarts         \* bound: restarts of the process

ASSUME BarrierConstants ==
    /\ MaxFrames \in Nat /\ MaxHeld \in Nat /\ MaxGeneration \in Nat \ {0}
    /\ MaxTakeovers \in Nat /\ MaxRestarts \in Nat

VARIABLES
    tip,        \* disk: the last committed frame
    mark,       \* disk, cached by the barrier: frames a quorum receipted
    generation, \* disk: the configured guardian set
    stored,     \* [generation -> frames a quorum of that set holds]
    taken,      \* the sets whose lease another device has acquired
    retired,    \* the sets that hold the marker of a rotation to the next one
    barrier,    \* "open", "fenced" or "stopped"
    pump,       \* the replication pump and the pass it is in
    orphans,    \* frames awaited by loops whose queue was purged
    gate,       \* "quarantined", "confirmed" or "fenced"
    ask,        \* the ownership question in flight
    queue,      \* [Channel -> held batches]
    loop,       \* [Channel -> the release loop of that queue]
    link,       \* [Channel -> "down", "up", or "closing": to be disconnected]
    sent,       \* [Channel -> frame of the last batch sent on this connection]
    seen,       \* the highest frame of a gated batch that was sent
    restarts

disk == <<tip, mark, generation>>
guardians == <<stored, taken, retired>>
replication == <<barrier, pump, orphans>>
ownership == <<gate, ask>>
wire == <<queue, loop, link, sent, seen>>
vars == <<disk, guardians, replication, ownership, wire, restarts>>

Generations == 1..MaxGeneration
Larger(m, n) == IF m < n THEN n ELSE m
Batch == [frame : 0..MaxFrames, gated : BOOLEAN]
Idle == [at |-> "idle", set |-> 0, tip |-> 0, kicked |-> FALSE]
NoQuestion == [kind |-> "none", set |-> 0, clean |-> FALSE]

TypeOK ==
    /\ tip \in 0..MaxFrames
    /\ mark \in 0..tip
    /\ generation \in Generations
    /\ stored \in [Generations -> 0..tip]
    /\ taken \subseteq Generations
    /\ retired \subseteq Generations
    /\ barrier \in {"open", "fenced", "stopped"}
    /\ pump \in [at : {"idle", "pass", "delay"}, set : 0..MaxGeneration,
                 tip : 0..tip, kicked : BOOLEAN]
    /\ orphans \subseteq 1..tip
    /\ gate \in {"quarantined", "confirmed", "fenced"}
    /\ ask \in [kind : {"none", "confirm", "recheck"},
                set : 0..MaxGeneration, clean : BOOLEAN]
    /\ queue \in [Channel -> Seq(Batch)]
    /\ loop \in [Channel -> {"none", "parked", "durable", "refused"}]
    /\ \A c \in Channel :
          /\ loop[c] = "none" <=> queue[c] = << >>
          /\ loop[c] # "none" => queue[c][1].gated
    /\ link \in [Channel -> {"down", "up", "closing"}]
    /\ sent \in [Channel -> 0..tip]
    /\ seen \in 0..tip
    /\ restarts \in 0..MaxRestarts

Empty == [c \in Channel |-> << >>]
Everywhere(x) == [c \in Channel |-> x]

Init ==
    /\ tip = 0 /\ mark = 0 /\ generation = 1
    /\ stored = [s \in Generations |-> 0] /\ taken = {} /\ retired = {}
    /\ barrier = "open" /\ pump = Idle /\ orphans = {}
    /\ gate = "quarantined" /\ ask = NoQuestion
    /\ queue = Empty /\ loop = Everywhere("none") /\ link = Everywhere("down")
    /\ sent = Everywhere(0) /\ seen = 0
    /\ restarts = 0

-----------------------------------------------------------------------------
(* The barrier's questions, and the pump.                                   *)

IsReleased(n) == barrier = "open" /\ n <= mark

WhenReleased(n) ==
    IF barrier # "open" THEN "refused"
    ELSE IF n <= mark THEN "durable" ELSE "parked"

Waiting(l, q) == {q[c][1].frame : c \in {d \in Channel : l[d] = "parked"}}

\* A pass takes the frames above the watermark; with none it asks no guardian.
Pass(through, above) ==
    [at |-> "pass", set |-> generation, kicked |-> FALSE,
     tip |-> IF through > above THEN through ELSE 0]

\* Mutant of Kick: a kick during a pass is lost.
KickLostInPass(p, through) ==
    IF barrier = "open" /\ p.at = "idle" THEN Pass(through, mark) ELSE p

Kick(p, through) ==
    IF barrier # "open" THEN p
    ELSE IF p.at = "idle" THEN Pass(through, mark)
    ELSE [p EXCEPT !.kicked = TRUE]

-----------------------------------------------------------------------------
(* A batch of actions, from the channel manager to the peer.                *)

\* Mutant of ShouldHold: a batch is held for its own messages only.
HoldsGatedOnly(c, b) == b.gated /\ ~IsReleased(b.frame)

ShouldHold(c, b) == queue[c] # << >> \/ (b.gated /\ ~IsReleased(b.frame))

SendsNow(c, b) ==
    /\ sent' = [sent EXCEPT ![c] = b.frame]
    /\ seen' = IF b.gated THEN Larger(seen, b.frame) ELSE seen
    /\ UNCHANGED <<queue, loop, link>>

\* The first batch of a queue starts its release loop.
HoldBatch(c, b) ==
    /\ queue' = [queue EXCEPT ![c] = Append(@, b)]
    /\ loop' = IF queue[c] = << >>
               THEN [loop EXCEPT ![c] = WhenReleased(b.frame)] ELSE loop
    /\ UNCHANGED <<link, sent, seen>>

\* A batch with a PERSIST_STATE: the frame is committed, replication is
\* kicked, and the rest of the batch is held or sent.  A wait that is parked
\* kicks again.
ProcessesBatch(c, gated) ==
    LET b == [frame |-> tip + 1, gated |-> gated]
        noted == Kick(pump, tip + 1)
        hold == ShouldHold(c, b)
    IN  /\ link[c] # "down"
        /\ tip < MaxFrames
        /\ tip' = tip + 1
        /\ IF hold THEN HoldBatch(c, b) ELSE SendsNow(c, b)
        /\ pump' = IF loop'[c] = "parked" /\ loop[c] # "parked"
                   THEN Kick(noted, tip + 1) ELSE noted
        /\ UNCHANGED <<mark, generation, guardians, barrier, orphans,
                       ownership, restarts>>

\* A batch without one: held whole behind a queue, sent otherwise.
ProcessesUnsaved(c) ==
    LET b == [frame |-> tip, gated |-> FALSE]
    IN  /\ link[c] # "down"
        /\ Len(queue[c]) < MaxHeld
        /\ IF queue[c] # << >> THEN HoldBatch(c, b) ELSE SendsNow(c, b)
        /\ UNCHANGED <<disk, guardians, replication, ownership, restarts>>

\* The save is refused: nothing of the batch is sent, and the node is told to
\* replace the connection.
PersistFails(c) ==
    /\ link[c] = "up"
    /\ link' = [link EXCEPT ![c] = "closing"]
    /\ UNCHANGED <<disk, guardians, replication, ownership, queue, loop, sent,
                   seen, restarts>>

-----------------------------------------------------------------------------
(* The release loop of a queue.                                             *)

\* Mutant of Drained: ungated batches behind the released one stay.
DrainsOne(q) == 1

\* What the loop sends before it waits again: the batch that was released and
\* the ungated ones behind it.
Drained(q) ==
    LET beforeGated == {i \in 1..(Len(q) - 1) : q[i + 1].gated}
    IN  Min(beforeGated \cup {Len(q)})

SendsHeld(c, n) ==
    LET gated == {queue[c][i].frame : i \in {j \in 1..n : queue[c][j].gated}}
    IN  /\ sent' = IF n = 0 THEN sent
                   ELSE [sent EXCEPT ![c] = queue[c][n].frame]
        /\ seen' = IF gated = {} THEN seen ELSE Larger(seen, Max(gated))

\* The wait ended in a release.
Releases(c) ==
    LET n == Drained(queue[c])
        rest == SubSeq(queue[c], n + 1, Len(queue[c]))
    IN  /\ loop[c] = "durable"
        /\ SendsHeld(c, n)
        /\ queue' = [queue EXCEPT ![c] = rest]
        /\ loop' = [loop EXCEPT ![c] = IF rest = << >> THEN "none"
                                       ELSE WhenReleased(rest[1].frame)]
        /\ pump' = IF loop'[c] = "parked" THEN Kick(pump, tip) ELSE pump
        /\ UNCHANGED <<disk, guardians, barrier, orphans, ownership, link,
                       restarts>>

\* A listener throws into the dispatch of a released batch: the first n of
\* the batches are on the socket, and the queue is torn down.
DispatchThrows(c) ==
    /\ loop[c] = "durable"
    /\ \E n \in 0..Drained(queue[c]) : SendsHeld(c, n)
    /\ queue' = [queue EXCEPT ![c] = << >>]
    /\ loop' = [loop EXCEPT ![c] = "none"]
    /\ link' = [link EXCEPT ![c] = "closing"]
    /\ UNCHANGED <<disk, guardians, replication, ownership, restarts>>

\* The wait ended in a refusal: the queue is dropped and the node is told to
\* replace the connection.
DiscardsHeld(c) ==
    /\ loop[c] = "refused"
    /\ queue' = [queue EXCEPT ![c] = << >>]
    /\ loop' = [loop EXCEPT ![c] = "none"]
    /\ link' = [link EXCEPT ![c] = "closing"]
    /\ UNCHANGED <<disk, guardians, replication, ownership, sent, seen,
                   restarts>>

\* Mutant of TimesOut: a timeout is permission.
TimeoutReleases(c) ==
    /\ loop[c] = "parked"
    /\ loop' = [loop EXCEPT ![c] = "durable"]
    /\ UNCHANGED <<disk, guardians, replication, ownership, queue, link, sent,
                   seen, restarts>>

\* Mutant of TimesOut: a wait has no timer.
NeverTimesOut(c) == FALSE /\ UNCHANGED vars

TimesOut(c) ==
    /\ loop[c] = "parked"
    /\ loop' = [loop EXCEPT ![c] = "refused"]
    /\ UNCHANGED <<disk, guardians, replication, ownership, queue, link, sent,
                   seen, restarts>>

\* A wait whose queue was purged ends; its loop finds another queue or none.
OrphanTimesOut ==
    /\ \E n \in orphans : orphans' = orphans \ {n}
    /\ UNCHANGED <<disk, guardians, barrier, pump, ownership, wire, restarts>>

-----------------------------------------------------------------------------
(* Connections.                                                             *)

\* Mutant of DropsLink: what is held survives the connection.
DropsLinkOnly(c) ==
    /\ link' = [link EXCEPT ![c] = "down"]
    /\ sent' = [sent EXCEPT ![c] = 0]
    /\ UNCHANGED <<disk, guardians, replication, ownership, queue, loop, seen,
                   restarts>>

\* Everything held is purged; its waiter stays with the barrier.
DropsLink(c) ==
    /\ link' = [link EXCEPT ![c] = "down"]
    /\ queue' = [queue EXCEPT ![c] = << >>]
    /\ loop' = [loop EXCEPT ![c] = "none"]
    /\ sent' = [sent EXCEPT ![c] = 0]
    /\ orphans' = orphans \cup
          (IF loop[c] = "parked" THEN {queue[c][1].frame} ELSE {})
    /\ UNCHANGED <<disk, guardians, barrier, pump, ownership, seen, restarts>>

\* The peer or the network ends the connection.
LosesPeer(c) == link[c] = "up" /\ DropsLink(c)

\* The setImmediate of a frozen, blocked or failed transition runs.
DisconnectsPeer(c) == link[c] = "closing" /\ DropsLink(c)

\* Mutant of PermitsPeerTraffic: a fence of the barrier is not consulted.
PermitsWhenConfirmed == gate = "confirmed" /\ barrier # "stopped"

PermitsPeerTraffic == gate = "confirmed" /\ barrier = "open"

ConnectsPeer(c) ==
    /\ link[c] = "down"
    /\ PermitsPeerTraffic
    /\ link' = [link EXCEPT ![c] = "up"]
    /\ UNCHANGED <<disk, guardians, replication, ownership, queue, loop, sent,
                   seen, restarts>>

\* hardFreezeTransports: every connection goes, and what was held with it.
Freezes ==
    /\ queue' = Empty /\ loop' = Everywhere("none")
    /\ link' = Everywhere("down") /\ sent' = Everywhere(0)
    /\ UNCHANGED seen

-----------------------------------------------------------------------------
(* Replication.                                                             *)

\* Mutant of RotationIsNews: the marker is compared with the set asked.
AnyRotationIsNews(s) == s + 1 > s

\* A rotation counts against this writer only above the generation it knows.
RotationIsNews(s) == s + 1 > generation

\* A guardian of the set can prove that the namespace moved on.
Evidence(s) == s \in taken \/ (s \in retired /\ RotationIsNews(s))

\* The pass is told of a newer lease or set.  The node freezes before the
\* waiters are settled.
PassIsFenced ==
    /\ pump.at = "pass" /\ pump.tip > 0
    /\ Evidence(pump.set)
    /\ pump' = Idle
    /\ IF barrier = "stopped" THEN UNCHANGED <<barrier, orphans, wire>>
       ELSE barrier' = "fenced" /\ orphans' = {} /\ Freezes
    /\ UNCHANGED <<disk, guardians, ownership, restarts>>

\* Mutant of Advance: the waiter of the very frame that became durable stays.
AdvanceReleasesBelow(through) ==
    /\ loop' = [c \in Channel |->
          IF /\ through > mark /\ loop[c] = "parked"
             /\ queue[c][1].frame < through
          THEN "durable" ELSE loop[c]]
    /\ orphans' = {n \in orphans : n > through}

\* Advance: the waiters a higher watermark covers are released.
Advance(through) ==
    /\ loop' = [c \in Channel |->
          IF /\ through > mark /\ loop[c] = "parked"
             /\ queue[c][1].frame <= through
          THEN "durable" ELSE loop[c]]
    /\ orphans' = IF through > mark THEN {n \in orphans : n > through}
                  ELSE orphans

\* The pass ends with a quorum's receipts up to a frame it offered.  Not all
\* that is stored was receipted to this device, and a set whose lease is gone
\* stores nothing more for it.
PassEnds ==
    /\ pump.at = "pass"
    /\ \E held \in stored[pump.set]..(IF pump.set \in taken THEN 0 ELSE pump.tip)
                   \cup {stored[pump.set]} :
       \E through \in mark..(IF held < pump.tip THEN held ELSE pump.tip)
                   \cup {mark} :
          /\ stored' = [stored EXCEPT ![pump.set] = held]
          /\ mark' = through
          /\ IF barrier = "stopped"
             THEN pump' = Idle /\ UNCHANGED <<loop, orphans>>
             ELSE /\ Advance(through)
                  /\ pump' = IF Waiting(loop', queue) \cup orphans' # {}
                             THEN [Idle EXCEPT !.at = "delay"]
                             ELSE IF pump.kicked THEN Pass(tip, through)
                             ELSE Idle
    /\ UNCHANGED <<tip, generation, taken, retired, barrier, ownership, queue,
                   link, sent, seen, restarts>>

RetriesPass ==
    /\ pump.at = "delay"
    /\ pump' = Pass(tip, mark)
    /\ UNCHANGED <<disk, guardians, barrier, orphans, ownership, wire, restarts>>

-----------------------------------------------------------------------------
(* Ownership: one confirm or recheck at a time.                             *)

AsksGuardians ==
    /\ ask = NoQuestion /\ gate # "fenced"
    /\ ask' = [kind |-> IF gate = "confirmed" THEN "recheck" ELSE "confirm",
               set |-> generation, clean |-> generation \notin taken]
    /\ UNCHANGED <<disk, guardians, replication, gate, wire, restarts>>

GateFences ==
    /\ ask # NoQuestion /\ Evidence(ask.set)
    /\ gate' = "fenced" /\ ask' = NoQuestion
    /\ orphans' = orphans \cup Waiting(loop, queue)
    /\ Freezes
    /\ UNCHANGED <<disk, guardians, barrier, pump, restarts>>

\* A quorum named this lease; a set taken before the question cannot.
GateOpens ==
    /\ ask.kind = "confirm" /\ ask.clean
    /\ gate' = "confirmed" /\ ask' = NoQuestion
    /\ pump' = Kick(pump, tip)
    /\ UNCHANGED <<disk, guardians, barrier, orphans, wire, restarts>>

\* Silence, too few answers or an error, or a recheck without news.
AsksInVain ==
    /\ ask # NoQuestion
    /\ ask' = NoQuestion
    /\ UNCHANGED <<disk, guardians, replication, gate, wire, restarts>>

-----------------------------------------------------------------------------
(* The process, and the other devices.                                      *)

\* The node is destroyed: every wait is refused and every connection closed.
Stops ==
    /\ barrier = "open"
    /\ barrier' = "stopped" /\ orphans' = {}
    /\ pump' = IF pump.at = "delay" THEN Idle ELSE pump
    /\ Freezes
    /\ UNCHANGED <<disk, guardians, ownership, restarts>>

ForgetsMemory ==
    /\ restarts < MaxRestarts
    /\ restarts' = restarts + 1
    /\ barrier' = "open" /\ pump' = Idle /\ orphans' = {}
    /\ gate' = "quarantined" /\ ask' = NoQuestion
    /\ Freezes

Restarts == ForgetsMemory /\ UNCHANGED <<disk, guardians>>

TakesOver(s) ==
    /\ s \notin taken /\ Cardinality(taken) < MaxTakeovers
    /\ taken' = taken \cup {s}
    /\ UNCHANGED <<disk, stored, retired, replication, ownership, wire, restarts>>

ChannelSteps(c) ==
    \/ \E gated \in BOOLEAN : ProcessesBatch(c, gated)
    \/ ProcessesUnsaved(c) \/ PersistFails(c)
    \/ Releases(c) \/ DispatchThrows(c) \/ DiscardsHeld(c) \/ TimesOut(c)
    \/ LosesPeer(c) \/ DisconnectsPeer(c) \/ ConnectsPeer(c)

WriterSteps ==
    \/ OrphanTimesOut
    \/ PassIsFenced \/ PassEnds \/ RetriesPass
    \/ AsksGuardians \/ GateFences \/ GateOpens \/ AsksInVain
    \/ Stops

Next ==
    \/ \E c \in Channel : ChannelSteps(c)
    \/ WriterSteps
    \/ Restarts
    \/ TakesOver(generation)

Spec == Init /\ [][Next]_vars

\* What the event loop owes a pump and a release loop: the answer of a pass,
\* whose requests all have a timeout, the retry timer, the timer of a wait,
\* and the continuation of a wait that is over.
Pumps == PassIsFenced \/ PassEnds \/ RetriesPass
LoopRuns(c) == TimesOut(c) \/ Releases(c) \/ DispatchThrows(c) \/ DiscardsHeld(c)

FairSpec == Spec /\ WF_vars(Pumps) /\ \A c \in Channel : WF_vars(LoopRuns(c))

-----------------------------------------------------------------------------
(* Properties.                                                              *)

\* A frame whose gated messages a peer has seen is held by a quorum of the
\* guardian set that the disk names, through rotations, crashes and lost
\* receipts (isReleased, whenReleased, and the switch of a rotation).  A set
\* that another device took over stores nothing more, so that device holds
\* all that this writer still releases before it learns of it.
ReleasedIsHeld == mark <= stored[generation] /\ seen <= stored[generation]

\* The writer is frozen only when another device has taken a set over; the
\* retirement it sent itself is no evidence against it (verifiedRotation).
NeverFencedByItself == barrier = "fenced" \/ gate = "fenced" => taken # {}

\* Once the barrier or the gate is fenced no peer is connected and nothing is
\* sent, until a restart (hardFreezeTransports, recoveryPermitsPeerTraffic).
FencedIsSilent ==
    [][barrier = "fenced" \/ gate = "fenced" =>
          (\A c \in Channel : link'[c] = "down") /\ seen' = seen]_vars

\* A waiter of the barrier waits for a frame above the watermark: one advance
\* resolves every waiter it covers (advance, whenReleased).
WaitersAreAboveTheMark ==
    \A c \in Channel : loop[c] = "parked" => queue[c][1].frame > mark

\* What is held leaves its queue, sent or given up, whatever the guardians do
\* (the timeout of whenReleased, _awaitRelease).
HeldBatchesLeave == \A c \in Channel : queue[c] # << >> ~> queue[c] = << >>

\* A frame committed during a pass that does not carry it is offered by a
\* later pass, with or without a waiter (the coalesced kicks of pump), unless
\* the process ends: a restarted one offers it once its lease is confirmed.
CommitsAreOffered ==
    \A n \in 1..MaxFrames :
        (pump.at = "pass" /\ pump.tip < n /\ mark < n /\ n <= tip) ~>
            \/ pump.at = "pass" /\ pump.tip >= n
            \/ mark >= n \/ barrier # "open" \/ gate = "quarantined"

\* The queues, the barrier, the gate and the rotation together implement the
\* promise of WireRelease.
Promise == INSTANCE WireRelease WITH
    Frame <- 0..MaxFrames,
    durable <- stored[generation],
    pending <- queue,
    broken <- [c \in Channel |-> link[c] # "up"]

ImplementsWireRelease == Promise!Spec

=============================================================================
