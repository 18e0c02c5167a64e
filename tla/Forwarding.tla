----------------------------- MODULE Forwarding -----------------------------
(***************************************************************************)
(* A node that forwards the parts of one payment (node/lightning-node.ts).  *)
(* Every part arrives on a channel of its own and leaves on one shared      *)
(* outgoing channel; all parts have the same payment hash, so one preimage  *)
(* settles them all.  The commitment exchange of a channel is abstracted to *)
(* the points where an HTLC becomes irrevocable (module ChannelPair has the *)
(* rest).  The state is one record, and a handler a function of it:         *)
(*                                                                          *)
(*   in, inCh   each part's inbound HTLC, and the channel it is on          *)
(*   outCh      the outgoing channel, and next the id its next HTLC takes   *)
(*   legs       the outgoing HTLCs by id: the part, the state of the entry, *)
(*              whether its removal was revoked for, its output on chain    *)
(*   link, row  forwardedHtlcs in memory and on disk: outgoing id to part   *)
(*   held       the ids whose linkage carries a failReason (memory)         *)
(*   preimage   the preimage is known, and saved                            *)
(*   parked     dispatches waiting for quiescence to end (memory)           *)
(*   deferred   fails waiting for it in the manager (memory)                *)
(*   turns      setImmediate callbacks not run yet                          *)
(*   repair     parts whose channel was restored and not reestablished yet  *)
(***************************************************************************)
EXTENDS Integers, Sequences, Functions, TLC

CONSTANTS
    Part,       \* the parts of the payment
    None,       \* not a part
    MaxAdds,    \* bound: outgoing HTLCs
    MaxFaults   \* bound: drops, restarts and quiescence sessions

ASSUME ForwardingConstants ==
    None \notin Part /\ MaxAdds \in Nat /\ MaxFaults \in Nat

VARIABLES node, faults

vars == <<node, faults>>

\* The ids in use, and the one the next outgoing HTLC would take.
Id == 1..(MaxAdds + 1)

\* How near the inbound expiry is to a block.
Far == 0            \* no scan is concerned
ClaimBuffer == 1    \* within INBOUND_HTLC_CLAIM_FORCE_CLOSE_BUFFER
DoubleMargin == 2   \* within twice htlcSafetyMargin
Margin == 3         \* within htlcSafetyMargin

Unlisted == [id \in Id |-> None]

NewLeg(p) == [part |-> p, state |-> "ADDED", revoked |-> FALSE, output |-> "none"]

NoLeg == [NewLeg(None) EXCEPT !.state = "UNUSED"]

Init ==
    /\ node = [in |-> [p \in Part |-> "NEW"],
               inCh |-> [p \in Part |-> "NORMAL"], outCh |-> "NORMAL",
               legs |-> [id \in Id |-> NoLeg], next |-> 1,
               link |-> Unlisted, row |-> Unlisted, held |-> {},
               preimage |-> FALSE, parked |-> {}, deferred |-> {},
               turns |-> {}, repair |-> {}]
    /\ faults = 0

-----------------------------------------------------------------------------
(* Settling upstream.                                                       *)

\* canFulfillHtlc and canFailHtlc: a quiescing channel refuses as well.
CanSettle(n, p) == n.inCh[p] = "NORMAL" /\ n.in[p] = "COMMITTED"

\* The channels take the outcome for the parts they can carry it for.
Settled(n, parts, outcome) ==
    LET taken == {p \in parts : CanSettle(n, p)}
    IN  [n EXCEPT !.in = [p \in Part |->
            IF p \in taken THEN outcome ELSE n.in[p]]]

Without(listing, ids) ==
    [id \in Id |-> IF id \in ids THEN None ELSE listing[id]]

Unlinked(n, ids) ==
    [n EXCEPT !.link = Without(@, ids), !.held = @ \ ids]

\* Mutant of Forgotten: the reason of a held fail outlives its linkage.
ForgottenButHeld(n, ids) ==
    [n EXCEPT !.link = Without(@, ids), !.row = Without(@, ids)]

Forgotten(n, ids) ==
    [n EXCEPT !.link = Without(@, ids), !.held = @ \ ids, !.row = Without(@, ids)]

Linked(n, parts) == {id \in Id : n.link[id] \in parts}

\* Mutant of SettledUpstream: the linkage is consumed whether or not the
\* inbound channel takes the settle.
SettledOrNot(n, ids, outcome) ==
    LET linked == ids \cap Linked(n, Part)
    IN  Forgotten(Settled(n, {n.link[id] : id \in linked}, outcome), linked)

\* settleForwardUpstream and failForwardUpstream: the linkage goes with the
\* settle, in one transaction, and stays when the channel refuses it.
SettledUpstream(n, ids, outcome) ==
    LET taken == ids \cap Linked(n, {p \in Part : CanSettle(n, p)})
        parts == {n.link[id] : id \in taken}
    IN  IF taken = {} THEN n
        ELSE Forgotten(Settled(n, parts, outcome), taken)

\* Mutant of TerminallyFailed: an update_fail_htlc counts as a failed leg.
FailedIsFinal(n, id) ==
    /\ ~n.preimage
    /\ \/ n.outCh = "NORMAL" /\ n.legs[id].state = "UNUSED"
       \/ n.legs[id].state \in {"FAILED", "REFUNDED"}
       \/ n.legs[id].output = "resolved"

\* isOutgoingLegTerminallyFailed.  Its first arm, an irrevocable FAILED entry,
\* is never met: the revoke_and_ack that makes the fail irrevocable deletes
\* the entry in the same handler.
TerminallyFailed(n, id) ==
    /\ ~n.preimage
    /\ \/ /\ n.legs[id].state \in {"UNUSED", "PAID", "REFUNDED"}
          /\ n.outCh = "NORMAL"
       \/ n.legs[id].output = "resolved"

\* Mutant of OwedPass: only the fulfil side of the debt.
OwesOnlyFulfils(n, parts) ==
    IF n.preimage THEN SettledUpstream(n, Linked(n, parts), "FULFILLED") ELSE n

\* Mutant of OwedPass: only the fail side of it.
OwesOnlyFails(n, parts) ==
    SettledUpstream(
        n, {id \in Linked(n, parts) : TerminallyFailed(n, id)}, "FAILED")

\* settleForwardsOwedUpstream, for the inbound channels of some parts.
OwedPass(n, parts) ==
    IF n.preimage
    THEN SettledUpstream(n, Linked(n, parts), "FULFILLED")
    ELSE SettledUpstream(
            n, {id \in Linked(n, parts) : TerminallyFailed(n, id)}, "FAILED")

\* drainForwardsAwaitingRemoval: only fails this process has seen itself.
DrainHeld(n) ==
    SettledUpstream(n, {id \in n.held : TerminallyFailed(n, id)}, "FAILED")

-----------------------------------------------------------------------------
(* Dispatching inbound HTLCs.                                               *)

\* Which of the parts are forwarded, in which order: any may be failed on a
\* policy, or because the outgoing channel refuses the add.
Orders(n, parts) ==
    UNION {Injection(1..k, parts) :
        k \in IF n.outCh = "NORMAL" THEN 0..(MaxAdds + 1 - n.next) ELSE {0}}

\* The part that an order forwards under an id.
Places(n, order, id) ==
    id >= n.next /\ id - n.next + 1 \in DOMAIN order

Placed(n, order, id) == order[id - n.next + 1]

\* forwardHtlcOnto: the linkage is recorded under the id the add will take.
Forwarded(n, order) ==
    LET list(f) == [id \in Id |-> IF Places(n, order, id)
                                  THEN Placed(n, order, id) ELSE f[id]]
    IN  [n EXCEPT
            !.link = list(@), !.row = list(@),
            !.legs = [id \in Id |-> IF Places(n, order, id)
                                    THEN NewLeg(Placed(n, order, id)) ELSE @[id]],
            !.next = @ + Len(order)]

\* handleIncomingHtlc on channels that are not quiescing.  A refused add takes
\* no id, and what was recorded under it goes.
Dispatched(n, parts, order, refused) ==
    LET m == IF order = << >> THEN n ELSE Forwarded(n, order)
        k == IF refused /\ parts # Range(order) THEN Forgotten(m, {m.next}) ELSE m
    IN  Settled(k, parts \ Range(order), "FAILED")

\* drainParkedQuiescentHtlcs, for the channels of some parts.
Drainable(n, parts) == {p \in n.parked \cap parts : n.inCh[p] = "NORMAL"}

DrainParked(n, parts, order, refused) ==
    LET closed == {p \in n.parked \cap parts : n.inCh[p] = "CHAIN"}
    IN  Dispatched([n EXCEPT !.parked = @ \ (closed \cup Drainable(n, parts))],
                   Drainable(n, parts), order, refused)

\* _drainDeferredSettles, for the channels of some parts.
DrainDeferred(n, parts) ==
    LET list == n.deferred \cap parts
        done == {p \in list : n.inCh[p] \in {"NORMAL", "CHAIN"}}
    IN  Settled([n EXCEPT !.deferred = @ \ done], done, "FAILED")

\* Mutant of Unresolved: the linkage of a part is not looked up.
UnresolvedOrLinked(n, p) ==
    IF p \in n.repair /\ n.in[p] = "COMMITTED" THEN {p} ELSE {}

\* redispatchUnresolvedReceivedHtlcs, once per restored channel: what has no
\* linkage is dispatched again.
Unresolved(n, p) ==
    IF p \in n.repair /\ n.in[p] = "COMMITTED" /\ Linked(n, {p}) = {}
    THEN {p} ELSE {}

Redispatched(n, p, order, refused) ==
    Dispatched([n EXCEPT !.repair = @ \ {p}], Unresolved(n, p), order, refused)

-----------------------------------------------------------------------------
(* What the outgoing peer and the chain report.                             *)

\* handleHtlcFulfilled: the preimage is saved before anything else.
FulfilSeen(n, id) ==
    SettledUpstream([n EXCEPT !.preimage = TRUE], {id}, "FULFILLED")

\* handleHtlcFailed: the reason is held until the removal is irrevocable.
FailSeen(n, id) ==
    IF n.link[id] = None THEN n
    ELSE IF TerminallyFailed(n, id) THEN SettledUpstream(n, {id}, "FAILED")
    ELSE [n EXCEPT !.held = @ \cup {id}]

\* handleOnChainPreimageLearned: every part that can be settled is.
PreimageSeen(n) ==
    LET parts == {p \in Part : CanSettle(n, p)}
    IN  Forgotten(Settled([n EXCEPT !.preimage = TRUE], parts, "FULFILLED"),
                  Linked(n, parts))

\* handleOnChainOutputResolved, for an offered HTLC's output.
ResolutionSeen(n, id) ==
    IF n.preimage THEN n ELSE SettledUpstream(n, {id}, "FAILED")

-----------------------------------------------------------------------------
(* Channels going down, restarting and closing.                             *)

Removing(leg) == leg.state \in {"FULFILLED", "FAILED"}

\* markForReestablish: a removal the peer had not signed is taken back.
RolledBack(legs) ==
    [id \in Id |-> IF Removing(legs[id]) /\ ~legs[id].revoked
                   THEN [legs[id] EXCEPT !.state = "COMMITTED"] ELSE legs[id]]

\* The process ends and starts again from what is on disk.
Restarted(n) ==
    [n EXCEPT
        !.inCh = [p \in Part |-> IF @[p] = "CHAIN" THEN "CHAIN" ELSE "DOWN"],
        !.outCh = IF @ = "CHAIN" THEN "CHAIN" ELSE "DOWN",
        !.legs = RolledBack(@),
        !.link = n.row, !.held = {}, !.parked = {}, !.deferred = {},
        !.turns = {}, !.repair = {p \in Part : n.in[p] = "COMMITTED"}]

ClosedIn(n, parts) ==
    [n EXCEPT !.inCh = [p \in Part |-> IF p \in parts THEN "CHAIN" ELSE @[p]]]

\* The legs that the commitment on chain has an output for: an add or a
\* removal that is under way may or may not be in it.
Outputs(n) ==
    LET certain == {id \in Id : \/ n.legs[id].state = "COMMITTED"
                                \/ Removing(n.legs[id]) /\ ~n.legs[id].revoked}
        possible == {id \in Id : \/ n.legs[id].state = "ADDED"
                                 \/ Removing(n.legs[id]) /\ n.legs[id].revoked}
    IN  {certain \cup S : S \in SUBSET possible}

ClosedOut(n, outputs) ==
    [n EXCEPT !.outCh = "CHAIN",
              !.legs = [id \in Id |->
                  IF id >= n.next THEN NoLeg
                  ELSE [n.legs[id] EXCEPT !.output =
                          IF id \in outputs THEN "open" ELSE "absent"]]]

-----------------------------------------------------------------------------
(* The scans of a block.  A block sees, per part, how near the inbound      *)
(* expiry is, and whether outgoing HTLCs are past theirs and the grace.     *)

\* scanExpiringHtlcs: claim on chain what the preimage is known for, fail what
\* is past the margin, close instead of failing while the leg is unresolved.
ScanExpiring(n, near) ==
    LET open == {p \in Part : n.inCh[p] # "CHAIN"}
        claims == {p \in open : /\ near[p] >= ClaimBuffer
                                /\ \/ n.in[p] = "FULFILLED"
                                   \/ n.in[p] = "COMMITTED" /\ n.preimage}
        due == {p \in open \ claims : /\ near[p] = Margin
                                      /\ n.in[p] = "COMMITTED"
                                      /\ n.inCh[p] # "QUIESCENT"}
        unresolved == {p \in due : \E id \in Linked(n, {p}) :
                                        ~TerminallyFailed(n, id)}
    IN  Settled(ClosedIn(n, claims \cup unresolved), due \ unresolved, "FAILED")

\* scanExpiringOfferedHtlcs: a fail that is not irrevocable counts as live.
ScanOffered(n, expired, outputs) ==
    IF /\ expired /\ n.outCh # "CHAIN"
       /\ \E id \in Id : n.legs[id].state \in {"ADDED", "COMMITTED", "FAILED"}
    THEN ClosedOut(n, outputs) ELSE n

\* scanForwardTimeouts: a fail is deferred by a quiescing channel, and the
\* linkage leaves memory and not the disk.
ScanForward(n, near) ==
    LET due == {p \in Part : /\ near[p] >= DoubleMargin
                             /\ n.inCh[p] \in {"NORMAL", "QUIESCENT"}
                             /\ n.in[p] = "COMMITTED"
                             /\ Linked(n, {p}) # {}}
        failed == {p \in due :
                      \A id \in Linked(n, {p}) : TerminallyFailed(n, id)}
        quiescing == {p \in failed : n.inCh[p] = "QUIESCENT"}
        refunds == Settled(n, failed, "FAILED")
    IN  ClosedIn(Unlinked([refunds EXCEPT !.deferred = @ \cup quiescing],
                          Linked(n, failed)),
                 due \ failed)

\* handleNewBlock of the manager and runPerBlockWork of the node.
BlockWork(n, near, expired, order, refused, outputs) ==
    LET scanned == ScanExpiring(DrainDeferred(n, Part), near)
        drained == DrainParked(scanned, Part, order, refused)
        owed == OwedPass(drained, Part)
    IN  ScanForward(ScanOffered(owed, expired, outputs), near)

-----------------------------------------------------------------------------
(* The steps.                                                               *)

Leg(id) == node.legs[id]

WithOutput(id, output) == [node EXCEPT !.legs[id].output = output]

Becomes(n) == node' = n /\ UNCHANGED faults

Fault(n) == faults < MaxFaults /\ faults' = faults + 1 /\ node' = n

\* The inbound HTLC is irrevocable: htlc:forwarded.
Committed(p) == [node EXCEPT !.in[p] = "COMMITTED"]

MayArrive(p) ==
    node.in[p] = "NEW" /\ node.inCh[p] \in {"NORMAL", "QUIESCENT"}

\* handleIncomingHtlc; parkQuiescentHtlc on a quiescing channel.
Arrives(p, refused) ==
    /\ MayArrive(p)
    /\ IF node.inCh[p] = "QUIESCENT"
       THEN Becomes([Committed(p) EXCEPT !.parked = @ \cup {p}])
       ELSE \E order \in Orders(node, {p}) :
               Becomes(Dispatched(Committed(p), {p}, order, refused))

\* commitment_signed and revoke_and_ack make the outgoing adds irrevocable;
\* every revoke_and_ack drains the fails that were held for it.
AddsCommitted ==
    /\ node.outCh = "NORMAL"
    /\ \E id \in Id : Leg(id).state = "ADDED"
    /\ Becomes(DrainHeld([node EXCEPT !.legs = [id \in Id |->
          IF @[id].state = "ADDED" THEN [@[id] EXCEPT !.state = "COMMITTED"]
          ELSE @[id]]]))

\* The leg as update_fulfill_htlc or update_fail_htlc leaves it; a repeat
\* changes nothing.
Removed(id, state) ==
    IF Leg(id).state = state THEN node
    ELSE [node EXCEPT !.legs[id].state = state, !.legs[id].revoked = FALSE]

\* The HTLC is committed, or removed already: the same way, or another way
\* that the peer has not signed.
MayRemove(id, state) ==
    /\ node.outCh = "NORMAL"
    /\ \/ Leg(id).state \in {"COMMITTED", state}
       \/ Removing(Leg(id)) /\ ~Leg(id).revoked

\* handleUpdateFulfillHtlc.
PeerFulfils(id) ==
    MayRemove(id, "FULFILLED") /\ Becomes(FulfilSeen(Removed(id, "FULFILLED"), id))

\* handleUpdateFailHtlc.
PeerFails(id) ==
    MayRemove(id, "FAILED") /\ Becomes(FailSeen(Removed(id, "FAILED"), id))

\* The peer signs its removals and the node revokes for them.
PeerSignsRemovals ==
    LET removals == {id \in Id : Removing(Leg(id)) /\ ~Leg(id).revoked}
    IN  /\ node.outCh = "NORMAL"
        /\ removals # {}
        /\ Becomes([node EXCEPT !.legs = [id \in Id |->
              IF id \in removals THEN [@[id] EXCEPT !.revoked = TRUE] ELSE @[id]]])

\* The peer revokes for the node's signature, which covered some removals: the
\* entries are deleted and the held fails drained.
RemovalsDone(ids) ==
    /\ node.outCh = "NORMAL"
    /\ ids # {}
    /\ \A id \in ids : Removing(Leg(id)) /\ Leg(id).revoked
    /\ Becomes(DrainHeld([node EXCEPT !.legs = [id \in Id |->
          IF id \notin ids THEN Leg(id)
          ELSE [Leg(id) EXCEPT !.state =
                  IF Leg(id).state = "FULFILLED" THEN "PAID" ELSE "REFUNDED"]]]))

OutDrops ==
    /\ node.outCh = "NORMAL"
    /\ Fault([node EXCEPT !.outCh = "DOWN", !.legs = RolledBack(@)])

OutReestablishes ==
    node.outCh = "DOWN" /\ Becomes([node EXCEPT !.outCh = "NORMAL"])

InDrops(p) ==
    /\ node.inCh[p] = "NORMAL" /\ node.in[p] = "COMMITTED"
    /\ Fault([node EXCEPT !.inCh[p] = "DOWN"])

\* channel:restore-ready, then channel:reestablished; a drain of the deferred
\* fails follows in a later turn.
InReestablishes(p, refused) ==
    LET up == [node EXCEPT !.inCh[p] = "NORMAL", !.turns = @ \cup
                IF p \in node.deferred THEN {<<p, "reestablished">>} ELSE {}]
    IN  /\ node.inCh[p] = "DOWN"
        /\ \E order \in Orders(up, Unresolved(up, p)) :
              LET owed == OwedPass(Redispatched(up, p, order, refused), {p})
              IN  \E parked \in Orders(owed, Drainable(owed, {p})) :
                     Becomes(DrainParked(owed, {p}, parked, refused))

\* The peer's stfu latches at once; the reply is owed while the part is pending.
Quiesces(p) ==
    /\ node.inCh[p] = "NORMAL" /\ node.in[p] \in {"NEW", "COMMITTED"}
    /\ Fault([node EXCEPT !.inCh[p] = "QUIESCENT"])

QuiescenceEnds(p) ==
    /\ node.inCh[p] = "QUIESCENT"
    /\ Becomes([node EXCEPT !.inCh[p] = "NORMAL",
                            !.turns = @ \cup {<<p, "quiescence:ended">>}])

\* The watchdog disconnects.
QuiescenceTimesOut(p) ==
    /\ node.inCh[p] = "QUIESCENT"
    /\ Becomes([node EXCEPT !.inCh[p] = "DOWN"])

\* The setImmediate callbacks after quiescence and after a reestablish.
QuiescenceTurn(p, refused) ==
    LET taken == [node EXCEPT !.turns = @ \ {<<p, "quiescence:ended">>}]
    IN  /\ <<p, "quiescence:ended">> \in node.turns
        /\ \E order \in Orders(taken, Drainable(taken, {p})) :
              Becomes(DrainDeferred(
                OwedPass(DrainParked(taken, {p}, order, refused), {p}), {p}))

ReestablishedTurn(p) ==
    /\ <<p, "reestablished">> \in node.turns
    /\ Becomes(DrainDeferred(
          [node EXCEPT !.turns = @ \ {<<p, "reestablished">>}], {p}))

\* A parked part whose expiry is near is failed: its outgoing expiry is past.
NewBlock(near, expired, refused) ==
    \E order \in Orders(node, {p \in Drainable(node, Part) : near[p] = Far}),
       outputs \in IF expired THEN Outputs(node) ELSE {{}} :
          Becomes(BlockWork(node, near, expired, order, refused, outputs))

\* A refused add is told from a policy's fail by what was recorded under the
\* next id, if a restart left anything there.
Refusals == {FALSE, node.row[node.next] # None}

NoDeadline == [p \in Part |-> Far]

\* At most one part is near its deadline: the scans judge each by itself.  To
\* a part that is new, failed or on chain they do nothing.
Deadlines ==
    LET judged == {p \in Part : /\ node.in[p] \in {"COMMITTED", "FULFILLED"}
                                /\ node.inCh[p] # "CHAIN"}
    IN  {[NoDeadline EXCEPT ![p] = level] :
            p \in judged, level \in ClaimBuffer..Margin}

\* A close by a peer, the operator or another part of the node.
InCloses(p) ==
    /\ node.inCh[p] # "CHAIN" /\ node.in[p] = "COMMITTED"
    /\ Becomes(ClosedIn(node, {p}))

OutCloses ==
    /\ node.outCh # "CHAIN"
    /\ \E outputs \in Outputs(node) : Becomes(ClosedOut(node, outputs))

\* The peer spends the output with the preimage, and the monitor finds it.
PeerClaims(id) ==
    Leg(id).output = "open" /\ Becomes(WithOutput(id, "claimed"))

\* The monitor reports a preimage it does not have; it was given every one the
\* node has.
ClaimNoticed(id) ==
    /\ Leg(id).output = "claimed"
    /\ Becomes(IF node.preimage THEN WithOutput(id, "known")
               ELSE PreimageSeen(WithOutput(id, "known")))

\* The timeout path won, and is buried deep enough.
TimeoutResolved(id) ==
    /\ Leg(id).output = "open"
    /\ Becomes(ResolutionSeen(WithOutput(id, "resolved"), id))

Restarts == Fault(Restarted(node))

\* The process ends between two transactions of one handler.
KilledBeforeDispatch(p) == MayArrive(p) /\ Fault(Restarted(Committed(p)))

KilledAfterRefusal(p) ==
    /\ MayArrive(p) /\ node.inCh[p] = "NORMAL"
    /\ Fault(Restarted([Committed(p) EXCEPT !.row[node.next] = p]))

KilledAfterPreimage(id) ==
    /\ MayRemove(id, "FULFILLED")
    /\ Fault(Restarted([Removed(id, "FULFILLED") EXCEPT !.preimage = TRUE]))

KilledWhileClaiming(id, p) ==
    /\ Leg(id).output = "claimed" /\ ~node.preimage
    /\ CanSettle(node, p)
    /\ Fault(Restarted(Settled(
          [WithOutput(id, "known") EXCEPT !.preimage = TRUE], {p}, "FULFILLED")))

Next ==
    \/ \E p \in Part, refused \in Refusals :
          Arrives(p, refused) \/ InReestablishes(p, refused) \/ QuiescenceTurn(p, refused)
    \/ \E p \in Part :
          \/ InDrops(p) \/ InCloses(p) \/ ReestablishedTurn(p)
          \/ Quiesces(p) \/ QuiescenceEnds(p) \/ QuiescenceTimesOut(p)
          \/ KilledBeforeDispatch(p) \/ KilledAfterRefusal(p)
    \/ \E id \in Id :
          \/ PeerFulfils(id) \/ PeerFails(id)
          \/ PeerClaims(id) \/ ClaimNoticed(id) \/ TimeoutResolved(id)
          \/ KilledAfterPreimage(id)
          \/ \E p \in Part : KilledWhileClaiming(id, p)
    \/ \E ids \in SUBSET Id : RemovalsDone(ids)
    \/ \E refused \in Refusals :
          \/ \E near \in Deadlines : NewBlock(near, FALSE, refused)
          \/ NewBlock(NoDeadline, FALSE, refused)
          \/ node.outCh # "CHAIN" /\ NewBlock(NoDeadline, TRUE, refused)
    \/ AddsCommitted \/ PeerSignsRemovals
    \/ OutDrops \/ OutReestablishes \/ OutCloses
    \/ Restarts

Spec == Init /\ [][Next]_vars

-----------------------------------------------------------------------------
(* What the node promises.                                                  *)

Legs == [part : Part \cup {None}, revoked : BOOLEAN,
         state : {"UNUSED", "ADDED", "COMMITTED", "FULFILLED", "FAILED",
                  "PAID", "REFUNDED"},
         output : {"none", "absent", "open", "claimed", "known", "resolved"}]

Nodes ==
    [in : [Part -> {"NEW", "COMMITTED", "FULFILLED", "FAILED"}],
     inCh : [Part -> {"NORMAL", "QUIESCENT", "DOWN", "CHAIN"}],
     outCh : {"NORMAL", "DOWN", "CHAIN"},
     legs : [Id -> Legs], next : Id,
     link : [Id -> Part \cup {None}], row : [Id -> Part \cup {None}],
     held : SUBSET Id, preimage : BOOLEAN,
     parked : SUBSET Part, deferred : SUBSET Part,
     turns : SUBSET (Part \X {"quiescence:ended", "reestablished"}),
     repair : SUBSET Part]

\* The types; a held fail has its linkage, and the linkages name ids that
\* were used, or the next one.
TypeOK ==
    /\ node \in Nodes
    /\ node.held \subseteq Linked(node, Part)
    /\ \A id \in Id : id > node.next => node.link[id] = None /\ node.row[id] = None
    /\ faults \in 0..MaxFaults

\* The outgoing peer has the leg's value for good.
Paid(leg) ==
    \/ leg.state = "PAID"
    \/ leg.output \in {"claimed", "known"}
    \/ leg.state = "FULFILLED" /\ leg.output = "absent"

\* A part that was paid for downstream is never failed upstream, whatever the
\* order of fails, drops, restarts, closes and deadlines: the double payment
\* that isOutgoingLegTerminallyFailed exists to prevent.
NeverRefundsWhatItPaid ==
    \A id \in Id : Paid(Leg(id)) => node.in[Leg(id).part] # "FAILED"

\* A part is forwarded at most once: a dispatch repeated by a restart, a drain
\* of parked dispatches or a turn finds the linkage of the first.
OneLegPerPart ==
    \A i, j \in Id : Leg(i).part = Leg(j).part /\ Leg(i).part # None => i = j

\* Once the fulfil of a leg cannot be taken back, what is needed to collect
\* upstream is on disk: the preimage, and the linkage until the inbound HTLC
\* is settled or its channel is closed.
PaidIsRemembered ==
    \A id \in Id :
        LET leg == Leg(id) IN
        leg.state = "PAID" \/ (leg.state = "FULFILLED" /\ leg.revoked) =>
            /\ node.preimage
            /\ \/ node.in[leg.part] = "FULFILLED"
               \/ node.inCh[leg.part] = "CHAIN"
               \/ node.row[id] = leg.part

\* What the next block makes of the state when no deadline is near.
NextBlock == BlockWork(node, NoDeadline, FALSE, << >>, FALSE, {})

\* However the fulfil of a leg came to be known, and whatever was lost in
\* between, the next block that finds the inbound channel usable collects the
\* part: no debt waits for the deadline, or for ever.
NextBlockCollects ==
    \A id \in Id :
        LET p == Leg(id).part IN
        Paid(Leg(id)) /\ Leg(id).output # "claimed" /\ node.inCh[p] = "NORMAL"
            => NextBlock.in[p] = "FULFILLED"

\* A leg that failed for good, off chain or by its timeout, is passed on
\* upstream by the next block that finds the inbound channel usable.
NextBlockRefunds ==
    \A id \in Id :
        LET p == Leg(id).part
            refund == \/ Leg(id).state = "REFUNDED" /\ node.outCh = "NORMAL"
                      \/ Leg(id).output = "resolved"
        IN  refund /\ node.inCh[p] = "NORMAL" => NextBlock.in[p] # "COMMITTED"

\* The parts are interchangeable.
PartSymmetry == Permutations(Part)

=============================================================================
