-------------------------- MODULE ForwardingProofs --------------------------
(***************************************************************************)
(* Theorems about Forwarding, for any number of parts, outgoing HTLCs and   *)
(* faults: each step keeps the invariant of ForwardingLemmas, and the       *)
(* properties follow from it.                                               *)
(***************************************************************************)
EXTENDS ForwardingLemmas

-----------------------------------------------------------------------------
(* The steps.                                                               *)

\* What FInv says about the next state, when the record is the result of a
\* handler.
Step(n) == Good(n) /\ ParkedGood(n)

\* handleIncomingHtlc, on a channel that is quiescing or not.
LEMMA ArrivesGood ==
    ASSUME Step(node), NEW p \in Part, NEW refused, Arrives(p, refused)
    PROVE  Step(node')
<1> USE DEF Step
<1>1. /\ Good(Committed(p)) /\ Fresh(Committed(p), {p}) /\ ParkedGood(Committed(p))
      /\ Committed(p) = [node EXCEPT !.in = Committed(p).in]
      /\ Committed(p).in[p] = "COMMITTED"
  BY CommittedGood DEF Arrives, MayArrive
<1>2. node \in Nodes /\ Committed(p) \in Nodes
  BY <1>1 DEF Good
<1>3. /\ Committed(p).outCh = node.outCh /\ Committed(p).next = node.next
  BY <1>1, <1>2 DEF Nodes
<1>4. CASE node.inCh[p] = "QUIESCENT"
  <2> DEFINE n == Committed(p)
             m == [n EXCEPT !.parked = @ \cup {p}]
  <2> HIDE DEF n
  <2>1. node' = m
    BY <1>4 DEF Arrives, Becomes, n
  <2>2. n \in Nodes /\ m \in Nodes /\ Good(n) /\ ParkedGood(n)
        /\ Fresh(n, {p}) /\ n.in[p] = "COMMITTED"
    BY <1>1, <1>2 DEF n, Nodes
  <2>3. /\ m.in = n.in /\ m.inCh = n.inCh /\ m.outCh = n.outCh /\ m.legs = n.legs
        /\ m.next = n.next /\ m.link = n.link /\ m.row = n.row /\ m.held = n.held
        /\ m.preimage = n.preimage /\ m.parked = n.parked \cup {p}
        /\ m.deferred = n.deferred /\ m.repair = n.repair
    BY <2>2 DEF Nodes
  <2> HIDE DEF m
  <2>4. \A id \in Id : n.row[id] # p
    BY <1>1, <1>2, ForwardingConstants DEF Arrives, MayArrive, Good, WaitsGood, n, Nodes
  <2>5. LegsGood(m)
    BY <2>2, <2>3 DEF Good, LegsGood
  <2>6. RowsGood(m)
    BY <2>2, <2>3 DEF Good, RowsGood
  <2>7. DebtsGood(m)
    BY ZenonT(60), <2>2, <2>3 DEF Good, DebtsGood, Fresh
  <2>8. WaitsGood(m)
    BY <2>2, <2>3, <2>4 DEF Good, WaitsGood, Fresh
  <2>9. ParkedGood(m)
    BY <2>2, <2>3 DEF ParkedGood
  <2> QED
    BY <2>1, <2>2, <2>5, <2>6, <2>7, <2>8, <2>9 DEF Good
<1>5. CASE node.inCh[p] # "QUIESCENT"
  <2>1. PICK order \in Orders(node, {p}) :
            node' = Dispatched(Committed(p), {p}, order, refused)
    BY <1>5 DEF Arrives, Becomes
  <2>2. /\ order \in Orders(Committed(p), {p})
        /\ \A q \in Range(order) : q = p
    BY <1>3, OrdersGrow
  <2>3. \A q \in Range(order) : Committed(p).in[q] # "FAILED"
    BY <1>1, <2>2
  <2>4. /\ Good(node') /\ Stays(Committed(p), node')
        /\ \A q \in Part : q \notin {p} => node'.in[q] = Committed(p).in[q]
    <3> DEFINE n == Committed(p)
               m == Dispatched(n, {p}, order, refused)
    <3>1. Good(n) /\ Fresh(n, {p}) /\ order \in Orders(n, {p})
          /\ \A q \in Range(order) : n.in[q] # "FAILED"
      BY <1>1, <2>2, <2>3
    <3> HIDE DEF n
    <3>2. /\ Good(m) /\ Stays(n, m)
          /\ \A q \in Part : q \notin {p} => m.in[q] = n.in[q]
      BY <3>1, DispatchedGood
    <3> QED
      BY <2>1, <3>2 DEF n
  <2>5. \A q \in node'.parked : q \in Part /\ q # p /\ q \in Committed(p).parked
    BY <1>1, <1>2, <2>4 DEF Stays, Fresh, Nodes
  <2>6. ParkedGood(node')
    BY <1>1, <2>4, <2>5 DEF ParkedGood
  <2> QED
    BY <2>4, <2>6
<1> QED
  BY <1>4, <1>5

\* A removal under way, a signature for it or its end.
LegMoves(a, b) ==
    /\ b \in Legs /\ b.part = a.part /\ b.output = a.output
    /\ a.state = "UNUSED" => b = a
    /\ b.state = "UNUSED" => a.state = "UNUSED"
    /\ a.state = "REFUNDED" => b.state = "REFUNDED"
    /\ Fulfilled(b) => Fulfilled(a)

\* Moves of legs off chain keep a step good.
LEMMA LegsMoved ==
    ASSUME NEW n, Step(n), n.outCh # "CHAIN", NEW legs,
           legs = [id \in Id |-> legs[id]],
           \A id \in Id : LegMoves(n.legs[id], legs[id])
    PROVE  Step([n EXCEPT !.legs = legs])
<1> DEFINE m == [n EXCEPT !.legs = legs]
<1>1. n \in Nodes
  BY DEF Step, Good
<1>2. legs \in [Id -> Legs]
  BY DEF LegMoves
<1>3. /\ m \in Nodes /\ m.legs = legs
      /\ m.preimage = n.preimage /\ m.outCh = n.outCh
      /\ m = [n EXCEPT !.legs = m.legs, !.preimage = m.preimage, !.outCh = m.outCh]
  BY ZenonT(60), <1>1, <1>2 DEF Nodes
<1> HIDE DEF m
<1>4. ASSUME NEW id \in Id
      PROVE  /\ m.legs[id].part = n.legs[id].part
             /\ Dead(n.legs[id]) => Dead(m.legs[id])
             /\ id >= n.next => m.legs[id] = NoLeg
             /\ id < n.next => m.legs[id].state # "UNUSED"
             /\ Fulfilled(m.legs[id]) => m.preimage
             /\ m.outCh # "CHAIN" => m.legs[id].output = "none"
             /\ m.legs[id].state \in {"PAID", "REFUNDED"} =>
                   m.legs[id].output \in {"none", "absent"}
  <2>1. LegMoves(n.legs[id], m.legs[id])
    BY <1>3
  <2>2. Dead(n.legs[id]) => Dead(m.legs[id])
    BY <2>1 DEF LegMoves, Dead, Fulfilled
  <2> QED
    BY <1>3, <2>1, <2>2, NoLegFields DEF LegMoves, Step, Good, LegsGood
<1>5. Good(m) /\ ParkedGood(m)
  BY Zenon, <1>3, <1>4, MovedGood DEF Step
<1> QED
  BY <1>5 DEF Step, m

\* Adds become irrevocable.
LEMMA AddsCommittedGood ==
    ASSUME Step(node), AddsCommitted
    PROVE  Step(node')
<1> DEFINE legs == [id \in Id |-> IF node.legs[id].state = "ADDED"
                                  THEN [node.legs[id] EXCEPT !.state = "COMMITTED"]
                                  ELSE node.legs[id]]
           m == [node EXCEPT !.legs = legs]
<1>1. /\ node \in Nodes /\ node' = DrainHeld(m) /\ node.outCh # "CHAIN"
      /\ legs = [id \in Id |-> legs[id]]
  BY DEF Step, Good, AddsCommitted, Becomes
<1>2. ASSUME NEW id \in Id PROVE LegMoves(node.legs[id], legs[id])
  <2>1. node.legs[id] \in Legs
    BY <1>1 DEF Nodes
  <2>2. CASE node.legs[id].state = "ADDED"
    <3>1. legs[id] = [node.legs[id] EXCEPT !.state = "COMMITTED"]
      BY <2>2
    <3> HIDE DEF legs
    <3> QED
      BY <2>1, <2>2, <3>1 DEF Legs, LegMoves, Fulfilled
  <2>3. CASE node.legs[id].state # "ADDED"
    BY <2>1, <2>3 DEF LegMoves
  <2> QED
    BY <2>2, <2>3
<1> HIDE DEF legs
<1>3. Step(m)
  BY <1>1, <1>2, LegsMoved
<1> QED
  BY <1>1, <1>3, HeldGood DEF Step

\* The peer signs removals.
LEMMA PeerSignsRemovalsGood ==
    ASSUME Step(node), PeerSignsRemovals
    PROVE  Step(node')
<1> DEFINE removals == {id \in Id : Removing(Leg(id)) /\ ~Leg(id).revoked}
           legs == [id \in Id |-> IF id \in removals
                                  THEN [node.legs[id] EXCEPT !.revoked = TRUE]
                                  ELSE node.legs[id]]
           m == [node EXCEPT !.legs = legs]
<1>1. /\ node \in Nodes /\ node' = m /\ node.outCh # "CHAIN"
      /\ legs = [id \in Id |-> legs[id]]
  BY DEF Step, Good, PeerSignsRemovals, Becomes
<1>2. \A id \in removals : Removing(node.legs[id])
  BY DEF Leg
<1> HIDE DEF removals
<1>3. ASSUME NEW id \in Id PROVE LegMoves(node.legs[id], legs[id])
  <2>1. node.legs[id] \in Legs
    BY <1>1 DEF Nodes
  <2>2. CASE id \in removals
    <3>1. legs[id] = [node.legs[id] EXCEPT !.revoked = TRUE]
      BY <2>2
    <3> HIDE DEF legs
    <3> QED
      BY Zenon, <2>1, <2>2, <1>2, <3>1 DEF Legs, LegMoves, Removing, Fulfilled
  <2>3. CASE id \notin removals
    BY <2>1, <2>3 DEF LegMoves
  <2> QED
    BY <2>2, <2>3
<1> HIDE DEF legs
<1> QED
  BY <1>1, <1>3, LegsMoved

\* Removals become irrevocable.
LEMMA RemovalsDoneGood ==
    ASSUME Step(node), NEW ids \in SUBSET Id, RemovalsDone(ids)
    PROVE  Step(node')
<1> DEFINE legs == [id \in Id |->
                      IF id \notin ids THEN node.legs[id]
                      ELSE [node.legs[id] EXCEPT !.state =
                              IF node.legs[id].state = "FULFILLED" THEN "PAID"
                              ELSE "REFUNDED"]]
           m == [node EXCEPT !.legs = legs]
<1>1. /\ node \in Nodes /\ node' = DrainHeld(m) /\ node.outCh # "CHAIN"
      /\ legs = [id \in Id |-> legs[id]]
  BY DEF Step, Good, RemovalsDone, Becomes, Leg
<1>2. \A id \in ids : Removing(node.legs[id])
  BY DEF RemovalsDone, Leg
<1>3. ASSUME NEW id \in Id PROVE LegMoves(node.legs[id], legs[id])
  <2>1. node.legs[id] \in Legs
    BY <1>1 DEF Nodes
  <2>2. CASE id \in ids
    <3>1. legs[id] = [node.legs[id] EXCEPT !.state =
                        IF node.legs[id].state = "FULFILLED" THEN "PAID"
                        ELSE "REFUNDED"]
      BY <2>1, <2>2
    <3> HIDE DEF legs
    <3> QED
      BY <2>1, <2>2, <1>2, <3>1 DEF Legs, LegMoves, Removing, Fulfilled
  <2>3. CASE id \notin ids
    BY <2>1, <2>3 DEF LegMoves
  <2> QED
    BY <2>2, <2>3
<1> HIDE DEF legs
<1>4. Step(m)
  BY <1>1, <1>3, LegsMoved
<1> QED
  BY <1>1, <1>4, HeldGood DEF Step

\* One entry of the outgoing channel changes.
OneLeg(id, leg) == [i \in Id |-> IF i = id THEN leg ELSE node.legs[i]]

\* The leg that update_fulfill_htlc or update_fail_htlc leaves.
LEMMA RemovedRecord ==
    ASSUME node \in Nodes, NEW id \in Id, NEW state \in {"FULFILLED", "FAILED"},
           Leg(id).state # state
    PROVE  \E leg \in Legs :
              /\ Removed(id, state) = [node EXCEPT !.legs = OneLeg(id, leg)]
              /\ leg.part = Leg(id).part /\ leg.state = state
              /\ leg.output = Leg(id).output
<1> DEFINE leg == [Leg(id) EXCEPT !.state = state, !.revoked = FALSE]
<1>1. Leg(id) \in Legs /\ node.legs \in [Id -> Legs]
  BY DEF Leg, Nodes
<1>2. leg \in Legs /\ leg.part = Leg(id).part /\ leg.state = state
      /\ leg.output = Leg(id).output
  BY Zenon, <1>1 DEF Legs
<1>3. Removed(id, state) = [node EXCEPT !.legs = [node.legs EXCEPT ![id] = leg]]
  BY ZenonT(60), <1>1 DEF Removed, Leg, Nodes, Legs
<1>4. [node.legs EXCEPT ![id] = leg] = OneLeg(id, leg)
  BY <1>1 DEF OneLeg
<1> QED
  BY Zenon, <1>2, <1>3, <1>4

\* The leg that a change of its output leaves.
LEMMA WithOutputRecord ==
    ASSUME node \in Nodes, NEW id \in Id,
           NEW output \in {"claimed", "known", "resolved"}
    PROVE  \E leg \in Legs :
              /\ WithOutput(id, output) = [node EXCEPT !.legs = OneLeg(id, leg)]
              /\ leg.part = Leg(id).part /\ leg.state = Leg(id).state
              /\ leg.output = output
<1> DEFINE leg == [Leg(id) EXCEPT !.output = output]
<1>1. Leg(id) \in Legs /\ node.legs \in [Id -> Legs]
  BY DEF Leg, Nodes
<1>2. leg \in Legs /\ leg.part = Leg(id).part /\ leg.state = Leg(id).state
      /\ leg.output = output
  BY <1>1 DEF Legs
<1>3. WithOutput(id, output) = [node EXCEPT !.legs = [node.legs EXCEPT ![id] = leg]]
  BY <1>1 DEF WithOutput, Leg, Nodes, Legs
<1>4. [node.legs EXCEPT ![id] = leg] = OneLeg(id, leg)
  BY <1>1 DEF OneLeg
<1> QED
  BY Zenon, <1>2, <1>3, <1>4

\* One leg may change in ways that do not revive it.
LEMMA OneLegGood ==
    ASSUME Step(node), NEW id \in Id, id < node.next, NEW leg \in Legs,
           NEW preimage \in BOOLEAN, node.preimage => preimage,
           leg.part = Leg(id).part, Dead(Leg(id)) => Dead(leg),
           leg.state # "UNUSED",
           Fulfilled(leg) => preimage,
           node.outCh # "CHAIN" => leg.output = "none",
           leg.state \in {"PAID", "REFUNDED"} => leg.output \in {"none", "absent"}
    PROVE  Step([node EXCEPT !.legs = OneLeg(id, leg), !.preimage = preimage])
<1> DEFINE n == node
           legs == OneLeg(id, leg)
           m == [n EXCEPT !.legs = legs, !.preimage = preimage]
<1>1. n \in Nodes
  BY DEF Step, Good
<1>2. legs \in [Id -> Legs] /\ \A i \in Id : legs[i] = IF i = id THEN leg ELSE n.legs[i]
  BY <1>1 DEF OneLeg, Nodes
<1> HIDE DEF legs
<1>3. /\ m \in Nodes /\ m.legs = legs /\ m.preimage = preimage /\ m.outCh = n.outCh
      /\ m = [n EXCEPT !.legs = m.legs, !.preimage = m.preimage, !.outCh = m.outCh]
  BY ZenonT(60), <1>1, <1>2 DEF Nodes
<1> HIDE DEF m
<1>4. ASSUME NEW i \in Id
      PROVE  /\ m.legs[i].part = n.legs[i].part
             /\ Dead(n.legs[i]) => Dead(m.legs[i])
             /\ i >= n.next => m.legs[i] = NoLeg
             /\ i < n.next => m.legs[i].state # "UNUSED"
             /\ Fulfilled(m.legs[i]) => m.preimage
             /\ m.outCh # "CHAIN" => m.legs[i].output = "none"
             /\ m.legs[i].state \in {"PAID", "REFUNDED"} =>
                   m.legs[i].output \in {"none", "absent"}
  <2>1. CASE i = id
    <3>1. ~(i >= n.next)
      BY <1>1, <2>1 DEF Nodes, Id
    <3> QED
      BY <2>1, <3>1, <1>2, <1>3 DEF Leg
  <2>2. CASE i # id
    BY <2>2, <1>2, <1>3 DEF Step, Good, LegsGood
  <2> QED
    BY <2>1, <2>2
<1>5. Good(m) /\ ParkedGood(m)
  BY Zenon, <1>3, <1>4, MovedGood DEF Step
<1> QED
  BY <1>5 DEF Step, m, legs

\* An entry that was used.
LEMMA UsedLeg ==
    ASSUME Step(node), NEW id \in Id,
           Leg(id).state # "UNUSED" \/ Leg(id).output # "none"
    PROVE  id < node.next
<1>1. ~(id >= node.next)
  BY NoLegFields DEF Step, Good, LegsGood, Leg
<1> QED
  BY <1>1 DEF Step, Good, Nodes, Id

\* handleUpdateFulfillHtlc, and the preimage saved.
LEMMA FulfilRecorded ==
    ASSUME Step(node), NEW id \in Id, MayRemove(id, "FULFILLED")
    PROVE  Step([Removed(id, "FULFILLED") EXCEPT !.preimage = TRUE])
<1>1. node \in Nodes /\ id < node.next /\ Leg(id).output = "none"
  <2>1. id < node.next
    BY UsedLeg DEF MayRemove, Removing
  <2> QED
    BY <2>1 DEF Step, Good, LegsGood, MayRemove, Leg
<1>2. CASE Leg(id).state = "FULFILLED"
  <2>1. node.preimage = TRUE
    BY <1>1, <1>2 DEF Step, Good, LegsGood, Leg, Nodes, Fulfilled
  <2>2. [node EXCEPT !.preimage = TRUE] = node
    BY <1>1, <2>1 DEF Nodes
  <2> QED
    BY Zenon, <1>2, <2>2 DEF Removed
<1>3. CASE Leg(id).state # "FULFILLED"
  <2>1. PICK leg \in Legs :
            /\ Removed(id, "FULFILLED") = [node EXCEPT !.legs = OneLeg(id, leg)]
            /\ leg.part = Leg(id).part /\ leg.state = "FULFILLED"
            /\ leg.output = Leg(id).output
    BY <1>1, <1>3, RemovedRecord
  <2>2. ~Dead(Leg(id))
    BY <1>1 DEF MayRemove, Removing, Dead
  <2>3. Step([node EXCEPT !.legs = OneLeg(id, leg), !.preimage = TRUE])
    BY Zenon, <1>1, <2>1, <2>2, OneLegGood
  <2>4. [[node EXCEPT !.legs = OneLeg(id, leg)] EXCEPT !.preimage = TRUE] =
            [node EXCEPT !.legs = OneLeg(id, leg), !.preimage = TRUE]
    OBVIOUS
  <2> QED
    BY Zenon, <2>1, <2>3, <2>4
<1> QED
  BY <1>2, <1>3

\* handleHtlcFulfilled.
LEMMA PeerFulfilsGood ==
    ASSUME Step(node), NEW id \in Id, PeerFulfils(id)
    PROVE  Step(node')
<1> DEFINE n == [Removed(id, "FULFILLED") EXCEPT !.preimage = TRUE]
<1>1. Good(n) /\ ParkedGood(n)
  BY FulfilRecorded DEF PeerFulfils, Step
<1>2. node' = SettledUpstream(n, {id}, "FULFILLED")
  BY DEF PeerFulfils, Becomes, FulfilSeen
<1>3. {id} \in SUBSET Id
  OBVIOUS
<1> HIDE DEF n
<1>4. /\ Good(SettledUpstream(n, {id}, "FULFILLED"))
      /\ ParkedGood(SettledUpstream(n, {id}, "FULFILLED"))
  BY <1>1, <1>3, UpstreamGood
<1> QED
  BY <1>2, <1>4 DEF Step

\* handleHtlcFailed.
LEMMA PeerFailsGood ==
    ASSUME Step(node), NEW id \in Id, PeerFails(id)
    PROVE  Step(node')
<1>1. node \in Nodes /\ id < node.next /\ Leg(id).output = "none"
  <2>1. id < node.next
    BY UsedLeg DEF PeerFails, MayRemove, Removing
  <2> QED
    BY <2>1 DEF Step, Good, LegsGood, PeerFails, MayRemove, Leg
<1>2. Step(Removed(id, "FAILED"))
  <2>1. CASE Leg(id).state = "FAILED"
    BY <2>1 DEF Removed
  <2>2. CASE Leg(id).state # "FAILED"
    <3>1. PICK leg \in Legs :
              /\ Removed(id, "FAILED") = [node EXCEPT !.legs = OneLeg(id, leg)]
              /\ leg.part = Leg(id).part /\ leg.state = "FAILED"
              /\ leg.output = Leg(id).output
      BY <1>1, <2>2, RemovedRecord
    <3>2. /\ ~Dead(Leg(id)) /\ node.preimage \in BOOLEAN
          /\ ~Fulfilled(leg)
      BY <1>1, <3>1 DEF PeerFails, MayRemove, Removing, Dead, Nodes, Fulfilled
    <3>3. Step([node EXCEPT !.legs = OneLeg(id, leg), !.preimage = node.preimage])
      BY Zenon, <1>1, <3>1, <3>2, OneLegGood
    <3>4. [node EXCEPT !.legs = OneLeg(id, leg), !.preimage = node.preimage] =
              [node EXCEPT !.legs = OneLeg(id, leg)]
      BY Zenon, <1>1 DEF Nodes
    <3> QED
      BY <3>1, <3>3, <3>4
  <2> QED
    BY <2>1, <2>2
<1>3. node' = FailSeen(Removed(id, "FAILED"), id)
  BY DEF PeerFails, Becomes
<1> DEFINE n == Removed(id, "FAILED")
<1> HIDE DEF n
<1>4. Good(FailSeen(n, id)) /\ ParkedGood(FailSeen(n, id))
  BY <1>2, FailSeenGood DEF Step, n
<1> QED
  BY <1>3, <1>4 DEF Step, n

\* The monitor moves an output on; it knows the preimage of a claim.
LEMMA OutputGood ==
    ASSUME Step(node), NEW id \in Id, Leg(id).output \in {"open", "claimed"},
           NEW output \in {"claimed", "known", "resolved"},
           NEW preimage \in BOOLEAN, node.preimage => preimage,
           output = "known" => preimage
    PROVE  LET m == [WithOutput(id, output) EXCEPT !.preimage = preimage] IN
           /\ Step(m) /\ m.preimage = preimage
           /\ m.legs[id].state = Leg(id).state /\ m.legs[id].output = output
<1> DEFINE m == [WithOutput(id, output) EXCEPT !.preimage = preimage]
<1>1. /\ node \in Nodes /\ id < node.next /\ node.outCh = "CHAIN"
      /\ Leg(id).state # "UNUSED" /\ Leg(id).state \notin {"PAID", "REFUNDED"}
      /\ Fulfilled(Leg(id)) => node.preimage
  <2>1. id < node.next
    BY UsedLeg
  <2> QED
    BY <2>1 DEF Step, Good, LegsGood, Leg
<1>2. PICK leg \in Legs :
          /\ WithOutput(id, output) = [node EXCEPT !.legs = OneLeg(id, leg)]
          /\ leg.part = Leg(id).part /\ leg.state = Leg(id).state
          /\ leg.output = output
  BY <1>1, WithOutputRecord
<1>3. ~Dead(Leg(id)) /\ (Fulfilled(leg) => preimage)
  BY <1>1, <1>2 DEF Dead, Fulfilled
<1>4. m = [node EXCEPT !.legs = OneLeg(id, leg), !.preimage = preimage]
  BY <1>2
<1>5. Step([node EXCEPT !.legs = OneLeg(id, leg), !.preimage = preimage])
  BY Zenon, <1>1, <1>2, <1>3, OneLegGood
<1>6. m.preimage = preimage /\ m.legs = OneLeg(id, leg)
  BY Zenon, <1>1, <1>4 DEF Nodes
<1>7. OneLeg(id, leg)[id] = leg
  BY DEF OneLeg
<1> HIDE DEF m
<1>8. Step(m)
  BY <1>4, <1>5
<1> QED
  BY <1>2, <1>6, <1>7, <1>8 DEF m

\* The same, for what tells the node nothing of the preimage.
LEMMA OutputSilent ==
    ASSUME Step(node), NEW id \in Id, Leg(id).output \in {"open", "claimed"},
           NEW output \in {"claimed", "resolved"}
    PROVE  LET m == WithOutput(id, output) IN
           /\ Step(m) /\ m.preimage = node.preimage
           /\ m.legs[id].state = Leg(id).state /\ m.legs[id].output = output
<1>1. node.preimage \in BOOLEAN /\ node \in Nodes
  BY DEF Step, Good, Nodes
<1>2. [WithOutput(id, output) EXCEPT !.preimage = node.preimage] =
          WithOutput(id, output)
  BY Zenon, <1>1 DEF WithOutput, Nodes
<1>3. /\ output = "known" => node.preimage
      /\ output \in {"claimed", "known", "resolved"}
  OBVIOUS
<1> DEFINE m == [WithOutput(id, output) EXCEPT !.preimage = node.preimage]
<1>4. /\ Step(m) /\ m.preimage = node.preimage
      /\ m.legs[id].state = Leg(id).state /\ m.legs[id].output = output
  BY <1>1, <1>3, OutputGood
<1> QED
  BY Zenon, <1>2, <1>4

\* The peer claims on chain.
LEMMA PeerClaimsGood ==
    ASSUME Step(node), NEW id \in Id, PeerClaims(id)
    PROVE  Step(node')
BY OutputSilent DEF PeerClaims, Becomes

\* A fulfil of any parts keeps a step good, and settles those it can.
LEMMA ClaimSettles ==
    ASSUME NEW n, Step(n), NEW parts \in SUBSET Part
    PROVE  /\ Step(Settled(n, parts, "FULFILLED"))
           /\ \A p \in parts : CanSettle(n, p) =>
                 Settled(n, parts, "FULFILLED").in[p] = "FULFILLED"
           /\ Settled(n, parts, "FULFILLED").legs = n.legs
           /\ Settled(n, parts, "FULFILLED").next = n.next
<1> DEFINE m == Settled(n, parts, "FULFILLED")
<1>1. n \in Nodes
  BY DEF Step, Good
<1>2. Good(m)
  BY SettledGood DEF Step
<1>3. /\ m.legs = n.legs /\ m.next = n.next /\ m.parked = n.parked
      /\ \A p \in Part : m.in[p] =
            IF p \in parts /\ CanSettle(n, p) THEN "FULFILLED" ELSE n.in[p]
  BY <1>1 DEF Settled, Nodes
<1>4. ParkedGood(m)
  <2>1. m.parked \subseteq Part
    BY <1>1, <1>3 DEF Nodes
  <2> QED
    BY <1>3, <2>1 DEF Step, ParkedGood
<1> QED
  BY <1>2, <1>3, <1>4 DEF Step

\* handleOnChainPreimageLearned.
LEMMA PreimageSeenGood ==
    ASSUME NEW n \in Nodes, Step([n EXCEPT !.preimage = TRUE])
    PROVE  Step(PreimageSeen(n))
<1> DEFINE parts == {p \in Part : CanSettle(n, p)}
           k == [n EXCEPT !.preimage = TRUE]
           m == Settled(k, parts, "FULFILLED")
           ids == Linked(n, parts)
<1>1. /\ Step(k) /\ k.in = n.in /\ k.inCh = n.inCh /\ k.link = n.link
  BY DEF Nodes
<1>2. \A p \in parts : CanSettle(k, p)
  BY <1>1 DEF CanSettle
<1>3. parts \in SUBSET Part /\ ids \in SUBSET Id
  BY DEF Linked
<1>4. PreimageSeen(n) = Forgotten(m, ids)
  BY DEF PreimageSeen
<1>5. \A id \in ids : id \in Id /\ k.link[id] \in parts
  BY <1>1 DEF Linked
<1> HIDE DEF parts, k, ids
<1>6. /\ Step(m) /\ m.legs = k.legs /\ m.next = k.next
      /\ \A p \in parts : m.in[p] = "FULFILLED"
  BY <1>1, <1>2, <1>3, ClaimSettles
<1> HIDE DEF m
<1>7. \A id \in ids : id < m.next => m.in[m.legs[id].part] # "COMMITTED"
  <2>1. SUFFICES ASSUME NEW id \in ids, id < k.next
                 PROVE  k.legs[id].part \in parts
    BY <1>6
  <2>2. id \in Id /\ k.link[id] \in parts /\ k.link[id] \in Part
    BY <1>3, <1>5
  <2>3. k.link[id] = k.row[id] /\ k.row[id] # None
    BY <1>1, <2>2, ForwardingConstants DEF Step, Good, RowsGood
  <2>4. k.legs[id].part = k.row[id]
    BY <1>1, <2>1, <2>2, <2>3 DEF Step, Good, RowsGood
  <2> QED
    BY <2>2, <2>3, <2>4
<1>8. Good(Forgotten(m, ids)) /\ ParkedGood(Forgotten(m, ids))
  BY <1>3, <1>6, <1>7, ForgottenGood DEF Step
<1> QED
  BY <1>4, <1>8 DEF Step

\* The claim's output, with its preimage.
LEMMA ClaimKnown ==
    ASSUME Step(node), NEW id \in Id, Leg(id).output = "claimed"
    PROVE  /\ WithOutput(id, "known") \in Nodes
           /\ Step([WithOutput(id, "known") EXCEPT !.preimage = TRUE])
<1>1. node \in Nodes
  BY DEF Step, Good
<1>2. WithOutput(id, "known") \in Nodes
  <2>1. [node.legs[id] EXCEPT !.output = "known"] \in Legs
    BY <1>1 DEF Nodes, Legs
  <2>2. [node.legs EXCEPT ![id] = [node.legs[id] EXCEPT !.output = "known"]]
            \in [Id -> Legs]
    BY <1>1, <2>1 DEF Nodes
  <2>3. WithOutput(id, "known") = [node EXCEPT !.legs =
            [node.legs EXCEPT ![id] = [node.legs[id] EXCEPT !.output = "known"]]]
    BY DEF WithOutput
  <2> QED
    BY <1>1, <2>2, <2>3 DEF Nodes
<1> QED
  BY Zenon, <1>2, OutputGood

\* The monitor finds the claim.
LEMMA ClaimNoticedGood ==
    ASSUME Step(node), NEW id \in Id, ClaimNoticed(id)
    PROVE  Step(node')
<1> DEFINE n == WithOutput(id, "known")
<1>1. n \in Nodes /\ Step([n EXCEPT !.preimage = TRUE])
  BY ClaimKnown DEF ClaimNoticed
<1>2. n.preimage = node.preimage /\ node.preimage \in BOOLEAN
  BY DEF WithOutput, Step, Good, Nodes
<1>3. node' = IF node.preimage THEN n ELSE PreimageSeen(n)
  BY DEF ClaimNoticed, Becomes
<1> HIDE DEF n
<1>4. CASE node.preimage
  <2>1. n.preimage = TRUE
    BY Zenon, <1>2, <1>4
  <2>2. [n EXCEPT !.preimage = TRUE] = n
    BY <1>1, <2>1 DEF Nodes
  <2> QED
    BY Zenon, <1>1, <1>3, <1>4, <2>2
<1>5. CASE ~node.preimage
  BY <1>1, <1>3, <1>5, PreimageSeenGood
<1> QED
  BY <1>4, <1>5

\* The timeout path is buried.
LEMMA TimeoutResolvedGood ==
    ASSUME Step(node), NEW id \in Id, TimeoutResolved(id)
    PROVE  Step(node')
<1> DEFINE n == WithOutput(id, "resolved")
<1>1. /\ Step(n) /\ node' = ResolutionSeen(n, id) /\ n.preimage = node.preimage
      /\ n.legs[id].state = Leg(id).state /\ n.legs[id].output = "resolved"
  BY OutputSilent DEF TimeoutResolved, Becomes
<1> HIDE DEF n
<1>2. CASE n.preimage
  BY <1>1, <1>2 DEF ResolutionSeen
<1>3. CASE ~n.preimage
  <2>1. n.legs[id].state \notin {"FULFILLED", "PAID"}
    BY <1>1, <1>3 DEF Step, Good, LegsGood, Fulfilled
  <2>2. {id} \in SUBSET Id /\ \A i \in {id} : Dead(n.legs[i])
    BY <1>1, <2>1 DEF Dead
  <2>3. Good(SettledUpstream(n, {id}, "FAILED"))
        /\ ParkedGood(SettledUpstream(n, {id}, "FAILED"))
    BY <1>1, <2>2, UpstreamGood DEF Step
  <2> QED
    BY <1>1, <1>3, <2>3 DEF ResolutionSeen, Step
<1> QED
  BY <1>2, <1>3

\* The kill between two parts of handleOnChainPreimageLearned.
LEMMA KilledWhileClaimingGood ==
    ASSUME Step(node), NEW id \in Id, NEW p \in Part, KilledWhileClaiming(id, p)
    PROVE  Step(node')
<1> DEFINE k == [WithOutput(id, "known") EXCEPT !.preimage = TRUE]
<1>1. Step(k)
  BY ClaimKnown DEF KilledWhileClaiming
<1>2. node' = Restarted(Settled(k, {p}, "FULFILLED"))
  BY DEF KilledWhileClaiming, Fault
<1> HIDE DEF k
<1> DEFINE m == Settled(k, {p}, "FULFILLED")
<1>3. Step(m)
  BY <1>1, ClaimSettles
<1> HIDE DEF m
<1>4. Good(Restarted(m)) /\ ParkedGood(Restarted(m))
  BY <1>3, RestartedGood DEF Step
<1> QED
  BY <1>2, <1>4 DEF Step, m

\* The kill after the preimage is saved.
LEMMA KilledAfterPreimageGood ==
    ASSUME Step(node), NEW id \in Id, KilledAfterPreimage(id)
    PROVE  Step(node')
<1> DEFINE n == [Removed(id, "FULFILLED") EXCEPT !.preimage = TRUE]
<1>1. Step(n) /\ node' = Restarted(n)
  BY FulfilRecorded DEF KilledAfterPreimage, Fault
<1> HIDE DEF n
<1> QED
  BY <1>1, RestartedGood DEF Step

\* The outgoing channel drops.
LEMMA OutDropsGood ==
    ASSUME Step(node), OutDrops
    PROVE  Step(node')
<1> DEFINE n == node
           m == [n EXCEPT !.outCh = "DOWN", !.legs = RolledBack(@)]
<1>1. n \in Nodes /\ Good(n) /\ ParkedGood(n) /\ n.outCh = "NORMAL"
  BY DEF Step, Good, OutDrops
<1>2. node' = m
  BY DEF OutDrops, Fault
<1> HIDE DEF n
<1>3. \A id \in Id : RolledBack(n.legs)[id] \in Legs
  BY <1>1, RolledBackGood
<1>4. RolledBack(n.legs) \in [Id -> Legs]
  <2>1. RolledBack(n.legs) = [id \in Id |-> RolledBack(n.legs)[id]]
    BY DEF RolledBack
  <2> QED
    BY <1>3, <2>1
<1>5. /\ m \in Nodes /\ m.legs = RolledBack(n.legs) /\ m.preimage = n.preimage
      /\ m.outCh = "DOWN"
      /\ m = [n EXCEPT !.legs = m.legs, !.preimage = m.preimage, !.outCh = m.outCh]
  BY Zenon, <1>1, <1>4 DEF Nodes
<1> HIDE DEF m
<1>6. \A id \in Id :
          /\ m.legs[id].part = n.legs[id].part
          /\ Dead(n.legs[id]) => Dead(m.legs[id])
          /\ id >= n.next => m.legs[id] = NoLeg
          /\ id < n.next => m.legs[id].state # "UNUSED"
          /\ Fulfilled(m.legs[id]) => m.preimage
          /\ m.outCh # "CHAIN" => m.legs[id].output = "none"
          /\ m.legs[id].state \in {"PAID", "REFUNDED"} =>
                m.legs[id].output \in {"none", "absent"}
  <2> SUFFICES ASSUME NEW id \in Id
               PROVE  /\ m.legs[id].part = n.legs[id].part
                      /\ Dead(n.legs[id]) => Dead(m.legs[id])
                      /\ id >= n.next => m.legs[id] = NoLeg
                      /\ id < n.next => m.legs[id].state # "UNUSED"
                      /\ Fulfilled(m.legs[id]) => m.preimage
                      /\ m.legs[id].output = "none"
    OBVIOUS
  <2>1. n.legs[id].output = "none"
    BY <1>1 DEF Good, LegsGood
  <2> QED
    BY <1>1, <1>5, <2>1, RolledBackGood
<1>7. n.preimage => m.preimage
  BY <1>5
<1>8. Good(m) /\ ParkedGood(m)
  BY Zenon, <1>1, <1>5, <1>6, <1>7, MovedGood
<1> QED
  BY <1>2, <1>8 DEF Step

\* The outgoing channel comes back.
LEMMA OutReestablishesGood ==
    ASSUME Step(node), OutReestablishes
    PROVE  Step(node')
<1> DEFINE n == node
           m == [n EXCEPT !.outCh = "NORMAL"]
<1>1. n \in Nodes /\ Good(n) /\ ParkedGood(n) /\ n.outCh = "DOWN"
  BY DEF Step, Good, OutReestablishes
<1>2. node' = m
  BY DEF OutReestablishes, Becomes
<1> HIDE DEF n
<1>3. /\ m \in Nodes /\ m.legs = n.legs /\ m.preimage = n.preimage
      /\ m.outCh = "NORMAL"
      /\ m = [n EXCEPT !.legs = m.legs, !.preimage = m.preimage, !.outCh = m.outCh]
  BY ZenonT(60), <1>1 DEF Nodes
<1> HIDE DEF m
<1>4. \A id \in Id :
          /\ m.legs[id].part = n.legs[id].part
          /\ Dead(n.legs[id]) => Dead(m.legs[id])
          /\ id >= n.next => m.legs[id] = NoLeg
          /\ id < n.next => m.legs[id].state # "UNUSED"
          /\ Fulfilled(m.legs[id]) => m.preimage
          /\ m.outCh # "CHAIN" => m.legs[id].output = "none"
          /\ m.legs[id].state \in {"PAID", "REFUNDED"} =>
                m.legs[id].output \in {"none", "absent"}
  BY <1>1, <1>3 DEF Good, LegsGood
<1>5. n.preimage => m.preimage
  BY <1>3
<1>6. Good(m) /\ ParkedGood(m)
  BY Zenon, <1>1, <1>3, <1>4, <1>5, MovedGood
<1> QED
  BY <1>2, <1>6 DEF Step

\* What has no output on chain.
LEMMA OutputsExclude ==
    ASSUME NEW n, NEW outputs \in Outputs(n)
    PROVE  \A id \in Id : n.legs[id].state \in {"PAID", "REFUNDED"} =>
              id \notin outputs
BY DEF Outputs, Removing

\* The outgoing channel closes.
LEMMA OutClosesGood ==
    ASSUME Step(node), OutCloses
    PROVE  Step(node')
<1> DEFINE n == node
<1>1. PICK outputs \in Outputs(n) : node' = ClosedOut(n, outputs)
  BY DEF OutCloses, Becomes
<1>2. Good(n) /\ ParkedGood(n) /\ n.outCh # "CHAIN"
  BY DEF OutCloses, Step
<1> HIDE DEF n
<1>3. \A id \in Id : n.legs[id].state \in {"PAID", "REFUNDED"} => id \notin outputs
  BY OutputsExclude
<1>4. Good(ClosedOut(n, outputs)) /\ ParkedGood(ClosedOut(n, outputs))
  BY <1>2, <1>3, ClosedOutGood
<1> QED
  BY <1>1, <1>4 DEF Step

\* An inbound channel moves to a state it can hold a settle or a dispatch in.
LEMMA InMoves ==
    ASSUME Step(node), NEW p \in Part, node.inCh[p] \in {"NORMAL", "QUIESCENT"},
           NEW state \in {"NORMAL", "QUIESCENT", "DOWN"},
           NEW turns \in SUBSET (Part \X {"quiescence:ended", "reestablished"})
    PROVE  Step([node EXCEPT !.inCh[p] = state, !.turns = turns])
<1> DEFINE n == node
           m == [n EXCEPT !.inCh[p] = state, !.turns = turns]
<1>1. n \in Nodes /\ Good(n) /\ ParkedGood(n)
  BY DEF Step, Good
<1>2. p \notin n.repair
  BY DEF Step, Good, WaitsGood
<1> HIDE DEF n
<1>3. /\ m \in Nodes /\ m.repair = n.repair
      /\ \A q \in Part : q # p => m.inCh[q] = n.inCh[q]
      /\ m = [n EXCEPT !.inCh = m.inCh, !.turns = m.turns, !.repair = m.repair]
  BY ZenonT(60), <1>1 DEF Nodes
<1>4. n.repair \subseteq Part
  BY <1>1 DEF Nodes
<1> HIDE DEF m
<1>5. \A q \in m.repair : m.inCh[q] \in {"DOWN", "CHAIN"}
  BY <1>1, <1>2, <1>3, <1>4 DEF Good, WaitsGood
<1>6. \A q \in Part : n.inCh[q] = "CHAIN" => m.inCh[q] = "CHAIN"
  BY <1>3 DEF n
<1>7. Good(m) /\ ParkedGood(m)
  BY ZenonT(60), <1>1, <1>3, <1>5, <1>6, ChannelGood
<1> QED
  BY <1>7 DEF Step, m, n

\* An inbound channel drops, quiesces and stops to.
LEMMA InDropsGood ==
    ASSUME Step(node), NEW p \in Part,
           InDrops(p) \/ Quiesces(p) \/ QuiescenceEnds(p) \/ QuiescenceTimesOut(p)
    PROVE  Step(node')
<1>1. node \in Nodes
  BY DEF Step, Good
<1>2. /\ node.turns \in SUBSET (Part \X {"quiescence:ended", "reestablished"})
      /\ node.turns \cup {<<p, "quiescence:ended">>} \in
            SUBSET (Part \X {"quiescence:ended", "reestablished"})
  BY <1>1 DEF Nodes
<1>3. \A state : [node EXCEPT !.inCh[p] = state] =
                     [node EXCEPT !.inCh[p] = state, !.turns = node.turns]
  BY Zenon, <1>1 DEF Nodes
<1>4. CASE InDrops(p)
  BY <1>2, <1>3, <1>4, InMoves DEF InDrops, Fault
<1>5. CASE Quiesces(p)
  BY <1>2, <1>3, <1>5, InMoves DEF Quiesces, Fault
<1>6. CASE QuiescenceEnds(p)
  <2>1. node' = [node EXCEPT !.inCh[p] = "NORMAL",
                             !.turns = node.turns \cup {<<p, "quiescence:ended">>}]
    BY <1>1, <1>6 DEF QuiescenceEnds, Becomes, Nodes
  <2>2. node.inCh[p] \in {"NORMAL", "QUIESCENT"}
    BY <1>6 DEF QuiescenceEnds
  <2> QED
    BY <1>2, <2>1, <2>2, InMoves
<1>7. CASE QuiescenceTimesOut(p)
  BY <1>2, <1>3, <1>7, InMoves DEF QuiescenceTimesOut, Becomes
<1> QED
  BY <1>4, <1>5, <1>6, <1>7

\* An inbound channel closes.
LEMMA InClosesGood ==
    ASSUME Step(node), NEW p \in Part, InCloses(p)
    PROVE  Step(node')
<1>1. node' = ClosedIn(node, {p})
  BY DEF InCloses, Becomes
<1>2. Good(ClosedIn(node, {p})) /\ ParkedGood(ClosedIn(node, {p}))
  BY ClosedInGood DEF Step
<1> QED
  BY <1>1, <1>2 DEF Step

\* drainParkedQuiescentHtlcs, between two steps.
LEMMA ParkedStep ==
    ASSUME NEW n, Step(n), NEW parts \in SUBSET Part,
           NEW order \in Orders(n, Drainable(n, parts)), NEW refused
    PROVE  Step(DrainParked(n, parts, order, refused))
<1>1. \A p \in Range(order) : p \in Drainable(n, parts)
  BY OrdersGrow
<1>2. \A p \in Range(order) : n.in[p] # "FAILED"
  BY <1>1 DEF Drainable, Step, ParkedGood
<1>3. \A p \in n.parked : n.in[p] # "FAILED"
  BY DEF Step, ParkedGood
<1>4. LET m == DrainParked(n, parts, order, refused) IN Good(m) /\ ParkedGood(m)
  BY <1>2, <1>3, DrainParkedGood DEF Step
<1> QED
  BY <1>4 DEF Step

\* redispatchUnresolvedReceivedHtlcs: what it dispatches was not forwarded.
LEMMA RedispatchedGood ==
    ASSUME NEW n, NEW p \in Part, NEW k, Step(k), p \notin k.repair,
           k.in = n.in, k.link = n.link, k.outCh = n.outCh, k.next = n.next,
           p \in n.repair => /\ p \notin k.parked /\ p \notin k.deferred
                             /\ \A id \in Id : k.row[id] = p => k.link[id] = p,
           NEW order \in Orders(n, Unresolved(n, p)), NEW refused
    PROVE  Step(Dispatched(k, Unresolved(n, p), order, refused))
<1> DEFINE parts == Unresolved(n, p)
<1>1. k \in Nodes
  BY DEF Step, Good
<1>2. \A q \in parts : /\ q = p /\ p \in n.repair /\ k.in[p] = "COMMITTED"
                       /\ \A id \in Id : k.link[id] # p
  BY <1>1 DEF Unresolved, Linked
<1>3. order \in Orders(n, parts) /\ parts \in SUBSET parts
  OBVIOUS
<1> HIDE DEF parts
<1>4. Fresh(k, parts)
  <2> SUFFICES ASSUME p \in parts, NEW id \in Id, k.legs[id].part = p
               PROVE  FALSE
    BY <1>2 DEF Fresh
  <2>1. id < k.next
    <3>1. k.legs[id] # NoLeg
      BY NoLegFields, ForwardingConstants
    <3>2. k.next \in Nat /\ id \in Nat
      BY <1>1, ForwardingConstants DEF Nodes, Id
    <3> QED
      BY <3>1, <3>2 DEF Step, Good, LegsGood
  <2>2. k.row[id] = p
    BY <1>2, <2>1 DEF Step, Good, DebtsGood
  <2> QED
    BY <1>2, <2>2
<1>5. /\ order \in Orders(k, parts)
      /\ \A q \in Range(order) : q \in parts
  BY <1>3, OrdersGrow
<1>6. \A q \in Range(order) : k.in[q] # "FAILED"
  BY <1>2, <1>5
<1> DEFINE m == Dispatched(k, parts, order, refused)
<1>7. /\ Good(m) /\ Stays(k, m)
      /\ \A q \in Part : q \notin parts => m.in[q] = k.in[q]
  <2>1. Good(k)
    BY DEF Step
  <2> QED
    BY <1>4, <1>5, <1>6, <2>1, DispatchedGood
<1> HIDE DEF m
<1>8. \A q \in m.parked : q \in Part /\ q \notin parts /\ q \in k.parked
  BY <1>1, <1>2, <1>4, <1>7 DEF Stays, Fresh, Nodes
<1>9. ParkedGood(m)
  BY <1>7, <1>8 DEF ParkedGood, Step
<1> QED
  BY <1>7, <1>9 DEF Step, m, parts

\* An inbound channel is restored or comes back.
LEMMA InReestablishesGood ==
    ASSUME Step(node), NEW p \in Part, NEW refused, InReestablishes(p, refused)
    PROVE  Step(node')
<1> DEFINE n == node
           turns == n.turns \cup
                      IF p \in n.deferred THEN {<<p, "reestablished">>} ELSE {}
           up == [n EXCEPT !.inCh[p] = "NORMAL", !.turns = turns]
           k == [up EXCEPT !.repair = @ \ {p}]
<1>1. n \in Nodes /\ Good(n) /\ ParkedGood(n)
  BY DEF Step, Good
<1>2. up = [node EXCEPT !.inCh[p] = "NORMAL", !.turns = @ \cup
               IF p \in node.deferred THEN {<<p, "reestablished">>} ELSE {}]
  BY <1>1 DEF Nodes
<1>3. PICK order \in Orders(up, Unresolved(up, p)) :
          LET owed == OwedPass(Redispatched(up, p, order, refused), {p}) IN
          \E parked \in Orders(owed, Drainable(owed, {p})) :
             node' = DrainParked(owed, {p}, parked, refused)
  BY <1>2 DEF InReestablishes, Becomes
<1> HIDE DEF n
<1>4. turns \in SUBSET (Part \X {"quiescence:ended", "reestablished"})
  BY <1>1 DEF Nodes
<1> HIDE DEF turns
<1>5. /\ up \in Nodes /\ k \in Nodes
      /\ k.repair = n.repair \ {p} /\ up.repair = n.repair
      /\ k.parked = n.parked /\ k.deferred = n.deferred
      /\ k.row = n.row /\ k.link = n.link
      /\ k.in = up.in /\ k.link = up.link /\ k.outCh = up.outCh
      /\ k.next = up.next
      /\ \A q \in Part : q # p => k.inCh[q] = n.inCh[q]
      /\ k = [n EXCEPT !.inCh = k.inCh, !.turns = k.turns, !.repair = k.repair]
  BY ZenonT(60), <1>1, <1>4 DEF Nodes
<1>6. Redispatched(up, p, order, refused) =
          Dispatched(k, Unresolved(up, p), order, refused)
  BY DEF Redispatched
<1>7. k.repair \subseteq n.repair /\ n.repair \subseteq Part /\ p \notin k.repair
  BY <1>1, <1>5 DEF Nodes
<1> HIDE DEF k, up
<1>8. \A q \in k.repair : k.inCh[q] \in {"DOWN", "CHAIN"}
  BY <1>1, <1>5, <1>7 DEF Good, WaitsGood
<1>9. Step(k)
  <2>1. \A q \in Part : n.inCh[q] = "CHAIN" => k.inCh[q] = "CHAIN"
    BY <1>5 DEF n, InReestablishes
  <2>2. k \in Nodes /\ k.repair \subseteq n.repair /\
        k = [n EXCEPT !.inCh = k.inCh, !.turns = k.turns, !.repair = k.repair]
    BY <1>5, <1>7
  <2>3. Good(k) /\ (ParkedGood(n) => ParkedGood(k))
    BY Zenon, <1>1, <1>8, <2>1, <2>2, ChannelGood
  <2> QED
    BY <1>1, <2>3 DEF Step
<1>10. p \in up.repair => /\ p \notin k.parked /\ p \notin k.deferred
                          /\ \A id \in Id : k.row[id] = p => k.link[id] = p
  BY <1>1, <1>5 DEF Good, WaitsGood
<1> DEFINE m == Redispatched(up, p, order, refused)
<1>11. Step(m)
  BY <1>5, <1>6, <1>7, <1>9, <1>10, RedispatchedGood
<1> HIDE DEF m
<1> DEFINE owed == OwedPass(m, {p})
<1>12. Step(owed)
  BY <1>11, OwedGood DEF Step
<1>13. PICK parked \in Orders(owed, Drainable(owed, {p})) :
           node' = DrainParked(owed, {p}, parked, refused)
  BY <1>3 DEF m
<1> HIDE DEF owed
<1> QED
  BY <1>12, <1>13, ParkedStep

\* A callback of setImmediate leaves the list.
LEMMA TurnTaken ==
    ASSUME Step(node), NEW turn
    PROVE  Step([node EXCEPT !.turns = @ \ {turn}])
<1> DEFINE n == node
           m == [n EXCEPT !.turns = @ \ {turn}]
<1>1. n \in Nodes /\ Good(n) /\ ParkedGood(n)
  BY DEF Step, Good
<1> HIDE DEF n
<1>2. /\ m \in Nodes /\ m.repair = n.repair /\ m.inCh = n.inCh
      /\ m = [n EXCEPT !.inCh = m.inCh, !.turns = m.turns, !.repair = m.repair]
  BY ZenonT(60), <1>1 DEF Nodes
<1> HIDE DEF m
<1>3. m.repair \subseteq n.repair /\ \A p \in m.repair : m.inCh[p] \in {"DOWN", "CHAIN"}
  BY <1>1, <1>2 DEF Good, WaitsGood
<1>4. Good(m) /\ ParkedGood(m)
  BY Zenon, <1>1, <1>2, <1>3, ChannelGood
<1> QED
  BY <1>4 DEF Step, m, n

\* The turn after quiescence.
LEMMA QuiescenceTurnGood ==
    ASSUME Step(node), NEW p \in Part, NEW refused, QuiescenceTurn(p, refused)
    PROVE  Step(node')
<1> DEFINE n == [node EXCEPT !.turns = @ \ {<<p, "quiescence:ended">>}]
<1>1. Step(n)
  BY Zenon, TurnTaken
<1>2. PICK order \in Orders(n, Drainable(n, {p})) :
          node' = DrainDeferred(
                    OwedPass(DrainParked(n, {p}, order, refused), {p}), {p})
  BY DEF QuiescenceTurn, Becomes
<1> HIDE DEF n
<1> DEFINE a == DrainParked(n, {p}, order, refused)
           b == OwedPass(a, {p})
<1>3. Step(a)
  BY <1>1, ParkedStep
<1> HIDE DEF a
<1>4. Step(b)
  BY <1>3, OwedGood DEF Step
<1> HIDE DEF b
<1>5. Step(DrainDeferred(b, {p}))
  BY <1>4, DeferredGood DEF Step
<1> QED
  BY <1>2, <1>5 DEF a, b

\* The turn after a reestablish.
LEMMA ReestablishedTurnGood ==
    ASSUME Step(node), NEW p \in Part, ReestablishedTurn(p)
    PROVE  Step(node')
<1> DEFINE n == [node EXCEPT !.turns = @ \ {<<p, "reestablished">>}]
<1>1. Step(n) /\ node' = DrainDeferred(n, {p})
  BY TurnTaken DEF ReestablishedTurn, Becomes
<1> HIDE DEF n
<1> QED
  BY <1>1, DeferredGood DEF Step

\* runPerBlockWork.
LEMMA NewBlockGood ==
    ASSUME Step(node), NEW near \in [Part -> Far..Margin], NEW expired \in BOOLEAN,
           NEW refused, NewBlock(near, expired, refused)
    PROVE  Step(node')
<1> DEFINE n == node
<1>1. PICK order \in Orders(n, {p \in Drainable(n, Part) : near[p] = Far}),
           outputs \in IF expired THEN Outputs(n) ELSE {{}} :
          node' = BlockWork(n, near, expired, order, refused, outputs)
  BY Zenon DEF NewBlock, Becomes
<1>2. Good(n) /\ ParkedGood(n)
  BY DEF Step
<1> HIDE DEF n
<1>3. \A id \in Id : n.legs[id].state \in {"PAID", "REFUNDED"} => id \notin outputs
  BY OutputsExclude
<1>4. LET m == BlockWork(n, near, expired, order, refused, outputs) IN
      Good(m) /\ ParkedGood(m)
  BY <1>2, <1>3, BlockGood
<1> QED
  BY <1>1, <1>4 DEF Step

\* The ends of the process.
LEMMA RestartsGood ==
    ASSUME Step(node), NEW p \in Part,
           Restarts \/ KilledBeforeDispatch(p) \/ KilledAfterRefusal(p)
    PROVE  Step(node')
<1>1. CASE Restarts
  BY <1>1, RestartedGood DEF Restarts, Fault, Step
<1> DEFINE n == Committed(p)
<1>2. CASE KilledBeforeDispatch(p)
  <2>1. Good(n) /\ node' = Restarted(n)
    BY Zenon, <1>2, CommittedGood DEF KilledBeforeDispatch, MayArrive, Fault, Step
  <2> HIDE DEF n
  <2> QED
    BY <2>1, RestartedGood DEF Step
<1>3. CASE KilledAfterRefusal(p)
  <2>1. /\ Good(n) /\ Fresh(n, {p}) /\ n = [node EXCEPT !.in = n.in]
    BY <1>3, CommittedGood DEF KilledAfterRefusal, MayArrive, Step
  <2>2. node' = Restarted([n EXCEPT !.row[node.next] = p])
    BY <1>3 DEF KilledAfterRefusal, Fault
  <2> HIDE DEF n
  <2>3. n.next = node.next
    BY <2>1 DEF Step, Good, Nodes
  <2>4. node' = Restarted([n EXCEPT !.row[n.next] = p])
    BY <2>2, <2>3
  <2>5. LET m == Restarted([n EXCEPT !.row[n.next] = p]) IN Good(m) /\ ParkedGood(m)
    BY <2>1, RefusedGood
  <2> QED
    BY <2>4, <2>5 DEF Step
<1> QED
  BY <1>1, <1>2, <1>3

-----------------------------------------------------------------------------
(* The invariant is inductive, and what follows from it.                    *)

\* Nothing has arrived, nothing is forwarded.
LEMMA InitGood == Init => FInv
<1> SUFFICES ASSUME Init
             PROVE  FInv
  OBVIOUS
<1> USE DEF Init
<1>1. MaxAdds \in Nat /\ MaxFaults \in Nat /\ 1 \in Id /\ Id \subseteq Nat
  BY ForwardingConstants DEF Id
<1>2. NoLeg \in Legs
  BY Zenon DEF NoLeg, NewLeg, Legs
<1>3. node \in Nodes
  BY <1>1, <1>2 DEF Nodes, Unlisted
<1>4. /\ node.next = 1 /\ node.outCh = "NORMAL" /\ node.held = {}
      /\ node.parked = {} /\ node.deferred = {} /\ node.repair = {}
      /\ \A id \in Id : /\ node.legs[id] = NoLeg /\ node.link[id] = None
                        /\ node.row[id] = None
  BY DEF Unlisted
<1>5. NoLeg.part = None /\ NoLeg.state = "UNUSED" /\ NoLeg.output = "none"
  BY NoLegFields
<1>6. \A id \in Id : ~(id < 1)
  BY DEF Id
<1>7. LegsGood(node) /\ RowsGood(node) /\ DebtsGood(node)
  BY <1>4, <1>5, <1>6 DEF LegsGood, RowsGood, DebtsGood, Fulfilled
<1>8. WaitsGood(node) /\ ParkedGood(node)
  BY <1>4 DEF WaitsGood, ParkedGood
<1>9. faults \in 0..MaxFaults
  BY <1>1
<1> QED
  BY <1>3, <1>7, <1>8, <1>9 DEF FInv, Good

\* Every step keeps the record good.
LEMMA NextGood ==
    ASSUME Step(node), Next
    PROVE  Step(node')
<1>1. ASSUME NEW p \in Part, NEW refused \in Refusals,
             \/ Arrives(p, refused) \/ InReestablishes(p, refused)
             \/ QuiescenceTurn(p, refused)
      PROVE  Step(node')
  BY <1>1, ArrivesGood, InReestablishesGood, QuiescenceTurnGood
<1>2. ASSUME NEW p \in Part,
             \/ InDrops(p) \/ InCloses(p) \/ ReestablishedTurn(p)
             \/ Quiesces(p) \/ QuiescenceEnds(p) \/ QuiescenceTimesOut(p)
             \/ KilledBeforeDispatch(p) \/ KilledAfterRefusal(p)
      PROVE  Step(node')
  BY <1>2, InDropsGood, InClosesGood, ReestablishedTurnGood, RestartsGood
<1>3. ASSUME NEW id \in Id,
             \/ PeerFulfils(id) \/ PeerFails(id) \/ PeerClaims(id)
             \/ ClaimNoticed(id) \/ TimeoutResolved(id) \/ KilledAfterPreimage(id)
             \/ \E p \in Part : KilledWhileClaiming(id, p)
      PROVE  Step(node')
  BY <1>3, PeerFulfilsGood, PeerFailsGood, PeerClaimsGood, ClaimNoticedGood,
     TimeoutResolvedGood, KilledAfterPreimageGood, KilledWhileClaimingGood
<1>4. ASSUME NEW ids \in SUBSET Id, RemovalsDone(ids)
      PROVE  Step(node')
  BY <1>4, RemovalsDoneGood
<1>5. ASSUME NEW refused \in Refusals,
             \/ \E near \in Deadlines : NewBlock(near, FALSE, refused)
             \/ NewBlock(NoDeadline, FALSE, refused)
             \/ node.outCh # "CHAIN" /\ NewBlock(NoDeadline, TRUE, refused)
      PROVE  Step(node')
  <2>1. NoDeadline \in [Part -> Far..Margin]
    BY DEF NoDeadline, Far, Margin
  <2>2. Deadlines \subseteq [Part -> Far..Margin]
    BY <2>1 DEF Deadlines, ClaimBuffer, Far, Margin
  <2> QED
    BY Zenon, <1>5, <2>1, <2>2, NewBlockGood
<1>6. CASE AddsCommitted \/ PeerSignsRemovals
  BY <1>6, AddsCommittedGood, PeerSignsRemovalsGood
<1>7. CASE OutDrops \/ OutReestablishes \/ OutCloses
  BY <1>7, OutDropsGood, OutReestablishesGood, OutClosesGood
<1>8. CASE Restarts
  BY <1>8, RestartedGood DEF Restarts, Fault, Step
<1> QED
  BY Zenon, <1>1, <1>2, <1>3, <1>4, <1>5, <1>6, <1>7, <1>8 DEF Next

\* A step is a fault, and counted, or leaves the count.
LEMMA FaultsBounded ==
    ASSUME faults \in 0..MaxFaults, Next
    PROVE  faults' \in 0..MaxFaults
<1>1. \A n : Fault(n) => faults' \in 0..MaxFaults
  BY ForwardingConstants DEF Fault
<1>2. \A n : Becomes(n) => faults' \in 0..MaxFaults
  BY DEF Becomes
<1>3. (\E n : Fault(n)) \/ (\E n : Becomes(n))
  <2> USE DEF Next
  <2>1. ASSUME NEW p \in Part, NEW refused \in Refusals,
               \/ Arrives(p, refused) \/ InReestablishes(p, refused)
               \/ QuiescenceTurn(p, refused)
        PROVE  \E n : Becomes(n)
    BY Zenon, <2>1 DEF Arrives, InReestablishes, QuiescenceTurn
  <2>2. ASSUME NEW p \in Part,
               \/ InDrops(p) \/ Quiesces(p) \/ KilledBeforeDispatch(p)
               \/ KilledAfterRefusal(p)
        PROVE  \E n : Fault(n)
    BY <2>2 DEF InDrops, Quiesces, KilledBeforeDispatch, KilledAfterRefusal
  <2>3. ASSUME NEW p \in Part,
               \/ InCloses(p) \/ ReestablishedTurn(p) \/ QuiescenceEnds(p)
               \/ QuiescenceTimesOut(p)
        PROVE  \E n : Becomes(n)
    BY Zenon, <2>3 DEF InCloses, ReestablishedTurn, QuiescenceEnds, QuiescenceTimesOut
  <2>4. ASSUME NEW id \in Id,
               \/ PeerFulfils(id) \/ PeerFails(id) \/ PeerClaims(id)
               \/ ClaimNoticed(id) \/ TimeoutResolved(id)
        PROVE  \E n : Becomes(n)
    BY <2>4 DEF PeerFulfils, PeerFails, PeerClaims, ClaimNoticed, TimeoutResolved
  <2>5. ASSUME NEW id \in Id,
               \/ KilledAfterPreimage(id)
               \/ \E p \in Part : KilledWhileClaiming(id, p)
        PROVE  \E n : Fault(n)
    BY Zenon, <2>5 DEF KilledAfterPreimage, KilledWhileClaiming
  <2>6. ASSUME NEW ids \in SUBSET Id, RemovalsDone(ids)
        PROVE  \E n : Becomes(n)
    BY <2>6 DEF RemovalsDone
  <2>7. ASSUME NEW near, NEW expired, NEW refused, NewBlock(near, expired, refused)
        PROVE  \E n : Becomes(n)
    BY <2>7 DEF NewBlock
  <2>8. CASE AddsCommitted \/ PeerSignsRemovals \/ OutReestablishes \/ OutCloses
    BY <2>8 DEF AddsCommitted, PeerSignsRemovals, OutReestablishes, OutCloses
  <2>9. CASE OutDrops \/ Restarts
    BY <2>9 DEF OutDrops, Restarts
  <2> QED
    BY Zenon, <2>1, <2>2, <2>3, <2>4, <2>5, <2>6, <2>7, <2>8, <2>9
<1> QED
  BY <1>1, <1>2, <1>3

\* The invariant is inductive.
LEMMA StepGood == FInv /\ [Next]_vars => FInv'
<1> SUFFICES ASSUME FInv, [Next]_vars
             PROVE  FInv'
  OBVIOUS
<1>1. Step(node') /\ faults' \in 0..MaxFaults
  <2>1. CASE Next
    BY <2>1, NextGood, FaultsBounded DEF FInv, Step
  <2>2. CASE UNCHANGED vars
    BY <2>2 DEF vars, FInv, Step
  <2> QED
    BY <2>1, <2>2
<1>2. /\ node' \in Nodes /\ LegsGood(node') /\ RowsGood(node')
      /\ DebtsGood(node') /\ WaitsGood(node') /\ ParkedGood(node')
  BY <1>1 DEF Step, Good
<1>3. LegsGood(node)'
  BY <1>2 DEF LegsGood
<1>4. RowsGood(node)'
  BY <1>2 DEF RowsGood
<1>5. DebtsGood(node)'
  BY <1>2 DEF DebtsGood
<1>6. WaitsGood(node)'
  BY <1>2 DEF WaitsGood
<1>7. ParkedGood(node)'
  BY <1>2 DEF ParkedGood
<1> QED
  BY <1>1, <1>2, <1>3, <1>4, <1>5, <1>6, <1>7 DEF FInv, Good

\* The invariant, with a leg that is paid for told apart from a dead one.
LEMMA PaidIsNotDead ==
    ASSUME FInv, NEW id \in Id
    PROVE  /\ Paid(Leg(id)) => ~Dead(Leg(id)) /\ id < node.next
           /\ Leg(id).state \in {"FULFILLED", "PAID"} =>
                 ~Dead(Leg(id)) /\ id < node.next
<1>1. id \in Nat /\ node.next \in Nat
  BY ForwardingConstants DEF FInv, Good, Nodes, Id
<1>2. ~(id < node.next) => Leg(id).state = "UNUSED" /\ Leg(id).output = "none"
  BY <1>1, NoLegFields DEF FInv, Good, LegsGood, Leg
<1>3. Leg(id).state \in {"PAID", "REFUNDED"} => Leg(id).output \in {"none", "absent"}
  BY DEF FInv, Good, LegsGood, Leg
<1> QED
  BY <1>1, <1>2, <1>3 DEF Paid, Dead

\* The invariant holds in every state.
LEMMA FInvAlways == Spec => []FInv
<1>1. Init => FInv
  BY InitGood
<1>2. FInv /\ [Next]_vars => FInv'
  BY StepGood
<1> QED
  BY <1>1, <1>2, PTL DEF Spec

\* The types of the node's state: in particular a fail that handleHtlcFailed
\* holds never outlives its linkage, and a linkage never names an id beyond the
\* one the next outgoing HTLC takes.
THEOREM TypeCorrect == Spec => []TypeOK
<1>1. FInv => TypeOK
  <2> SUFFICES ASSUME FInv
               PROVE  TypeOK
    OBVIOUS
  <2>1. node \in Nodes /\ faults \in 0..MaxFaults
    BY DEF FInv, Good
  <2>2. node.held \subseteq Linked(node, Part)
    BY <2>1 DEF FInv, Good, RowsGood, Linked, Nodes
  <2>3. \A id \in Id : id > node.next => node.link[id] = None /\ node.row[id] = None
    BY DEF FInv, Good, RowsGood
  <2> QED
    BY <2>1, <2>2, <2>3 DEF TypeOK
<1> QED
  BY <1>1, FInvAlways, PTL

\* For any number of parts, outgoing HTLCs and faults: a part whose outgoing
\* HTLC was paid is never failed back, because every path that fails a part
\* (failForwardUpstream, the timeout scans, the deferred settles, a dispatch)
\* finds the leg dead or finds none.
THEOREM NeverRefundsWhatItPaidAlways == Spec => []NeverRefundsWhatItPaid
<1>1. FInv => NeverRefundsWhatItPaid
  <2> SUFFICES ASSUME FInv, NEW id \in Id, Paid(Leg(id))
               PROVE  node.in[Leg(id).part] # "FAILED"
    BY DEF NeverRefundsWhatItPaid
  <2>1. id < node.next /\ ~Dead(Leg(id))
    BY PaidIsNotDead
  <2> QED
    BY <2>1 DEF FInv, Good, DebtsGood, Leg
<1> QED
  BY <1>1, FInvAlways, PTL

\* For any number of parts, outgoing HTLCs and faults: no part is forwarded
\* twice.  The linkage of the first forward is on disk before the add is sent,
\* and what redispatchUnresolvedReceivedHtlcs dispatches again has none.
THEOREM OneLegPerPartAlways == Spec => []OneLegPerPart
<1>1. FInv => OneLegPerPart
  <2> SUFFICES ASSUME FInv, NEW i \in Id, NEW j \in Id,
                      Leg(i).part = Leg(j).part, Leg(i).part # None
               PROVE  i = j
    BY DEF OneLegPerPart
  <2>1. i \in Nat /\ node.next \in Nat
    BY ForwardingConstants DEF FInv, Good, Nodes, Id
  <2>2. i < node.next
    BY <2>1, NoLegFields DEF FInv, Good, LegsGood, Leg
  <2> QED
    BY <2>2 DEF FInv, Good, LegsGood, Leg
<1> QED
  BY <1>1, FInvAlways, PTL

\* For any number of parts, outgoing HTLCs and faults: from the moment a
\* fulfil cannot be taken back, the preimage is saved, and the linkage is on
\* disk until the part is settled or its channel is closed.
THEOREM PaidIsRememberedAlways == Spec => []PaidIsRemembered
<1>1. FInv => PaidIsRemembered
  <2> SUFFICES ASSUME FInv, NEW id \in Id,
                      Leg(id).state \in {"FULFILLED", "PAID"}
               PROVE  /\ node.preimage
                      /\ \/ node.in[Leg(id).part] = "FULFILLED"
                         \/ node.row[id] = Leg(id).part
    BY DEF PaidIsRemembered
  <2>1. id < node.next /\ ~Dead(Leg(id))
    BY PaidIsNotDead
  <2>2. node.preimage /\ Leg(id).part \in Part
    BY <2>1 DEF FInv, Good, LegsGood, Leg, Fulfilled
  <2>3. node.in[Leg(id).part] \in {"NEW", "COMMITTED", "FULFILLED", "FAILED"}
    BY <2>2 DEF FInv, Good, Nodes
  <2> QED
    BY <2>1, <2>2, <2>3 DEF FInv, Good, DebtsGood, Leg
<1> QED
  BY <1>1, FInvAlways, PTL

-----------------------------------------------------------------------------
(* The next block, when no deadline is near.                                *)

\* settleForwardUpstream and failForwardUpstream, part by part.
LEMMA UpstreamIn ==
    ASSUME NEW n \in Nodes, NEW ids \in SUBSET Id, NEW p \in Part,
           NEW outcome \in {"FULFILLED", "FAILED"}
    PROVE  LET m == SettledUpstream(n, ids, outcome) IN
           /\ m \in Nodes
           /\ m.in[p] = IF CanSettle(n, p) /\ \E i \in ids : n.link[i] = p
                        THEN outcome ELSE n.in[p]
<1> DEFINE taken == ids \cap Linked(n, {q \in Part : CanSettle(n, q)})
           parts == {n.link[i] : i \in taken}
           a == Settled(n, parts, outcome)
           m == SettledUpstream(n, ids, outcome)
<1>1. /\ m = IF taken = {} THEN n ELSE Forgotten(a, taken)
      /\ taken \subseteq Id
  BY DEF SettledUpstream
<1>2. \A i \in ids : n.link[i] = p /\ CanSettle(n, p) => i \in taken
  BY DEF Linked
<1>3. \A i \in taken : i \in ids /\ n.link[i] \in Part
  BY DEF Linked
<1>4. parts \in SUBSET Part /\ (p \in parts <=> \E i \in taken : n.link[i] = p)
  BY Zenon, <1>3
<1> HIDE DEF taken, parts, m
<1>5. CASE taken = {}
  BY <1>1, <1>2, <1>5 DEF m
<1>6. CASE taken # {}
  <2>1. /\ a \in Nodes
        /\ a.in[p] = IF p \in parts /\ CanSettle(n, p) THEN outcome ELSE n.in[p]
    BY <1>4, SettledFields
  <2> HIDE DEF a
  <2>2. /\ Without(a.link, taken) \in [Id -> Part \cup {None}]
        /\ Without(a.row, taken) \in [Id -> Part \cup {None}]
    BY <2>1 DEF Without, Nodes
  <2>3. m \in Nodes /\ m.in = a.in
    BY ZenonT(60), <1>1, <1>6, <2>1, <2>2 DEF Forgotten, Nodes
  <2> QED
    BY <1>2, <1>3, <1>4, <2>1, <2>3 DEF m
<1> QED
  BY <1>5, <1>6

\* _drainDeferredSettles, part by part.
LEMMA DeferredIn ==
    ASSUME NEW n, Good(n)
    PROVE  LET m == DrainDeferred(n, Part) IN
           /\ m.link = n.link /\ m.preimage = n.preimage
           /\ \A p \in Part : m.in[p] = IF p \in n.deferred /\ CanSettle(n, p)
                                        THEN "FAILED" ELSE n.in[p]
<1> DEFINE list == n.deferred \cap Part
           done == {p \in list : n.inCh[p] \in {"NORMAL", "CHAIN"}}
           k == [n EXCEPT !.deferred = @ \ done]
           m == Settled(k, done, "FAILED")
<1>1. DrainDeferred(n, Part) = m
  BY DEF DrainDeferred
<1>2. n \in Nodes /\ done \in SUBSET Part
  BY DEF Good
<1>3. \A p \in Part : CanSettle(n, p) => (p \in done <=> p \in n.deferred)
  BY DEF CanSettle
<1> HIDE DEF done
<1>4. /\ k \in Nodes /\ k.in = n.in /\ k.inCh = n.inCh /\ k.link = n.link
      /\ k.preimage = n.preimage
  BY <1>2 DEF Nodes
<1> HIDE DEF k
<1>5. /\ m \in Nodes /\ m = [k EXCEPT !.in = m.in]
      /\ \A p \in Part : m.in[p] = IF p \in done /\ CanSettle(k, p)
                                   THEN "FAILED" ELSE k.in[p]
  BY <1>2, <1>4, SettledFields
<1>6. m.link = n.link /\ m.preimage = n.preimage
  BY <1>4, <1>5 DEF Nodes
<1>7. \A p \in Part : CanSettle(k, p) = CanSettle(n, p)
  BY <1>4 DEF CanSettle
<1> HIDE DEF m
<1> QED
  BY <1>1, <1>3, <1>4, <1>5, <1>6, <1>7

\* scanExpiringHtlcs does nothing.
LEMMA QuietExpiring ==
    ASSUME NEW n \in Nodes
    PROVE  LET m == ScanExpiring(n, NoDeadline) IN
           /\ m \in Nodes /\ m.link = n.link /\ m.preimage = n.preimage
           /\ m.outCh = n.outCh /\ m.legs = n.legs /\ m.parked = n.parked
           /\ \A p \in Part : m.in[p] = n.in[p] /\ m.inCh[p] = n.inCh[p]
<1> DEFINE k == ClosedIn(n, {})
           m == Settled(k, {}, "FAILED")
<1>1. \A p \in Part : NoDeadline[p] = 0
  BY DEF NoDeadline, Far
<1>2. ScanExpiring(n, NoDeadline) = m
  <2> DEFINE open == {p \in Part : n.inCh[p] # "CHAIN"}
             claims == {p \in open : /\ NoDeadline[p] >= ClaimBuffer
                                     /\ \/ n.in[p] = "FULFILLED"
                                        \/ n.in[p] = "COMMITTED" /\ n.preimage}
             due == {p \in open \ claims : /\ NoDeadline[p] = Margin
                                           /\ n.in[p] = "COMMITTED"
                                           /\ n.inCh[p] # "QUIESCENT"}
             unresolved == {p \in due : \E id \in Linked(n, {p}) :
                                             ~TerminallyFailed(n, id)}
  <2>1. claims = {} /\ due = {}
    BY <1>1 DEF ClaimBuffer, Margin
  <2>2. unresolved = {}
    BY <2>1
  <2>3. ScanExpiring(n, NoDeadline) =
            Settled(ClosedIn(n, claims \cup unresolved), due \ unresolved, "FAILED")
    BY DEF ScanExpiring
  <2> HIDE DEF claims, due, unresolved
  <2>4. claims \cup unresolved = {} /\ due \ unresolved = {}
    BY <2>1, <2>2
  <2> QED
    BY <2>3, <2>4
<1>3. /\ k \in Nodes /\ k.in = n.in /\ k.link = n.link /\ k.preimage = n.preimage
      /\ k.outCh = n.outCh /\ k.legs = n.legs /\ k.parked = n.parked
      /\ \A p \in Part : k.inCh[p] = n.inCh[p]
  BY DEF ClosedIn, Nodes
<1> HIDE DEF k
<1>4. /\ m \in Nodes /\ m = [k EXCEPT !.in = m.in]
      /\ \A p \in Part : m.in[p] = k.in[p]
  BY <1>3, SettledFields
<1>5. /\ m.link = k.link /\ m.preimage = k.preimage /\ m.outCh = k.outCh
      /\ m.legs = k.legs /\ m.parked = k.parked /\ m.inCh = k.inCh
  BY <1>3, <1>4 DEF Nodes
<1> HIDE DEF m
<1> QED
  BY <1>2, <1>3, <1>4, <1>5

\* scanForwardTimeouts does nothing.
LEMMA QuietForward ==
    ASSUME NEW n \in Nodes, NEW p \in Part
    PROVE  ScanForward(n, NoDeadline).in[p] = n.in[p]
<1> DEFINE due == {q \in Part : /\ NoDeadline[q] >= DoubleMargin
                                /\ n.inCh[q] \in {"NORMAL", "QUIESCENT"}
                                /\ n.in[q] = "COMMITTED"
                                /\ Linked(n, {q}) # {}}
           failed == {q \in due :
                        \A id \in Linked(n, {q}) : TerminallyFailed(n, id)}
           quiescing == {q \in failed : n.inCh[q] = "QUIESCENT"}
           a == Settled(n, failed, "FAILED")
           b == [a EXCEPT !.deferred = @ \cup quiescing]
           c == Unlinked(b, Linked(n, failed))
<1>1. ScanForward(n, NoDeadline) = ClosedIn(c, due \ failed)
  BY DEF ScanForward
<1>2. due = {}
  BY DEF NoDeadline, Far, DoubleMargin
<1>3. failed = {}
  BY <1>2
<1> HIDE DEF due, failed, quiescing
<1>4. a \in Nodes /\ a.in[p] = n.in[p]
  BY <1>3, SettledFields
<1> HIDE DEF a
<1>5. "in" \in DOMAIN a
  BY <1>4 DEF Nodes
<1>6. b.in = a.in /\ DOMAIN b = DOMAIN a
  BY <1>4 DEF Nodes
<1> HIDE DEF b
<1>7. c.in = b.in /\ DOMAIN c = DOMAIN b
  BY <1>5, <1>6 DEF Unlinked
<1> HIDE DEF c
<1>8. ClosedIn(c, due \ failed).in = c.in
  BY <1>5, <1>6, <1>7 DEF ClosedIn
<1> QED
  BY <1>1, <1>4, <1>6, <1>7, <1>8

\* drainParkedQuiescentHtlcs forwards nothing, and fails only what was parked.
Unforwarded(n) == DrainParked(n, Part, << >>, FALSE)

\* Its part of the state, field by field.
LEMMA QuietParked ==
    ASSUME NEW n \in Nodes
    PROVE  LET m == Unforwarded(n) IN
           /\ m \in Nodes /\ m.link = n.link /\ m.preimage = n.preimage
           /\ m.outCh = n.outCh /\ m.legs = n.legs /\ m.inCh = n.inCh
           /\ \A p \in Part : p \notin n.parked => m.in[p] = n.in[p]
<1> DEFINE drained == Drainable(n, Part)
           closed == {p \in n.parked \cap Part : n.inCh[p] = "CHAIN"}
           k == [n EXCEPT !.parked = @ \ (closed \cup drained)]
           parts == drained \ Range(<< >>)
           m == Settled(k, parts, "FAILED")
<1>1. Unforwarded(n) = m
  BY DEF DrainParked, Dispatched, Unforwarded
<1>2. parts \in SUBSET Part /\ parts \in SUBSET n.parked
  BY DEF Drainable
<1> HIDE DEF drained, closed, parts
<1>3. /\ k \in Nodes /\ k.in = n.in /\ k.inCh = n.inCh /\ k.link = n.link
      /\ k.preimage = n.preimage /\ k.outCh = n.outCh /\ k.legs = n.legs
  BY DEF Nodes
<1> HIDE DEF k
<1>4. /\ m \in Nodes /\ m = [k EXCEPT !.in = m.in]
      /\ \A p \in Part : m.in[p] = IF p \in parts /\ CanSettle(k, p)
                                   THEN "FAILED" ELSE k.in[p]
  BY <1>2, <1>3, SettledFields
<1>5. /\ m.link = k.link /\ m.preimage = k.preimage /\ m.outCh = k.outCh
      /\ m.legs = k.legs /\ m.inCh = k.inCh
  BY <1>3, <1>4 DEF Nodes
<1> HIDE DEF m
<1> QED
  BY <1>1, <1>2, <1>3, <1>4, <1>5

\* What the block makes of a part with a leg on a usable inbound channel.
LEMMA QuietBlock ==
    ASSUME FInv, NEW id \in Id, id < node.next, NEW p, p = Leg(id).part,
           node.inCh[p] = "NORMAL"
    PROVE  /\ p \in Part
           /\ node.in[p] # "COMMITTED" => NextBlock.in[p] = node.in[p]
           /\ node.in[p] = "COMMITTED" /\ p \in node.deferred =>
                 NextBlock.in[p] = "FAILED"
           /\ (/\ node.in[p] = "COMMITTED" /\ p \notin node.deferred
               /\ node.link[id] = p
               /\ node.preimage \/ TerminallyFailed(node, id))
              => NextBlock.in[p] = IF node.preimage THEN "FULFILLED" ELSE "FAILED"
<1> DEFINE n == node
           a == DrainDeferred(n, Part)
           b == ScanExpiring(a, NoDeadline)
           c == Unforwarded(b)
           failed == {i \in Linked(c, Part) : TerminallyFailed(c, i)}
           d == OwedPass(c, Part)
<1>1. NextBlock = ScanForward(d, NoDeadline)
  BY DEF NextBlock, BlockWork, ScanOffered, Unforwarded
<1>2. /\ Good(n) /\ n \in Nodes /\ p \in Part /\ p = n.legs[id].part
      /\ p \notin n.parked /\ n.inCh[p] = "NORMAL"
  BY DEF FInv, Good, LegsGood, DebtsGood, Leg
<1> HIDE DEF n
<1>3. /\ Good(a) /\ a \in Nodes /\ a.inCh = n.inCh /\ a.outCh = n.outCh
      /\ a.legs = n.legs /\ a.parked = n.parked
  BY <1>2, DeferredGood DEF Good
<1>4. /\ a.link = n.link /\ a.preimage = n.preimage
      /\ a.in[p] = IF p \in n.deferred /\ CanSettle(n, p)
                   THEN "FAILED" ELSE n.in[p]
  BY <1>2, DeferredIn
<1> HIDE DEF a
<1>5. /\ b \in Nodes /\ b.link = a.link /\ b.preimage = a.preimage
      /\ b.outCh = a.outCh /\ b.legs = a.legs /\ b.parked = a.parked
      /\ b.in[p] = a.in[p] /\ b.inCh[p] = a.inCh[p]
  BY <1>2, <1>3, QuietExpiring
<1> HIDE DEF b
<1>6. /\ c \in Nodes /\ c.link = b.link /\ c.preimage = b.preimage
      /\ c.outCh = b.outCh /\ c.legs = b.legs /\ c.inCh = b.inCh
      /\ c.in[p] = b.in[p]
  <2>1. b \in Nodes /\ p \in Part /\ p \notin b.parked /\ c = Unforwarded(b)
    BY Zenon, <1>2, <1>3, <1>5
  <2> HIDE DEF c
  <2> QED
    BY Zenon, <2>1, QuietParked
<1> HIDE DEF c
<1>7. /\ c.link = n.link /\ c.preimage = n.preimage /\ c.outCh = n.outCh
      /\ c.legs = n.legs /\ c.inCh[p] = "NORMAL" /\ c.in[p] = a.in[p]
      /\ n.preimage \in BOOLEAN
  BY SMTT(60), Z3T(60), <1>2, <1>3, <1>4, <1>5, <1>6 DEF Nodes
<1>8. /\ Linked(c, Part) \in SUBSET Id /\ failed \in SUBSET Id
      /\ n.link[id] = p => id \in Linked(c, Part)
      /\ n.link[id] = p /\ TerminallyFailed(n, id) => id \in failed
  BY <1>2, <1>7 DEF Linked, TerminallyFailed
<1> HIDE DEF failed
<1>9. d = IF c.preimage THEN SettledUpstream(c, Linked(c, Part), "FULFILLED")
          ELSE SettledUpstream(c, failed, "FAILED")
  BY DEF OwedPass, failed
<1> HIDE DEF d
<1>10. /\ d \in Nodes
       /\ c.in[p] # "COMMITTED" => d.in[p] = c.in[p]
       /\ (/\ c.in[p] = "COMMITTED" /\ n.link[id] = p
           /\ n.preimage \/ TerminallyFailed(n, id))
          => d.in[p] = IF n.preimage THEN "FULFILLED" ELSE "FAILED"
  <2>1. CASE n.preimage
    <3>0. PICK s \in {"FULFILLED", "FAILED"} : s = "FULFILLED"
      OBVIOUS
    <3> DEFINE m == SettledUpstream(c, Linked(c, Part), s)
    <3>1. /\ m \in Nodes
          /\ m.in[p] = IF CanSettle(c, p) /\ \E i \in Linked(c, Part) : c.link[i] = p
                       THEN s ELSE c.in[p]
      BY SMTT(60), Z3T(60), <1>2, <1>6, <1>8, <3>0, UpstreamIn
    <3>2. d = m /\ s = "FULFILLED"
      BY <1>7, <1>9, <2>1, <3>0
    <3> HIDE DEF m
    <3> QED
      BY <1>7, <1>8, <2>1, <3>1, <3>2 DEF CanSettle
  <2>2. CASE ~n.preimage
    <3>0. PICK s \in {"FULFILLED", "FAILED"} : s = "FAILED"
      OBVIOUS
    <3> DEFINE m == SettledUpstream(c, failed, s)
    <3>1. /\ m \in Nodes
          /\ m.in[p] = IF CanSettle(c, p) /\ \E i \in failed : c.link[i] = p
                       THEN s ELSE c.in[p]
      BY SMTT(60), Z3T(60), <1>2, <1>6, <1>8, <3>0, UpstreamIn
    <3>2. d = m /\ s = "FAILED"
      BY <1>7, <1>9, <2>2, <3>0
    <3> HIDE DEF m
    <3> QED
      BY <1>7, <1>8, <2>2, <3>1, <3>2 DEF CanSettle
  <2> QED
    BY <2>1, <2>2
<1>11. NextBlock.in[p] = d.in[p]
  BY <1>1, <1>2, <1>10, QuietForward
<1> QED
  BY <1>2, <1>4, <1>7, <1>10, <1>11 DEF CanSettle, n

\* For any number of parts, outgoing HTLCs and faults: a leg known to be paid
\* is collected by the next block that finds the inbound channel usable, since
\* until then memory has its linkage (settleForwardsOwedUpstream finds it) and
\* no fail of it is deferred.
THEOREM NextBlockCollectsAlways == Spec => []NextBlockCollects
<1>1. FInv => NextBlockCollects
  <2> SUFFICES ASSUME FInv, NEW id \in Id, Paid(Leg(id)),
                      Leg(id).output # "claimed", node.inCh[Leg(id).part] = "NORMAL"
               PROVE  NextBlock.in[Leg(id).part] = "FULFILLED"
    BY DEF NextBlockCollects
  <2> DEFINE p == Leg(id).part
  <2>1. id < node.next /\ ~Dead(Leg(id))
    BY PaidIsNotDead
  <2>2. node.preimage
    BY DEF FInv, Good, LegsGood, Leg, Paid, Fulfilled
  <2>3. p \in Part /\ node.in[p] \in {"NEW", "COMMITTED", "FULFILLED", "FAILED"}
    BY <2>1 DEF FInv, Good, LegsGood, Leg, Nodes
  <2>4. /\ node.in[p] \in {"COMMITTED", "FULFILLED"}
        /\ node.in[p] = "COMMITTED" => node.link[id] = p /\ p \notin node.deferred
    BY <2>1, <2>3 DEF FInv, Good, DebtsGood, Leg
  <2> HIDE DEF p
  <2>5. /\ node.in[p] # "COMMITTED" => NextBlock.in[p] = node.in[p]
        /\ (/\ node.in[p] = "COMMITTED" /\ p \notin node.deferred
            /\ node.link[id] = p
            /\ node.preimage \/ TerminallyFailed(node, id))
           => NextBlock.in[p] = IF node.preimage THEN "FULFILLED" ELSE "FAILED"
    BY <2>1, QuietBlock DEF p
  <2> QED
    BY <2>2, <2>4, <2>5 DEF p
<1> QED
  BY <1>1, FInvAlways, PTL

\* For any number of parts, outgoing HTLCs and faults: a leg that failed for
\* good is passed on by the next block that finds the inbound channel usable,
\* by settleForwardsOwedUpstream or, when its fail was deferred by quiescence
\* and has left memory, by _drainDeferredSettles.
THEOREM NextBlockRefundsAlways == Spec => []NextBlockRefunds
<1>1. FInv => NextBlockRefunds
  <2> SUFFICES ASSUME FInv, NEW id \in Id,
                      \/ Leg(id).state = "REFUNDED" /\ node.outCh = "NORMAL"
                      \/ Leg(id).output = "resolved",
                      node.inCh[Leg(id).part] = "NORMAL"
               PROVE  NextBlock.in[Leg(id).part] # "COMMITTED"
    BY DEF NextBlockRefunds
  <2> DEFINE p == Leg(id).part
  <2>1. id < node.next
    <3>1. id \in Nat /\ node.next \in Nat
      BY ForwardingConstants DEF FInv, Good, Nodes, Id
    <3> QED
      BY <3>1, NoLegFields DEF FInv, Good, LegsGood, Leg
  <2>2. node.in[p] = "COMMITTED" => node.link[id] = p \/ p \in node.deferred
    BY <2>1 DEF FInv, Good, DebtsGood, Leg
  <2>3. node.preimage \/ TerminallyFailed(node, id)
    BY DEF TerminallyFailed, Leg
  <2> HIDE DEF p
  <2>4. /\ node.in[p] # "COMMITTED" => NextBlock.in[p] = node.in[p]
        /\ node.in[p] = "COMMITTED" /\ p \in node.deferred =>
              NextBlock.in[p] = "FAILED"
        /\ (/\ node.in[p] = "COMMITTED" /\ p \notin node.deferred
            /\ node.link[id] = p
            /\ node.preimage \/ TerminallyFailed(node, id))
           => NextBlock.in[p] = IF node.preimage THEN "FULFILLED" ELSE "FAILED"
    BY <2>1, QuietBlock DEF p
  <2> QED
    BY <2>2, <2>3, <2>4 DEF p
<1> QED
  BY <1>1, FInvAlways, PTL

=============================================================================
