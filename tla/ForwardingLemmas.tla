-------------------------- MODULE ForwardingLemmas --------------------------
(***************************************************************************)
(* The inductive invariant of Forwarding, on the node's record, and a lemma *)
(* for every handler that it keeps a record good.  ForwardingProofs has the *)
(* steps and the theorems.                                                  *)
(***************************************************************************)
EXTENDS Forwarding, TLAPS

\* The peer can no longer claim the leg.
Dead(leg) ==
    \/ leg.state = "REFUNDED"
    \/ leg.output = "resolved" /\ leg.state \notin {"FULFILLED", "PAID"}

\* The preimage was learned from the leg.
Fulfilled(leg) == leg.state \in {"FULFILLED", "PAID"} \/ leg.output = "known"

\* The entries of the outgoing channel.
LegsGood(n) ==
    /\ \A id \in Id :
          /\ id >= n.next => n.legs[id] = NoLeg
          /\ id < n.next => n.legs[id].part \in Part /\ n.legs[id].state # "UNUSED"
          /\ Fulfilled(n.legs[id]) => n.preimage
          /\ n.outCh # "CHAIN" => n.legs[id].output = "none"
          /\ n.legs[id].state \in {"PAID", "REFUNDED"} =>
                n.legs[id].output \in {"none", "absent"}
    /\ \A i, j \in Id : n.legs[i].part = n.legs[j].part /\ i < n.next => i = j

\* The linkages: memory has no more than the disk, and a linkage names its
\* leg's part, or under the next id a part that has no leg.
RowsGood(n) ==
    \A id \in Id :
        /\ n.link[id] \in {None, n.row[id]}
        /\ id \in n.held => n.link[id] # None
        /\ id > n.next => n.row[id] = None
        /\ n.row[id] # None /\ id < n.next => n.legs[id].part = n.row[id]
        /\ n.row[id] # None /\ id = n.next =>
              \A j \in Id : n.legs[j].part # n.row[id]

\* What is owed for a leg: while its part is not settled the disk has its
\* linkage, and so has memory unless the leg is dead and the fail is deferred, or
\* its channel closed; and a part is failed, or about to be, only when its leg
\* is dead.
DebtsGood(n) ==
    \A id \in Id : id < n.next =>
        LET p == n.legs[id].part IN
        /\ n.in[p] # "NEW" /\ p \notin n.parked
        /\ n.in[p] = "COMMITTED" =>
              /\ n.row[id] = p
              /\ \/ n.link[id] = p
                 \/ Dead(n.legs[id]) /\ (p \in n.deferred \/ n.inCh[p] = "CHAIN")
              /\ p \in n.deferred => Dead(n.legs[id])
        /\ n.in[p] = "FAILED" => Dead(n.legs[id])

\* A part waits in at most one place, and for nothing before it arrived.
WaitsGood(n) ==
    /\ \A p \in n.parked : /\ n.in[p] # "NEW"
                           /\ p \notin n.deferred /\ p \notin n.repair
                           /\ \A id \in Id : n.row[id] # p
    /\ \A p \in n.deferred : n.in[p] # "NEW" /\ p \notin n.repair
    /\ \A p \in n.repair : /\ n.in[p] # "NEW"
                           /\ n.inCh[p] \in {"DOWN", "CHAIN"}
                           /\ \A id \in Id : n.row[id] = p => n.link[id] = p
    /\ \A id \in Id : n.row[id] # None => n.in[n.row[id]] # "NEW"

Good(n) ==
    n \in Nodes /\ LegsGood(n) /\ RowsGood(n) /\ DebtsGood(n) /\ WaitsGood(n)

\* Between two steps no part waits parked that was failed: a block, which may
\* fail it, takes it out in the same step.
ParkedGood(n) == \A p \in n.parked : n.in[p] # "FAILED"

\* The inductive invariant.
FInv == Good(node) /\ ParkedGood(node) /\ faults \in 0..MaxFaults

-----------------------------------------------------------------------------
(* Settling upstream.                                                       *)

\* An entry that was never used.
LEMMA NoLegFields ==
    /\ NoLeg \in Legs
    /\ NoLeg.part = None /\ NoLeg.state = "UNUSED" /\ NoLeg.output = "none"
BY Zenon DEF NoLeg, NewLeg, Legs

\* Each part of Good looks at a few fields: a record that has them from a good
\* one has that part too.
LEMMA SameLegs ==
    ASSUME NEW n, NEW m, LegsGood(n), m.legs = n.legs, m.next = n.next,
           m.preimage = n.preimage, m.outCh = n.outCh
    PROVE  LegsGood(m)
BY DEF LegsGood

\* The linkages, with the same legs.
LEMMA SameRows ==
    ASSUME NEW n, NEW m, RowsGood(n), m.legs = n.legs, m.next = n.next,
           m.link = n.link, m.row = n.row, m.held = n.held
    PROVE  RowsGood(m)
BY DEF RowsGood

\* What is owed, with the same legs and linkages and the same parts waiting, or
\* fewer parked.
LEMMA SameDebts ==
    ASSUME NEW n, NEW m, DebtsGood(n), m.legs = n.legs, m.next = n.next,
           m.link = n.link, m.row = n.row, m.in = n.in, m.inCh = n.inCh,
           m.deferred = n.deferred, m.parked \subseteq n.parked
    PROVE  DebtsGood(m)
BY DEF DebtsGood

\* What waits, with the same linkages, when no part waits that did not before
\* and an inbound HTLC that arrived stays so.
LEMMA SameWaits ==
    ASSUME NEW n, n \in Nodes, NEW m, WaitsGood(n), m.link = n.link, m.row = n.row,
           m.inCh = n.inCh, m.parked \subseteq n.parked, m.deferred = n.deferred,
           m.repair = n.repair,
           \A q \in Part : n.in[q] # "NEW" => m.in[q] # "NEW"
    PROVE  WaitsGood(m)
BY DEF WaitsGood, Nodes

\* The linkages of a process that starts: memory has what the disk has.
LEMMA RestartRows ==
    ASSUME NEW n, NEW m, RowsGood(n), m.next = n.next, m.link = n.row,
           m.row = n.row, m.held = {},
           \A id \in Id : m.legs[id].part = n.legs[id].part
    PROVE  RowsGood(m)
BY DEF RowsGood

\* What waits when a process starts: the parts to be repaired, and nothing else.
LEMMA RestartWaits ==
    ASSUME NEW n, NEW m, WaitsGood(n), m.link = n.row, m.row = n.row,
           m.in = n.in, m.parked = {}, m.deferred = {},
           \A p \in m.repair : n.in[p] = "COMMITTED" /\ m.inCh[p] \in {"DOWN", "CHAIN"}
    PROVE  WaitsGood(m)
BY DEF WaitsGood

\* A leg that isOutgoingLegTerminallyFailed accepts does not exist or is dead.
LEMMA TerminalIsDead ==
    ASSUME NEW n, Good(n), NEW id \in Id, TerminallyFailed(n, id)
    PROVE  id >= n.next \/ Dead(n.legs[id])
BY DEF Good, LegsGood, TerminallyFailed, Dead, Fulfilled, Id, Nodes, Legs

\* What Settled leaves behind.
LEMMA SettledFields ==
    ASSUME NEW n \in Nodes, NEW parts \in SUBSET Part,
           NEW outcome \in {"FULFILLED", "FAILED"}
    PROVE  LET m == Settled(n, parts, outcome) IN
           /\ m \in Nodes
           /\ \A p \in Part : m.in[p] = IF p \in parts /\ CanSettle(n, p)
                                        THEN outcome ELSE n.in[p]
           /\ m = [n EXCEPT !.in = m.in]
<1> DEFINE m == Settled(n, parts, outcome)
<1>1. m.in = [p \in Part |-> IF p \in {q \in parts : CanSettle(n, q)}
                             THEN outcome ELSE n.in[p]]
  BY DEF Settled, Nodes
<1>2. m = [n EXCEPT !.in = m.in]
  BY <1>1 DEF Settled, Nodes
<1>3. m.in \in [Part -> {"NEW", "COMMITTED", "FULFILLED", "FAILED"}]
  BY <1>1 DEF Nodes
<1>4. m \in Nodes
  BY <1>2, <1>3 DEF Nodes
<1> QED
  BY <1>1, <1>2, <1>4

\* Failing parts whose legs are dead, or fulfilling any part, keeps a record
\* good.
LEMMA SettledGood ==
    ASSUME NEW n, Good(n), NEW parts \in SUBSET Part,
           NEW outcome \in {"FULFILLED", "FAILED"},
           outcome = "FAILED" =>
              \A id \in Id : /\ id < n.next /\ n.legs[id].part \in parts
                             /\ CanSettle(n, n.legs[id].part)
                             => Dead(n.legs[id])
    PROVE  Good(Settled(n, parts, outcome))
<1> DEFINE m == Settled(n, parts, outcome)
<1>1. /\ n \in Nodes /\ m \in Nodes
      /\ \A p \in Part : m.in[p] = IF p \in parts /\ CanSettle(n, p)
                                   THEN outcome ELSE n.in[p]
      /\ m = [n EXCEPT !.in = m.in]
  BY SettledFields DEF Good
<1>2. /\ m.inCh = n.inCh /\ m.outCh = n.outCh /\ m.legs = n.legs
      /\ m.next = n.next /\ m.link = n.link /\ m.row = n.row
      /\ m.held = n.held /\ m.preimage = n.preimage /\ m.parked = n.parked
      /\ m.deferred = n.deferred /\ m.repair = n.repair
  BY <1>1 DEF Nodes
<1>3. \A p \in Part : m.in[p] = "NEW" => n.in[p] = "NEW"
  BY <1>1 DEF Nodes
<1> HIDE DEF m
<1>4. LegsGood(m)
  BY <1>2 DEF Good, LegsGood
<1>5. RowsGood(m)
  BY <1>2 DEF Good, RowsGood
<1>6. DebtsGood(m)
  <2> SUFFICES ASSUME NEW id \in Id, id < n.next
               PROVE  LET p == n.legs[id].part IN
                      /\ m.in[p] # "NEW" /\ p \notin n.parked
                      /\ m.in[p] = "COMMITTED" =>
                            /\ n.row[id] = p
                            /\ \/ n.link[id] = p
                               \/ /\ Dead(n.legs[id])
                                  /\ p \in n.deferred \/ n.inCh[p] = "CHAIN"
                            /\ p \in n.deferred => Dead(n.legs[id])
                      /\ m.in[p] = "FAILED" => Dead(n.legs[id])
    BY <1>2 DEF DebtsGood
  <2>1. n.legs[id].part \in Part
    BY DEF Good, LegsGood
  <2> QED
    BY <1>1, <1>3, <2>1 DEF Good, DebtsGood
<1>7. WaitsGood(m)
  <2>1. \A id \in Id : n.row[id] # None => n.row[id] \in Part
    BY <1>1 DEF Nodes
  <2>2. /\ \A p \in n.parked : p \in Part
        /\ \A p \in n.deferred : p \in Part
        /\ \A p \in n.repair : p \in Part
    BY <1>1 DEF Nodes
  <2> QED
    BY <1>2, <1>3, <2>1, <2>2 DEF Good, WaitsGood
<1> QED
  BY <1>1, <1>4, <1>5, <1>6, <1>7 DEF Good, m

\* Forgetting linkages whose parts are settled keeps a record good.
LEMMA ForgottenGood ==
    ASSUME NEW n, Good(n), NEW ids \in SUBSET Id,
           \A id \in ids : id < n.next => n.in[n.legs[id].part] # "COMMITTED"
    PROVE  /\ Good(Forgotten(n, ids))
           /\ ParkedGood(n) => ParkedGood(Forgotten(n, ids))
<1> DEFINE m == Forgotten(n, ids)
<1>1. n \in Nodes
  BY DEF Good
<1>2. /\ m.in = n.in /\ m.inCh = n.inCh /\ m.outCh = n.outCh /\ m.legs = n.legs
      /\ m.next = n.next /\ m.preimage = n.preimage /\ m.parked = n.parked
      /\ m.deferred = n.deferred /\ m.repair = n.repair /\ m.turns = n.turns
      /\ m.link = Without(n.link, ids) /\ m.row = Without(n.row, ids)
      /\ m.held = n.held \ ids
  BY <1>1 DEF Forgotten, Nodes
<1>3. \A id \in Id : /\ m.link[id] = IF id \in ids THEN None ELSE n.link[id]
                     /\ m.row[id] = IF id \in ids THEN None ELSE n.row[id]
  BY <1>2 DEF Without
<1>4. m \in Nodes
  <2>1. /\ m.link \in [Id -> Part \cup {None}]
        /\ m.row \in [Id -> Part \cup {None}]
    BY <1>1, <1>2 DEF Without, Nodes
  <2>2. m.held \in SUBSET Id
    BY <1>1, <1>2 DEF Nodes
  <2>3. m = [n EXCEPT !.link = m.link, !.held = m.held, !.row = m.row]
    BY <1>1, <1>2 DEF Forgotten, Nodes
  <2> QED
    BY ZenonT(60), <1>1, <2>1, <2>2, <2>3 DEF Nodes
<1> HIDE DEF m
<1>5. LegsGood(m)
  BY <1>2 DEF Good, LegsGood
<1>6. RowsGood(m)
  BY <1>2, <1>3 DEF Good, RowsGood
<1>7. DebtsGood(m)
  BY <1>2, <1>3 DEF Good, DebtsGood
<1>8. WaitsGood(m)
  BY <1>2, <1>3, ForwardingConstants, <1>1 DEF Good, WaitsGood, Nodes
<1>9. ParkedGood(n) => ParkedGood(m)
  BY <1>2 DEF ParkedGood
<1> QED
  BY <1>4, <1>5, <1>6, <1>7, <1>8, <1>9 DEF Good, m

\* settleForwardUpstream, and failForwardUpstream of legs that are dead.
LEMMA UpstreamGood ==
    ASSUME NEW n, Good(n), NEW ids \in SUBSET Id,
           NEW outcome \in {"FULFILLED", "FAILED"},
           outcome = "FAILED" =>
              \A id \in ids : id >= n.next \/ Dead(n.legs[id])
    PROVE  /\ Good(SettledUpstream(n, ids, outcome))
           /\ ParkedGood(n) => ParkedGood(SettledUpstream(n, ids, outcome))
<1> DEFINE taken == ids \cap Linked(n, {p \in Part : CanSettle(n, p)})
           parts == {n.link[id] : id \in taken}
           m == Settled(n, parts, outcome)
<1>1. n \in Nodes
  BY DEF Good
<1>2. \A id \in taken : /\ id \in ids /\ id \in Id
                        /\ n.link[id] \in Part /\ CanSettle(n, n.link[id])
                        /\ n.row[id] = n.link[id]
  BY ForwardingConstants DEF Linked, Good, RowsGood
<1>3. parts \in SUBSET Part
  BY Zenon, <1>2
<1>4. \A id \in taken, i \in Id :
          n.legs[i].part = n.link[id] /\ i < n.next => i = id
  <2> SUFFICES ASSUME NEW id \in taken, NEW i \in Id,
                      n.legs[i].part = n.link[id], i < n.next
               PROVE  i = id
    OBVIOUS
  <2>1. n.row[id] # None /\ n.row[id] = n.link[id] /\ id \in Id
    BY <1>2, ForwardingConstants
  <2>2. id < n.next
    BY <2>1, <1>1 DEF Good, RowsGood, Nodes, Id
  <2>3. n.legs[id].part = n.row[id]
    BY <2>1, <2>2 DEF Good, RowsGood
  <2> QED
    BY <2>1, <2>2, <2>3 DEF Good, LegsGood
<1>5. Good(m)
  <2>1. ASSUME outcome = "FAILED", NEW i \in Id, i < n.next,
               n.legs[i].part \in parts
        PROVE  Dead(n.legs[i])
    <3>1. PICK id \in taken : n.legs[i].part = n.link[id]
      BY <2>1
    <3>2. i = id
      BY <3>1, <2>1, <1>4
    <3> QED
      BY <3>2, <2>1, <1>1, <1>2 DEF Nodes, Id
  <2> HIDE DEF parts
  <2> QED
    BY <1>3, <2>1, SettledGood
<1>6. /\ \A p \in Part : m.in[p] = IF p \in parts /\ CanSettle(n, p)
                                   THEN outcome ELSE n.in[p]
      /\ m.legs = n.legs /\ m.next = n.next /\ m.parked = n.parked
  <2> HIDE DEF parts
  <2>1. /\ m = [n EXCEPT !.in = m.in]
        /\ \A p \in Part : m.in[p] = IF p \in parts /\ CanSettle(n, p)
                                     THEN outcome ELSE n.in[p]
    BY <1>1, <1>3, SettledFields
  <2> QED
    BY <2>1, <1>1 DEF Nodes
<1>7. \A id \in taken : id < m.next => m.in[m.legs[id].part] # "COMMITTED"
  <2> SUFFICES ASSUME NEW id \in taken, id < n.next
               PROVE  m.in[n.legs[id].part] # "COMMITTED"
    BY Zenon, <1>6
  <2>1. n.legs[id].part = n.link[id]
    BY <1>2, ForwardingConstants DEF Good, RowsGood
  <2>2. n.link[id] \in parts /\ n.link[id] \in Part /\ CanSettle(n, n.link[id])
    BY Zenon, <1>2
  <2> HIDE DEF taken, parts, m
  <2> QED
    BY <2>1, <2>2, <1>6
<1>8. ParkedGood(n) => ParkedGood(m)
  <2>0. \A p \in parts : \E id \in Id : n.row[id] = p
    BY Zenon, <1>2
  <2> HIDE DEF taken, parts, m
  <2>1. \A p \in n.parked : p \in Part /\ p \notin parts
    BY <1>1, <2>0 DEF Good, WaitsGood, Nodes
  <2> QED
    BY <2>1, <1>6 DEF ParkedGood
<1>9. SettledUpstream(n, ids, outcome) =
          IF taken = {} THEN n ELSE Forgotten(m, taken)
  BY DEF SettledUpstream
<1>10. taken \in SUBSET Id
  BY <1>2
<1> HIDE DEF taken, parts, m
<1>11. /\ Good(Forgotten(m, taken))
       /\ ParkedGood(m) => ParkedGood(Forgotten(m, taken))
  BY <1>5, <1>7, <1>10, ForgottenGood
<1> QED
  BY <1>8, <1>9, <1>11

\* What a settle upstream, and a pass of them, leaves alone.
Keeps(n, m) ==
    /\ m.inCh = n.inCh /\ m.outCh = n.outCh
    /\ m.legs = n.legs /\ m.next = n.next /\ m.preimage = n.preimage
    /\ m.parked = n.parked /\ m.deferred = n.deferred /\ m.repair = n.repair

\* Settling upstream leaves channels, legs and waiting parts alone.
LEMMA UpstreamKeeps ==
    ASSUME NEW n \in Nodes, NEW ids, NEW outcome
    PROVE  Keeps(n, SettledUpstream(n, ids, outcome))
<1> DEFINE taken == ids \cap Linked(n, {p \in Part : CanSettle(n, p)})
           m == Settled(n, {n.link[id] : id \in taken}, outcome)
<1>1. Keeps(n, m) /\ m = [n EXCEPT !.in = m.in]
  BY DEF Settled, Nodes, Keeps
<1>2. SettledUpstream(n, ids, outcome) =
          IF taken = {} THEN n ELSE Forgotten(m, taken)
  BY DEF SettledUpstream
<1> HIDE DEF m, taken
<1>3. Keeps(n, Forgotten(m, taken))
  BY <1>1 DEF Keeps, Forgotten, Nodes
<1> QED
  BY <1>2, <1>3 DEF Keeps

\* settleForwardsOwedUpstream.
LEMMA OwedGood ==
    ASSUME NEW n, Good(n), NEW parts
    PROVE  /\ Good(OwedPass(n, parts)) /\ Keeps(n, OwedPass(n, parts))
           /\ ParkedGood(n) => ParkedGood(OwedPass(n, parts))
<1> DEFINE failed == {id \in Linked(n, parts) : TerminallyFailed(n, id)}
           linked == Linked(n, parts)
<1>1. linked \in SUBSET Id /\ failed \in SUBSET Id
  BY DEF Linked
<1>2. \A id \in failed : id >= n.next \/ Dead(n.legs[id])
  BY <1>1, TerminalIsDead
<1>3. OwedPass(n, parts) = IF n.preimage
                           THEN SettledUpstream(n, linked, "FULFILLED")
                           ELSE SettledUpstream(n, failed, "FAILED")
  BY DEF OwedPass
<1>4. n \in Nodes
  BY DEF Good
<1> HIDE DEF failed, linked
<1>5. /\ Good(SettledUpstream(n, linked, "FULFILLED"))
      /\ ParkedGood(n) => ParkedGood(SettledUpstream(n, linked, "FULFILLED"))
  BY <1>1, UpstreamGood
<1>6. /\ Good(SettledUpstream(n, failed, "FAILED"))
      /\ ParkedGood(n) => ParkedGood(SettledUpstream(n, failed, "FAILED"))
  BY <1>1, <1>2, UpstreamGood
<1> QED
  BY <1>3, <1>4, <1>5, <1>6, UpstreamKeeps

\* drainForwardsAwaitingRemoval.
LEMMA HeldGood ==
    ASSUME NEW n, Good(n)
    PROVE  /\ Good(DrainHeld(n))
           /\ ParkedGood(n) => ParkedGood(DrainHeld(n))
<1> DEFINE failed == {id \in n.held : TerminallyFailed(n, id)}
<1>1. failed \in SUBSET Id
  BY DEF Good, Nodes
<1>2. \A id \in failed : id >= n.next \/ Dead(n.legs[id])
  BY <1>1, TerminalIsDead
<1> HIDE DEF failed
<1>3. /\ Good(SettledUpstream(n, failed, "FAILED"))
      /\ ParkedGood(n) => ParkedGood(SettledUpstream(n, failed, "FAILED"))
  BY <1>1, <1>2, UpstreamGood
<1> QED
  BY <1>3 DEF DrainHeld, failed

\* handleHtlcFailed.
LEMMA FailSeenGood ==
    ASSUME NEW n, Good(n), NEW id \in Id
    PROVE  /\ Good(FailSeen(n, id))
           /\ ParkedGood(n) => ParkedGood(FailSeen(n, id))
<1>1. CASE n.link[id] = None
  BY <1>1 DEF FailSeen
<1>2. CASE n.link[id] # None /\ TerminallyFailed(n, id)
  <2>1. id >= n.next \/ Dead(n.legs[id])
    BY <1>2, TerminalIsDead
  <2>2. {id} \in SUBSET Id
    OBVIOUS
  <2>3. /\ Good(SettledUpstream(n, {id}, "FAILED"))
        /\ ParkedGood(n) => ParkedGood(SettledUpstream(n, {id}, "FAILED"))
    BY <2>1, <2>2, UpstreamGood
  <2> QED
    BY <1>2, <2>3 DEF FailSeen
<1>3. CASE n.link[id] # None /\ ~TerminallyFailed(n, id)
  <2> DEFINE m == [n EXCEPT !.held = @ \cup {id}]
  <2>1. m = FailSeen(n, id)
    BY <1>3 DEF FailSeen
  <2>2. n \in Nodes /\ m \in Nodes
    BY DEF Good, Nodes
  <2>3. Keeps(n, m) /\ m.in = n.in /\ m.link = n.link /\ m.row = n.row
        /\ m.held = n.held \cup {id}
    BY <2>2 DEF Keeps, Nodes
  <2> HIDE DEF m
  <2>4. RowsGood(m)
    BY <1>3, <2>3 DEF Good, RowsGood, Keeps
  <2>5. LegsGood(m) /\ DebtsGood(m)
    BY <2>3, SameLegs, SameDebts DEF Good, Keeps
  <2>6. WaitsGood(m)
    BY <2>2, <2>3, SameWaits DEF Good, Keeps
  <2> QED
    BY <2>1, <2>2, <2>3, <2>4, <2>5, <2>6 DEF Good, ParkedGood, Keeps
<1> QED
  BY <1>1, <1>2, <1>3

\* _drainDeferredSettles.
LEMMA DeferredGood ==
    ASSUME NEW n, Good(n), NEW parts
    PROVE  /\ Good(DrainDeferred(n, parts))
           /\ ParkedGood(n) => ParkedGood(DrainDeferred(n, parts))
           /\ DrainDeferred(n, parts).inCh = n.inCh
           /\ DrainDeferred(n, parts).outCh = n.outCh
           /\ DrainDeferred(n, parts).legs = n.legs
           /\ DrainDeferred(n, parts).next = n.next
           /\ DrainDeferred(n, parts).parked = n.parked
           /\ \A p \in Part : p \notin n.deferred =>
                 DrainDeferred(n, parts).in[p] = n.in[p]
<1> DEFINE list == n.deferred \cap parts
           done == {p \in list : n.inCh[p] \in {"NORMAL", "CHAIN"}}
           k == [n EXCEPT !.deferred = @ \ done]
           a == Settled(n, done, "FAILED")
           m == Settled(k, done, "FAILED")
<1>1. DrainDeferred(n, parts) = m
  BY DEF DrainDeferred
<1>2. /\ n \in Nodes /\ done \in SUBSET n.deferred /\ done \in SUBSET Part
      /\ \A p \in done : n.inCh[p] \in {"NORMAL", "CHAIN"}
  BY DEF Good, Nodes
<1> HIDE DEF done
<1>3. k \in Nodes
  BY <1>2 DEF Nodes
<1>4. /\ k.in = n.in /\ k.inCh = n.inCh /\ k.outCh = n.outCh /\ k.legs = n.legs
      /\ k.next = n.next /\ k.link = n.link /\ k.row = n.row /\ k.held = n.held
      /\ k.preimage = n.preimage /\ k.parked = n.parked
      /\ k.deferred = n.deferred \ done /\ k.repair = n.repair
  BY <1>2 DEF Nodes
<1> HIDE DEF k
<1>5. \A id \in Id : /\ id < n.next /\ n.legs[id].part \in done
                     /\ CanSettle(n, n.legs[id].part)
                     => Dead(n.legs[id])
  BY <1>2 DEF Good, DebtsGood, CanSettle
<1>6. Good(a)
  BY <1>2, <1>5, SettledGood
<1>7. /\ a = [n EXCEPT !.in = a.in]
      /\ \A p \in Part : a.in[p] = IF p \in done /\ CanSettle(n, p)
                                   THEN "FAILED" ELSE n.in[p]
  BY <1>2, SettledFields
<1>8. /\ m \in Nodes /\ m = [k EXCEPT !.in = m.in]
      /\ \A p \in Part : m.in[p] = IF p \in done /\ CanSettle(k, p)
                                   THEN "FAILED" ELSE k.in[p]
  BY <1>2, <1>3, SettledFields
<1>9. /\ a.inCh = n.inCh /\ a.outCh = n.outCh /\ a.legs = n.legs
      /\ a.next = n.next /\ a.link = n.link /\ a.row = n.row /\ a.held = n.held
      /\ a.preimage = n.preimage /\ a.parked = n.parked
      /\ a.deferred = n.deferred /\ a.repair = n.repair
  BY <1>2, <1>7 DEF Nodes
<1>10. /\ m.inCh = n.inCh /\ m.outCh = n.outCh /\ m.legs = n.legs
       /\ m.next = n.next /\ m.link = n.link /\ m.row = n.row /\ m.held = n.held
       /\ m.preimage = n.preimage /\ m.parked = n.parked
       /\ m.deferred = n.deferred \ done /\ m.repair = n.repair
  BY <1>3, <1>4, <1>8 DEF Nodes
<1>11. \A p \in Part : m.in[p] = a.in[p]
  BY <1>4, <1>7, <1>8 DEF CanSettle
<1> HIDE DEF a, m
<1>12. LegsGood(m)
  BY <1>6, <1>9, <1>10 DEF Good, LegsGood
<1>13. RowsGood(m)
  BY <1>6, <1>9, <1>10 DEF Good, RowsGood
<1>14. DebtsGood(m)
  <2> SUFFICES ASSUME NEW id \in Id, id < n.next
               PROVE  LET p == n.legs[id].part IN
                      /\ m.in[p] # "NEW" /\ p \notin n.parked
                      /\ m.in[p] = "COMMITTED" =>
                            /\ n.row[id] = p
                            /\ \/ n.link[id] = p
                               \/ /\ Dead(n.legs[id])
                                  /\ \/ p \in n.deferred /\ p \notin done
                                     \/ n.inCh[p] = "CHAIN"
                            /\ p \in n.deferred => Dead(n.legs[id])
                      /\ m.in[p] = "FAILED" => Dead(n.legs[id])
    BY <1>10 DEF DebtsGood
  <2> DEFINE p == n.legs[id].part
  <2>1. p \in Part
    BY DEF Good, LegsGood
  <2>2. /\ a.in[p] # "NEW" /\ p \notin n.parked
        /\ a.in[p] = "COMMITTED" =>
              /\ n.row[id] = p
              /\ \/ n.link[id] = p
                 \/ Dead(n.legs[id]) /\ (p \in n.deferred \/ n.inCh[p] = "CHAIN")
              /\ p \in n.deferred => Dead(n.legs[id])
        /\ a.in[p] = "FAILED" => Dead(n.legs[id])
    <3>1. DebtsGood(a) /\ id < a.next
      BY <1>6, <1>9, <1>10 DEF Good
    <3>2. LET q == a.legs[id].part IN
          /\ a.in[q] # "NEW" /\ q \notin a.parked
          /\ a.in[q] = "COMMITTED" =>
                /\ a.row[id] = q
                /\ \/ a.link[id] = q
                   \/ Dead(a.legs[id]) /\ (q \in a.deferred \/ a.inCh[q] = "CHAIN")
                /\ q \in a.deferred => Dead(a.legs[id])
          /\ a.in[q] = "FAILED" => Dead(a.legs[id])
      BY <3>1 DEF DebtsGood
    <3> QED
      BY <1>9, <3>2
  <2> HIDE DEF p
  <2>3. p \in done /\ a.in[p] = "COMMITTED" => n.inCh[p] = "CHAIN"
    BY <1>2, <1>7, <2>1 DEF CanSettle
  <2> QED
    BY <1>11, <2>1, <2>2, <2>3 DEF p
<1>15. WaitsGood(m)
  <2>1. /\ n.parked \in SUBSET Part /\ n.deferred \in SUBSET Part
        /\ n.repair \in SUBSET Part
        /\ \A id \in Id : n.row[id] # None => n.row[id] \in Part
    BY <1>2 DEF Nodes
  <2> QED
    BY <1>6, <1>9, <1>10, <1>11, <2>1 DEF Good, WaitsGood
<1>16. \A p \in Part : p \notin n.deferred => m.in[p] = n.in[p]
  BY <1>2, <1>7, <1>11
<1>17. ParkedGood(n) => ParkedGood(m)
  BY <1>2, <1>10, <1>16 DEF ParkedGood, Good, WaitsGood, Nodes
<1> QED
  BY <1>1, <1>8, <1>10, <1>12, <1>13, <1>14, <1>15, <1>16, <1>17 DEF Good

\* Closing inbound channels.
LEMMA ClosedInGood ==
    ASSUME NEW n, Good(n), NEW parts
    PROVE  /\ Good(ClosedIn(n, parts))
           /\ ParkedGood(n) => ParkedGood(ClosedIn(n, parts))
           /\ ClosedIn(n, parts) = [n EXCEPT !.inCh = ClosedIn(n, parts).inCh]
           /\ \A p \in Part : ClosedIn(n, parts).inCh[p] =
                 IF p \in parts THEN "CHAIN" ELSE n.inCh[p]
<1> DEFINE m == ClosedIn(n, parts)
<1>1. n \in Nodes
  BY DEF Good
<1>2. m.inCh = [p \in Part |-> IF p \in parts THEN "CHAIN" ELSE n.inCh[p]]
  BY <1>1 DEF ClosedIn, Nodes
<1>3. m = [n EXCEPT !.inCh = m.inCh]
  BY <1>1, <1>2 DEF ClosedIn, Nodes
<1>4. m.inCh \in [Part -> {"NORMAL", "QUIESCENT", "DOWN", "CHAIN"}]
  BY <1>1, <1>2 DEF Nodes
<1>5. m \in Nodes
  BY <1>1, <1>3, <1>4 DEF Nodes
<1>6. /\ m.in = n.in /\ m.outCh = n.outCh /\ m.legs = n.legs
      /\ m.next = n.next /\ m.link = n.link /\ m.row = n.row /\ m.held = n.held
      /\ m.preimage = n.preimage /\ m.parked = n.parked
      /\ m.deferred = n.deferred /\ m.repair = n.repair
  BY <1>1, <1>3 DEF Nodes
<1>7. \A p \in Part : m.inCh[p] = IF p \in parts THEN "CHAIN" ELSE n.inCh[p]
  BY <1>2
<1> HIDE DEF m
<1>8. /\ LegsGood(m) /\ RowsGood(m)
      /\ DebtsGood(m)
  <2>1. \A id \in Id : id < n.next => n.legs[id].part \in Part
    BY DEF Good, LegsGood
  <2>2. DebtsGood(m)
    BY <1>6, <1>7, <2>1 DEF Good, DebtsGood
  <2> QED
    BY <1>6, <2>2 DEF Good, LegsGood, RowsGood
<1>9. WaitsGood(m)
  BY <1>1, <1>6, <1>7 DEF Good, WaitsGood, Nodes
<1>10. ParkedGood(n) => ParkedGood(m)
  BY <1>6 DEF ParkedGood
<1> QED
  BY <1>3, <1>5, <1>7, <1>8, <1>9, <1>10 DEF Good, m

\* Closing the outgoing channel, with outputs for legs it still has.
LEMMA ClosedOutGood ==
    ASSUME NEW n, Good(n), n.outCh # "CHAIN", NEW outputs,
           \A id \in Id : n.legs[id].state \in {"PAID", "REFUNDED"} =>
              id \notin outputs
    PROVE  /\ Good(ClosedOut(n, outputs))
           /\ ParkedGood(n) => ParkedGood(ClosedOut(n, outputs))
<1> DEFINE m == ClosedOut(n, outputs)
<1>1. n \in Nodes
  BY DEF Good
<1>2. m.legs = [id \in Id |->
                  IF id >= n.next THEN NoLeg
                  ELSE [n.legs[id] EXCEPT !.output =
                          IF id \in outputs THEN "open" ELSE "absent"]]
  BY <1>1 DEF ClosedOut, Nodes
<1>3. /\ m.in = n.in /\ m.inCh = n.inCh /\ m.outCh = "CHAIN"
      /\ m.next = n.next /\ m.link = n.link /\ m.row = n.row /\ m.held = n.held
      /\ m.preimage = n.preimage /\ m.parked = n.parked
      /\ m.deferred = n.deferred /\ m.repair = n.repair /\ m.turns = n.turns
  BY <1>1 DEF ClosedOut, Nodes
<1>4. \A id \in Id : n.legs[id] \in Legs
  BY <1>1 DEF Nodes
<1>5. \A id \in Id : m.legs[id] \in Legs
  <2> SUFFICES ASSUME NEW id \in Id PROVE m.legs[id] \in Legs
    OBVIOUS
  <2>1. CASE id >= n.next
    BY <2>1, <1>2, NoLegFields
  <2>2. CASE ~(id >= n.next)
    <3>1. m.legs[id] = [n.legs[id] EXCEPT !.output =
                          IF id \in outputs THEN "open" ELSE "absent"]
      BY <2>2, <1>2
    <3> QED
      BY <3>1, <1>4 DEF Legs
  <2> QED
    BY <2>1, <2>2
<1>6. m \in Nodes
  <2>1. m.legs \in [Id -> Legs]
    BY <1>2, <1>5
  <2>2. m = [n EXCEPT !.outCh = "CHAIN", !.legs = m.legs]
    BY <1>1, <1>2 DEF ClosedOut, Nodes
  <2> QED
    BY ZenonT(60), <1>1, <2>1, <2>2 DEF Nodes
<1>7. \A id \in Id :
        /\ m.legs[id].part = n.legs[id].part /\ m.legs[id].state = n.legs[id].state
        /\ id >= n.next => m.legs[id] = NoLeg
        /\ id < n.next => m.legs[id].output =
                            IF id \in outputs THEN "open" ELSE "absent"
  BY <1>1, <1>2, <1>4 DEF Good, LegsGood, Legs, Nodes, Id
<1> HIDE DEF m
<1>8. \A id \in Id : Dead(n.legs[id]) => Dead(m.legs[id])
  BY <1>7 DEF Dead, Good, LegsGood
<1>9. LegsGood(m)
  <2>1. \A i, j \in Id : m.legs[i].part = m.legs[j].part /\ i < m.next => i = j
    BY <1>3, <1>7 DEF Good, LegsGood
  <2> SUFFICES ASSUME NEW id \in Id
               PROVE  /\ id >= n.next => m.legs[id] = NoLeg
                      /\ id < n.next => /\ m.legs[id].part \in Part
                                        /\ m.legs[id].state # "UNUSED"
                      /\ Fulfilled(m.legs[id]) => n.preimage
                      /\ m.legs[id].state \in {"PAID", "REFUNDED"} =>
                            m.legs[id].output \in {"none", "absent"}
    BY <2>1, <1>3 DEF LegsGood
  <2>2. id < n.next \/ id >= n.next
    BY <1>1 DEF Nodes, Id
  <2> QED
    BY <2>2, <1>7, NoLegFields DEF Good, LegsGood, Fulfilled
<1>10. RowsGood(m)
  BY <1>3, <1>7 DEF Good, RowsGood
<1>11. DebtsGood(m)
  BY SMTT(60), Z3T(60), <1>3, <1>7, <1>8 DEF Good, DebtsGood
<1>12. WaitsGood(m)
  BY <1>3 DEF Good, WaitsGood
<1>13. ParkedGood(n) => ParkedGood(m)
  BY <1>3 DEF ParkedGood
<1> QED
  BY <1>6, <1>9, <1>10, <1>11, <1>12, <1>13 DEF Good, m

-----------------------------------------------------------------------------
(* The scans of a block.                                                    *)

\* A part whose linkages are all terminally failed has a dead leg, or none.
LEMMA FailedPartIsDead ==
    ASSUME NEW n, Good(n), NEW p \in Part, n.in[p] = "COMMITTED",
           \A id \in Linked(n, {p}) : TerminallyFailed(n, id),
           NEW i \in Id, i < n.next, n.legs[i].part = p
    PROVE  Dead(n.legs[i])
<1>1. n.link[i] = p \/ Dead(n.legs[i])
  BY DEF Good, DebtsGood
<1>2. CASE n.link[i] = p
  <2>1. TerminallyFailed(n, i)
    BY <1>2 DEF Linked
  <2>2. i >= n.next \/ Dead(n.legs[i])
    BY <2>1, TerminalIsDead
  <2>3. ~(i >= n.next)
    BY DEF Good, Nodes, Id
  <2> QED
    BY <2>2, <2>3
<1> QED
  BY <1>1, <1>2

\* scanExpiringHtlcs leaves parts alone that are far from their expiry, and
\* fails only parts whose channel is usable.
LEMMA ExpiringGood ==
    ASSUME NEW n, Good(n), NEW near \in [Part -> Far..Margin]
    PROVE  LET m == ScanExpiring(n, near) IN
           /\ Good(m)
           /\ m.outCh = n.outCh /\ m.legs = n.legs /\ m.next = n.next
           /\ m.parked = n.parked /\ m.deferred = n.deferred /\ m.repair = n.repair
           /\ \A p \in Part : near[p] = Far =>
                 m.in[p] = n.in[p] /\ m.inCh[p] = n.inCh[p]
           /\ \A p \in Part : m.in[p] # n.in[p] => m.inCh[p] = "NORMAL"
<1> DEFINE open == {p \in Part : n.inCh[p] # "CHAIN"}
           claims == {p \in open : /\ near[p] >= ClaimBuffer
                                   /\ \/ n.in[p] = "FULFILLED"
                                      \/ n.in[p] = "COMMITTED" /\ n.preimage}
           due == {p \in open \ claims : /\ near[p] = Margin
                                         /\ n.in[p] = "COMMITTED"
                                         /\ n.inCh[p] # "QUIESCENT"}
           unresolved == {p \in due : \E id \in Linked(n, {p}) :
                                           ~TerminallyFailed(n, id)}
           closing == claims \cup unresolved
           failing == due \ unresolved
           k == ClosedIn(n, closing)
           m == Settled(k, failing, "FAILED")
<1>1. m = ScanExpiring(n, near)
  BY DEF ScanExpiring
<1>2. \A p \in Part : near[p] = Far => p \notin closing /\ p \notin failing
  BY DEF Far, ClaimBuffer, Margin
<1>3. failing \in SUBSET Part /\ n \in Nodes
  BY DEF Good
<1>4. \A p \in failing : /\ n.in[p] = "COMMITTED"
                         /\ \A id \in Linked(n, {p}) : TerminallyFailed(n, id)
  OBVIOUS
<1> HIDE DEF closing, failing
<1>5. /\ Good(k) /\ k \in Nodes
      /\ k = [n EXCEPT !.inCh = k.inCh]
      /\ \A p \in Part : k.inCh[p] = IF p \in closing THEN "CHAIN" ELSE n.inCh[p]
  BY ClosedInGood DEF Good
<1>6. /\ k.in = n.in /\ k.outCh = n.outCh /\ k.legs = n.legs /\ k.next = n.next
      /\ k.parked = n.parked /\ k.deferred = n.deferred /\ k.repair = n.repair
  BY <1>3, <1>5 DEF Nodes
<1> HIDE DEF k
<1>7. ASSUME NEW id \in Id, id < k.next, k.legs[id].part \in failing
      PROVE  Dead(k.legs[id])
  BY Zenon, <1>3, <1>4, <1>6, <1>7, FailedPartIsDead
<1>8. Good(m)
  BY <1>3, <1>5, <1>7, SettledGood
<1>9. /\ m = [k EXCEPT !.in = m.in]
      /\ \A p \in Part : m.in[p] = IF p \in failing /\ CanSettle(k, p)
                                   THEN "FAILED" ELSE k.in[p]
  BY <1>3, <1>5, SettledFields
<1>10. /\ m.inCh = k.inCh /\ m.outCh = k.outCh /\ m.legs = k.legs
       /\ m.next = k.next /\ m.parked = k.parked
       /\ m.deferred = k.deferred /\ m.repair = k.repair
  BY <1>5, <1>9 DEF Nodes
<1> HIDE DEF m
<1>11. \A p \in Part : near[p] = Far =>
          m.in[p] = n.in[p] /\ m.inCh[p] = n.inCh[p]
  BY <1>2, <1>5, <1>6, <1>9, <1>10
<1>12. \A p \in Part : m.in[p] # n.in[p] => m.inCh[p] = "NORMAL"
  BY <1>6, <1>9, <1>10 DEF CanSettle
<1> QED
  BY <1>1, <1>6, <1>8, <1>10, <1>11, <1>12

\* A fail deferred for parts that are owed nothing.
LEMMA DeferGood ==
    ASSUME NEW n, Good(n), NEW parts \in SUBSET Part,
           \A p \in parts : /\ n.in[p] # "NEW"
                            /\ p \notin n.parked /\ p \notin n.repair,
           \A id \in Id : id < n.next /\ n.legs[id].part \in parts =>
                             Dead(n.legs[id])
    PROVE  LET m == [n EXCEPT !.deferred = @ \cup parts] IN
           Good(m) /\ (ParkedGood(n) => ParkedGood(m))
<1> DEFINE m == [n EXCEPT !.deferred = @ \cup parts]
<1>1. n \in Nodes /\ m \in Nodes
  BY DEF Good, Nodes
<1>2. /\ m.in = n.in /\ m.inCh = n.inCh /\ m.outCh = n.outCh /\ m.legs = n.legs
      /\ m.next = n.next /\ m.link = n.link /\ m.row = n.row /\ m.held = n.held
      /\ m.preimage = n.preimage /\ m.parked = n.parked
      /\ m.deferred = n.deferred \cup parts /\ m.repair = n.repair
  BY <1>1 DEF Nodes
<1> HIDE DEF m
<1>3. LegsGood(m) /\ RowsGood(m)
  BY <1>2 DEF Good, LegsGood, RowsGood
<1>4. DebtsGood(m)
  BY <1>2 DEF Good, DebtsGood
<1>5. WaitsGood(m)
  BY <1>2 DEF Good, WaitsGood
<1> QED
  BY <1>1, <1>2, <1>3, <1>4, <1>5 DEF Good, ParkedGood, m

\* Linkages of dead legs leaving memory.
LEMMA UnlinkedGood ==
    ASSUME NEW n, Good(n), NEW ids \in SUBSET Id,
           \A id \in ids : n.row[id] \notin n.repair,
           \A id \in ids : id < n.next =>
              LET p == n.legs[id].part IN
              /\ Dead(n.legs[id])
              /\ n.in[p] = "COMMITTED" => p \in n.deferred
    PROVE  /\ Good(Unlinked(n, ids))
           /\ ParkedGood(n) => ParkedGood(Unlinked(n, ids))
<1> DEFINE m == Unlinked(n, ids)
<1>1. n \in Nodes
  BY DEF Good
<1>2. /\ m.in = n.in /\ m.inCh = n.inCh /\ m.outCh = n.outCh /\ m.legs = n.legs
      /\ m.next = n.next /\ m.preimage = n.preimage /\ m.parked = n.parked
      /\ m.deferred = n.deferred /\ m.repair = n.repair /\ m.row = n.row
      /\ m.link = Without(n.link, ids) /\ m.held = n.held \ ids
  BY <1>1 DEF Unlinked, Nodes
<1>3. \A id \in Id : m.link[id] = IF id \in ids THEN None ELSE n.link[id]
  BY <1>2 DEF Without
<1>4. m \in Nodes
  <2>1. m.link \in [Id -> Part \cup {None}] /\ m.held \in SUBSET Id
    BY <1>1, <1>2 DEF Without, Nodes
  <2>2. m = [n EXCEPT !.link = m.link, !.held = m.held]
    BY <1>1, <1>2 DEF Unlinked, Nodes
  <2> QED
    BY ZenonT(60), <1>1, <2>1, <2>2 DEF Nodes
<1> HIDE DEF m
<1>5. LegsGood(m)
  BY <1>2 DEF Good, LegsGood
<1>6. RowsGood(m)
  BY <1>2, <1>3 DEF Good, RowsGood
<1>7. DebtsGood(m)
  BY SMTT(60), Z3T(60), <1>2, <1>3 DEF Good, DebtsGood
<1>8. WaitsGood(m)
  BY <1>2, <1>3 DEF Good, WaitsGood
<1> QED
  BY <1>2, <1>4, <1>5, <1>6, <1>7, <1>8 DEF Good, ParkedGood, m

\* scanForwardTimeouts.
LEMMA ForwardGood ==
    ASSUME NEW n, Good(n), NEW near \in [Part -> Far..Margin]
    PROVE  /\ Good(ScanForward(n, near))
           /\ ParkedGood(n) => ParkedGood(ScanForward(n, near))
<1> DEFINE due == {p \in Part : /\ near[p] >= DoubleMargin
                                /\ n.inCh[p] \in {"NORMAL", "QUIESCENT"}
                                /\ n.in[p] = "COMMITTED"
                                /\ Linked(n, {p}) # {}}
           failed == {p \in due :
                        \A id \in Linked(n, {p}) : TerminallyFailed(n, id)}
           quiescing == {p \in failed : n.inCh[p] = "QUIESCENT"}
           ids == Linked(n, failed)
           a == Settled(n, failed, "FAILED")
           b == [a EXCEPT !.deferred = @ \cup quiescing]
           c == Unlinked(b, ids)
<1>1. ScanForward(n, near) = ClosedIn(c, due \ failed)
  BY DEF ScanForward
<1>2. n \in Nodes /\ failed \in SUBSET Part /\ quiescing \in SUBSET failed
      /\ ids \in SUBSET Id
  BY DEF Good, Linked
<1>3. \A p \in failed : /\ n.in[p] = "COMMITTED"
                        /\ n.inCh[p] \in {"NORMAL", "QUIESCENT"}
                        /\ \A id \in Linked(n, {p}) : TerminallyFailed(n, id)
  BY Zenon
<1>4. \A p \in failed : n.inCh[p] = "QUIESCENT" <=> p \in quiescing
  OBVIOUS
<1>5. \A p \in failed : \E id \in Id : n.link[id] = p
  <2> SUFFICES ASSUME NEW p \in due PROVE \E id \in Id : n.link[id] = p
    OBVIOUS
  <2>1. Linked(n, {p}) # {}
    OBVIOUS
  <2> QED
    BY <2>1 DEF Linked
<1>6. \A id \in ids : n.link[id] \in failed
  BY DEF Linked
<1> HIDE DEF due, failed, quiescing, ids
<1>7. \A id \in Id : id < n.next /\ n.legs[id].part \in failed => Dead(n.legs[id])
  BY Zenon, <1>2, <1>3, FailedPartIsDead
<1>8. \A p \in failed : p \notin n.parked /\ p \notin n.repair
  <2> SUFFICES ASSUME NEW p \in failed PROVE p \notin n.parked /\ p \notin n.repair
    OBVIOUS
  <2>1. PICK id \in Id : n.link[id] = p
    BY <1>5
  <2>2. n.row[id] = p
    BY <1>2, <2>1, ForwardingConstants DEF Good, RowsGood
  <2>3. p \notin n.parked
    BY <2>2 DEF Good, WaitsGood
  <2>4. p \notin n.repair
    BY Zenon, <1>3 DEF Good, WaitsGood
  <2> QED
    BY <2>3, <2>4
<1>9. Good(a)
  BY <1>2, <1>7, SettledGood
<1>10. /\ a \in Nodes /\ a = [n EXCEPT !.in = a.in]
       /\ \A p \in Part : a.in[p] = IF p \in failed /\ CanSettle(n, p)
                                    THEN "FAILED" ELSE n.in[p]
  BY <1>2, SettledFields
<1>11. /\ a.inCh = n.inCh /\ a.legs = n.legs /\ a.next = n.next
       /\ a.row = n.row /\ a.link = n.link /\ a.parked = n.parked
       /\ a.repair = n.repair
  BY <1>2, <1>10 DEF Nodes
<1> HIDE DEF a
<1>12. ParkedGood(n) => ParkedGood(a)
  BY <1>2, <1>8, <1>10, <1>11 DEF ParkedGood, Nodes
<1>13. Good(b) /\ (ParkedGood(a) => ParkedGood(b))
  <2>1. \A p \in quiescing : /\ a.in[p] # "NEW"
                             /\ p \notin a.parked /\ p \notin a.repair
    BY Zenon, <1>2, <1>3, <1>8, <1>10, <1>11
  <2>2. quiescing \in SUBSET Part
    BY <1>2
  <2>3. \A id \in Id : id < a.next /\ a.legs[id].part \in quiescing =>
                          Dead(a.legs[id])
    BY <1>2, <1>7, <1>11
  <2> QED
    BY Zenon, <1>9, <2>1, <2>2, <2>3, DeferGood
<1>14. /\ b.legs = n.legs /\ b.next = n.next /\ b.row = n.row /\ b.link = n.link
       /\ b.repair = n.repair /\ b.in = a.in /\ quiescing \subseteq b.deferred
  BY <1>10, <1>11 DEF Nodes
<1> HIDE DEF b
<1>15. Good(c) /\ (ParkedGood(b) => ParkedGood(c))
  <2>1. \A id \in ids : n.row[id] = n.link[id] /\ n.row[id] \in failed
    BY <1>2, <1>6, ForwardingConstants DEF Good, RowsGood
  <2>2. \A id \in ids : id < n.next => n.legs[id].part = n.row[id]
    BY <1>2, <2>1, ForwardingConstants DEF Good, RowsGood
  <2>3. \A p \in failed : b.in[p] = "COMMITTED" => p \in b.deferred
    BY Zenon, <1>2, <1>3, <1>4, <1>10, <1>14 DEF CanSettle
  <2>4. \A id \in ids : id < b.next =>
            LET p == b.legs[id].part IN
            /\ Dead(b.legs[id])
            /\ b.in[p] = "COMMITTED" => p \in b.deferred
    BY <1>2, <1>7, <1>14, <2>1, <2>2, <2>3
  <2>5. \A id \in ids : b.row[id] \notin b.repair
    BY <1>8, <1>14, <2>1
  <2> QED
    BY <1>2, <1>13, <2>4, <2>5, UnlinkedGood
<1> HIDE DEF c
<1> QED
  BY <1>1, <1>12, <1>13, <1>15, ClosedInGood

\* scanExpiringOfferedHtlcs.
LEMMA OfferedGood ==
    ASSUME NEW n, Good(n), NEW expired, NEW outputs,
           \A id \in Id : n.legs[id].state \in {"PAID", "REFUNDED"} =>
              id \notin outputs
    PROVE  /\ Good(ScanOffered(n, expired, outputs))
           /\ ParkedGood(n) => ParkedGood(ScanOffered(n, expired, outputs))
BY ClosedOutGood DEF ScanOffered

-----------------------------------------------------------------------------
(* Dispatching.                                                             *)

\* An order names distinct parts and fits the ids that are left.
LEMMA OrderFacts ==
    ASSUME NEW n \in Nodes, NEW parts, NEW order \in Orders(n, parts)
    PROVE  \E k \in Nat :
              /\ DOMAIN order = 1..k /\ Len(order) = k
              /\ n.next + k \in Id
              /\ \A i \in 1..k : order[i] \in parts
              /\ \A i, j \in 1..k : order[i] = order[j] => i = j
<1>1. PICK k \in IF n.outCh = "NORMAL" THEN 0..(MaxAdds + 1 - n.next) ELSE {0} :
          order \in Injection(1..k, parts)
  BY DEF Orders
<1>2. n.next \in Nat /\ n.next >= 1 /\ n.next <= MaxAdds + 1
  BY ForwardingConstants DEF Nodes, Id
<1>3. k \in Nat /\ n.next + k \in Id
  BY <1>1, <1>2, ForwardingConstants DEF Id
<1>4. /\ order \in [1..k -> parts]
      /\ \A i, j \in 1..k : order[i] = order[j] => i = j
  BY <1>1 DEF Injection, IsInjective
<1>5. Len(order) = k /\ DOMAIN order = 1..k
  BY <1>3, <1>4
<1> QED
  BY <1>3, <1>4, <1>5

\* Parts that have arrived, wait for nothing and were not forwarded.
Fresh(n, parts) ==
    \A p \in parts : /\ p \in Part /\ n.in[p] # "NEW"
                     /\ p \notin n.parked /\ p \notin n.deferred /\ p \notin n.repair
                     /\ \A id \in Id : n.legs[id].part # p

\* What forwarding and failing leave alone.
Stays(n, m) ==
    /\ m.inCh = n.inCh /\ m.outCh = n.outCh /\ m.preimage = n.preimage
    /\ m.parked = n.parked /\ m.deferred = n.deferred /\ m.repair = n.repair
    /\ \A id \in Id : m.legs[id] = n.legs[id] \/ m.legs[id].state = "ADDED"

\* forwardHtlcOnto.
LEMMA ForwardedGood ==
    ASSUME NEW n, Good(n), NEW parts, Fresh(n, parts),
           NEW order \in Orders(n, parts),
           \A p \in Range(order) : n.in[p] # "FAILED"
    PROVE  LET m == Forwarded(n, order) IN
           /\ Good(m) /\ Stays(n, m) /\ m.in = n.in
           /\ Fresh(m, parts \ Range(order))
<1> DEFINE m == Forwarded(n, order)
<1>1. n \in Nodes
  BY DEF Good
<1>2. PICK k \in Nat :
          /\ DOMAIN order = 1..k /\ Len(order) = k
          /\ n.next + k \in Id
          /\ \A i \in 1..k : order[i] \in parts
          /\ \A i, j \in 1..k : order[i] = order[j] => i = j
  BY <1>1, OrderFacts
<1> DEFINE new(id) == n.next <= id /\ id < n.next + k
           list(f) == [id \in Id |-> IF Places(n, order, id)
                                     THEN Placed(n, order, id) ELSE f[id]]
           legs == [id \in Id |-> IF Places(n, order, id)
                                  THEN NewLeg(Placed(n, order, id)) ELSE n.legs[id]]
<1>3. n.next \in Int /\ k \in Int /\ \A id \in Id : id \in Int
  BY <1>1, <1>2 DEF Nodes, Id
<1>4. \A id \in Id : Places(n, order, id) <=> new(id)
  BY <1>2, <1>3 DEF Places
<1>5. \A id \in Id : new(id) => id - n.next + 1 \in 1..k
  BY <1>3
<1>6. /\ m.link = list(n.link) /\ m.row = list(n.row) /\ m.legs = legs
      /\ m.next = n.next + k
      /\ m.in = n.in /\ m.inCh = n.inCh /\ m.outCh = n.outCh
      /\ m.held = n.held /\ m.preimage = n.preimage /\ m.parked = n.parked
      /\ m.deferred = n.deferred /\ m.repair = n.repair
      /\ m = [n EXCEPT !.link = m.link, !.row = m.row, !.legs = m.legs,
                       !.next = m.next]
  BY <1>1, <1>2 DEF Forwarded, Nodes
<1>7. \A id \in Id :
        /\ new(id) => /\ Placed(n, order, id) \in parts
                      /\ Placed(n, order, id) \in Range(order)
                      /\ m.link[id] = Placed(n, order, id)
                      /\ m.row[id] = Placed(n, order, id)
                      /\ m.legs[id] = NewLeg(Placed(n, order, id))
        /\ ~new(id) => /\ m.link[id] = n.link[id] /\ m.row[id] = n.row[id]
                       /\ m.legs[id] = n.legs[id]
  <2> SUFFICES ASSUME NEW id \in Id
               PROVE  /\ new(id) => /\ Placed(n, order, id) \in parts
                                    /\ Placed(n, order, id) \in Range(order)
                                    /\ m.link[id] = Placed(n, order, id)
                                    /\ m.row[id] = Placed(n, order, id)
                                    /\ m.legs[id] = NewLeg(Placed(n, order, id))
                      /\ ~new(id) => /\ m.link[id] = n.link[id]
                                     /\ m.row[id] = n.row[id]
                                     /\ m.legs[id] = n.legs[id]
    OBVIOUS
  <2>1. /\ m.link[id] = IF new(id) THEN Placed(n, order, id) ELSE n.link[id]
        /\ m.row[id] = IF new(id) THEN Placed(n, order, id) ELSE n.row[id]
        /\ m.legs[id] = IF new(id) THEN NewLeg(Placed(n, order, id)) ELSE n.legs[id]
    <3> HIDE DEF new
    <3> QED
      BY <1>4, <1>6
  <2>2. new(id) => /\ Placed(n, order, id) \in parts
                   /\ Placed(n, order, id) \in Range(order)
    <3> SUFFICES ASSUME new(id)
                 PROVE  /\ Placed(n, order, id) \in parts
                        /\ Placed(n, order, id) \in Range(order)
      OBVIOUS
    <3>1. id - n.next + 1 \in 1..k
      BY <1>5
    <3> HIDE DEF new
    <3> QED
      BY <3>1, <1>2 DEF Placed, Range
  <2> HIDE DEF new
  <2> QED
    BY <2>1, <2>2
<1>8. ASSUME NEW i \in Id, NEW j \in Id, new(i), new(j),
             Placed(n, order, i) = Placed(n, order, j)
      PROVE  i = j
  <2>1. i - n.next + 1 = j - n.next + 1
    BY <1>2, <1>5, <1>8 DEF Placed
  <2> QED
    BY <2>1, <1>3
<1>9. \A p \in parts : /\ p \in Part /\ n.in[p] # "NEW"
                       /\ p \notin n.parked /\ p \notin n.deferred
                       /\ p \notin n.repair
                       /\ \A id \in Id : n.legs[id].part # p
  BY DEF Fresh
<1>10. \A p : /\ NewLeg(p).part = p /\ NewLeg(p).state = "ADDED"
              /\ NewLeg(p).output = "none" /\ (p \in Part => NewLeg(p) \in Legs)
  BY DEF NewLeg, Legs
<1>11. m \in Nodes
  <2>1. /\ m.link \in [Id -> Part \cup {None}] /\ m.row \in [Id -> Part \cup {None}]
        /\ m.legs \in [Id -> Legs]
    <3>1. \A id \in Id : /\ m.link[id] \in Part \cup {None}
                         /\ m.row[id] \in Part \cup {None}
                         /\ m.legs[id] \in Legs
      BY <1>1, <1>7, <1>9, <1>10 DEF Nodes
    <3> QED
      BY <3>1, <1>6
  <2>2. m.next \in Id
    BY <1>2, <1>6
  <2> QED
    BY Zenon, <1>1, <1>6, <2>1, <2>2 DEF Nodes
<1>12. \A id \in Id : m.legs[id] = n.legs[id] \/ m.legs[id].state = "ADDED"
  BY <1>7, <1>10
<1> HIDE DEF m, legs, list
<1>13. LegsGood(m)
  <2>1. \A id \in Id :
          /\ id >= m.next => m.legs[id] = NoLeg
          /\ id < m.next => m.legs[id].part \in Part /\ m.legs[id].state # "UNUSED"
    BY <1>3, <1>6, <1>7, <1>9, <1>10 DEF Good, LegsGood
  <2>2. \A id \in Id :
          /\ Fulfilled(m.legs[id]) => m.preimage
          /\ m.outCh # "CHAIN" => m.legs[id].output = "none"
          /\ m.legs[id].state \in {"PAID", "REFUNDED"} =>
                m.legs[id].output \in {"none", "absent"}
    <3> SUFFICES ASSUME NEW id \in Id
                 PROVE  /\ Fulfilled(m.legs[id]) => m.preimage
                        /\ m.outCh # "CHAIN" => m.legs[id].output = "none"
                        /\ m.legs[id].state \in {"PAID", "REFUNDED"} =>
                              m.legs[id].output \in {"none", "absent"}
      OBVIOUS
    <3>1. CASE new(id)
      BY <3>1, <1>6, <1>7, <1>10 DEF Fulfilled
    <3>2. CASE ~new(id)
      BY <3>2, <1>6, <1>7 DEF Good, LegsGood
    <3> QED
      BY <3>1, <3>2
  <2>3. ASSUME NEW i \in Id, NEW j \in Id,
               m.legs[i].part = m.legs[j].part, i < m.next
        PROVE  i = j
    <3>1. CASE new(i) /\ new(j)
      BY <3>1, <2>3, <1>7, <1>8, <1>10
    <3>2. CASE new(i) /\ ~new(j)
      BY <3>2, <2>3, <1>7, <1>9, <1>10
    <3>3. CASE ~new(i) /\ new(j)
      BY <3>3, <2>3, <1>7, <1>9, <1>10
    <3>4. CASE ~new(i) /\ ~new(j)
      <4>1. i < n.next
        BY <3>4, <2>3, <1>3, <1>6
      <4> QED
        BY SMTT(60), Z3T(60), <3>4, <4>1, <2>3, <1>7 DEF Good, LegsGood
    <3> QED
      BY <3>1, <3>2, <3>3, <3>4
  <2> QED
    BY <2>1, <2>2, <2>3 DEF LegsGood
<1>14. RowsGood(m)
  <2> SUFFICES ASSUME NEW id \in Id
               PROVE  /\ m.link[id] \in {None, m.row[id]}
                      /\ id \in m.held => m.link[id] # None
                      /\ id > m.next => m.row[id] = None
                      /\ m.row[id] # None /\ id < m.next =>
                            m.legs[id].part = m.row[id]
                      /\ m.row[id] # None /\ id = m.next =>
                            \A j \in Id : m.legs[j].part # m.row[id]
    BY DEF RowsGood
  <2>1. CASE new(id)
    BY <2>1, <1>3, <1>6, <1>7, <1>9, <1>10, ForwardingConstants
  <2>2. CASE ~new(id) /\ k = 0
    BY <2>2, <1>3, <1>6, <1>7 DEF Good, RowsGood
  <2>3. CASE ~new(id) /\ k # 0
    BY <2>3, <1>3, <1>6, <1>7 DEF Good, RowsGood
  <2> QED
    BY <2>1, <2>2, <2>3
<1>15. DebtsGood(m)
  <2> SUFFICES ASSUME NEW id \in Id, id < m.next
               PROVE  LET p == m.legs[id].part IN
                      /\ m.in[p] # "NEW" /\ p \notin m.parked
                      /\ m.in[p] = "COMMITTED" =>
                            /\ m.row[id] = p
                            /\ \/ m.link[id] = p
                               \/ /\ Dead(m.legs[id])
                                  /\ p \in m.deferred \/ m.inCh[p] = "CHAIN"
                            /\ p \in m.deferred => Dead(m.legs[id])
                      /\ m.in[p] = "FAILED" => Dead(m.legs[id])
    BY DEF DebtsGood
  <2>1. CASE new(id)
    BY <2>1, <1>6, <1>7, <1>9, <1>10
  <2>2. CASE ~new(id)
    <3>1. id < n.next
      BY <2>2, <1>3, <1>6
    <3> QED
      BY <2>2, <3>1, <1>6, <1>7 DEF Good, DebtsGood
  <2> QED
    BY <2>1, <2>2
<1>16. WaitsGood(m)
  <2>1. \A id \in Id : m.row[id] \in parts \/ m.row[id] = n.row[id]
    BY <1>7
  <2>2. \A id \in Id : m.row[id] # None => m.in[m.row[id]] # "NEW"
    BY <1>6, <1>9, <2>1 DEF Good, WaitsGood
  <2>3. \A p \in m.repair : \A id \in Id : m.row[id] = p => m.link[id] = p
    BY <1>6, <1>7 DEF Good, WaitsGood
  <2> QED
    BY <1>6, <1>9, <2>1, <2>2, <2>3 DEF Good, WaitsGood
<1>17. Fresh(m, parts \ Range(order))
  <2>1. \A p \in parts \ Range(order) : \A id \in Id : m.legs[id].part # p
    BY <1>7, <1>9, <1>10
  <2> QED
    BY <2>1, <1>6, <1>9 DEF Fresh
<1> QED
  BY <1>6, <1>11, <1>12, <1>13, <1>14, <1>15, <1>16, <1>17 DEF Good, Stays, m

\* An order over some parts is one over more, from a record that agrees.
LEMMA OrdersGrow ==
    ASSUME NEW n, NEW m, m.outCh = n.outCh, m.next = n.next,
           NEW parts, NEW sub \in SUBSET parts, NEW order \in Orders(n, sub)
    PROVE  order \in Orders(m, parts) /\ \A p \in Range(order) : p \in sub
<1>1. PICK k \in IF n.outCh = "NORMAL" THEN 0..(MaxAdds + 1 - n.next) ELSE {0} :
          order \in Injection(1..k, sub)
  BY DEF Orders
<1>2. order \in [1..k -> sub] /\ IsInjective(order)
  BY <1>1 DEF Injection
<1>3. order \in [1..k -> parts]
  BY <1>2
<1>4. order \in Injection(1..k, parts)
  BY <1>2, <1>3 DEF Injection
<1> QED
  BY <1>1, <1>2, <1>4 DEF Orders, Range

\* handleIncomingHtlc.
LEMMA DispatchedGood ==
    ASSUME NEW n, Good(n), NEW parts, Fresh(n, parts),
           NEW order \in Orders(n, parts), NEW refused,
           \A p \in Range(order) : n.in[p] # "FAILED"
    PROVE  LET m == Dispatched(n, parts, order, refused) IN
           /\ Good(m) /\ Stays(n, m)
           /\ \A p \in Part : p \notin parts => m.in[p] = n.in[p]
<1> DEFINE a == IF order = << >> THEN n ELSE Forwarded(n, order)
           b == IF refused /\ parts # Range(order) THEN Forgotten(a, {a.next}) ELSE a
           rest == parts \ Range(order)
           m == Settled(b, rest, "FAILED")
<1>1. m = Dispatched(n, parts, order, refused)
  BY DEF Dispatched
<1>2. /\ Good(a) /\ Stays(n, a) /\ a.in = n.in /\ Fresh(a, rest)
  <2>1. CASE order = << >>
    BY <2>1 DEF Stays, Fresh
  <2>2. CASE order # << >>
    BY <2>2, ForwardedGood
  <2> QED
    BY <2>1, <2>2
<1> HIDE DEF a
<1>3. /\ Good(b) /\ Stays(n, b) /\ b.in = n.in /\ Fresh(b, rest)
  <2> DEFINE c == Forgotten(a, {a.next})
  <2>1. a \in Nodes /\ {a.next} \in SUBSET Id
    BY <1>2 DEF Good, Nodes
  <2>2. \A id \in {a.next} : ~(id < a.next)
    BY <2>1 DEF Nodes, Id
  <2>3. Good(c)
    BY <1>2, <2>1, <2>2, ForgottenGood
  <2>4. /\ c.in = a.in /\ c.inCh = a.inCh /\ c.outCh = a.outCh /\ c.legs = a.legs
        /\ c.preimage = a.preimage /\ c.parked = a.parked
        /\ c.deferred = a.deferred /\ c.repair = a.repair
    BY <2>1 DEF Forgotten, Nodes
  <2> HIDE DEF c
  <2>5. Stays(n, c) /\ c.in = n.in /\ Fresh(c, rest)
    BY <1>2, <2>4 DEF Stays, Fresh
  <2> QED
    BY <1>2, <2>3, <2>5 DEF c
<1> HIDE DEF b
<1>4. rest \in SUBSET Part /\ b \in Nodes
  BY <1>3 DEF Fresh, Good
<1>5. \A id \in Id : b.legs[id].part \notin rest
  BY <1>3 DEF Fresh
<1> HIDE DEF rest
<1>6. Good(m)
  BY <1>3, <1>4, <1>5, SettledGood
<1>7. /\ m = [b EXCEPT !.in = m.in]
      /\ \A p \in Part : p \notin rest => m.in[p] = b.in[p]
  BY <1>4, SettledFields
<1>8. /\ m.inCh = b.inCh /\ m.outCh = b.outCh /\ m.preimage = b.preimage
      /\ m.parked = b.parked /\ m.deferred = b.deferred /\ m.repair = b.repair
      /\ m.legs = b.legs
  BY <1>4, <1>7 DEF Nodes
<1> HIDE DEF m
<1>9. Stays(n, m)
  BY <1>3, <1>8 DEF Stays
<1>10. \A p \in Part : p \notin parts => m.in[p] = n.in[p]
  BY <1>3, <1>7 DEF rest
<1> QED
  BY <1>1, <1>6, <1>9, <1>10

\* drainParkedQuiescentHtlcs: afterwards no failed part is parked, if those
\* that are were on usable channels.
LEMMA DrainParkedGood ==
    ASSUME NEW n, Good(n), NEW parts \in SUBSET Part,
           NEW order \in Orders(n, Drainable(n, parts)), NEW refused,
           \A p \in Range(order) : n.in[p] # "FAILED"
    PROVE  LET m == DrainParked(n, parts, order, refused) IN
           /\ Good(m)
           /\ \A id \in Id : m.legs[id] = n.legs[id] \/ m.legs[id].state = "ADDED"
           /\ m.inCh = n.inCh /\ m.deferred = n.deferred /\ m.repair = n.repair
           /\ (\A p \in n.parked : n.in[p] = "FAILED" =>
                                      p \in parts /\ n.inCh[p] = "NORMAL")
                 => ParkedGood(m)
<1> DEFINE drained == Drainable(n, parts)
           closed == {p \in n.parked \cap parts : n.inCh[p] = "CHAIN"}
           gone == closed \cup drained
           k == [n EXCEPT !.parked = @ \ gone]
           m == Dispatched(k, drained, order, refused)
<1>1. m = DrainParked(n, parts, order, refused)
  BY DEF DrainParked
<1>2. n \in Nodes /\ \A p \in drained : p \in n.parked /\ p \in Part /\ p \in gone
  BY DEF Good, Drainable, Nodes
<1>3. \A p \in n.parked : p \in parts /\ n.inCh[p] = "NORMAL" => p \in gone
  BY DEF Drainable
<1> HIDE DEF drained, gone
<1>4. /\ k.in = n.in /\ k.inCh = n.inCh /\ k.outCh = n.outCh /\ k.legs = n.legs
      /\ k.next = n.next /\ k.link = n.link /\ k.row = n.row /\ k.held = n.held
      /\ k.preimage = n.preimage /\ k.parked = n.parked \ gone
      /\ k.deferred = n.deferred /\ k.repair = n.repair /\ k \in Nodes
  BY <1>2 DEF Nodes
<1> HIDE DEF k
<1>5. Good(k)
  <2>1. LegsGood(k) /\ RowsGood(k)
    BY <1>4, SameLegs, SameRows DEF Good
  <2>2. DebtsGood(k)
    BY <1>4, SameDebts DEF Good
  <2>3. WaitsGood(k)
    BY <1>2, <1>4, SameWaits DEF Good
  <2> QED
    BY <1>4, <2>1, <2>2, <2>3 DEF Good
<1>6. Fresh(k, drained)
  <2>1. ASSUME NEW p \in drained, NEW id \in Id
        PROVE  n.legs[id].part # p
    <3>1. CASE id < n.next
      BY <1>2, <2>1, <3>1 DEF Good, DebtsGood
    <3>2. CASE id >= n.next
      BY <1>2, <2>1, <3>2, NoLegFields, ForwardingConstants DEF Good, LegsGood
    <3> QED
      BY <3>1, <3>2, <1>2 DEF Nodes, Id
  <2>2. \A p \in drained : n.in[p] # "NEW" /\ p \notin n.deferred /\ p \notin n.repair
    BY <1>2 DEF Good, WaitsGood
  <2> QED
    BY <1>2, <1>4, <2>1, <2>2 DEF Fresh
<1>7. order \in Orders(k, drained)
  BY <1>4, OrdersGrow DEF drained
<1>8. /\ Good(m) /\ Stays(k, m)
      /\ \A p \in Part : p \notin drained => m.in[p] = k.in[p]
  BY <1>4, <1>5, <1>6, <1>7, DispatchedGood
<1> HIDE DEF m
<1>9. ASSUME \A p \in n.parked : n.in[p] = "FAILED" =>
                                    p \in parts /\ n.inCh[p] = "NORMAL"
      PROVE  ParkedGood(m)
  <2> SUFFICES ASSUME NEW p \in m.parked PROVE m.in[p] # "FAILED"
    BY DEF ParkedGood
  <2>1. p \in n.parked /\ p \notin gone /\ p \notin drained /\ p \in Part
    BY <1>2, <1>4, <1>8 DEF Stays, Nodes
  <2> QED
    BY <1>3, <1>4, <1>8, <1>9, <2>1
<1> QED
  BY <1>1, <1>4, <1>8, <1>9 DEF Stays

\* The work of a block.
LEMMA BlockGood ==
    ASSUME NEW n, Good(n), ParkedGood(n), NEW near \in [Part -> Far..Margin],
           NEW expired, NEW refused, NEW outputs,
           NEW order \in Orders(n, {p \in Drainable(n, Part) : near[p] = Far}),
           \A id \in Id : n.legs[id].state \in {"PAID", "REFUNDED"} =>
              id \notin outputs
    PROVE  LET m == BlockWork(n, near, expired, order, refused, outputs) IN
           Good(m) /\ ParkedGood(m)
<1> DEFINE far == {p \in Drainable(n, Part) : near[p] = Far}
           a == DrainDeferred(n, Part)
           b == ScanExpiring(a, near)
           c == DrainParked(b, Part, order, refused)
           d == OwedPass(c, Part)
           e == ScanOffered(d, expired, outputs)
<1>1. BlockWork(n, near, expired, order, refused, outputs) = ScanForward(e, near)
  BY DEF BlockWork
<1>2. \A p \in far : /\ p \in n.parked /\ p \in Part /\ p \notin n.deferred
                     /\ near[p] = Far /\ n.inCh[p] = "NORMAL"
  BY DEF Drainable, Good, WaitsGood
<1> HIDE DEF far
<1>3. /\ Good(a) /\ ParkedGood(a) /\ a.inCh = n.inCh /\ a.outCh = n.outCh
      /\ a.legs = n.legs /\ a.next = n.next /\ a.parked = n.parked
      /\ \A p \in Part : p \notin n.deferred => a.in[p] = n.in[p]
  BY DeferredGood
<1> HIDE DEF a
<1>4. /\ Good(b) /\ b.outCh = n.outCh /\ b.legs = n.legs /\ b.next = n.next
      /\ b.parked = n.parked
      /\ \A p \in Part : near[p] = Far =>
            b.in[p] = a.in[p] /\ b.inCh[p] = n.inCh[p]
      /\ \A p \in Part : b.in[p] # a.in[p] => b.inCh[p] = "NORMAL"
  BY SMTT(60), Z3T(60), <1>3, ExpiringGood
<1> HIDE DEF b
<1>5. far \in SUBSET Drainable(b, Part)
  BY <1>2, <1>4 DEF Drainable
<1>6. /\ order \in Orders(b, Drainable(b, Part))
      /\ \A p \in Range(order) : p \in far
  BY <1>4, <1>5, OrdersGrow DEF far
<1>7. \A p \in Range(order) : b.in[p] # "FAILED"
  BY <1>2, <1>3, <1>4, <1>6 DEF ParkedGood
<1>8. \A p \in b.parked : b.in[p] = "FAILED" => p \in Part /\ b.inCh[p] = "NORMAL"
  BY <1>3, <1>4 DEF ParkedGood, Good, Nodes
<1>9. /\ Good(c) /\ ParkedGood(c)
      /\ \A id \in Id : c.legs[id] = b.legs[id] \/ c.legs[id].state = "ADDED"
  <2>1. Good(b)
    BY <1>4
  <2> QED
    BY <2>1, <1>6, <1>7, <1>8, DrainParkedGood
<1> HIDE DEF c
<1>10. Good(d) /\ ParkedGood(d) /\ d.legs = c.legs
  BY <1>9, OwedGood DEF Keeps
<1> HIDE DEF d
<1>11. \A id \in Id : d.legs[id].state \in {"PAID", "REFUNDED"} => id \notin outputs
  BY <1>4, <1>9, <1>10
<1>12. Good(e) /\ ParkedGood(e)
  BY <1>10, <1>11, OfferedGood
<1> HIDE DEF e
<1> QED
  BY <1>1, <1>12, ForwardGood

-----------------------------------------------------------------------------
(* Changes to the outgoing channel, the inbound channels and a restart.     *)

\* Entries may move on as long as a dead one stays dead.
LEMMA MovedGood ==
    ASSUME NEW n, Good(n), NEW m \in Nodes,
           m = [n EXCEPT !.legs = m.legs, !.preimage = m.preimage,
                         !.outCh = m.outCh],
           n.preimage => m.preimage,
           \A id \in Id :
              /\ m.legs[id].part = n.legs[id].part
              /\ Dead(n.legs[id]) => Dead(m.legs[id])
              /\ id >= n.next => m.legs[id] = NoLeg
              /\ id < n.next => m.legs[id].state # "UNUSED"
              /\ Fulfilled(m.legs[id]) => m.preimage
              /\ m.outCh # "CHAIN" => m.legs[id].output = "none"
              /\ m.legs[id].state \in {"PAID", "REFUNDED"} =>
                    m.legs[id].output \in {"none", "absent"}
    PROVE  Good(m) /\ (ParkedGood(n) => ParkedGood(m))
<1>1. /\ m.in = n.in /\ m.inCh = n.inCh /\ m.next = n.next
      /\ m.link = n.link /\ m.row = n.row /\ m.held = n.held
      /\ m.parked = n.parked /\ m.deferred = n.deferred /\ m.repair = n.repair
  BY ZenonT(60) DEF Good, Nodes
<1>2. LegsGood(m)
  BY <1>1 DEF Good, LegsGood
<1>3. RowsGood(m)
  BY <1>1 DEF Good, RowsGood
<1>4. DebtsGood(m)
  BY SMTT(60), Z3T(60), <1>1 DEF Good, DebtsGood
<1>5. WaitsGood(m)
  BY <1>1 DEF Good, WaitsGood
<1> QED
  BY <1>1, <1>2, <1>3, <1>4, <1>5 DEF Good, ParkedGood

\* An inbound channel may change while it is not waiting for a repair.
LEMMA ChannelGood ==
    ASSUME NEW n, Good(n), NEW m \in Nodes,
           m = [n EXCEPT !.inCh = m.inCh, !.turns = m.turns, !.repair = m.repair],
           m.repair \subseteq n.repair,
           \A p \in m.repair : m.inCh[p] \in {"DOWN", "CHAIN"},
           \A p \in Part : n.inCh[p] = "CHAIN" => m.inCh[p] = "CHAIN"
    PROVE  Good(m) /\ (ParkedGood(n) => ParkedGood(m))
<1>1. /\ m.in = n.in /\ m.next = n.next /\ m.legs = n.legs /\ m.outCh = n.outCh
      /\ m.link = n.link /\ m.row = n.row /\ m.held = n.held
      /\ m.preimage = n.preimage
      /\ m.parked = n.parked /\ m.deferred = n.deferred
  BY ZenonT(60) DEF Good, Nodes
<1>2. LegsGood(m) /\ RowsGood(m) /\ DebtsGood(m)
  <2>1. \A id \in Id : id < n.next => n.legs[id].part \in Part
    BY DEF Good, LegsGood
  <2>2. DebtsGood(m)
    BY <1>1, <2>1 DEF Good, DebtsGood
  <2> QED
    BY <1>1, <2>2 DEF Good, LegsGood, RowsGood
<1>3. WaitsGood(m)
  BY <1>1 DEF Good, WaitsGood
<1> QED
  BY <1>1, <1>2, <1>3 DEF Good, ParkedGood

\* markForReestablish takes back no removal that is final.
LEMMA RolledBackGood ==
    ASSUME NEW n, Good(n), NEW id \in Id
    PROVE  LET leg == RolledBack(n.legs)[id] IN
           /\ leg \in Legs /\ leg.part = n.legs[id].part
           /\ leg.output = n.legs[id].output
           /\ Dead(n.legs[id]) => Dead(leg)
           /\ id >= n.next => leg = NoLeg
           /\ id < n.next => leg.state # "UNUSED"
           /\ Fulfilled(leg) => n.preimage
           /\ leg.state \in {"PAID", "REFUNDED"} => leg.state = n.legs[id].state
<1> DEFINE leg == RolledBack(n.legs)[id]
<1>1. n.legs[id] \in Legs
  BY DEF Good, Nodes
<1>2. CASE Removing(n.legs[id]) /\ ~n.legs[id].revoked
  <2>1. leg = [n.legs[id] EXCEPT !.state = "COMMITTED"]
    BY <1>2 DEF RolledBack
  <2>2. leg \in Legs /\ leg.part = n.legs[id].part /\ leg.state = "COMMITTED"
        /\ leg.output = n.legs[id].output
    BY <1>1, <2>1 DEF Legs
  <2> HIDE DEF leg
  <2>3. n.legs[id] # NoLeg
    BY <1>2, NoLegFields DEF Removing
  <2>4. Dead(n.legs[id]) => Dead(leg)
    BY <1>2, <2>2 DEF Removing, Dead
  <2> QED
    BY <2>2, <2>3, <2>4 DEF Good, LegsGood, Fulfilled, leg
<1>3. CASE ~(Removing(n.legs[id]) /\ ~n.legs[id].revoked)
  <2>1. leg = n.legs[id]
    BY <1>3 DEF RolledBack
  <2> HIDE DEF leg
  <2> QED
    BY <1>1, <2>1 DEF Good, LegsGood, leg
<1> QED
  BY <1>2, <1>3

\* A restart, from a record that agrees with a good one on what is on disk.
LEMMA RestartedLike ==
    ASSUME NEW n, Good(n), NEW k \in Nodes,
           k.in = n.in, k.inCh = n.inCh, k.outCh = n.outCh, k.legs = n.legs,
           k.next = n.next, k.row = n.row, k.preimage = n.preimage
    PROVE  Good(Restarted(k)) /\ ParkedGood(Restarted(k))
<1> DEFINE m == Restarted(k)
           inCh == [p \in Part |-> IF n.inCh[p] = "CHAIN" THEN "CHAIN" ELSE "DOWN"]
           outCh == IF n.outCh = "CHAIN" THEN "CHAIN" ELSE "DOWN"
           repair == {p \in Part : n.in[p] = "COMMITTED"}
<1>1. n \in Nodes
  BY DEF Good
<1>2. /\ m.in = n.in /\ m.inCh = inCh /\ m.outCh = outCh
      /\ m.legs = RolledBack(n.legs)
      /\ m.next = n.next /\ m.link = n.row /\ m.row = n.row /\ m.held = {}
      /\ m.preimage = n.preimage /\ m.parked = {} /\ m.deferred = {}
      /\ m.turns = {} /\ m.repair = repair
  BY DEF Restarted, Nodes
<1> HIDE DEF m
<1>3. \A id \in Id :
        /\ m.legs[id] \in Legs /\ m.legs[id].part = n.legs[id].part
        /\ m.legs[id].output = n.legs[id].output
        /\ Dead(n.legs[id]) => Dead(m.legs[id])
        /\ id >= n.next => m.legs[id] = NoLeg
        /\ id < n.next => m.legs[id].state # "UNUSED"
        /\ Fulfilled(m.legs[id]) => n.preimage
        /\ m.legs[id].state \in {"PAID", "REFUNDED"} =>
              m.legs[id].state = n.legs[id].state
  <2>1. m.legs = RolledBack(n.legs)
    BY <1>2
  <2> QED
    BY SMTT(60), Z3T(60), <2>1, RolledBackGood
<1>4. m \in Nodes
  <2>1. m.legs \in [Id -> Legs]
    BY <1>2, <1>3 DEF RolledBack
  <2>2. /\ m.inCh \in [Part -> {"NORMAL", "QUIESCENT", "DOWN", "CHAIN"}]
        /\ m.outCh \in {"NORMAL", "DOWN", "CHAIN"}
        /\ m.repair \in SUBSET Part
    BY <1>2
  <2>3. m = [k EXCEPT !.inCh = m.inCh, !.outCh = m.outCh, !.legs = m.legs,
                      !.link = n.row, !.held = {}, !.parked = {},
                      !.deferred = {}, !.turns = {}, !.repair = m.repair]
    BY <1>1, <1>2 DEF Restarted, Nodes, m
  <2>4. n.row \in [Id -> Part \cup {None}]
    BY <1>1 DEF Nodes
  <2> HIDE DEF inCh, outCh, repair
  <2> QED
    BY ZenonT(60), <2>1, <2>2, <2>3, <2>4 DEF Nodes
<1>5. /\ \A p \in Part : m.inCh[p] \in {"DOWN", "CHAIN"}
      /\ m.outCh # "CHAIN" => n.outCh # "CHAIN"
      /\ \A p \in m.repair : p \in Part /\ n.in[p] = "COMMITTED"
  BY <1>2
<1> HIDE DEF inCh, outCh, repair
<1>6. LegsGood(m)
  <2>1. ASSUME NEW id \in Id
        PROVE  /\ id >= m.next => m.legs[id] = NoLeg
               /\ id < m.next => m.legs[id].part \in Part
                                 /\ m.legs[id].state # "UNUSED"
               /\ Fulfilled(m.legs[id]) => m.preimage
               /\ m.outCh # "CHAIN" => m.legs[id].output = "none"
               /\ m.legs[id].state \in {"PAID", "REFUNDED"} =>
                     m.legs[id].output \in {"none", "absent"}
    <3>1. m.legs[id].output = n.legs[id].output /\ m.legs[id].part = n.legs[id].part
      BY <1>3
    <3>2. n.outCh # "CHAIN" => n.legs[id].output = "none"
      BY DEF Good, LegsGood
    <3>3. n.legs[id].state \in {"PAID", "REFUNDED"} =>
            n.legs[id].output \in {"none", "absent"}
      BY DEF Good, LegsGood
    <3>4. id < n.next => n.legs[id].part \in Part
      BY DEF Good, LegsGood
    <3> QED
      BY <1>2, <1>3, <1>5, <3>1, <3>2, <3>3, <3>4
  <2>2. ASSUME NEW i \in Id, NEW j \in Id,
               m.legs[i].part = m.legs[j].part, i < m.next
        PROVE  i = j
    <3>1. n.legs[i].part = n.legs[j].part /\ i < n.next
      BY <1>2, <1>3, <2>2
    <3> QED
      BY <3>1 DEF Good, LegsGood
  <2> QED
    BY <2>1, <2>2 DEF LegsGood
<1>7. RowsGood(m)
  <2>1. /\ m.link = n.row /\ m.row = n.row /\ m.held = {} /\ m.next = n.next
        /\ \A id \in Id : m.legs[id].part = n.legs[id].part
    BY <1>2, <1>3
  <2> QED
    BY <2>1, RestartRows DEF Good
<1>8. DebtsGood(m)
  <2> SUFFICES ASSUME NEW id \in Id, id < m.next
               PROVE  LET p == m.legs[id].part IN
                      /\ m.in[p] # "NEW" /\ p \notin m.parked
                      /\ m.in[p] = "COMMITTED" => m.row[id] = p /\ m.link[id] = p
                      /\ p \notin m.deferred
                      /\ m.in[p] = "FAILED" => Dead(m.legs[id])
    BY DEF DebtsGood
  <2>1. /\ m.legs[id].part = n.legs[id].part /\ id < n.next
        /\ Dead(n.legs[id]) => Dead(m.legs[id])
    BY <1>2, <1>3
  <2>2. LET p == n.legs[id].part IN
        /\ n.in[p] # "NEW"
        /\ n.in[p] = "COMMITTED" => n.row[id] = p
        /\ n.in[p] = "FAILED" => Dead(n.legs[id])
    BY <2>1 DEF Good, DebtsGood
  <2> QED
    BY <1>2, <2>1, <2>2
<1>9. WaitsGood(m)
  BY <1>1, <1>2, <1>5, RestartWaits DEF Good
<1> QED
  BY <1>2, <1>4, <1>6, <1>7, <1>8, <1>9 DEF Good, ParkedGood, m

\* A restart keeps a record good.
LEMMA RestartedGood ==
    ASSUME NEW n, Good(n)
    PROVE  Good(Restarted(n)) /\ ParkedGood(Restarted(n))
BY RestartedLike DEF Good

\* An inbound HTLC becomes irrevocable.
LEMMA CommittedGood ==
    ASSUME Good(node), NEW p \in Part, node.in[p] = "NEW"
    PROVE  /\ Good(Committed(p)) /\ Fresh(Committed(p), {p})
           /\ ParkedGood(node) => ParkedGood(Committed(p))
           /\ Committed(p) = [node EXCEPT !.in = Committed(p).in]
           /\ Committed(p).in[p] = "COMMITTED"
<1> DEFINE n == node
           m == Committed(p)
<1>1. n \in Nodes
  BY DEF Good
<1>2. /\ m.in = [n.in EXCEPT ![p] = "COMMITTED"]
      /\ m.inCh = n.inCh /\ m.outCh = n.outCh /\ m.legs = n.legs
      /\ m.next = n.next /\ m.link = n.link /\ m.row = n.row /\ m.held = n.held
      /\ m.preimage = n.preimage /\ m.parked = n.parked
      /\ m.deferred = n.deferred /\ m.repair = n.repair
  BY <1>1 DEF Committed, Nodes
<1>3. m = [n EXCEPT !.in = m.in]
  BY <1>1, <1>2 DEF Committed, Nodes
<1>4. /\ m.in \in [Part -> {"NEW", "COMMITTED", "FULFILLED", "FAILED"}]
      /\ m.in[p] = "COMMITTED"
      /\ \A q \in Part : q # p => m.in[q] = n.in[q]
  BY <1>1, <1>2 DEF Nodes
<1>5. m \in Nodes
  BY <1>1, <1>3, <1>4 DEF Nodes
<1> HIDE DEF m
<1>6. \A id \in Id : n.legs[id].part # p
  <2> SUFFICES ASSUME NEW id \in Id PROVE n.legs[id].part # p
    OBVIOUS
  <2>1. CASE id < n.next
    BY <2>1 DEF Good, DebtsGood
  <2>2. CASE id >= n.next
    BY <2>2, NoLegFields, ForwardingConstants DEF Good, LegsGood
  <2> QED
    BY <2>1, <2>2, <1>1 DEF Nodes, Id
<1>7. \A id \in Id : n.row[id] # p
  BY ForwardingConstants DEF Good, WaitsGood
<1>8. p \notin n.parked /\ p \notin n.deferred /\ p \notin n.repair
  BY DEF Good, WaitsGood
<1>9. LegsGood(m) /\ RowsGood(m)
  BY <1>2, SameLegs, SameRows DEF Good
<1>10. DebtsGood(m)
  <2> SUFFICES ASSUME NEW id \in Id, id < m.next
               PROVE  LET q == m.legs[id].part IN
                      /\ m.in[q] # "NEW" /\ q \notin m.parked
                      /\ m.in[q] = "COMMITTED" =>
                            /\ m.row[id] = q
                            /\ \/ m.link[id] = q
                               \/ /\ Dead(m.legs[id])
                                  /\ q \in m.deferred \/ m.inCh[q] = "CHAIN"
                            /\ q \in m.deferred => Dead(m.legs[id])
                      /\ m.in[q] = "FAILED" => Dead(m.legs[id])
    BY DEF DebtsGood
  <2>1. id < n.next /\ n.legs[id].part \in Part
    BY <1>2 DEF Good, LegsGood
  <2>2. m.in[n.legs[id].part] = n.in[n.legs[id].part]
    BY <1>4, <1>6, <2>1
  <2>3. LET q == n.legs[id].part IN
        /\ n.in[q] # "NEW" /\ q \notin n.parked
        /\ n.in[q] = "COMMITTED" =>
              /\ n.row[id] = q
              /\ \/ n.link[id] = q
                 \/ Dead(n.legs[id]) /\ (q \in n.deferred \/ n.inCh[q] = "CHAIN")
              /\ q \in n.deferred => Dead(n.legs[id])
        /\ n.in[q] = "FAILED" => Dead(n.legs[id])
    BY <2>1 DEF Good, DebtsGood
  <2> QED
    BY <1>2, <2>2, <2>3
<1>11. WaitsGood(m)
  BY <1>1, <1>2, <1>4, SameWaits DEF Good
<1>12. Fresh(m, {p})
  BY <1>2, <1>4, <1>6, <1>8 DEF Fresh
<1>13. ParkedGood(n) => ParkedGood(m)
  BY <1>1, <1>2, <1>4, <1>8 DEF ParkedGood, Nodes
<1> QED
  BY <1>3, <1>4, <1>5, <1>9, <1>10, <1>11, <1>12, <1>13 DEF Good, m

\* A process that ends with a part recorded under an id that was not taken.
LEMMA RefusedGood ==
    ASSUME NEW n, Good(n), NEW p \in Part, Fresh(n, {p})
    PROVE  LET m == Restarted([n EXCEPT !.row[n.next] = p]) IN
           Good(m) /\ ParkedGood(m)
<1> DEFINE k == [n EXCEPT !.row[n.next] = p]
           m == [k EXCEPT !.link[n.next] = p]
<1>1. n \in Nodes /\ n.next \in Id
  BY DEF Good, Nodes
<1>2. /\ m.in = n.in /\ m.inCh = n.inCh /\ m.outCh = n.outCh /\ m.legs = n.legs
      /\ m.next = n.next /\ m.held = n.held /\ m.preimage = n.preimage
      /\ m.parked = n.parked /\ m.deferred = n.deferred /\ m.repair = n.repair
      /\ m.link = [n.link EXCEPT ![n.next] = p]
      /\ m.row = [n.row EXCEPT ![n.next] = p]
  BY <1>1 DEF Nodes
<1>3. m \in Nodes
  <2>1. /\ m.link \in [Id -> Part \cup {None}] /\ m.row \in [Id -> Part \cup {None}]
    BY <1>1, <1>2 DEF Nodes
  <2>2. m = [n EXCEPT !.row = m.row, !.link = m.link]
    BY <1>1, <1>2 DEF Nodes
  <2> QED
    BY Zenon, <1>1, <2>1, <2>2 DEF Nodes
<1>4. /\ k.in = n.in /\ k.inCh = n.inCh /\ k.outCh = n.outCh /\ k.legs = n.legs
      /\ k.next = n.next /\ k.preimage = n.preimage /\ k.row = m.row
      /\ k \in Nodes
  <2>1. k.row \in [Id -> Part \cup {None}] /\ k = [n EXCEPT !.row = k.row]
    BY <1>1 DEF Nodes
  <2> QED
    BY <1>1, <1>2, <2>1 DEF Nodes
<1>5. \A id \in Id :
        /\ m.link[id] = IF id = n.next THEN p ELSE n.link[id]
        /\ m.row[id] = IF id = n.next THEN p ELSE n.row[id]
  BY <1>1, <1>2 DEF Nodes
<1> HIDE DEF m, k
<1>6. /\ n.in[p] # "NEW" /\ p # None
      /\ p \notin n.parked /\ p \notin n.deferred /\ p \notin n.repair
      /\ \A id \in Id : n.legs[id].part # p
  BY ForwardingConstants DEF Fresh
<1>7. LegsGood(m)
  BY <1>2, SameLegs DEF Good
<1>8. RowsGood(m)
  <2> SUFFICES ASSUME NEW id \in Id
               PROVE  /\ m.link[id] \in {None, m.row[id]}
                      /\ id \in m.held => m.link[id] # None
                      /\ id > m.next => m.row[id] = None
                      /\ m.row[id] # None /\ id < m.next =>
                            m.legs[id].part = m.row[id]
                      /\ m.row[id] # None /\ id = m.next =>
                            \A j \in Id : m.legs[j].part # m.row[id]
    BY DEF RowsGood
  <2>1. CASE id = n.next
    BY <2>1, <1>1, <1>2, <1>5, <1>6 DEF Id
  <2>2. CASE id # n.next
    <3>1. m.link[id] = n.link[id] /\ m.row[id] = n.row[id]
      BY <2>2, <1>5
    <3> QED
      BY <2>2, <3>1, <1>2 DEF Good, RowsGood
  <2> QED
    BY <2>1, <2>2
<1>9. DebtsGood(m)
  <2>1. \A id \in Id : id < n.next => m.row[id] = n.row[id] /\ m.link[id] = n.link[id]
    BY <1>1, <1>5 DEF Nodes, Id
  <2> SUFFICES ASSUME NEW id \in Id, id < m.next
               PROVE  LET q == m.legs[id].part IN
                      /\ m.in[q] # "NEW" /\ q \notin m.parked
                      /\ m.in[q] = "COMMITTED" =>
                            /\ m.row[id] = q
                            /\ \/ m.link[id] = q
                               \/ /\ Dead(m.legs[id])
                                  /\ q \in m.deferred \/ m.inCh[q] = "CHAIN"
                            /\ q \in m.deferred => Dead(m.legs[id])
                      /\ m.in[q] = "FAILED" => Dead(m.legs[id])
    BY DEF DebtsGood
  <2>2. id < n.next /\ m.row[id] = n.row[id] /\ m.link[id] = n.link[id]
    BY <1>2, <2>1
  <2> DEFINE q == n.legs[id].part
  <2>3. /\ n.in[q] # "NEW" /\ q \notin n.parked
        /\ n.in[q] = "COMMITTED" =>
              /\ n.row[id] = q
              /\ \/ n.link[id] = q
                 \/ Dead(n.legs[id]) /\ (q \in n.deferred \/ n.inCh[q] = "CHAIN")
              /\ q \in n.deferred => Dead(n.legs[id])
        /\ n.in[q] = "FAILED" => Dead(n.legs[id])
    BY <2>2 DEF Good, DebtsGood
  <2>4. m.legs[id].part = q /\ (Dead(m.legs[id]) <=> Dead(n.legs[id]))
    BY <1>2
  <2> HIDE DEF q
  <2>5. /\ m.in[q] # "NEW" /\ q \notin m.parked
        /\ m.in[q] = "FAILED" => Dead(m.legs[id])
    BY <1>2, <2>3, <2>4
  <2>6. m.in[q] = "COMMITTED" =>
           /\ m.row[id] = q
           /\ \/ m.link[id] = q
              \/ Dead(m.legs[id]) /\ (q \in m.deferred \/ m.inCh[q] = "CHAIN")
           /\ q \in m.deferred => Dead(m.legs[id])
    BY <1>2, <2>2, <2>3, <2>4
  <2> QED
    BY <2>4, <2>5, <2>6
<1>10. WaitsGood(m)
  <2>1. \A id \in Id : m.row[id] # None => n.in[m.row[id]] # "NEW"
    BY <1>5, <1>6 DEF Good, WaitsGood
  <2>2. \A q \in n.parked : \A id \in Id : m.row[id] # q
    BY <1>5, <1>6 DEF Good, WaitsGood
  <2>3. \A q \in n.repair : \A id \in Id : m.row[id] = q => m.link[id] = q
    BY <1>5, <1>6 DEF Good, WaitsGood
  <2> QED
    BY <1>2, <2>1, <2>2, <2>3 DEF Good, WaitsGood
<1>11. Good(m)
  BY <1>3, <1>7, <1>8, <1>9, <1>10 DEF Good
<1>12. Good(Restarted(k)) /\ ParkedGood(Restarted(k))
  BY <1>2, <1>4, <1>11, RestartedLike
<1> QED
  BY <1>12 DEF k

=============================================================================
