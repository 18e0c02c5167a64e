---------------------------- MODULE BarrierLemmas ----------------------------
(***************************************************************************)
(* The inductive invariant of DurabilityBarrier, the changes of the wire,   *)
(* and the batches on their way into a queue, past it and out of it.  The   *)
(* lemmas are about actions and not about the next-state relation:          *)
(* GuardianRotation takes the same steps.                                   *)
(***************************************************************************)
EXTENDS DurabilityBarrier, WellFoundedInduction, TLAPS

\* What is held for a peer, where q are the batches, l the state of the loop, k
\* that of the link, s the last frame sent, t the tip and m the watermark:
\* batches in the order of their frames, none older than the last one sent,
\* the first of them released only when the watermark covers it; and nothing
\* without a connection.
ChannelGood(q, l, k, s, t, m) ==
    /\ q \in Seq(Batch)
    /\ l \in {"none", "parked", "durable", "refused"}
    /\ k \in {"down", "up", "closing"}
    /\ s \in 0..t
    /\ l = "none" <=> q = << >>
    /\ l # "none" => q[1].gated
    /\ \A i \in 1..Len(q) : s <= q[i].frame /\ q[i].frame <= t
    /\ \A i, j \in 1..Len(q) : i <= j => q[i].frame <= q[j].frame
    /\ l = "durable" => q[1].frame <= m
    /\ l = "parked" => q[1].frame > 0
    /\ k = "down" => q = << >> /\ s = 0

WireGood ==
    /\ queue \in [Channel -> Seq(Batch)]
    /\ loop \in [Channel -> {"none", "parked", "durable", "refused"}]
    /\ link \in [Channel -> {"down", "up", "closing"}]
    /\ sent \in [Channel -> Nat]
    /\ \A c \in Channel :
          ChannelGood(queue[c], loop[c], link[c], sent[c], tip, mark)

\* The pump, with the tip, the watermark and the configured set.  A pass of a
\* set that is no longer the configured one offers nothing above the
\* watermark, so its receipts cannot raise it.
PumpGood(p, t, m, g) ==
    /\ p \in [at : {"idle", "pass", "delay"}, set : 0..MaxGeneration,
              tip : 0..t, kicked : BOOLEAN]
    /\ p.at = "pass" => p.set \in Generations
    /\ p.set # g => p.tip <= m

\* The frames that peers have seen are below the watermark, and the watermark
\* is below what the configured set holds.
BooksGood ==
    /\ tip \in 0..MaxFrames /\ mark \in 0..tip /\ seen \in 0..mark
    /\ generation \in Generations
    /\ stored \in [Generations -> 0..tip] /\ mark <= stored[generation]
    /\ taken \subseteq Generations /\ retired \subseteq Generations
    /\ barrier \in {"open", "fenced", "stopped"}
    /\ gate \in {"quarantined", "confirmed", "fenced"}
    /\ ask \in [kind : {"none", "confirm", "recheck"},
                set : 0..MaxGeneration, clean : BOOLEAN]
    /\ orphans \subseteq 1..tip
    /\ restarts \in 0..MaxRestarts
    /\ PumpGood(pump, tip, mark, generation)

\* A writer that is fenced or stopped has no connection.
SilentGood ==
    barrier # "open" \/ gate = "fenced" => \A c \in Channel : link[c] = "down"

\* The inductive invariant.
BInv == WireGood /\ BooksGood /\ SilentGood

\* The inductive invariant implies the type invariant and ReleasedIsHeld.
LEMMA BInvImplies == ASSUME BInv PROVE TypeOK /\ ReleasedIsHeld
<1>1. /\ queue \in [Channel -> Seq(Batch)]
      /\ loop \in [Channel -> {"none", "parked", "durable", "refused"}]
      /\ link \in [Channel -> {"down", "up", "closing"}]
      /\ sent \in [Channel -> 0..tip]
      /\ \A c \in Channel : /\ loop[c] = "none" <=> queue[c] = << >>
                            /\ loop[c] # "none" => queue[c][1].gated
  BY DEF BInv, WireGood, ChannelGood
<1>2. seen \in 0..tip /\ seen <= stored[generation] /\ mark <= stored[generation]
  BY BarrierConstants DEF BInv, BooksGood
<1>3. pump \in [at : {"idle", "pass", "delay"}, set : 0..MaxGeneration,
                tip : 0..tip, kicked : BOOLEAN]
  BY DEF BInv, BooksGood, PumpGood
<1> QED
  BY <1>1, <1>2, <1>3 DEF BInv, BooksGood, TypeOK, ReleasedIsHeld

-----------------------------------------------------------------------------
(* What the release loop sends.                                             *)

\* A set of naturals that is not empty has a least element, and Min finds it.
LEMMA MinOfNaturals ==
    ASSUME NEW S \in SUBSET Nat, S # {}
    PROVE  Min(S) \in S /\ \A n \in S : Min(S) <= n
<1>1. PICK x \in S : \A y \in S : ~ (<<y, x>> \in OpToRel(<, Nat))
  BY NatLessThanWellFounded, WFMin, Zenon
<1>2. \A y \in S : x <= y
  <2> SUFFICES ASSUME NEW y \in S PROVE x <= y
    OBVIOUS
  <2>1. ~ (y < x)
    BY Zenon, <1>1 DEF OpToRel
  <2> QED
    BY <2>1
<1> QED
  BY <1>1, <1>2 DEF Min

\* The greatest element of a set of one.
LEMMA MaxOfOne == ASSUME NEW n \in Nat PROVE Max({n}) = n
<1>1. n \in {n} /\ \A y \in {n} : n >= y
  OBVIOUS
<1>2. \A x \in {n} : x = n
  OBVIOUS
<1> QED
  BY <1>1, <1>2 DEF Max

\* The loop sends at least the batch that was released, and no gated batch
\* behind it (_awaitRelease).
LEMMA DrainedIsUngated ==
    ASSUME NEW q \in Seq(Batch), q # << >>
    PROVE  /\ Drained(q) \in 1..Len(q)
           /\ \A i \in 2..Drained(q) : ~ q[i].gated
           /\ Drained(q) < Len(q) => q[Drained(q) + 1].gated
<1> DEFINE I == {i \in 1..(Len(q) - 1) : q[i + 1].gated}
           n == Min(I \cup {Len(q)})
<1>1. Len(q) \in Nat \ {0}
  OBVIOUS
<1>2. n \in I \cup {Len(q)} /\ \A i \in I \cup {Len(q)} : n <= i
  <2>1. I \in SUBSET Nat
    BY <1>1
  <2> HIDE DEF I
  <2>2. I \cup {Len(q)} \in SUBSET Nat /\ I \cup {Len(q)} # {}
    BY Zenon, <1>1, <2>1
  <2> QED
    BY <2>2, MinOfNaturals, Zenon
<1>3. n = Drained(q)
  BY DEF Drained
<1>4. \A i \in I : i \in 1..Len(q) /\ q[i + 1].gated
  BY <1>1
<1>5. \A i \in 1..(Len(q) - 1) : q[i + 1].gated => i \in I
  OBVIOUS
<1> HIDE DEF n, I
<1>6. n \in 1..Len(q) /\ (n < Len(q) => q[n + 1].gated)
  BY <1>1, <1>2, <1>4
<1>7. ASSUME NEW i \in 2..n, q[i].gated PROVE FALSE
  <2>1. i - 1 \in 1..(Len(q) - 1) /\ (i - 1) + 1 = i
    BY <1>1, <1>6
  <2>2. i - 1 \in I
    BY <1>5, <1>7, <2>1
  <2> QED
    BY <1>2, <1>6, <2>1, <2>2
<1> QED
  BY <1>3, <1>6, <1>7

\* A queue that has a loop is not empty.
LEMMA LoopHasQueue ==
    ASSUME BInv, NEW c \in Channel, loop[c] # "none"
    PROVE  /\ queue[c] \in Seq(Batch) /\ queue[c] # << >>
           /\ Len(queue[c]) \in Nat \ {0} /\ queue[c][1].gated
           /\ \A i \in 1..Len(queue[c]) :
                 queue[c][i] \in Batch /\ queue[c][i].frame \in Nat
<1>1. queue[c] \in Seq(Batch) /\ queue[c] # << >> /\ queue[c][1].gated
  BY DEF BInv, WireGood, ChannelGood
<1>2. Len(queue[c]) \in Nat \ {0} /\ \A i \in 1..Len(queue[c]) : queue[c][i] \in Batch
  BY <1>1
<1>3. \A i \in 1..Len(queue[c]) : queue[c][i].frame \in Nat
  BY <1>2, BarrierConstants DEF Batch
<1> QED
  BY <1>1, <1>2, <1>3

\* The batches a loop sends are what WireRelease lets leave: in order, and
\* gated only below what a quorum holds.
LEMMA SendsHeldEffect ==
    ASSUME BInv, NEW c \in Channel, loop[c] = "durable",
           NEW n \in 0..Drained(queue[c]), SendsHeld(c, n)
    PROVE  /\ n = 0 => sent' = sent /\ seen' = seen
           /\ n > 0 => /\ sent' = [sent EXCEPT ![c] = queue[c][n].frame]
                       /\ Promise!Sends(c, SubSeq(queue[c], 1, n))
           /\ seen' \in 0..tip /\ seen' <= mark
<1> DEFINE q == queue[c]
           gated == {q[i].frame : i \in {j \in 1..n : q[j].gated}}
<1>1. /\ q \in Seq(Batch) /\ q # << >> /\ Len(q) \in Nat \ {0} /\ q[1].gated
      /\ \A i \in 1..Len(q) : q[i] \in Batch /\ q[i].frame \in Nat
  BY LoopHasQueue
<1>2. /\ Drained(q) \in 1..Len(q) /\ n \in Nat /\ n <= Len(q)
      /\ \A i \in 2..n : ~ q[i].gated
  BY <1>1, DrainedIsUngated
<1>3. /\ sent' = IF n = 0 THEN sent ELSE [sent EXCEPT ![c] = q[n].frame]
      /\ seen' = IF gated = {} THEN seen ELSE Larger(seen, Max(gated))
  BY DEF SendsHeld
<1>4. /\ q[1].frame \in 0..tip /\ q[1].frame <= mark /\ q[1].frame >= sent[c]
      /\ tip \in Nat /\ mark \in 0..tip /\ seen \in 0..tip /\ seen <= mark
      /\ mark <= stored[generation]
  <2>1. /\ q[1].frame <= tip /\ q[1].frame <= mark /\ q[1].frame >= sent[c]
        /\ q[1].frame \in Nat
    <3>1. ChannelGood(q, loop[c], link[c], sent[c], tip, mark) /\ 1 \in 1..Len(q)
      BY <1>1 DEF BInv, WireGood
    <3> QED
      BY <1>1, <3>1 DEF ChannelGood
  <2> QED
    BY <2>1, BarrierConstants DEF BInv, BooksGood
<1>5. CASE n = 0
  <2>1. gated = {}
    BY <1>5
  <2> QED
    BY <1>3, <1>4, <1>5, <2>1
<1>6. CASE n > 0
  <2>0. 1 \in 1..n /\ n \in 1..n /\ \A j \in 1..n : q[j].gated <=> j = 1
    <3> SUFFICES ASSUME NEW j \in 1..n PROVE q[j].gated <=> j = 1
      BY <1>2, <1>6
    <3>1. j = 1 \/ j \in 2..n
      BY <1>2
    <3> QED
      BY <1>1, <1>2, <3>1
  <2>1. gated = {q[1].frame}
    BY <2>0
  <2>2. Max(gated) = q[1].frame
    BY <1>4, <2>1, MaxOfOne
  <2>3. seen' = Larger(seen, q[1].frame)
    BY <1>3, <2>1, <2>2
  <2> DEFINE out == SubSeq(q, 1, n)
  <2>4. /\ Len(out) = n /\ DOMAIN out = 1..n
        /\ \A i \in 1..n : out[i] = q[i]
    <3>1. \A i \in 1..n : q[i] \in Batch
      BY <1>1, <1>2
    <3>2. /\ out \in Seq(Batch)
          /\ Len(out) = IF 1 <= n THEN n - 1 + 1 ELSE 0
          /\ \A i \in 1..(n - 1 + 1) : out[i] = q[1 + i - 1]
      BY <1>2, <3>1
    <3> QED
      BY <1>2, <1>6, <3>2
  <2> HIDE DEF out, gated
  <2>5. {out[i].frame : i \in {j \in DOMAIN out : out[j].gated}} = {q[1].frame}
    <3>1. {j \in DOMAIN out : out[j].gated} = {1}
      BY <2>0, <2>4
    <3>2. out[1] = q[1]
      BY <2>0, <2>4
    <3> QED
      BY <3>1, <3>2
  <2>6. Promise!Sends(c, out)
    <3>1. \A i \in DOMAIN out : out[i].gated => out[i].frame <= stored[generation]
      <4> SUFFICES ASSUME NEW i \in DOMAIN out, out[i].gated
                   PROVE  out[i].frame <= stored[generation]
        OBVIOUS
      <4>1. out[i] = q[1]
        BY <2>0, <2>4
      <4>2. stored[generation] \in Nat
        BY BarrierConstants DEF BInv, BooksGood
      <4> QED
        BY <1>4, <4>1, <4>2
    <3>2. out[1].frame >= sent[c]
      BY <1>4, <1>6, <2>4
    <3>3. sent' = [sent EXCEPT ![c] = out[Len(out)].frame]
      <4>1. out[Len(out)] = q[n]
        BY <2>0, <2>4
      <4> QED
        BY <1>2, <1>3, <1>6, <4>1
    <3>4. /\ seen' \in {q[1].frame} \cup {seen}
          /\ \A k \in {q[1].frame} \cup {seen} : k <= seen'
      BY <1>4, <2>3 DEF Larger
    <3> QED
      BY Zenon, <2>5, <3>1, <3>2, <3>3, <3>4 DEF Promise!Sends
  <2> QED
    BY <1>3, <1>4, <1>6, <2>3, <2>6 DEF out, Larger
<1> QED
  BY <1>2, <1>5, <1>6

-----------------------------------------------------------------------------
(* The parts of the invariant under the changes that actions make.          *)

\* What a channel holds stays good when frames are committed and receipted.
LEMMA ChannelGoodLater ==
    ASSUME NEW q, NEW l, NEW k, NEW s, NEW t \in Nat, NEW m \in Nat,
           ChannelGood(q, l, k, s, t, m),
           NEW t2 \in Nat, NEW m2 \in Nat, t <= t2, m <= m2
    PROVE  ChannelGood(q, l, k, s, t2, m2)
<1>1. \A i \in 1..Len(q) : q[i].frame \in Nat
  <2>1. \A i \in 1..Len(q) : q[i] \in Batch
    BY DEF ChannelGood
  <2> QED
    BY <2>1, BarrierConstants DEF Batch
<1>2. l # "none" => 1 \in 1..Len(q)
  BY DEF ChannelGood
<1> QED
  BY <1>1, <1>2 DEF ChannelGood

\* A channel without a queue.
LEMMA EmptyIsGood ==
    ASSUME NEW k \in {"down", "up", "closing"}, NEW t \in Nat, NEW s \in 0..t,
           NEW m \in Nat, k = "down" => s = 0
    PROVE  ChannelGood(<< >>, "none", k, s, t, m)
<1>1. << >> \in Seq(Batch) /\ Len(<< >>) = 0
  OBVIOUS
<1> QED
  BY <1>1 DEF ChannelGood

\* No queue, loop or link changes.
LEMMA WireKept ==
    ASSUME BInv, UNCHANGED <<queue, loop, link, sent>>,
           tip' \in Nat, mark' \in Nat, tip <= tip', mark <= mark'
    PROVE  WireGood'
<1>1. tip \in Nat /\ mark \in Nat
  BY BarrierConstants DEF BInv, BooksGood
<1>2. ASSUME NEW c \in Channel
      PROVE  ChannelGood(queue'[c], loop'[c], link'[c], sent'[c], tip', mark')
  <2>1. ChannelGood(queue[c], loop[c], link[c], sent[c], tip, mark)
    BY DEF BInv, WireGood
  <2>2. ChannelGood(queue[c], loop[c], link[c], sent[c], tip', mark')
    BY <1>1, <2>1, ChannelGoodLater
  <2> QED
    BY <2>2
<1> QED
  BY <1>2 DEF BInv, WireGood

\* The queue, the loop, the link and the last frame sent of one channel change.
LEMMA WireChangedAt ==
    ASSUME BInv, NEW c \in Channel, NEW q, NEW l, NEW k, NEW s,
           queue' = [queue EXCEPT ![c] = q], loop' = [loop EXCEPT ![c] = l],
           link' = [link EXCEPT ![c] = k], sent' = [sent EXCEPT ![c] = s],
           tip' \in Nat, mark' \in Nat, tip <= tip', mark <= mark',
           ChannelGood(q, l, k, s, tip', mark')
    PROVE  WireGood'
<1>1. tip \in Nat /\ mark \in Nat
  BY BarrierConstants DEF BInv, BooksGood
<1>2. /\ q \in Seq(Batch) /\ l \in {"none", "parked", "durable", "refused"}
      /\ k \in {"down", "up", "closing"} /\ s \in Nat
  BY DEF ChannelGood
<1>3. /\ queue' \in [Channel -> Seq(Batch)]
      /\ loop' \in [Channel -> {"none", "parked", "durable", "refused"}]
      /\ link' \in [Channel -> {"down", "up", "closing"}]
      /\ sent' \in [Channel -> Nat]
  BY <1>2 DEF BInv, WireGood
<1>4. ASSUME NEW d \in Channel
      PROVE  ChannelGood(queue'[d], loop'[d], link'[d], sent'[d], tip', mark')
  <2>1. CASE d = c
    <3>1. queue'[d] = q /\ loop'[d] = l /\ link'[d] = k /\ sent'[d] = s
      BY <2>1 DEF BInv, WireGood
    <3> QED
      BY <3>1
  <2>2. CASE d # c
    <3>1. /\ queue'[d] = queue[d] /\ loop'[d] = loop[d]
          /\ link'[d] = link[d] /\ sent'[d] = sent[d]
      BY <2>2 DEF BInv, WireGood
    <3>2. ChannelGood(queue[d], loop[d], link[d], sent[d], tip, mark)
      BY DEF BInv, WireGood
    <3>3. ChannelGood(queue[d], loop[d], link[d], sent[d], tip', mark')
      BY <1>1, <3>2, ChannelGoodLater
    <3> QED
      BY <3>1, <3>3
  <2> QED
    BY <2>1, <2>2
<1> QED
  BY <1>3, <1>4 DEF WireGood

\* The queue of one channel is given up.
LEMMA WireEmptied ==
    ASSUME BInv, NEW c \in Channel, NEW k \in {"down", "up", "closing"},
           NEW s \in 0..tip, k = "down" => s = 0,
           queue' = [queue EXCEPT ![c] = << >>], loop' = [loop EXCEPT ![c] = "none"],
           link' = [link EXCEPT ![c] = k], sent' = [sent EXCEPT ![c] = s],
           UNCHANGED <<tip, mark>>
    PROVE  WireGood'
<1>1. tip \in Nat /\ mark \in Nat /\ tip' \in Nat /\ mark' \in Nat
  BY BarrierConstants DEF BInv, BooksGood
<1>2. PICK q, l : q = << >> /\ l = "none"
  OBVIOUS
<1>3. ChannelGood(q, l, k, s, tip', mark')
  BY <1>1, <1>2, EmptyIsGood
<1>4. queue' = [queue EXCEPT ![c] = q] /\ loop' = [loop EXCEPT ![c] = l]
  BY <1>2
<1>5. tip <= tip' /\ mark <= mark'
  BY <1>1
<1> QED
  BY Zenon, <1>1, <1>3, <1>4, <1>5, WireChangedAt

\* A freeze leaves no connection and nothing held.
LEMMA WireFrozen ==
    ASSUME Freezes, tip' \in Nat, mark' \in Nat
    PROVE  WireGood' /\ \A c \in Channel : link'[c] = "down"
<1>1. ASSUME NEW c \in Channel
      PROVE  ChannelGood(queue'[c], loop'[c], link'[c], sent'[c], tip', mark')
  <2>1. /\ queue'[c] = << >> /\ loop'[c] = "none"
        /\ link'[c] = "down" /\ sent'[c] = 0
    BY DEF Freezes, Empty, Everywhere
  <2>2. ChannelGood(<< >>, "none", "down", 0, tip', mark')
    BY EmptyIsGood
  <2> QED
    BY <2>1, <2>2
<1>2. << >> \in Seq(Batch)
  OBVIOUS
<1> QED
  BY <1>1, <1>2 DEF Freezes, Empty, Everywhere, WireGood

\* The pump at rest, in a pass of the configured set, and kicked.
LEMMA PumpIsGood ==
    ASSUME NEW t \in Nat, NEW m \in Nat, generation \in Generations, mark \in Nat
    PROVE  /\ PumpGood(Idle, t, m, generation)
           /\ PumpGood([Idle EXCEPT !.at = "delay"], t, m, generation)
           /\ \A through \in 0..t : \A above \in Nat :
                 PumpGood(Pass(through, above), t, m, generation)
           /\ \A p : PumpGood(p, t, m, generation) =>
                 \A through \in 0..t : PumpGood(Kick(p, through), t, m, generation)
<1>1. /\ PumpGood(Idle, t, m, generation)
      /\ PumpGood([Idle EXCEPT !.at = "delay"], t, m, generation)
  <2>1. 0 \in 0..t /\ 0 \in 0..MaxGeneration
    BY BarrierConstants
  <2>2. PumpGood(Idle, t, m, generation)
    BY <2>1 DEF PumpGood, Idle
  <2>3. ASSUME NEW p, PumpGood(p, t, m, generation)
        PROVE  PumpGood([p EXCEPT !.at = "delay"], t, m, generation)
    BY <2>3 DEF PumpGood
  <2> QED
    BY <2>2, <2>3
<1>2. ASSUME NEW through \in 0..t, NEW above \in Nat
      PROVE  PumpGood(Pass(through, above), t, m, generation)
  <2>1. generation \in 0..MaxGeneration
    BY BarrierConstants DEF Generations
  <2>2. PICK n \in 0..t : n = IF through > above THEN through ELSE 0
    OBVIOUS
  <2>3. Pass(through, above) = [at |-> "pass", set |-> generation,
                                kicked |-> FALSE, tip |-> n]
    BY <2>2 DEF Pass
  <2> QED
    BY <2>1, <2>3 DEF PumpGood
<1>3. ASSUME NEW p, PumpGood(p, t, m, generation), NEW through \in 0..t
      PROVE  PumpGood(Kick(p, through), t, m, generation)
  <2>1. PumpGood([p EXCEPT !.kicked = TRUE], t, m, generation)
    BY Zenon, <1>3 DEF PumpGood
  <2> QED
    BY <1>2, <1>3, <2>1 DEF Kick
<1> QED
  BY <1>1, <1>2, <1>3

\* The pump stays good when frames are committed and receipted.
LEMMA PumpGoodLater ==
    ASSUME NEW p, NEW t \in Nat, NEW m \in Nat, NEW g, PumpGood(p, t, m, g),
           NEW t2 \in Nat, NEW m2 \in Nat, t <= t2, m <= m2
    PROVE  PumpGood(p, t2, m2, g)
BY DEF PumpGood

-----------------------------------------------------------------------------
(* The steps of the promise.                                                *)

Promised == [Promise!Next]_(Promise!vars)

\* A step that sends nothing, holds nothing and loses no connection may let
\* the guardians hold more.
LEMMA StoresIsPromised ==
    ASSUME UNCHANGED <<queue, link, sent, seen>>,
           stored[generation] <= stored'[generation']
    PROVE  Promised
BY DEF Promised, Promise!Next, Promise!Stores

\* A freeze gives up what waits, with every connection.
LEMMA FreezeIsPromised ==
    ASSUME Freezes, stored'[generation'] = stored[generation]
    PROVE  Promised
<1>1. Promise!Drops(Channel)
  BY DEF Freezes, Empty, Everywhere, Promise!Drops
<1> QED
  BY <1>1 DEF Promised, Promise!Next

-----------------------------------------------------------------------------
(* A batch, from the channel manager to the peer.                           *)

\* A batch at the tip joins a queue.
LEMMA HoldBatchGood ==
    ASSUME BInv, NEW c \in Channel, link[c] # "down",
           NEW b \in Batch, b.frame = tip', tip <= tip', UNCHANGED mark,
           queue[c] = << >> => b.gated /\ b.frame > 0,
           HoldBatch(c, b), UNCHANGED <<stored, generation>>
    PROVE  WireGood' /\ Promised
<1> DEFINE q == Append(queue[c], b)
           l == IF queue[c] = << >> THEN WhenReleased(b.frame) ELSE loop[c]
<1>1. /\ tip \in Nat /\ mark \in Nat /\ tip' \in Nat
      /\ queue[c] \in Seq(Batch) /\ Len(queue[c]) \in Nat
      /\ \A i \in 1..Len(queue[c]) : queue[c][i].frame \in Nat
  <2>1. queue[c] \in Seq(Batch)
    BY DEF BInv, WireGood
  <2>2. \A i \in 1..Len(queue[c]) : queue[c][i] \in Batch
    BY <2>1
  <2> QED
    BY <2>1, <2>2, BarrierConstants DEF BInv, BooksGood, Batch
<1>2. /\ q \in Seq(Batch) /\ q # << >> /\ Len(q) = Len(queue[c]) + 1
      /\ \A i \in 1..Len(queue[c]) : q[i] = queue[c][i]
      /\ q[Len(queue[c]) + 1] = b
  BY <1>1
<1>3. ChannelGood(queue[c], loop[c], link[c], sent[c], tip, mark)
  BY DEF BInv, WireGood
<1>4. /\ l \in {"parked", "durable", "refused"}
      /\ q[1].gated
      /\ l = "durable" => q[1].frame <= mark
      /\ l = "parked" => q[1].frame > 0
  <2>1. CASE queue[c] = << >>
    <3>1. Len(queue[c]) = 0
      BY <2>1
    <3> QED
      BY <1>2, <2>1, <3>1 DEF WhenReleased
  <2>2. CASE queue[c] # << >>
    <3>1. 1 \in 1..Len(queue[c])
      BY <1>1, <2>2
    <3> QED
      BY <1>2, <1>3, <2>2, <3>1 DEF ChannelGood
  <2> QED
    BY <2>1, <2>2
<1> HIDE DEF q, l
<1>5. ASSUME NEW i \in 1..Len(q)
      PROVE  /\ sent[c] <= q[i].frame /\ q[i].frame <= tip'
             /\ \A j \in 1..Len(q) : i <= j => q[i].frame <= q[j].frame
  <2>1. /\ sent[c] \in Nat /\ sent[c] <= tip
        /\ \A j \in 1..Len(queue[c]) :
              sent[c] <= queue[c][j].frame /\ queue[c][j].frame <= tip
        /\ \A j, k \in 1..Len(queue[c]) :
              j <= k => queue[c][j].frame <= queue[c][k].frame
    BY <1>1, <1>3 DEF ChannelGood
  <2>2. \A j \in 1..Len(q) : j \in 1..Len(queue[c]) \/ j = Len(queue[c]) + 1
    BY <1>1, <1>2
  <2>3. CASE i \in 1..Len(queue[c])
    <3>1. sent[c] <= q[i].frame /\ q[i].frame <= tip'
      <4>1. q[i] = queue[c][i]
        BY <1>2, <2>3
      <4>2. sent[c] <= queue[c][i].frame /\ queue[c][i].frame <= tip
        BY <2>1, <2>3
      <4>3. queue[c][i].frame \in Nat
        BY <1>1, <2>3
      <4> QED
        BY <1>1, <4>1, <4>2, <4>3
    <3>2. ASSUME NEW j \in 1..Len(q), i <= j PROVE q[i].frame <= q[j].frame
      <4>1. CASE j \in 1..Len(queue[c])
        BY <1>2, <2>1, <2>3, <3>2, <4>1
      <4>2. CASE j = Len(queue[c]) + 1
        BY <1>2, <3>1, <4>2
      <4> QED
        BY <2>2, <4>1, <4>2
    <3> QED
      BY <3>1, <3>2
  <2>4. CASE i = Len(queue[c]) + 1
    <3>1. \A j \in 1..Len(q) : i <= j => j = i
      BY <1>1, <1>2, <2>4
    <3> QED
      BY <1>1, <1>2, <2>1, <2>4, <3>1
  <2> QED
    BY <2>2, <2>3, <2>4
<1>6. ChannelGood(q, l, link[c], sent[c], tip', mark)
  <2>1. /\ link[c] \in {"down", "up", "closing"} /\ sent[c] \in 0..tip'
    BY <1>1, <1>3 DEF ChannelGood
  <2> QED
    BY <1>2, <1>4, <1>5, <2>1 DEF ChannelGood
<1>7. /\ queue' = [queue EXCEPT ![c] = q] /\ loop' = [loop EXCEPT ![c] = l]
      /\ link' = [link EXCEPT ![c] = link[c]] /\ sent' = [sent EXCEPT ![c] = sent[c]]
  BY Zenon DEF HoldBatch, BInv, WireGood, q, l
<1>8. WireGood'
  <2>1. mark' \in Nat /\ mark <= mark' /\ ChannelGood(q, l, link[c], sent[c], tip', mark')
    BY <1>1, <1>6
  <2> QED
    BY Zenon, <1>1, <1>7, <2>1, WireChangedAt
<1>9. Promise!Holds(c)
  <2>1. queue' = [queue EXCEPT ![c] = Append(@, b)] /\ UNCHANGED <<link, sent, seen>>
    BY DEF HoldBatch
  <2>2. b \in Promise!Batch
    BY DEF Batch, Promise!Batch
  <2> QED
    BY Zenon, <2>1, <2>2 DEF Promise!Holds
<1> QED
  BY <1>8, <1>9 DEF Promised, Promise!Next

\* A batch at the tip is sent at once.
LEMMA SendsNowGood ==
    ASSUME BInv, NEW c \in Channel, link[c] # "down", queue[c] = << >>,
           NEW b \in Batch, b.frame = tip', tip <= tip', UNCHANGED mark,
           b.gated => b.frame <= mark,
           SendsNow(c, b), UNCHANGED <<stored, generation>>
    PROVE  WireGood' /\ Promised /\ seen' \in 0..mark
<1>1. /\ tip \in Nat /\ mark \in Nat /\ tip' \in Nat /\ seen \in 0..mark
      /\ stored[generation] \in Nat /\ mark <= stored[generation]
  BY BarrierConstants DEF BInv, BooksGood, Batch
<1>2. seen' = (IF b.gated THEN Larger(seen, b.frame) ELSE seen) /\ seen' \in 0..mark
  BY <1>1 DEF SendsNow, Larger
<1>3. ChannelGood(queue[c], loop[c], link[c], sent[c], tip, mark)
  BY DEF BInv, WireGood
<1>4. ChannelGood(queue[c], loop[c], link[c], b.frame, tip', mark)
  <2>1. /\ loop[c] = "none" /\ link[c] \in {"up", "closing"} /\ b.frame \in 0..tip'
    BY <1>1, <1>3 DEF ChannelGood
  <2>2. ChannelGood(<< >>, "none", link[c], b.frame, tip', mark)
    BY <1>1, <2>1, EmptyIsGood
  <2> QED
    BY <2>1, <2>2
<1>5. /\ queue' = [queue EXCEPT ![c] = queue[c]] /\ loop' = [loop EXCEPT ![c] = loop[c]]
      /\ link' = [link EXCEPT ![c] = link[c]] /\ sent' = [sent EXCEPT ![c] = b.frame]
  BY DEF SendsNow, BInv, WireGood
<1>6. WireGood'
  <2>1. /\ mark' \in Nat /\ mark <= mark'
        /\ ChannelGood(queue[c], loop[c], link[c], b.frame, tip', mark')
    BY <1>1, <1>4
  <2> QED
    BY Zenon, <1>1, <1>5, <2>1, WireChangedAt
<1>7. Promise!Sends(c, <<b>>)
  <2>1. sent[c] \in Nat /\ sent[c] <= b.frame
    BY <1>1, <1>3 DEF ChannelGood
  <2>2. {<<b>>[i].frame : i \in {j \in DOMAIN <<b>> : <<b>>[j].gated}} =
           IF b.gated THEN {b.frame} ELSE {}
    OBVIOUS
  <2>3. \A i \in DOMAIN <<b>> : <<b>>[i].gated => <<b>>[i].frame <= stored[generation]
    BY <1>1
  <2>4. sent' = [sent EXCEPT ![c] = <<b>>[Len(<<b>>)].frame] /\ <<b>>[1].frame >= sent[c]
    BY Zenon, <2>1 DEF SendsNow
  <2>5. /\ seen' \in (IF b.gated THEN {b.frame} ELSE {}) \cup {seen}
        /\ \A n \in (IF b.gated THEN {b.frame} ELSE {}) \cup {seen} : n <= seen'
    BY <1>1, <1>2 DEF Larger
  <2> QED
    BY <2>2, <2>3, <2>4, <2>5 DEF Promise!Sends
<1>8. Promise!LeavesAtOnce(c)
  <2>1. b \in Promise!Batch
    BY DEF Batch, Promise!Batch
  <2> QED
    BY <1>7, <2>1 DEF Promise!LeavesAtOnce, SendsNow
<1> QED
  BY <1>2, <1>6, <1>8 DEF Promised, Promise!Next

\* What is left to show of a step of a connected channel.
LEMMA ChannelStepGood ==
    ASSUME BInv, NEW c \in Channel, link[c] # "down",
           UNCHANGED <<mark, generation, stored, taken, retired, barrier, gate,
                       ask, restarts>>,
           tip' \in tip..MaxFrames, seen' \in 0..mark, orphans' \subseteq 1..tip',
           PumpGood(pump', tip', mark, generation), WireGood'
    PROVE  BInv'
<1>1. barrier = "open" /\ gate # "fenced"
  BY DEF BInv, SilentGood, BooksGood
<1>2. SilentGood'
  BY <1>1 DEF SilentGood
<1>3. tip \in Nat /\ tip' \in 0..MaxFrames /\ mark' \in 0..tip'
  BY BarrierConstants DEF BInv, BooksGood
<1>4. stored' \in [Generations -> 0..tip']
  BY <1>3, BarrierConstants DEF BInv, BooksGood
<1>5. BooksGood'
  BY <1>3, <1>4 DEF BInv, BooksGood
<1> QED
  BY <1>2, <1>5 DEF BInv

\* What the invariant says of the books, for the step lemmas.
LEMMA Books ==
    ASSUME BInv
    PROVE  /\ tip \in Nat /\ tip \in 0..MaxFrames /\ mark \in Nat /\ mark \in 0..tip
           /\ seen \in Nat /\ seen \in 0..mark
           /\ generation \in Generations /\ stored[generation] \in Nat
           /\ orphans \subseteq 1..tip
           /\ PumpGood(pump, tip, mark, generation)
BY BarrierConstants DEF BInv, BooksGood

\* A batch with a saved frame, from processActionsUnchecked to the queue or the peer.
LEMMA ProcessesBatchStep ==
    ASSUME BInv, NEW c \in Channel, NEW gated \in BOOLEAN, ProcessesBatch(c, gated)
    PROVE  BInv' /\ Promised
<1> DEFINE b == [frame |-> tip + 1, gated |-> gated]
<1>1. /\ link[c] # "down" /\ tip' = tip + 1 /\ tip' \in tip..MaxFrames
      /\ UNCHANGED <<mark, generation, stored, taken, retired, barrier, orphans,
                     gate, ask, restarts>>
      /\ b \in Batch /\ b.frame = tip' /\ b.frame > mark
  BY Books, BarrierConstants DEF ProcessesBatch, Batch, guardians, ownership
<1>2. orphans' \subseteq 1..tip'
  BY <1>1, Books
<1>3. PumpGood(pump', tip', mark, generation)
  <2>1. PumpGood(pump, tip', mark, generation)
    BY <1>1, Books, PumpGoodLater
  <2>2. PumpGood(Kick(pump, tip + 1), tip', mark, generation)
    BY <1>1, <2>1, Books, PumpIsGood
  <2>3. PumpGood(Kick(Kick(pump, tip + 1), tip + 1), tip', mark, generation)
    BY <1>1, <2>2, Books, PumpIsGood
  <2>4. \/ pump' = Kick(pump, tip + 1)
        \/ pump' = Kick(Kick(pump, tip + 1), tip + 1)
    BY DEF ProcessesBatch
  <2> QED
    BY <2>2, <2>3, <2>4
<1>4. CASE ShouldHold(c, b)
  <2>1. HoldBatch(c, b)
    BY <1>4 DEF ProcessesBatch
  <2>2. queue[c] = << >> => b.gated /\ b.frame > 0
    BY <1>1, <1>4, Books DEF ShouldHold
  <2> HIDE DEF b
  <2>3. WireGood' /\ Promised
    BY <1>1, <2>1, <2>2, Books, HoldBatchGood
  <2>4. seen' \in 0..mark
    BY <2>1, Books DEF HoldBatch
  <2> QED
    BY <1>1, <1>2, <1>3, <2>3, <2>4, ChannelStepGood
<1>5. CASE ~ShouldHold(c, b)
  <2>1. SendsNow(c, b)
    BY <1>5 DEF ProcessesBatch
  <2>2. queue[c] = << >> /\ (b.gated => b.frame <= mark)
    BY <1>5 DEF ShouldHold, IsReleased
  <2> HIDE DEF b
  <2>3. WireGood' /\ Promised /\ seen' \in 0..mark
    BY <1>1, <2>1, <2>2, Books, SendsNowGood
  <2> QED
    BY <1>1, <1>2, <1>3, <2>3, ChannelStepGood
<1> QED
  BY <1>4, <1>5

\* A batch without one.
LEMMA ProcessesUnsavedStep ==
    ASSUME BInv, NEW c \in Channel, ProcessesUnsaved(c)
    PROVE  BInv' /\ Promised
<1> DEFINE b == [frame |-> tip, gated |-> FALSE]
<1>1. /\ link[c] # "down" /\ tip' = tip /\ tip' \in tip..MaxFrames
      /\ UNCHANGED <<mark, generation, stored, taken, retired, barrier, pump,
                     orphans, gate, ask, restarts>>
      /\ b \in Batch /\ b.frame = tip' /\ ~b.gated
  BY Books, BarrierConstants
     DEF ProcessesUnsaved, Batch, disk, guardians, replication, ownership
<1>2. orphans' \subseteq 1..tip' /\ PumpGood(pump', tip', mark, generation)
  BY <1>1, Books
<1>3. CASE queue[c] # << >>
  <2>1. HoldBatch(c, b)
    BY <1>3 DEF ProcessesUnsaved
  <2> HIDE DEF b
  <2>2. WireGood' /\ Promised
    BY <1>1, <1>3, <2>1, Books, HoldBatchGood
  <2>3. seen' \in 0..mark
    BY <2>1, Books DEF HoldBatch
  <2> QED
    BY <1>1, <1>2, <2>2, <2>3, ChannelStepGood
<1>4. CASE queue[c] = << >>
  <2>1. SendsNow(c, b)
    BY <1>4 DEF ProcessesUnsaved
  <2> HIDE DEF b
  <2>2. WireGood' /\ Promised /\ seen' \in 0..mark
    BY <1>1, <1>4, <2>1, Books, SendsNowGood
  <2> QED
    BY <1>1, <1>2, <2>2, ChannelStepGood
<1> QED
  BY <1>3, <1>4

-----------------------------------------------------------------------------
(* Batches that leave a queue.                                             *)

\* A step that only closes the queue of a connected channel, with a link that
\* is to be replaced, after n of the released batches were sent.
LEMMA TornDown ==
    ASSUME BInv, NEW c \in Channel, link[c] # "down",
           queue' = [queue EXCEPT ![c] = << >>],
           loop' = [loop EXCEPT ![c] = "none"],
           link' = [link EXCEPT ![c] = "closing"],
           UNCHANGED <<disk, guardians, replication, ownership, restarts>>,
           \/ UNCHANGED <<sent, seen>>
           \/ /\ loop[c] = "durable"
              /\ \E n \in 0..Drained(queue[c]) : SendsHeld(c, n)
    PROVE  BInv' /\ Promised
<1>1. /\ UNCHANGED <<tip, mark, generation, stored, taken, retired, barrier, pump,
                     orphans, gate, ask, restarts>>
  BY DEF disk, guardians, replication, ownership
<1>2. ChannelGood(queue[c], loop[c], link[c], sent[c], tip, mark)
  BY DEF BInv, WireGood
<1>3. PICK s \in 0..tip : sent' = [sent EXCEPT ![c] = s]
  <2>1. CASE UNCHANGED <<sent, seen>>
    <3>1. sent' = [sent EXCEPT ![c] = sent[c]]
      BY <2>1 DEF BInv, WireGood
    <3> QED
      BY Zenon, <1>2, <3>1 DEF ChannelGood
  <2>2. ASSUME loop[c] = "durable", NEW n \in 0..Drained(queue[c]), SendsHeld(c, n)
        PROVE  \E s \in 0..tip : sent' = [sent EXCEPT ![c] = s]
    <3>1. CASE n = 0
      <4>1. sent' = [sent EXCEPT ![c] = sent[c]]
        BY <2>2, <3>1, SendsHeldEffect DEF BInv, WireGood
      <4> QED
        BY Zenon, <1>2, <4>1 DEF ChannelGood
    <3>2. CASE n # 0
      <4>1. n \in 1..Len(queue[c])
        BY <2>2, <3>2, LoopHasQueue, DrainedIsUngated
      <4>2. queue[c][n].frame \in 0..tip
        <5>1. queue[c][n].frame <= tip
          BY <1>2, <4>1 DEF ChannelGood
        <5>2. queue[c][n].frame \in Nat
          BY <2>2, <4>1, LoopHasQueue
        <5> QED
          BY <5>1, <5>2, Books
      <4> QED
        BY <2>2, <3>2, <4>1, <4>2, SendsHeldEffect
    <3> QED
      BY <3>1, <3>2
  <2> QED
    BY <2>1, <2>2
<1>4. WireGood'
  <2>1. PICK k \in {"down", "up", "closing"} : k = "closing"
    OBVIOUS
  <2>2. link' = [link EXCEPT ![c] = k] /\ k # "down"
    BY <2>1
  <2> QED
    BY Zenon, <1>1, <1>3, <2>2, WireEmptied
<1>5. seen' \in 0..mark
  BY SendsHeldEffect, Books
<1>6. BInv'
  <2>1. /\ tip' \in tip..MaxFrames /\ orphans' \subseteq 1..tip'
        /\ PumpGood(pump', tip', mark, generation)
    BY <1>1, Books
  <2> QED
    BY <1>1, <1>4, <1>5, <2>1, ChannelStepGood
<1>7. Promise!GivesUp(c)
  <2>1. /\ UNCHANGED stored[generation]
        /\ [d \in Channel |-> link'[d] # "up"] =
              [[d \in Channel |-> link[d] # "up"] EXCEPT ![c] = TRUE]
    BY Zenon, <1>1 DEF BInv, WireGood
  <2>2. \/ UNCHANGED <<sent, seen>>
        \/ \E n \in 1..Len(queue[c]) : Promise!Sends(c, SubSeq(queue[c], 1, n))
    <3> SUFFICES ASSUME loop[c] = "durable",
                        NEW n \in 0..Drained(queue[c]), SendsHeld(c, n)
                 PROVE  \/ UNCHANGED <<sent, seen>>
                        \/ \E i \in 1..Len(queue[c]) :
                              Promise!Sends(c, SubSeq(queue[c], 1, i))
      OBVIOUS
    <3>1. n = 0 \/ (n > 0 /\ n \in 1..Len(queue[c]))
      BY LoopHasQueue, DrainedIsUngated
    <3> QED
      BY <3>1, SendsHeldEffect
  <2> QED
    BY <2>1, <2>2 DEF Promise!GivesUp
<1> QED
  BY <1>6, <1>7 DEF Promised, Promise!Next

\* A listener throws, or the wait ended in a refusal.
LEMMA DispatchThrowsStep ==
    ASSUME BInv, NEW c \in Channel, DispatchThrows(c) \/ DiscardsHeld(c)
    PROVE  BInv' /\ Promised
<1>1. link[c] # "down"
  BY DEF DispatchThrows, DiscardsHeld, BInv, WireGood, ChannelGood
<1> QED
  BY <1>1, TornDown DEF DispatchThrows, DiscardsHeld

\* The batches behind the first n.
LEMMA RestOfQueue ==
    ASSUME NEW q \in Seq(Batch), NEW n \in 1..Len(q)
    PROVE  LET rest == SubSeq(q, n + 1, Len(q)) IN
           /\ rest \in Seq(Batch) /\ Len(rest) = Len(q) - n
           /\ \A i \in 1..Len(rest) : i + n \in 1..Len(q) /\ rest[i] = q[i + n]
<1>1. PICK rest : rest = SubSeq(q, n + 1, Len(q))
  BY Zenon
<1>2. Len(q) \in Nat /\ \A i \in (n + 1)..Len(q) : q[i] \in Batch
  OBVIOUS
<1>3. /\ rest \in Seq(Batch)
      /\ Len(rest) = IF n + 1 <= Len(q) THEN Len(q) - (n + 1) + 1 ELSE 0
      /\ \A i \in 1..(Len(q) - (n + 1) + 1) : rest[i] = q[n + 1 + i - 1]
  BY <1>1, <1>2
<1>4. PICK len \in Nat : len = Len(q) /\ n <= len
  BY <1>2
<1>5. Len(rest) = len - n
  BY <1>3, <1>4
<1>6. ASSUME NEW i \in 1..(len - n)
      PROVE  i + n \in 1..len /\ rest[i] = q[i + n]
  <2>1. i + n \in 1..len /\ n + 1 + i - 1 = i + n /\ i \in 1..(len - (n + 1) + 1)
    BY <1>4
  <2>2. rest[i] = q[n + 1 + i - 1]
    BY <1>3, <1>4, <2>1
  <2> QED
    BY <2>1, <2>2
<1> QED
  BY <1>1, <1>3, <1>4, <1>5, <1>6

\* What a release leaves in a queue begins with a gated batch, and none of it
\* is older than what was sent.
LEMMA RestIsGood ==
    ASSUME BInv, NEW q \in Seq(Batch), NEW k, NEW s, NEW n \in 1..Len(q),
           ChannelGood(q, "durable", k, s, tip, mark),
           n < Len(q) => q[n + 1].gated,
           NEW rest \in Seq(Batch), Len(rest) = Len(q) - n,
           \A i \in 1..Len(rest) : i + n \in 1..Len(q) /\ rest[i] = q[i + n],
           NEW l, l = IF rest = << >> THEN "none" ELSE WhenReleased(rest[1].frame)
    PROVE  ChannelGood(rest, l, k, q[n].frame, tip, mark)
<1>1. Len(q) \in Nat /\ \A i \in 1..Len(q) : q[i] \in Batch /\ q[i].frame \in Nat
  <2>1. Len(q) \in Nat /\ \A i \in 1..Len(q) : q[i] \in Batch
    OBVIOUS
  <2> QED
    BY <2>1, BarrierConstants DEF Batch
<1>2. /\ k \in {"up", "closing"}
      /\ \A i \in 1..Len(q) : q[i].frame <= tip
      /\ \A i, j \in 1..Len(q) : i <= j => q[i].frame <= q[j].frame
  BY DEF ChannelGood
<1>3. q[n].frame \in 0..tip
  BY <1>1, <1>2, Books
<1>4. rest # << >> => 1 \in 1..Len(rest) /\ rest[1].gated /\ rest[1].frame \in Nat
  <2> SUFFICES ASSUME rest # << >>
               PROVE  1 \in 1..Len(rest) /\ rest[1].gated /\ rest[1].frame \in Nat
    OBVIOUS
  <2>1. 1 \in 1..Len(rest)
    OBVIOUS
  <2>2. 1 + n \in 1..Len(q) /\ rest[1] = q[1 + n]
    BY <2>1
  <2>3. n < Len(q) /\ 1 + n = n + 1
    BY <1>1, <2>2
  <2> QED
    BY <1>1, <2>1, <2>2, <2>3
<1>5. /\ l \in {"none", "parked", "durable", "refused"}
      /\ l = "none" <=> rest = << >>
      /\ l # "none" => rest[1].gated
      /\ l = "durable" => rest[1].frame <= mark
      /\ l = "parked" => rest[1].frame > 0
  <2>1. CASE rest = << >>
    BY <2>1
  <2>2. CASE rest # << >>
    BY <1>4, <2>2, Books DEF WhenReleased
  <2> QED
    BY <2>1, <2>2
<1>6. ASSUME NEW i \in 1..Len(rest)
      PROVE  /\ q[n].frame <= rest[i].frame /\ rest[i].frame <= tip
             /\ \A j \in 1..Len(rest) : i <= j => rest[i].frame <= rest[j].frame
  <2>1. i + n \in 1..Len(q) /\ rest[i] = q[i + n]
    OBVIOUS
  <2>2. q[n].frame <= rest[i].frame /\ rest[i].frame <= tip
    BY <1>2, <2>1
  <2>3. ASSUME NEW j \in 1..Len(rest), i <= j PROVE rest[i].frame <= rest[j].frame
    <3>1. j + n \in 1..Len(q) /\ rest[j] = q[j + n]
      OBVIOUS
    <3>2. i + n <= j + n
      BY <1>1, <2>3
    <3> QED
      BY <1>2, <2>1, <3>1, <3>2
  <2> QED
    BY <2>2, <2>3
<1> QED
  BY <1>2, <1>3, <1>5, <1>6 DEF ChannelGood

\* The wait ended in a release.
LEMMA ReleasesStep ==
    ASSUME BInv, NEW c \in Channel, Releases(c)
    PROVE  BInv' /\ Promised
<1> DEFINE q == queue[c]
           n == Drained(q)
           rest == SubSeq(q, n + 1, Len(q))
           l == IF rest = << >> THEN "none" ELSE WhenReleased(rest[1].frame)
<1>1. /\ loop[c] = "durable" /\ SendsHeld(c, n)
      /\ queue' = [queue EXCEPT ![c] = rest] /\ loop' = [loop EXCEPT ![c] = l]
      /\ pump' = (IF loop'[c] = "parked" THEN Kick(pump, tip) ELSE pump)
      /\ UNCHANGED <<tip, mark, generation, stored, taken, retired, barrier, orphans,
                     gate, ask, restarts, link>>
  BY DEF Releases, disk, guardians, ownership
<1>2. /\ q \in Seq(Batch) /\ Len(q) \in Nat /\ n \in 1..Len(q)
      /\ n < Len(q) => q[n + 1].gated
  BY <1>1, LoopHasQueue, DrainedIsUngated
<1>3. /\ rest \in Seq(Batch) /\ Len(rest) = Len(q) - n
      /\ \A i \in 1..Len(rest) : i + n \in 1..Len(q) /\ rest[i] = q[i + n]
  BY Zenon, <1>2, RestOfQueue
<1>4. ChannelGood(q, "durable", link[c], sent[c], tip, mark)
  BY <1>1 DEF BInv, WireGood
<1>5. /\ sent' = [sent EXCEPT ![c] = q[n].frame]
      /\ Promise!Sends(c, SubSeq(q, 1, n)) /\ seen' \in 0..tip /\ seen' <= mark
  <2>1. n \in 0..Drained(q) /\ n > 0
    BY <1>2
  <2> QED
    BY <1>1, <2>1, SendsHeldEffect
<1>6. Promise!Leaves(c)
  <2>1. queue' = [queue EXCEPT ![c] = SubSeq(@, n + 1, Len(@))]
    BY <1>1
  <2> QED
    BY Zenon, <1>1, <1>2, <1>5, <2>1 DEF Promise!Leaves
<1>7. l = IF rest = << >> THEN "none" ELSE WhenReleased(rest[1].frame)
  OBVIOUS
<1> HIDE DEF n, rest, l
<1>8. ChannelGood(rest, l, link[c], q[n].frame, tip, mark)
  BY Zenon, <1>2, <1>3, <1>4, <1>7, RestIsGood
<1>9. WireGood'
  <2>1. link' = [link EXCEPT ![c] = link[c]]
    BY <1>1 DEF BInv, WireGood
  <2>2. tip' \in Nat /\ mark' \in Nat /\ tip <= tip' /\ mark <= mark'
    BY <1>1, Books
  <2>3. ChannelGood(rest, l, link[c], q[n].frame, tip', mark')
    BY <1>1, <1>8
  <2> QED
    BY Zenon, <1>1, <1>5, <2>1, <2>2, <2>3, WireChangedAt
<1>10. link[c] # "down"
  BY <1>4 DEF ChannelGood
<1>11. PumpGood(pump', tip', mark, generation)
  BY <1>1, Books, PumpIsGood
<1>12. /\ tip' \in tip..MaxFrames /\ seen' \in 0..mark /\ orphans' \subseteq 1..tip'
  BY <1>1, <1>5, Books
<1>13. BInv'
  BY <1>1, <1>9, <1>10, <1>11, <1>12, ChannelStepGood
<1> QED
  BY <1>6, <1>13 DEF Promised, Promise!Next

=============================================================================
