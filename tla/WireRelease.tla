---------------------------- MODULE WireRelease -----------------------------
(***************************************************************************)
(* What the quorum durability barrier promises the peers of a node          *)
(* (docs/RECOVERY-PROTOCOL.md 5.8), with none of the machinery.  A batch of *)
(* wire messages carries the journal frame it was made at and says whether  *)
(* it is gated.  The batches of one channel leave in the order they were    *)
(* made, and a gated one only once its frame is durable.  What waits may be *)
(* given up, all of it, and the connection has to be replaced then.         *)
(***************************************************************************)
EXTENDS Naturals, Sequences

CONSTANTS Channel, Frame

VARIABLES
    durable,    \* the last frame that outlives this device
    pending,    \* [Channel -> batches made and not sent, oldest first]
    sent,       \* [Channel -> frame of the last batch sent on this connection]
    broken,     \* [Channel -> there is no connection, or it must be replaced]
    seen        \* the highest frame of a gated batch that was sent

vars == <<durable, pending, sent, broken, seen>>

Batch == [frame : Frame, gated : BOOLEAN]

Init ==
    /\ durable = 0
    /\ pending = [c \in Channel |-> << >>]
    /\ sent = [c \in Channel |-> 0]
    /\ broken = [c \in Channel |-> TRUE]
    /\ seen = 0

\* What the peer of c has seen once some batches were sent.
Sends(c, batches) ==
    /\ \A i \in DOMAIN batches :
          batches[i].gated => batches[i].frame <= durable
    /\ batches[1].frame >= sent[c]
    /\ sent' = [sent EXCEPT ![c] = batches[Len(batches)].frame]
    /\ LET shown == {batches[i].frame :
                        i \in {j \in DOMAIN batches : batches[j].gated}}
       IN  /\ seen' \in shown \cup {seen}
           /\ \A n \in shown \cup {seen} : n <= seen'

Stores == durable' >= durable /\ UNCHANGED <<pending, sent, broken, seen>>

\* A batch is made and waits behind the ones before it.
Holds(c) ==
    /\ \E b \in Batch : pending' = [pending EXCEPT ![c] = Append(@, b)]
    /\ UNCHANGED <<durable, sent, broken, seen>>

\* The oldest batches that wait leave.
Leaves(c) ==
    /\ \E n \in 1..Len(pending[c]) :
          /\ Sends(c, SubSeq(pending[c], 1, n))
          /\ pending' = [pending EXCEPT ![c] = SubSeq(@, n + 1, Len(@))]
    /\ UNCHANGED <<durable, broken>>

\* A batch leaves as it is made, when none waits before it.
LeavesAtOnce(c) ==
    /\ pending[c] = << >>
    /\ \E b \in Batch : Sends(c, <<b>>)
    /\ UNCHANGED <<durable, pending, broken>>

\* The connection can no longer be trusted and has to be replaced.
Breaks(c) ==
    /\ broken' = [broken EXCEPT ![c] = TRUE]
    /\ UNCHANGED <<durable, pending, sent, seen>>

\* All that waits is given up, and the connection with it.  A dispatch that
\* failed has sent the oldest n.
GivesUp(c) ==
    /\ \/ UNCHANGED <<sent, seen>>
       \/ \E n \in 1..Len(pending[c]) : Sends(c, SubSeq(pending[c], 1, n))
    /\ pending' = [pending EXCEPT ![c] = << >>]
    /\ broken' = [broken EXCEPT ![c] = TRUE]
    /\ UNCHANGED durable

\* The connections of some peers are gone: one, or all when the node freezes
\* or restarts.
Drops(cs) ==
    /\ pending' = [c \in Channel |-> IF c \in cs THEN << >> ELSE pending[c]]
    /\ broken' = [c \in Channel |-> c \in cs \/ broken[c]]
    /\ sent' = [c \in Channel |-> IF c \in cs THEN 0 ELSE sent[c]]
    /\ UNCHANGED <<durable, seen>>

\* A new connection.
Replaces(c) ==
    /\ pending[c] = << >> /\ broken[c] /\ sent[c] = 0
    /\ broken' = [broken EXCEPT ![c] = FALSE]
    /\ UNCHANGED <<durable, pending, sent, seen>>

Next ==
    \/ Stores
    \/ Drops(Channel)
    \/ \E c \in Channel :
          \/ Holds(c) \/ Leaves(c) \/ LeavesAtOnce(c)
          \/ Breaks(c) \/ GivesUp(c) \/ Drops({c}) \/ Replaces(c)

Spec == Init /\ [][Next]_vars

=============================================================================
