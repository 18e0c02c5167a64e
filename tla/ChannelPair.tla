------------------------------ MODULE ChannelPair ------------------------------
(***************************************************************************)
(* Two nodes running the channel of module Channel over one connection     *)
(* (src/lightning/channel/channel-manager.ts).                              *)
(*                                                                         *)
(* A node's event loop runs one handler at a time, and a handler's batch   *)
(* of actions saves the record before it sends (processActions).  After an *)
(* update of its own, a commitment_signed, a revoke_and_ack or the replay  *)
(* of a reconnection the manager calls autoSignAndSendCommitment, a SECOND *)
(* batch with a save of its own: `signing' marks a node between the two.   *)
(* Only a crash can come between them at the same node.                    *)
(*                                                                         *)
(* The connection delivers in order.  When it goes, what was in flight is  *)
(* lost and both sides roll back with markForReestablish; a crash also     *)
(* takes a node back to the record it last saved.                          *)
(***************************************************************************)
EXTENDS Channel

CONSTANTS
  Amounts,          \* the HTLC amounts offered
  Feerates,         \* the fee rates the opener announces
  OpenerAdds, AcceptorAdds, \* bound: HTLCs offered by each side
  MaxFeeUpdates,    \* bound: update_fee sent
  MaxDrops          \* bound: disconnections and crashes

VARIABLES
  ch,         \* each node's record, in memory
  disk,       \* the record each node last saved
  net,        \* net[p]: messages on their way to p
  connected,
  signing,    \* signing[p]: p owes the second batch of the step it is in
  feeUpdates, drops \* counters for the bounds

vars == <<ch, disk, net, connected, signing, feeUpdates, drops>>

MaxAdds(p) == IF p = Opener THEN OpenerAdds ELSE AcceptorAdds

\* What autoSignAndSendCommitment checks before it signs.
WillSign(c) ==
  c.state = "NORMAL" /\ c.needsCommitment /\ ~IsAwaitingRemoteRevocation(c)

Init ==
  /\ ch = [p \in Peer |-> NewChannel(p)]
  /\ disk = ch
  /\ net = [p \in Peer |-> << >>]
  /\ connected = TRUE
  /\ signing = [p \in Peer |-> FALSE]
  /\ feeUpdates = 0
  /\ drops = 0

\* p's event loop is free to start another handler.
Idle(p) == connected /\ ~signing[p]

\* A step of p that starts at p: save, send, then sign if that is due.
Originates(p, c, m) ==
  /\ ch' = [ch EXCEPT ![p] = c]
  /\ disk' = [disk EXCEPT ![p] = c]
  /\ net' = [net EXCEPT ![Other(p)] = Append(@, m)]
  /\ signing' = [signing EXCEPT ![p] = WillSign(c)]
  /\ UNCHANGED <<connected, drops>>

Sends(p, amt) ==
  /\ Idle(p)
  /\ ch[p].localHtlcCounter < MaxAdds(p)
  /\ MayAddHtlc(ch[p], amt)
  /\ Originates(p, AddHtlc(ch[p], amt), AddMessage(ch[p].localHtlcCounter, amt))
  /\ UNCHANGED feeUpdates

Fulfills(p, n) ==
  /\ Idle(p)
  /\ MaySettleHtlc(ch[p], <<"received", n>>)
  /\ Originates(p, FulfillHtlc(ch[p], n), Message("update_fulfill_htlc", n))
  /\ UNCHANGED feeUpdates

Fails(p, n) ==
  /\ Idle(p)
  /\ MaySettleHtlc(ch[p], <<"received", n>>)
  /\ Originates(p, FailHtlc(ch[p], n), Message("update_fail_htlc", n))
  /\ UNCHANGED feeUpdates

AnnouncesFee(p, rate) ==
  /\ Idle(p)
  /\ feeUpdates < MaxFeeUpdates
  /\ MayUpdateFee(p, ch[p])
  /\ feeUpdates' = feeUpdates + 1
  /\ Originates(p, UpdateFee(ch[p], rate), FeeMessage(rate))

\* autoSignAndSendCommitment, the second batch.
AutoSigns(p) ==
  /\ connected
  /\ signing[p]
  /\ LET c == SignCommitment(p, ch[p])
     IN  /\ ch' = [ch EXCEPT ![p] = c]
         /\ disk' = [disk EXCEPT ![p] = c]
         /\ net' = [net EXCEPT ![Other(p)] =
                      Append(@, CommitmentSigned(c.lastSentCommitmentSigned))]
  /\ signing' = [signing EXCEPT ![p] = FALSE]
  /\ UNCHANGED <<connected, feeUpdates, drops>>

------------------------------------------------------------------------------
\* Handling a message

Arrives(p, type) == Idle(p) /\ net[p] # << >> /\ Head(net[p]).type = type

\* Mutant: sends before it has saved.
HandlesUnsaved(p, c, save, out) ==
  /\ ch' = [ch EXCEPT ![p] = c]
  /\ net' = [net EXCEPT ![p] = Tail(@), ![Other(p)] = @ \o out]
  /\ UNCHANGED <<disk, connected, feeUpdates, drops>>

\* p handles the next message: its record becomes c, it is saved when the
\* handler says so, `out' is sent.
Handles(p, c, save, out) ==
  /\ ch' = [ch EXCEPT ![p] = c]
  /\ disk' = [disk EXCEPT ![p] = IF save THEN c ELSE @]
  /\ net' = [net EXCEPT ![p] = Tail(@), ![Other(p)] = @ \o out]
  /\ UNCHANGED <<connected, feeUpdates, drops>>

\* An update of the peer's is kept in memory only; failing the channel saves.
HandlesUpdate(p, c) ==
  /\ Handles(p, c, c.state = "ERRORED" /\ ch[p].state # "ERRORED", << >>)
  /\ UNCHANGED signing

ReceivesAdd(p) ==
  /\ Arrives(p, "update_add_htlc")
  /\ HandlesUpdate(p, HandleUpdateAddHtlc(ch[p], Head(net[p])))

ReceivesFulfill(p) ==
  /\ Arrives(p, "update_fulfill_htlc")
  /\ HandlesUpdate(p, HandleUpdateFulfillHtlc(ch[p], Head(net[p])))

ReceivesFail(p) ==
  /\ Arrives(p, "update_fail_htlc")
  /\ HandlesUpdate(p, HandleUpdateFailHtlc(ch[p], Head(net[p])))

ReceivesFee(p) ==
  /\ Arrives(p, "update_fee")
  /\ HandlesUpdate(p, HandleUpdateFee(p, ch[p], Head(net[p])))

ReceivesCommitmentSigned(p) ==
  /\ Arrives(p, "commitment_signed")
  /\ LET c == HandleCommitmentSigned(p, ch[p], Head(net[p]))
         accepted == c.localCommitmentNumber # ch[p].localCommitmentNumber
     IN  /\ Handles(p, c, c # ch[p],
                    IF accepted THEN << RevokeAndAck(ch[p].localCommitmentNumber) >>
                                ELSE << >>)
         /\ signing' = [signing EXCEPT ![p] = accepted /\ WillSign(c)]

\* Mutant: the deferred signature is not taken up again.
ReceivesRevokeAndAckOnly(p) ==
  /\ Arrives(p, "revoke_and_ack")
  /\ LET c == HandleRevokeAndAck(p, ch[p], Head(net[p]))
     IN  Handles(p, c, c # ch[p], << >>)
  /\ UNCHANGED signing

ReceivesRevokeAndAck(p) ==
  /\ Arrives(p, "revoke_and_ack")
  /\ LET c == HandleRevokeAndAck(p, ch[p], Head(net[p]))
     IN  /\ Handles(p, c, c # ch[p], << >>)
         /\ signing' = [signing EXCEPT ![p] = WillSign(c)]

\* A reconnection with nothing to replay is not saved.
ReceivesReestablish(p) ==
  /\ Arrives(p, "channel_reestablish")
  /\ LET m == Head(net[p])
         c == HandleReestablish(ch[p], m)
         out == IF c.state = "NORMAL" THEN ReestablishReplay(ch[p], m) ELSE << >>
     IN  IF ch[p].state = "AWAITING_REESTABLISH"
         THEN /\ Handles(p, c, \/ c.state = "ERRORED"
                               \/ c.restoreRevokedRisk # ch[p].restoreRevokedRisk
                               \/ out # << >>, out)
              /\ signing' = [signing EXCEPT ![p] = WillSign(c)]
         ELSE HandlesUpdate(p, ch[p])

------------------------------------------------------------------------------
\* The connection and the process

LosesConnection ==
  /\ connected' = FALSE
  /\ net' = [p \in Peer |-> << >>]
  /\ signing' = [p \in Peer |-> FALSE]
  /\ drops' = drops + 1

\* A node that is between its two batches finishes the second before it sees
\* the socket close.
Disconnects ==
  /\ drops < MaxDrops
  /\ \A p \in Peer : Idle(p)
  /\ LosesConnection
  /\ ch' = [p \in Peer |-> MarkForReestablish(ch[p])]
  /\ UNCHANGED <<disk, feeUpdates>>

\* restoreChannel: the saved record, rolled back.
Crashes(p) ==
  /\ drops < MaxDrops
  /\ Idle(Other(p))
  /\ LosesConnection
  /\ ch' = [q \in Peer |-> MarkForReestablish(IF q = p THEN disk[q] ELSE ch[q])]
  /\ UNCHANGED <<disk, feeUpdates>>

\* sendReestablish on both sides of the new connection.
Reconnects ==
  /\ ~connected
  /\ connected' = TRUE
  /\ net' = [p \in Peer |-> IF ch[Other(p)].state = "AWAITING_REESTABLISH"
                            THEN << CreateReestablish(ch[Other(p)]) >> ELSE << >>]
  /\ UNCHANGED <<ch, disk, signing, feeUpdates, drops>>

ReceivedIds(p) == {k[2] : k \in {j \in DOMAIN ch[p].htlcs : Received(j)}}

Handling(p) ==
  \/ AutoSigns(p)
  \/ ReceivesAdd(p)
  \/ ReceivesFulfill(p)
  \/ ReceivesFail(p)
  \/ ReceivesFee(p)
  \/ ReceivesCommitmentSigned(p)
  \/ ReceivesRevokeAndAck(p)
  \/ ReceivesReestablish(p)

Settling(p) == \E n \in ReceivedIds(p) : Fulfills(p, n) \/ Fails(p, n)

Next ==
  \/ \E p \in Peer, amt \in Amounts : Sends(p, amt)
  \/ \E p \in Peer : Settling(p)
  \/ \E p \in Peer, rate \in Feerates : AnnouncesFee(p, rate)
  \/ \E p \in Peer : Handling(p)
  \/ Disconnects
  \/ \E p \in Peer : Crashes(p)
  \/ Reconnects

Spec == Init /\ [][Next]_vars

\* An event loop that has a message or a second batch to handle gets to it, a
\* lost connection is dialled again, and the node settles what it was handed.
Fairness ==
  /\ \A p \in Peer : WF_vars(Handling(p)) /\ WF_vars(Settling(p))
  /\ WF_vars(Reconnects)

FairSpec == Spec /\ Fairness

------------------------------------------------------------------------------
\* Properties

EntryStates == {"PENDING", "COMMITTED", "FULFILLED", "FAILED"}

FlagNames ==
  {"addRemoteCommitted", "addRemoteSigned", "addLocallyRevoked", "addRemotelyRevoked",
   "removalRemoteCommitted", "removalLocallyRevoked", "commitCoverPending",
   "addCoverPending", "forwardEmitted"}

ChannelOK(c) ==
  /\ c.state \in {"NORMAL", "AWAITING_REESTABLISH", "ERRORED"}
  /\ {c.localBalance, c.remoteBalance} \subseteq Nat
  /\ {c.localHtlcCounter, c.localCommitmentNumber, c.remoteCommitmentNumber,
      c.remoteRevocationNumber} \subseteq Nat
  /\ DOMAIN c.htlcs \subseteq ({"offered", "received"} \X Nat)
  /\ \A k \in DOMAIN c.htlcs :
       /\ c.htlcs[k].amt \in Amounts
       /\ c.htlcs[k].state \in EntryStates
       /\ \A f \in FlagNames : c.htlcs[k][f] \in BOOLEAN
  /\ c.signedCount \in 0..Len(c.pendingLocalUpdates)
  /\ {c.feeratePerKw, c.lastSignedCommitFeerate} \subseteq Feerates \cup {OpenFeerate}
  /\ c.pendingFeerate \in Feerates \cup {NoFee}

\* The records of both nodes, in memory and on disk, have the shape the program
\* stores: no balance is negative and the signed prefix lies inside the queue of
\* updates it counts.
TypeOK ==
  /\ \A p \in Peer : ChannelOK(ch[p]) /\ ChannelOK(disk[p])
  /\ connected \in BOOLEAN
  /\ signing \in [Peer -> BOOLEAN]

\* Two nodes that both run this code never fail their channel: every
\* commitment_signed verifies against the commitment the other side rebuilds
\* (handleCommitmentSigned), no add exceeds a limit the sender has checked
\* (handleUpdateAddHtlc), no removal precedes its add (_addNotYetCommitted), no
\* revocation is out of turn (handleRevokeAndAck) and no reconnection finds a gap
\* (handleReestablish), whatever is lost in flight and whenever a node crashes.
NeverFailsTheChannel == \A p \in Peer : ch[p].state # "ERRORED"

\* In every state, also in the middle of a round or of a roll-back, the
\* commitment a force close rebuilds (buildLocalCommitment with signedLocal) is
\* the one the stored signature of the peer covers.
ForceCloseRebuildsWhatThePeerSigned ==
  \A p \in Peer :
    LocalCommitment(p, ch[p], TRUE, ch[p].localCommitmentNumber)
      = ch[p].remoteCommitmentSignature

\* A node is told to act on a received HTLC (HTLC_FORWARDED) only when both
\* commitments that can still be broadcast carry it, and both keep carrying it
\* until it is settled.
ForwardsOnlyIrrevocable ==
  \A p \in Peer : \A k \in DOMAIN ch[p].htlcs :
    LET e == ch[p].htlcs[k]
        output == HtlcOutput(p, k, e.amt)
    IN  Received(k) /\ e.forwardEmitted /\ e.state = "COMMITTED" =>
          \A q \in Peer : output \in disk[q].remoteCommitmentSignature.htlcs

\* The commitment a node would broadcast from its disk after a crash is never
\* one whose secret the peer already holds: the save that advances
\* localCommitmentNumber precedes the revoke_and_ack that gives the secret away.
SavedStateIsNeverRevoked ==
  \A p \in Peer : ch[Other(p)].remoteRevocationNumber <= disk[p].localCommitmentNumber

\* At most one commitment of the peer's is signed and not yet revoked
\* (isAwaitingRemoteRevocation defers the next), so the single cached
\* commitment_signed is always the one a reconnection can need.
OneUnrevokedCommitment ==
  \A p \in Peer :
    /\ ch[p].remoteRevocationNumber <= ch[p].remoteCommitmentNumber
    /\ ch[p].remoteCommitmentNumber <= ch[p].remoteRevocationNumber + 1

\* An owed signature is never forgotten: a node that may sign and has something
\* to sign is in the step that signs it (the deferrals of
\* autoSignAndSendCommitment all end in another call of it).
OwedSignatureIsBeingSent ==
  \A p \in Peer : connected /\ WillSign(ch[p]) => signing[p]

\* An add that its sender could afford by its own books is one the receiver can
\* debit by its own: the comment on handleUpdateAddHtlc's refusal takes it for an add
\* "the SENDER cannot afford".
AffordableAddIsAccepted ==
  \A p \in Peer :
    /\ ch[p].state = "NORMAL"
    /\ net[p] # << >>
    /\ Head(net[p]).type = "update_add_htlc"
    /\ <<"received", Head(net[p]).id>> \notin DOMAIN ch[p].htlcs
    => Head(net[p]).amt <= ch[p].remoteBalance

Quiet(p) ==
  /\ net[p] = << >>
  /\ ~signing[p]
  /\ ch[p].state = "NORMAL"
  /\ ch[p].pendingLocalUpdates = << >>
  /\ ~ch[p].needsCommitment
  /\ ~IsAwaitingRemoteRevocation(ch[p])

\* When nothing is in flight and no signature is owed, the two records mirror
\* each other: same balances, same HTLCs in the same state, same fee rate, same
\* commitment numbers.
BooksAgreeWhenQuiet ==
  (connected /\ \A p \in Peer : Quiet(p)) =>
     /\ ch[Opener].localBalance = ch[Acceptor].remoteBalance
     /\ ch[Opener].remoteBalance = ch[Acceptor].localBalance
     /\ ch[Opener].feeratePerKw = ch[Acceptor].feeratePerKw
     /\ \A p \in Peer :
          /\ ch[p].localCommitmentNumber = ch[Other(p)].remoteCommitmentNumber
          /\ {k[2] : k \in {j \in DOMAIN ch[p].htlcs : Offered(j)}}
               = {k[2] : k \in {j \in DOMAIN ch[Other(p)].htlcs : Received(j)}}
          /\ \A k \in DOMAIN ch[p].htlcs : ch[p].htlcs[k].state = "COMMITTED"

\* Everything but the number and the point, which differ in every commitment.
Content(view) == <<view.feerate, view.paid, view.htlcs>>

\* A node signs a new commitment only when it differs from the one the peer
\* holds: BOLT 2 forbids a commitment_signed that covers no update, and the
\* comment on autoSignAndSendCommitment says it never sends one.
EverySignatureCoversAnUpdate ==
  [][\A p \in Peer : AutoSigns(p) =>
       Content(ch'[p].lastSentCommitmentSigned)
         # Content(IF ch[p].remoteCommitmentNumber = 0 THEN FirstCommitment
                   ELSE ch[p].lastSentCommitmentSigned)]_vars

\* An HTLC that is on both commitments for good is settled at both ends, and
\* every fee update and every owed signature runs to its end: the channel always
\* comes to rest with no HTLC left, after any finite number of lost connections.
ComesToRest ==
  <>[](\A p \in Peer : Quiet(p) /\ DOMAIN ch[p].htlcs = {})
================================================================================
