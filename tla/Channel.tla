-------------------------------- MODULE Channel --------------------------------
(***************************************************************************)
(* One peer's channel record and the handlers that change it while the     *)
(* channel is open (src/lightning/channel/channel.ts): HTLC adds and       *)
(* removals, fee updates, commitment_signed, revoke_and_ack, and the       *)
(* roll-back and replay around a lost connection.                          *)
(*                                                                         *)
(* Every handler is an operator from the record to the record it leaves.   *)
(* ChannelPair runs two of them against each other.                        *)
(***************************************************************************)
EXTENDS CommitmentBuilder, Sequences

CONSTANTS
  OpenerBalance, AcceptorBalance, \* what each side holds when the channel opens
  OpenFeerate,                    \* the fee rate of the first commitment
  MaxAcceptedHtlcs                \* max_accepted_htlcs, advertised by both

Message(t, n) == [type |-> t, id |-> n]
AddMessage(n, amt) == [type |-> "update_add_htlc", id |-> n, amt |-> amt]
FeeMessage(rate) == [type |-> "update_fee", rate |-> rate]
CommitmentSigned(view) == [type |-> "commitment_signed", view |-> view]

\* The secret of commitment n, with the point of commitment n + 2.
RevokeAndAck(n) == [type |-> "revoke_and_ack", secret |-> n]

NoCommitment == [number |-> 0]

OpenBalance == [p \in Peer |-> IF p = Opener THEN OpenerBalance ELSE AcceptorBalance]

\* Commitment 0, signed while the channel was funded.
FirstCommitment ==
  [number |-> 0, point |-> 0, feerate |-> OpenFeerate, paid |-> OpenBalance, htlcs |-> {}]

\* A channel that has just reached NORMAL.
NewChannel(p) ==
  [state |-> "NORMAL",
   localBalance |-> OpenBalance[p],
   remoteBalance |-> OpenBalance[Other(p)],
   htlcs |-> << >>,
   localHtlcCounter |-> 0,
   needsCommitment |-> FALSE,
   localCommitmentNumber |-> 0,
   remoteCommitmentNumber |-> 0,
   remoteRevocationNumber |-> 0,
   pendingLocalUpdates |-> << >>,
   signedCount |-> 0,
   lastSentCommitmentSigned |-> NoCommitment,
   lastSentWasRevoke |-> FALSE,
   feeratePerKw |-> OpenFeerate,
   pendingFeerate |-> NoFee,
   pendingFeerateSignable |-> FALSE,
   pendingFeerateCommitted |-> FALSE,
   lastSignedCommitFeerate |-> OpenFeerate,
   signedLocalRemovals |-> {},
   remoteCommitmentSignature |-> FirstCommitment,
   restoreRevokedRisk |-> FALSE,
   dataLossDetected |-> FALSE]

\* An entry whose flags are all undefined, which reads as "already done".
PlainEntry(amt) ==
  [amt |-> amt, state |-> "PENDING",
   addRemoteCommitted |-> TRUE, addRemoteSigned |-> TRUE,
   addLocallyRevoked |-> TRUE, addRemotelyRevoked |-> TRUE,
   removalRemoteCommitted |-> TRUE, removalLocallyRevoked |-> TRUE,
   commitCoverPending |-> FALSE, addCoverPending |-> FALSE,
   forwardEmitted |-> FALSE]

OfferedEntry(amt) ==
  [PlainEntry(amt) EXCEPT !.addRemoteCommitted = FALSE, !.addRemoteSigned = FALSE]

ReceivedEntry(amt) ==
  [PlainEntry(amt) EXCEPT !.addLocallyRevoked = FALSE, !.addRemotelyRevoked = FALSE]

PutHtlc(c, k, e) == [j \in DOMAIN c.htlcs \cup {k} |-> IF j = k THEN e ELSE c.htlcs[j]]

EachHtlc(c, Change(_, _)) == [k \in DOMAIN c.htlcs |-> Change(k, c.htlcs[k])]

\* Fails the channel: an error on the wire, and no further traffic.
FailChannel(c) == [c EXCEPT !.state = "ERRORED"]

\* The commitment this record would be closed with must stay off the chain.
MustNotBroadcast(c) == c.dataLossDetected \/ c.restoreRevokedRisk

------------------------------------------------------------------------------
\* Limits

CountPendingHtlcs(c, dir) ==
  Cardinality({k \in DOMAIN c.htlcs : k[1] = dir /\ Live(c.htlcs[k])})

\* Mutant: the peer's revocation of the commitment without the add is not awaited.
ReceivedAddLocallyCommitted(e) == e.state = "COMMITTED" /\ e.addLocallyRevoked

ReceivedAddIrrevocablyCommitted(e) ==
  e.state = "COMMITTED" /\ e.addLocallyRevoked /\ e.addRemotelyRevoked

\* Mutant: a signature is never deferred.
NeverAwaitsRevocation(c) == FALSE

IsAwaitingRemoteRevocation(c) == c.remoteRevocationNumber < c.remoteCommitmentNumber

QueueUpdate(c, m) == Append(c.pendingLocalUpdates, m)

------------------------------------------------------------------------------
\* HTLC updates of our own

\* Mutant: one HTLC too many.
MayAddOneHtlcMore(c, amt) ==
  /\ ~c.restoreRevokedRisk
  /\ c.state = "NORMAL"
  /\ CountPendingHtlcs(c, "offered") <= MaxAcceptedHtlcs
  /\ amt <= c.localBalance

MayAddHtlc(c, amt) ==
  /\ ~c.restoreRevokedRisk
  /\ c.state = "NORMAL"
  /\ CountPendingHtlcs(c, "offered") < MaxAcceptedHtlcs
  /\ amt <= c.localBalance

AddHtlc(c, amt) ==
  LET n == c.localHtlcCounter
  IN  [c EXCEPT !.localHtlcCounter = n + 1,
                !.htlcs = PutHtlc(c, <<"offered", n>>, OfferedEntry(amt)),
                !.localBalance = c.localBalance - amt,
                !.needsCommitment = TRUE,
                !.pendingLocalUpdates = QueueUpdate(c, AddMessage(n, amt))]

\* The node settles only an HTLC it was told to act on.
MaySettleHtlc(c, k) ==
  /\ c.state = "NORMAL"
  /\ ReceivedAddIrrevocablyCommitted(c.htlcs[k])
  /\ c.htlcs[k].forwardEmitted

SettleHtlc(c, k, outcome, m) ==
  [c EXCEPT !.htlcs = [@ EXCEPT ![k].state = outcome, ![k].removalRemoteCommitted = FALSE],
            !.needsCommitment = TRUE,
            !.pendingLocalUpdates = QueueUpdate(c, m)]

FulfillHtlc(c, n) ==
  SettleHtlc(c, <<"received", n>>, "FULFILLED", Message("update_fulfill_htlc", n))

FailHtlc(c, n) ==
  SettleHtlc(c, <<"received", n>>, "FAILED", Message("update_fail_htlc", n))

------------------------------------------------------------------------------
\* HTLC updates of the peer's

HandleUpdateAddHtlc(c, m) ==
  LET k == <<"received", m.id>>
  IN  IF c.state # "NORMAL" THEN c
      ELSE IF k \in DOMAIN c.htlcs
           THEN IF c.htlcs[k].amt = m.amt THEN c ELSE FailChannel(c)
      ELSE IF CountPendingHtlcs(c, "received") >= MaxAcceptedHtlcs THEN FailChannel(c)
      ELSE IF c.remoteBalance - m.amt < 0 THEN FailChannel(c)
      ELSE [c EXCEPT !.htlcs = PutHtlc(c, k, ReceivedEntry(m.amt)),
                     !.remoteBalance = c.remoteBalance - m.amt]

AddNotYetCommitted(e) == e.state = "PENDING" \/ ~e.addRemoteCommitted

HandleRemoval(c, n, outcome) ==
  LET k == <<"offered", n>>
  IN  IF c.state # "NORMAL" \/ k \notin DOMAIN c.htlcs THEN c
      ELSE IF c.htlcs[k].state = outcome THEN c
      ELSE IF AddNotYetCommitted(c.htlcs[k]) THEN FailChannel(c)
      ELSE [c EXCEPT !.htlcs = [@ EXCEPT ![k].state = outcome,
                                         ![k].removalRemoteCommitted = FALSE,
                                         ![k].removalLocallyRevoked = FALSE]]

HandleUpdateFulfillHtlc(c, m) == HandleRemoval(c, m.id, "FULFILLED")

HandleUpdateFailHtlc(c, m) == HandleRemoval(c, m.id, "FAILED")

------------------------------------------------------------------------------
\* Fee updates

MayUpdateFee(p, c) ==
  /\ p = Opener
  /\ c.state = "NORMAL"
  /\ ~(c.pendingFeerate # NoFee /\ c.pendingFeerateCommitted)

UpdateFee(c, rate) ==
  [c EXCEPT !.pendingFeerate = rate,
            !.pendingFeerateSignable = FALSE,
            !.pendingFeerateCommitted = FALSE,
            !.needsCommitment = TRUE,
            !.pendingLocalUpdates = QueueUpdate(c, FeeMessage(rate))]

HandleUpdateFee(p, c, m) ==
  IF c.state # "NORMAL" THEN c
  ELSE IF p # Acceptor THEN FailChannel(c)
  ELSE [c EXCEPT !.feeratePerKw = IF c.pendingFeerate # NoFee /\ c.pendingFeerateSignable
                                  THEN c.pendingFeerate ELSE @,
                 !.pendingFeerate = m.rate,
                 !.pendingFeerateSignable = FALSE,
                 !.pendingFeerateCommitted = FALSE]

------------------------------------------------------------------------------
\* The commitment round

\* signCommitment stamps what the signature covers; the peer's revoke_and_ack
\* then finishes exactly the stamped updates.
CoverEntry(k, e) ==
  [e EXCEPT !.commitCoverPending =
              \/ @
              \/ ~e.addRemoteCommitted /\ Live(e)
              \/ ~e.removalRemoteCommitted /\ e.removalLocallyRevoked /\ Settled(e),
            !.addCoverPending =
              @ \/ (~e.addRemotelyRevoked /\ e.addLocallyRevoked /\ Live(e)),
            !.state = IF @ = "PENDING" THEN "COMMITTED" ELSE @]

SignCommitment(p, c) ==
  [c EXCEPT !.lastSentCommitmentSigned = RemoteCommitment(p, c, c.remoteCommitmentNumber + 1),
            !.lastSentWasRevoke = FALSE,
            !.pendingFeerateCommitted =
              @ \/ (c.pendingFeerate # NoFee /\ (p = Opener \/ c.pendingFeerateSignable)),
            !.htlcs = EachHtlc(c, CoverEntry),
            !.remoteCommitmentNumber = @ + 1,
            !.needsCommitment = FALSE,
            !.signedCount = Len(c.pendingLocalUpdates)]

\* An entry after the peer's signature on our next commitment: adds of ours it
\* was built with are signed, updates of the peer's it was built with are revoked.
AcceptSignatureEntry(k, e) ==
  [e EXCEPT !.addRemoteSigned =
              @ \/ (Offered(k) /\ e.addRemoteCommitted /\ e.state # "FAILED"),
            !.addLocallyRevoked = TRUE,
            !.removalLocallyRevoked = @ \/ Settled(e),
            !.state = IF @ = "PENDING" THEN "COMMITTED" ELSE @]

\* Mutants: a signature is always, or never, answered with one.
AlwaysOwesAnswer(p, c) == TRUE
NeverOwesAnswer(p, c) == FALSE

\* What a peer's signature leaves owed to the peer.
SignatureOwesAnswer(p, c) ==
  \/ p = Acceptor /\ c.pendingFeerate # NoFee /\ ~c.pendingFeerateSignable
  \/ \E k \in DOMAIN c.htlcs :
       \/ ~c.htlcs[k].addLocallyRevoked /\ Live(c.htlcs[k])
       \/ ~c.htlcs[k].removalLocallyRevoked /\ Settled(c.htlcs[k])

VerifiesAgainstNext(p, c, view) ==
  view = LocalCommitment(p, c, FALSE, c.localCommitmentNumber + 1)

HandleCommitmentSigned(p, c, m) ==
  IF c.state # "NORMAL" THEN c
  ELSE IF ~VerifiesAgainstNext(p, c, m.view) THEN FailChannel(c)
  ELSE [c EXCEPT !.remoteCommitmentSignature = m.view,
                 !.lastSignedCommitFeerate = LocalFeeRate(p, c, FALSE),
                 !.signedLocalRemovals = {},
                 !.pendingFeerateSignable = @ \/ (p = Acceptor /\ c.pendingFeerate # NoFee),
                 !.needsCommitment = @ \/ SignatureOwesAnswer(p, c),
                 !.htlcs = EachHtlc(c, AcceptSignatureEntry),
                 !.localCommitmentNumber = @ + 1,
                 !.restoreRevokedRisk = FALSE,
                 !.lastSentWasRevoke = TRUE]

RevokeEntry(k, e) ==
  [e EXCEPT !.commitCoverPending = FALSE,
            !.addRemoteCommitted = @ \/ (e.commitCoverPending /\ Live(e)),
            !.removalRemoteCommitted = @ \/ (e.commitCoverPending /\ ~Live(e)),
            !.addCoverPending = FALSE,
            !.addRemotelyRevoked = @ \/ e.addCoverPending]

EmitForward(k, e) ==
  [e EXCEPT !.forwardEmitted = @ \/ (Received(k) /\ ReceivedAddIrrevocablyCommitted(e))]

\* Mutant: what a finished HTLC pays the peer is not booked.
NoCreditToPeer(c, K) == 0

\* What finished HTLCs pay the peer.
CreditToPeer(c, K) == SumOf(c, K)

HandleRevokeAndAck(p, c, m) ==
  LET revoked == EachHtlc(c, RevokeEntry)
      done == {k \in DOMAIN revoked : Settled(revoked[k]) /\ revoked[k].removalRemoteCommitted}
      Ours(k) == Received(k) <=> revoked[k].state = "FULFILLED"
      retained == {k \in done : Received(k) /\ revoked[k].addLocallyRevoked}
      promote == c.pendingFeerate # NoFee /\ c.pendingFeerateCommitted
  IN  IF c.state # "NORMAL" THEN c
      ELSE IF m.secret # c.remoteRevocationNumber THEN FailChannel(c)
      ELSE IF c.remoteRevocationNumber >= c.remoteCommitmentNumber THEN c
      ELSE [c EXCEPT
              !.remoteRevocationNumber = @ + 1,
              !.pendingLocalUpdates = SubSeq(@, c.signedCount + 1, Len(@)),
              !.signedCount = 0,
              !.htlcs = [k \in DOMAIN revoked \ done |-> EmitForward(k, revoked[k])],
              !.localBalance = @ + SumOf(c, {k \in done : Ours(k)}),
              !.remoteBalance = @ + CreditToPeer(c, {k \in done : ~Ours(k)}),
              !.signedLocalRemovals =
                 @ \cup {[key |-> k, amt |-> c.htlcs[k].amt, state |-> c.htlcs[k].state] :
                           k \in retained},
              !.feeratePerKw = IF promote THEN c.pendingFeerate ELSE @,
              !.pendingFeerate = IF promote THEN NoFee ELSE @,
              !.pendingFeerateSignable = @ /\ ~promote,
              !.pendingFeerateCommitted = @ /\ ~promote]

------------------------------------------------------------------------------
\* Losing and regaining the connection

\* Mutant: the filter is the wrong way round.
KeepOnlyFees(q, n, kept) == IF q[n].type = "update_fee" THEN Append(kept, q[n]) ELSE kept

KeepUpdate(q, n, kept) == IF q[n].type = "update_fee" THEN kept ELSE Append(kept, q[n])

\* The queue with its fee updates filtered out.
WithoutFees(q) ==
  LET kept[n \in 0..Len(q)] ==
        IF n = 0 THEN << >> ELSE KeepUpdate(q, n, kept[n - 1])
  IN  kept[Len(q)]

\* Adds of the peer's that no signature of its covers: it will send them again.
UnsignedAdds(c) ==
  {k \in DOMAIN c.htlcs : /\ Received(k)
                          /\ c.htlcs[k].state = "PENDING"
                          /\ ~c.htlcs[k].addLocallyRevoked}

RefundOfUnsignedAdds(c) == SumOf(c, UnsignedAdds(c))

MarkForReestablish(c) ==
  LET Unsettle(k, e) ==
        IF Offered(k) /\ Settled(e) /\ ~e.removalLocallyRevoked
        THEN [e EXCEPT !.state = "COMMITTED",
                       !.removalRemoteCommitted = TRUE,
                       !.removalLocallyRevoked = TRUE]
        ELSE e
      dropFee == ~c.pendingFeerateSignable /\ ~c.pendingFeerateCommitted
  IN  IF c.state # "NORMAL" THEN c
      ELSE [c EXCEPT
              !.state = "AWAITING_REESTABLISH",
              !.htlcs = [k \in DOMAIN c.htlcs \ UnsignedAdds(c) |-> Unsettle(k, c.htlcs[k])],
              !.remoteBalance = @ + RefundOfUnsignedAdds(c),
              !.pendingFeerate = IF dropFee THEN NoFee ELSE @,
              !.pendingLocalUpdates =
                 IF dropFee THEN WithoutFees(@) ELSE @]

\* Mutant: asks for the commitment it already holds.
CreateReestablishOneBehind(c) ==
  [type |-> "channel_reestablish",
   nextCommitment |-> c.localCommitmentNumber,
   nextRevocation |-> c.remoteRevocationNumber]

CreateReestablish(c) ==
  [type |-> "channel_reestablish",
   nextCommitment |-> c.localCommitmentNumber + 1,
   nextRevocation |-> c.remoteRevocationNumber]

\* The peer holds secrets of commitments this record has not reached.
FellBehind(c, m) ==
  /\ \/ m.nextCommitment > c.remoteCommitmentNumber + 1
     \/ m.nextRevocation > c.localCommitmentNumber + 1
  /\ m.nextRevocation > c.localCommitmentNumber

ReestablishGap(c, m) ==
  \/ m.nextCommitment > c.remoteCommitmentNumber + 1
  \/ m.nextRevocation > c.localCommitmentNumber + 1
  \/ m.nextCommitment < c.remoteCommitmentNumber
  \/ m.nextRevocation + 1 < c.localCommitmentNumber

\* Mutant: a peer one revocation ahead raises no alarm.
HandleReestablishTrusting(c, m) ==
  IF FellBehind(c, m) /\ m.nextRevocation > c.localCommitmentNumber + 1
  THEN [c EXCEPT !.dataLossDetected = TRUE, !.state = "ERRORED"]
  ELSE [c EXCEPT !.state = IF ReestablishGap(c, m) THEN "ERRORED" ELSE "NORMAL"]

HandleReestablish(c, m) ==
  IF FellBehind(c, m)
  THEN [c EXCEPT !.dataLossDetected = TRUE, !.state = "ERRORED"]
  ELSE [c EXCEPT !.restoreRevokedRisk = @ \/ m.nextRevocation = c.localCommitmentNumber + 1,
                 !.state = IF ReestablishGap(c, m) THEN "ERRORED" ELSE "NORMAL"]

\* What handleReestablish sends again, in the order it sends it.
ReestablishReplay(c, m) ==
  LET revoke == IF m.nextRevocation + 1 = c.localCommitmentNumber
                THEN << RevokeAndAck(c.localCommitmentNumber - 1) >> ELSE << >>
      missed == m.nextCommitment <= c.remoteCommitmentNumber /\ c.remoteCommitmentNumber > 0
      queue == c.pendingLocalUpdates
      covered == IF c.signedCount < Len(queue) THEN c.signedCount ELSE Len(queue)
      signed == SubSeq(queue, 1, covered)
      unsigned == SubSeq(queue, covered + 1, Len(queue))
      commit == IF missed /\ c.lastSentCommitmentSigned # NoCommitment
                THEN << CommitmentSigned(c.lastSentCommitmentSigned) >> ELSE << >>
      body == IF missed THEN signed \o commit ELSE WithoutFees(signed) \o unsigned
      rest == IF missed THEN unsigned ELSE << >>
  IN  IF c.lastSentWasRevoke THEN body \o revoke \o rest
      ELSE revoke \o body \o rest
================================================================================
