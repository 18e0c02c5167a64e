--------------------------- MODULE CommitmentBuilder ---------------------------
(***************************************************************************)
(* The commitment transactions two channel peers build from their own      *)
(* records (src/lightning/channel/commitment-builder.ts).                   *)
(*                                                                         *)
(* Each peer keeps one record c of the channel.  Its HTLCs are a function  *)
(* c.htlcs from keys <<"offered" | "received", id>> to entries.  An entry  *)
(* carries its amount, its state and the flags that say which commitment   *)
(* already reflects it.  A flag the program leaves undefined reads as      *)
(* "already done", and is TRUE here.                                       *)
(*                                                                         *)
(* A transaction is abstracted to a VIEW: its number, the per-commitment   *)
(* point it is keyed to, the fee rate, what each peer is paid and the set  *)
(* of HTLC outputs.  Fee subtraction, dust trimming, scripts and output    *)
(* order are functions of the view, so two peers build the same            *)
(* transaction exactly when they build the same view, and a signature      *)
(* verifies exactly then.                                                  *)
(***************************************************************************)
EXTENDS Integers, FiniteSets, FiniteSetsExt

CONSTANTS Opener, Acceptor

ASSUME PeersDiffer == Opener # Acceptor

Peer == {Opener, Acceptor}

Other(p) == IF p = Opener THEN Acceptor ELSE Opener

\* An undefined pendingFeeratePerKw.
NoFee == 0

Offered(k) == k[1] = "offered"
Received(k) == k[1] = "received"

Live(e) == e.state \in {"PENDING", "COMMITTED"}
Settled(e) == e.state \in {"FULFILLED", "FAILED"}

\* The rate of a commitment with no fee update staged.
CommittedFeeRate(c) == c.feeratePerKw

\* Mutant: the rate of the next commitment also where the signed one is meant.
LocalFeeRateIgnoringSigned(p, c, signedLocal) ==
  IF p = Acceptor /\ c.pendingFeerate # NoFee THEN c.pendingFeerate ELSE CommittedFeeRate(c)

\* signedLocal asks for the commitment whose signature is stored, rather than
\* the next one.
LocalFeeRate(p, c, signedLocal) ==
  IF signedLocal THEN c.lastSignedCommitFeerate
  ELSE IF p = Acceptor /\ c.pendingFeerate # NoFee THEN c.pendingFeerate
  ELSE CommittedFeeRate(c)

RemoteFeeRate(p, c) ==
  IF c.pendingFeerate # NoFee /\ (p = Opener \/ c.pendingFeerateSignable)
  THEN c.pendingFeerate
  ELSE CommittedFeeRate(c)

\* Mutant: a removal leaves the signed commitment as soon as it is received.
SignedLocalForgetsRemoval(k, e) == FALSE

SignedLocalCarriesRemoval(k, e) ==
  Offered(k) /\ Settled(e) /\ ~e.removalLocallyRevoked /\ e.addRemoteSigned

SignedLocalLacksReceivedAdd(k, e) == Received(k) /\ ~e.addLocallyRevoked

LocalCommitmentCarriesAdd(e, signedLocal) ==
  e.addRemoteCommitted /\ (signedLocal => e.addRemoteSigned)

\* The HTLC a key of peer p's record stands for, named as both peers know it.
HtlcOutput(p, k, amt) == <<IF Offered(k) THEN p ELSE Other(p), k[2], amt>>

SumOf(c, K) == MapThenSumSet(LAMBDA k : c.htlcs[k].amt, K)

SumRemovals(R) == MapThenSumSet(LAMBDA r : r.amt, R)

LocalHtlcOutputs(p, c, signedLocal) ==
  LET OnLocal(k, e) ==
        IF signedLocal /\ SignedLocalCarriesRemoval(k, e) THEN TRUE
        ELSE IF signedLocal /\ SignedLocalLacksReceivedAdd(k, e) THEN FALSE
        ELSE IF Settled(e) THEN Received(k) /\ ~e.removalRemoteCommitted
        ELSE Offered(k) => LocalCommitmentCarriesAdd(e, signedLocal)
  IN  {HtlcOutput(p, k, c.htlcs[k].amt) :
         k \in {j \in DOMAIN c.htlcs : OnLocal(j, c.htlcs[j])}}
      \cup (IF signedLocal
            THEN {HtlcOutput(p, r.key, r.amt) : r \in c.signedLocalRemovals}
            ELSE {})

\* The view of p's own commitment number n.
LocalCommitment(p, c, signedLocal, n) ==
  LET K == DOMAIN c.htlcs
      carried == {k \in K : signedLocal /\ SignedLocalCarriesRemoval(k, c.htlcs[k])}
      lacking == {k \in K : signedLocal /\ SignedLocalLacksReceivedAdd(k, c.htlcs[k])}
      ToLocal(k, e) ==
        \/ Received(k) /\ e.state = "FULFILLED" /\ e.removalRemoteCommitted
        \/ Offered(k) /\ e.state = "FAILED"
        \/ /\ Offered(k)
           /\ e.state # "FAILED"
           /\ ~LocalCommitmentCarriesAdd(e, signedLocal)
      ToRemote(k, e) ==
        \/ Received(k) /\ e.state = "FAILED" /\ e.removalRemoteCommitted
        \/ /\ Offered(k)
           /\ e.state = "FULFILLED"
           /\ LocalCommitmentCarriesAdd(e, signedLocal)
      rest == K \ (carried \cup lacking)
      retained == IF signedLocal THEN c.signedLocalRemovals ELSE {}
      local == c.localBalance
               + SumOf(c, {k \in rest : ToLocal(k, c.htlcs[k])})
               - SumRemovals({r \in retained : r.state = "FULFILLED"})
      remote == c.remoteBalance
                + SumOf(c, lacking \cup {k \in rest : ToRemote(k, c.htlcs[k])})
                - SumRemovals({r \in retained : r.state = "FAILED"})
  IN  [number |-> n, point |-> n,
       feerate |-> LocalFeeRate(p, c, signedLocal),
       paid |-> [r \in Peer |-> IF r = p THEN local ELSE remote],
       htlcs |-> LocalHtlcOutputs(p, c, signedLocal)]

RemoteHtlcOutputs(p, c) ==
  LET OnRemote(k, e) ==
        IF Settled(e) THEN Offered(k) /\ ~e.removalLocallyRevoked
        ELSE Received(k) => e.addLocallyRevoked
  IN  {HtlcOutput(p, k, c.htlcs[k].amt) :
         k \in {j \in DOMAIN c.htlcs : OnRemote(j, c.htlcs[j])}}

\* The view of the peer's commitment number n, as p signs it.  It is keyed to
\* the newest point the peer has given p, which is one past the secrets p holds.
RemoteCommitment(p, c, n) ==
  LET K == DOMAIN c.htlcs
      ToOurs(k, e) ==
        \/ Received(k) /\ e.state = "FULFILLED"
        \/ Offered(k) /\ e.state = "FAILED" /\ e.removalLocallyRevoked
      ToPeers(k, e) ==
        \/ Received(k) /\ e.state = "FAILED"
        \/ Offered(k) /\ e.state = "FULFILLED" /\ e.removalLocallyRevoked
        \/ Received(k) /\ Live(e) /\ ~e.addLocallyRevoked
      ours == c.localBalance + SumOf(c, {k \in K : ToOurs(k, c.htlcs[k])})
      peers == c.remoteBalance + SumOf(c, {k \in K : ToPeers(k, c.htlcs[k])})
  IN  [number |-> n, point |-> c.remoteRevocationNumber + 1,
       feerate |-> RemoteFeeRate(p, c),
       paid |-> [r \in Peer |-> IF r = p THEN ours ELSE peers],
       htlcs |-> RemoteHtlcOutputs(p, c)]
================================================================================
