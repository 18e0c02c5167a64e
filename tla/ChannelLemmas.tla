----------------------------- MODULE ChannelLemmas -----------------------------
(***************************************************************************)
(* What the handlers of Channel make of one record and of the queues of    *)
(* messages, for the proofs about ChannelPair and ChannelRestore.          *)
(***************************************************************************)
EXTENDS ChannelRestore, WellFoundedInduction, TLAPS

Fields ==
  {"state", "localBalance", "remoteBalance", "htlcs", "localHtlcCounter",
   "needsCommitment", "localCommitmentNumber", "remoteCommitmentNumber",
   "remoteRevocationNumber", "pendingLocalUpdates", "signedCount",
   "lastSentCommitmentSigned", "lastSentWasRevoke", "feeratePerKw",
   "pendingFeerate", "pendingFeerateSignable", "pendingFeerateCommitted",
   "lastSignedCommitFeerate", "signedLocalRemovals", "remoteCommitmentSignature",
   "restoreRevokedRisk", "dataLossDetected"}

SameNumbers(c, d) ==
  /\ c.localCommitmentNumber = d.localCommitmentNumber
  /\ c.remoteCommitmentNumber = d.remoteCommitmentNumber
  /\ c.remoteRevocationNumber = d.remoteRevocationNumber

\* A message with no secret and no account of the sender's record.
Plain(m) == m.type \notin {"revoke_and_ack", "channel_reestablish"}

Ordinary(q) == \E S : q \in Seq(S) /\ \A m \in S : Plain(m)

\* The secret a message gives away is of a commitment below n, the number it says
\* the peer's revocations have reached is in T.
Admissible(m, n, T) ==
  /\ m.type = "revoke_and_ack" => m.secret \in 0..(n - 1)
  /\ m.type = "channel_reestablish" => m.nextRevocation \in T

Mail(q, n, T) == \E S : q \in Seq(S) /\ \A m \in S : Admissible(m, n, T)

Awaiting(c) == c.state = "AWAITING_REESTABLISH"

RecordInv(c) ==
  /\ DOMAIN c = Fields
  /\ c.state \in {"NORMAL", "AWAITING_REESTABLISH", "ERRORED"}
  /\ c.localCommitmentNumber \in Nat
  /\ c.remoteCommitmentNumber \in Nat
  /\ c.remoteRevocationNumber \in Nat
  /\ c.remoteRevocationNumber <= c.remoteCommitmentNumber
  /\ c.remoteCommitmentNumber <= c.remoteRevocationNumber + 1
  /\ c.signedCount \in Nat
  /\ Ordinary(c.pendingLocalUpdates)

\* The commitments whose secrets the node may have sent on this connection: a
\* node that has not handled the peer's channel_reestablish has sent none.
Reach(c) == IF Awaiting(c) THEN 0 ELSE c.localCommitmentNumber

\* What a channel_reestablish on its way to c, from d, may say.
Expected(c, d) == IF Awaiting(c) THEN {d.remoteRevocationNumber} ELSE Nat

\* A peer that holds the secrets of r commitments is no surprise to c.
Informed(c, r) ==
  r > c.localCommitmentNumber =>
     \/ c.dataLossDetected
     \/ c.restoreRevokedRisk /\ r <= c.localCommitmentNumber + 1

\* A node that has failed its channel has saved that it did.
Settles(c, d) == (c.state = "ERRORED" \/ d.state = "ERRORED") => c = d

------------------------------------------------------------------------------
\* Sequences of messages

\* A queue stays one of ordinary updates when another is appended.
LEMMA AppendOrdinary ==
  ASSUME NEW q, Ordinary(q), NEW m, Plain(m)
  PROVE  Ordinary(Append(q, m)) /\ Len(Append(q, m)) \in Nat
<1>1. PICK S : q \in Seq(S) /\ \A x \in S : Plain(x)
  BY DEF Ordinary
<1>2. Append(q, m) \in Seq(S \cup {m})
  BY <1>1
<1> QED
  BY <1>1, <1>2 DEF Ordinary

\* The parts of a queue of ordinary updates, and what such a queue admits as mail.
LEMMA OrdinaryFacts ==
  ASSUME NEW q, Ordinary(q)
  PROVE  /\ Len(q) \in Nat
         /\ \A n \in Nat : Ordinary(SubSeq(q, n + 1, Len(q)))
         /\ \A n \in Nat : n <= Len(q) => Ordinary(SubSeq(q, 1, n))
         /\ \A n \in Nat : \A T : Mail(q, n, T)
<1>1. PICK S : q \in Seq(S) /\ \A x \in S : Plain(x)
  BY DEF Ordinary
<1>2. \A n \in Nat : SubSeq(q, n + 1, Len(q)) \in Seq(S)
  BY <1>1
<1>3. \A n \in Nat : n <= Len(q) => SubSeq(q, 1, n) \in Seq(S)
  BY <1>1
<1>4. Len(q) \in Nat
  BY <1>1
<1>5. ASSUME NEW n \in Nat, NEW T
      PROVE  Mail(q, n, T)
  <2>1. \A x \in S : Admissible(x, n, T)
    BY <1>1 DEF Plain, Admissible
  <2> QED
    BY <1>1, <2>1 DEF Mail
<1> QED
  BY Zenon, <1>1, <1>2, <1>3, <1>4, <1>5 DEF Ordinary

\* The empty queue holds ordinary updates only.
LEMMA EmptyIsOrdinary == Ordinary(<< >>)
<1> DEFINE S == {FeeMessage(NoFee)}
<1>1. \A m \in S : Plain(m)
  BY DEF FeeMessage, Plain
<1> HIDE DEF S
<1>2. << >> \in Seq(S)
  OBVIOUS
<1> QED
  BY <1>1, <1>2 DEF Ordinary

\* Appending an admissible message.
LEMMA AppendMail ==
  ASSUME NEW q, NEW n \in Nat, NEW T, Mail(q, n, T), NEW m, Admissible(m, n, T)
  PROVE  Mail(Append(q, m), n, T)
<1>1. PICK S : q \in Seq(S) /\ \A x \in S : Admissible(x, n, T)
  BY DEF Mail
<1>2. Append(q, m) \in Seq(S \cup {m})
  BY <1>1
<1> QED
  BY <1>1, <1>2 DEF Mail

\* Appending a batch of admissible messages.
LEMMA ConcatMail ==
  ASSUME NEW q, NEW r, NEW n \in Nat, NEW T, Mail(q, n, T), Mail(r, n, T)
  PROVE  Mail(q \o r, n, T)
<1>1. PICK S : q \in Seq(S) /\ \A x \in S : Admissible(x, n, T)
  BY DEF Mail
<1>2. PICK R : r \in Seq(R) /\ \A x \in R : Admissible(x, n, T)
  BY DEF Mail
<1>3. q \o r \in Seq(S \cup R)
  BY <1>1, <1>2
<1> QED
  BY <1>1, <1>2, <1>3 DEF Mail

\* Taking the first message leaves the rest admissible, and it was admissible.
LEMMA TailMail ==
  ASSUME NEW q, NEW n \in Nat, NEW T, Mail(q, n, T), q # << >>
  PROVE  Mail(Tail(q), n, T) /\ Admissible(Head(q), n, T)
<1>1. PICK S : q \in Seq(S) /\ \A x \in S : Admissible(x, n, T)
  BY DEF Mail
<1>2. Tail(q) \in Seq(S) /\ Head(q) \in S
  BY <1>1
<1> QED
  BY <1>1, <1>2 DEF Mail

\* The bounds may be raised: the sender moved to a later commitment, or the
\* receiver no longer waits for channel_reestablish.
LEMMA MoreMail ==
  ASSUME NEW q, NEW n \in Nat, NEW k \in Nat, n <= k, NEW T, NEW U, T \subseteq U,
         Mail(q, n, T)
  PROVE  Mail(q, k, U)
<1>1. PICK S : q \in Seq(S) /\ \A x \in S : Admissible(x, n, T)
  BY DEF Mail
<1>2. \A x \in S : Admissible(x, k, U)
  BY <1>1 DEF Admissible
<1> QED
  BY <1>1, <1>2 DEF Mail

------------------------------------------------------------------------------
\* The filter of markForReestablish

\* A nonempty set of naturals has a least element.
LEMMA LeastElement ==
  ASSUME NEW T \in SUBSET Nat, T # {}
  PROVE  \E n \in T : \A m \in T : n <= m
<1> DEFINE R == OpToRel(<, Nat)
<1>1. R = {ss \in Nat \X Nat : ss[1] < ss[2]}
  BY DEF OpToRel
<1>2. IsWellFoundedOn(R, Nat)
  BY NatLessThanWellFounded
<1> HIDE DEF R
<1>3. PICK n \in T : \A m \in T : ~ (<<m, n>> \in R)
  BY Zenon, <1>2, WFMin
<1>4. \A m \in T : ~ (m < n)
  BY Zenon, <1>1, <1>3
<1> QED
  BY <1>3, <1>4

\* f is the function WithoutFees defines by recursion, up to n.
Keeps(q, f, n) ==
  f = [i \in 0..n |-> IF i = 0 THEN << >> ELSE KeepUpdate(q, i, f[i - 1])]

\* The function that the filter of update_fee is folded with exists.
LEMMA KeepsExists ==
  ASSUME NEW q, NEW N \in Nat
  PROVE  \E f : Keeps(q, f, N)
<1> DEFINE Bad == {n \in Nat : ~ \E f : Keeps(q, f, n)}
<1> SUFFICES ASSUME Bad # {} PROVE FALSE
  OBVIOUS
<1>1. PICK n \in Bad : \A m \in Bad : n <= m
  BY Zenon, LeastElement
<1>2. n # 0
  <2>1. Keeps(q, [i \in 0..0 |-> << >>], 0)
    BY DEF Keeps
  <2> QED
    BY <1>1, <2>1
<1>3. PICK g : Keeps(q, g, n - 1)
  BY <1>1, <1>2
<1> DEFINE f == [i \in 0..n |-> IF i < n THEN g[i] ELSE KeepUpdate(q, n, g[n - 1])]
<1>4. ASSUME NEW i \in 0..n
      PROVE  f[i] = IF i = 0 THEN << >> ELSE KeepUpdate(q, i, f[i - 1])
  <2>1. CASE i < n
    <3>1. g[i] = IF i = 0 THEN << >> ELSE KeepUpdate(q, i, g[i - 1])
      BY <2>1, <1>1, <1>2, <1>3 DEF Keeps
    <3>2. i # 0 => f[i - 1] = g[i - 1]
      BY <2>1, <1>1, <1>2
    <3> QED
      BY <2>1, <3>1, <3>2
  <2>2. CASE i = n
    <3>1. f[i - 1] = g[i - 1]
      BY <2>2, <1>1, <1>2
    <3> QED
      BY <2>2, <3>1, <1>2
  <2> QED
    BY <2>1, <2>2, <1>1
<1>5. Keeps(q, f, n)
  BY <1>4 DEF Keeps
<1> QED
  BY <1>1, <1>5

\* Each prefix of the filtered queue is a sequence of queued updates.
LEMMA KeepsType ==
  ASSUME NEW S, NEW q \in Seq(S), NEW f, Keeps(q, f, Len(q)), NEW k \in 0..Len(q)
  PROVE  f[k] \in Seq(S)
<1> DEFINE Bad == {n \in 0..Len(q) : f[n] \notin Seq(S)}
<1> SUFFICES ASSUME Bad # {} PROVE FALSE
  OBVIOUS
<1>1. Bad \in SUBSET Nat
  OBVIOUS
<1>2. PICK n \in 0..Len(q) : f[n] \notin Seq(S) /\ \A m \in Bad : n <= m
  <2> HIDE DEF Bad
  <2>1. \E n \in Bad : \A m \in Bad : n <= m
    BY <1>1, LeastElement
  <2> QED
    BY <2>1 DEF Bad
<1>3. n # 0
  <2>1. f[0] = << >>
    BY DEF Keeps
  <2>2. << >> \in Seq(S)
    OBVIOUS
  <2> QED
    BY Zenon, <1>2, <2>1, <2>2
<1>4. f[n - 1] \in Seq(S)
  BY <1>2, <1>3
<1>5. f[n] = KeepUpdate(q, n, f[n - 1])
  BY <1>2, <1>3 DEF Keeps
<1>6. q[n] \in S
  BY <1>2, <1>3
<1>7. Append(f[n - 1], q[n]) \in Seq(S)
  BY <1>4, <1>6
<1> QED
  BY <1>2, <1>4, <1>5, <1>7 DEF KeepUpdate

\* Filtering update_fee yields a sequence of queued updates.
LEMMA WithoutFeesType ==
  ASSUME NEW S, NEW q \in Seq(S)
  PROVE  WithoutFees(q) \in Seq(S)
<1> DEFINE kept == CHOOSE f : Keeps(q, f, Len(q))
<1>1. Keeps(q, kept, Len(q))
  BY KeepsExists
<1>2. WithoutFees(q) = kept[Len(q)]
  BY DEF WithoutFees, Keeps
<1> QED
  BY <1>1, <1>2, KeepsType

\* The queue that a lost connection leaves holds ordinary updates only.
LEMMA WithoutFeesOrdinary ==
  ASSUME NEW q, Ordinary(q)
  PROVE  Ordinary(WithoutFees(q))
<1>1. PICK S : q \in Seq(S) /\ \A x \in S : Plain(x)
  BY DEF Ordinary
<1>2. WithoutFees(q) \in Seq(S)
  BY <1>1, WithoutFeesType
<1> QED
  BY <1>1, <1>2 DEF Ordinary

------------------------------------------------------------------------------
\* What each handler does to a record

\* What any handler of a message or of a request may make of a record c: it does
\* not go back, and leaves a failed channel alone.
Advances(c, d) ==
  /\ RecordInv(d)
  /\ c.localCommitmentNumber <= d.localCommitmentNumber
  /\ Awaiting(d) => Awaiting(c)
  /\ c.state = "ERRORED" => d = c

\* It takes back no warning that is still due.
Watchful(c, d) ==
  \A r \in Nat : Awaiting(c) \/ Informed(c, r) => Awaiting(d) \/ Informed(d, r)

\* d is c with the same warnings, in the same state.
Calm(c, d) ==
  /\ d.state = c.state
  /\ d.dataLossDetected = c.dataLossDetected
  /\ d.restoreRevokedRisk = c.restoreRevokedRisk

\* d is c with the same commitment numbers.
Keeping(c, d) == Advances(c, d) /\ Watchful(c, d) /\ SameNumbers(c, d)

\* A step of an open channel that touches neither numbers nor warnings.
LEMMA CalmKeeps ==
  ASSUME NEW c, RecordInv(c), NEW d, RecordInv(d), c.state = "NORMAL",
         Calm(c, d), SameNumbers(c, d)
  PROVE  Keeping(c, d)
<1>1. \A r \in Nat : Informed(c, r) => Informed(d, r)
  BY DEF Informed, Calm, SameNumbers
<1> QED
  BY <1>1 DEF Keeping, Advances, Watchful, Calm, SameNumbers, RecordInv, Awaiting

\* The record of a new channel satisfies the invariant and owes nothing.
LEMMA NewChannelInv ==
  ASSUME NEW p \in Peer
  PROVE  /\ RecordInv(NewChannel(p))
         /\ NewChannel(p).state = "NORMAL"
         /\ NewChannel(p).localCommitmentNumber = 0
         /\ NewChannel(p).remoteRevocationNumber = 0
         /\ ~WillSign(NewChannel(p))
  BY EmptyIsOrdinary DEF NewChannel, RecordInv, Fields, WillSign

\* addHtlc changes no commitment number.
LEMMA AddHtlcKeeps ==
  ASSUME NEW c, RecordInv(c), c.state = "NORMAL", NEW amt
  PROVE  Keeping(c, AddHtlc(c, amt))
<1>1. Ordinary(QueueUpdate(c, AddMessage(c.localHtlcCounter, amt)))
  BY AppendOrdinary DEF RecordInv, QueueUpdate, AddMessage, Plain
<1>2. /\ RecordInv(AddHtlc(c, amt)) /\ SameNumbers(c, AddHtlc(c, amt))
      /\ Calm(c, AddHtlc(c, amt))
  BY <1>1 DEF RecordInv, SameNumbers, Calm, AddHtlc, Fields
<1> QED
  BY <1>2, CalmKeeps

\* fulfillHtlc and failHtlc change no commitment number.
LEMMA SettleHtlcKeeps ==
  ASSUME NEW c, RecordInv(c), c.state = "NORMAL", NEW k, NEW outcome, NEW m, Plain(m)
  PROVE  Keeping(c, SettleHtlc(c, k, outcome, m))
<1> DEFINE d == SettleHtlc(c, k, outcome, m)
<1>1. Ordinary(QueueUpdate(c, m))
  BY AppendOrdinary DEF RecordInv, QueueUpdate
<1>2. RecordInv(d) /\ SameNumbers(c, d) /\ Calm(c, d)
  BY <1>1 DEF RecordInv, SameNumbers, Calm, SettleHtlc, Fields
<1> HIDE DEF d
<1>3. Keeping(c, d)
  BY <1>2, CalmKeeps
<1> QED
  BY <1>3 DEF d

\* updateFee changes no commitment number.
LEMMA UpdateFeeKeeps ==
  ASSUME NEW c, RecordInv(c), c.state = "NORMAL", NEW rate
  PROVE  Keeping(c, UpdateFee(c, rate))
<1>1. Ordinary(QueueUpdate(c, FeeMessage(rate)))
  BY AppendOrdinary DEF RecordInv, QueueUpdate, FeeMessage, Plain
<1>2. /\ RecordInv(UpdateFee(c, rate)) /\ SameNumbers(c, UpdateFee(c, rate))
      /\ Calm(c, UpdateFee(c, rate))
  BY <1>1 DEF RecordInv, SameNumbers, Calm, UpdateFee, Fields
<1> QED
  BY <1>2, CalmKeeps

\* An update of the peer's changes no number and makes no signature due.
Passive(c, d) == Keeping(c, d) /\ (WillSign(d) => WillSign(c))

\* A channel that is failed while open keeps its numbers and signs nothing.
LEMMA FailChannelPassive ==
  ASSUME NEW c, RecordInv(c), c.state = "NORMAL"
  PROVE  Passive(c, FailChannel(c)) /\ ~WillSign(FailChannel(c))
<1> DEFINE d == FailChannel(c)
<1>1. /\ RecordInv(d) /\ SameNumbers(c, d) /\ d.state = "ERRORED"
      /\ d.dataLossDetected = c.dataLossDetected
      /\ d.restoreRevokedRisk = c.restoreRevokedRisk
  BY DEF RecordInv, SameNumbers, FailChannel, Fields
<1> HIDE DEF d
<1>2. \A r \in Nat : Informed(c, r) => Informed(d, r)
  BY <1>1 DEF Informed, SameNumbers
<1>3. Keeping(c, d)
  BY <1>1, <1>2 DEF Keeping, Advances, Watchful, Awaiting, SameNumbers, RecordInv
<1>4. ~WillSign(d)
  BY <1>1 DEF WillSign
<1> QED
  BY <1>3, <1>4 DEF Passive, d

\* A message that is ignored changes nothing.
LEMMA SelfPassive ==
  ASSUME NEW c, RecordInv(c)
  PROVE  Passive(c, c)
  BY DEF Passive, Keeping, Advances, Watchful, SameNumbers, RecordInv

\* A change of an open channel's HTLCs and balances only.
LEMMA CalmPassive ==
  ASSUME NEW c, RecordInv(c), c.state = "NORMAL", NEW d, RecordInv(d),
         Calm(c, d), SameNumbers(c, d), d.needsCommitment = c.needsCommitment
  PROVE  Passive(c, d)
<1>1. Keeping(c, d)
  BY CalmKeeps
<1>2. WillSign(d) => WillSign(c)
  BY DEF WillSign, IsAwaitingRemoteRevocation, Calm, SameNumbers
<1> QED
  BY <1>1, <1>2 DEF Passive

\* handleUpdateAddHtlc changes no number and owes no signature.
LEMMA HandleUpdateAddHtlcPassive ==
  ASSUME NEW c, RecordInv(c), NEW m
  PROVE  Passive(c, HandleUpdateAddHtlc(c, m))
<1> DEFINE k == <<"received", m.id>>
           d == [c EXCEPT !.htlcs = PutHtlc(c, k, ReceivedEntry(m.amt)),
                          !.remoteBalance = c.remoteBalance - m.amt]
<1>1. /\ RecordInv(d) /\ Calm(c, d) /\ SameNumbers(c, d)
      /\ d.needsCommitment = c.needsCommitment
  BY DEF RecordInv, Calm, SameNumbers, Fields
<1>2. \/ HandleUpdateAddHtlc(c, m) = c
      \/ c.state = "NORMAL" /\ HandleUpdateAddHtlc(c, m) \in {FailChannel(c), d}
  BY Zenon DEF HandleUpdateAddHtlc
<1> HIDE DEF d
<1> QED
  BY <1>1, <1>2, SelfPassive, FailChannelPassive, CalmPassive

\* The peer's fulfil or fail changes no number and owes no signature.
LEMMA HandleRemovalPassive ==
  ASSUME NEW c, RecordInv(c), NEW n, NEW outcome
  PROVE  Passive(c, HandleRemoval(c, n, outcome))
<1> DEFINE k == <<"offered", n>>
           d == [c EXCEPT !.htlcs = [@ EXCEPT ![k].state = outcome,
                                              ![k].removalRemoteCommitted = FALSE,
                                              ![k].removalLocallyRevoked = FALSE]]
<1>1. /\ RecordInv(d) /\ Calm(c, d) /\ SameNumbers(c, d)
      /\ d.needsCommitment = c.needsCommitment
  BY DEF RecordInv, Calm, SameNumbers, Fields
<1>2. \/ HandleRemoval(c, n, outcome) = c
      \/ c.state = "NORMAL" /\ HandleRemoval(c, n, outcome) \in {FailChannel(c), d}
  BY Zenon DEF HandleRemoval
<1> HIDE DEF d
<1> QED
  BY <1>1, <1>2, SelfPassive, FailChannelPassive, CalmPassive

\* handleUpdateFee changes no number and owes no signature.
LEMMA HandleUpdateFeePassive ==
  ASSUME NEW c, RecordInv(c), NEW p, NEW m
  PROVE  Passive(c, HandleUpdateFee(p, c, m))
<1> DEFINE d == [c EXCEPT !.feeratePerKw = IF c.pendingFeerate # NoFee /\ c.pendingFeerateSignable
                                           THEN c.pendingFeerate ELSE @,
                          !.pendingFeerate = m.rate,
                          !.pendingFeerateSignable = FALSE,
                          !.pendingFeerateCommitted = FALSE]
<1>1. /\ RecordInv(d) /\ Calm(c, d) /\ SameNumbers(c, d)
      /\ d.needsCommitment = c.needsCommitment
  BY DEF RecordInv, Calm, SameNumbers, Fields
<1>2. \/ HandleUpdateFee(p, c, m) = c
      \/ c.state = "NORMAL" /\ HandleUpdateFee(p, c, m) \in {FailChannel(c), d}
  BY Zenon DEF HandleUpdateFee
<1> HIDE DEF d
<1> QED
  BY <1>1, <1>2, SelfPassive, FailChannelPassive, CalmPassive

\* Signing spends the one permission to sign.
LEMMA SignCommitmentInv ==
  ASSUME NEW c, RecordInv(c), WillSign(c), NEW p
  PROVE  LET d == SignCommitment(p, c)
         IN  /\ Advances(c, d) /\ Watchful(c, d)
             /\ d.remoteRevocationNumber = c.remoteRevocationNumber
             /\ ~WillSign(d)
<1> DEFINE d == SignCommitment(p, c)
<1>1. Len(c.pendingLocalUpdates) \in Nat
  BY OrdinaryFacts DEF RecordInv
<1>2. c.remoteCommitmentNumber = c.remoteRevocationNumber /\ c.state = "NORMAL"
  BY DEF RecordInv, WillSign, IsAwaitingRemoteRevocation
<1>3. /\ RecordInv(d) /\ Calm(c, d) /\ ~WillSign(d)
      /\ d.localCommitmentNumber = c.localCommitmentNumber
      /\ d.remoteRevocationNumber = c.remoteRevocationNumber
  BY <1>1, <1>2 DEF SignCommitment, RecordInv, Fields, WillSign, Calm
<1> HIDE DEF d
<1>4. \A r \in Nat : Informed(c, r) => Informed(d, r)
  BY <1>3 DEF Informed, Calm
<1>5. Advances(c, d) /\ Watchful(c, d)
  BY <1>2, <1>3, <1>4 DEF Advances, Watchful, Calm, RecordInv, Awaiting
<1> QED
  BY <1>3, <1>5 DEF d

\* A signature is accepted, and the commitment number advances, or nothing is.
LEMMA HandleCommitmentSignedInv ==
  ASSUME NEW c, RecordInv(c), NEW p, NEW m
  PROVE  LET d == HandleCommitmentSigned(p, c, m)
         IN  /\ Advances(c, d) /\ Watchful(c, d)
             /\ d.remoteCommitmentNumber = c.remoteCommitmentNumber
             /\ d.remoteRevocationNumber = c.remoteRevocationNumber
             /\ \/ d.localCommitmentNumber = c.localCommitmentNumber + 1 /\ ~Awaiting(d)
                \/ d.localCommitmentNumber = c.localCommitmentNumber /\ ~WillSign(d)
<1> DEFINE rate == LocalFeeRate(p, c, FALSE)
           signable == c.pendingFeerateSignable \/ (p = Acceptor /\ c.pendingFeerate # NoFee)
           owed == c.needsCommitment \/ SignatureOwesAnswer(p, c)
           entries == EachHtlc(c, AcceptSignatureEntry)
           d == [c EXCEPT !.remoteCommitmentSignature = m.view,
                          !.lastSignedCommitFeerate = rate,
                          !.signedLocalRemovals = {},
                          !.pendingFeerateSignable = signable,
                          !.needsCommitment = owed,
                          !.htlcs = entries,
                          !.localCommitmentNumber = @ + 1,
                          !.restoreRevokedRisk = FALSE,
                          !.lastSentWasRevoke = TRUE]
<1>1. ASSUME c.state = "NORMAL"
      PROVE  /\ Advances(c, d) /\ Watchful(c, d) /\ ~Awaiting(d)
             /\ d.remoteCommitmentNumber = c.remoteCommitmentNumber
             /\ d.remoteRevocationNumber = c.remoteRevocationNumber
             /\ d.localCommitmentNumber = c.localCommitmentNumber + 1
  <2> HIDE DEF rate, signable, owed, entries
  <2>1. DOMAIN c = Fields
    BY DEF RecordInv
  <2>2. DOMAIN d = Fields /\ d.localCommitmentNumber = c.localCommitmentNumber + 1
    BY <2>1 DEF Fields
  <2>3. /\ d.remoteCommitmentNumber = c.remoteCommitmentNumber
        /\ d.remoteRevocationNumber = c.remoteRevocationNumber
    BY <2>1 DEF Fields
  <2>4. /\ d.signedCount = c.signedCount
        /\ d.pendingLocalUpdates = c.pendingLocalUpdates
    BY <2>1 DEF Fields
  <2>5. d.state = c.state /\ d.dataLossDetected = c.dataLossDetected
    BY <2>1 DEF Fields
  <2> HIDE DEF d
  <2>6. RecordInv(d)
    BY <2>2, <2>3, <2>4, <2>5 DEF RecordInv
  <2>7. \A r \in Nat : Informed(c, r) => Informed(d, r)
    BY <2>2, <2>5 DEF Informed, RecordInv
  <2> QED
    BY <1>1, <2>2, <2>3, <2>5, <2>6, <2>7 DEF Advances, Watchful, Awaiting, RecordInv
<1>2. \/ HandleCommitmentSigned(p, c, m) = c /\ c.state # "NORMAL"
      \/ c.state = "NORMAL" /\ HandleCommitmentSigned(p, c, m) = FailChannel(c)
      \/ c.state = "NORMAL" /\ HandleCommitmentSigned(p, c, m) = d
  BY Zenon DEF HandleCommitmentSigned
<1>3. c.state # "NORMAL" => ~WillSign(c)
  BY DEF WillSign
<1> HIDE DEF d
<1> QED
  BY <1>1, <1>2, <1>3, SelfPassive, FailChannelPassive DEF Passive, Keeping, SameNumbers

\* A revocation counts only when it carries the secret that is due.
LEMMA HandleRevokeAndAckInv ==
  ASSUME NEW c, RecordInv(c), NEW p, NEW m
  PROVE  LET d == HandleRevokeAndAck(p, c, m)
         IN  /\ Advances(c, d) /\ Watchful(c, d)
             /\ d.localCommitmentNumber = c.localCommitmentNumber
             /\ d.remoteCommitmentNumber = c.remoteCommitmentNumber
             /\ \/ d.remoteRevocationNumber = c.remoteRevocationNumber
                \/ /\ d.remoteRevocationNumber = c.remoteRevocationNumber + 1
                   /\ m.secret = c.remoteRevocationNumber
<1> DEFINE revoked == EachHtlc(c, RevokeEntry)
           done == {k \in DOMAIN revoked :
                      Settled(revoked[k]) /\ revoked[k].removalRemoteCommitted}
           Ours(k) == Received(k) <=> revoked[k].state = "FULFILLED"
           retained == {k \in done : Received(k) /\ revoked[k].addLocallyRevoked}
           promote == c.pendingFeerate # NoFee /\ c.pendingFeerateCommitted
           queue == SubSeq(c.pendingLocalUpdates, c.signedCount + 1, Len(c.pendingLocalUpdates))
           entries == [k \in DOMAIN revoked \ done |-> EmitForward(k, revoked[k])]
           mine == c.localBalance + SumOf(c, {k \in done : Ours(k)})
           theirs == c.remoteBalance + CreditToPeer(c, {k \in done : ~Ours(k)})
           removals == c.signedLocalRemovals
                         \cup {[key |-> k, amt |-> c.htlcs[k].amt, state |-> c.htlcs[k].state] :
                                 k \in retained}
           rate == IF promote THEN c.pendingFeerate ELSE c.feeratePerKw
           pending == IF promote THEN NoFee ELSE c.pendingFeerate
           signable == c.pendingFeerateSignable /\ ~promote
           committed == c.pendingFeerateCommitted /\ ~promote
           d == [c EXCEPT !.remoteRevocationNumber = @ + 1,
                          !.pendingLocalUpdates = queue,
                          !.signedCount = 0,
                          !.htlcs = entries,
                          !.localBalance = mine,
                          !.remoteBalance = theirs,
                          !.signedLocalRemovals = removals,
                          !.feeratePerKw = rate,
                          !.pendingFeerate = pending,
                          !.pendingFeerateSignable = signable,
                          !.pendingFeerateCommitted = committed]
<1>1. \/ HandleRevokeAndAck(p, c, m) = c
      \/ HandleRevokeAndAck(p, c, m) = FailChannel(c) /\ c.state = "NORMAL"
      \/ /\ HandleRevokeAndAck(p, c, m) = d
         /\ c.state = "NORMAL"
         /\ m.secret = c.remoteRevocationNumber
         /\ ~(c.remoteRevocationNumber >= c.remoteCommitmentNumber)
  BY Zenon DEF HandleRevokeAndAck
<1>2. Ordinary(queue)
  BY OrdinaryFacts DEF RecordInv
<1> HIDE DEF queue, entries, mine, theirs, removals, rate, pending, signable, committed
<1>3. DOMAIN c = Fields
  BY DEF RecordInv
<1>4. DOMAIN d = Fields /\ d.remoteRevocationNumber = c.remoteRevocationNumber + 1
  BY <1>3 DEF Fields
<1>5. /\ d.remoteCommitmentNumber = c.remoteCommitmentNumber
      /\ d.localCommitmentNumber = c.localCommitmentNumber
  BY <1>3 DEF Fields
<1>6. d.signedCount = 0 /\ d.pendingLocalUpdates = queue
  BY <1>3 DEF Fields
<1>7. Calm(c, d)
  BY <1>3 DEF Fields, Calm
<1> HIDE DEF d
<1>8. ~(c.remoteRevocationNumber >= c.remoteCommitmentNumber) => RecordInv(d)
  BY <1>2, <1>4, <1>5, <1>6, <1>7 DEF RecordInv, Calm
<1>9. \A r \in Nat : Informed(c, r) => Informed(d, r)
  BY <1>5, <1>7 DEF Informed, Calm
<1>10. c.state = "NORMAL" /\ RecordInv(d) => Advances(c, d) /\ Watchful(c, d)
  BY <1>5, <1>7, <1>9 DEF Advances, Watchful, Calm, Awaiting, RecordInv
<1> QED
  BY <1>1, <1>4, <1>5, <1>8, <1>10, SelfPassive, FailChannelPassive
     DEF Passive, Keeping, SameNumbers

\* The roll-back of a lost connection keeps every commitment number.
LEMMA MarkForReestablishKeeps ==
  ASSUME NEW c, RecordInv(c)
  PROVE  LET d == MarkForReestablish(c)
         IN  /\ RecordInv(d) /\ SameNumbers(c, d) /\ d.state # "NORMAL"
             /\ d.state = "ERRORED" \/ c.state = "ERRORED" => d = c
<1> DEFINE Unsettle(k, e) ==
             IF Offered(k) /\ Settled(e) /\ ~e.removalLocallyRevoked
             THEN [e EXCEPT !.state = "COMMITTED",
                            !.removalRemoteCommitted = TRUE,
                            !.removalLocallyRevoked = TRUE]
             ELSE e
           dropFee == ~c.pendingFeerateSignable /\ ~c.pendingFeerateCommitted
           entries == [k \in DOMAIN c.htlcs \ UnsignedAdds(c) |-> Unsettle(k, c.htlcs[k])]
           theirs == c.remoteBalance + RefundOfUnsignedAdds(c)
           pending == IF dropFee THEN NoFee ELSE c.pendingFeerate
           queue == IF dropFee THEN WithoutFees(c.pendingLocalUpdates)
                    ELSE c.pendingLocalUpdates
           d == [c EXCEPT !.state = "AWAITING_REESTABLISH",
                          !.htlcs = entries,
                          !.remoteBalance = theirs,
                          !.pendingFeerate = pending,
                          !.pendingLocalUpdates = queue]
<1>1. \/ MarkForReestablish(c) = c /\ c.state # "NORMAL"
      \/ MarkForReestablish(c) = d /\ c.state = "NORMAL"
  BY Zenon DEF MarkForReestablish
<1>2. Ordinary(queue)
  BY WithoutFeesOrdinary DEF RecordInv
<1> HIDE DEF entries, theirs, pending, queue
<1>3. RecordInv(d) /\ SameNumbers(c, d) /\ d.state = "AWAITING_REESTABLISH"
  BY <1>2 DEF RecordInv, SameNumbers, Fields
<1> HIDE DEF d
<1> QED
  BY <1>1, <1>3 DEF SameNumbers

\* handleReestablish keeps every commitment number, opens or fails the channel, and
\* leaves the node warned when the peer's number is ahead of its own.
LEMMA HandleReestablishInv ==
  ASSUME NEW c, RecordInv(c), Awaiting(c), NEW m, m.nextRevocation \in Nat
  PROVE  LET d == HandleReestablish(c, m)
         IN  /\ Advances(c, d) /\ SameNumbers(c, d) /\ ~Awaiting(d)
             /\ Informed(d, m.nextRevocation)
<1> DEFINE d == HandleReestablish(c, m)
           n == c.localCommitmentNumber
           fallen == [c EXCEPT !.dataLossDetected = TRUE, !.state = "ERRORED"]
           risk == c.restoreRevokedRisk \/ m.nextRevocation = n + 1
           state == IF ReestablishGap(c, m) THEN "ERRORED" ELSE "NORMAL"
           open == [c EXCEPT !.restoreRevokedRisk = risk, !.state = state]
<1>1. d = IF FellBehind(c, m) THEN fallen ELSE open
  BY Zenon DEF HandleReestablish
<1>2. n \in Nat /\ DOMAIN c = Fields
  BY DEF RecordInv
<1>3. /\ RecordInv(fallen) /\ SameNumbers(c, fallen)
      /\ fallen.dataLossDetected = TRUE /\ fallen.state = "ERRORED"
  BY DEF RecordInv, SameNumbers, Fields
<1>4. state \in {"ERRORED", "NORMAL"}
  OBVIOUS
<1>5. risk \in BOOLEAN /\ (m.nextRevocation = n + 1 => risk)
  OBVIOUS
<1> HIDE DEF state, risk
<1>6. /\ RecordInv(open) /\ SameNumbers(c, open)
      /\ open.restoreRevokedRisk = risk /\ open.state = state
  BY <1>4 DEF RecordInv, SameNumbers, Fields
<1> HIDE DEF fallen, open
<1>7. ~FellBehind(c, m) => m.nextRevocation <= n + 1
  BY <1>2 DEF FellBehind
<1>8. CASE FellBehind(c, m)
  <2>1. d = fallen
    BY <1>1, <1>8
  <2> HIDE DEF d
  <2>2. Informed(d, m.nextRevocation)
    BY <2>1, <1>3 DEF Informed
  <2>3. Advances(c, d) /\ SameNumbers(c, d) /\ ~Awaiting(d)
    BY <2>1, <1>3 DEF Advances, Awaiting, SameNumbers, RecordInv
  <2> QED
    BY <2>2, <2>3 DEF d
<1>9. CASE ~FellBehind(c, m)
  <2>1. d = open
    BY <1>1, <1>9
  <2> HIDE DEF d
  <2>2. Informed(d, m.nextRevocation)
    BY <2>1, <1>2, <1>5, <1>6, <1>7, <1>9 DEF Informed, SameNumbers
  <2>3. Advances(c, d) /\ SameNumbers(c, d) /\ ~Awaiting(d)
    BY <2>1, <1>4, <1>6 DEF Advances, Awaiting, SameNumbers, RecordInv
  <2> QED
    BY <2>2, <2>3 DEF d
<1> QED
  BY <1>8, <1>9

\* A replay gives away only the secret of the commitment before the current one.
LEMMA ReestablishReplayMail ==
  ASSUME NEW c, RecordInv(c), NEW m, m.nextRevocation \in Nat
  PROVE  Mail(ReestablishReplay(c, m), c.localCommitmentNumber, {})
<1> DEFINE n == c.localCommitmentNumber
           revoke == IF m.nextRevocation + 1 = c.localCommitmentNumber
                     THEN << RevokeAndAck(c.localCommitmentNumber - 1) >> ELSE << >>
           missed == m.nextCommitment <= c.remoteCommitmentNumber /\ c.remoteCommitmentNumber > 0
           queue == c.pendingLocalUpdates
           covered == IF c.signedCount < Len(queue) THEN c.signedCount ELSE Len(queue)
           signed == SubSeq(queue, 1, covered)
           unsigned == SubSeq(queue, covered + 1, Len(queue))
           commit == IF missed /\ c.lastSentCommitmentSigned # NoCommitment
                     THEN << CommitmentSigned(c.lastSentCommitmentSigned) >> ELSE << >>
           body == IF missed THEN signed \o commit ELSE WithoutFees(signed) \o unsigned
           rest == IF missed THEN unsigned ELSE << >>
<1>1. n \in Nat /\ Ordinary(queue) /\ c.signedCount \in Nat
  BY DEF RecordInv
<1>2. PICK T : T = {}
  BY Zenon
<1>3. Mail(<< >>, n, T)
  BY <1>1, EmptyIsOrdinary, OrdinaryFacts
<1>4. Mail(revoke, n, T)
  <2>1. CASE m.nextRevocation + 1 = n
    <3> DEFINE r == RevokeAndAck(n - 1)
    <3>1. Admissible(r, n, T)
      BY <2>1, <1>1 DEF RevokeAndAck, Admissible
    <3>2. revoke = Append(<< >>, r)
      BY <2>1
    <3> HIDE DEF r, revoke
    <3> QED
      BY Zenon, <1>1, <1>3, <3>1, <3>2, AppendMail
  <2> QED
    BY <2>1, <1>3
<1>5. Mail(commit, n, T)
  <2> DEFINE s == CommitmentSigned(c.lastSentCommitmentSigned)
  <2>1. Admissible(s, n, T)
    BY DEF CommitmentSigned, Admissible
  <2>2. commit \in {Append(<< >>, s), << >>}
    OBVIOUS
  <2> HIDE DEF s, commit
  <2> QED
    BY Zenon, <1>1, <1>3, <2>1, <2>2, AppendMail
<1>6. covered \in Nat /\ covered <= Len(queue)
  BY <1>1, OrdinaryFacts
<1>7. Ordinary(signed) /\ Ordinary(unsigned)
  BY Zenon, <1>1, <1>6, OrdinaryFacts
<1>8. /\ Mail(signed, n, T)
      /\ Mail(unsigned, n, T)
      /\ Mail(WithoutFees(signed), n, T)
  BY Zenon, <1>1, <1>7, OrdinaryFacts, WithoutFeesOrdinary
<1> HIDE DEF revoke, commit, signed, unsigned, missed, n
<1>9. Mail(body, n, T)
  BY <1>1, <1>5, <1>8, ConcatMail
<1>10. Mail(rest, n, T)
  BY <1>3, <1>8
<1> HIDE DEF body, rest
<1>11. Mail(body \o revoke \o rest, n, T) /\ Mail(revoke \o body \o rest, n, T)
  BY <1>1, <1>4, <1>9, <1>10, ConcatMail
<1>12. ReestablishReplay(c, m) \in {body \o revoke \o rest, revoke \o body \o rest}
  BY Zenon DEF ReestablishReplay, body, rest, revoke, commit, signed, unsigned, missed
<1> QED
  BY Zenon, <1>2, <1>11, <1>12 DEF n
================================================================================
