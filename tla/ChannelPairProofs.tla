--------------------------- MODULE ChannelPairProofs ---------------------------
(***************************************************************************)
(* Proofs about ChannelPair, for every number of HTLCs, fee updates,       *)
(* disconnections and crashes, and about ChannelRestore, for every number  *)
(* of copies and restores of the opener's files.                           *)
(***************************************************************************)
EXTENDS ChannelLemmas

\* What holds of node p also after a restore of old files: its record and its
\* disk agree, a signature that is due is being sent, what is in flight to it fits
\* the sender's record, and once it has heard from its peer it knows where it stands.
PeerInv(p) ==
  /\ RecordInv(ch[p])
  /\ RecordInv(disk[p])
  /\ SameNumbers(ch[p], disk[p])
  /\ Settles(ch[p], disk[p])
  /\ signing[p] <=> connected /\ WillSign(ch[p])
  /\ ~connected => ch[p].state # "NORMAL"
  /\ Mail(net[p], Reach(ch[Other(p)]), Expected(ch[p], ch[Other(p)]))
  /\ ~Awaiting(ch[p]) => Informed(ch[p], ch[Other(p)].remoteRevocationNumber)

\* The inductive invariant that ChannelPair and ChannelRestore share.
Core ==
  /\ DOMAIN ch = Peer /\ DOMAIN disk = Peer /\ DOMAIN net = Peer
  /\ signing \in [Peer -> BOOLEAN]
  /\ \A p \in Peer : PeerInv(p)

\* A node that runs on its own latest record is never behind its peer.
IInv ==
  /\ Core
  /\ \A p \in Peer : ch[p].remoteRevocationNumber <= ch[Other(p)].localCommitmentNumber

\* What a step of the pair never undoes at node p.
Onward(p) ==
  /\ ch[p].localCommitmentNumber <= ch'[p].localCommitmentNumber
  /\ \/ ch'[p].remoteRevocationNumber = ch[p].remoteRevocationNumber
     \/ ch'[p].remoteRevocationNumber <= ch'[Other(p)].localCommitmentNumber
  /\ disk[p].state = "ERRORED" => disk'[p] = disk[p]

\* With restores the opener may be behind the acceptor, never the acceptor behind
\* the opener, and a failed channel is never copied away.
RestoreInv ==
  /\ Core
  /\ RecordInv(copy)
  /\ copy.state = "ERRORED" => copy = disk[Opener]
  /\ ch[Opener].remoteRevocationNumber <= ch[Acceptor].localCommitmentNumber
  /\ copy.remoteRevocationNumber <= ch[Acceptor].localCommitmentNumber

------------------------------------------------------------------------------
\* Peers

\* There are two peers, and each is the other of the other.
LEMMA PeerFacts ==
  ASSUME NEW p \in Peer
  PROVE  /\ Other(p) \in Peer
         /\ Other(p) # p
         /\ Other(Other(p)) = p
         /\ \A q \in Peer : q = p \/ q = Other(p)
  BY PeersDiffer DEF Peer, Other

------------------------------------------------------------------------------
\* The induction

\* The invariant holds initially.
LEMMA InitIInv == Init => IInv
<1> SUFFICES ASSUME Init PROVE IInv
  OBVIOUS
<1>1. DOMAIN ch = Peer /\ DOMAIN disk = Peer /\ DOMAIN net = Peer
      /\ signing \in [Peer -> BOOLEAN] /\ connected
  BY DEF Init
<1>2. ASSUME NEW p \in Peer
      PROVE  PeerInv(p) /\ ch[p].remoteRevocationNumber <= ch[Other(p)].localCommitmentNumber
  <2> DEFINE c == NewChannel(p)
             d == NewChannel(Other(p))
  <2>1. /\ ch[p] = c /\ disk[p] = c /\ ch[Other(p)] = d
        /\ net[p] = << >> /\ signing[p] = FALSE
    BY PeerFacts DEF Init
  <2>2. /\ RecordInv(c) /\ c.state = "NORMAL" /\ ~WillSign(c)
        /\ c.localCommitmentNumber = 0 /\ c.remoteRevocationNumber = 0
    BY NewChannelInv
  <2>3. /\ d.localCommitmentNumber = 0 /\ d.remoteRevocationNumber = 0
    BY PeerFacts, NewChannelInv
  <2> HIDE DEF c, d
  <2>4. Reach(d) \in Nat
    BY <2>3 DEF Reach
  <2>5. Mail(net[p], Reach(d), Expected(c, d))
    BY <2>1, <2>4, EmptyIsOrdinary, OrdinaryFacts
  <2>6. Informed(c, d.remoteRevocationNumber)
    BY <2>2, <2>3 DEF Informed
  <2> QED
    BY <1>1, <2>1, <2>2, <2>3, <2>5, <2>6 DEF PeerInv, SameNumbers, Settles
<1> QED
  BY <1>1, <1>2 DEF IInv, Core

\* What the steps need of the record of either node.
LEMMA CoreFacts ==
  ASSUME Core, NEW p \in Peer
  PROVE  /\ RecordInv(ch[p]) /\ RecordInv(disk[p])
         /\ SameNumbers(ch[p], disk[p]) /\ Settles(ch[p], disk[p])
         /\ ch[p].localCommitmentNumber \in Nat
         /\ ch[p].remoteRevocationNumber \in Nat
         /\ Reach(ch[p]) \in Nat /\ Reach(ch[p]) <= ch[p].localCommitmentNumber
         /\ Mail(net[p], Reach(ch[Other(p)]), Expected(ch[p], ch[Other(p)]))
         /\ Awaiting(ch[p]) \/ Informed(ch[p], ch[Other(p)].remoteRevocationNumber)
         /\ signing[p] <=> connected /\ WillSign(ch[p])
  BY DEF Core, PeerInv, RecordInv, Reach

\* A node whose numbers and whose disk a step leaves alone goes on.
LEMMA OnwardStays ==
  ASSUME NEW p \in Peer, disk'[p] = disk[p],
         ch[p].localCommitmentNumber \in Nat,
         ch'[p].localCommitmentNumber = ch[p].localCommitmentNumber,
         ch'[p].remoteRevocationNumber = ch[p].remoteRevocationNumber
  PROVE  Onward(p)
  BY DEF Onward

\* A secret below what the sender reaches is of a commitment it has left behind.
LEMMA BelowReach ==
  ASSUME NEW c, c.localCommitmentNumber \in Nat, NEW k \in 0..(Reach(c) - 1)
  PROVE  ~Awaiting(c) /\ k \in Nat /\ k < c.localCommitmentNumber
  BY DEF Reach

\* A step of one connected node keeps the invariant when its own record does
\* and what it sends fits the record it has saved.
LEMMA NodeStep ==
  ASSUME Core, connected, connected',
         NEW p \in Peer, NEW c, NEW d,
         ch' = [ch EXCEPT ![p] = c],
         disk' = [disk EXCEPT ![p] = d],
         DOMAIN net' = Peer,
         signing' = [signing EXCEPT ![p] = WillSign(c)],
         Advances(ch[p], c), RecordInv(d), SameNumbers(c, d), Settles(c, d),
         disk[p].state = "ERRORED" => d = disk[p],
         \/ c.remoteRevocationNumber = ch[p].remoteRevocationNumber
         \/ c.remoteRevocationNumber <= ch[Other(p)].localCommitmentNumber,
         Awaiting(c) \/ Informed(c, ch[Other(p)].remoteRevocationNumber),
         Mail(net'[p], Reach(ch[Other(p)]), Expected(c, ch[Other(p)])),
         Mail(net'[Other(p)], Reach(c), Expected(ch[Other(p)], c))
  PROVE  Core' /\ \A q \in Peer : Onward(q)
<1> DEFINE o == Other(p)
<1>1. o \in Peer /\ o # p /\ Other(o) = p /\ \A q \in Peer : q = p \/ q = o
  BY PeerFacts
<1>2. WillSign(c) \in BOOLEAN
  BY DEF WillSign
<1>3. /\ DOMAIN ch' = Peer /\ DOMAIN disk' = Peer /\ signing' \in [Peer -> BOOLEAN]
      /\ ch'[p] = c /\ disk'[p] = d /\ signing'[p] = WillSign(c)
      /\ ch'[o] = ch[o] /\ disk'[o] = disk[o] /\ signing'[o] = signing[o]
  BY <1>1, <1>2 DEF Core
<1>4. RecordInv(c) /\ ch[p].localCommitmentNumber <= c.localCommitmentNumber
  BY DEF Advances
<1>5. Awaiting(ch[o]) \/ Informed(ch[o], c.remoteRevocationNumber)
  <2>1. CASE c.remoteRevocationNumber = ch[p].remoteRevocationNumber
    BY <2>1, <1>1, CoreFacts
  <2>2. CASE c.remoteRevocationNumber <= ch[o].localCommitmentNumber
    BY <2>2, <1>1, <1>4, CoreFacts DEF Informed, RecordInv
  <2> QED
    BY <2>1, <2>2
<1>6. PeerInv(p)'
  BY <1>1, <1>2, <1>3, <1>4 DEF PeerInv
<1>7. PeerInv(o)'
  BY <1>1, <1>3, <1>5, CoreFacts DEF PeerInv
<1>8. Onward(p)
  BY <1>1, <1>3, <1>4 DEF Onward
<1>9. Onward(o)
  BY <1>1, <1>3, CoreFacts DEF Onward
<1> QED
  BY <1>1, <1>3, <1>6, <1>7, <1>8, <1>9 DEF Core

\* The mail on its way to the peer stays admissible when the sender advances.
LEMMA MailStays ==
  ASSUME Core, NEW p \in Peer, NEW c, Advances(ch[p], c),
         \/ c.remoteRevocationNumber = ch[p].remoteRevocationNumber
         \/ ~Awaiting(ch[Other(p)])
  PROVE  /\ Mail(net[Other(p)], Reach(c), Expected(ch[Other(p)], c))
         /\ Mail(net[p], Reach(ch[Other(p)]), Expected(c, ch[Other(p)]))
         /\ Reach(c) \in Nat /\ Reach(ch[Other(p)]) \in Nat
<1> DEFINE o == Other(p)
<1>1. o \in Peer /\ Other(o) = p
  BY PeerFacts
<1>2. Reach(c) \in Nat /\ Reach(ch[p]) <= Reach(c)
  BY CoreFacts DEF Advances, Reach, RecordInv
<1>3. Expected(ch[o], ch[p]) \subseteq Expected(ch[o], c)
  BY DEF Expected
<1>4. Expected(ch[p], ch[o]) \subseteq Expected(c, ch[o])
  BY Zenon, <1>1, CoreFacts DEF Expected, Advances
<1>5. /\ Mail(net[o], Reach(ch[p]), Expected(ch[o], ch[p]))
      /\ Mail(net[p], Reach(ch[o]), Expected(ch[p], ch[o]))
      /\ Reach(ch[p]) \in Nat /\ Reach(ch[o]) \in Nat
  BY <1>1, CoreFacts
<1>6. Mail(net[o], Reach(c), Expected(ch[o], c))
  BY <1>2, <1>3, <1>5, MoreMail
<1>7. Mail(net[p], Reach(ch[o]), Expected(c, ch[o]))
  <2>1. Reach(ch[o]) <= Reach(ch[o])
    BY <1>5
  <2> QED
    BY <2>1, <1>4, <1>5, MoreMail
<1> QED
  BY <1>2, <1>5, <1>6, <1>7

\* A step that starts at a node saves, sends no secret and marks what it owes.
LEMMA OriginatesStep ==
  ASSUME Core, connected, NEW p \in Peer, NEW c, NEW m,
         Originates(p, c, m), Advances(ch[p], c), Watchful(ch[p], c),
         c.remoteRevocationNumber = ch[p].remoteRevocationNumber, Plain(m)
  PROVE  Core' /\ \A q \in Peer : Onward(q)
<1> DEFINE o == Other(p)
<1>1. o \in Peer /\ o # p /\ Other(o) = p
  BY PeerFacts
<1>2. RecordInv(c) /\ SameNumbers(c, c) /\ Settles(c, c)
  BY DEF Advances, SameNumbers, Settles
<1>3. DOMAIN net' = Peer /\ net'[p] = net[p] /\ net'[o] = Append(net[o], m)
  BY <1>1 DEF Core, Originates
<1>4. /\ Mail(net[o], Reach(c), Expected(ch[o], c))
      /\ Mail(net[p], Reach(ch[o]), Expected(c, ch[o]))
      /\ Reach(c) \in Nat
  BY MailStays
<1>5. Mail(net'[o], Reach(c), Expected(ch[o], c))
  <2>1. Admissible(m, Reach(c), Expected(ch[o], c))
    BY DEF Plain, Admissible
  <2> QED
    BY <2>1, <1>3, <1>4, AppendMail
<1>6. disk[p].state = "ERRORED" => c = disk[p]
  BY CoreFacts DEF Settles, Advances
<1>7. Awaiting(c) \/ Informed(c, ch[o].remoteRevocationNumber)
  BY <1>1, CoreFacts DEF Watchful
<1>8. /\ ch' = [ch EXCEPT ![p] = c]
      /\ disk' = [disk EXCEPT ![p] = c]
      /\ signing' = [signing EXCEPT ![p] = WillSign(c)]
      /\ connected'
  BY DEF Originates
<1> QED
  BY Zenon, <1>2, <1>3, <1>4, <1>5, <1>6, <1>7, <1>8, NodeStep

\* A handler whose record and whose sends respect the invariant keeps it.
LEMMA HandlesStep ==
  ASSUME Core, connected, NEW p \in Peer, net[p] # << >>,
         NEW c, NEW save \in BOOLEAN, NEW out,
         Handles(p, c, save, out),
         signing' = [signing EXCEPT ![p] = WillSign(c)],
         Advances(ch[p], c),
         ~save => SameNumbers(ch[p], c),
         c.state = "ERRORED" /\ ch[p].state # "ERRORED" => save,
         \/ c.remoteRevocationNumber = ch[p].remoteRevocationNumber
         \/ /\ c.remoteRevocationNumber <= ch[Other(p)].localCommitmentNumber
            /\ ~Awaiting(ch[Other(p)]),
         Awaiting(c) \/ Informed(c, ch[Other(p)].remoteRevocationNumber),
         Mail(out, Reach(c), {})
  PROVE  Core' /\ \A q \in Peer : Onward(q)
<1> DEFINE o == Other(p)
           d == IF save THEN c ELSE disk[p]
<1>1. o \in Peer /\ o # p /\ Other(o) = p
  BY PeerFacts
<1>2. RecordInv(d) /\ SameNumbers(c, d)
  <2>1. CASE save
    BY <2>1 DEF SameNumbers, Advances
  <2>2. CASE ~save
    BY <2>2, CoreFacts DEF SameNumbers
  <2> QED
    BY <2>1, <2>2
<1>3. Settles(c, d) /\ (disk[p].state = "ERRORED" => d = disk[p])
  BY CoreFacts DEF Settles, Advances
<1>4. DOMAIN net' = Peer /\ net'[p] = Tail(net[p]) /\ net'[o] = net[o] \o out
  BY <1>1 DEF Core, Handles
<1>5. /\ Mail(net[o], Reach(c), Expected(ch[o], c))
      /\ Mail(net[p], Reach(ch[o]), Expected(c, ch[o]))
      /\ Reach(c) \in Nat /\ Reach(ch[o]) \in Nat
  BY MailStays
<1>6. Mail(net'[p], Reach(ch[o]), Expected(c, ch[o]))
  BY <1>4, <1>5, TailMail
<1>7. Mail(net'[o], Reach(c), Expected(ch[o], c))
  <2>1. PICK T : T = {}
    OBVIOUS
  <2>2. T \subseteq Expected(ch[o], c) /\ Reach(c) <= Reach(c) /\ Mail(out, Reach(c), T)
    BY <1>5, <2>1
  <2>3. Mail(out, Reach(c), Expected(ch[o], c))
    BY <1>5, <2>2, MoreMail
  <2> QED
    BY <2>3, <1>4, <1>5, ConcatMail
<1>8. /\ ch' = [ch EXCEPT ![p] = c]
      /\ disk' = [disk EXCEPT ![p] = d]
      /\ connected'
  BY DEF Handles
<1> HIDE DEF d
<1> QED
  BY Zenon, <1>2, <1>3, <1>4, <1>6, <1>7, <1>8, NodeStep

\* An update of the peer's, kept in memory only, keeps the invariant.
LEMMA HandlesUpdateStep ==
  ASSUME Core, NEW p \in Peer, Idle(p), net[p] # << >>,
         NEW c, Passive(ch[p], c), HandlesUpdate(p, c)
  PROVE  Core' /\ \A q \in Peer : Onward(q)
<1>1. connected /\ ~signing[p]
  BY DEF Idle
<1>2. ~WillSign(c) /\ ~WillSign(ch[p])
  BY <1>1, CoreFacts DEF Passive
<1>3. signing' = [signing EXCEPT ![p] = WillSign(c)]
  <2>1. signing[p] = FALSE /\ WillSign(c) = FALSE
    BY <1>1, <1>2 DEF Core, WillSign
  <2> QED
    BY Zenon, <2>1 DEF Core, HandlesUpdate
<1>4. Advances(ch[p], c) /\ Watchful(ch[p], c) /\ SameNumbers(ch[p], c)
  BY DEF Passive, Keeping
<1>5. c.remoteRevocationNumber = ch[p].remoteRevocationNumber
  BY <1>4 DEF SameNumbers
<1>6. Awaiting(c) \/ Informed(c, ch[Other(p)].remoteRevocationNumber)
  BY <1>4, PeerFacts, CoreFacts DEF Watchful
<1>7. Mail(<< >>, Reach(c), {})
  BY <1>4, EmptyIsOrdinary, OrdinaryFacts DEF Reach, Advances, RecordInv
<1>8. PICK save \in BOOLEAN :
        /\ Handles(p, c, save, << >>)
        /\ c.state = "ERRORED" /\ ch[p].state # "ERRORED" => save
  BY Zenon DEF HandlesUpdate
<1> QED
  BY Zenon, <1>1, <1>3, <1>4, <1>5, <1>6, <1>7, <1>8, HandlesStep

\* autoSignAndSendCommitment keeps the invariant.
LEMMA AutoSignsStep ==
  ASSUME Core, NEW p \in Peer, AutoSigns(p)
  PROVE  Core' /\ \A q \in Peer : Onward(q)
<1> DEFINE c == SignCommitment(p, ch[p])
           m == CommitmentSigned(c.lastSentCommitmentSigned)
<1>1. connected /\ RecordInv(ch[p]) /\ WillSign(ch[p])
  BY CoreFacts DEF AutoSigns
<1>2. /\ Advances(ch[p], c) /\ Watchful(ch[p], c)
      /\ c.remoteRevocationNumber = ch[p].remoteRevocationNumber
      /\ ~WillSign(c)
  BY <1>1, SignCommitmentInv
<1>3. Plain(m)
  BY DEF CommitmentSigned, Plain
<1>4. /\ ch' = [ch EXCEPT ![p] = c]
      /\ disk' = [disk EXCEPT ![p] = c]
      /\ net' = [net EXCEPT ![Other(p)] = Append(@, m)]
      /\ signing' = [signing EXCEPT ![p] = FALSE]
      /\ UNCHANGED <<connected, drops>>
  BY DEF AutoSigns
<1> HIDE DEF c, m
<1>5. WillSign(c) = FALSE
  BY <1>2 DEF WillSign
<1>6. Originates(p, c, m)
  BY Zenon, <1>4, <1>5 DEF Originates
<1> QED
  BY <1>1, <1>2, <1>3, <1>6, OriginatesStep

\* handleCommitmentSigned keeps the invariant: it saves, then revokes.
LEMMA ReceivesCommitmentSignedStep ==
  ASSUME Core, NEW p \in Peer, ReceivesCommitmentSigned(p)
  PROVE  Core' /\ \A q \in Peer : Onward(q)
<1> DEFINE m == Head(net[p])
           c == HandleCommitmentSigned(p, ch[p], m)
           accepted == c.localCommitmentNumber # ch[p].localCommitmentNumber
           out == IF accepted THEN << RevokeAndAck(ch[p].localCommitmentNumber) >> ELSE << >>
           save == c # ch[p]
<1>1. connected /\ net[p] # << >> /\ RecordInv(ch[p])
  BY CoreFacts DEF ReceivesCommitmentSigned, Arrives, Idle
<1>2. /\ Advances(ch[p], c) /\ Watchful(ch[p], c)
      /\ c.remoteCommitmentNumber = ch[p].remoteCommitmentNumber
      /\ c.remoteRevocationNumber = ch[p].remoteRevocationNumber
      /\ \/ c.localCommitmentNumber = ch[p].localCommitmentNumber + 1 /\ ~Awaiting(c)
         \/ c.localCommitmentNumber = ch[p].localCommitmentNumber /\ ~WillSign(c)
  BY <1>1, HandleCommitmentSignedInv
<1>3. /\ Handles(p, c, save, out)
      /\ signing' = [signing EXCEPT ![p] = accepted /\ WillSign(c)]
  BY DEF ReceivesCommitmentSigned
<1> HIDE DEF c
<1>4. RecordInv(c) /\ Reach(c) \in Nat
  BY <1>2 DEF Advances, Reach, RecordInv
<1>5. PICK T : T = {}
  BY Zenon
<1>6. Mail(out, Reach(c), T)
  <2>1. Mail(<< >>, Reach(c), T)
    BY <1>4, EmptyIsOrdinary, OrdinaryFacts
  <2>2. CASE accepted
    <3> DEFINE r == RevokeAndAck(ch[p].localCommitmentNumber)
    <3>1. Reach(c) = ch[p].localCommitmentNumber + 1
      BY <2>2, <1>2 DEF Reach
    <3>2. Admissible(r, Reach(c), T)
      BY <3>1, <1>1 DEF RevokeAndAck, RecordInv, Admissible
    <3>3. out = Append(<< >>, r)
      BY <2>2
    <3> HIDE DEF r, out
    <3> QED
      BY Zenon, <2>1, <3>2, <3>3, <1>4, AppendMail
  <2> QED
    BY <2>1, <2>2
<1>7. (accepted /\ WillSign(c)) = WillSign(c)
  BY <1>1, <1>2 DEF WillSign, RecordInv
<1>8. Awaiting(c) \/ Informed(c, ch[Other(p)].remoteRevocationNumber)
  BY <1>2, PeerFacts, CoreFacts DEF Watchful
<1>9. /\ ~save => SameNumbers(ch[p], c)
      /\ c.state = "ERRORED" /\ ch[p].state # "ERRORED" => save
  BY DEF SameNumbers
<1>10. save \in BOOLEAN /\ signing' = [signing EXCEPT ![p] = WillSign(c)]
  BY Zenon, <1>3, <1>7
<1>11. Mail(out, Reach(c), {})
  BY <1>5, <1>6
<1> HIDE DEF out, save
<1> QED
  BY Zenon, <1>1, <1>2, <1>3, <1>8, <1>9, <1>10, <1>11, HandlesStep

\* handleRevokeAndAck keeps the invariant.
LEMMA ReceivesRevokeAndAckStep ==
  ASSUME Core, NEW p \in Peer, ReceivesRevokeAndAck(p)
  PROVE  Core' /\ \A q \in Peer : Onward(q)
<1> DEFINE m == Head(net[p])
           o == Other(p)
           c == HandleRevokeAndAck(p, ch[p], m)
           save == c # ch[p]
<1>1. /\ connected /\ net[p] # << >> /\ m.type = "revoke_and_ack"
  BY DEF ReceivesRevokeAndAck, Arrives, Idle
<1>2. /\ RecordInv(ch[p]) /\ RecordInv(ch[o]) /\ Reach(ch[o]) \in Nat
      /\ Mail(net[p], Reach(ch[o]), Expected(ch[p], ch[o]))
  BY PeerFacts, CoreFacts
<1>3. m.secret \in 0..(Reach(ch[o]) - 1)
  <2>1. Admissible(m, Reach(ch[o]), Expected(ch[p], ch[o]))
    BY Zenon, <1>1, <1>2, TailMail
  <2> QED
    BY <1>1, <2>1 DEF Admissible
<1>4. ~Awaiting(ch[o]) /\ m.secret \in Nat /\ m.secret < ch[o].localCommitmentNumber
  <2>1. ch[o].localCommitmentNumber \in Nat
    BY <1>2 DEF RecordInv
  <2> QED
    BY Zenon, <1>3, <2>1, BelowReach
<1>5. /\ Advances(ch[p], c) /\ Watchful(ch[p], c)
      /\ c.localCommitmentNumber = ch[p].localCommitmentNumber
      /\ c.remoteCommitmentNumber = ch[p].remoteCommitmentNumber
      /\ \/ c.remoteRevocationNumber = ch[p].remoteRevocationNumber
         \/ /\ c.remoteRevocationNumber = ch[p].remoteRevocationNumber + 1
            /\ m.secret = ch[p].remoteRevocationNumber
  <2>1. c = HandleRevokeAndAck(p, ch[p], m)
    OBVIOUS
  <2> HIDE DEF c, m
  <2> QED
    BY <1>2, <2>1, HandleRevokeAndAckInv
<1>6. /\ Handles(p, c, save, << >>)
      /\ signing' = [signing EXCEPT ![p] = WillSign(c)]
  BY DEF ReceivesRevokeAndAck
<1> HIDE DEF c, m
<1>7. \/ c.remoteRevocationNumber = ch[p].remoteRevocationNumber
      \/ c.remoteRevocationNumber <= ch[o].localCommitmentNumber /\ ~Awaiting(ch[o])
  <2>1. ch[p].remoteRevocationNumber \in Nat /\ ch[o].localCommitmentNumber \in Nat
    BY <1>2 DEF RecordInv
  <2> QED
    BY <1>4, <1>5, <2>1
<1>8. /\ save \in BOOLEAN
      /\ ~save => SameNumbers(ch[p], c)
      /\ c.state = "ERRORED" /\ ch[p].state # "ERRORED" => save
  BY DEF SameNumbers
<1>9. Awaiting(c) \/ Informed(c, ch[o].remoteRevocationNumber)
  BY <1>5, PeerFacts, CoreFacts DEF Watchful
<1>10. Mail(<< >>, Reach(c), {})
  BY <1>5, EmptyIsOrdinary, OrdinaryFacts DEF Reach, Advances, RecordInv
<1> HIDE DEF save
<1> QED
  BY Zenon, <1>1, <1>5, <1>6, <1>7, <1>8, <1>9, <1>10, HandlesStep

\* handleReestablish and its replay keep the invariant.
LEMMA ReceivesReestablishStep ==
  ASSUME Core, NEW p \in Peer, ReceivesReestablish(p)
  PROVE  Core' /\ \A q \in Peer : Onward(q)
<1> DEFINE m == Head(net[p])
           o == Other(p)
           c == HandleReestablish(ch[p], m)
           replay == ReestablishReplay(ch[p], m)
           out == IF c.state = "NORMAL" THEN replay ELSE << >>
           save == \/ c.state = "ERRORED"
                   \/ c.restoreRevokedRisk # ch[p].restoreRevokedRisk
                   \/ out # << >>
<1>1. /\ Idle(p) /\ connected /\ net[p] # << >> /\ RecordInv(ch[p])
      /\ m.type = "channel_reestablish"
  BY CoreFacts DEF ReceivesReestablish, Arrives, Idle
<1>2. CASE Awaiting(ch[p])
  <2>1. /\ Reach(ch[o]) \in Nat /\ ch[o].remoteRevocationNumber \in Nat
        /\ Mail(net[p], Reach(ch[o]), Expected(ch[p], ch[o]))
    BY PeerFacts, CoreFacts
  <2>2. Admissible(m, Reach(ch[o]), Expected(ch[p], ch[o]))
    BY Zenon, <1>1, <2>1, TailMail
  <2>3. m.nextRevocation = ch[o].remoteRevocationNumber
    BY <1>1, <1>2, <2>2 DEF Admissible, Expected
  <2>4. /\ Advances(ch[p], c) /\ SameNumbers(ch[p], c) /\ ~Awaiting(c)
        /\ Informed(c, ch[o].remoteRevocationNumber)
    BY <1>1, <1>2, <2>1, <2>3, HandleReestablishInv
  <2>5. Mail(replay, ch[p].localCommitmentNumber, {})
    BY <1>1, <2>1, <2>3, ReestablishReplayMail
  <2>6. /\ Handles(p, c, save, out)
        /\ signing' = [signing EXCEPT ![p] = WillSign(c)]
    BY Zenon, <1>2 DEF ReceivesReestablish, Awaiting
  <2> HIDE DEF c, replay, m
  <2>7. Reach(c) = ch[p].localCommitmentNumber /\ Reach(c) \in Nat
    BY <1>1, <2>4 DEF Reach, SameNumbers, RecordInv
  <2>8. Mail(<< >>, Reach(c), {})
    BY <2>7, EmptyIsOrdinary, OrdinaryFacts
  <2>9. Mail(out, Reach(c), {})
    BY <2>5, <2>7, <2>8
  <2>10. c.remoteRevocationNumber = ch[p].remoteRevocationNumber
    BY <2>4 DEF SameNumbers
  <2>11. save \in BOOLEAN /\ (c.state = "ERRORED" => save)
    OBVIOUS
  <2> HIDE DEF out, save
  <2> QED
    BY Zenon, <1>1, <2>4, <2>6, <2>9, <2>10, <2>11, HandlesStep
<1>3. CASE ~Awaiting(ch[p])
  <2>1. HandlesUpdate(p, ch[p])
    BY <1>3 DEF ReceivesReestablish, Awaiting
  <2> QED
    BY <1>1, <2>1, SelfPassive, HandlesUpdateStep
<1> QED
  BY <1>2, <1>3

\* A connection that ends leaves nothing in flight; a node whose channel is open
\* waits for channel_reestablish again.
LEMMA ConnectionEnds ==
  ASSUME ~connected', DOMAIN ch' = Peer, DOMAIN disk' = Peer,
         net' = [p \in Peer |-> << >>], signing' = [p \in Peer |-> FALSE],
         \A p \in Peer : /\ RecordInv(ch'[p]) /\ RecordInv(disk'[p])
                         /\ SameNumbers(ch'[p], disk'[p]) /\ Settles(ch'[p], disk'[p])
                         /\ ch'[p].state # "NORMAL"
                         /\ \/ Awaiting(ch'[p])
                            \/ Informed(ch'[p], ch'[Other(p)].remoteRevocationNumber)
  PROVE  Core'
<1>1. /\ DOMAIN net' = Peer /\ signing' \in [Peer -> BOOLEAN]
      /\ \A p \in Peer : net'[p] = << >> /\ ~signing'[p]
  OBVIOUS
<1>2. ASSUME NEW p \in Peer
      PROVE  PeerInv(p)'
  <2>1. Reach(ch'[Other(p)]) \in Nat
    BY PeerFacts DEF Reach, RecordInv
  <2>2. Mail(net'[p], Reach(ch'[Other(p)]), Expected(ch'[p], ch'[Other(p)]))
    BY <1>1, <2>1, EmptyIsOrdinary, OrdinaryFacts
  <2> QED
    BY <1>1, <2>2 DEF PeerInv
<1> QED
  BY <1>1, <1>2 DEF Core

\* Losing the connection, or one node crashing, keeps the numbers of both records.
LEMMA LosesConnectionStep ==
  ASSUME Core, LosesConnection, UNCHANGED disk, NEW lost \in SUBSET Peer,
         ch' = [p \in Peer |-> MarkForReestablish(IF p \in lost THEN disk[p] ELSE ch[p])]
  PROVE  Core' /\ \A q \in Peer : Onward(q)
<1>1. ASSUME NEW p \in Peer
      PROVE  /\ RecordInv(ch'[p]) /\ SameNumbers(ch[p], ch'[p]) /\ SameNumbers(ch'[p], disk[p])
             /\ ch'[p].state # "NORMAL" /\ Settles(ch'[p], disk[p])
             /\ ch'[p].state = "ERRORED" => ch'[p] = ch[p]
  <2> DEFINE c == IF p \in lost THEN disk[p] ELSE ch[p]
  <2>1. /\ RecordInv(c) /\ SameNumbers(ch[p], c) /\ SameNumbers(c, disk[p])
        /\ Settles(ch[p], c) /\ Settles(c, disk[p])
    BY CoreFacts DEF SameNumbers, Settles
  <2>2. ch'[p] = MarkForReestablish(c)
    OBVIOUS
  <2> HIDE DEF c
  <2>3. /\ RecordInv(ch'[p]) /\ SameNumbers(c, ch'[p]) /\ ch'[p].state # "NORMAL"
        /\ ch'[p].state = "ERRORED" \/ c.state = "ERRORED" => ch'[p] = c
    BY <2>1, <2>2, MarkForReestablishKeeps
  <2> QED
    BY <2>1, <2>3 DEF SameNumbers, Settles
<1>2. ASSUME NEW p \in Peer
      PROVE  Awaiting(ch'[p]) \/ Informed(ch'[p], ch'[Other(p)].remoteRevocationNumber)
  <2>1. ch'[Other(p)].remoteRevocationNumber = ch[Other(p)].remoteRevocationNumber
    BY <1>1, PeerFacts DEF SameNumbers
  <2>2. Awaiting(ch'[p]) \/ ch'[p].state = "ERRORED"
    BY <1>1 DEF RecordInv, Awaiting
  <2> QED
    BY <1>1, <2>1, <2>2, CoreFacts DEF Awaiting
<1>3. DOMAIN ch' = Peer /\ DOMAIN disk' = Peer /\ ~connected' /\ disk' = disk
      /\ net' = [p \in Peer |-> << >>] /\ signing' = [p \in Peer |-> FALSE]
  BY DEF LosesConnection, Core
<1>4. Core'
  BY Zenon, <1>1, <1>2, <1>3, CoreFacts, ConnectionEnds
<1>5. ASSUME NEW p \in Peer
      PROVE  Onward(p)
  <2>1. /\ ch'[p].localCommitmentNumber = ch[p].localCommitmentNumber
        /\ ch'[p].remoteRevocationNumber = ch[p].remoteRevocationNumber
    BY <1>1 DEF SameNumbers
  <2>2. ch[p].localCommitmentNumber \in Nat /\ disk'[p] = disk[p]
    BY Zenon, <1>3, CoreFacts
  <2> QED
    BY Zenon, <2>1, <2>2, OnwardStays
<1> QED
  BY <1>4, <1>5

\* channel_reestablish carries no secret and the sender's own number.
LEMMA ReconnectsStep ==
  ASSUME Core, Reconnects
  PROVE  Core' /\ \A q \in Peer : Onward(q)
<1>1. /\ connected' /\ ~connected /\ DOMAIN net' = Peer
      /\ ch' = ch /\ disk' = disk /\ signing' = signing
  BY DEF Reconnects
<1>2. ASSUME NEW p \in Peer
      PROVE  Mail(net'[p], Reach(ch[Other(p)]), Expected(ch[p], ch[Other(p)]))
  <2> DEFINE o == ch[Other(p)]
             r == CreateReestablish(o)
             T == Expected(ch[p], o)
  <2>1. Reach(o) \in Nat /\ o.remoteRevocationNumber \in Nat
    BY PeerFacts, CoreFacts
  <2>2. Admissible(r, Reach(o), T)
    BY <2>1 DEF CreateReestablish, Admissible, Expected
  <2>3. net'[p] \in {Append(<< >>, r), << >>}
    BY DEF Reconnects
  <2> HIDE DEF r, o, T
  <2>4. Mail(<< >>, Reach(o), T)
    BY <2>1, EmptyIsOrdinary, OrdinaryFacts
  <2>5. Mail(net'[p], Reach(o), T)
    BY Zenon, <2>1, <2>2, <2>3, <2>4, AppendMail
  <2> QED
    BY <2>5 DEF o, T
<1>3. ASSUME NEW p \in Peer
      PROVE  ~WillSign(ch[p])
  BY <1>1 DEF Core, PeerInv, WillSign
<1>4. ASSUME NEW p \in Peer
      PROVE  PeerInv(p)'
  BY <1>1, <1>2, <1>3 DEF Core, PeerInv
<1>5. ASSUME NEW p \in Peer
      PROVE  Onward(p)
  BY Zenon, <1>1, CoreFacts, OnwardStays
<1> QED
  BY <1>1, <1>4, <1>5 DEF Core

\* Every step of the pair keeps the invariant and undoes nothing, one case per action.
LEMMA NextCore == Core /\ [Next]_vars => Core' /\ \A q \in Peer : Onward(q)
<1> DEFINE Goal == Core' /\ \A q \in Peer : Onward(q)
<1> SUFFICES ASSUME Core, [Next]_vars PROVE Goal
  OBVIOUS
<1>0. \A p \in Peer : RecordInv(ch[p])
  BY CoreFacts
<1>1. ASSUME NEW p \in Peer, NEW amt \in Amounts, Sends(p, amt)
      PROVE  Goal
  <2> DEFINE c == AddHtlc(ch[p], amt)
             m == AddMessage(ch[p].localHtlcCounter, amt)
  <2>1. /\ connected /\ Originates(p, c, m) /\ Plain(m)
        /\ ch[p].state = "NORMAL"
    BY <1>1 DEF Sends, Idle, AddMessage, Plain, MayAddHtlc
  <2>2. Keeping(ch[p], c)
    BY <2>1, <1>0, AddHtlcKeeps
  <2> HIDE DEF c, m
  <2> QED
    BY <2>1, <2>2, OriginatesStep DEF Keeping, SameNumbers
<1>2. ASSUME NEW p \in Peer, Settling(p)
      PROVE  Goal
  <2>1. PICK n \in ReceivedIds(p) : Fulfills(p, n) \/ Fails(p, n)
    BY <1>2 DEF Settling
  <2>2. PICK outcome, m :
          /\ connected /\ Plain(m) /\ ch[p].state = "NORMAL"
          /\ Originates(p, SettleHtlc(ch[p], <<"received", n>>, outcome, m), m)
    <3>1. CASE Fulfills(p, n)
      <4> DEFINE m == Message("update_fulfill_htlc", n)
      <4>1. /\ connected /\ Plain(m) /\ ch[p].state = "NORMAL"
            /\ Originates(p, SettleHtlc(ch[p], <<"received", n>>, "FULFILLED", m), m)
        BY <3>1 DEF Fulfills, FulfillHtlc, MaySettleHtlc, Idle, Message, Plain
      <4> HIDE DEF m
      <4> QED
        BY <4>1
    <3>2. CASE Fails(p, n)
      <4> DEFINE m == Message("update_fail_htlc", n)
      <4>1. /\ connected /\ Plain(m) /\ ch[p].state = "NORMAL"
            /\ Originates(p, SettleHtlc(ch[p], <<"received", n>>, "FAILED", m), m)
        BY <3>2 DEF Fails, FailHtlc, MaySettleHtlc, Idle, Message, Plain
      <4> HIDE DEF m
      <4> QED
        BY <4>1
    <3> QED
      BY <2>1, <3>1, <3>2
  <2> DEFINE c == SettleHtlc(ch[p], <<"received", n>>, outcome, m)
  <2>3. Keeping(ch[p], c)
    BY <2>2, <1>0, SettleHtlcKeeps
  <2>4. Originates(p, c, m)
    BY <2>2
  <2> HIDE DEF c
  <2> QED
    BY <2>2, <2>3, <2>4, OriginatesStep DEF Keeping, SameNumbers
<1>3. ASSUME NEW p \in Peer, NEW rate \in Feerates, AnnouncesFee(p, rate)
      PROVE  Goal
  <2> DEFINE c == UpdateFee(ch[p], rate)
             m == FeeMessage(rate)
  <2>1. /\ connected /\ Originates(p, c, m) /\ Plain(m)
        /\ ch[p].state = "NORMAL"
    BY <1>3 DEF AnnouncesFee, Idle, FeeMessage, Plain, MayUpdateFee
  <2>2. Keeping(ch[p], c)
    BY <2>1, <1>0, UpdateFeeKeeps
  <2> HIDE DEF c, m
  <2> QED
    BY <2>1, <2>2, OriginatesStep DEF Keeping, SameNumbers
<1>4. ASSUME NEW p \in Peer, Handling(p)
      PROVE  Goal
  <2> DEFINE m == Head(net[p])
  <2>1. CASE AutoSigns(p)
    BY <2>1, AutoSignsStep
  <2>2. CASE ReceivesAdd(p)
    <3>1. Idle(p) /\ net[p] # << >> /\ HandlesUpdate(p, HandleUpdateAddHtlc(ch[p], m))
      BY <2>2 DEF ReceivesAdd, Arrives
    <3> QED
      BY <3>1, <1>0, HandleUpdateAddHtlcPassive, HandlesUpdateStep
  <2>3. CASE ReceivesFulfill(p)
    <3>1. Idle(p) /\ net[p] # << >> /\ HandlesUpdate(p, HandleRemoval(ch[p], m.id, "FULFILLED"))
      BY <2>3 DEF ReceivesFulfill, HandleUpdateFulfillHtlc, Arrives
    <3> QED
      BY <3>1, <1>0, HandleRemovalPassive, HandlesUpdateStep
  <2>4. CASE ReceivesFail(p)
    <3>1. Idle(p) /\ net[p] # << >> /\ HandlesUpdate(p, HandleRemoval(ch[p], m.id, "FAILED"))
      BY <2>4 DEF ReceivesFail, HandleUpdateFailHtlc, Arrives
    <3> QED
      BY <3>1, <1>0, HandleRemovalPassive, HandlesUpdateStep
  <2>5. CASE ReceivesFee(p)
    <3>1. Idle(p) /\ net[p] # << >> /\ HandlesUpdate(p, HandleUpdateFee(p, ch[p], m))
      BY <2>5 DEF ReceivesFee, Arrives
    <3> QED
      BY <3>1, <1>0, HandleUpdateFeePassive, HandlesUpdateStep
  <2>6. CASE ReceivesCommitmentSigned(p)
    BY <2>6, ReceivesCommitmentSignedStep
  <2>7. CASE ReceivesRevokeAndAck(p)
    BY <2>7, ReceivesRevokeAndAckStep
  <2>8. CASE ReceivesReestablish(p)
    BY <2>8, ReceivesReestablishStep
  <2> QED
    BY <1>4, <2>1, <2>2, <2>3, <2>4, <2>5, <2>6, <2>7, <2>8 DEF Handling
<1>5. CASE Disconnects
  <2>1. PICK lost \in SUBSET Peer : lost = {}
    BY Zenon
  <2>2. /\ LosesConnection /\ UNCHANGED disk
        /\ ch' = [p \in Peer |-> MarkForReestablish(IF p \in lost THEN disk[p] ELSE ch[p])]
    BY <1>5, <2>1 DEF Disconnects
  <2> QED
    BY <2>2, LosesConnectionStep
<1>6. ASSUME NEW p \in Peer, Crashes(p)
      PROVE  Goal
  <2>1. PICK lost \in SUBSET Peer : lost = {p}
    BY Zenon
  <2>2. /\ LosesConnection /\ UNCHANGED disk
        /\ ch' = [q \in Peer |-> MarkForReestablish(IF q \in lost THEN disk[q] ELSE ch[q])]
    BY <1>6, <2>1 DEF Crashes
  <2> QED
    BY <2>2, LosesConnectionStep
<1>7. CASE Reconnects
  BY <1>7, ReconnectsStep
<1>8. CASE UNCHANGED vars
  <2>1. Core'
    BY <1>8 DEF vars, Core, PeerInv
  <2>2. ASSUME NEW q \in Peer
        PROVE  Onward(q)
    <3>1. ch' = ch /\ disk' = disk
      BY <1>8 DEF vars
    <3> QED
      BY Zenon, <3>1, CoreFacts, OnwardStays
  <2> QED
    BY <2>1, <2>2
<1> HIDE DEF Goal
<1> QED
  BY <1>1, <1>2, <1>3, <1>4, <1>5, <1>6, <1>7, <1>8 DEF Next

\* No step of the pair puts a node behind its peer.
LEMMA NextIInv == IInv /\ [Next]_vars => IInv'
<1> SUFFICES ASSUME IInv, [Next]_vars PROVE IInv'
  OBVIOUS
<1>1. Core /\ Core' /\ \A q \in Peer : Onward(q)
  BY NextCore DEF IInv
<1>2. ASSUME NEW p \in Peer
      PROVE  ch'[p].remoteRevocationNumber <= ch'[Other(p)].localCommitmentNumber
  <2>1. Other(p) \in Peer
    BY PeerFacts
  <2>2. /\ ch[p].remoteRevocationNumber <= ch[Other(p)].localCommitmentNumber
        /\ ch[Other(p)].localCommitmentNumber <= ch'[Other(p)].localCommitmentNumber
        /\ \/ ch'[p].remoteRevocationNumber = ch[p].remoteRevocationNumber
           \/ ch'[p].remoteRevocationNumber <= ch'[Other(p)].localCommitmentNumber
    BY <1>1, <2>1 DEF IInv, Onward
  <2>3. /\ ch[p].remoteRevocationNumber \in Nat
        /\ ch[Other(p)].localCommitmentNumber \in Nat
    BY <1>1, <2>1, CoreFacts
  <2>4. ch'[Other(p)].localCommitmentNumber \in Nat
    BY <1>1, <2>1 DEF Core, PeerInv, RecordInv
  <2> QED
    BY <2>2, <2>3, <2>4
<1> QED
  BY <1>1, <1>2 DEF IInv

------------------------------------------------------------------------------
\* Old files

\* A restore makes the opener wait for channel_reestablish on what it restored;
\* only a channel that had failed by then stays failed.
LEMMA RestoresFilesStep ==
  ASSUME RestoreInv, RestoresFiles
  PROVE  RestoreInv'
<1>1. /\ Opener \in Peer /\ Acceptor \in Peer /\ Opener # Acceptor
      /\ Other(Opener) = Acceptor /\ Other(Acceptor) = Opener
      /\ \A p \in Peer : p = Opener \/ p = Acceptor
  BY PeersDiffer DEF Peer, Other
<1>2. Core /\ RecordInv(copy) /\ (copy.state = "ERRORED" => copy = disk[Opener])
      /\ ch[Opener].remoteRevocationNumber <= ch[Acceptor].localCommitmentNumber
      /\ copy.remoteRevocationNumber <= ch[Acceptor].localCommitmentNumber
  BY DEF RestoreInv
<1> DEFINE a == MarkForReestablish(ch[Acceptor])
           o == MarkForReestablish(copy)
<1>3. /\ DOMAIN ch' = Peer /\ DOMAIN disk' = Peer /\ ~connected' /\ copy' = copy
      /\ net' = [p \in Peer |-> << >>] /\ signing' = [p \in Peer |-> FALSE]
      /\ ch'[Opener] = o /\ ch'[Acceptor] = a
      /\ disk'[Opener] = copy /\ disk'[Acceptor] = disk[Acceptor]
  BY <1>1, <1>2 DEF RestoresFiles, Core
<1>4. /\ RecordInv(ch[Acceptor]) /\ RecordInv(disk[Acceptor])
      /\ SameNumbers(ch[Acceptor], disk[Acceptor]) /\ Settles(ch[Acceptor], disk[Acceptor])
      /\ Settles(ch[Opener], disk[Opener])
      /\ ch[Acceptor].localCommitmentNumber \in Nat
      /\ Awaiting(ch[Opener]) \/ Informed(ch[Opener], ch[Acceptor].remoteRevocationNumber)
  BY <1>1, <1>2, CoreFacts
<1>5. /\ RecordInv(a) /\ SameNumbers(ch[Acceptor], a) /\ a.state # "NORMAL"
      /\ a.state = "ERRORED" \/ ch[Acceptor].state = "ERRORED" => a = ch[Acceptor]
  BY <1>4, MarkForReestablishKeeps
<1>6. /\ RecordInv(o) /\ SameNumbers(copy, o) /\ o.state # "NORMAL"
      /\ o.state = "ERRORED" \/ copy.state = "ERRORED" => o = copy
  BY <1>2, MarkForReestablishKeeps
<1> HIDE DEF a, o
<1>7. Awaiting(a) \/ Informed(a, o.remoteRevocationNumber)
  <2>1. o.remoteRevocationNumber <= a.localCommitmentNumber
    BY <1>2, <1>5, <1>6 DEF SameNumbers
  <2> QED
    BY <2>1, <1>5, <1>6 DEF Informed, RecordInv
<1>8. Awaiting(o) \/ Informed(o, a.remoteRevocationNumber)
  <2>1. CASE o.state = "ERRORED"
    <3>1. o = ch[Opener] /\ ~Awaiting(ch[Opener])
      BY <2>1, <1>2, <1>4, <1>6 DEF Settles, Awaiting
    <3>2. a.remoteRevocationNumber = ch[Acceptor].remoteRevocationNumber
      BY <1>5 DEF SameNumbers
    <3> QED
      BY <3>1, <3>2, <1>4
  <2> QED
    BY <2>1, <1>6 DEF RecordInv, Awaiting
<1>9. SameNumbers(a, disk[Acceptor]) /\ SameNumbers(o, copy)
  BY <1>4, <1>5, <1>6 DEF SameNumbers
<1>10. Settles(a, disk[Acceptor]) /\ Settles(o, copy)
  BY <1>4, <1>5, <1>6 DEF Settles
<1>11. ASSUME NEW p \in Peer
       PROVE  /\ RecordInv(ch'[p]) /\ RecordInv(disk'[p])
              /\ SameNumbers(ch'[p], disk'[p]) /\ Settles(ch'[p], disk'[p])
              /\ ch'[p].state # "NORMAL"
              /\ \/ Awaiting(ch'[p])
                 \/ Informed(ch'[p], ch'[Other(p)].remoteRevocationNumber)
  <2>1. CASE p = Opener
    BY <2>1, <1>1, <1>2, <1>3, <1>6, <1>8, <1>9, <1>10
  <2>2. CASE p = Acceptor
    BY <2>2, <1>1, <1>3, <1>4, <1>5, <1>7, <1>9, <1>10
  <2> QED
    BY <1>1, <2>1, <2>2
<1>12. Core'
  BY <1>3, <1>11, ConnectionEnds
<1>13. /\ o.remoteRevocationNumber <= a.localCommitmentNumber
       /\ copy.remoteRevocationNumber <= a.localCommitmentNumber
  BY <1>2, <1>5, <1>6 DEF SameNumbers
<1> QED
  BY <1>2, <1>3, <1>12, <1>13 DEF RestoreInv

\* Every step, with copies and restores, keeps the invariant.
LEMMA NextRestoreInv == RestoreInv /\ [RestoreNext]_restoreVars => RestoreInv'
<1> SUFFICES ASSUME RestoreInv, [RestoreNext]_restoreVars PROVE RestoreInv'
  OBVIOUS
<1>1. Opener \in Peer /\ Acceptor \in Peer /\ Other(Opener) = Acceptor
  BY PeersDiffer DEF Peer, Other
<1>2. /\ Core /\ RecordInv(copy) /\ (copy.state = "ERRORED" => copy = disk[Opener])
      /\ ch[Opener].remoteRevocationNumber <= ch[Acceptor].localCommitmentNumber
      /\ copy.remoteRevocationNumber <= ch[Acceptor].localCommitmentNumber
  BY DEF RestoreInv
<1>3. CASE [Next]_vars /\ UNCHANGED copy
  <2>1. Core' /\ Onward(Opener) /\ Onward(Acceptor)
    BY <1>1, <1>2, <1>3, NextCore
  <2>2. /\ ch[Opener].remoteRevocationNumber \in Nat
        /\ ch[Acceptor].localCommitmentNumber \in Nat
        /\ copy.remoteRevocationNumber \in Nat
    BY <1>1, <1>2, CoreFacts DEF RecordInv
  <2>3. ch'[Acceptor].localCommitmentNumber \in Nat
    BY <1>1, <2>1 DEF Core, PeerInv, RecordInv
  <2>4. /\ ch'[Opener].remoteRevocationNumber <= ch'[Acceptor].localCommitmentNumber
        /\ copy.remoteRevocationNumber <= ch'[Acceptor].localCommitmentNumber
    <3>1. ch[Acceptor].localCommitmentNumber <= ch'[Acceptor].localCommitmentNumber
      BY <2>1 DEF Onward
    <3>2. \/ ch'[Opener].remoteRevocationNumber = ch[Opener].remoteRevocationNumber
          \/ ch'[Opener].remoteRevocationNumber <= ch'[Acceptor].localCommitmentNumber
      BY Zenon, <1>1, <2>1 DEF Onward
    <3> QED
      BY <1>2, <2>2, <2>3, <3>1, <3>2
  <2>5. copy.state = "ERRORED" => copy = disk'[Opener]
    BY <1>2, <2>1 DEF Onward
  <2> QED
    BY <1>2, <1>3, <2>1, <2>4, <2>5 DEF RestoreInv
<1>4. CASE CopiesFiles
  <2>1. /\ copy' = disk[Opener]
        /\ UNCHANGED <<ch, disk, net, connected, signing>>
    BY <1>4 DEF CopiesFiles, vars
  <2>2. /\ RecordInv(disk[Opener])
        /\ disk[Opener].remoteRevocationNumber = ch[Opener].remoteRevocationNumber
    BY <1>1, <1>2, CoreFacts DEF SameNumbers
  <2>3. Core'
    BY <1>2, <2>1 DEF Core, PeerInv
  <2> QED
    BY <1>2, <2>1, <2>2, <2>3 DEF RestoreInv
<1>5. CASE RestoresFiles
  BY <1>5, RestoresFilesStep
<1> QED
  BY <1>3, <1>4, <1>5 DEF RestoreNext, restoreVars, vars

\* The copy made at the start is the record of a new channel.
LEMMA InitRestoreInv == RestoreInit => RestoreInv
<1> SUFFICES ASSUME RestoreInit PROVE RestoreInv
  OBVIOUS
<1>1. Opener \in Peer /\ Other(Opener) = Acceptor
  BY PeersDiffer DEF Peer, Other
<1>2. Core /\ ch[Opener].remoteRevocationNumber <= ch[Acceptor].localCommitmentNumber
  BY <1>1, InitIInv DEF RestoreInit, IInv
<1>3. copy = disk[Opener]
  BY DEF RestoreInit
<1> QED
  BY <1>1, <1>2, <1>3, CoreFacts DEF RestoreInv, SameNumbers

------------------------------------------------------------------------------
\* Results

\* The inductive invariant holds in every reachable state of two nodes.
THEOREM IInvAlways == Spec => []IInv
  BY InitIInv, NextIInv, PTL DEF Spec

\* autoSignAndSendCommitment never has two of its signatures unrevoked, whatever
\* is lost and whenever a node crashes between its saves.
THEOREM OneUnrevokedCommitmentAlways == Spec => []OneUnrevokedCommitment
<1>1. IInv => OneUnrevokedCommitment
  BY DEF IInv, Core, PeerInv, RecordInv, OneUnrevokedCommitment
<1> QED
  BY <1>1, IInvAlways, PTL

\* No revoke_and_ack gives away the secret of a commitment that the sender could
\* still load from its disk: handleCommitmentSigned saves before it revokes, and a
\* reconnection replays only the last revocation.
THEOREM SavedStateIsNeverRevokedAlways == Spec => []SavedStateIsNeverRevoked
<1>1. IInv => SavedStateIsNeverRevoked
  <2> SUFFICES ASSUME IInv, NEW p \in Peer
               PROVE  ch[Other(p)].remoteRevocationNumber <= disk[p].localCommitmentNumber
    BY DEF SavedStateIsNeverRevoked
  <2>1. Other(p) \in Peer /\ Other(Other(p)) = p
    BY PeerFacts
  <2>2. ch[Other(p)].remoteRevocationNumber <= ch[p].localCommitmentNumber
    BY <2>1 DEF IInv
  <2>3. SameNumbers(ch[p], disk[p])
    BY DEF IInv, Core, PeerInv
  <2> QED
    BY <2>2, <2>3 DEF SameNumbers
<1> QED
  BY <1>1, IInvAlways, PTL

\* Every state in which a signature is owed and allowed lies inside the step that
\* sends it.
THEOREM OwedSignatureIsBeingSentAlways == Spec => []OwedSignatureIsBeingSent
<1>1. IInv => OwedSignatureIsBeingSent
  BY DEF IInv, Core, PeerInv, OwedSignatureIsBeingSent
<1> QED
  BY <1>1, IInvAlways, PTL

\* However often the opener is put back on old files: once the peer's
\* channel_reestablish was handled, a commitment whose secret the peer holds is
\* marked never to be broadcast (dataLossDetected, restoreRevokedRisk), and no
\* later handler takes the mark back before the commitment has moved on.
THEOREM StaleCommitmentIsNeverBroadcastAlways ==
  RestoreSpec => []StaleCommitmentIsNeverBroadcast
<1>1. RestoreInv => StaleCommitmentIsNeverBroadcast
  <2> SUFFICES ASSUME RestoreInv, NEW p \in Peer,
                      ch[p].state # "AWAITING_REESTABLISH",
                      ch[Other(p)].remoteRevocationNumber > ch[p].localCommitmentNumber
               PROVE  MustNotBroadcast(ch[p])
    BY DEF StaleCommitmentIsNeverBroadcast
  <2>1. Informed(ch[p], ch[Other(p)].remoteRevocationNumber)
    BY CoreFacts DEF RestoreInv, Awaiting
  <2> QED
    BY <2>1 DEF Informed, MustNotBroadcast
<1> QED
  BY <1>1, InitRestoreInv, NextRestoreInv, PTL DEF RestoreSpec

================================================================================
