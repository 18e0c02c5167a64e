------------------------------ MODULE Takeover ------------------------------
(***************************************************************************)
(* Devices that share one wallet seed, and the guardians that decide which  *)
(* of them is the writer.  The first device writes a journal and replicates *)
(* it (recovery/guardian-replication.ts); a device with an empty database   *)
(* restores the journal and takes the writer lease over                     *)
(* (recovery/restore-driver.ts), while the old writer may still be running. *)
(*                                                                          *)
(* Every request may be delivered late, or its answer lost: a client stops  *)
(* waiting after a timeout, and the guardian still handles what it has      *)
(* received.  A restore may stop at any point; only its pending acquisition *)
(* is on disk, and the next restore of that device resumes it.              *)
(***************************************************************************)
EXTENDS RestoreDriver

CONSTANTS
    Device,         \* the devices that run with this seed
    FirstWriter,    \* the one that registered the guardians
    MaxLog,         \* bound: records in a journal
    MaxEpoch,       \* bound: epochs acquired
    MaxKeys,        \* bound: acquisitions a device starts
    MaxWork,        \* bound: records of one journal and keys of one device
    MaxRestoring    \* bound: restores that run at one time

ASSUME TakeoverConstants ==
    /\ FirstWriter \in Device
    /\ MaxLog \in Nat /\ MaxEpoch \in Nat /\ MaxKeys \in Nat
    /\ MaxWork \in Nat /\ MaxRestoring \in Nat

VARIABLES
    guardian,   \* [Guardian -> row]: each guardian's store
    journal,    \* [Device -> log]: the journal on the device
    lease,      \* [Device -> lease]: the installed writer lease, or NoLease
    watermark,  \* [Device -> Nat]: replicatedThrough, what barriers release on
    proven,     \* [Device -> [Guardian -> Nat]]: heads proven in this pass
    phase,      \* [Device -> where the device is]
    pool,       \* [Device -> heads read so far in this read]
    pending,    \* [Device -> persisted acquisition, or NoAttempt]
    replies,    \* [Device -> [guardian that certified -> was it a replay]]
    won,        \* [Device -> the certificates of a completed acquisition]
    keys,       \* [Device -> writer keys it has generated]
    acquires    \* every ACQUIRE_EPOCH request sent so far

vars == <<guardian, journal, lease, watermark, proven, phase, pool, pending,
          replies, won, keys, acquires>>
driver == <<pool, pending, replies, won, keys, acquires>>
writer == <<journal, lease, watermark, proven>>

NoLease == [epoch |-> 0, key |-> <<FirstWriter, 0>>]
NoState == [lease |-> NoLease, log |-> << >>]
NoAttempt == [over |-> NoState, epoch |-> 0, key |-> <<FirstWriter, 0>>]
Nothing == [g \in {} |-> {}]
With(f, x, v) == [y \in DOMAIN f \cup {x} |-> IF y = x THEN v ELSE f[y]]
Reading == {"heads", "reread", "recheck"}
Restoring == Reading \cup {"asking", "won"}

Init ==
    LET first == [epoch |-> 1, key |-> <<FirstWriter, 0>>] IN
    /\ guardian = [g \in Guardian |-> Registered(first.key)]
    /\ journal = [d \in Device |-> << >>]
    /\ lease = [d \in Device |-> IF d = FirstWriter THEN first ELSE NoLease]
    /\ watermark = [d \in Device |-> 0]
    /\ proven = [d \in Device |-> Nothing]
    /\ phase = [d \in Device |-> IF d = FirstWriter THEN "writing" ELSE "off"]
    /\ pool = [d \in Device |-> Nothing]
    /\ pending = [d \in Device |-> NoAttempt]
    /\ replies = [d \in Device |-> Nothing]
    /\ won = [d \in Device |-> {}]
    /\ keys = [d \in Device |-> 0]
    /\ acquires = {}

-----------------------------------------------------------------------------
(* The writer: journal, replicate, count receipts.                          *)

Prefix(log, n) == SubSeq(log, 1, n)

\* The bound on records and keys together is not yet reached.
WorkLeft == \A d, e \in Device : Len(journal[d]) + keys[e] < MaxWork

Journals(d) ==
    /\ phase[d] = "writing"
    /\ Len(journal[d]) < MaxLog /\ WorkLeft
    /\ journal' = [journal EXCEPT ![d] = Append(@, lease[d])]
    /\ UNCHANGED <<guardian, lease, watermark, proven, phase, driver>>

\* The head a receipt proves: under this device's lease, and on its journal.
ProvenHead(d, row) ==
    /\ row.lease = lease[d]
    /\ HeadOnLog(row.log, journal[d])

\* One PUT_STATE of the stream to a guardian, and the receipt it answers with.
Puts(d, g) ==
    /\ phase[d] = "writing"
    /\ \E n \in (watermark[d] + 1)..Len(journal[d]) :
          LET record == Prefix(journal[d], n)
              row == AppendRecord(guardian[g], record)
          IN  /\ HeadOnLog(record, row.log) /\ ProvenHead(d, row)
              /\ guardian' = [guardian EXCEPT ![g] = row]
              /\ proven' = [proven EXCEPT ![d] = With(@, g, Len(row.log))]
    /\ UNCHANGED <<journal, lease, watermark, phase, driver>>

\* The highest sequence that a quorum of guardians has proven to hold.
QuorumHead(heads) ==
    Max({0} \cup {n \in {heads[g] : g \in DOMAIN heads} :
            Cardinality({g \in DOMAIN heads : heads[g] >= n}) >= Required})

\* The pass ends: the watermark rises to the head of the receipts that
\* arrived, and a receipt that was lost leaves it lower.
EndsPass(d) ==
    /\ phase[d] = "writing"
    /\ proven[d] # Nothing
    /\ \E n \in watermark[d]..Max({watermark[d], QuorumHead(proven[d])}) :
          watermark' = [watermark EXCEPT ![d] = n]
    /\ proven' = [proven EXCEPT ![d] = Nothing]
    /\ UNCHANGED <<guardian, journal, lease, phase, driver>>

\* A guardian refuses the epoch, and a signed state with a higher one proves
\* it: the writer is fenced, and the pass raises nothing.
IsFenced(d) ==
    /\ phase[d] = "writing"
    /\ \E g \in Guardian : guardian[g].lease.epoch > lease[d].epoch
    /\ phase' = [phase EXCEPT ![d] = "fenced"]
    /\ proven' = [proven EXCEPT ![d] = Nothing]
    /\ UNCHANGED <<guardian, journal, lease, watermark, driver>>

-----------------------------------------------------------------------------
(* SYNC_RECORD and SYNC_EPOCH outside a round: catchUp of a writer relays   *)
(* signed records between guardians, and what a restore sent before it      *)
(* stopped may arrive at any time.                                          *)

\* The certificates someone may have gathered for a takeover.
Gathered == UNION {{s \in SUBSET b : Cardinality(s) >= Required} :
                        b \in QuorumBundles(guardian)}

RelaysRecord(g) ==
    /\ \E h \in Guardian \ {g} :
          /\ Len(guardian[h].log) > Len(guardian[g].log)
          /\ LET record == Prefix(guardian[h].log, Len(guardian[g].log) + 1) IN
             \E bundle \in IF Newest(record).epoch = guardian[g].lease.epoch
                           THEN {{}} ELSE Gathered :
                LET row == SyncRecord(guardian[g], record, bundle)
                IN  /\ row # guardian[g]
                    /\ guardian' = [guardian EXCEPT ![g] = row]
    /\ UNCHANGED <<writer, phase, driver>>

RelaysEpoch(g) ==
    /\ \E bundle \in Gathered :
          LET row == SyncEpoch(guardian[g], g, bundle)
          IN  /\ row # guardian[g]
              /\ guardian' = [guardian EXCEPT ![g] = row]
    /\ UNCHANGED <<writer, phase, driver>>

-----------------------------------------------------------------------------
(* The restore.                                                             *)

\* The answer of one guardian to GET_HEAD; the first one starts a restore.
ReadsHead(d, g) ==
    /\ \/ phase[d] \in Reading
       \/ /\ phase[d] = "off"
          /\ Cardinality({e \in Device : phase[e] \in Restoring}) < MaxRestoring
    /\ g \notin DOMAIN pool[d]
    /\ pool' = [pool EXCEPT ![d] = With(@, g, guardian[g])]
    /\ phase' = [phase EXCEPT ![d] = IF @ = "off" THEN "heads" ELSE @]
    /\ UNCHANGED <<guardian, writer, pending, replies, won, keys, acquires>>

\* The read is over: enough heads, and they do not conflict.
HeadsRead(d) ==
    /\ Cardinality(DOMAIN pool[d]) >= Required
    /\ NoConflict(pool[d])

\* Whether some guardian may hold a grant of the attempt.
Held(d, attempt) ==
    /\ attempt # NoAttempt
    /\ DOMAIN replies[d] # {} \/ MayBeHeld(attempt, pool[d])

\* Every guardian of the pool that is not at the target is repaired towards it.
Repairs(d, target) ==
    guardian' = [g \in Guardian |->
        IF g \in DOMAIN pool[d] THEN Repaired(guardian[g], g, target, pool[d])
        ELSE guardian[g]]

RepairsLaggards(d, attempt) ==
    LET targets == RepairTargets(attempt, Held(d, attempt), pool[d])
    IN  IF targets = {} THEN UNCHANGED guardian
        ELSE \E target \in targets : Repairs(d, target)

\* The attempt is on disk before its request goes out to every guardian.
Sends(d, attempt) ==
    /\ pending' = [pending EXCEPT ![d] = attempt]
    /\ acquires' = acquires \cup {attempt}
    /\ phase' = [phase EXCEPT ![d] = "asking"]
    /\ won' = [won EXCEPT ![d] = {}]

NewAttempt(d, head) ==
    [over |-> head, epoch |-> head.lease.epoch + 1, key |-> <<d, keys[d] + 1>>]

\* A round of a new attempt, on the reconciled head.
BeginsAttempt(d) ==
    /\ keys[d] < MaxKeys /\ WorkLeft
    /\ \E head \in SelectHead(pool[d]) :
          /\ head.lease.epoch < MaxEpoch
          /\ Repairs(d, head)
          /\ Sends(d, NewAttempt(d, head))
    /\ keys' = [keys EXCEPT ![d] = @ + 1]

\* A round that repeats a pending attempt.
RepeatsAttempt(d, attempt) ==
    /\ SplitGrants(attempt, pool[d]) = {}
    /\ RepairsLaggards(d, attempt)
    /\ Sends(d, attempt)
    /\ UNCHANGED keys

\* A quorum granted the attempt over several heads: its certificates complete
\* it without another request, once fresh heads are read.
FinishesSplitGrant(d, attempt) ==
    /\ \E bundle \in SplitGrants(attempt, pool[d]) :
          /\ Repairs(d, [lease |-> [epoch |-> attempt.epoch,
                                    key |-> attempt.key],
                         log |-> Certified(bundle).log])
          /\ won' = [won EXCEPT ![d] = bundle]
    /\ pending' = [pending EXCEPT ![d] = attempt]
    /\ phase' = [phase EXCEPT ![d] = "recheck"]
    /\ UNCHANGED <<keys, acquires>>

\* The heads have decided what becomes of the pending attempt.  It is persisted
\* (or cleared), and the next round begins on the same heads; the process may
\* also end between the two.
EntersRound(d, attempt) ==
    /\ \/ attempt = NoAttempt /\ BeginsAttempt(d)
       \/ attempt # NoAttempt /\ RepeatsAttempt(d, attempt)
       \/ attempt # NoAttempt /\ FinishesSplitGrant(d, attempt)
       \/ /\ attempt # pending[d]
          /\ pending' = [pending EXCEPT ![d] = attempt]
          /\ phase' = [phase EXCEPT ![d] = "off"]
          /\ won' = [won EXCEPT ![d] = {}]
          /\ UNCHANGED <<guardian, keys, acquires>>
    /\ pool' = [pool EXCEPT ![d] = Nothing]
    /\ replies' = [replies EXCEPT ![d] = Nothing]
    /\ UNCHANGED writer

\* The first heads: a pending attempt is resumed unless it is superseded.
Decides(d) ==
    /\ phase[d] = "heads"
    /\ HeadsRead(d)
    /\ EntersRound(d, IF Superseded(pending[d], pool[d]) THEN NoAttempt
                      ELSE pending[d])

\* One guardian handles the current request and its answer is heard.
Answers(d, g) ==
    /\ phase[d] = "asking"
    /\ g \notin DOMAIN replies[d]
    /\ LET row == AcquireEpoch(guardian[g], g, pending[d]) IN
       /\ Granted(row, pending[d])
       /\ guardian' = [guardian EXCEPT ![g] = row]
       /\ replies' = [replies EXCEPT ![d] =
                        With(@, g, Granted(guardian[g], pending[d]))]
    /\ UNCHANGED <<writer, phase, pool, pending, won, keys, acquires>>

\* A request sent earlier arrives late, or its answer is lost.
AnswersUnheard(g) ==
    /\ \E request \in acquires :
          /\ MayGrantNow(guardian[g], request)
          /\ guardian' = [guardian EXCEPT ![g] = AcquireEpoch(@, g, request)]
    /\ UNCHANGED <<writer, phase, driver>>

Collected(d) ==
    {[by |-> g, epoch |-> pending[d].epoch, key |-> pending[d].key,
      over |-> pending[d].over] : g \in DOMAIN replies[d]}

\* The round is over.  A quorum of certificates wins the epoch, after fresh
\* heads when one of them was a replay; otherwise the heads are read again.
EndsRound(d) ==
    /\ phase[d] = "asking"
    /\ IF Cardinality(DOMAIN replies[d]) >= Required
       THEN /\ won' = [won EXCEPT ![d] = Collected(d)]
            /\ phase' = [phase EXCEPT ![d] =
                  IF \E g \in DOMAIN replies[d] : replies[d][g]
                  THEN "recheck" ELSE "won"]
       ELSE /\ phase' = [phase EXCEPT ![d] = "reread"]
            /\ UNCHANGED won
    /\ UNCHANGED <<guardian, writer, pool, pending, replies, keys, acquires>>

\* What becomes of a pending attempt on the heads read after a failed round:
\* given up when superseded or when nobody can hold it and the head moved,
\* moved to the new head when its own guard is out of reach, else kept.
Refreshed(d, attempt, head) ==
    CASE Superseded(attempt, pool[d])
            \/ (~Held(d, attempt) /\ head # attempt.over) -> NoAttempt
      [] MustRetarget(attempt, head, pool[d]) -> [attempt EXCEPT !.over = head]
      [] OTHER -> attempt

Retries(d) ==
    /\ phase[d] = "reread"
    /\ HeadsRead(d)
    /\ \E head \in SelectHead(pool[d]) :
          EntersRound(d, Refreshed(d, pending[d], head))

\* fencedSince: fresh heads show whether another takeover fenced the attempt.
\* When they cannot show it either way, the restore refuses (Stops).
Rechecks(d) ==
    /\ phase[d] = "recheck"
    /\ HeadsRead(d)
    /\ \/ /\ Superseded(pending[d], pool[d])
          /\ EntersRound(d, NoAttempt)
       \/ /\ ~Superseded(pending[d], pool[d])
          /\ ~MayBeSuperseded(pending[d], pool[d])
          /\ phase' = [phase EXCEPT ![d] = "won"]
          /\ pool' = [pool EXCEPT ![d] = Nothing]
          /\ UNCHANGED <<guardian, writer, pending, replies, won, keys, acquires>>

\* Mutant of Installs: the frames are not part of the transaction.
InstallsWithoutFrames(d) ==
    LET certified == Certified(won[d]) IN
    /\ phase[d] = "won"
    /\ lease' = [lease EXCEPT ![d] =
                    [epoch |-> pending[d].epoch, key |-> pending[d].key]]
    /\ watermark' = [watermark EXCEPT ![d] = Len(certified.log)]
    /\ pending' = [pending EXCEPT ![d] = NoAttempt]
    /\ phase' = [phase EXCEPT ![d] = "writing"]
    /\ won' = [won EXCEPT ![d] = {}]
    /\ replies' = [replies EXCEPT ![d] = Nothing]
    /\ UNCHANGED <<guardian, journal, proven, pool, keys, acquires>>

\* The download holds the certified head and every head of the certificates;
\* one transaction installs the journal, the lease and the watermark.
Installs(d) ==
    LET certified == Certified(won[d]) IN
    /\ phase[d] = "won"
    /\ \E g \in Guardian : HeadOnLog(certified.log, guardian[g].log)
    /\ \A c \in won[d] : HeadOnLog(c.over.log, certified.log)
    /\ journal' = [journal EXCEPT ![d] = certified.log]
    /\ lease' = [lease EXCEPT ![d] =
                    [epoch |-> pending[d].epoch, key |-> pending[d].key]]
    /\ watermark' = [watermark EXCEPT ![d] = Len(certified.log)]
    /\ pending' = [pending EXCEPT ![d] = NoAttempt]
    /\ phase' = [phase EXCEPT ![d] = "writing"]
    /\ won' = [won EXCEPT ![d] = {}]
    /\ replies' = [replies EXCEPT ![d] = Nothing]
    /\ UNCHANGED <<guardian, proven, pool, keys, acquires>>

\* The restore refuses, runs out of rounds, or its process ends.
Stops(d) ==
    /\ phase[d] \in Restoring
    /\ phase' = [phase EXCEPT ![d] = "off"]
    /\ pool' = [pool EXCEPT ![d] = Nothing]
    /\ replies' = [replies EXCEPT ![d] = Nothing]
    /\ won' = [won EXCEPT ![d] = {}]
    /\ UNCHANGED <<guardian, writer, pending, keys, acquires>>

Next ==
    \/ \E d \in Device :
          \/ Journals(d) \/ EndsPass(d) \/ IsFenced(d)
          \/ Decides(d) \/ EndsRound(d) \/ Retries(d)
          \/ Rechecks(d) \/ Installs(d) \/ Stops(d)
          \/ \E g \in Guardian : Puts(d, g) \/ ReadsHead(d, g) \/ Answers(d, g)
    \/ \E g \in Guardian :
          RelaysRecord(g) \/ RelaysEpoch(g) \/ AnswersUnheard(g)

Spec == Init /\ [][Next]_vars

-----------------------------------------------------------------------------

Log == Seq([epoch : Nat, key : Device \X Nat])
Lease == [epoch : Nat, key : Device \X Nat]
Request == [over : [lease : Lease, log : Log], epoch : Nat, key : Device \X Nat]
Certificate == [by : Guardian, over : [lease : Lease, log : Log],
                epoch : Nat, key : Device \X Nat]
Row == [lease : Lease, log : Log, grants : SUBSET Certificate]

\* The stores of the guardians and of the devices are well formed, and no
\* watermark or receipt reaches past the journal it is about.
TypeOK ==
    /\ guardian \in [Guardian -> Row]
    /\ lease \in [Device -> Lease]
    /\ journal \in [Device -> Log]
    /\ \A d \in Device :
          /\ watermark[d] \in 0..Len(journal[d])
          /\ DOMAIN proven[d] \subseteq Guardian
          /\ \A g \in DOMAIN proven[d] : proven[d][g] \in 0..Len(journal[d])
          /\ DOMAIN pool[d] \subseteq Guardian
          /\ \A g \in DOMAIN pool[d] : pool[d][g] \in Row
          /\ DOMAIN replies[d] \subseteq Guardian
          /\ \A g \in DOMAIN replies[d] : replies[d][g] \in BOOLEAN
    /\ phase \in [Device -> Restoring \cup {"off", "writing", "fenced"}]
    /\ pending \in [Device -> Request]
    /\ won \in [Device -> SUBSET Certificate]
    /\ keys \in [Device -> 0..MaxKeys]
    /\ acquires \subseteq Request

\* What a device has reported durable: the barriers of the channel released
\* wire messages on it.
Durable(d) == Prefix(journal[d], watermark[d])

\* Every record a writer has reported durable is in the journal of every writer
\* of a later epoch: a takeover certifies no head below a quorum's receipts
\* (runReplicationPass's watermark against acquireEpoch and restore).  It is a
\* promise of the first takeover: where OneQuorumPerTakeover fails, a second one
\* can certify a head below the one the first installed.
DurableRecordSurvives ==
    \A d, e \in Device :
        lease[d].epoch < lease[e].epoch => HeadOnLog(Durable(d), journal[e])

\* Two devices never install the lease of one epoch, however their
\* acquisitions, replays and resumed attempts interleave (acquireEpoch of the
\* restore driver and of the guardian).
OneWriterPerEpoch ==
    \A d, e \in Device :
        lease[d].epoch = lease[e].epoch /\ lease[d] # NoLease => d = e

\* A guardian that holds a record some device reported durable never drops it:
\* the tail that SYNC_EPOCH truncates held no quorum (syncEpoch).
GuardiansKeepDurableRecords ==
    [][\A g \in Guardian, d \in Device :
          HeadOnLog(Durable(d), guardian[g].log) =>
              HeadOnLog(Durable(d), guardian'[g].log)]_vars

\* The certificates of one takeover never hold two quorums that fix different
\* heads (the retargeting branch of the restore driver's acquireEpoch).
OneQuorumPerTakeover ==
    \A b \in QuorumBundles(guardian) : FixesOneHead(b)

\* The key of every takeover a guardian is bound to is on some device's disk,
\* in its lease or its pending acquisition, unless a quorum went past it
\* (savePending before the request, clearPending only when nobody can hold it).
GrantedKeyIsOnDisk ==
    \A g \in Guardian : \A c \in guardian[g].grants :
        \/ \E d \in Device : c.key \in {pending[d].key, lease[d].key}
        \/ Superseded(c, guardian)

=============================================================================
