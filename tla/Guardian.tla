------------------------------ MODULE Guardian ------------------------------
(***************************************************************************)
(* One guardian of the recovery service (recovery/guardian.ts), for one     *)
(* recovery namespace, as functions of its stored row:                      *)
(*                                                                          *)
(*   lease   the writer it serves: an epoch and a writer key                *)
(*   log     the records it holds, each signed under an epoch and a key     *)
(*   grants  the takeover certificates it has signed, one per epoch         *)
(*                                                                          *)
(* A record's hash covers its predecessor's, so a head hash stands for the  *)
(* whole log below it: a head IS a log here, and a record is named by the   *)
(* log that ends with it.  A guardian state (the lease and the head) is     *)
(* what a receipt and a certificate are signed over.                        *)
(***************************************************************************)
EXTENDS Integers, Sequences, FiniteSets, FiniteSetsExt

CONSTANTS
    Guardian,   \* the members of the guardian set
    Required    \* certificates, or receipts, that make a quorum

ASSUME QuorumsIntersect ==
    /\ IsFiniteSet(Guardian)
    /\ Required \in 1..Cardinality(Guardian)
    /\ 2 * Required > Cardinality(Guardian)

\* The record a log ends with.
Newest(log) == log[Len(log)]

State(row) == [lease |-> row.lease, log |-> row.log]

\* The guardian registered the namespace for its first writer.
Registered(key) ==
    [lease |-> [epoch |-> 1, key |-> key], log |-> << >>, grants |-> {}]

-----------------------------------------------------------------------------
(* What a set of takeover certificates proves.                              *)

\* Mutant of Certified: the lowest head of the bundle.
LowestHead(bundle) ==
    (CHOOSE c \in bundle :
        \A o \in bundle : Len(c.over.log) <= Len(o.over.log)).over

\* The highest head that the signers of a bundle granted the epoch over.
Certified(bundle) ==
    (CHOOSE c \in bundle :
        \A o \in bundle : Len(o.over.log) <= Len(c.over.log)).over

Signers(bundle) == {c.by : c \in bundle}

\* Fewer than a quorum of the signers are fenced below the highest head.
FixesOneHead(bundle) ==
    Cardinality({c \in bundle : Len(c.over.log) < Len(Certified(bundle).log)})
        < Required

TakeoverBundle(bundle) ==
    /\ bundle # {}
    /\ \A b, c \in bundle :
          /\ b.epoch = c.epoch /\ b.key = c.key
          /\ b.over.lease = c.over.lease
          /\ Len(b.over.log) = Len(c.over.log) => b.over.log = c.over.log
    /\ Cardinality(Signers(bundle)) = Cardinality(bundle)
    /\ Cardinality(bundle) >= Required
    /\ FixesOneHead(bundle)
    /\ \A c \in bundle : c.epoch = c.over.lease.epoch + 1

HeadOnLog(head, log) ==
    Len(head) <= Len(log) /\ SubSeq(log, 1, Len(head)) = head

-----------------------------------------------------------------------------
(* PUT_STATE, and SYNC_RECORD without certificates: the record must be the  *)
(* next one, signed by the current lease.  A record already held is         *)
(* answered with the stored receipt; anything else is refused.              *)

AppendRecord(row, record) ==
    IF /\ Len(record) = Len(row.log) + 1
       /\ Newest(record).epoch = row.lease.epoch
       /\ Newest(record).key = row.lease.key
       /\ HeadOnLog(row.log, record)
    THEN [row EXCEPT !.log = record]
    ELSE row

\* SYNC_RECORD with certificates: a guardian that granted the epoch below the
\* head its quorum certified takes the old lease's records up to that head.
ExtendGrant(row, record, bundle) ==
    IF /\ TakeoverBundle(bundle)
       /\ Newest(record).epoch < row.lease.epoch
       /\ \A c \in bundle : c.epoch = row.lease.epoch /\ c.key = row.lease.key
       /\ Newest(record).epoch = Certified(bundle).lease.epoch
       /\ Newest(record).key = Certified(bundle).lease.key
       /\ Len(record) <= Len(Certified(bundle).log)
       /\ \E own \in row.grants :
             /\ own.epoch = row.lease.epoch
             /\ own.over.lease = Certified(bundle).lease
             /\ \/ own.over.log = row.log
                \/ /\ row.log # << >>
                   /\ Newest(row.log).epoch = Certified(bundle).lease.epoch
       /\ Len(record) = Len(row.log) + 1
       /\ HeadOnLog(row.log, record)
       /\ \A c \in bundle :
             Len(c.over.log) <= Len(record) => HeadOnLog(c.over.log, record)
    THEN [row EXCEPT !.log = record]
    ELSE row

SyncRecord(row, record, bundle) ==
    IF Newest(record).epoch = row.lease.epoch
    THEN AppendRecord(row, record)
    ELSE ExtendGrant(row, record, bundle)

-----------------------------------------------------------------------------
(* ACQUIRE_EPOCH: compare-and-swap on the whole guardian state, idempotent  *)
(* for the acquisition the guardian already granted.                        *)

Granted(row, request) ==
    \E c \in row.grants :
        c.epoch = request.epoch /\ c.key = request.key /\ c.over = request.over

\* Mutant of MayGrantNow: the guard compares the lease and not the head.
GrantsOverAnyHead(row, request) ==
    /\ ~Granted(row, request)
    /\ \A c \in row.grants : c.epoch = request.epoch => c.key = request.key
    /\ row.lease = request.over.lease

\* Mutant of MayGrantNow: an epoch may be granted to a second key.
GrantsEpochTwice(row, request) ==
    /\ ~Granted(row, request)
    /\ row.log = request.over.log

MayGrantNow(row, request) ==
    /\ ~Granted(row, request)
    /\ \A c \in row.grants : c.epoch = request.epoch => c.key = request.key
    /\ request.epoch = request.over.lease.epoch + 1
    /\ State(row) = request.over

AcquireEpoch(row, me, request) ==
    IF MayGrantNow(row, request)
    THEN [row EXCEPT
            !.lease = [epoch |-> request.epoch, key |-> request.key],
            !.grants = @ \cup {[by |-> me, epoch |-> request.epoch,
                                key |-> request.key, over |-> request.over]}]
    ELSE row

-----------------------------------------------------------------------------
(* SYNC_EPOCH: a quorum's certificates move the guardian to the epoch they  *)
(* certify, and its log back to the certified head.                         *)

SyncEpoch(row, me, bundle) ==
    IF /\ TakeoverBundle(bundle)
       /\ \A c \in bundle :
             /\ row.lease.epoch < c.epoch
             /\ row.lease.epoch + 1 = c.epoch => row.lease.key = c.over.lease.key
             /\ HeadOnLog(c.over.log, row.log)
    THEN LET taken == CHOOSE c \in bundle : TRUE IN
         [lease  |-> [epoch |-> taken.epoch, key |-> taken.key],
          log    |-> Certified(bundle).log,
          grants |-> row.grants \cup {[by |-> me, epoch |-> taken.epoch,
                        key |-> taken.key, over |-> Certified(bundle)]}]
    ELSE row

=============================================================================
