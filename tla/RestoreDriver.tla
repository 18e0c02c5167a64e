--------------------------- MODULE RestoreDriver ----------------------------
(***************************************************************************)
(* What the restore driver (recovery/restore-driver.ts) concludes from the  *)
(* heads it has read.  A pool is a function from the guardians that         *)
(* answered to the rows they answered with: the state of the guardian and   *)
(* every certificate it has signed.  An attempt is the persisted pending    *)
(* acquisition: the state it expects, the epoch it asks for and its key.    *)
(***************************************************************************)
EXTENDS Guardian

Certificates(pool) == UNION {pool[g].grants : g \in DOMAIN pool}

\* The certificates grouped by the takeover they describe.
CertificateBundles(pool) ==
    {{c \in Certificates(pool) :
        c.epoch = e.epoch /\ c.key = e.key /\ c.over.lease = e.over.lease} :
            e \in Certificates(pool)}

QuorumBundles(pool) ==
    {b \in CertificateBundles(pool) : Cardinality(b) >= Required}

CertificatesAgree(a, b) ==
    /\ a.key = b.key
    /\ \/ a.over = b.over
       \/ /\ Len(a.over.log) # Len(b.over.log)
          /\ a.over.lease = b.over.lease

\* assertNoConflict: the pool shows one record per position, certificates
\* that agree on each epoch, and no two quorums for one epoch.
NoConflict(pool) ==
    /\ \A g, h \in DOMAIN pool :
          LET l == pool[g].log
              m == pool[h].log
          IN  l # << >> /\ Len(l) = Len(m) /\ Newest(l).epoch = Newest(m).epoch
                  => l = m
    /\ \A a, b \in Certificates(pool) :
          a.epoch = b.epoch => CertificatesAgree(a, b)
    /\ \A b \in QuorumBundles(pool) : FixesOneHead(b)

\* The highest head of the highest epoch that is established: certified by a
\* quorum, or the lowest epoch of the pool.
SelectHead(pool) ==
    LET epochs == {pool[g].lease.epoch : g \in DOMAIN pool}
        established ==
            {Min(epochs)} \cup
            (epochs \cap UNION {{c.epoch : c \in b} : b \in QuorumBundles(pool)})
        heads == {State(pool[g]) : g \in
                    {h \in DOMAIN pool : pool[h].lease.epoch = Max(established)}}
    IN  {s \in heads : \A t \in heads : Len(t.log) <= Len(s.log)}

\* Another takeover is past the attempt: a later epoch, or its epoch under
\* another key.
Past(attempt, epoch, key) ==
    epoch > attempt.epoch \/ (epoch = attempt.epoch /\ key # attempt.key)

Superseded(attempt, pool) ==
    \E b \in QuorumBundles(pool) : \E c \in b : Past(attempt, c.epoch, c.key)

MayBeSuperseded(attempt, pool) ==
    LET past == {g \in DOMAIN pool :
                    Past(attempt, pool[g].lease.epoch, pool[g].lease.key)}
    IN  /\ past # {}
        /\ Cardinality(Guardian \ (DOMAIN pool \ past)) >= Required

\* Some guardian may hold a grant of the attempt: it showed no head, or one
\* at or past the attempt's epoch that another key does not explain.
MayBeHeld(attempt, pool) ==
    \E g \in Guardian :
        g \in DOMAIN pool =>
            ~ \/ pool[g].lease.epoch < attempt.epoch
              \/ /\ pool[g].lease.epoch = attempt.epoch
                 /\ pool[g].lease.key # attempt.key

\* The row's state is what a grant of the attempt over this guard leaves.
GrantedOver(row, attempt, guard) ==
    /\ row.lease = [epoch |-> attempt.epoch, key |-> attempt.key]
    /\ row.log = guard.log

\* How many members may still grant the attempt's epoch and key over a guard.
MayGrant(attempt, guard, pool) ==
    LET can(row) ==
            IF row.lease.epoch = attempt.epoch
            THEN GrantedOver(row, attempt, guard)
            ELSE IF row.lease.epoch = guard.lease.epoch
            THEN State(row) = guard \/ Len(row.log) < Len(guard.log)
            ELSE row.lease.epoch < guard.lease.epoch
    IN  Cardinality({g \in Guardian : g \in DOMAIN pool => can(pool[g])})

\* The bundles that complete the attempt without another round: a quorum
\* granted it, over heads that differ, and the highest is held by a guardian
\* of the pool.
SplitGrants(attempt, pool) ==
    {b \in QuorumBundles(pool) :
        /\ \A c \in b : /\ c.epoch = attempt.epoch
                        /\ c.key = attempt.key
                        /\ c.over.lease = attempt.over.lease
        /\ ~ \A c \in b : c.over = Certified(b)
        /\ \E g \in DOMAIN pool : GrantedOver(pool[g], attempt, Certified(b))}

\* The state laggards are repaired to: a held attempt's own guard, when a
\* guardian still ends its log there, and otherwise the reconciled head.
RepairTargets(attempt, held, pool) ==
    IF ~held THEN SelectHead(pool)
    ELSE {attempt.over} \cap
            ({State(pool[g]) : g \in DOMAIN pool} \cup
             {attempt.over : g \in {h \in DOMAIN pool :
                                GrantedOver(pool[h], attempt, attempt.over)}})

\* repairLaggards on one guardian of the pool: the epoch, at once or after the
\* records it lacks, as the heads that were read call for.  The records above
\* its head go out one by one, up to the first that is refused.
Repaired(row, g, target, pool) ==
    LET seen == pool[g]
        forEpoch(e) ==
            UNION {b \in QuorumBundles(pool) : \A c \in b : c.epoch = e}
        bundle == IF seen.lease.epoch < target.lease.epoch
                  THEN forEpoch(target.lease.epoch) ELSE {}
        below == bundle # {} /\ Len(seen.log) < Len(Certified(bundle).log)
        record(n) == SubSeq(target.log, 1, n)
        proof(n) == IF Newest(record(n)).epoch < seen.lease.epoch
                    THEN forEpoch(Newest(record(n)).epoch + 1) ELSE {}
        takes(r, n) ==
            LET at == [r EXCEPT !.log = record(n - 1)]
            IN  SyncRecord(at, record(n), proof(n)) # at
        reach(r) == {n \in Len(r.log)..Len(target.log) :
                        \A m \in (Len(r.log) + 1)..n : takes(r, m)}
        records(r) ==
            IF Len(seen.log) <= Len(r.log) /\ HeadOnLog(r.log, target.log)
            THEN [r EXCEPT !.log = record(Max(reach(r)))] ELSE r
        epoch(r) == IF bundle = {} THEN r ELSE SyncEpoch(r, g, bundle)
    IN  CASE State(seen) = target -> row
          [] below -> epoch(records(row))
          [] OTHER -> records(epoch(row))

\* The guard of a held attempt can gather no quorum and the reconciled head
\* still can: the same epoch and key move to that head.
MustRetarget(attempt, head, pool) ==
    /\ head # attempt.over
    /\ head.lease.epoch + 1 = attempt.epoch
    /\ MayGrant(attempt, attempt.over, pool) < Required
    /\ MayGrant(attempt, head, pool) >= Required

=============================================================================
