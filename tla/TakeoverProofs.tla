--------------------------- MODULE TakeoverProofs ---------------------------
(***************************************************************************)
(* OneWriterPerEpoch of Takeover, for every set of guardians whose quorums  *)
(* intersect, every set of devices, and any number of records, epochs,      *)
(* keys and concurrent restores.                                            *)
(***************************************************************************)
EXTENDS Takeover, TLAPS

-----------------------------------------------------------------------------
(* One guardian.                                                            *)

IsRow(row) ==
    row = [lease |-> row.lease, log |-> row.log, grants |-> row.grants]

\* A guardian signs one certificate per epoch, none above its lease.
RowOK(row, g) ==
    /\ IsRow(row)
    /\ row.lease.epoch \in Nat /\ row.lease.epoch >= 1
    /\ \A c \in row.grants :
          c.by = g /\ c.epoch \in Nat /\ c.epoch <= row.lease.epoch
    /\ \A b, c \in row.grants : b.epoch = c.epoch => b = c

\* The row after is a good one and has dropped no certificate.
Grown(row, new, g) == RowOK(new, g) /\ row.grants \subseteq new.grants

\* Certificates with natural epochs.
Dated(bundle) == \A c \in bundle : c.epoch \in Nat

\* A row whose log alone changes keeps its certificates (appendRecord).
LEMMA LogGrown ==
    ASSUME NEW row, NEW g, NEW log, RowOK(row, g)
    PROVE  Grown(row, [row EXCEPT !.log = log], g)
BY DEF Grown, RowOK, IsRow

\* PUT_STATE and SYNC_RECORD change the log at most.
LEMMA SyncRecordGrown ==
    ASSUME NEW row, NEW g, NEW record, NEW bundle, RowOK(row, g)
    PROVE  Grown(row, AppendRecord(row, record), g)
           /\ Grown(row, SyncRecord(row, record, bundle), g)
<1>1. Grown(row, row, g)
  BY DEF Grown
<1>2. Grown(row, [row EXCEPT !.log = record], g)
  BY Zenon, LogGrown
<1>3. AppendRecord(row, record) \in {row, [row EXCEPT !.log = record]}
  BY DEF AppendRecord
<1>4. ExtendGrant(row, record, bundle) \in {row, [row EXCEPT !.log = record]}
  BY DEF ExtendGrant
<1>. QED  BY <1>1, <1>2, <1>3, <1>4 DEF SyncRecord

\* A grant is for the epoch after the guardian's lease, so it is its only
\* certificate for that epoch (acquireEpoch).
LEMMA AcquireEpochGrown ==
    ASSUME NEW row, NEW g, NEW request, RowOK(row, g)
    PROVE  Grown(row, AcquireEpoch(row, g, request), g)
<1>1. CASE ~MayGrantNow(row, request)
  BY <1>1 DEF AcquireEpoch, Grown
<1>2. CASE MayGrantNow(row, request)
  <2>. DEFINE new == [row EXCEPT
                !.lease = [epoch |-> request.epoch, key |-> request.key],
                !.grants = @ \cup {[by |-> g, epoch |-> request.epoch,
                                    key |-> request.key, over |-> request.over]}]
  <2>1. AcquireEpoch(row, g, request) = new
    BY <1>2 DEF AcquireEpoch
  <2>2. request.epoch = row.lease.epoch + 1
    BY <1>2 DEF MayGrantNow, State
  <2>3. /\ new.lease = [epoch |-> request.epoch, key |-> request.key]
        /\ new.log = row.log
        /\ new.grants = row.grants \cup
                {[by |-> g, epoch |-> request.epoch, key |-> request.key,
                  over |-> request.over]}
        /\ IsRow(new)
    <3>. DEFINE gs == row.grants \cup
                {[by |-> g, epoch |-> request.epoch, key |-> request.key,
                  over |-> request.over]}
                ls == [epoch |-> request.epoch, key |-> request.key]
    <3>1. row = [lease |-> row.lease, log |-> row.log, grants |-> row.grants]
      BY DEF RowOK, IsRow
    <3>2. new = [row EXCEPT !.lease = ls, !.grants = gs]
      OBVIOUS
    <3>3. new = [lease |-> ls, log |-> row.log, grants |-> gs]
      <4>. HIDE DEF gs, ls, new
      <4>. QED  BY Zenon, <3>1, <3>2
    <3>. HIDE DEF gs, ls, new
    <3>4. new.lease = ls /\ new.log = row.log /\ new.grants = gs /\ IsRow(new)
      BY <3>3 DEF IsRow
    <3>. QED  BY <3>4 DEF gs, ls
  <2>. HIDE DEF new
  <2>. QED  BY <2>1, <2>2, <2>3 DEF Grown, RowOK
<1>. QED  BY <1>1, <1>2

\* A certified epoch is adopted from below only (syncEpoch).
LEMMA SyncEpochGrown ==
    ASSUME NEW row, NEW g, NEW bundle, RowOK(row, g), Dated(bundle)
    PROVE  Grown(row, SyncEpoch(row, g, bundle), g)
<1>1. CASE SyncEpoch(row, g, bundle) = row
  BY <1>1 DEF Grown
<1>2. CASE SyncEpoch(row, g, bundle) # row
  <2>. DEFINE taken == CHOOSE c \in bundle : TRUE
              cert == [by |-> g, epoch |-> taken.epoch, key |-> taken.key,
                       over |-> Certified(bundle)]
              new == [lease |-> [epoch |-> taken.epoch, key |-> taken.key],
                      log |-> Certified(bundle).log,
                      grants |-> row.grants \cup {cert}]
  <2>1. /\ SyncEpoch(row, g, bundle) = new
        /\ bundle # {}
        /\ \A c \in bundle : row.lease.epoch < c.epoch
    BY <1>2 DEF SyncEpoch, TakeoverBundle
  <2>2. taken \in bundle
    BY <2>1
  <2>3. taken.epoch \in Nat /\ row.lease.epoch < taken.epoch
    BY <2>1, <2>2 DEF Dated
  <2>4. /\ new.lease.epoch = taken.epoch
        /\ new.grants = row.grants \cup {cert}
        /\ cert.by = g /\ cert.epoch = taken.epoch
        /\ IsRow(new)
    BY DEF IsRow
  <2>. HIDE DEF new, cert, taken
  <2>. QED  BY <2>1, <2>3, <2>4 DEF Grown, RowOK
<1>. QED  BY <1>1, <1>2

\* Two growths of a row are one.
LEMMA GrownTrans ==
    ASSUME NEW row, NEW mid, NEW new, NEW g,
           Grown(row, mid, g), Grown(mid, new, g)
    PROVE  Grown(row, new, g)
BY DEF Grown

-----------------------------------------------------------------------------
(* The rows a restore has read, and what it repairs.                        *)

\* A pool of rows with natural epochs.
PoolOK(p) ==
    /\ DOMAIN p \subseteq Guardian
    /\ \A g \in DOMAIN p :
          p[g].lease.epoch \in Nat /\ p[g].lease.epoch >= 1 /\ Dated(p[g].grants)

\* The certificates a restore gathers from its reads, and the quorums it makes
\* of them (quorumBundles), are those of well formed rows.
LEMMA BundlesAreDated ==
    ASSUME NEW p, PoolOK(p)
    PROVE  /\ Dated(Certificates(p))
           /\ \A b \in QuorumBundles(p) : b \subseteq Certificates(p) /\ Dated(b)
<1>1. Dated(Certificates(p))
  BY DEF PoolOK, Dated, Certificates
<1>2. \A b \in QuorumBundles(p) : b \subseteq Certificates(p)
  BY DEF QuorumBundles, CertificateBundles
<1>. QED  BY <1>1, <1>2 DEF Dated

\* repairLaggards sends SYNC_RECORD and SYNC_EPOCH only.
LEMMA RepairedGrown ==
    ASSUME NEW p, PoolOK(p), NEW row, NEW g, NEW target, RowOK(row, g)
    PROVE  Grown(row, Repaired(row, g, target, p), g)
<1>. DEFINE seen == p[g]
            forEpoch(e) ==
                UNION {b \in QuorumBundles(p) : \A c \in b : c.epoch = e}
            bundle == IF seen.lease.epoch < target.lease.epoch
                      THEN forEpoch(target.lease.epoch) ELSE {}
            below == bundle # {} /\ Len(seen.log) < Len(Certified(bundle).log)
            record(n) == SubSeq(target.log, 1, n)
            proof(n) == IF Newest(record(n)).epoch < seen.lease.epoch
                        THEN forEpoch(Newest(record(n)).epoch + 1) ELSE {}
            takes(r, n) ==
                LET at == [r EXCEPT !.log = record(n - 1)]
                IN  SyncRecord(at, record(n), proof(n)) # at
            reach(r) == {n \in Len(r.log)..Len(target.log) :
                            \A m \in (Len(r.log) + 1)..n : takes(r, m)}
            records(r) ==
                IF Len(seen.log) <= Len(r.log) /\ HeadOnLog(r.log, target.log)
                THEN [r EXCEPT !.log = record(Max(reach(r)))] ELSE r
            epoch(r) == IF bundle = {} THEN r ELSE SyncEpoch(r, g, bundle)
<1>1. \A e : Dated(forEpoch(e))
  BY BundlesAreDated DEF Dated
<1>2. Dated(bundle)
  BY <1>1 DEF Dated
<1>3. ASSUME NEW r, RowOK(r, g) PROVE Grown(r, records(r), g)
  <2>1. \A log : Grown(r, [r EXCEPT !.log = log], g)
    BY <1>3, LogGrown
  <2>2. Grown(r, r, g)
    BY <1>3 DEF Grown
  <2>3. records(r) = r \/ records(r) = [r EXCEPT !.log = record(Max(reach(r)))]
    OBVIOUS
  <2>. HIDE DEF records, record, reach
  <2>. QED  BY <2>1, <2>2, <2>3
<1>4. ASSUME NEW r, RowOK(r, g) PROVE Grown(r, epoch(r), g)
  <2>. HIDE DEF bundle
  <2>1. Grown(r, r, g) /\ Grown(r, SyncEpoch(r, g, bundle), g)
    BY <1>2, <1>4, SyncEpochGrown DEF Grown
  <2>. QED  BY <2>1
<1>5. Repaired(row, g, target, p) =
        CASE State(seen) = target -> row
          [] below -> epoch(records(row))
          [] OTHER -> records(epoch(row))
  BY DEF Repaired
<1>. HIDE DEF seen, below, epoch, records
<1>6. Grown(row, row, g)
  BY DEF Grown
<1>7. Grown(row, epoch(records(row)), g)
  <2>1. Grown(row, records(row), g)
    BY <1>3
  <2>2. Grown(records(row), epoch(records(row)), g)
    BY <2>1, <1>4 DEF Grown
  <2>. QED  BY <2>1, <2>2, GrownTrans
<1>8. Grown(row, records(epoch(row)), g)
  <2>1. Grown(row, epoch(row), g)
    BY <1>4
  <2>2. Grown(epoch(row), records(epoch(row)), g)
    BY <2>1, <1>3 DEF Grown
  <2>. QED  BY <2>1, <2>2, GrownTrans
<1>. QED  BY <1>5, <1>6, <1>7, <1>8

-----------------------------------------------------------------------------
(* The inductive invariant.                                                 *)

\* A guardian signed a certificate of the epoch for the key.
Signed(g, epoch, key) ==
    \E c \in guardian[g].grants : c.epoch = epoch /\ c.key = key

\* A quorum did.
QuorumSigned(epoch, key) ==
    \E Q \in SUBSET Guardian :
        /\ Cardinality(Q) >= Required
        /\ \A g \in Q : Signed(g, epoch, key)

\* A takeover this device may ask for: under a key it generated.
Own(d, attempt) ==
    attempt.epoch \in Nat /\ attempt.epoch >= 2 /\ attempt.key[1] = d

GuardiansOK ==
    /\ guardian = [g \in Guardian |-> guardian[g]]
    /\ \A g \in Guardian : RowOK(guardian[g], g)

PoolsOK ==
    /\ pool = [d \in Device |-> pool[d]]
    /\ \A d \in Device :
          /\ PoolOK(pool[d])
          /\ \A g \in DOMAIN pool[d] : pool[d][g].grants \subseteq guardian[g].grants

\* Where a device is in its acquisition, and what guardians have signed by then.
Progress(d) ==
    /\ pending[d] # NoAttempt => Own(d, pending[d])
    /\ phase[d] \in {"asking", "reread", "recheck", "won"} => Own(d, pending[d])
    /\ DOMAIN replies[d] \subseteq Guardian
    /\ phase[d] = "asking" =>
          \A g \in DOMAIN replies[d] : Signed(g, pending[d].epoch, pending[d].key)
    /\ phase[d] \in {"recheck", "won"} =>
          QuorumSigned(pending[d].epoch, pending[d].key)

\* What stands behind an installed lease.
Backed(d) ==
    /\ lease[d].epoch \in Nat
    /\ lease[d].epoch = 0 => lease[d] = NoLease
    /\ lease[d].epoch = 1 => d = FirstWriter
    /\ lease[d].epoch >= 2 =>
          lease[d].key[1] = d /\ QuorumSigned(lease[d].epoch, lease[d].key)

DriversOK ==
    /\ phase = [d \in Device |-> phase[d]]
    /\ pending = [d \in Device |-> pending[d]]
    /\ replies = [d \in Device |-> replies[d]]
    /\ lease = [d \in Device |-> lease[d]]
    /\ \A d \in Device : Progress(d) /\ Backed(d)

TInv == GuardiansOK /\ PoolsOK /\ DriversOK

\* Registered guardians and idle devices: nothing is signed, nobody has asked.
LEMMA InitTInv == Init => TInv
<1>. SUFFICES ASSUME Init PROVE TInv
  OBVIOUS
<1>1. GuardiansOK
  <2>1. guardian = [g \in Guardian |-> Registered(<<FirstWriter, 0>>)]
    BY DEF Init
  <2>2. \A key, g : RowOK(Registered(key), g)
    BY DEF RowOK, IsRow, Registered
  <2>. QED  BY <2>1, <2>2 DEF GuardiansOK
<1>2. PoolsOK
  BY DEF Init, PoolsOK, PoolOK, Nothing
<1>3. DriversOK
  BY DEF Init, DriversOK, Progress, Backed, Nothing, NoLease, NoAttempt
<1>. QED  BY <1>1, <1>2, <1>3 DEF TInv

-----------------------------------------------------------------------------
(* Steps.                                                                   *)

\* Every step leaves good rows and drops no certificate.
GuardiansGrow ==
    /\ guardian' = [g \in Guardian |-> guardian'[g]]
    /\ \A g \in Guardian : Grown(guardian[g], guardian'[g], g)

\* A step of one device.
DeviceSteps(d) ==
    /\ phase' = [phase EXCEPT ![d] = phase'[d]]
    /\ pending' = [pending EXCEPT ![d] = pending'[d]]
    /\ replies' = [replies EXCEPT ![d] = replies'[d]]
    /\ lease' = [lease EXCEPT ![d] = lease'[d]]
    /\ pool' = [pool EXCEPT ![d] = pool'[d]]

PoolGrows(d) ==
    /\ PoolOK(pool'[d])
    /\ \A g \in DOMAIN pool'[d] : pool'[d][g].grants \subseteq guardian'[g].grants

\* What was signed stays signed.
LEMMA SignedStays ==
    ASSUME TInv, GuardiansGrow
    PROVE  /\ GuardiansOK'
           /\ \A g \in Guardian : \A epoch, key :
                 Signed(g, epoch, key) => Signed(g, epoch, key)'
           /\ \A epoch, key :
                 QuorumSigned(epoch, key) => QuorumSigned(epoch, key)'
<1>1. GuardiansOK'
  BY DEF GuardiansGrow, Grown, GuardiansOK
<1>2. \A g \in Guardian : guardian[g].grants \subseteq guardian'[g].grants
  BY DEF GuardiansGrow, Grown
<1>3. ASSUME NEW g \in Guardian, NEW epoch, NEW key, Signed(g, epoch, key)
      PROVE  Signed(g, epoch, key)'
  BY <1>2, <1>3 DEF Signed
<1>4. ASSUME NEW epoch, NEW key, QuorumSigned(epoch, key)
      PROVE  QuorumSigned(epoch, key)'
  <2>1. PICK Q \in SUBSET Guardian :
          Cardinality(Q) >= Required /\ \A g \in Q : Signed(g, epoch, key)
    BY <1>4 DEF QuorumSigned
  <2>2. \A g \in Q : Signed(g, epoch, key)'
    BY <1>3, <2>1
  <2>. QED  BY <2>1, <2>2 DEF QuorumSigned
<1>. QED  BY <1>1, <1>3, <1>4

\* A device that does not step keeps what it has.
LEMMA BystanderKept ==
    ASSUME TInv, GuardiansGrow, NEW e \in Device,
           phase'[e] = phase[e], pending'[e] = pending[e],
           replies'[e] = replies[e], lease'[e] = lease[e], pool'[e] = pool[e]
    PROVE  Progress(e)' /\ Backed(e)' /\ PoolGrows(e)
<1>1. Progress(e) /\ Backed(e) /\ PoolOK(pool[e])
  BY DEF TInv, DriversOK, PoolsOK
<1>2. \A g \in DOMAIN pool[e] : pool[e][g].grants \subseteq guardian'[g].grants
  BY DEF TInv, PoolsOK, PoolOK, GuardiansGrow, Grown
<1>3. Progress(e)'
  BY <1>1, SignedStays DEF Progress, Own
<1>4. Backed(e)'
  BY <1>1, SignedStays DEF Backed
<1>. QED  BY <1>1, <1>2, <1>3, <1>4 DEF PoolGrows

\* It remains to look at the device that steps.
LEMMA DeviceStep ==
    ASSUME TInv, GuardiansGrow, NEW d \in Device, DeviceSteps(d),
           Progress(d)', Backed(d)', PoolGrows(d)
    PROVE  TInv'
<1>1. \A e \in Device : e # d =>
        /\ phase'[e] = phase[e] /\ pending'[e] = pending[e]
        /\ replies'[e] = replies[e] /\ lease'[e] = lease[e] /\ pool'[e] = pool[e]
  BY DEF DeviceSteps, TInv, DriversOK, PoolsOK
<1>2. \A e \in Device : Progress(e)' /\ Backed(e)' /\ PoolGrows(e)
  BY <1>1, BystanderKept
<1>3. /\ phase' = [e \in Device |-> phase'[e]]
      /\ pending' = [e \in Device |-> pending'[e]]
      /\ replies' = [e \in Device |-> replies'[e]]
      /\ lease' = [e \in Device |-> lease'[e]]
      /\ pool' = [e \in Device |-> pool'[e]]
  BY DEF DeviceSteps, TInv, DriversOK, PoolsOK
<1>4. GuardiansOK'
  BY SignedStays
<1>5. PoolsOK'
  BY <1>2, <1>3 DEF PoolsOK, PoolGrows
<1>6. DriversOK'
  BY <1>2, <1>3 DEF DriversOK
<1>. QED  BY <1>4, <1>5, <1>6 DEF TInv

\* A step of guardians alone.
LEMMA GuardianStep ==
    ASSUME TInv, GuardiansGrow, UNCHANGED <<phase, pending, replies, lease, pool>>
    PROVE  TInv'
<1>1. \A e \in Device : Progress(e)' /\ Backed(e)' /\ PoolGrows(e)
  BY BystanderKept
<1>2. GuardiansOK'
  BY SignedStays
<1>3. PoolsOK'
  BY <1>1 DEF PoolsOK, PoolGrows, TInv
<1>4. DriversOK'
  BY <1>1 DEF DriversOK, TInv
<1>. QED  BY <1>2, <1>3, <1>4 DEF TInv

\* Guardians that a step leaves alone have grown, trivially.
LEMMA UnchangedGuardians ==
    ASSUME TInv, UNCHANGED guardian
    PROVE  GuardiansGrow
BY DEF TInv, GuardiansOK, GuardiansGrow, Grown

\* So have the guardians of which one handles a request.
LEMMA OneGuardianGrows ==
    ASSUME TInv, NEW g \in Guardian, NEW row, Grown(guardian[g], row, g),
           guardian' = [guardian EXCEPT ![g] = row]
    PROVE  GuardiansGrow
BY DEF TInv, GuardiansOK, GuardiansGrow, Grown

-----------------------------------------------------------------------------
(* Writers and relays.                                                      *)

\* The writer's own steps touch no guardian and no acquisition.
LEMMA WriterStep ==
    ASSUME TInv, NEW d \in Device, Journals(d) \/ EndsPass(d) \/ IsFenced(d)
    PROVE  TInv'
<1>1. UNCHANGED <<guardian, pending, replies, lease, pool>>
  BY DEF Journals, EndsPass, IsFenced, driver
<1>2. phase' = phase \/ phase' = [phase EXCEPT ![d] = "fenced"]
  BY DEF Journals, EndsPass, IsFenced
<1>3. GuardiansGrow
  BY <1>1, UnchangedGuardians
<1>4. CASE phase' = phase
  BY <1>1, <1>3, <1>4, GuardianStep
<1>5. CASE phase' = [phase EXCEPT ![d] = "fenced"]
  <2>1. DeviceSteps(d)
    BY Zenon, <1>1, <1>5 DEF DeviceSteps, TInv, DriversOK, PoolsOK
  <2>2. phase'[d] = "fenced"
    BY <1>5 DEF TInv, DriversOK
  <2>3. Progress(d) /\ Backed(d)
    BY DEF TInv, DriversOK
  <2>4. Progress(d)'
    BY <1>1, <2>2, <2>3 DEF Progress, Own
  <2>5. Backed(d)'
    BY <1>1, <1>3, <2>3, SignedStays DEF Backed
  <2>6. PoolGrows(d)
    BY <1>1 DEF TInv, PoolsOK, PoolGrows
  <2>. QED  BY <1>3, <2>1, <2>4, <2>5, <2>6, DeviceStep
<1>. QED  BY <1>2, <1>4, <1>5

\* PUT_STATE appends to one log and signs no epoch.
LEMMA PutsStep ==
    ASSUME TInv, NEW d \in Device, NEW g \in Guardian, Puts(d, g)
    PROVE  TInv'
<1>1. UNCHANGED <<phase, pending, replies, lease, pool>>
  BY DEF Puts, driver
<1>2. PICK record : guardian' = [guardian EXCEPT ![g] = AppendRecord(guardian[g], record)]
  BY Zenon DEF Puts
<1>3. Grown(guardian[g], AppendRecord(guardian[g], record), g)
  BY SyncRecordGrown DEF TInv, GuardiansOK
<1>4. GuardiansGrow
  BY Zenon, <1>2, <1>3, OneGuardianGrows
<1>. QED  BY <1>1, <1>4, GuardianStep

\* What was gathered from the guardians has natural epochs.
LEMMA GatheredIsDated ==
    ASSUME TInv, NEW bundle \in Gathered
    PROVE  Dated(bundle)
<1>1. PoolOK(guardian)
  BY DEF TInv, GuardiansOK, PoolOK, RowOK, Dated
<1>2. PICK b \in QuorumBundles(guardian) : bundle \subseteq b
  BY DEF Gathered
<1>. QED  BY <1>1, <1>2, BundlesAreDated DEF Dated

\* SYNC_RECORD, SYNC_EPOCH and late ACQUIRE_EPOCH requests only make rows grow.
LEMMA RelayStep ==
    ASSUME TInv, NEW g \in Guardian,
           RelaysRecord(g) \/ RelaysEpoch(g) \/ AnswersUnheard(g)
    PROVE  TInv'
<1>1. UNCHANGED <<phase, pending, replies, lease, pool>>
  BY DEF RelaysRecord, RelaysEpoch, AnswersUnheard, driver, writer
<1>2. RowOK(guardian[g], g)
  BY DEF TInv, GuardiansOK
<1>3. CASE RelaysRecord(g)
  <2>1. PICK record, bundle :
          guardian' = [guardian EXCEPT ![g] = SyncRecord(guardian[g], record, bundle)]
    BY Zenon, <1>3 DEF RelaysRecord
  <2>2. Grown(guardian[g], SyncRecord(guardian[g], record, bundle), g)
    BY <1>2, SyncRecordGrown
  <2>3. GuardiansGrow
    BY Zenon, <2>1, <2>2, OneGuardianGrows
  <2>. QED  BY <1>1, <2>3, GuardianStep
<1>4. CASE RelaysEpoch(g)
  <2>1. PICK bundle \in Gathered :
          guardian' = [guardian EXCEPT ![g] = SyncEpoch(guardian[g], g, bundle)]
    BY Zenon, <1>4 DEF RelaysEpoch
  <2>2. Grown(guardian[g], SyncEpoch(guardian[g], g, bundle), g)
    BY <1>2, GatheredIsDated, SyncEpochGrown
  <2>3. GuardiansGrow
    BY Zenon, <2>1, <2>2, OneGuardianGrows
  <2>. QED  BY <1>1, <2>3, GuardianStep
<1>5. CASE AnswersUnheard(g)
  <2>1. PICK request :
          guardian' = [guardian EXCEPT ![g] = AcquireEpoch(guardian[g], g, request)]
    BY Zenon, <1>5 DEF AnswersUnheard
  <2>2. Grown(guardian[g], AcquireEpoch(guardian[g], g, request), g)
    BY <1>2, AcquireEpochGrown
  <2>3. GuardiansGrow
    BY Zenon, <2>1, <2>2, OneGuardianGrows
  <2>. QED  BY <1>1, <2>3, GuardianStep
<1>. QED  BY <1>3, <1>4, <1>5

-----------------------------------------------------------------------------
(* The restore.                                                             *)

\* A head that is read is one the guardian has signed.
LEMMA ReadsHeadStep ==
    ASSUME TInv, NEW d \in Device, NEW g \in Guardian, ReadsHead(d, g)
    PROVE  TInv'
<1>1. /\ UNCHANGED <<guardian, pending, replies, lease>>
      /\ pool' = [pool EXCEPT ![d] = With(pool[d], g, guardian[g])]
      /\ phase' = [phase EXCEPT ![d] = IF phase[d] = "off" THEN "heads" ELSE phase[d]]
  BY DEF ReadsHead, writer, TInv, DriversOK, PoolsOK
<1>2. GuardiansGrow
  BY <1>1, UnchangedGuardians
<1>3. DeviceSteps(d)
  BY Zenon, <1>1 DEF DeviceSteps, TInv, DriversOK, PoolsOK
<1>4. Progress(d) /\ Backed(d)
  BY DEF TInv, DriversOK
<1>5. phase'[d] = "heads" \/ phase'[d] = phase[d]
  BY <1>1 DEF TInv, DriversOK
<1>6. Progress(d)'
  BY <1>1, <1>2, <1>4, <1>5, SignedStays DEF Progress, Own
<1>7. Backed(d)'
  BY <1>1, <1>2, <1>4, SignedStays DEF Backed
<1>8. PoolGrows(d)
  <2>1. pool'[d] = With(pool[d], g, guardian[g])
    BY <1>1 DEF TInv, PoolsOK
  <2>2. DOMAIN pool'[d] = {g} \cup DOMAIN pool[d]
    BY <2>1 DEF With
  <2>4. \A h \in DOMAIN pool'[d] :
          \/ pool'[d][h] = guardian[h] /\ h \in Guardian
          \/ pool'[d][h] = pool[d][h] /\ h \in DOMAIN pool[d]
    BY <2>1 DEF With
  <2>5. \A h \in Guardian :
          /\ guardian[h].lease.epoch \in Nat /\ guardian[h].lease.epoch >= 1
          /\ Dated(guardian[h].grants)
    BY DEF TInv, GuardiansOK, RowOK, Dated
  <2>6. PoolOK(pool[d]) /\ \A h \in DOMAIN pool[d] : pool[d][h].grants \subseteq guardian[h].grants
    BY DEF TInv, PoolsOK
  <2>7. PoolOK(pool'[d])
    BY <2>2, <2>4, <2>5, <2>6 DEF PoolOK
  <2>8. \A h \in DOMAIN pool'[d] : pool'[d][h].grants \subseteq guardian'[h].grants
    BY <1>1, <2>4, <2>6
  <2>. QED  BY <2>7, <2>8 DEF PoolGrows
<1>. QED  BY <1>2, <1>3, <1>6, <1>7, <1>8, DeviceStep

\* repairLaggards makes the rows of the laggards grow.
LEMMA RepairsGrow ==
    ASSUME TInv, NEW d \in Device, NEW target, Repairs(d, target)
    PROVE  GuardiansGrow
<1>1. \A g \in Guardian :
        Grown(guardian[g], Repaired(guardian[g], g, target, pool[d]), g)
  BY RepairedGrown DEF TInv, PoolsOK, GuardiansOK
<1>2. \A g \in Guardian : Grown(guardian[g], guardian[g], g)
  BY DEF TInv, GuardiansOK, Grown
<1>3. \A g \in Guardian :
        guardian'[g] \in {guardian[g], Repaired(guardian[g], g, target, pool[d])}
  BY DEF Repairs
<1>4. guardian' = [g \in Guardian |-> guardian'[g]]
  BY DEF Repairs
<1>. QED  BY <1>1, <1>2, <1>3, <1>4 DEF GuardiansGrow

\* A step of a restoring device that leaves its lease alone and its pool as it
\* is or empty.
LEMMA RestoreStep ==
    ASSUME TInv, GuardiansGrow, NEW d \in Device, NEW ph, NEW att, NEW rep, NEW po,
           phase' = [phase EXCEPT ![d] = ph],
           pending' = [pending EXCEPT ![d] = att],
           replies' = [replies EXCEPT ![d] = rep],
           pool' = [pool EXCEPT ![d] = po],
           UNCHANGED lease,
           po \in {pool[d], Nothing},
           Progress(d)'
    PROVE  TInv'
<1>1. pool'[d] = po
  BY DEF TInv, PoolsOK
<1>2. DeviceSteps(d)
  BY <1>1 DEF DeviceSteps, TInv, DriversOK, PoolsOK
<1>3. Backed(d)'
  BY SignedStays DEF Backed, TInv, DriversOK
<1>4. PoolGrows(d)
  <2>1. CASE po = pool[d]
    BY <1>1, <2>1 DEF TInv, PoolsOK, PoolOK, PoolGrows, GuardiansGrow, Grown
  <2>2. CASE po = Nothing
    BY <1>1, <2>2 DEF PoolGrows, PoolOK, Nothing
  <2>. QED  BY <2>1, <2>2
<1>. QED  BY <1>2, <1>3, <1>4, DeviceStep

\* The head an attempt starts on is a head that was read.
LEMMA SelectedHead ==
    ASSUME TInv, NEW d \in Device, NEW head \in SelectHead(pool[d])
    PROVE  head.lease.epoch \in Nat /\ head.lease.epoch >= 1
<1>1. PICK g \in DOMAIN pool[d] : head = State(pool[d][g])
  BY Zenon DEF SelectHead
<1>. QED  BY <1>1 DEF State, TInv, PoolsOK, PoolOK

\* Every quorum of certificates that a restore has read was signed by a quorum of
\* guardians.  BundleIsSigned shows it, from facts about cardinalities.
BundlesSigned ==
    \A d \in Device : \A bundle \in QuorumBundles(pool[d]) : \A epoch, key :
        (\A c \in bundle : c.epoch = epoch /\ c.key = key)
            => QuorumSigned(epoch, key)

\* The decision of acquireEpoch: give up, ask, or finish a grant that a quorum
\* already signed.
LEMMA EntersRoundStep ==
    ASSUME TInv, BundlesSigned, NEW d \in Device, NEW attempt,
           attempt = NoAttempt \/ Own(d, attempt),
           EntersRound(d, attempt)
    PROVE  TInv'
<1>1. /\ pool' = [pool EXCEPT ![d] = Nothing]
      /\ replies' = [replies EXCEPT ![d] = Nothing]
      /\ UNCHANGED lease
  BY DEF EntersRound, writer
<1>2. replies'[d] = Nothing
  BY <1>1 DEF TInv, DriversOK
<1>3. DOMAIN replies'[d] = {}
  BY <1>2 DEF Nothing
<1>4. ASSUME NEW a, Own(d, a), GuardiansGrow,
             pending' = [pending EXCEPT ![d] = a],
             phase' = [phase EXCEPT ![d] = "asking"]
      PROVE  TInv'
  <2>1. pending'[d] = a /\ phase'[d] = "asking"
    BY <1>4 DEF TInv, DriversOK
  <2>2. Progress(d)'
    BY <1>3, <1>4, <2>1 DEF Progress, Own
  <2>. QED  BY <1>1, <1>4, <2>2, RestoreStep, Zenon
<1>5. CASE attempt = NoAttempt /\ BeginsAttempt(d)
  <2>1. PICK head \in SelectHead(pool[d]) :
          Repairs(d, head) /\ Sends(d, NewAttempt(d, head))
    BY <1>5 DEF BeginsAttempt
  <2>2. head.lease.epoch \in Nat /\ head.lease.epoch >= 1
    BY SelectedHead
  <2>3. Own(d, NewAttempt(d, head))
    BY <2>2 DEF Own, NewAttempt
  <2>4. GuardiansGrow
    BY <2>1, RepairsGrow
  <2>. QED  BY <1>4, <2>1, <2>3, <2>4, Zenon DEF Sends
<1>6. CASE attempt # NoAttempt /\ RepeatsAttempt(d, attempt)
  <2>1. Own(d, attempt)
    BY <1>6
  <2>2. Sends(d, attempt) /\ RepairsLaggards(d, attempt)
    BY <1>6 DEF RepeatsAttempt
  <2>3. UNCHANGED guardian \/ \E target : Repairs(d, target)
    BY <2>2 DEF RepairsLaggards
  <2>4. GuardiansGrow
    BY <2>3, RepairsGrow, UnchangedGuardians
  <2>. QED  BY <1>4, <2>1, <2>2, <2>4, Zenon DEF Sends
<1>7. CASE attempt # NoAttempt /\ FinishesSplitGrant(d, attempt)
  <2>1. Own(d, attempt)
    BY <1>7
  <2>2. PICK bundle \in SplitGrants(attempt, pool[d]) : \E target : Repairs(d, target)
    BY <1>7 DEF FinishesSplitGrant
  <2>3. /\ pending' = [pending EXCEPT ![d] = attempt]
        /\ phase' = [phase EXCEPT ![d] = "recheck"]
    BY <1>7 DEF FinishesSplitGrant
  <2>4. GuardiansGrow
    BY <2>2, RepairsGrow
  <2>5. bundle \in QuorumBundles(pool[d])
        /\ \A c \in bundle : c.epoch = attempt.epoch /\ c.key = attempt.key
    BY DEF SplitGrants
  <2>6. QuorumSigned(attempt.epoch, attempt.key)'
    <3>1. QuorumSigned(attempt.epoch, attempt.key)
      BY <2>5 DEF BundlesSigned
    <3>. DEFINE e == attempt.epoch  k == attempt.key
    <3>. HIDE DEF e, k
    <3>2. QuorumSigned(e, k) => QuorumSigned(e, k)'
      BY <2>4, SignedStays
    <3>. QED  BY <3>1, <3>2 DEF e, k
  <2>7. pending'[d] = attempt /\ phase'[d] = "recheck"
    BY <2>3 DEF TInv, DriversOK
  <2>8. Progress(d)'
    BY <1>3, <2>1, <2>6, <2>7 DEF Progress, Own
  <2>. QED  BY <1>1, <2>3, <2>4, <2>8, RestoreStep, Zenon
<1>8. CASE /\ pending' = [pending EXCEPT ![d] = attempt]
           /\ phase' = [phase EXCEPT ![d] = "off"]
           /\ UNCHANGED guardian
  <2>1. pending'[d] = attempt /\ phase'[d] = "off"
    BY <1>8 DEF TInv, DriversOK
  <2>2. GuardiansGrow
    BY <1>8, UnchangedGuardians
  <2>3. Progress(d)'
    BY <1>3, <2>1 DEF Progress, Own
  <2>. QED  BY <1>1, <1>8, <2>2, <2>3, RestoreStep, Zenon
<1>. QED  BY <1>5, <1>6, <1>7, <1>8 DEF EntersRound

\* A first read and a retry both end in that decision.
LEMMA DecisionStep ==
    ASSUME TInv, BundlesSigned, NEW d \in Device, Decides(d) \/ Retries(d)
    PROVE  TInv'
<1>1. pending[d] = NoAttempt \/ Own(d, pending[d])
  BY DEF TInv, DriversOK, Progress
<1>2. CASE Decides(d)
  <2>1. PICK a \in {NoAttempt, pending[d]} : EntersRound(d, a)
    BY <1>2 DEF Decides
  <2>. QED  BY <1>1, <2>1, EntersRoundStep
<1>3. CASE Retries(d)
  <2>1. Own(d, pending[d])
    BY <1>3 DEF Retries, TInv, DriversOK, Progress
  <2>2. PICK head : EntersRound(d, Refreshed(d, pending[d], head))
    BY <1>3 DEF Retries
  <2>3. Refreshed(d, pending[d], head) \in
          {NoAttempt, pending[d], [pending[d] EXCEPT !.over = head]}
    BY DEF Refreshed
  <2>4. Own(d, [pending[d] EXCEPT !.over = head])
    BY <2>1 DEF Own
  <2>. QED  BY <2>1, <2>2, <2>3, <2>4, EntersRoundStep
<1>. QED  BY <1>2, <1>3

\* A counted reply is a certificate the guardian has just signed or replayed.
LEMMA AnswersStep ==
    ASSUME TInv, NEW d \in Device, NEW g \in Guardian, Answers(d, g)
    PROVE  TInv'
<1>. DEFINE row == AcquireEpoch(guardian[g], g, pending[d])
            heard == With(replies[d], g, Granted(guardian[g], pending[d]))
<1>1. /\ phase[d] = "asking" /\ Granted(row, pending[d])
      /\ guardian' = [guardian EXCEPT ![g] = row]
      /\ replies' = [replies EXCEPT ![d] = heard]
      /\ UNCHANGED <<lease, phase, pool, pending>>
  BY DEF Answers, writer, TInv, DriversOK
<1>2. GuardiansGrow
  <2>1. Grown(guardian[g], row, g)
    BY AcquireEpochGrown DEF TInv, GuardiansOK
  <2>. HIDE DEF row
  <2>. QED  BY Zenon, <1>1, <2>1, OneGuardianGrows
<1>3. Signed(g, pending[d].epoch, pending[d].key)'
  <2>1. guardian'[g] = row
    BY <1>1 DEF TInv, GuardiansOK
  <2>2. \E c \in row.grants : c.epoch = pending[d].epoch /\ c.key = pending[d].key
    BY <1>1 DEF Granted
  <2>. HIDE DEF row
  <2>. QED  BY <1>1, <2>1, <2>2 DEF Signed
<1>4. DOMAIN replies'[d] = DOMAIN replies[d] \cup {g}
  BY <1>1 DEF TInv, DriversOK, With
<1>5. Progress(d)
  BY DEF TInv, DriversOK
<1>6. \A h \in DOMAIN replies[d] : Signed(h, pending[d].epoch, pending[d].key)'
  <2>. DEFINE e == pending[d].epoch  k == pending[d].key
  <2>1. \A h \in DOMAIN replies[d] : h \in Guardian /\ Signed(h, e, k)
    BY <1>1, <1>5 DEF Progress
  <2>2. e' = e /\ k' = k
    BY <1>1
  <2>3. \A h \in Guardian : \A x, y : Signed(h, x, y) => Signed(h, x, y)'
    BY <1>2, SignedStays
  <2>. QED  BY SMTT(60), <1>1, <2>1, <2>3 DEF Signed
<1>7. Progress(d)'
  BY <1>1, <1>3, <1>4, <1>5, <1>6 DEF Progress, Own
<1>8. /\ phase' = [phase EXCEPT ![d] = phase[d]]
      /\ pending' = [pending EXCEPT ![d] = pending[d]]
      /\ pool' = [pool EXCEPT ![d] = pool[d]]
  BY Zenon, <1>1 DEF TInv, DriversOK, PoolsOK
<1>. HIDE DEF row, heard
<1>. QED  BY ZenonT(60), <1>1, <1>2, <1>7, <1>8, RestoreStep

\* The replies of a round are certificates of a quorum.
LEMMA EndsRoundStep ==
    ASSUME TInv, NEW d \in Device, EndsRound(d)
    PROVE  TInv'
<1>1. /\ UNCHANGED <<guardian, lease, pool, pending, replies>>
      /\ phase[d] = "asking"
  BY DEF EndsRound, writer
<1>2. Progress(d)
  BY DEF TInv, DriversOK
<1>3. PICK ph \in {"recheck", "won", "reread"} :
        /\ phase' = [phase EXCEPT ![d] = ph]
        /\ ph # "reread" => Cardinality(DOMAIN replies[d]) >= Required
  BY DEF EndsRound
<1>4. phase'[d] = ph
  BY <1>3 DEF TInv, DriversOK
<1>5. ph # "reread" => QuorumSigned(pending[d].epoch, pending[d].key)
  BY <1>1, <1>2, <1>3 DEF Progress, QuorumSigned
<1>6. GuardiansGrow
  BY <1>1, UnchangedGuardians
<1>7. ph # "reread" => QuorumSigned(pending[d].epoch, pending[d].key)'
  BY <1>1, <1>5 DEF QuorumSigned, Signed
<1>8. Progress(d)'
  BY <1>1, <1>2, <1>4, <1>7 DEF Progress, Own
<1>9. /\ pending' = [pending EXCEPT ![d] = pending[d]]
      /\ replies' = [replies EXCEPT ![d] = replies[d]]
      /\ pool' = [pool EXCEPT ![d] = pool[d]]
  BY Zenon, <1>1 DEF TInv, DriversOK, PoolsOK
<1>. QED  BY ZenonT(60), <1>1, <1>3, <1>6, <1>8, <1>9, RestoreStep

\* The recheck ends in another round or in a win the replies already backed.
LEMMA RechecksStep ==
    ASSUME TInv, BundlesSigned, NEW d \in Device, Rechecks(d)
    PROVE  TInv'
<1>1. CASE EntersRound(d, NoAttempt)
  BY <1>1, EntersRoundStep
<1>2. CASE /\ phase' = [phase EXCEPT ![d] = "won"]
           /\ pool' = [pool EXCEPT ![d] = Nothing]
           /\ UNCHANGED <<guardian, lease, pending, replies>>
  <2>1. Progress(d) /\ phase[d] = "recheck"
    BY DEF Rechecks, TInv, DriversOK
  <2>2. phase'[d] = "won"
    BY <1>2 DEF TInv, DriversOK
  <2>3. Progress(d)'
    BY <1>2, <2>1, <2>2 DEF Progress, Own, QuorumSigned, Signed
  <2>4. /\ pending' = [pending EXCEPT ![d] = pending[d]]
        /\ replies' = [replies EXCEPT ![d] = replies[d]]
    BY Zenon, <1>2 DEF TInv, DriversOK
  <2>5. GuardiansGrow
    BY <1>2, UnchangedGuardians
  <2>. QED  BY Zenon, <1>2, <2>3, <2>4, <2>5, RestoreStep
<1>. QED  BY <1>1, <1>2 DEF Rechecks, writer

\* A restore that stops keeps its pending acquisition and forgets its replies.
LEMMA StopsStep ==
    ASSUME TInv, NEW d \in Device, Stops(d)
    PROVE  TInv'
<1>1. /\ phase' = [phase EXCEPT ![d] = "off"]
      /\ pool' = [pool EXCEPT ![d] = Nothing]
      /\ replies' = [replies EXCEPT ![d] = Nothing]
      /\ UNCHANGED <<guardian, lease, pending>>
  BY DEF Stops, writer
<1>2. phase'[d] = "off" /\ replies'[d] = Nothing
  BY <1>1 DEF TInv, DriversOK
<1>3. Progress(d)
  BY DEF TInv, DriversOK
<1>4. Progress(d)'
  BY <1>1, <1>2, <1>3 DEF Progress, Own, Nothing
<1>5. pending' = [pending EXCEPT ![d] = pending[d]]
  BY Zenon, <1>1 DEF TInv, DriversOK
<1>6. GuardiansGrow
  BY <1>1, UnchangedGuardians
<1>. QED  BY Zenon, <1>1, <1>4, <1>5, <1>6, RestoreStep

\* The lease that is installed is the one a quorum signed.
LEMMA InstallsStep ==
    ASSUME TInv, NEW d \in Device, Installs(d)
    PROVE  TInv'
<1>. DEFINE new == [epoch |-> pending[d].epoch, key |-> pending[d].key]
<1>1. /\ phase[d] = "won"
      /\ lease' = [lease EXCEPT ![d] = new]
      /\ pending' = [pending EXCEPT ![d] = NoAttempt]
      /\ phase' = [phase EXCEPT ![d] = "writing"]
      /\ replies' = [replies EXCEPT ![d] = Nothing]
      /\ UNCHANGED <<guardian, pool>>
  BY DEF Installs
<1>2. /\ lease'[d] = new /\ pending'[d] = NoAttempt
      /\ phase'[d] = "writing" /\ replies'[d] = Nothing
  BY <1>1 DEF TInv, DriversOK
<1>3. Progress(d)
  BY DEF TInv, DriversOK
<1>4. Own(d, pending[d]) /\ QuorumSigned(pending[d].epoch, pending[d].key)
  BY <1>1, <1>3 DEF Progress
<1>5. GuardiansGrow
  BY <1>1, UnchangedGuardians
<1>6. DeviceSteps(d)
  BY Zenon, <1>1 DEF DeviceSteps, TInv, DriversOK, PoolsOK
<1>7. Progress(d)'
  BY <1>2 DEF Progress, Nothing
<1>8. Backed(d)'
  <2>1. /\ lease'[d].epoch = pending[d].epoch /\ lease'[d].key = pending[d].key
        /\ lease'[d].epoch \in Nat /\ lease'[d].epoch >= 2 /\ lease'[d].key[1] = d
    BY <1>2, <1>4 DEF Own
  <2>2. QuorumSigned(lease[d].epoch, lease[d].key)'
    BY SMTT(60), <1>1, <1>4, <2>1 DEF QuorumSigned, Signed
  <2>. QED  BY <2>1, <2>2 DEF Backed
<1>9. PoolGrows(d)
  BY <1>1 DEF TInv, PoolsOK, PoolGrows
<1>. QED  BY <1>5, <1>6, <1>7, <1>8, <1>9, DeviceStep

\* Every step keeps the invariant, given what quorums of signers prove.
LEMMA NextTInv ==
    ASSUME TInv, BundlesSigned, [Next]_vars
    PROVE  TInv'
<1>1. CASE UNCHANGED vars
  <2>1. UNCHANGED <<guardian, phase, pending, replies, lease, pool>>
    BY <1>1 DEF vars
  <2>. QED  BY <2>1, UnchangedGuardians, GuardianStep
<1>2. ASSUME NEW d \in Device, Journals(d) \/ EndsPass(d) \/ IsFenced(d)
      PROVE  TInv'
  BY <1>2, WriterStep
<1>3. ASSUME NEW d \in Device, Decides(d) \/ Retries(d)
      PROVE  TInv'
  BY <1>3, DecisionStep
<1>4. ASSUME NEW d \in Device, EndsRound(d) PROVE TInv'
  BY <1>4, EndsRoundStep
<1>5. ASSUME NEW d \in Device, Rechecks(d) PROVE TInv'
  BY <1>5, RechecksStep
<1>6. ASSUME NEW d \in Device, Installs(d) PROVE TInv'
  BY <1>6, InstallsStep
<1>7. ASSUME NEW d \in Device, Stops(d) PROVE TInv'
  BY <1>7, StopsStep
<1>8. ASSUME NEW d \in Device, NEW g \in Guardian, Puts(d, g) PROVE TInv'
  BY <1>8, PutsStep
<1>9. ASSUME NEW d \in Device, NEW g \in Guardian, ReadsHead(d, g) PROVE TInv'
  BY <1>9, ReadsHeadStep
<1>10. ASSUME NEW d \in Device, NEW g \in Guardian, Answers(d, g) PROVE TInv'
  BY <1>10, AnswersStep
<1>11. ASSUME NEW g \in Guardian,
              RelaysRecord(g) \/ RelaysEpoch(g) \/ AnswersUnheard(g)
       PROVE  TInv'
  BY <1>11, RelayStep
<1>. QED  BY <1>1, <1>2, <1>3, <1>4, <1>5, <1>6, <1>7, <1>8, <1>9, <1>10, <1>11
          DEF Next

-----------------------------------------------------------------------------
(* Quorums.                                                                 *)

INSTANCE FunctionTheorems
INSTANCE FiniteSetTheorems

\* Two quorums that signed one epoch share a guardian, which signed it once.
LEMMA QuorumsAgree ==
    ASSUME GuardiansOK, NEW epoch, NEW k, NEW l,
           QuorumSigned(epoch, k), QuorumSigned(epoch, l)
    PROVE  k = l
<1>1. PICK Q \in SUBSET Guardian :
        Cardinality(Q) >= Required /\ \A g \in Q : Signed(g, epoch, k)
  BY DEF QuorumSigned
<1>2. PICK R \in SUBSET Guardian :
        Cardinality(R) >= Required /\ \A g \in R : Signed(g, epoch, l)
  BY DEF QuorumSigned
<1>3. /\ Cardinality(Q) \in Nat /\ Cardinality(R) \in Nat
      /\ Cardinality(Guardian) \in Nat /\ Required \in Nat
      /\ 2 * Required > Cardinality(Guardian)
  BY QuorumsIntersect, FS_CardinalityType, FS_Subset
<1>4. Cardinality(Q) + Cardinality(R) > Cardinality(Guardian)
  BY <1>1, <1>2, <1>3
<1>5. PICK g \in Guardian : g \in Q /\ g \in R
  BY <1>4, QuorumsIntersect, FS_MajoritiesIntersect
<1>6. Signed(g, epoch, k) /\ Signed(g, epoch, l)
  BY <1>1, <1>2, <1>5
<1>. QED  BY <1>6 DEF Signed, GuardiansOK, RowOK

\* Two leases of one epoch have quorums behind them that share a guardian, which
\* signed the epoch for one key.
LEMMA TInvOneWriter == TInv => OneWriterPerEpoch
<1>. SUFFICES ASSUME TInv, NEW d \in Device, NEW e \in Device,
                     lease[d].epoch = lease[e].epoch, lease[d] # NoLease
              PROVE  d = e
  BY DEF OneWriterPerEpoch
<1>1. Backed(d) /\ Backed(e) /\ GuardiansOK
  BY DEF TInv, DriversOK
<1>2. CASE lease[d].epoch >= 2
  <2>1. /\ QuorumSigned(lease[d].epoch, lease[d].key)
        /\ QuorumSigned(lease[d].epoch, lease[e].key)
        /\ lease[d].key[1] = d /\ lease[e].key[1] = e
    BY <1>1, <1>2 DEF Backed
  <2>2. lease[d].key = lease[e].key
    BY <1>1, <2>1, QuorumsAgree
  <2>. QED  BY <2>1, <2>2
<1>3. CASE ~(lease[d].epoch >= 2)
  BY <1>1, <1>3 DEF Backed
<1>. QED  BY <1>2, <1>3

\* The certificates of a bundle read from guardians have different signers,
\* since a guardian signs an epoch once: the bundle of a quorum is a quorum's.
LEMMA BundleIsSigned ==
    ASSUME TInv, NEW d \in Device, NEW bundle \in QuorumBundles(pool[d]),
           NEW epoch, NEW key,
           \A c \in bundle : c.epoch = epoch /\ c.key = key
    PROVE  QuorumSigned(epoch, key)
<1>. DEFINE Q == {c.by : c \in bundle}
            f == [g \in Q |-> CHOOSE c \in bundle : c.by = g]
<1>1. bundle \subseteq Certificates(pool[d]) /\ Cardinality(bundle) >= Required
  BY BundlesAreDated DEF TInv, PoolsOK, QuorumBundles
<1>2. \A c \in bundle : c.by \in Guardian /\ c \in guardian[c.by].grants
  <2>. SUFFICES ASSUME NEW c \in bundle
                PROVE  c.by \in Guardian /\ c \in guardian[c.by].grants
    OBVIOUS
  <2>1. PICK g \in DOMAIN pool[d] : c \in pool[d][g].grants
    BY <1>1 DEF Certificates
  <2>2. g \in Guardian /\ c \in guardian[g].grants
    BY <2>1 DEF TInv, PoolsOK, PoolOK
  <2>3. c.by = g
    BY <2>2 DEF TInv, GuardiansOK, RowOK
  <2>. QED  BY <2>2, <2>3
<1>3. \A b, c \in bundle : b.by = c.by => b = c
  BY <1>2 DEF TInv, GuardiansOK, RowOK
<1>4. Q \subseteq Guardian /\ IsFiniteSet(Q)
  BY <1>2, QuorumsIntersect, FS_Subset
<1>5. \A g \in Q : f[g] \in bundle /\ f[g].by = g
  OBVIOUS
<1>6. f \in [Q -> bundle]
  BY <1>5
<1>7. \A c \in bundle : c.by \in Q /\ f[c.by] = c
  BY <1>3, <1>5
<1>8. \A g, h \in Q : f[g] = f[h] => g = h
  BY <1>5
<1>. HIDE DEF f, Q
<1>9. f \in Bijection(Q, bundle)
  BY <1>6, <1>7, <1>8, Fun_IsBij
<1>10. Cardinality(bundle) = Cardinality(Q)
  BY <1>4, <1>9, FS_Bijection, Fun_ExistsBij
<1>11. \A g \in Q : Signed(g, epoch, key)
  BY <1>2, <1>5 DEF Signed
<1>. QED  BY <1>1, <1>4, <1>10, <1>11 DEF QuorumSigned

\* Two devices never install the lease of one epoch, for any guardian set whose
\* quorums intersect and however many devices restore at once: a guardian signs
\* an epoch for one key (acquireEpoch and syncEpoch of guardian.ts), a device
\* installs only what a quorum signed for a key it generated (acquireEpoch and
\* install of restore-driver.ts).
THEOREM OneWriterPerEpochAlways == Spec => []OneWriterPerEpoch
<1>1. Init => TInv
  BY InitTInv
<1>2. TInv /\ [Next]_vars => TInv'
  BY NextTInv, BundleIsSigned DEF BundlesSigned
<1>3. TInv => OneWriterPerEpoch
  BY TInvOneWriter
<1>. QED  BY <1>1, <1>2, <1>3, PTL DEF Spec

=============================================================================
