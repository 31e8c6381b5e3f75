--------------------------- MODULE StateDBProofs ----------------------------
(***************************************************************************)
(* Proofs about what StateDB keeps, the recovery catalogue with its vault  *)
(* (VaultCatalog) and the audit log (AuditChain). The two have no variable *)
(* in common.                                                              *)
(*                                                                         *)
(* The catalogue: type correctness; that no interleaving of backups,       *)
(* retention runs, holds and failures deletes a catalogued snapshot inside *)
(* the immutability window its backup granted, and all of them implement   *)
(* ImmutablePoints; that what the catalogue offers is in the repository,   *)
(* down to the latest point of each workload; and that a job's status      *)
(* tells where its copies are. The log: what the walk over the chain       *)
(* computes, that no append breaks a link, no stored hash is rewritten,    *)
(* and what verification reports.                                          *)
(***************************************************************************)
EXTENDS VaultCatalog, AuditChain, WellFoundedInduction, TLAPS

USE DEF faults, store, catalogue

(* The initial state is well typed. *)
LEMMA InitType == Init => TypeOK
  BY NamesAssumption
  DEF Init, TypeOK, StoreOK, CatalogueOK, WorkersOK, IdleWorker, IdleRetention,
      IdleOperator, Job, Worker, Maintenance, Operator, JobIds, TryPcs

(* finish_job leaves the worker its snapshot and gives it the replicas. *)
LEMMA WorkerUpdate ==
  ASSUME NEW b \in Worker
  PROVE  LET c == [b EXCEPT !.pc = "replicate", !.left = Replicas]
         IN  c \in Worker /\ c.snap = b.snap /\ c.pc = "replicate"
  BY DEF Worker, TryPcs

(* A backup step keeps the workers' records well typed. *)
LEMMA BackupWorkers ==
  ASSUME WorkersOK, now \in Nat, NEW w \in Workers,
         BackupStep(w) \/ BackupCrash(w)
  PROVE  WorkersOK'
<1> USE NamesAssumption DEF WorkersOK, Worker, TryPcs
<1>1. CASE EnterBackup(w)
  BY <1>1 DEF EnterBackup, Goto
<1>2. CASE LeaveBackup(w) \/ BackupCrash(w)
  BY <1>2 DEF LeaveBackup, BackupCrash, IdleWorker
<1>3. ASSUME NEW vm \in VMs, NEW j \in JobIds, StartJob(w, vm, j)
      PROVE  WorkersOK'
  BY <1>3 DEF StartJob, IdleWorker
<1>4. ASSUME NEW s \in Snaps, ResticBackup(w, s) \/ ResticBackupOrphans(w, s)
      PROVE  WorkersOK'
  BY <1>4 DEF ResticBackup, ResticBackupOrphans, Goto
<1>5. ASSUME NEW b \in BOOLEAN, NEW d \in PolicyDays \cup {PreserveSuspicious},
             Catalogue(w, b, d)
      PROVE  WorkersOK'
  BY <1>5 DEF Catalogue, Goto
<1>6. CASE RecordPrimaryCopy(w)
  BY <1>6 DEF RecordPrimaryCopy, Goto
<1>7. CASE FinishJob(w)
  <2>1. bk' = [bk EXCEPT ![w] = [bk[w] EXCEPT !.pc = "replicate",
                                              !.left = Replicas]]
    BY <1>7 DEF FinishJob
  <2>2. /\ [bk[w] EXCEPT !.pc = "replicate", !.left = Replicas] \in Worker
        /\ [bk[w] EXCEPT !.pc = "replicate", !.left = Replicas].snap
             = bk[w].snap
    <3> HIDE DEF Worker
    <3> QED
      BY WorkerUpdate
  <2> QED
    BY <1>7, <2>1, <2>2 DEF FinishJob
<1>8. ASSUME NEW r \in Replicas, NEW stored \in BOOLEAN, NEW ok \in BOOLEAN,
             Replicate(w, r, stored, ok)
      PROVE  WorkersOK'
  BY <1>8 DEF Replicate
<1>9. CASE ReplicationDone(w)
  BY <1>9 DEF ReplicationDone, Goto, NextVM, IdleWorker
<1>10. CASE RestoreForVerify(w)
  BY <1>10 DEF RestoreForVerify, Goto
<1>11. CASE Raise(w)
  BY <1>11 DEF Raise, Goto
<1>12. ASSUME NEW ok \in BOOLEAN, MarkVerified(w, ok)
       PROVE  WorkersOK'
  BY <1>12 DEF MarkVerified, NextVM, IdleWorker
<1>13. CASE BackupFailed(w)
  BY <1>13 DEF BackupFailed, NextVM, IdleWorker
<1> HIDE DEF WorkersOK
<1> QED
  BY <1>1, <1>2, <1>3, <1>4, <1>5, <1>6, <1>7, <1>8, <1>9, <1>10, <1>11, <1>12,
     <1>13
  DEF BackupStep

(* A backup step keeps the tables and the stores well typed. *)
LEMMA BackupTables ==
  ASSUME TypeOK, NEW w \in Workers, BackupStep(w) \/ BackupCrash(w)
  PROVE  StoreOK' /\ CatalogueOK' /\ UNCHANGED <<rt, hd>>
<1>w. /\ bk[w].t0 \in Nat /\ bk[w].vm \in VMs \cup {Nil}
      /\ bk[w].snap \in Snaps \cup {Nil}
      /\ bk[w].pc \in TryPcs \ {"export"} => bk[w].snap \in Snaps
  BY DEF TypeOK, WorkersOK, Worker
<1>d. \A d \in PolicyDays \cup {PreserveSuspicious} : bk[w].t0 + d \in Nat
  <2>1. \A d \in PolicyDays \cup {PreserveSuspicious} : d \in Nat
    BY DaysAssumption
  <2> QED
    BY <1>w, <2>1
<1> USE NamesAssumption DEF TypeOK, StoreOK, CatalogueOK
<1>1. CASE EnterBackup(w) \/ LeaveBackup(w) \/ BackupCrash(w)
  BY <1>1 DEF EnterBackup, LeaveBackup, BackupCrash, ReleasedBy
<1>2. ASSUME NEW vm \in VMs, NEW j \in JobIds, StartJob(w, vm, j)
      PROVE  StoreOK' /\ CatalogueOK' /\ UNCHANGED <<rt, hd>>
  BY <1>2 DEF StartJob, Job
<1>3. ASSUME NEW s \in Snaps, ResticBackup(w, s) \/ ResticBackupOrphans(w, s)
      PROVE  StoreOK' /\ CatalogueOK' /\ UNCHANGED <<rt, hd>>
  BY <1>3, <1>w DEF ResticBackup, ResticBackupOrphans, NewSnapshot
<1>4. ASSUME NEW b \in BOOLEAN, NEW d \in PolicyDays \cup {PreserveSuspicious},
             Catalogue(w, b, d)
      PROVE  StoreOK' /\ CatalogueOK' /\ UNCHANGED <<rt, hd>>
  <2>1. bk[w].t0 + d \in Nat
    BY <1>d, <1>4
  <2>2. /\ row' = [row EXCEPT ![bk[w].snap] = "live"]
        /\ created' = [created EXCEPT ![bk[w].snap] = bk[w].t0]
        /\ until' = [until EXCEPT ![bk[w].snap] = bk[w].t0 + d]
        /\ granted' = [granted EXCEPT ![bk[w].snap] = bk[w].t0 + d]
        /\ verified' = verified \ {bk[w].snap}
        /\ UNCHANGED <<now, store, copies, replica, jobs, lock, rt, hd, faults>>
    BY <1>4 DEF Catalogue
  <2> QED
    BY <1>w, <2>1, <2>2
<1>5. CASE RecordPrimaryCopy(w)
  BY <1>5, <1>w DEF RecordPrimaryCopy, Targets, TryPcs
<1>6. CASE FinishJob(w) \/ BackupFailed(w)
  BY <1>6, <1>w DEF FinishJob, BackupFailed, Job
<1>7. ASSUME NEW r \in Replicas, NEW stored \in BOOLEAN, NEW ok \in BOOLEAN,
             Replicate(w, r, stored, ok)
      PROVE  StoreOK' /\ CatalogueOK' /\ UNCHANGED <<rt, hd>>
  BY <1>7, <1>w DEF Replicate, Targets, TryPcs
<1>8. CASE ReplicationDone(w) \/ RestoreForVerify(w) \/ Raise(w)
  BY <1>8 DEF ReplicationDone, RestoreForVerify, Raise
<1>9. ASSUME NEW ok \in BOOLEAN, MarkVerified(w, ok)
      PROVE  StoreOK' /\ CatalogueOK' /\ UNCHANGED <<rt, hd>>
  BY <1>9, <1>w DEF MarkVerified, TryPcs
<1> HIDE DEF TypeOK, StoreOK, CatalogueOK
<1> QED
  BY <1>1, <1>2, <1>3, <1>4, <1>5, <1>6, <1>7, <1>8, <1>9 DEF BackupStep

(* A backup step keeps the whole state well typed. *)
LEMMA BackupType ==
  ASSUME TypeOK, NEW w \in Workers, BackupStep(w) \/ BackupCrash(w)
  PROVE  TypeOK'
  BY BackupWorkers, BackupTables DEF TypeOK, StoreOK

(* A step of the maintenance job keeps the type. *)
LEMMA RetentionType ==
  ASSUME TypeOK, RetentionStep \/ RetentionFails
  PROVE  TypeOK'
<1> USE NamesAssumption
    DEF TypeOK, StoreOK, CatalogueOK, WorkersOK, Maintenance, IdleRetention,
        ReleasedBy
<1>1. CASE EnterRetention
  BY <1>1 DEF EnterRetention
<1>2. CASE ReadProtected
  BY <1>2 DEF ReadProtected, protected_snapshot_ids
<1>3. ASSUME NEW listed \in SUBSET vault, Preview(listed)
      PROVE  TypeOK'
  BY <1>3 DEF Preview
<1>4. CASE Forget
  BY <1>4 DEF Forget
<1>5. CASE MarkExpired
  BY <1>5 DEF MarkExpired
<1>6. ASSUME NEW part \in SUBSET rt.remove, ForgetFails(part)
      PROVE  TypeOK'
  BY <1>6 DEF ForgetFails
<1>7. CASE RetentionAborts
  BY <1>7 DEF RetentionAborts
<1> HIDE DEF TypeOK
<1> QED
  BY <1>1, <1>2, <1>3, <1>4, <1>5, <1>6, <1>7 DEF RetentionStep, RetentionFails

(* A step of an operator keeps the type. *)
LEMMA HoldType ==
  ASSUME TypeOK, NEW h \in Holders, HoldStep(h)
  PROVE  TypeOK'
<1> USE NamesAssumption, DaysAssumption
    DEF TypeOK, StoreOK, CatalogueOK, WorkersOK, Operator
<1>1. ASSUME NEW s \in Snaps, NEW d \in HoldDays, ReadForHold(h, s, d)
      PROVE  TypeOK'
  BY <1>1 DEF ReadForHold
<1>2. CASE WriteHold(h)
  BY <1>2 DEF WriteHold, IdleOperator
<1> HIDE DEF TypeOK
<1> QED
  BY <1>1, <1>2 DEF HoldStep

(* Every step keeps the state well typed. *)
LEMMA NextType == TypeOK /\ [Next]_vars => TypeOK'
<1> SUFFICES ASSUME TypeOK, [Next]_vars PROVE TypeOK'
  OBVIOUS
<1>1. CASE Tick
  BY <1>1 DEF Tick, TypeOK, StoreOK, CatalogueOK, WorkersOK
<1>2. CASE UNCHANGED vars
  BY <1>2 DEF vars, TypeOK, StoreOK, CatalogueOK, WorkersOK
<1> QED
  BY <1>1, <1>2, BackupType, RetentionType, HoldType DEF Next

(* Every reachable state is well typed. *)
THEOREM TypeCorrect == Spec => []TypeOK
  BY InitType, NextType, PTL DEF Spec

-----------------------------------------------------------------------------
(* The inductive invariant. *)

(* The inductive invariant holds before anything was backed up. *)
LEMMA InitWindow == Init => WindowInv
  BY NamesAssumption
  DEF Init, WindowInv, ClockInv, PendingInv, Pending, FloorKept, HoldInv,
      ExpiredPastWindow, PreviewInv, RemoveInv, IdleWorker, IdleRetention,
      IdleOperator

(* What the invariant says is about the clock, the store, the windows and  *)
(* the workers that have yet to catalogue a snapshot: a step that leaves   *)
(* those alone, or takes a worker out of that phase, keeps it.             *)
LEMMA Frame ==
  ASSUME WindowInv,
         UNCHANGED <<now, used, vault, stamp, row, until, granted, rt, hd>>,
         \A v \in Workers : bk'[v].pc \in {"export", "stored"} =>
            bk'[v].pc = bk[v].pc /\ bk'[v].t0 = bk[v].t0 /\ bk'[v].snap = bk[v].snap
  PROVE  WindowInv'
<1>1. ClockInv' /\ FloorKept' /\ ExpiredPastWindow' /\ HoldInv' /\ PreviewInv'
  BY DEF WindowInv, ClockInv, FloorKept, ExpiredPastWindow, HoldInv, PreviewInv
<1>2. \A v \in Workers, s \in Snaps : Pending(v, s)' => Pending(v, s)
  BY DEF Pending
<1>3. PendingInv'
  BY <1>2 DEF WindowInv, PendingInv, Pending
<1>4. RemoveInv'
  BY DEF WindowInv, RemoveInv, Pending
<1> QED
  BY <1>1, <1>3, <1>4 DEF WindowInv

(* StartJob: the worker enters the phase that ends with a row. *)
LEMMA StartJobWindow ==
  ASSUME TypeOK, WindowInv, NEW w \in Workers, NEW vm \in VMs,
         NEW j \in JobIds, StartJob(w, vm, j)
  PROVE  WindowInv'
<1>1. /\ UNCHANGED <<now, used, vault, stamp, row, until, granted, rt, hd>>
      /\ \A v \in Workers : v # w => bk'[v] = bk[v]
      /\ bk'[w].pc = "export" /\ bk'[w].t0 = now
  BY DEF StartJob, TypeOK, WorkersOK, IdleWorker
<1>2. ClockInv' /\ FloorKept' /\ ExpiredPastWindow' /\ HoldInv' /\ PreviewInv'
  BY <1>1
  DEF WindowInv, ClockInv, FloorKept, ExpiredPastWindow, HoldInv, PreviewInv
<1>3. \A v \in Workers, s \in Snaps : Pending(v, s)' => Pending(v, s) /\ v # w
  BY <1>1 DEF Pending
<1>4. now \in Nat /\ Span \in Nat
  BY SpanAssumption DEF TypeOK, StoreOK
<1>5. \A v \in Workers : bk'[v].pc \in {"export", "stored"} =>
         bk'[v].t0 <= now' /\ now' <= bk'[v].t0 + Span
  BY <1>1, <1>4 DEF WindowInv, PendingInv
<1>6. PendingInv'
  BY <1>1, <1>3, <1>5 DEF WindowInv, PendingInv
<1>7. RemoveInv'
  BY <1>1, <1>3 DEF WindowInv, RemoveInv, Pending
<1> QED
  BY <1>2, <1>6, <1>7 DEF WindowInv

(* restic issues a fresh id: no row, no other worker, no removal list has it. *)
LEMMA ResticWindow ==
  ASSUME TypeOK, WindowInv, NEW w \in Workers, NEW s \in Snaps,
         ResticBackup(w, s) \/ ResticBackupOrphans(w, s)
  PROVE  WindowInv'
<1>1. /\ UNCHANGED <<now, row, until, granted, rt, hd>>
      /\ s \notin used /\ used' = used \cup {s} /\ vault' = vault \cup {s}
      /\ stamp' = [stamp EXCEPT ![s] = now]
      /\ bk[w].pc = "export"
      /\ \A v \in Workers : v # w => bk'[v] = bk[v]
      /\ bk'[w].t0 = bk[w].t0
      /\ (bk'[w].pc = "stored" /\ bk'[w].snap = s) \/ bk'[w].pc = "fail"
  BY DEF ResticBackup, ResticBackupOrphans, NewSnapshot, Goto, TypeOK,
         WorkersOK, Worker
<1>2. /\ now \in Nat /\ Span \in Nat /\ KeepWithin \in Nat
      /\ stamp \in [Snaps -> Nat] /\ used \subseteq Snaps /\ vault \subseteq used
      /\ row[s] = "none"
  BY <1>1, SpanAssumption, DaysAssumption
  DEF TypeOK, StoreOK, CatalogueOK, WindowInv, ClockInv
<1>3. ClockInv'
  BY <1>1, <1>2 DEF WindowInv, ClockInv
<1>4. FloorKept' /\ ExpiredPastWindow' /\ HoldInv'
  BY <1>1 DEF WindowInv, FloorKept, ExpiredPastWindow, HoldInv
<1>5. PreviewInv'
  BY <1>1, <1>2 DEF WindowInv, PreviewInv
<1>6. \A v \in Workers, x \in Snaps :
        Pending(v, x)' => (Pending(v, x) /\ x # s) \/ (v = w /\ x = s)
  <2>1. \A v \in Workers, x \in Snaps : Pending(v, x) => x # s
    BY <1>1, <1>2 DEF WindowInv, PendingInv
  <2> QED
    BY <1>1, <2>1 DEF Pending
<1>7. PendingInv'
  <2>1. \A v \in Workers : bk'[v].pc \in {"export", "stored"} =>
           bk'[v].t0 <= now' /\ now' <= bk'[v].t0 + Span
    BY <1>1 DEF WindowInv, PendingInv
  <2>2. \A v \in Workers, x \in Snaps : Pending(v, x)' =>
           x \in vault' /\ row'[x] = "none" /\ bk'[v].t0 <= stamp'[x]
    <3> SUFFICES ASSUME NEW v \in Workers, NEW x \in Snaps, Pending(v, x)'
                 PROVE  x \in vault' /\ row'[x] = "none" /\ bk'[v].t0 <= stamp'[x]
      OBVIOUS
    <3>1. CASE v = w /\ x = s
      BY <3>1, <1>1, <1>2 DEF WindowInv, PendingInv
    <3>2. CASE Pending(v, x) /\ x # s /\ v # w
      BY <3>2, <1>1, <1>2 DEF WindowInv, PendingInv
    <3>3. CASE Pending(v, x) /\ v = w
      BY <3>3, <1>1 DEF Pending
    <3> QED
      BY <3>1, <3>2, <3>3, <1>6
  <2>3. \A v, u \in Workers, x \in Snaps :
          Pending(v, x)' /\ Pending(u, x)' => v = u
    BY <1>6 DEF WindowInv, PendingInv
  <2> QED
    BY <2>1, <2>2, <2>3 DEF PendingInv
<1>8. RemoveInv'
  <2>1. TypeOK
    OBVIOUS
  <2>2. rt.remove \subseteq Snaps
    BY DEF TypeOK, Maintenance
  <2> QED
    BY <1>1, <1>2, <1>6, <2>2 DEF WindowInv, RemoveInv
<1> QED
  BY <1>3, <1>4, <1>5, <1>7, <1>8 DEF WindowInv

(* Cataloguing: the window starts no later than the snapshot's own time,   *)
(* and a retention preview that missed the row finds the snapshot young.   *)
LEMMA CatalogueWindow ==
  ASSUME TypeOK, WindowInv, NEW w \in Workers, NEW b \in BOOLEAN,
         NEW d \in PolicyDays \cup {PreserveSuspicious}, Catalogue(w, b, d)
  PROVE  WindowInv'
<1> DEFINE s == bk[w].snap
<1>1. /\ bk[w].pc = "stored" /\ s \in Snaps
      /\ UNCHANGED <<now, used, vault, stamp, rt, hd>>
      /\ row' = [row EXCEPT ![s] = "live"]
      /\ until' = [until EXCEPT ![s] = bk[w].t0 + d]
      /\ granted' = [granted EXCEPT ![s] = bk[w].t0 + d]
  BY DEF Catalogue, TypeOK, WorkersOK, TryPcs
<1>2. /\ \A v \in Workers : v # w => bk'[v] = bk[v]
      /\ bk'[w].pc = "catalogued"
  BY DEF Catalogue, Goto, TypeOK, WorkersOK, Worker
<1>3. /\ now \in Nat /\ Span \in Nat /\ bk[w].t0 \in Nat /\ d \in Nat
      /\ stamp \in [Snaps -> Nat] /\ granted \in [Snaps -> Nat]
      /\ until \in [Snaps -> Nat]
      /\ row \in [Snaps -> {"none", "live", "expired"}]
      /\ rt.remove \subseteq Snaps /\ rt.asOf \in Nat /\ vault \subseteq Snaps
  BY SpanAssumption, DaysAssumption
  DEF TypeOK, StoreOK, CatalogueOK, WorkersOK, Worker, Maintenance
<1>4. /\ Pending(w, s) /\ s \in used /\ row[s] = "none"
      /\ bk[w].t0 <= stamp[s] /\ now <= bk[w].t0 + Span
  BY <1>1 DEF WindowInv, PendingInv, Pending, TypeOK, StoreOK
<1> HIDE DEF s
<1>5. ClockInv' /\ FloorKept' /\ ExpiredPastWindow'
  BY <1>1, <1>3, <1>4
  DEF WindowInv, ClockInv, FloorKept, ExpiredPastWindow
<1>6. HoldInv'
  BY <1>1, <1>3, <1>4 DEF WindowInv, HoldInv
<1>7. PreviewInv'
  BY <1>1, <1>3, <1>4 DEF WindowInv, PreviewInv
<1>8. \A v \in Workers, x \in Snaps :
        Pending(v, x)' => Pending(v, x) /\ v # w /\ x # s
  BY <1>2, <1>4 DEF WindowInv, PendingInv, Pending
<1>9. PendingInv'
  BY <1>1, <1>2, <1>3, <1>8 DEF WindowInv, PendingInv
<1>10. RemoveInv'
  BY <1>1, <1>3, <1>4, <1>8 DEF WindowInv, RemoveInv
<1> QED
  BY <1>5, <1>6, <1>7, <1>9, <1>10 DEF WindowInv

(* Every step of a backup worker keeps the inductive invariant. *)
LEMMA BackupWindow ==
  ASSUME TypeOK, WindowInv, NEW w \in Workers, BackupStep(w) \/ BackupCrash(w)
  PROVE  WindowInv'
<1> DEFINE Quiet ==
      /\ UNCHANGED <<now, used, vault, stamp, row, until, granted, rt, hd>>
      /\ \A v \in Workers : bk'[v].pc \in {"export", "stored"} =>
            bk'[v].pc = bk[v].pc /\ bk'[v].t0 = bk[v].t0 /\ bk'[v].snap = bk[v].snap
<1> USE DEF TypeOK, WorkersOK, Worker
<1>1. CASE EnterBackup(w) \/ LeaveBackup(w) \/ BackupCrash(w)
  <2> Quiet
    BY <1>1 DEF EnterBackup, LeaveBackup, BackupCrash, Goto, IdleWorker
  <2> QED
    BY Frame
<1>2. CASE RecordPrimaryCopy(w) \/ FinishJob(w)
  <2> Quiet
    BY <1>2 DEF RecordPrimaryCopy, FinishJob, Goto
  <2> QED
    BY Frame
<1>3. ASSUME NEW r \in Replicas, NEW stored \in BOOLEAN, NEW ok \in BOOLEAN,
             Replicate(w, r, stored, ok)
      PROVE  WindowInv'
  <2> Quiet
    BY <1>3 DEF Replicate
  <2> QED
    BY Frame
<1>4. CASE ReplicationDone(w) \/ RestoreForVerify(w) \/ Raise(w)
  <2> Quiet
    BY <1>4
    DEF ReplicationDone, RestoreForVerify, Raise, Goto, NextVM, IdleWorker
  <2> QED
    BY Frame
<1>5. CASE BackupFailed(w) \/ \E ok \in BOOLEAN : MarkVerified(w, ok)
  <2> Quiet
    BY <1>5 DEF BackupFailed, MarkVerified, NextVM, IdleWorker
  <2> QED
    BY Frame
<1> HIDE DEF TypeOK
<1> QED
  BY <1>1, <1>2, <1>3, <1>4, <1>5, StartJobWindow, ResticWindow, CatalogueWindow
  DEF BackupStep

(* What restic may list is older than keep-within, so it has a row that    *)
(* was read as unprotected, or has no row and nobody who will write one.   *)
LEMMA PreviewWindow ==
  ASSUME TypeOK, WindowInv, NEW listed \in SUBSET vault, Preview(listed)
  PROVE  WindowInv'
<1>1. /\ UNCHANGED <<now, used, vault, stamp, row, until, granted, bk, hd>>
      /\ rt.pc = "preview" /\ rt'.remove = listed \ rt.protected
      /\ rt'.pc \in {"forget", "mark"}
  BY DEF Preview, IdleRetention
<1>2. /\ now \in Nat /\ Span \in Nat /\ KeepWithin \in Nat
      /\ stamp \in [Snaps -> Nat] /\ granted \in [Snaps -> Nat]
      /\ rt.asOf \in Nat /\ vault \subseteq used /\ used \subseteq Snaps
      /\ \A w \in Workers : bk[w].t0 \in Nat
      /\ 2 * Span < KeepWithin
  BY SpanAssumption, DaysAssumption
  DEF TypeOK, StoreOK, CatalogueOK, WorkersOK, Worker, Maintenance
<1>3. ClockInv' /\ PendingInv' /\ FloorKept' /\ HoldInv' /\ ExpiredPastWindow'
  BY <1>1
  DEF WindowInv, ClockInv, PendingInv, Pending, FloorKept, HoldInv,
      ExpiredPastWindow
<1>4. PreviewInv'
  BY <1>1 DEF PreviewInv
<1>5. ASSUME NEW s \in listed \ rt.protected
      PROVE  /\ s \in used
             /\ row[s] = "none" => \A w \in Workers : ~Pending(w, s)
             /\ row[s] # "none" => granted[s] <= now
  <2>1. s \in vault /\ s \in used /\ s \in Snaps
    BY <1>2
  <2>2. PICK x \in vault : stamp[x] >= stamp[s] + KeepWithin
    BY DEF Preview, MayForget
  <2>3. stamp[s] + KeepWithin <= now
    BY <1>2, <2>1, <2>2 DEF WindowInv, ClockInv
  <2>4. ASSUME NEW w \in Workers, Pending(w, s) PROVE FALSE
    BY <1>2, <2>1, <2>3, <2>4 DEF WindowInv, PendingInv, Pending
  <2>5. rt.asOf <= now /\ now <= rt.asOf + Span
    BY <1>1 DEF WindowInv, PreviewInv
  <2>6. ~(rt.asOf <= stamp[s] + Span)
    BY <1>2, <2>1, <2>3, <2>5
  <2>7. row[s] # "none" => granted[s] <= rt.asOf
    BY <1>1, <2>1, <2>6 DEF WindowInv, PreviewInv
  <2> QED
    BY <1>2, <2>1, <2>4, <2>5, <2>7
<1>6. RemoveInv'
  BY <1>1, <1>5 DEF RemoveInv, Pending
<1> QED
  BY <1>3, <1>4, <1>6 DEF WindowInv

(* A snapshot that leaves the vault is not one that a worker will still    *)
(* catalogue.                                                              *)
LEMMA ShrinkWindow ==
  ASSUME TypeOK, WindowInv, rt.pc = "forget", NEW part \in SUBSET rt.remove,
         vault' = vault \ part,
         UNCHANGED <<now, used, stamp, row, until, granted, bk, hd>>,
         \/ rt' = IdleRetention
         \/ rt'.pc = "mark" /\ rt'.remove = rt.remove
  PROVE  WindowInv'
<1>1. ClockInv' /\ FloorKept' /\ HoldInv' /\ ExpiredPastWindow'
  BY DEF WindowInv, ClockInv, FloorKept, HoldInv, ExpiredPastWindow
<1>2. PreviewInv'
  BY DEF PreviewInv, IdleRetention
<1>3. ASSUME NEW w \in Workers, NEW s \in Snaps, Pending(w, s)
      PROVE  s \notin part
  BY <1>3 DEF WindowInv, PendingInv, RemoveInv
<1>4. PendingInv'
  BY <1>3 DEF WindowInv, PendingInv, Pending
<1>5. RemoveInv'
  BY DEF WindowInv, RemoveInv, Pending, IdleRetention
<1> QED
  BY <1>1, <1>2, <1>4, <1>5 DEF WindowInv

(* Every step of the maintenance job keeps the inductive invariant. *)
LEMMA RetentionWindow ==
  ASSUME TypeOK, WindowInv, RetentionStep \/ RetentionFails
  PROVE  WindowInv'
<1>1. CASE EnterRetention \/ RetentionAborts
  BY <1>1
  DEF EnterRetention, RetentionAborts, IdleRetention, WindowInv, ClockInv,
      PendingInv, Pending, FloorKept, HoldInv, ExpiredPastWindow, PreviewInv,
      RemoveInv
<1>2. CASE ReadProtected
  <2>1. /\ UNCHANGED <<now, used, vault, stamp, row, until, granted, bk, hd>>
        /\ rt'.pc = "preview" /\ rt'.asOf = now
        /\ rt'.protected = {s \in Snaps : row[s] = "live" /\ until[s] > now}
    BY <1>2 DEF ReadProtected, protected_snapshot_ids, TypeOK, Maintenance
  <2>2. /\ now \in Nat /\ Span \in Nat /\ until \in [Snaps -> Nat]
        /\ granted \in [Snaps -> Nat] /\ stamp \in [Snaps -> Nat]
        /\ row \in [Snaps -> {"none", "live", "expired"}] /\ vault \subseteq Snaps
    BY SpanAssumption DEF TypeOK, StoreOK, CatalogueOK
  <2>3. ASSUME NEW s \in vault, s \notin rt'.protected, row[s] # "none"
        PROVE  granted[s] <= now
    BY <2>1, <2>2, <2>3 DEF WindowInv, FloorKept, ExpiredPastWindow
  <2>4. PreviewInv'
    BY <2>1, <2>2, <2>3 DEF PreviewInv
  <2> QED
    BY <2>1, <2>4
    DEF WindowInv, ClockInv, PendingInv, Pending, FloorKept, HoldInv,
        ExpiredPastWindow, RemoveInv
<1>3. CASE Forget
  BY <1>3, ShrinkWindow DEF Forget, TypeOK, Maintenance
<1>4. ASSUME NEW part \in SUBSET rt.remove, ForgetFails(part)
      PROVE  WindowInv'
  BY <1>4, ShrinkWindow DEF ForgetFails
<1>5. CASE MarkExpired
  <2>1. /\ UNCHANGED <<now, used, vault, stamp, until, granted, bk, hd>>
        /\ rt.pc = "mark" /\ rt'.pc = "idle"
        /\ row' = [s \in Snaps |-> IF s \in rt.remove /\ row[s] # "none"
                                       THEN "expired" ELSE row[s]]
    BY <1>5 DEF MarkExpired, IdleRetention
  <2>2. row \in [Snaps -> {"none", "live", "expired"}]
    BY DEF TypeOK, CatalogueOK
  <2>3. \A s \in Snaps : row'[s] = "none" <=> row[s] = "none"
    BY <2>1, <2>2
  <2>4. ClockInv' /\ FloorKept' /\ HoldInv' /\ PreviewInv' /\ RemoveInv'
    BY <2>1, <2>3
    DEF WindowInv, ClockInv, FloorKept, HoldInv, PreviewInv, RemoveInv
  <2>5. PendingInv'
    BY <2>1, <2>3 DEF WindowInv, PendingInv, Pending
  <2>6. ExpiredPastWindow'
    BY <2>1, <2>2 DEF WindowInv, ExpiredPastWindow, RemoveInv
  <2> QED
    BY <2>4, <2>5, <2>6 DEF WindowInv
<1> QED
  BY <1>1, <1>2, <1>3, <1>4, <1>5, PreviewWindow
  DEF RetentionStep, RetentionFails

(* max() is taken with a value that was at least the granted window. *)
LEMMA HoldWindow ==
  ASSUME TypeOK, WindowInv, NEW h \in Holders, HoldStep(h)
  PROVE  WindowInv'
<1>t. /\ until \in [Snaps -> Nat] /\ granted \in [Snaps -> Nat]
      /\ hd \in [Holders -> Operator]
      /\ hd[h].want \in Nat /\ hd[h].current \in Nat
  BY DEF TypeOK, CatalogueOK, Operator
<1>1. ASSUME NEW s \in Snaps, NEW d \in HoldDays, ReadForHold(h, s, d)
      PROVE  WindowInv'
  <2>1. /\ UNCHANGED <<now, used, vault, stamp, row, until, granted, bk, rt>>
        /\ row[s] = "live"
        /\ \A g \in Holders : g # h => hd'[g] = hd[g]
        /\ hd'[h].snap = s /\ hd'[h].current = until[s]
    BY <1>1, <1>t DEF ReadForHold
  <2>2. HoldInv'
    BY <1>t, <2>1 DEF WindowInv, HoldInv, FloorKept
  <2> QED
    BY <2>1, <2>2
    DEF WindowInv, ClockInv, PendingInv, Pending, FloorKept, ExpiredPastWindow,
        PreviewInv, RemoveInv
<1>2. CASE WriteHold(h)
  <2>1. /\ UNCHANGED <<now, used, vault, stamp, row, granted, bk, rt>>
        /\ hd[h].pc = "write"
        /\ until' = [until EXCEPT ![hd[h].snap] =
                       IF hd[h].current >= hd[h].want THEN hd[h].current
                       ELSE hd[h].want]
        /\ \A g \in Holders : g # h => hd'[g] = hd[g]
        /\ hd'[h].pc = "idle"
    BY <1>2, <1>t DEF WriteHold, IdleOperator
  <2>2. hd[h].snap \in Snaps /\ granted[hd[h].snap] <= hd[h].current
    BY <2>1 DEF WindowInv, HoldInv
  <2>3. FloorKept'
    BY <1>t, <2>1, <2>2 DEF WindowInv, FloorKept
  <2>4. HoldInv'
    BY <2>1 DEF WindowInv, HoldInv
  <2> QED
    BY <2>1, <2>3, <2>4
    DEF WindowInv, ClockInv, PendingInv, Pending, ExpiredPastWindow, PreviewInv,
        RemoveInv
<1> QED
  BY <1>1, <1>2 DEF HoldStep

(* A day passes only while the pending windows stay within Span. *)
LEMMA TickWindow ==
  ASSUME TypeOK, WindowInv, Tick
  PROVE  WindowInv'
<1>1. /\ now \in Nat /\ Span \in Nat /\ stamp \in [Snaps -> Nat]
      /\ granted \in [Snaps -> Nat] /\ rt.asOf \in Nat /\ used \subseteq Snaps
      /\ vault \subseteq used /\ rt.remove \subseteq Snaps
      /\ \A w \in Workers : bk[w].t0 \in Nat
  BY SpanAssumption
  DEF TypeOK, StoreOK, CatalogueOK, WorkersOK, Worker, Maintenance
<1>2. ClockInv' /\ FloorKept' /\ HoldInv' /\ ExpiredPastWindow'
  BY <1>1
  DEF Tick, WindowInv, ClockInv, FloorKept, HoldInv, ExpiredPastWindow
<1>3. PendingInv'
  BY <1>1 DEF Tick, WindowInv, PendingInv, Pending
<1>4. PreviewInv'
  BY <1>1 DEF Tick, WindowInv, PreviewInv
<1>5. RemoveInv'
  BY <1>1 DEF Tick, WindowInv, RemoveInv, Pending
<1> QED
  BY <1>2, <1>3, <1>4, <1>5 DEF WindowInv

(* Every step keeps the inductive invariant. *)
LEMMA NextWindow == TypeOK /\ WindowInv /\ [Next]_vars => WindowInv'
<1> SUFFICES ASSUME TypeOK, WindowInv, [Next]_vars PROVE WindowInv'
  OBVIOUS
<1>1. CASE UNCHANGED vars
  BY <1>1, Frame DEF vars
<1> QED
  BY <1>1, BackupWindow, RetentionWindow, HoldWindow, TickWindow DEF Next

(* The invariant holds in every reachable state, for any number of         *)
(* snapshots, workers, operators and faults, and for any retention policy  *)
(* whose keep-within exceeds twice the command timeout.                    *)
THEOREM WindowCorrect == Spec => []WindowInv
  BY InitWindow, NextWindow, TypeCorrect, PTL DEF Spec

(* No interleaving of extend_immutability calls takes a point below the    *)
(* window that _backup_vm granted it.                                      *)
THEOREM FloorCorrect == Spec => []FloorKept
<1>1. WindowInv => FloorKept
  BY DEF WindowInv
<1> QED
  BY <1>1, WindowCorrect, PTL

(* Retention marks a point expired only once its granted window is over.   *)
THEOREM ExpiryCorrect == Spec => []ExpiredPastWindow
<1>1. WindowInv => ExpiredPastWindow
  BY DEF WindowInv
<1> QED
  BY <1>1, WindowCorrect, PTL

(* No step of any process takes a catalogued snapshot out of the vault     *)
(* inside its granted window.                                              *)
THEOREM NoEarlyDeleteCorrect == Spec => NoEarlyDelete
<1>1. TypeOK /\ WindowInv /\ [Next]_vars
        => [\A s \in Snaps : ~EarlyDelete(s)]_vars
  <2> SUFFICES ASSUME TypeOK, WindowInv, Next
               PROVE  \A s \in Snaps : ~EarlyDelete(s)
    OBVIOUS
  <2>1. CASE vault \subseteq vault'
    BY <2>1 DEF EarlyDelete
  <2>2. CASE rt.pc = "forget" /\ vault \ vault' \subseteq rt.remove
    BY <2>2, SMTT(30)
    DEF EarlyDelete, WindowInv, RemoveInv, TypeOK, StoreOK, CatalogueOK
  <2>3. ASSUME NEW w \in Workers, BackupStep(w) \/ BackupCrash(w)
        PROVE  vault \subseteq vault'
    BY <2>3, Zenon
    DEF BackupStep, BackupCrash, EnterBackup, LeaveBackup, StartJob,
        ResticBackup, ResticBackupOrphans, NewSnapshot, Catalogue,
        RecordPrimaryCopy, FinishJob, Replicate, ReplicationDone,
        RestoreForVerify, MarkVerified, Raise, BackupFailed
  <2>4. CASE RetentionStep \/ RetentionFails
    BY <2>1, <2>2, <2>4
    DEF RetentionStep, RetentionFails, EnterRetention, ReadProtected, Preview,
        Forget, MarkExpired, ForgetFails, RetentionAborts
  <2>5. CASE Tick \/ \E h \in Holders : HoldStep(h)
    BY <2>1, <2>5 DEF Tick, HoldStep, ReadForHold, WriteHold
  <2> QED
    BY <2>1, <2>3, <2>4, <2>5 DEF Next
<1> QED
  BY <1>1, TypeCorrect, WindowCorrect, PTL DEF Spec, NoEarlyDelete

-----------------------------------------------------------------------------
(* The catalogue against the vault. *)

(* Every row was written from a snapshot's own job, within the command     *)
(* timeout; what is being removed leaves a snapshot of the same VM that is *)
(* younger by the whole keep-within; and until a maintenance run fails, an *)
(* expired point is gone and what is marked was forgotten.                 *)
RowAge ==
    \A s \in Snaps : row[s] # "none" =>
      created[s] <= stamp[s] /\ stamp[s] <= created[s] + Span

Survivor(s) ==
    \E x \in vault \ rt.remove :
      vmOf[x] = vmOf[s] /\ stamp[s] + KeepWithin <= stamp[x]

SurvivorInv ==
    rt.pc \in {"forget", "mark"} => \A s \in rt.remove : Survivor(s)

GoneInv ==
    aborts = 0 =>
      /\ \A s \in Snaps : row[s] = "expired" => s \notin vault
      /\ rt.pc = "mark" => rt.remove \cap vault = {}

BackedInv == RowAge /\ SurvivorInv /\ GoneInv /\ CatalogBacked

(* The workers that hold a snapshot no job names yet. *)
Holding == {"stored", "catalogued", "copied"}

(* A snapshot belongs to one worker until finish_job names it, and what    *)
(* finish_job reports has its row and its primary copy.                    *)
JobInv ==
    /\ \A w \in Workers :
         /\ bk[w].pc \in Holding => bk[w].snap \in used
         /\ bk[w].pc \in TryPcs \ {"export", "stored"} =>
              row[bk[w].snap] # "none"
         /\ bk[w].pc = "copied" => <<bk[w].snap, "primary">> \in copies
    /\ \A w, v \in Workers :
         {bk[w].pc, bk[v].pc} \subseteq Holding /\ bk[w].snap = bk[v].snap
           => w = v
    /\ \A j \in JobIds : jobs[j].status = "success" =>
         /\ jobs[j].snap \in used
         /\ \A w \in Workers : bk[w].pc \in Holding => bk[w].snap # jobs[j].snap
    /\ \A j \in JobIds : jobs[j].status # "success" => jobs[j].snap = Nil
    /\ JobTruthful

(* A set of natural numbers that is not empty has a least member. *)
LEMMA LeastNumber ==
  ASSUME NEW T \in SUBSET Nat, T # {}
  PROVE  \E a \in T : \A b \in T : ~(b < a)
<1> DEFINE R == {ss \in Nat \X Nat : ss[1] < ss[2]}
<1>1. IsWellFoundedOn(R, Nat)
  BY NatLessThanWellFounded, Zenon DEF OpToRel
<1> HIDE DEF R
<1>2. \E a \in T : \A b \in T : ~(<<b, a>> \in R)
  BY <1>1, WFMin, Zenon
<1> QED
  BY <1>2 DEF R

(* A VM with snapshots has one that none of its others is younger than. *)
LEMMA Youngest ==
  ASSUME TypeOK, ClockInv, NEW s \in vault
  PROVE  \E x \in vault :
           /\ vmOf[x] = vmOf[s]
           /\ \A y \in vault : vmOf[y] = vmOf[s] => stamp[y] <= stamp[x]
<1> DEFINE G == {x \in vault : vmOf[x] = vmOf[s]}
           T == {now - stamp[x] : x \in G}
<1>0. now \in Nat /\ \A x \in G : stamp[x] \in Nat /\ now - stamp[x] \in Nat
  BY DEF TypeOK, StoreOK, ClockInv
<1>1. T \subseteq Nat /\ T # {}
  BY <1>0
<1>2. \E a \in T : \A b \in T : ~(b < a)
  BY <1>1, LeastNumber
<1> HIDE DEF T
<1>3. PICK x \in G : \A y \in G : ~(now - stamp[y] < now - stamp[x])
  BY <1>2 DEF T
<1>4. \A y \in G : stamp[y] <= stamp[x]
  BY <1>0, <1>3
<1> QED
  BY <1>3, <1>4

(* Before anything was backed up the invariants hold. *)
LEMMA InitBacked == Init => BackedInv /\ JobInv
  BY NamesAssumption
  DEF Init, BackedInv, RowAge, SurvivorInv, GoneInv, CatalogBacked, JobInv,
      JobTruthful, Holding, TryPcs, IdleWorker, IdleRetention

(* A step that leaves the vault, the rows and the maintenance run alone    *)
(* keeps the catalogue backed.                                             *)
LEMMA BackedFrame ==
  ASSUME BackedInv, UNCHANGED <<vault, stamp, vmOf, row, created, rt, aborts>>
  PROVE  BackedInv'
  BY DEF BackedInv, RowAge, SurvivorInv, Survivor, GoneInv, CatalogBacked

(* A new snapshot has no row yet and no run has listed it. *)
LEMMA ResticBacked ==
  ASSUME TypeOK, WindowInv, BackedInv, NEW w \in Workers, NEW s \in Snaps,
         ResticBackup(w, s) \/ ResticBackupOrphans(w, s)
  PROVE  BackedInv'
<1>1. /\ UNCHANGED <<row, created, rt, aborts>>
      /\ s \notin used /\ vault' = vault \cup {s} /\ vault \subseteq used
      /\ \A x \in Snaps \ {s} : stamp'[x] = stamp[x] /\ vmOf'[x] = vmOf[x]
  BY DEF ResticBackup, ResticBackupOrphans, NewSnapshot, TypeOK, StoreOK
<1>2. row[s] = "none" /\ used \subseteq Snaps /\ s \notin vault
  BY <1>1 DEF WindowInv, ClockInv, TypeOK, StoreOK
<1>3. RowAge'
  BY <1>1, <1>2 DEF BackedInv, RowAge
<1>4. rt.pc \in {"forget", "mark"} => rt.remove \subseteq used
  BY DEF WindowInv, RemoveInv
<1>5. SurvivorInv'
  <2> SUFFICES ASSUME rt.pc \in {"forget", "mark"}, NEW y \in rt.remove
               PROVE  Survivor(y)'
    BY <1>1 DEF SurvivorInv
  <2>1. PICK x \in vault \ rt.remove :
          vmOf[x] = vmOf[y] /\ stamp[y] + KeepWithin <= stamp[x]
    BY DEF BackedInv, SurvivorInv, Survivor
  <2>2. x \in Snaps \ {s} /\ y \in Snaps \ {s}
    BY <1>1, <1>2, <1>4
  <2> QED
    BY <1>1, <2>1, <2>2 DEF Survivor
<1>6. GoneInv' /\ CatalogBacked'
  BY <1>1, <1>2, <1>4 DEF BackedInv, GoneInv, CatalogBacked
<1> QED
  BY <1>3, <1>5, <1>6 DEF BackedInv

(* The row is written of a snapshot in the vault, within the timeout. *)
LEMMA CatalogueBacked ==
  ASSUME TypeOK, WindowInv, BackedInv, NEW w \in Workers, NEW b \in BOOLEAN,
         NEW d \in PolicyDays \cup {PreserveSuspicious}, Catalogue(w, b, d)
  PROVE  BackedInv'
<1> DEFINE s == bk[w].snap
<1>1. /\ bk[w].pc = "stored" /\ s \in Snaps
      /\ UNCHANGED <<vault, stamp, vmOf, rt, aborts>>
      /\ row' = [row EXCEPT ![s] = "live"]
      /\ created' = [created EXCEPT ![s] = bk[w].t0]
  BY DEF Catalogue, TypeOK, WorkersOK, TryPcs
<1>2. /\ s \in vault /\ bk[w].t0 <= stamp[s] /\ now <= bk[w].t0 + Span
      /\ stamp[s] <= now
  BY <1>1 DEF WindowInv, PendingInv, ClockInv, Pending, TypeOK, StoreOK
<1>3. /\ row \in [Snaps -> {"none", "live", "expired"}]
      /\ created \in [Snaps -> Nat] /\ stamp[s] \in Nat /\ now \in Nat
      /\ bk[w].t0 \in Nat /\ Span \in Nat
  BY <1>1, SpanAssumption DEF TypeOK, StoreOK, CatalogueOK, WorkersOK, Worker
<1> HIDE DEF s
<1>4. RowAge'
  BY <1>1, <1>2, <1>3 DEF BackedInv, RowAge
<1>5. SurvivorInv'
  BY <1>1 DEF BackedInv, SurvivorInv, Survivor
<1>6. GoneInv' /\ CatalogBacked'
  BY <1>1, <1>2, <1>3 DEF BackedInv, GoneInv, CatalogBacked
<1> QED
  BY <1>4, <1>5, <1>6 DEF BackedInv

(* Every step of a backup worker keeps the catalogue backed. *)
LEMMA BackupBacked ==
  ASSUME TypeOK, WindowInv, BackedInv, NEW w \in Workers,
         BackupStep(w) \/ BackupCrash(w)
  PROVE  BackedInv'
<1>1. CASE EnterBackup(w) \/ LeaveBackup(w) \/ BackupCrash(w)
             \/ RecordPrimaryCopy(w) \/ FinishJob(w) \/ ReplicationDone(w)
             \/ RestoreForVerify(w) \/ Raise(w) \/ BackupFailed(w)
  BY <1>1, BackedFrame
  DEF EnterBackup, LeaveBackup, BackupCrash, RecordPrimaryCopy, FinishJob,
      ReplicationDone, RestoreForVerify, Raise, BackupFailed
<1>2. ASSUME NEW vm \in VMs, NEW j \in JobIds, StartJob(w, vm, j)
      PROVE  BackedInv'
  BY <1>2, BackedFrame DEF StartJob
<1>3. ASSUME NEW r \in Replicas, NEW stored \in BOOLEAN, NEW ok \in BOOLEAN,
             Replicate(w, r, stored, ok)
      PROVE  BackedInv'
  BY <1>3, BackedFrame DEF Replicate
<1>4. ASSUME NEW ok \in BOOLEAN, MarkVerified(w, ok)
      PROVE  BackedInv'
  BY <1>4, BackedFrame DEF MarkVerified
<1> QED
  BY <1>1, <1>2, <1>3, <1>4, ResticBacked, CatalogueBacked DEF BackupStep

(* What restic lists leaves the youngest snapshot of each VM. *)
LEMMA PreviewSurvivor ==
  ASSUME TypeOK, WindowInv, NEW listed \in SUBSET vault, Preview(listed)
  PROVE  SurvivorInv'
<1>1. /\ UNCHANGED <<vault, stamp, vmOf>>
      /\ rt'.remove = listed \ rt.protected
  BY DEF Preview, IdleRetention
<1>2. ASSUME NEW s \in listed PROVE \E x \in vault : vmOf[x] = vmOf[s]
             /\ stamp[s] + KeepWithin <= stamp[x] /\ x \notin listed
  <2>1. PICK x \in vault :
          /\ vmOf[x] = vmOf[s]
          /\ \A y \in vault : vmOf[y] = vmOf[s] => stamp[y] <= stamp[x]
    BY Youngest DEF WindowInv
  <2>2. PICK y \in vault : vmOf[y] = vmOf[s] /\ stamp[y] >= stamp[s] + KeepWithin
    BY DEF Preview, MayForget
  <2>3. \A z \in vault : stamp[z] \in Nat
    BY DEF TypeOK, StoreOK
  <2>4. KeepWithin \in Nat /\ 0 < KeepWithin
    BY DaysAssumption, SpanAssumption
  <2>5. x \notin listed
    <3> SUFFICES ASSUME x \in listed PROVE FALSE
      OBVIOUS
    <3>1. PICK z \in vault :
            vmOf[z] = vmOf[x] /\ stamp[z] >= stamp[x] + KeepWithin
      BY DEF Preview, MayForget
    <3> QED
      BY <2>1, <2>3, <2>4, <3>1
  <2>6. stamp[s] + KeepWithin <= stamp[x]
    BY <2>1, <2>2, <2>3, <2>4
  <2> QED
    BY <2>1, <2>5, <2>6
<1> QED
  BY <1>1, <1>2 DEF SurvivorInv, Survivor

(* Every step of the maintenance job keeps the catalogue backed. *)
LEMMA RetentionBacked ==
  ASSUME TypeOK, WindowInv, BackedInv, RetentionStep \/ RetentionFails
  PROVE  BackedInv'
<1> USE DEF BackedInv
<1>1. CASE EnterRetention \/ ReadProtected
  <2>1. /\ UNCHANGED <<vault, stamp, vmOf, row, created, aborts>>
        /\ rt.pc # "mark" /\ rt'.pc \in {"read", "preview"}
    BY <1>1 DEF EnterRetention, ReadProtected, IdleRetention, TypeOK,
                Maintenance
  <2> QED
    BY <2>1 DEF RowAge, SurvivorInv, GoneInv, CatalogBacked
<1>2. ASSUME NEW listed \in SUBSET vault, Preview(listed)
      PROVE  BackedInv'
  <2>1. /\ UNCHANGED <<vault, stamp, vmOf, row, created, aborts>>
        /\ rt.pc # "mark"
        /\ rt'.pc = "mark" => rt'.remove = {}
    BY <1>2 DEF Preview, IdleRetention
  <2>2. SurvivorInv'
    BY <1>2, PreviewSurvivor
  <2> QED
    BY <2>1, <2>2 DEF RowAge, GoneInv, CatalogBacked
<1>3. CASE Forget
  <2>1. /\ UNCHANGED <<stamp, vmOf, row, created, aborts>>
        /\ vault' = vault \ rt.remove /\ rt.pc = "forget"
        /\ rt'.pc = "mark" /\ rt'.remove = rt.remove
    BY <1>3 DEF Forget, TypeOK, Maintenance
  <2> QED
    BY <2>1 DEF RowAge, SurvivorInv, Survivor, GoneInv, CatalogBacked
<1>4. CASE MarkExpired
  <2>1. /\ UNCHANGED <<vault, stamp, vmOf, created, aborts>>
        /\ rt.pc = "mark" /\ rt'.pc = "idle"
        /\ row' = [s \in Snaps |-> IF s \in rt.remove /\ row[s] # "none"
                                     THEN "expired" ELSE row[s]]
    BY <1>4 DEF MarkExpired, IdleRetention
  <2> QED
    BY <2>1 DEF RowAge, SurvivorInv, GoneInv, CatalogBacked
<1>5. CASE RetentionFails
  <2>1. /\ UNCHANGED <<stamp, vmOf, row, created>>
        /\ rt'.pc = "idle" /\ aborts' # 0
    BY <1>5 DEF RetentionFails, ForgetFails, RetentionAborts, IdleRetention,
                TypeOK, StoreOK
  <2> QED
    BY <2>1 DEF RowAge, SurvivorInv, GoneInv, CatalogBacked
<1> HIDE DEF BackedInv
<1> QED
  BY <1>1, <1>2, <1>3, <1>4, <1>5 DEF RetentionStep

(* Every step keeps the catalogue backed. *)
LEMMA NextBacked == TypeOK /\ WindowInv /\ BackedInv /\ [Next]_vars => BackedInv'
<1> SUFFICES ASSUME TypeOK, WindowInv, BackedInv, [Next]_vars PROVE BackedInv'
  OBVIOUS
<1>1. ASSUME NEW h \in Holders, HoldStep(h) PROVE BackedInv'
  BY <1>1, BackedFrame DEF HoldStep, ReadForHold, WriteHold
<1>2. CASE Tick \/ UNCHANGED vars
  BY <1>2, BackedFrame DEF Tick, vars
<1> QED
  BY <1>1, <1>2, BackupBacked, RetentionBacked DEF Next

(* The invariant holds throughout. *)
LEMMA BackedInvCorrect == Spec => []BackedInv
  BY InitBacked, NextBacked, TypeCorrect, WindowCorrect, PTL DEF Spec

(* While no maintenance run has failed, a listed point is missing from the *)
(* vault only between restic forget and mark_points_expired.               *)
THEOREM BackedCorrect == Spec => []CatalogBacked
<1>1. BackedInv => CatalogBacked
  BY DEF BackedInv
<1> QED
  BY <1>1, BackedInvCorrect, PTL

(* The point that latest_point picks can be restored, even between restic  *)
(* forget and mark_points_expired: what the run removed left a younger     *)
(* point of the same VM.                                                   *)
THEOREM LatestCorrect == Spec => []LatestRestorable
<1>1. TypeOK /\ BackedInv => LatestRestorable
  <2> SUFFICES ASSUME TypeOK, BackedInv, NEW vm \in VMs, NEW s \in Snaps,
                      IsLatestPoint(vm, s), aborts = 0,
                      \A x \in vault : vmOf[x] = vm => row[x] # "none",
                      s \notin vault
               PROVE  FALSE
    BY DEF LatestRestorable
  <2>1. row[s] = "live" /\ vmOf[s] = vm
    BY DEF IsLatestPoint, LivePoints
  <2>2. rt.pc = "mark" /\ s \in rt.remove
    BY <2>1 DEF BackedInv, CatalogBacked
  <2>3. PICK x \in vault \ rt.remove :
          vmOf[x] = vmOf[s] /\ stamp[s] + KeepWithin <= stamp[x]
    BY <2>2 DEF BackedInv, SurvivorInv, Survivor
  <2>4. x \in Snaps /\ row[x] = "live"
    BY <2>1, <2>3 DEF BackedInv, GoneInv, TypeOK, StoreOK, CatalogueOK
  <2>5. created[x] <= created[s]
    BY <2>1, <2>3, <2>4 DEF IsLatestPoint, LivePoints
  <2>6. /\ created[s] <= stamp[s] /\ stamp[x] <= created[x] + Span
        /\ {created[s], created[x], stamp[s], stamp[x]} \subseteq Nat
    BY <2>1, <2>4 DEF BackedInv, RowAge, TypeOK, StoreOK, CatalogueOK
  <2> QED
    BY <2>3, <2>5, <2>6, SpanAssumption, DaysAssumption
<1> QED
  BY <1>1, TypeCorrect, BackedInvCorrect, PTL

-----------------------------------------------------------------------------
(* The jobs. config.py does not refuse a replica target called "primary",  *)
(* whose copies would share the row of the primary copy.                   *)
PrimaryReserved == "primary" \notin Replicas

(* A worker that goes on with its snapshot, or without one, keeps what is  *)
(* said of the jobs, while rows and copies only come.                      *)
LEMMA JobFrame ==
  ASSUME JobInv,
         used \subseteq used', UNCHANGED <<jobs>>,
         \A s \in Snaps : row[s] # "none" => row'[s] # "none",
         \A s \in Snaps : <<s, "primary">> \in copies =>
                            <<s, "primary">> \in copies',
         used \subseteq Snaps,
         \A v \in Workers :
           bk[v].pc \in TryPcs \ {"export"} => bk[v].snap \in Snaps,
         \A v \in Workers :
           \/ bk'[v].pc \notin TryPcs \ {"export"}
           \/ /\ bk'[v].snap = bk[v].snap /\ bk[v].pc \in TryPcs \ {"export"}
              /\ bk'[v].pc \in Holding => bk[v].pc \in Holding
              /\ bk'[v].pc # "stored" =>
                   bk[v].pc # "stored" \/ row'[bk[v].snap] # "none"
              /\ bk'[v].pc = "copied" =>
                   bk[v].pc = "copied" \/ <<bk[v].snap, "primary">> \in copies'
  PROVE  JobInv'
<1>1. \A v \in Workers :
        /\ bk'[v].pc \in Holding =>
             /\ bk[v].pc \in Holding /\ bk'[v].snap = bk[v].snap
             /\ bk[v].snap \in Snaps
  BY DEF Holding, TryPcs
<1>2. \A w \in Workers :
         /\ bk'[w].pc \in Holding => bk'[w].snap \in used'
         /\ bk'[w].pc \in TryPcs \ {"export", "stored"} =>
              row'[bk'[w].snap] # "none"
         /\ bk'[w].pc = "copied" => <<bk'[w].snap, "primary">> \in copies'
  <2> SUFFICES ASSUME NEW w \in Workers
               PROVE  /\ bk'[w].pc \in Holding => bk'[w].snap \in used'
                      /\ bk'[w].pc \in TryPcs \ {"export", "stored"} =>
                           row'[bk'[w].snap] # "none"
                      /\ bk'[w].pc = "copied" =>
                           <<bk'[w].snap, "primary">> \in copies'
    OBVIOUS
  <2>1. bk'[w].pc \in Holding => bk'[w].snap \in used'
    BY <1>1 DEF JobInv
  <2>2. bk'[w].pc \in TryPcs \ {"export", "stored"} =>
          row'[bk'[w].snap] # "none"
    BY DEF JobInv
  <2>3. bk'[w].pc = "copied" => <<bk'[w].snap, "primary">> \in copies'
    BY DEF JobInv, TryPcs
  <2> QED
    BY <2>1, <2>2, <2>3
<1>3. \A w, v \in Workers :
        {bk'[w].pc, bk'[v].pc} \subseteq Holding /\ bk'[w].snap = bk'[v].snap
          => w = v
  BY <1>1 DEF JobInv
<1>4. \A j \in JobIds : jobs'[j].status = "success" =>
         /\ jobs'[j].snap \in used'
         /\ \A w \in Workers :
              bk'[w].pc \in Holding => bk'[w].snap # jobs'[j].snap
  BY <1>1 DEF JobInv
<1>5. JobTruthful'
  BY DEF JobInv, JobTruthful
<1>6. \A j \in JobIds : jobs'[j].status # "success" => jobs'[j].snap = Nil
  BY DEF JobInv
<1> QED
  BY <1>2, <1>3, <1>4, <1>5, <1>6 DEF JobInv

(* restic issues an id that no worker and no job has. *)
LEMMA ResticJob ==
  ASSUME TypeOK, JobInv, NEW w \in Workers, NEW s \in Snaps,
         ResticBackup(w, s) \/ ResticBackupOrphans(w, s)
  PROVE  JobInv'
<1>1. /\ UNCHANGED <<row, copies, jobs>>
      /\ s \notin used /\ used' = used \cup {s}
      /\ \A v \in Workers : v # w => bk'[v] = bk[v]
      /\ bk'[w].pc = "fail" \/ (bk'[w].pc = "stored" /\ bk'[w].snap = s)
  BY DEF ResticBackup, ResticBackupOrphans, NewSnapshot, Goto, TypeOK,
         WorkersOK, Worker
<1>2. \A v \in Workers : bk'[v].pc \in TryPcs \ {"export"} =>
        (v # w /\ bk'[v] = bk[v]) \/ (v = w /\ bk'[v].pc = "stored")
  BY <1>1 DEF TryPcs
<1>3. \A v \in Workers :
         /\ bk'[v].pc \in Holding => bk'[v].snap \in used'
         /\ bk'[v].pc \in TryPcs \ {"export", "stored"} =>
              row'[bk'[v].snap] # "none"
         /\ bk'[v].pc = "copied" => <<bk'[v].snap, "primary">> \in copies'
  BY <1>1, <1>2 DEF JobInv, Holding, TryPcs
<1>4. \A v \in Workers : v # w /\ bk'[v].pc \in Holding =>
        bk[v].pc \in Holding /\ bk'[v] = bk[v] /\ bk[v].snap # s
  BY <1>1 DEF JobInv
<1>5. \A u, v \in Workers :
        {bk'[u].pc, bk'[v].pc} \subseteq Holding /\ bk'[u].snap = bk'[v].snap
          => u = v
  BY <1>1, <1>4 DEF JobInv, Holding
<1>6. \A j \in JobIds : jobs'[j].status = "success" =>
         /\ jobs'[j].snap \in used'
         /\ \A v \in Workers :
              bk'[v].pc \in Holding => bk'[v].snap # jobs'[j].snap
  BY <1>1, <1>4 DEF JobInv, Holding
<1>7. /\ \A j \in JobIds : jobs'[j].status # "success" => jobs'[j].snap = Nil
      /\ JobTruthful'
  BY <1>1 DEF JobInv, JobTruthful
<1> QED
  BY <1>3, <1>5, <1>6, <1>7 DEF JobInv

(* finish_job names the worker's snapshot, which from then on nobody else  *)
(* can name.                                                               *)
LEMMA FinishJobKeeps ==
  ASSUME TypeOK, JobInv, NEW w \in Workers, FinishJob(w)
  PROVE  JobInv'
<1> DEFINE s == bk[w].snap
           k == bk[w].job
<1>1. /\ UNCHANGED <<row, copies, used>>
      /\ bk[w].pc = "copied"
      /\ \A v \in Workers : v # w => bk'[v] = bk[v]
      /\ bk'[w].pc = "replicate" /\ bk'[w].snap = s
  <2>1. bk' = [bk EXCEPT ![w] = [bk[w] EXCEPT !.pc = "replicate",
                                              !.left = Replicas]]
    BY DEF FinishJob
  <2>2. bk[w] \in Worker
    BY DEF TypeOK, WorkersOK
  <2>3. LET c == [bk[w] EXCEPT !.pc = "replicate", !.left = Replicas]
        IN  c.snap = s /\ c.pc = "replicate"
    BY <2>2, WorkerUpdate
  <2> QED
    BY <2>1, <2>3 DEF FinishJob, TypeOK, WorkersOK
<1>2. /\ \A j \in JobIds \ {k} : jobs'[j] = jobs[j]
      /\ k \in JobIds => jobs'[k].snap = s /\ jobs'[k].status = "success"
  BY DEF FinishJob, TypeOK, CatalogueOK
<1>3. /\ s \in used /\ row[s] # "none" /\ <<s, "primary">> \in copies
      /\ \A v \in Workers : v # w /\ bk[v].pc \in Holding => bk[v].snap # s
      /\ \A j \in JobIds : jobs[j].status = "success" => jobs[j].snap # s
  BY <1>1 DEF JobInv, Holding, TryPcs
<1> HIDE DEF s, k
<1>4. \A v \in Workers : bk'[v].pc \in Holding => v # w /\ bk'[v] = bk[v]
  BY <1>1 DEF Holding
<1>5. \A v \in Workers :
         /\ bk'[v].pc \in Holding => bk'[v].snap \in used'
         /\ bk'[v].pc \in TryPcs \ {"export", "stored"} =>
              row'[bk'[v].snap] # "none"
         /\ bk'[v].pc = "copied" => <<bk'[v].snap, "primary">> \in copies'
  BY <1>1, <1>3, <1>4 DEF JobInv
<1>6. \A u, v \in Workers :
        {bk'[u].pc, bk'[v].pc} \subseteq Holding /\ bk'[u].snap = bk'[v].snap
          => u = v
  BY <1>4 DEF JobInv
<1>7. \A j \in JobIds : jobs'[j].status = "success" =>
         /\ jobs'[j].snap \in used'
         /\ \A v \in Workers :
              bk'[v].pc \in Holding => bk'[v].snap # jobs'[j].snap
  BY <1>1, <1>2, <1>3, <1>4 DEF JobInv
<1>8. \A j \in JobIds : jobs'[j].status # "success" => jobs'[j].snap = Nil
  BY <1>1, <1>2 DEF JobInv
<1>9. JobTruthful'
  <2> SUFFICES ASSUME NEW j \in JobIds, jobs'[j].status = "success"
               PROVE  /\ row[jobs'[j].snap] # "none"
                      /\ <<jobs'[j].snap, "primary">> \in copies
                      /\ \A i \in JobIds :
                           i # j => jobs'[i].snap # jobs'[j].snap
    BY <1>1 DEF JobTruthful
  <2>1. s # Nil
    BY <1>3, NamesAssumption DEF TypeOK, StoreOK
  <2>2. \A i \in JobIds : jobs[i].snap # s
    BY <1>3, <2>1 DEF JobInv
  <2>3. CASE j = k
    BY <1>2, <1>3, <2>2, <2>3
  <2>4. CASE j # k
    BY <1>2, <1>3, <2>4 DEF JobInv, JobTruthful
  <2> QED
    BY <2>3, <2>4
<1> QED
  BY <1>5, <1>6, <1>7, <1>8, <1>9 DEF JobInv

(* A job that starts or fails reports no success. *)
LEMMA SettleJob ==
  ASSUME TypeOK, JobInv, NEW w \in Workers,
         BackupFailed(w) \/ \E vm \in VMs, j \in JobIds : StartJob(w, vm, j)
  PROVE  JobInv'
<1> DEFINE Unsettled(i) == jobs'[i].status # "success" /\ jobs'[i].snap = Nil
<1>1. /\ UNCHANGED <<row, copies, used>>
      /\ \A v \in Workers : v # w => bk'[v] = bk[v]
      /\ bk'[w].pc \in {"pick", "export"}
      /\ \A i \in JobIds : jobs'[i] = jobs[i] \/ Unsettled(i)
  <2>1. CASE BackupFailed(w)
    BY <2>1 DEF BackupFailed, NextVM, IdleWorker, TypeOK, CatalogueOK,
                WorkersOK
  <2>2. ASSUME NEW vm \in VMs, NEW j \in JobIds, StartJob(w, vm, j)
        PROVE  /\ UNCHANGED <<row, copies, used>>
               /\ \A v \in Workers : v # w => bk'[v] = bk[v]
               /\ bk'[w].pc \in {"pick", "export"}
               /\ \A i \in JobIds : jobs'[i] = jobs[i] \/ Unsettled(i)
    <3>1. /\ jobs[j].status = "absent" /\ jobs[j].snap = Nil
      BY <2>2 DEF StartJob, JobInv
    <3> QED
      <4>1. \A i \in JobIds : jobs'[i] = jobs[i] \/ Unsettled(i)
        BY <2>2, <3>1 DEF StartJob, TypeOK, CatalogueOK, Job
      <4>2. /\ \A v \in Workers : v # w => bk'[v] = bk[v]
            /\ bk'[w].pc = "export"
        BY <2>2 DEF StartJob, IdleWorker, TypeOK, WorkersOK
      <4> QED
        BY <2>2, <4>1, <4>2 DEF StartJob
  <2> QED
    BY <2>1, <2>2
<1>2. \A v \in Workers : bk'[v].pc \in TryPcs \ {"export"} => bk'[v] = bk[v]
  BY <1>1 DEF TryPcs
<1>3. Holding \subseteq TryPcs \ {"export"} /\ "copied" \in Holding
  BY DEF Holding, TryPcs
<1>4. \A v \in Workers :
         /\ bk'[v].pc \in Holding => bk'[v].snap \in used'
         /\ bk'[v].pc \in TryPcs \ {"export", "stored"} =>
              row'[bk'[v].snap] # "none"
         /\ bk'[v].pc = "copied" => <<bk'[v].snap, "primary">> \in copies'
  BY <1>1, <1>2, <1>3 DEF JobInv
<1>5. \A u, v \in Workers :
        {bk'[u].pc, bk'[v].pc} \subseteq Holding /\ bk'[u].snap = bk'[v].snap
          => u = v
  BY <1>2, <1>3 DEF JobInv
<1>6. \A j \in JobIds : jobs'[j].status = "success" =>
         /\ jobs'[j].snap \in used'
         /\ \A v \in Workers :
              bk'[v].pc \in Holding => bk'[v].snap # jobs'[j].snap
  BY <1>1, <1>2, <1>3 DEF JobInv
<1>7. \A j \in JobIds : jobs'[j].status # "success" => jobs'[j].snap = Nil
  BY <1>1 DEF JobInv
<1>8. JobTruthful'
  <2> SUFFICES ASSUME NEW j \in JobIds, jobs'[j].status = "success"
               PROVE  /\ row[jobs'[j].snap] # "none"
                      /\ <<jobs'[j].snap, "primary">> \in copies
                      /\ \A i \in JobIds :
                           i # j => jobs'[i].snap # jobs'[j].snap
    BY <1>1 DEF JobTruthful
  <2>1. jobs'[j] = jobs[j] /\ jobs[j].snap \in Snaps
    BY <1>1 DEF JobInv, TypeOK, StoreOK
  <2>2. jobs[j].snap # Nil
    BY <2>1, NamesAssumption
  <2> QED
    BY <1>1, <2>1, <2>2 DEF JobInv, JobTruthful
<1> QED
  BY <1>4, <1>5, <1>6, <1>7, <1>8 DEF JobInv

(* Every step of a backup worker keeps the jobs truthful. *)
LEMMA BackupJob ==
  ASSUME PrimaryReserved, TypeOK, WindowInv, JobInv, NEW w \in Workers,
         BackupStep(w) \/ BackupCrash(w)
  PROVE  JobInv'
<1> DEFINE Quiet ==
      /\ used \subseteq used' /\ UNCHANGED <<jobs>>
      /\ \A s \in Snaps : row[s] # "none" => row'[s] # "none"
      /\ \A s \in Snaps : <<s, "primary">> \in copies =>
                            <<s, "primary">> \in copies'
      /\ used \subseteq Snaps
      /\ \A v \in Workers :
           bk[v].pc \in TryPcs \ {"export"} => bk[v].snap \in Snaps
      /\ \A v \in Workers :
           \/ bk'[v].pc \notin TryPcs \ {"export"}
           \/ /\ bk'[v].snap = bk[v].snap /\ bk[v].pc \in TryPcs \ {"export"}
              /\ bk'[v].pc \in Holding => bk[v].pc \in Holding
              /\ bk'[v].pc # "stored" =>
                   bk[v].pc # "stored" \/ row'[bk[v].snap] # "none"
              /\ bk'[v].pc = "copied" =>
                   bk[v].pc = "copied" \/ <<bk[v].snap, "primary">> \in copies'
<1>0. /\ used \subseteq Snaps
      /\ \A v \in Workers :
           bk[v].pc \in TryPcs \ {"export"} => bk[v].snap \in Snaps
  BY DEF TypeOK, StoreOK, WorkersOK
<1> USE <1>0 DEF TypeOK, WorkersOK, Worker, Holding, TryPcs
<1>1. CASE EnterBackup(w) \/ LeaveBackup(w) \/ BackupCrash(w)
  <2> Quiet
    BY <1>1 DEF EnterBackup, LeaveBackup, BackupCrash, Goto, IdleWorker
  <2> QED
    BY JobFrame
<1>2. CASE RecordPrimaryCopy(w) \/ RestoreForVerify(w) \/ Raise(w)
             \/ ReplicationDone(w)
  <2> Quiet
    BY <1>2 DEF RecordPrimaryCopy, RestoreForVerify, Raise, ReplicationDone,
                Goto, NextVM, IdleWorker
  <2> QED
    BY JobFrame
<1>3. ASSUME NEW r \in Replicas, NEW stored \in BOOLEAN, NEW ok \in BOOLEAN,
             Replicate(w, r, stored, ok)
      PROVE  JobInv'
  <2>1. \A s \in Snaps : <<s, "primary">> \in copies =>
                           <<s, "primary">> \in copies'
    BY <1>3 DEF Replicate, PrimaryReserved
  <2> Quiet
    BY <1>3, <2>1 DEF Replicate
  <2> QED
    BY JobFrame
<1>4. ASSUME NEW ok \in BOOLEAN, MarkVerified(w, ok)
      PROVE  JobInv'
  <2> Quiet
    BY <1>4 DEF MarkVerified, NextVM, IdleWorker
  <2> QED
    BY JobFrame
<1>5. ASSUME NEW b \in BOOLEAN, NEW d \in PolicyDays \cup {PreserveSuspicious},
             Catalogue(w, b, d)
      PROVE  JobInv'
  <2>1. row \in [Snaps -> {"none", "live", "expired"}]
    BY DEF CatalogueOK
  <2> Quiet
    BY <1>5, <2>1 DEF Catalogue, Goto
  <2> QED
    BY JobFrame
<1> HIDE DEF TypeOK
<1> QED
  BY <1>1, <1>2, <1>3, <1>4, <1>5, ResticJob, FinishJobKeeps, SettleJob
  DEF BackupStep

(* So does every other step: a row is expired, never removed. *)
LEMMA NextJob ==
  PrimaryReserved /\ TypeOK /\ WindowInv /\ JobInv /\ [Next]_vars => JobInv'
<1> SUFFICES ASSUME PrimaryReserved, TypeOK, WindowInv, JobInv, [Next]_vars
             PROVE  JobInv'
  OBVIOUS
<1>0. /\ used \subseteq Snaps
      /\ \A v \in Workers :
           bk[v].pc \in TryPcs \ {"export"} => bk[v].snap \in Snaps
  BY DEF TypeOK, StoreOK, WorkersOK
<1>1. ASSUME UNCHANGED <<used, jobs, copies, bk>>,
             \A s \in Snaps : row[s] # "none" => row'[s] # "none"
      PROVE  JobInv'
  BY <1>0, <1>1, JobFrame DEF Holding
<1>2. CASE RetentionStep \/ RetentionFails
  <2>1. /\ UNCHANGED <<used, jobs, copies, bk>>
        /\ \A s \in Snaps : row[s] # "none" => row'[s] # "none"
    BY <1>2 DEF RetentionStep, RetentionFails, EnterRetention, ReadProtected,
                Preview, Forget, MarkExpired, ForgetFails, RetentionAborts
  <2> QED
    BY <1>1, <2>1
<1>3. ASSUME NEW h \in Holders, HoldStep(h) PROVE JobInv'
  BY <1>1, <1>3 DEF HoldStep, ReadForHold, WriteHold
<1>4. CASE Tick \/ UNCHANGED vars
  BY <1>1, <1>4 DEF Tick, vars
<1> QED
  BY <1>2, <1>3, <1>4, BackupJob DEF Next

(* A job that reports success names a catalogued point of its own with its *)
(* primary copy recorded, however many workers, jobs and faults there are. *)
THEOREM JobCorrect == PrimaryReserved => (Spec => []JobTruthful)
<1> SUFFICES ASSUME PrimaryReserved PROVE Spec => []JobTruthful
  OBVIOUS
<1>1. TypeOK /\ WindowInv /\ JobInv /\ [Next]_vars => JobInv'
  BY NextJob
<1>2. Init => JobInv
  BY InitBacked
<1>3. JobInv => JobTruthful
  BY DEF JobInv
<1> QED
  BY <1>1, <1>2, <1>3, TypeCorrect, WindowCorrect, PTL DEF Spec

(* What a worker's step does to the rows: it starts a job of its own, or   *)
(* settles its own, or goes on owing it, and no other row is changed.      *)
Owed(w, j) == OwesStatus(w) /\ bk[w].job = j

LEMMA StepOwes ==
  ASSUME TypeOK, NEW w \in Workers, NEW j \in JobIds, BackupStep(w),
         jobs'[j].status = "running"
  PROVE  \/ Owed(w, j)'
         \/ jobs[j].status = "running" /\ ~Owed(w, j)
<1>0. /\ bk \in [Workers -> Worker] /\ jobs \in [JobIds -> Job]
      /\ bk[w] \in Worker
  BY DEF TypeOK, WorkersOK, CatalogueOK
<1> USE DEF Owed, OwesStatus, Worker, TryPcs
<1>1. CASE EnterBackup(w) \/ LeaveBackup(w)
  BY <1>0, <1>1 DEF EnterBackup, LeaveBackup
<1>2. ASSUME NEW vm \in VMs, NEW i \in JobIds, StartJob(w, vm, i)
      PROVE  \/ Owed(w, j)'
             \/ jobs[j].status = "running" /\ ~Owed(w, j)
  BY <1>0, <1>2 DEF StartJob, IdleWorker, Job
<1>3. ASSUME NEW s \in Snaps, ResticBackup(w, s) \/ ResticBackupOrphans(w, s)
      PROVE  \/ Owed(w, j)'
             \/ jobs[j].status = "running" /\ ~Owed(w, j)
  BY <1>0, <1>3 DEF ResticBackup, ResticBackupOrphans, Goto
<1>4. ASSUME NEW b \in BOOLEAN, NEW d \in PolicyDays \cup {PreserveSuspicious},
             Catalogue(w, b, d)
      PROVE  \/ Owed(w, j)'
             \/ jobs[j].status = "running" /\ ~Owed(w, j)
  BY <1>0, <1>4 DEF Catalogue, Goto
<1>5. CASE RecordPrimaryCopy(w) \/ Raise(w)
  BY <1>0, <1>5 DEF RecordPrimaryCopy, Raise, Goto
<1>6. CASE FinishJob(w)
  BY <1>0, <1>6 DEF FinishJob, Job
<1>7. ASSUME NEW r \in Replicas, NEW stored \in BOOLEAN, NEW ok \in BOOLEAN,
             Replicate(w, r, stored, ok)
      PROVE  \/ Owed(w, j)'
             \/ jobs[j].status = "running" /\ ~Owed(w, j)
  BY <1>0, <1>7 DEF Replicate
<1>8. CASE ReplicationDone(w) \/ RestoreForVerify(w)
  BY <1>0, <1>8 DEF ReplicationDone, RestoreForVerify
<1>9. ASSUME NEW ok \in BOOLEAN, MarkVerified(w, ok)
      PROVE  \/ Owed(w, j)'
             \/ jobs[j].status = "running" /\ ~Owed(w, j)
  BY <1>0, <1>9 DEF MarkVerified
<1>10. CASE BackupFailed(w)
  BY <1>0, <1>10 DEF BackupFailed, Job
<1> QED
  BY <1>1, <1>2, <1>3, <1>4, <1>5, <1>6, <1>7, <1>8, <1>9, <1>10
  DEF BackupStep

LEMMA OthersKeep ==
  ASSUME TypeOK, NEW w \in Workers, BackupStep(w)
  PROVE  \A v \in Workers \ {w} : bk'[v] = bk[v]
<1>1. bk \in [Workers -> Worker]
  BY DEF TypeOK, WorkersOK
<1> QED
  BY <1>1
  DEF BackupStep, EnterBackup, LeaveBackup, StartJob, ResticBackup,
      ResticBackupOrphans, Catalogue, RecordPrimaryCopy, FinishJob, Replicate,
      ReplicationDone, RestoreForVerify, MarkVerified, Raise, BackupFailed,
      Goto, NextVM

LEMMA NextRunning ==
  TypeOK /\ RunningHasWorker /\ [Next]_vars => RunningHasWorker'
<1> SUFFICES ASSUME TypeOK, RunningHasWorker, [Next]_vars,
                    NEW j \in JobIds, jobs'[j].status = "running", crashes' = 0
             PROVE  \E v \in Workers : Owed(v, j)'
  BY DEF RunningHasWorker, Owed, OwesStatus
<1>1. ASSUME NEW w \in Workers, BackupStep(w)
      PROVE  \E v \in Workers : Owed(v, j)'
  <2>1. CASE Owed(w, j)'
    BY <2>1
  <2>2. CASE jobs[j].status = "running" /\ ~Owed(w, j)
    <3>1. crashes = 0
      BY <1>1
      DEF BackupStep, EnterBackup, LeaveBackup, StartJob, ResticBackup,
          ResticBackupOrphans, Catalogue, RecordPrimaryCopy, FinishJob,
          Replicate, ReplicationDone, RestoreForVerify, MarkVerified, Raise,
          BackupFailed
    <3>2. PICK v \in Workers \ {w} : Owed(v, j)
      BY <2>2, <3>1 DEF RunningHasWorker, Owed
    <3>3. bk'[v] = bk[v]
      BY <1>1, <3>2, OthersKeep
    <3> QED
      BY <3>2, <3>3 DEF Owed, OwesStatus
  <2> QED
    BY <1>1, <2>1, <2>2, StepOwes
<1>2. ASSUME NEW w \in Workers, BackupCrash(w)
      PROVE  FALSE
  BY <1>2 DEF BackupCrash, TypeOK, StoreOK
<1>3. CASE UNCHANGED <<jobs, bk, crashes>>
  BY <1>3 DEF RunningHasWorker, Owed, OwesStatus
<1>4. CASE RetentionStep \/ RetentionFails
  <2>1. UNCHANGED <<jobs, bk, crashes>>
    BY <1>4 DEF RetentionStep, RetentionFails, EnterRetention, ReadProtected,
                Preview, Forget, MarkExpired, ForgetFails, RetentionAborts
  <2> QED
    BY <1>3, <2>1
<1>5. ASSUME NEW h \in Holders, HoldStep(h)
      PROVE  \E v \in Workers : Owed(v, j)'
  BY <1>3, <1>5 DEF HoldStep, ReadForHold, WriteHold
<1>6. CASE Tick \/ UNCHANGED vars
  BY <1>3, <1>6 DEF Tick, vars
<1> QED
  BY <1>1, <1>2, <1>4, <1>5, <1>6 DEF Next

(* Whatever a backup raises, and wherever, while no process has died a job *)
(* that is shown as running has a worker that has yet to write its status, *)
(* for any number of workers and jobs (_backup_vm).                        *)
THEOREM RunningCorrect == Spec => []RunningHasWorker
<1>1. Init => RunningHasWorker
  BY DEF Init, RunningHasWorker
<1> QED
  BY <1>1, NextRunning, TypeCorrect, PTL DEF Spec

-----------------------------------------------------------------------------
(* The catalogue and the vault implement ImmutablePoints.                  *)

(* What is marked was forgotten, and no backup brings an id back.          *)
MarkedGone == rt.pc = "mark" => rt.remove \cap vault = {}

Promised == MarkedGone' /\ [Promise!Next]_Promise!promised

LEMMA InitPromised == Init => MarkedGone /\ Promise!Init
  BY DEF Init, IdleRetention, MarkedGone, Promise!Init

LEMMA HiddenStep ==
  ASSUME MarkedGone, UNCHANGED <<now, vault, used, row, granted, until>>,
         rt'.pc = "mark" => rt' = rt \/ rt'.remove \cap vault = {}
  PROVE  Promised
  BY DEF MarkedGone, Promised, Promise!promised

LEMMA StorePromised ==
  ASSUME TypeOK, WindowInv, MarkedGone, NEW s \in Snaps,
         s \notin used, used' = used \cup {s}, vault' = vault \cup {s},
         UNCHANGED <<now, row, granted, until, rt>>
  PROVE  Promised
<1>1. MarkedGone'
  BY DEF MarkedGone, WindowInv, RemoveInv
<1>2. Promise!Store(s)
  BY DEF Promise!Store
<1> QED
  BY <1>1, <1>2 DEF Promised, Promise!Next

LEMMA CataloguePromised ==
  ASSUME TypeOK, WindowInv, MarkedGone, NEW w \in Workers,
         NEW b \in BOOLEAN, NEW d \in PolicyDays \cup {PreserveSuspicious},
         Catalogue(w, b, d)
  PROVE  Promised
<1> DEFINE s == bk[w].snap
           end == bk[w].t0 + d
<1>1. bk[w].pc = "stored" /\ s \in Snaps /\ bk[w].t0 \in Nat
  BY DEF Catalogue, TypeOK, WorkersOK, Worker, TryPcs
<1>2. s \in vault /\ row[s] = "none"
  BY <1>1 DEF WindowInv, PendingInv, Pending
<1>3. end \in Nat
  BY <1>1, DaysAssumption
<1>4. /\ row' = [row EXCEPT ![s] = "live"]
      /\ until' = [until EXCEPT ![s] = end]
      /\ granted' = [granted EXCEPT ![s] = end]
      /\ UNCHANGED <<now, vault, used, rt>>
  BY DEF Catalogue
<1> HIDE DEF s, end
<1>5. until \in [Snaps -> Nat] /\ granted \in [Snaps -> Nat]
  BY DEF TypeOK, CatalogueOK
<1>6. /\ until' \in [Snaps -> Nat] /\ granted' \in [Snaps -> Nat]
      /\ until'[s] = granted'[s]
      /\ \A q \in Snaps \ {s} : until'[q] = until[q] /\ granted'[q] = granted[q]
  BY <1>1, <1>3, <1>4, <1>5
<1>7. Promise!List(s)
  BY <1>2, <1>4, <1>6 DEF Promise!List
<1>8. MarkedGone'
  BY <1>4 DEF MarkedGone
<1> QED
  BY <1>1, <1>7, <1>8 DEF Promised, Promise!Next

LEMMA BackupPromised ==
  ASSUME TypeOK, WindowInv, MarkedGone, NEW w \in Workers,
         BackupStep(w) \/ BackupCrash(w)
  PROVE  Promised
<1>1. ASSUME NEW s \in Snaps, ResticBackup(w, s) \/ ResticBackupOrphans(w, s)
      PROVE  Promised
  BY <1>1, StorePromised, Zenon DEF ResticBackup, ResticBackupOrphans, NewSnapshot
<1>2. ASSUME NEW b \in BOOLEAN, NEW d \in PolicyDays \cup {PreserveSuspicious},
             Catalogue(w, b, d)
      PROVE  Promised
  BY <1>2, CataloguePromised
<1>3. CASE UNCHANGED <<now, vault, used, row, granted, until, rt>>
  BY <1>3, HiddenStep
<1> QED
  BY <1>1, <1>2, <1>3, Zenon
  DEF BackupStep, BackupCrash, EnterBackup, LeaveBackup, StartJob,
      RecordPrimaryCopy, FinishJob, Replicate, ReplicationDone,
      RestoreForVerify, MarkVerified, Raise, BackupFailed

(* restic forget, whole or in part, takes what is past its window.         *)
LEMMA RemovePromised ==
  ASSUME TypeOK, WindowInv, rt.pc = "forget", NEW part \in SUBSET rt.remove,
         vault' = vault \ part,
         rt'.pc = "mark" => rt'.remove = part,
         UNCHANGED <<now, used, row, granted, until>>
  PROVE  Promised
<1>1. MarkedGone'
  BY DEF MarkedGone
<1>2. \A s \in part : row[s] # "none" => granted[s] <= now
  BY DEF WindowInv, RemoveInv
<1>3. Promise!Remove
  BY <1>2 DEF Promise!Remove
<1> QED
  BY <1>1, <1>3 DEF Promised, Promise!Next

LEMMA RetentionPromised ==
  ASSUME TypeOK, WindowInv, MarkedGone, RetentionStep \/ RetentionFails
  PROVE  Promised
<1> USE DEF IdleRetention
<1>0. rt \in Maintenance
  BY DEF TypeOK
<1>1. CASE EnterRetention \/ ReadProtected \/ RetentionAborts
  <2>1. /\ UNCHANGED <<now, vault, used, row, granted, until>>
        /\ rt'.pc \in {"read", "preview", "idle"}
    <3>1. CASE EnterRetention \/ RetentionAborts
      BY <3>1 DEF EnterRetention, RetentionAborts
    <3>2. CASE ReadProtected
      <4>1. rt'.pc = "preview"
        BY <1>0, <3>2, Zenon DEF ReadProtected, Maintenance
      <4> QED
        BY <3>2, <4>1 DEF ReadProtected
    <3> QED
      BY <1>1, <3>1, <3>2
  <2> QED
    BY <2>1, HiddenStep
<1>2. ASSUME NEW listed \in SUBSET vault, Preview(listed)
      PROVE  Promised
  BY <1>2, HiddenStep DEF Preview
<1>3. CASE Forget
  BY <1>3, RemovePromised DEF Forget, TypeOK, Maintenance
<1>4. ASSUME NEW part \in SUBSET rt.remove, ForgetFails(part)
      PROVE  Promised
  BY <1>4, RemovePromised DEF ForgetFails
<1>5. CASE MarkExpired
  <2> DEFINE gone == {s \in rt.remove : row[s] # "none"}
  <2>1. gone \in SUBSET Snaps
    BY DEF TypeOK, Maintenance
  <2>2. \A s \in gone : s \notin vault /\ granted[s] <= now
    BY <1>5 DEF MarkExpired, MarkedGone, WindowInv, RemoveInv
  <2>3. /\ row' = [s \in Snaps |-> IF s \in gone /\ row[s] # "none"
                                     THEN "expired" ELSE row[s]]
        /\ UNCHANGED <<now, vault, used, granted, until>> /\ rt'.pc = "idle"
    BY <1>5 DEF MarkExpired
  <2> HIDE DEF gone
  <2>4. Promise!Expire(gone)
    BY <2>2, <2>3 DEF Promise!Expire
  <2> QED
    BY <2>1, <2>3, <2>4 DEF Promised, Promise!Next, MarkedGone
<1> QED
  BY <1>1, <1>2, <1>3, <1>4, <1>5 DEF RetentionStep, RetentionFails

LEMMA HoldPromised ==
  ASSUME TypeOK, WindowInv, MarkedGone, NEW h \in Holders, HoldStep(h)
  PROVE  Promised
<1>1. ASSUME NEW s \in Snaps, NEW d \in HoldDays, ReadForHold(h, s, d)
      PROVE  Promised
  BY <1>1, HiddenStep DEF ReadForHold
<1>2. CASE WriteHold(h)
  <2> DEFINE s == hd[h].snap
             end == IF hd[h].current >= hd[h].want THEN hd[h].current
                    ELSE hd[h].want
  <2>1. /\ s \in Snaps /\ row[s] # "none" /\ granted[s] <= hd[h].current
        /\ hd[h].current \in Nat /\ hd[h].want \in Nat
    BY <1>2 DEF WriteHold, WindowInv, HoldInv, TypeOK, Operator
  <2>2. granted[s] \in Nat /\ until \in [Snaps -> Nat]
    BY <2>1 DEF TypeOK, CatalogueOK
  <2>3. end \in Nat /\ end >= granted[s]
    BY <2>1, <2>2
  <2>4. /\ until' = [until EXCEPT ![s] = end]
        /\ UNCHANGED <<now, vault, used, row, granted, rt>>
    BY <1>2 DEF WriteHold
  <2> HIDE DEF s, end
  <2>5. Promise!Hold(s)
    BY <2>1, <2>2, <2>3, <2>4 DEF Promise!Hold
  <2> QED
    BY <2>1, <2>4, <2>5 DEF Promised, Promise!Next, MarkedGone
<1> QED
  BY <1>1, <1>2 DEF HoldStep

LEMMA NextPromised ==
  ASSUME TypeOK, WindowInv, MarkedGone, [Next]_vars
  PROVE  Promised
<1>1. CASE UNCHANGED vars
  BY <1>1, HiddenStep DEF vars
<1>2. CASE Tick
  <2>1. Promise!Tick
    BY <1>2 DEF Tick, Promise!Tick
  <2> QED
    BY <1>2, <2>1 DEF Tick, Promised, Promise!Next, MarkedGone
<1> QED
  BY <1>1, <1>2, BackupPromised, RetentionPromised, HoldPromised DEF Next

(* For any number of workers, operators and faults, and any retention      *)
(* policy the window proofs admit, the catalogue and the vault implement   *)
(* ImmutablePoints (_backup_vm, extend_immutability, retention).           *)
THEOREM ImmutableCorrect == Spec => PointsImmutable
<1>1. MarkedGone /\ TypeOK /\ WindowInv /\ [Next]_vars => MarkedGone'
  BY NextPromised DEF Promised
<1>2. TypeOK /\ WindowInv /\ MarkedGone /\ [Next]_vars
        => [Promise!Next]_Promise!promised
  BY NextPromised DEF Promised
<1> QED
  BY <1>1, <1>2, InitPromised, TypeCorrect, WindowCorrect, PTL
  DEF Spec, PointsImmutable, Promise!Spec

-----------------------------------------------------------------------------
(* The audit log: the walk over its chain.                                 *)

(* What the walk carries past row i, given what it carried before it. *)
Past(rows, i, before) ==
    IF i = 0 THEN GENESIS
    ELSE IF rows[i].hash = Null THEN _audit_hash(rows[i].body, before)
    ELSE rows[i].hash

(* f is the walk over the first n rows. *)
Walks(rows, f, n) == f = [i \in 0..n |-> Past(rows, i, f[i - 1])]

(* A walk is continued by one row. *)
LEMMA WalkFurther ==
  ASSUME NEW rows, NEW n \in Nat, NEW f, Walks(rows, f, n)
  PROVE  \E g : Walks(rows, g, n + 1)
<1> DEFINE g == [i \in 0..(n + 1) |->
                   IF i = n + 1 THEN Past(rows, i, f[n]) ELSE f[i]]
<1>1. DOMAIN f = 0..n /\ \A i \in 0..n : f[i] = Past(rows, i, f[i - 1])
  BY DEF Walks
<1>2. \A i \in 0..(n + 1) : g[i] = Past(rows, i, g[i - 1])
  <2>1. g[0] = Past(rows, 0, g[0 - 1])
    BY <1>1 DEF Past
  <2>2. ASSUME NEW i \in 1..n
        PROVE  g[i] = Past(rows, i, g[i - 1])
    BY <1>1
  <2>3. g[n + 1] = Past(rows, n + 1, g[n + 1 - 1])
    OBVIOUS
  <2> QED
    BY <2>1, <2>2, <2>3
<1>3. g = [i \in 0..(n + 1) |-> Past(rows, i, g[i - 1])]
  BY <1>2
<1> QED
  BY <1>3 DEF Walks

(* Every log can be walked to its end. *)
LEMMA WalkExists ==
  ASSUME NEW rows, NEW n \in Nat
  PROVE  \E f : Walks(rows, f, n)
<1> DEFINE T == {k \in Nat : ~ \E f : Walks(rows, f, k)}
<1>1. SUFFICES ASSUME T # {} PROVE FALSE
  OBVIOUS
<1>2. PICK a \in T : \A b \in T : ~(b < a)
  BY <1>1, LeastNumber
<1>3. Walks(rows, [i \in 0..0 |-> GENESIS], 0)
  BY DEF Walks, Past
<1>4. a # 0
  BY <1>3
<1>5. a - 1 \in Nat /\ a - 1 \notin T
  BY <1>2, <1>4
<1>6. PICK f : Walks(rows, f, a - 1)
  BY <1>5
<1>7. \E g : Walks(rows, g, a - 1 + 1)
  BY <1>5, <1>6, WalkFurther
<1> QED
  BY <1>7

(* The backfill and the verification carry what the recurrence says. *)
LEMMA CarriedWalks ==
  ASSUME NEW rows \in Seq(Event)
  PROVE  Walks(rows, Carried(rows), Len(rows))
<1>1. Carried(rows) = CHOOSE f : Walks(rows, f, Len(rows))
  BY DEF Carried, Walks, Past
<1>2. Len(rows) \in Nat
  OBVIOUS
<1> QED
  BY <1>1, <1>2, WalkExists, Zenon

(* Past a row with a hash the walk carries that hash.                      *)
LEMMA CarriedAt ==
  ASSUME NEW rows \in Seq(Event)
  PROVE  /\ Carried(rows)[0] = GENESIS
         /\ \A i \in 1..Len(rows) :
              Carried(rows)[i] = IF rows[i].hash = Null
                                   THEN _audit_hash(rows[i].body, Carried(rows)[i - 1])
                                   ELSE rows[i].hash
<1>1. Len(rows) \in Nat
  OBVIOUS
<1>2. \A i \in 0..Len(rows) :
        Carried(rows)[i] = Past(rows, i, Carried(rows)[i - 1])
  BY CarriedWalks DEF Walks
<1> QED
  BY <1>1, <1>2 DEF Past

(* A hash is one again, and determines the event and the hash before it.   *)
LEMMA HashType ==
  ASSUME NEW b \in Bodies, NEW h \in Seq(Bodies)
  PROVE  _audit_hash(b, h) \in Seq(Bodies)
  BY DEF _audit_hash

LEMMA HashInjective ==
  ASSUME NEW b \in Bodies, NEW c \in Bodies,
         NEW g \in Seq(Bodies), NEW h \in Seq(Bodies),
         _audit_hash(b, g) = _audit_hash(c, h)
  PROVE  b = c /\ g = h
<1>1. Len(g) + 1 = Len(h) + 1
  BY DEF _audit_hash
<1>2. b = c
  BY DEF _audit_hash
<1>3. ASSUME NEW i \in 1..Len(g)
      PROVE  g[i] = h[i]
  <2>1. (<<b>> \o g)[i + 1] = g[i] /\ (<<c>> \o h)[i + 1] = h[i]
    BY <1>1
  <2> QED
    BY <2>1 DEF _audit_hash
<1> QED
  BY <1>1, <1>2, <1>3

(* What is carried is a hash. *)
LEMMA CarriedType ==
  ASSUME NEW rows \in Seq(Event), NEW i \in 0..Len(rows)
  PROVE  Carried(rows)[i] \in Seq(Bodies)
<1> DEFINE T == {k \in 0..Len(rows) : Carried(rows)[k] \notin Seq(Bodies)}
<1>1. SUFFICES ASSUME T # {} PROVE FALSE
  OBVIOUS
<1>2. T \in SUBSET Nat
  OBVIOUS
<1>3. PICK a \in T : \A b \in T : ~(b < a)
  BY <1>1, <1>2, LeastNumber
<1>4. a # 0
  <2>1. GENESIS \in Seq(Bodies)
    BY DEF GENESIS
  <2>2. Carried(rows)[0] = GENESIS
    BY CarriedAt
  <2> QED
    BY <1>3, <2>1, <2>2
<1>5. a \in 1..Len(rows) /\ Carried(rows)[a - 1] \in Seq(Bodies)
  BY <1>3, <1>4
<1>6. rows[a] \in Event
  BY <1>5
<1>7. CASE rows[a].hash = Null
  BY <1>3, <1>5, <1>6, <1>7, CarriedAt, HashType DEF Event
<1>8. CASE rows[a].hash # Null
  BY <1>3, <1>5, <1>6, <1>8, CarriedAt DEF Event, Hashes
<1> QED
  BY <1>7, <1>8

-----------------------------------------------------------------------------
(* A log from before the chain, and one in which every event has a hash.   *)
Bare == \A i \in DOMAIN log : log[i].hash = Null
Whole(rows) == \A i \in DOMAIN rows : rows[i].hash # Null

(* The hashes a backfill of these rows would write are in the log.         *)
Written(rows) ==
    /\ Len(rows) <= Len(log)
    /\ \A i \in DOMAIN rows : /\ log[i].prev = Carried(rows)[i - 1]
                              /\ log[i].hash = Carried(rows)[i]

(* The first backfill to write makes a bare log whole; until then every    *)
(* other one has read the same log, and after it they change nothing.      *)
PhaseInv ==
    /\ Bare \/ Whole(log)
    /\ Opened => Whole(log)
    /\ \A i \in altered : log[i].hash # Null
    /\ \A p \in Procs : proc[p].pc = "backfill" =>
         /\ Bare => proc[p].seen = log
         /\ ~Bare => Whole(proc[p].seen) \/ Written(proc[p].seen)

(* A hash among the first n of the log, or the one before the first.       *)
Known(h, n) == h = GENESIS \/ \E k \in 1..n : log[k].hash = h

(* Each hash commits to a known one, and to the event unless it was        *)
(* changed; and so will those of the appends under way.                    *)
LinkInv ==
    \A i \in DOMAIN log : log[i].hash # Null =>
      /\ log[i].prev \in Seq(Bodies)
      /\ i \in altered <=> log[i].hash # _audit_hash(log[i].body, log[i].prev)
      /\ Known(log[i].prev, i - 1)

TailInv ==
    \A p \in Procs : proc[p].pc = "insert" => Known(proc[p].tail, Len(log))

(* While no two appends overlap, each event follows the one before it, and *)
(* the only append under way has read the last.                            *)
LastHash == IF log = <<>> THEN GENESIS ELSE log[Len(log)].hash
InOrder == \A i \in DOMAIN log :
             log[i].prev = IF i = 1 THEN GENESIS ELSE log[i - 1].hash

SoleInv ==
    raced = {} =>
      /\ Whole(log) => InOrder
      /\ \A p \in Procs : proc[p].pc = "insert" => proc[p].tail = LastHash
      /\ \A p, q \in Procs :
           proc[p].pc = "insert" /\ proc[q].pc = "insert" => p = q

ChainInv == AuditTypeOK /\ PhaseInv /\ LinkInv /\ TailInv /\ SoleInv

Proc == [pc : Pcs, seen : Seq(Event), tail : Seq(Bodies)]

LEMMA ClosedType == Closed \in Proc /\ [Closed EXCEPT !.pc = "ready"] \in Proc
<1>1. <<>> \in Seq(Event) /\ <<>> \in Seq(Bodies)
  OBVIOUS
<1> QED
  BY <1>1 DEF Closed, Proc, Pcs, GENESIS

LEMMA InitChain == AuditInit => ChainInv
<1> SUFFICES ASSUME AuditInit PROVE ChainInv
  OBVIOUS
<1>1. PICK n \in 0..Legacy : \E bodies \in [1..n -> Bodies] :
        log = [i \in 1..n |-> [body |-> bodies[i], prev |-> Null, hash |-> Null]]
  BY DEF AuditInit
<1>2. PICK bodies \in [1..n -> Bodies] :
        log = [i \in 1..n |-> [body |-> bodies[i], prev |-> Null, hash |-> Null]]
  BY <1>1
<1>3. n \in Nat
  BY AuditAssumption
<1>4. log \in [1..n -> Event]
  BY <1>2 DEF Event, Hashes
<1>5. log \in Seq(Event)
  BY <1>3, <1>4
<1>6. AuditTypeOK
  BY <1>5, ClosedType DEF AuditInit, AuditTypeOK, Proc
<1>7. Bare
  BY <1>2 DEF Bare
<1>8. \A p \in Procs : proc[p].pc = "new"
  BY DEF AuditInit, Closed
<1> QED
  BY <1>6, <1>7, <1>8
  DEF AuditInit, ChainInv, PhaseInv, Opened, LinkInv, TailInv, SoleInv,
      Whole, Bare, InOrder

(* The step of one process changes its own state alone.                    *)
LEMMA ProcUpdate ==
  ASSUME AuditTypeOK, NEW p \in Procs, NEW r \in Proc,
         proc' = [proc EXCEPT ![p] = r]
  PROVE  /\ proc' \in [Procs -> Proc]
         /\ proc'[p] = r
         /\ \A q \in Procs \ {p} : proc'[q] = proc[q]
  BY DEF AuditTypeOK, Proc

(* A process reads the log before it backfills.                            *)
LEMMA OpenChain ==
  ASSUME ChainInv, NEW p \in Procs, Open(p)
  PROVE  ChainInv'
<1> DEFINE r == [proc[p] EXCEPT !.pc = "backfill", !.seen = log]
<1>1. AuditTypeOK
  BY DEF ChainInv
<1>2. r \in Proc /\ r.pc = "backfill" /\ r.seen = log /\ r.tail = proc[p].tail
  BY <1>1 DEF AuditTypeOK, Proc, Pcs
<1>3. proc' = [proc EXCEPT ![p] = r] /\ UNCHANGED <<log, raced, altered>>
  BY <1>1 DEF Open, AuditTypeOK, Proc
<1> HIDE DEF r
<1>4. /\ proc' \in [Procs -> Proc] /\ proc'[p] = r
      /\ \A q \in Procs \ {p} : proc'[q] = proc[q]
  BY <1>1, <1>2, <1>3, ProcUpdate
<1>5. AuditTypeOK'
  BY <1>1, <1>3, <1>4 DEF AuditTypeOK, Proc
<1>6. PhaseInv'
  BY <1>2, <1>3, <1>4 DEF ChainInv, PhaseInv, Bare, Whole, Written, Opened
<1>7. LinkInv' /\ TailInv'
  BY <1>2, <1>3, <1>4 DEF ChainInv, LinkInv, TailInv, Known
<1>8. SoleInv'
  BY <1>2, <1>3, <1>4 DEF ChainInv, SoleInv, Whole, InOrder, LastHash
<1> QED
  BY <1>5, <1>6, <1>7, <1>8 DEF ChainInv

(* A process that ends or dies forgets what it read.                       *)
LEMMA ExitChain ==
  ASSUME ChainInv, NEW p \in Procs, Exit(p)
  PROVE  ChainInv'
<1>1. AuditTypeOK
  BY DEF ChainInv
<1>2. proc' = [proc EXCEPT ![p] = Closed] /\ UNCHANGED <<log, raced, altered>>
  BY DEF Exit
<1>3. Closed \in Proc /\ Closed.pc = "new"
  BY ClosedType DEF Closed
<1>4. /\ proc' \in [Procs -> Proc] /\ proc'[p] = Closed
      /\ \A q \in Procs \ {p} : proc'[q] = proc[q]
  BY <1>1, <1>2, <1>3, ProcUpdate
<1>5. AuditTypeOK'
  BY <1>1, <1>2, <1>4 DEF AuditTypeOK, Proc
<1>6. PhaseInv'
  BY <1>2, <1>3, <1>4 DEF ChainInv, PhaseInv, Bare, Whole, Written, Opened
<1>7. LinkInv' /\ TailInv'
  BY <1>2, <1>3, <1>4 DEF ChainInv, LinkInv, TailInv, Known
<1>8. SoleInv'
  BY <1>2, <1>3, <1>4 DEF ChainInv, SoleInv, Whole, InOrder, LastHash
<1> QED
  BY <1>5, <1>6, <1>7, <1>8 DEF ChainInv

(* A process reads the tail: only if no other append is under way does it  *)
(* stay the sole one.                                                      *)
LEMMA ReadTailChain ==
  ASSUME ChainInv, NEW p \in Procs, ReadTail(p)
  PROVE  ChainInv'
<1> DEFINE r == [proc[p] EXCEPT !.pc = "insert", !.tail = LastHash]
<1>1. AuditTypeOK /\ proc[p].pc = "ready" /\ Whole(log)
  BY DEF ChainInv, ReadTail, PhaseInv, Opened
<1>2. LastHash \in Seq(Bodies) /\ Known(LastHash, Len(log))
  <2>1. CASE log = <<>>
    BY <2>1 DEF LastHash, GENESIS, Known
  <2>2. CASE log # <<>>
    <3>1. Len(log) \in 1..Len(log) /\ Len(log) \in DOMAIN log
      BY <1>1, <2>2 DEF AuditTypeOK
    <3>2. log[Len(log)] \in Event /\ log[Len(log)].hash # Null
      BY <1>1, <3>1 DEF AuditTypeOK, Whole
    <3> QED
      BY <2>2, <3>1, <3>2 DEF LastHash, Known, Event, Hashes
  <2> QED
    BY <2>1, <2>2
<1>3. r \in Proc /\ r.pc = "insert" /\ r.tail = LastHash
  BY <1>1, <1>2 DEF AuditTypeOK, Proc, Pcs
<1>4. UNCHANGED <<log, altered>> /\ proc' = [proc EXCEPT ![p] = r]
  <2>1. log # <<>> => Len(log) \in DOMAIN log
    BY <1>1 DEF AuditTypeOK
  <2>2. LastHash = IF log = <<>> THEN GENESIS
                   ELSE IF log[Len(log)].hash = Null THEN GENESIS
                   ELSE log[Len(log)].hash
    BY <1>1, <2>1 DEF LastHash, Whole
  <2> QED
    BY <1>1, <2>2 DEF ReadTail, AuditTypeOK, Proc
<1> HIDE DEF r
<1>5. /\ proc' \in [Procs -> Proc] /\ proc'[p] = r
      /\ \A q \in Procs \ {p} : proc'[q] = proc[q]
  BY <1>1, <1>3, <1>4, ProcUpdate
<1>6. AuditTypeOK'
  BY <1>1, <1>4, <1>5 DEF AuditTypeOK, Proc, ReadTail
<1>7. PhaseInv'
  BY <1>1, <1>3, <1>4, <1>5 DEF ChainInv, PhaseInv, Bare, Whole, Written, Opened
<1>8. LinkInv' /\ TailInv'
  BY <1>2, <1>3, <1>4, <1>5 DEF ChainInv, LinkInv, TailInv, Known
<1>9. SoleInv'
  <2>1. raced' = {} => raced = {} /\ \A q \in Procs : proc[q].pc # "insert"
    BY DEF ReadTail
  <2> QED
    BY <1>3, <1>4, <1>5, <2>1 DEF ChainInv, SoleInv, Whole, InOrder, LastHash
<1> QED
  BY <1>6, <1>7, <1>8, <1>9 DEF ChainInv

(* A changed body no longer gives the stored hash.                         *)
LEMMA AlterChain ==
  ASSUME ChainInv, NEW i \in DOMAIN log, NEW body \in Bodies, Alter(i, body)
  PROVE  ChainInv'
<1>1. AuditTypeOK /\ i \notin altered /\ log[i].hash # Null
  BY DEF ChainInv, Alter
<1>2. /\ altered' = altered \cup {i} /\ UNCHANGED <<proc, raced>>
      /\ log' = [log EXCEPT ![i].body = body]
  BY DEF Alter
<1>3. \A k \in DOMAIN log : log[k] \in Event
  BY <1>1 DEF AuditTypeOK
<1>4. /\ log' \in Seq(Event) /\ DOMAIN log' = DOMAIN log
      /\ Len(log') = Len(log)
  <2>1. [log[i] EXCEPT !.body = body] \in Event
    BY <1>3 DEF Event
  <2>2. log' = [log EXCEPT ![i] = [log[i] EXCEPT !.body = body]]
    BY <1>2
  <2> QED
    BY <1>1, <2>1, <2>2 DEF AuditTypeOK
<1>5. /\ \A k \in DOMAIN log : /\ log'[k].hash = log[k].hash
                              /\ log'[k].prev = log[k].prev
      /\ \A k \in DOMAIN log \ {i} : log'[k] = log[k]
      /\ log'[i].body = body
  BY <1>2, <1>3 DEF Event
<1>6. ~Bare /\ ~Bare'
  BY <1>1, <1>4, <1>5 DEF Bare
<1>7. AuditTypeOK'
  BY <1>1, <1>2, <1>4 DEF AuditTypeOK
<1>8. PhaseInv'
  <2>1. Whole(log)'
    BY <1>4, <1>5, <1>6 DEF ChainInv, PhaseInv, Whole
  <2>2. \A rows : rows \in Seq(Event) /\ Written(rows) => Written(rows)'
    BY <1>4, <1>5, <1>1 DEF Written, AuditTypeOK
  <2> QED
    BY <1>1, <1>2, <1>4, <1>5, <1>6, <2>1, <2>2
    DEF ChainInv, PhaseInv, Opened, AuditTypeOK, Whole
<1>9. LinkInv'
  <2>1. log[i].body # body
    BY DEF Alter
  <2>2. /\ log[i].prev \in Seq(Bodies)
        /\ log[i].hash = _audit_hash(log[i].body, log[i].prev)
    BY <1>1 DEF ChainInv, LinkInv
  <2>3. log[i].hash # _audit_hash(body, log[i].prev)
    BY <1>3, <2>1, <2>2, HashInjective DEF Event
  <2>4. \A k \in DOMAIN log : \A h : Known(h, k - 1) => Known(h, k - 1)'
    BY <1>1, <1>4, <1>5 DEF Known, AuditTypeOK
  <2> QED
    BY <1>1, <1>2, <1>4, <1>5, <2>3, <2>4 DEF ChainInv, LinkInv
<1>10. TailInv'
  BY <1>1, <1>2, <1>4, <1>5 DEF ChainInv, TailInv, Known, AuditTypeOK
<1>11. SoleInv'
  <2>1. LastHash' = LastHash
    BY <1>1, <1>4, <1>5 DEF LastHash, AuditTypeOK
  <2>2. InOrder => InOrder'
    BY <1>1, <1>4, <1>5 DEF InOrder, AuditTypeOK
  <2>3. Whole(log)
    BY <1>6 DEF ChainInv, PhaseInv
  <2> QED
    BY <1>2, <2>1, <2>2, <2>3 DEF ChainInv, SoleInv
<1> QED
  BY <1>7, <1>8, <1>9, <1>10, <1>11 DEF ChainInv

(* The event is appended after what its process read.                      *)
LEMMA InsertChain ==
  ASSUME ChainInv, NEW p \in Procs, NEW body \in Bodies, Insert(p, body)
  PROVE  ChainInv'
<1>0. PICK n \in Nat, t \in Seq(Bodies) : n = Len(log) /\ t = proc[p].tail
  <2>1. Len(log) \in Nat /\ proc[p].tail \in Seq(Bodies)
    BY DEF ChainInv, AuditTypeOK
  <2> QED
    BY <2>1
<1> DEFINE r == [Closed EXCEPT !.pc = "ready"]
           e == [body |-> body, prev |-> t, hash |-> _audit_hash(body, t)]
<1>1. AuditTypeOK /\ proc[p].pc = "insert" /\ Whole(log)
  BY DEF ChainInv, Insert, PhaseInv, Opened
<1>2. /\ proc' = [proc EXCEPT ![p] = r] /\ UNCHANGED <<raced, altered>>
      /\ log' = Append(log, e)
  BY <1>0 DEF Insert
<1>3. r \in Proc /\ r.pc = "ready"
  BY ClosedType DEF Closed
<1> HIDE DEF r
<1>4. /\ proc' \in [Procs -> Proc] /\ proc'[p] = r
      /\ \A q \in Procs \ {p} : proc'[q] = proc[q]
  BY <1>1, <1>2, <1>3, ProcUpdate
<1>5. Known(t, n)
  BY <1>0, <1>1 DEF ChainInv, TailInv
<1>6. /\ e \in Event /\ e.prev = t /\ e.body = body
      /\ e.hash = _audit_hash(e.body, e.prev) /\ e.hash # Null
  BY HashType, NullAssumption DEF Event, Hashes
<1> HIDE DEF e
<1>7. /\ log \in Seq(Event) /\ n = Len(log) /\ DOMAIN log = 1..n
      /\ log' \in Seq(Event) /\ Len(log') = n + 1 /\ DOMAIN log' = 1..(n + 1)
      /\ log'[n + 1] = e /\ \A k \in 1..n : log'[k] = log[k]
  BY <1>0, <1>1, <1>2, <1>6 DEF AuditTypeOK
<1>8. AuditTypeOK'
  BY <1>1, <1>2, <1>4, <1>7 DEF AuditTypeOK, Proc
<1>9. Whole(log)' /\ ~Bare'
  BY <1>1, <1>6, <1>7 DEF Whole, Bare
<1>10. PhaseInv'
  <2>1. \A rows : rows \in Seq(Event) /\ Written(rows) => Written(rows)'
    BY <1>7 DEF Written
  <2>2. \A i \in altered : log'[i].hash # Null
    BY <1>1, <1>7 DEF ChainInv, PhaseInv, AuditTypeOK
  <2>3. ASSUME NEW q \in Procs, proc'[q].pc = "backfill"
        PROVE  Whole(proc[q].seen) \/ Written(proc[q].seen)
    <3>1. proc[q].pc = "backfill"
      BY <1>3, <1>4, <2>3
    <3>2. Bare => Whole(proc[q].seen)
      BY <1>1, <3>1 DEF ChainInv, PhaseInv
    <3> QED
      BY <3>1, <3>2 DEF ChainInv, PhaseInv
  <2>4. \A q \in Procs : proc'[q].pc = "backfill" => proc'[q].seen = proc[q].seen
    BY <1>3, <1>4
  <2>5. \A q \in Procs : proc[q].seen \in Seq(Event)
    BY <1>1 DEF AuditTypeOK
  <2> QED
    BY <1>2, <1>9, <2>1, <2>2, <2>3, <2>4, <2>5 DEF PhaseInv, Whole
<1>11. \A h, k : k \in 0..n /\ Known(h, k) => Known(h, k)'
  BY <1>7 DEF Known
<1>12. LinkInv'
  <2>1. ASSUME NEW i \in 1..n
        PROVE  /\ log[i].prev \in Seq(Bodies)
               /\ i \in altered
                    <=> log[i].hash # _audit_hash(log[i].body, log[i].prev)
               /\ Known(log[i].prev, i - 1)
    BY <1>1, <1>7 DEF ChainInv, LinkInv, Whole
  <2>2. n + 1 \notin altered
    BY <1>1, <1>7 DEF AuditTypeOK
  <2>3. \A i \in 1..n : Known(log[i].prev, i - 1)'
    BY <1>7, <1>11, <2>1
  <2>4. Known(e.prev, n)'
    BY <1>5, <1>6, <1>11
  <2> QED
    BY <1>2, <1>5, <1>6, <1>7, <2>1, <2>2, <2>3, <2>4 DEF LinkInv
<1>13. TailInv'
  <2>1. ASSUME NEW q \in Procs, proc'[q].pc = "insert"
        PROVE  /\ proc[q].pc = "insert" /\ proc'[q].tail = proc[q].tail
    BY <1>3, <1>4, <2>1
  <2>2. ASSUME NEW h, Known(h, n)
        PROVE  h = GENESIS \/ \E k \in 1..(n + 1) : log'[k].hash = h
    BY <1>7, <2>2 DEF Known
  <2> QED
    BY <1>7, <2>1, <2>2 DEF ChainInv, TailInv, Known
<1>14. SoleInv'
  <2>1. SUFFICES ASSUME raced = {}
                 PROVE  /\ InOrder'
                        /\ \A q \in Procs : proc'[q].pc # "insert"
    BY <1>2 DEF SoleInv
  <2>2. \A q \in Procs : proc'[q].pc # "insert"
    BY <1>1, <1>3, <1>4, <2>1 DEF ChainInv, SoleInv
  <2>3. e.prev = LastHash /\ InOrder
    BY <1>0, <1>1, <1>6, <2>1 DEF ChainInv, SoleInv
  <2>4. \A i \in 1..n : log'[i].prev = IF i = 1 THEN GENESIS ELSE log'[i - 1].hash
    BY <1>7, <2>3 DEF InOrder
  <2>5. log'[n + 1].prev = IF n + 1 = 1 THEN GENESIS ELSE log'[n].hash
    <3>1. n = 0 <=> log = <<>>
      BY <1>7
    <3> QED
      BY <1>7, <2>3, <3>1 DEF LastHash
  <2> QED
    BY <1>7, <2>2, <2>4, <2>5 DEF InOrder
<1> QED
  BY <1>8, <1>10, <1>12, <1>13, <1>14 DEF ChainInv

(* Only the first backfill to write changes the log: it hashes a bare log  *)
(* from its first event to its last, and no event but its columns.         *)
LEMMA BackfillWrites ==
  ASSUME ChainInv, NEW p \in Procs, _backfill_audit_hashes(p)
  PROVE  \/ ~Bare /\ log' = log
         \/ /\ Bare /\ proc[p].seen = log
            /\ log' \in Seq(Event) /\ Len(log') = Len(log)
            /\ \A i \in 1..Len(log) : /\ log'[i].body = log[i].body
                                      /\ log'[i].prev = Carried(log)[i - 1]
                                      /\ log'[i].hash = Carried(log)[i]
<1> DEFINE seen == proc[p].seen
           C == Carried(seen)
<1>1. AuditTypeOK /\ proc[p].pc = "backfill" /\ seen \in Seq(Event)
  BY DEF ChainInv, AuditTypeOK, _backfill_audit_hashes
<1>2. log' = [i \in DOMAIN log |->
                IF i \in DOMAIN seen /\ seen[i].hash = Null
                  THEN [log[i] EXCEPT !.prev = C[i - 1], !.hash = C[i]]
                  ELSE log[i]]
  BY DEF _backfill_audit_hashes
<1>3. \A i \in DOMAIN log : log[i] \in Event
  BY <1>1 DEF AuditTypeOK
<1>4. /\ log \in Seq(Event) /\ DOMAIN log = 1..Len(log) /\ Len(log) \in Nat
      /\ log = [i \in DOMAIN log |-> log[i]]
  BY <1>1 DEF AuditTypeOK
<1> HIDE DEF C
<1>5. CASE ~Bare
  <2>1. Whole(seen) \/ Written(seen)
    BY <1>1, <1>5 DEF ChainInv, PhaseInv
  <2>2. ASSUME NEW i \in DOMAIN log, i \in DOMAIN seen, seen[i].hash = Null
        PROVE  [log[i] EXCEPT !.prev = C[i - 1], !.hash = C[i]] = log[i]
    <3>1. log[i].prev = C[i - 1] /\ log[i].hash = C[i]
      BY <2>1, <2>2 DEF Whole, Written, C
    <3> QED
      BY <1>3, <3>1 DEF Event
  <2>3. log' = [i \in DOMAIN log |-> log[i]]
    BY <1>2, <2>2
  <2> QED
    BY <1>4, <1>5, <2>3
<1>6. CASE Bare
  <2>1. seen = log
    BY <1>1, <1>6 DEF ChainInv, PhaseInv
  <2>2. log' = [i \in DOMAIN log |->
                  [log[i] EXCEPT !.prev = C[i - 1], !.hash = C[i]]]
    BY <1>2, <1>6, <2>1 DEF Bare
  <2>3. ASSUME NEW i \in 1..Len(log)
        PROVE  /\ log'[i] \in Event /\ log'[i].body = log[i].body
               /\ log'[i].prev = C[i - 1] /\ log'[i].hash = C[i]
    <3>1. C[i - 1] \in Hashes /\ C[i] \in Hashes
      BY <1>1, <1>4, <2>1, CarriedType DEF Hashes, C
    <3> QED
      BY <1>3, <1>4, <2>2, <3>1 DEF Event
  <2>4. log' \in [1..Len(log) -> Event]
    BY <1>4, <2>2, <2>3
  <2>5. log' \in Seq(Event) /\ Len(log') = Len(log)
    BY <1>4, <2>4
  <2> QED
    BY <1>6, <2>1, <2>3, <2>5 DEF C
<1> QED
  BY <1>5, <1>6

LEMMA BackfillChain ==
  ASSUME ChainInv, NEW p \in Procs, _backfill_audit_hashes(p)
  PROVE  ChainInv'
<1>0. PICK rows \in Seq(Event), n \in Nat : rows = log /\ n = Len(log)
  <2>1. log \in Seq(Event) /\ Len(log) \in Nat
    BY DEF ChainInv, AuditTypeOK
  <2> QED
    BY <2>1
<1> DEFINE r == [Closed EXCEPT !.pc = "ready"]
           C == Carried(rows)
<1>1. AuditTypeOK /\ proc[p].pc = "backfill" /\ DOMAIN log = 1..n
  <2>1. AuditTypeOK /\ proc[p].pc = "backfill"
    BY DEF ChainInv, _backfill_audit_hashes
  <2>2. DOMAIN rows = 1..Len(rows)
    OBVIOUS
  <2> QED
    BY <1>0, <2>1, <2>2
<1>2. proc' = [proc EXCEPT ![p] = r] /\ UNCHANGED <<raced, altered>>
  BY DEF _backfill_audit_hashes
<1>3. r \in Proc /\ r.pc = "ready"
  BY ClosedType DEF Closed
<1> HIDE DEF r
<1>4. /\ proc' \in [Procs -> Proc] /\ proc'[p] = r
      /\ \A q \in Procs \ {p} : proc'[q] = proc[q]
  BY <1>1, <1>2, <1>3, ProcUpdate
<1>5. CASE ~Bare /\ log' = log
  <2>1. AuditTypeOK'
    BY <1>1, <1>2, <1>4, <1>5 DEF AuditTypeOK, Proc
  <2>2. PhaseInv'
    BY <1>2, <1>3, <1>4, <1>5 DEF ChainInv, PhaseInv, Bare, Whole, Written
  <2>3. LinkInv' /\ TailInv'
    BY <1>2, <1>3, <1>4, <1>5 DEF ChainInv, LinkInv, TailInv, Known
  <2>4. SoleInv'
    BY <1>2, <1>3, <1>4, <1>5 DEF ChainInv, SoleInv, Whole, InOrder, LastHash
  <2> QED
    BY <2>1, <2>2, <2>3, <2>4 DEF ChainInv
<1>6. CASE Bare /\ log' # log
  <2>1. /\ log' \in Seq(Event) /\ Len(log') = n /\ DOMAIN log' = 1..n
        /\ \A i \in 1..n : /\ log'[i].body = log[i].body
                          /\ log'[i].prev = C[i - 1] /\ log'[i].hash = C[i]
    BY <1>0, <1>6, BackfillWrites
  <2>2. n \in Nat \ {0}
    <3>1. n = 0 => log' = log
      BY <1>0, <1>1, <2>1
    <3> QED
      BY <1>6, <3>1
  <2>3. \A i \in 1..n : rows[i].hash = Null /\ rows[i].body \in Bodies
    <3>1. \A i \in 1..n : rows[i] \in Event
      BY <1>0, <1>1
    <3>2. \A i \in 1..n : rows[i].hash = Null
      BY <1>0, <1>1, <1>6 DEF Bare
    <3> QED
      BY <3>1, <3>2 DEF Event
  <2>4. C[0] = GENESIS /\ \A i \in 0..n : C[i] \in Seq(Bodies)
    BY <1>0, CarriedAt, CarriedType
  <2>5. \A i \in 1..n : C[i] = _audit_hash(rows[i].body, C[i - 1])
    BY <1>0, <2>3, CarriedAt
  <2> HIDE DEF C
  <2>6. Whole(log)' /\ ~Bare'
    <3>1. ASSUME NEW i \in 1..n
          PROVE  log'[i].hash # Null
      <4>1. log'[i].hash = C[i] /\ i \in 0..n
        BY <2>1
      <4>2. C[i] \in Seq(Bodies)
        BY <2>4, <4>1
      <4> QED
        BY <4>1, <4>2, NullAssumption
    <3>2. DOMAIN log' = 1..n /\ 1 \in 1..n
      BY <2>1, <2>2
    <3> QED
      BY <3>1, <3>2 DEF Whole, Bare
  <2>7. altered = {} /\ \A q \in Procs : proc[q].pc \notin {"ready", "insert"}
    <3>1. altered = {}
      BY <1>1, <1>6 DEF ChainInv, PhaseInv, Bare, AuditTypeOK
    <3>2. ~Whole(log)
      <4>1. 1 \in DOMAIN log
        BY <1>1, <2>2
      <4> QED
        BY <1>6, <4>1 DEF Whole, Bare
    <3> QED
      BY <3>1, <3>2 DEF ChainInv, PhaseInv, Opened
  <2>8. AuditTypeOK'
    BY <1>1, <1>2, <1>4, <2>1, <2>7 DEF AuditTypeOK, Proc
  <2>9. PhaseInv'
    <3>1. ASSUME NEW q \in Procs, proc'[q].pc = "backfill"
          PROVE  Written(proc[q].seen)' /\ proc'[q].seen = rows
      <4>1. proc'[q] = proc[q] /\ proc[q].seen = rows
        BY <1>0, <1>3, <1>4, <1>6, <3>1 DEF ChainInv, PhaseInv
      <4>2. \A i \in DOMAIN rows : /\ log'[i].prev = Carried(rows)[i - 1]
                                  /\ log'[i].hash = Carried(rows)[i]
        BY <1>0, <1>1, <2>1 DEF C
      <4> QED
        BY <1>0, <2>1, <4>1, <4>2 DEF Written
    <3> QED
      BY <1>2, <2>6, <2>7, <3>1 DEF PhaseInv
  <2>10. LinkInv'
    <3>1. ASSUME NEW i \in 1..n
          PROVE  /\ log'[i].prev \in Seq(Bodies)
                 /\ log'[i].hash = _audit_hash(log'[i].body, log'[i].prev)
                 /\ \/ log'[i].prev = GENESIS
                    \/ \E k \in 1..(i - 1) : log'[k].hash = log'[i].prev
      <4>1. log'[i].prev \in Seq(Bodies)
        <5>1. log'[i].prev = C[i - 1] /\ i - 1 \in 0..n
          BY <2>1
        <5> QED
          BY <2>4, <5>1
      <4>2. log'[i].hash = _audit_hash(log'[i].body, log'[i].prev)
        BY <1>0, <2>1, <2>5
      <4>3. CASE i = 1
        BY <2>1, <2>4, <4>1, <4>2, <4>3
      <4>4. CASE i # 1
        <5>1. i - 1 \in 1..(i - 1) /\ log'[i - 1].hash = log'[i].prev
          BY <2>1, <4>4
        <5> QED
          BY <4>1, <4>2, <5>1
      <4> QED
        BY <4>3, <4>4
    <3> QED
      BY <1>2, <2>1, <2>7, <3>1 DEF LinkInv, Known
  <2>11. \A q \in Procs : proc'[q].pc # "insert"
    BY <1>3, <1>4, <2>7
  <2>12. InOrder'
    BY <2>1, <2>4 DEF InOrder
  <2> QED
    BY <2>8, <2>9, <2>10, <2>11, <2>12 DEF ChainInv, TailInv, SoleInv
<1>7. CASE Bare /\ log' = log
  <2>1. Whole(log)
    <3>1. ASSUME log # <<>> PROVE FALSE
      <4>1. 1 \in 1..n /\ log[1].hash = Null
        BY <1>0, <1>1, <1>7, <3>1 DEF Bare
      <4>2. log'[1].hash = Carried(log)[1] /\ Carried(log)[1] \in Seq(Bodies)
        BY <1>0, <1>7, <4>1, BackfillWrites, CarriedType
      <4> QED
        BY <1>7, <4>1, <4>2, NullAssumption
    <3> QED
      BY <3>1 DEF Whole
  <2>2. AuditTypeOK'
    BY <1>1, <1>2, <1>4, <1>7 DEF AuditTypeOK, Proc
  <2>3. PhaseInv'
    BY <1>2, <1>3, <1>4, <1>7, <2>1
    DEF ChainInv, PhaseInv, Bare, Whole, Written, Opened
  <2>4. LinkInv' /\ TailInv'
    BY <1>2, <1>3, <1>4, <1>7 DEF ChainInv, LinkInv, TailInv, Known
  <2>5. SoleInv'
    BY <1>2, <1>3, <1>4, <1>7 DEF ChainInv, SoleInv, Whole, InOrder, LastHash
  <2> QED
    BY <2>2, <2>3, <2>4, <2>5 DEF ChainInv
<1> QED
  BY <1>5, <1>6, <1>7, BackfillWrites

LEMMA AuditStutter ==
  ASSUME ChainInv, UNCHANGED auditVars
  PROVE  ChainInv'
<1> USE DEF auditVars
<1>1. AuditTypeOK'
  BY DEF ChainInv, AuditTypeOK
<1>2. PhaseInv' /\ LinkInv' /\ TailInv'
  BY DEF ChainInv, PhaseInv, Bare, Whole, Written, Opened, LinkInv, TailInv, Known
<1>3. SoleInv'
  BY DEF ChainInv, SoleInv, Whole, InOrder, LastHash
<1> QED
  BY <1>1, <1>2, <1>3 DEF ChainInv

LEMMA NextChain ==
  ASSUME ChainInv, [AuditNext]_auditVars
  PROVE  ChainInv'
<1>1. CASE AuditNext
  BY <1>1, OpenChain, BackfillChain, ReadTailChain, ExitChain, InsertChain,
     AlterChain DEF AuditNext
<1>2. CASE UNCHANGED auditVars
  BY <1>2, AuditStutter
<1> QED
  BY <1>1, <1>2

(* In every reachable state the log is chained as ChainInv says, however   *)
(* many processes open it, append to it and die (StateDB.audit).           *)
LEMMA ChainInvariant == AuditSpec => []ChainInv
  BY InitChain, NextChain, PTL DEF AuditSpec

(* Over a whole log the walk carries the stored hashes.                    *)
LEMMA WalkOfWhole ==
  ASSUME ChainInv, Whole(log), NEW i \in DOMAIN log
  PROVE  Carried(log)[i - 1] = IF i = 1 THEN GENESIS ELSE log[i - 1].hash
<1>1. log \in Seq(Event) /\ DOMAIN log = 1..Len(log) /\ Len(log) \in Nat
  BY DEF ChainInv, AuditTypeOK
<1> QED
  BY <1>1, CarriedAt DEF Whole

LEMMA ReportsExactly ==
  ASSUME ChainInv PROVE ChainValid
<1> SUFFICES ASSUME Opened, raced = {}
             PROVE  verify_audit_chain = altered
  BY DEF ChainValid
<1>1. Whole(log) /\ altered \subseteq DOMAIN log
  BY DEF ChainInv, PhaseInv, AuditTypeOK
<1>2. ASSUME NEW i \in DOMAIN log
      PROVE  log[i].prev = Carried(log)[i - 1]
  BY <1>1, WalkOfWhole DEF ChainInv, SoleInv, InOrder
<1>3. ASSUME NEW i \in DOMAIN log
      PROVE  i \in altered <=> log[i].hash # _audit_hash(log[i].body, log[i].prev)
  BY <1>1 DEF ChainInv, LinkInv, Whole
<1> QED
  BY <1>1, <1>2, <1>3 DEF verify_audit_chain

LEMMA ReportsAltered ==
  ASSUME ChainInv PROVE AlteredReported
<1> SUFFICES ASSUME NEW i \in altered,
                    log[i].prev = Carried(log)[i - 1]
             PROVE  log[i].hash # _audit_hash(log[i].body, Carried(log)[i - 1])
  BY DEF AlteredReported, verify_audit_chain, ChainInv, AuditTypeOK
<1>1. i \in DOMAIN log /\ log[i].hash # Null
  BY DEF ChainInv, AuditTypeOK, PhaseInv
<1> QED
  BY <1>1 DEF ChainInv, LinkInv

LEMMA LinksHold ==
  ASSUME ChainInv PROVE EventsLinked
  BY DEF ChainInv, LinkInv, Known, EventsLinked

(* However many processes open the database, backfill, append and die, as  *)
(* long as no two appends overlap verify_audit_chain reports exactly the   *)
(* events that were changed.                                               *)
THEOREM ChainValidCorrect == AuditSpec => []ChainValid
  BY ChainInvariant, ReportsExactly, PTL

(* verify_audit_chain reports every changed event, races or not.           *)
THEOREM AlteredCorrect == AuditSpec => []AlteredReported
  BY ChainInvariant, ReportsAltered, PTL

(* A race of audit() calls forks the chain but never breaks a link.        *)
THEOREM LinkedCorrect == AuditSpec => []EventsLinked
  BY ChainInvariant, LinksHold, PTL

(* No step rewrites a stored hash.                                         *)
HashKept(i) ==
    log[i].hash # Null =>
      /\ i \in DOMAIN log'
      /\ log'[i].hash = log[i].hash /\ log'[i].prev = log[i].prev

LEMMA StepKeepsHashes ==
  ASSUME ChainInv, AuditNext, NEW i \in DOMAIN log
  PROVE  HashKept(i)
<1>1. log \in Seq(Event) /\ DOMAIN log = 1..Len(log) /\ log[i] \in Event
  BY DEF ChainInv, AuditTypeOK
<1>2. CASE log' = log
  BY <1>2 DEF HashKept
<1>3. ASSUME NEW p \in Procs, _backfill_audit_hashes(p)
      PROVE  HashKept(i)
  BY <1>3, BackfillWrites DEF HashKept, Bare
<1>4. ASSUME NEW p \in Procs, NEW body \in Bodies, Insert(p, body)
      PROVE  HashKept(i)
  <2>1. PICK e : log' = Append(log, e)
    BY <1>4 DEF Insert
  <2> QED
    BY <1>1, <2>1 DEF HashKept
<1>5. ASSUME NEW k \in DOMAIN log, NEW body \in Bodies, Alter(k, body)
      PROVE  HashKept(i)
  <2>1. log' = [log EXCEPT ![k].body = body]
    BY <1>5 DEF Alter
  <2> QED
    BY <1>1, <2>1 DEF HashKept, Event
<1> QED
  BY <1>2, <1>3, <1>4, <1>5 DEF AuditNext, Open, ReadTail, Exit

(* No append, backfill or alteration rewrites a hash that is stored, and   *)
(* of two backfills (_backfill_audit_hashes) the later changes nothing.    *)
THEOREM HashesKeptCorrect == AuditSpec => HashesKept
<1>1. ChainInv /\ [AuditNext]_auditVars
        => [\A i \in DOMAIN log : HashKept(i)]_auditVars
  BY StepKeepsHashes
<1>2. [\A i \in DOMAIN log : HashKept(i)]_auditVars
        => [\A i \in DOMAIN log : log[i].hash # Null =>
              /\ i \in DOMAIN log'
              /\ log'[i].hash = log[i].hash /\ log'[i].prev = log[i].prev]_auditVars
  BY DEF HashKept
<1> QED
  BY <1>1, <1>2, ChainInvariant, PTL DEF AuditSpec, HashesKept
=============================================================================
