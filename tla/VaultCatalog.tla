---------------------------- MODULE VaultCatalog ----------------------------
(***************************************************************************)
(* The recovery-point catalogue (the SQLite tables of StateDB) and the     *)
(* restic vault it describes, with the processes that change them:         *)
(*   - backup workers: BackupEngine.backup_all, run by the daily timer and *)
(*     by the protection policies under the exclusive file lock, and the   *)
(*     final backups of a DR failback, which call _backup_vm without it;   *)
(*   - retention, the root-only maintenance job, under the same lock;      *)
(*   - operators who extend a point's immutability (hold_recovery_point).  *)
(* Every StateDB method opens its own connection and SQLite's legacy       *)
(* isolation starts a transaction only at the first write, so a method     *)
(* that SELECTs and then UPDATEs is two steps here. A crash may come       *)
(* between any two steps. Time counts days.                                *)
(***************************************************************************)
EXTENDS Naturals, FiniteSets

CONSTANTS
    Snaps,              \* restic snapshot ids
    VMs,                \* protected VMs; restic groups snapshots by their tags
    Workers,            \* processes that run backups
    Unlocked,           \* the workers that are DR failbacks: no file lock
    Holders,            \* operator threads that extend immutability
    Replicas,           \* enabled replica targets
    Retention,          \* the maintenance process, as a holder of the lock
    Nil,                \* no lock holder, no snapshot, no VM
    KeepWithin,         \* repository.retention.keep_within_days
    MinRestorePoints,   \* repository.retention.min_restore_points
    PolicyDays,         \* immutable_days of the policies and of the default
    PreserveSuspicious, \* protection.preserve_suspicious_points_days
    HoldDays,           \* the days an operator may ask for
    VerifyAfterBackup,  \* protection.verify_after_backup
    Span,               \* days from a job's start to its catalogue row, and
                        \* of a retention preview: command_timeout_seconds
    MaxTime, MaxJobs, MaxFaults  \* bounds of the clock, the jobs, the faults

ASSUME DaysAssumption ==
    /\ KeepWithin \in Nat /\ MinRestorePoints \in Nat \ {0}
    /\ PolicyDays \subseteq Nat \ {0} /\ PreserveSuspicious \in Nat
    /\ HoldDays \subseteq Nat \ {0}
    /\ MaxTime \in Nat /\ MaxJobs \in Nat /\ MaxFaults \in Nat

(* command_timeout_seconds is hours where keep_within_days is days. *)
ASSUME SpanAssumption == Span \in Nat /\ 2 * Span < KeepWithin

ASSUME NamesAssumption ==
    /\ Nil \notin Snaps /\ Nil \notin Workers /\ Nil # Retention
    /\ Retention \notin Workers /\ Unlocked \subseteq Workers
    /\ VerifyAfterBackup \in BOOLEAN

VARIABLES
    now,       \* the clock
    used,      \* snapshot ids restic has issued
    vault,     \* snapshots in the primary repository
    stamp,     \* the time restic recorded for a snapshot
    vmOf,      \* the VM a snapshot's tags name
    row,       \* recovery_points: no row, a row, a row with expired=1
    until,     \* recovery_points.immutable_until
    created,   \* recovery_points.created_at
    granted,   \* history: the immutable_until the backup wrote
    verified,  \* points with verified=1
    copies,    \* recovery_copies: <<snapshot, target>> of status success
    replica,   \* <<snapshot, target>> stored in a replica repository
    jobs,      \* the jobs table: status and snapshot of each job
    lock,      \* the holder of repository.lock_file
    bk,        \* the state of each backup worker
    rt,        \* the state of the retention process
    hd,        \* the state of each operator
    crashes,   \* backup processes killed so far
    aborts     \* maintenance runs that failed or were killed so far

catalogue == <<row, until, created, granted, verified, copies>>
store == <<used, vault, stamp, vmOf>>
vars == <<now, used, vault, stamp, vmOf, row, until, created, granted,
          verified, copies, replica, jobs, lock, bk, rt, hd, crashes, aborts>>
faults == <<crashes, aborts>>

JobIds == 1..MaxJobs
Targets == Replicas \cup {"primary"}
TryPcs == {"export", "stored", "catalogued", "copied", "replicate",
           "verify", "mark"}

Job == [status : {"absent", "running", "success", "failed"},
        snap : Snaps \cup {Nil}]
Worker == [pc : {"idle", "pick", "fail"} \cup TryPcs,
           vm : VMs \cup {Nil}, t0 : Nat, snap : Snaps \cup {Nil},
           job : JobIds \cup {0}, left : SUBSET Replicas]
Maintenance == [pc : {"idle", "read", "preview", "forget", "mark"},
                asOf : Nat, protected : SUBSET Snaps, remove : SUBSET Snaps]
Operator == [pc : {"idle", "write"}, snap : Snaps \cup {Nil},
             want : Nat, current : Nat]

StoreOK ==
    /\ now \in Nat
    /\ used \subseteq Snaps /\ vault \subseteq used
    /\ stamp \in [Snaps -> Nat] /\ vmOf \in [Snaps -> VMs \cup {Nil}]
    /\ replica \subseteq Snaps \X Replicas
    /\ lock \in Workers \cup {Retention, Nil}
    /\ crashes \in Nat /\ aborts \in Nat

CatalogueOK ==
    /\ row \in [Snaps -> {"none", "live", "expired"}]
    /\ until \in [Snaps -> Nat] /\ created \in [Snaps -> Nat]
    /\ granted \in [Snaps -> Nat]
    /\ verified \subseteq Snaps
    /\ copies \subseteq Snaps \X Targets
    /\ jobs \in [JobIds -> Job]

WorkersOK ==
    /\ bk \in [Workers -> Worker]
    /\ \A w \in Workers : bk[w].pc \in TryPcs \ {"export"} => bk[w].snap \in Snaps

(* The type of the state; a worker past restic backup has a snapshot id. *)
TypeOK ==
    /\ StoreOK /\ CatalogueOK /\ WorkersOK
    /\ rt \in Maintenance
    /\ hd \in [Holders -> Operator]

IdleWorker == [pc |-> "idle", vm |-> Nil, t0 |-> 0, snap |-> Nil,
               job |-> 0, left |-> {}]
IdleRetention == [pc |-> "idle", asOf |-> 0, protected |-> {}, remove |-> {}]
IdleOperator == [pc |-> "idle", snap |-> Nil, want |-> 0, current |-> 0]

Init ==
    /\ now = 0
    /\ used = {} /\ vault = {}
    /\ stamp = [s \in Snaps |-> 0] /\ vmOf = [s \in Snaps |-> Nil]
    /\ row = [s \in Snaps |-> "none"]
    /\ until = [s \in Snaps |-> 0] /\ created = [s \in Snaps |-> 0]
    /\ granted = [s \in Snaps |-> 0]
    /\ verified = {} /\ copies = {} /\ replica = {}
    /\ jobs = [j \in JobIds |-> [status |-> "absent", snap |-> Nil]]
    /\ lock = Nil
    /\ bk = [w \in Workers |-> IdleWorker]
    /\ rt = IdleRetention
    /\ hd = [h \in Holders |-> IdleOperator]
    /\ crashes = 0 /\ aborts = 0

-----------------------------------------------------------------------------
(* Queries of StateDB. *)

LivePoints(vm) == {s \in Snaps : row[s] = "live" /\ vmOf[s] = vm}

(* latest_point: ORDER BY created_at DESC LIMIT 1, ties left open. *)
IsLatestPoint(vm, s) ==
    s \in LivePoints(vm) /\ \A x \in LivePoints(vm) : created[x] <= created[s]

(* Mutant: only verified points are protected. *)
protected_snapshot_ids_Verified ==
    {s \in Snaps : row[s] = "live" /\ until[s] > now /\ s \in verified}

protected_snapshot_ids == {s \in Snaps : row[s] = "live" /\ until[s] > now}

(* restic forget, per group: what is newer than the latest snapshot minus  *)
(* keep-within stays, and so do the last MinRestorePoints; which of the    *)
(* others the daily/weekly/monthly/yearly rules keep is left open.         *)
MayForget(s) ==
    LET group == {x \in vault : vmOf[x] = vmOf[s]}
    IN  /\ s \in vault
        /\ \E x \in group : stamp[x] >= stamp[s] + KeepWithin
        /\ Cardinality({x \in group : stamp[x] > stamp[s]}) >= MinRestorePoints

-----------------------------------------------------------------------------
(* Backup: backup_all and _backup_vm. *)

Goto(w, pc) == bk' = [bk EXCEPT ![w].pc = pc]
NextVM(w) == bk' = [bk EXCEPT ![w] = [IdleWorker EXCEPT !.pc = "pick"]]
ReleasedBy(p) == IF lock = p THEN Nil ELSE lock

(* backup_all: with exclusive_lock(...). A failback has no lock to take. *)
EnterBackup(w) ==
    /\ bk[w].pc = "idle"
    /\ IF w \in Unlocked THEN lock' = lock ELSE lock = Nil /\ lock' = w
    /\ Goto(w, "pick")
    /\ UNCHANGED <<now, store, catalogue, replica, jobs, rt, hd, faults>>

(* No VM is left, or the staging filesystem is too full to go on. *)
LeaveBackup(w) ==
    /\ bk[w].pc = "pick"
    /\ lock' = ReleasedBy(w)
    /\ bk' = [bk EXCEPT ![w] = IdleWorker]
    /\ UNCHANGED <<now, store, catalogue, replica, jobs, rt, hd, faults>>

StartJob(w, vm, j) ==
    /\ bk[w].pc = "pick"
    /\ jobs[j].status = "absent"
    /\ \A i \in JobIds : i < j => jobs[i].status # "absent"
    /\ jobs' = [jobs EXCEPT ![j].status = "running"]
    /\ bk' = [bk EXCEPT ![w] = [IdleWorker EXCEPT !.pc = "export", !.vm = vm,
                                                  !.t0 = now, !.job = j]]
    /\ UNCHANGED <<now, store, catalogue, replica, lock, rt, hd, faults>>

NewSnapshot(s, vm) ==
    /\ s \notin used
    /\ used' = used \cup {s} /\ vault' = vault \cup {s}
    /\ stamp' = [stamp EXCEPT ![s] = now]
    /\ vmOf' = [vmOf EXCEPT ![s] = vm]

(* adapter.export, read_consistency, build_manifest and restic backup: no  *)
(* table changes before restic returns the snapshot id.                    *)
ResticBackup(w, s) ==
    /\ bk[w].pc = "export"
    /\ NewSnapshot(s, bk[w].vm)
    /\ bk' = [bk EXCEPT ![w].pc = "stored", ![w].snap = s]
    /\ UNCHANGED <<now, catalogue, replica, jobs, lock, rt, hd, faults>>

(* restic wrote the snapshot, but its summary was lost or it was killed. *)
ResticBackupOrphans(w, s) ==
    /\ bk[w].pc = "export"
    /\ NewSnapshot(s, bk[w].vm)
    /\ Goto(w, "fail")
    /\ UNCHANGED <<now, catalogue, replica, jobs, lock, rt, hd, faults>>

(* The first backup of a VM is its baseline and is never suspicious; which *)
(* later ones are depends on sizes the model leaves open.                  *)
ImmutableDays(vm, suspicious, days) ==
    /\ suspicious => LivePoints(vm) # {}
    /\ IF suspicious
         THEN \E base \in PolicyDays :
                days = IF base >= PreserveSuspicious THEN base
                       ELSE PreserveSuspicious
         ELSE days \in PolicyDays

(* latest_point, detect_backup_anomaly, upsert_recovery_point. *)
Catalogue(w, suspicious, days) ==
    LET s == bk[w].snap IN
    /\ bk[w].pc = "stored"
    /\ ImmutableDays(bk[w].vm, suspicious, days)
    /\ row' = [row EXCEPT ![s] = "live"]
    /\ created' = [created EXCEPT ![s] = bk[w].t0]
    /\ until' = [until EXCEPT ![s] = bk[w].t0 + days]
    /\ granted' = [granted EXCEPT ![s] = bk[w].t0 + days]
    /\ verified' = verified \ {s}
    /\ Goto(w, "catalogued")
    /\ UNCHANGED <<now, store, copies, replica, jobs, lock, rt, hd, faults>>

(* Mutant: the row of the primary copy is not committed. *)
RecordPrimaryCopy_Lost(w) ==
    /\ bk[w].pc = "catalogued"
    /\ Goto(w, "copied")
    /\ UNCHANGED <<now, store, catalogue, replica, jobs, lock, rt, hd, faults>>

RecordPrimaryCopy(w) ==
    /\ bk[w].pc = "catalogued"
    /\ copies' = copies \cup {<<bk[w].snap, "primary">>}
    /\ Goto(w, "copied")
    /\ UNCHANGED <<now, store, row, until, created, granted, verified, replica,
                   jobs, lock, rt, hd, faults>>

FinishJob(w) ==
    /\ bk[w].pc = "copied"
    /\ jobs' = [jobs EXCEPT ![bk[w].job] = [status |-> "success",
                                            snap |-> bk[w].snap]]
    /\ bk' = [bk EXCEPT ![w].pc = "replicate", ![w].left = Replicas]
    /\ UNCHANGED <<now, store, catalogue, replica, lock, rt, hd, faults>>

(* copy_snapshot and the upsert of its row. It needs the snapshot in the   *)
(* vault; it can also fail after the copy, at the provider lock.           *)
Replicate(w, r, stored, ok) ==
    LET c == <<bk[w].snap, r>> IN
    /\ bk[w].pc = "replicate" /\ r \in bk[w].left
    /\ stored => bk[w].snap \in vault
    /\ ok => stored
    /\ replica' = IF stored THEN replica \cup {c} ELSE replica
    /\ copies' = IF ok THEN copies \cup {c} ELSE copies \ {c}
    /\ bk' = [bk EXCEPT ![w].left = @ \ {r}]
    /\ UNCHANGED <<now, store, row, until, created, granted, verified, jobs,
                   lock, rt, hd, faults>>

ReplicationDone(w) ==
    /\ bk[w].pc = "replicate" /\ bk[w].left = {}
    /\ IF VerifyAfterBackup THEN Goto(w, "verify") ELSE NextVM(w)
    /\ UNCHANGED <<now, store, catalogue, replica, jobs, lock, rt, hd, faults>>

(* verify_recovery_point: get_point and the test restore. *)
RestoreForVerify(w) ==
    /\ bk[w].pc = "verify"
    /\ row[bk[w].snap] = "live" /\ bk[w].snap \in vault
    /\ Goto(w, "mark")
    /\ UNCHANGED <<now, store, catalogue, replica, jobs, lock, rt, hd, faults>>

MarkVerified(w, ok) ==
    /\ bk[w].pc = "mark"
    /\ verified' = IF ok THEN verified \cup {bk[w].snap}
                   ELSE verified \ {bk[w].snap}
    /\ NextVM(w)
    /\ UNCHANGED <<now, store, row, until, created, granted, copies, replica,
                   jobs, lock, rt, hd, faults>>

(* Any statement of the try block may raise, after finish_job too. *)
Raise(w) ==
    /\ bk[w].pc \in TryPcs
    /\ Goto(w, "fail")
    /\ UNCHANGED <<now, store, catalogue, replica, jobs, lock, rt, hd, faults>>

(* Mutant: the except clause does not settle the job. *)
BackupFailed_Silent(w) ==
    /\ bk[w].pc = "fail"
    /\ NextVM(w)
    /\ UNCHANGED <<now, store, catalogue, replica, jobs, lock, rt, hd, faults>>

(* except Exception: finish_job(status="failed") clears the snapshot id. *)
BackupFailed(w) ==
    /\ bk[w].pc = "fail"
    /\ jobs' = [jobs EXCEPT ![bk[w].job] = [status |-> "failed", snap |-> Nil]]
    /\ NextVM(w)
    /\ UNCHANGED <<now, store, catalogue, replica, lock, rt, hd, faults>>

(* The process dies; the kernel releases its flock. *)
BackupCrash(w) ==
    /\ bk[w].pc # "idle" /\ crashes + aborts < MaxFaults
    /\ crashes' = crashes + 1
    /\ lock' = ReleasedBy(w)
    /\ bk' = [bk EXCEPT ![w] = IdleWorker]
    /\ UNCHANGED <<now, store, catalogue, replica, jobs, rt, hd, aborts>>

-----------------------------------------------------------------------------
(* Retention: the CLI command, BackupEngine.retention and                  *)
(* ResticRepository.retention.                                             *)

EnterRetention ==
    /\ rt.pc = "idle" /\ lock = Nil
    /\ lock' = Retention
    /\ rt' = [IdleRetention EXCEPT !.pc = "read"]
    /\ UNCHANGED <<now, store, catalogue, replica, jobs, bk, hd, faults>>

ReadProtected ==
    /\ rt.pc = "read"
    /\ rt' = [rt EXCEPT !.pc = "preview", !.asOf = now,
                        !.protected = protected_snapshot_ids]
    /\ UNCHANGED <<now, store, catalogue, replica, jobs, lock, bk, hd, faults>>

(* Mutant: whatever the catalogue does not protect goes, no dry run. *)
Preview_AllUnprotected(listed) ==
    /\ rt.pc = "preview"
    /\ rt' = [IdleRetention EXCEPT
                 !.remove = listed \ rt.protected,
                 !.pc = IF listed \subseteq rt.protected THEN "mark"
                        ELSE "forget"]
    /\ UNCHANGED <<now, store, catalogue, replica, jobs, lock, bk, hd, faults>>

(* restic forget --dry-run, minus what the catalogue protects. *)
Preview(listed) ==
    /\ rt.pc = "preview"
    /\ \A s \in listed : MayForget(s)
    /\ rt' = [IdleRetention EXCEPT
                 !.remove = listed \ rt.protected,
                 !.pc = IF listed \subseteq rt.protected THEN "mark"
                        ELSE "forget"]
    /\ UNCHANGED <<now, store, catalogue, replica, jobs, lock, bk, hd, faults>>

(* restic forget <ids> and restic prune. *)
Forget ==
    /\ rt.pc = "forget"
    /\ vault' = vault \ rt.remove
    /\ rt' = [rt EXCEPT !.pc = "mark"]
    /\ UNCHANGED <<now, used, stamp, vmOf, catalogue, replica, jobs, lock, bk,
                   hd, faults>>

(* Mutant: no row is marked. *)
MarkExpired_Nothing ==
    /\ rt.pc = "mark"
    /\ rt' = IdleRetention
    /\ lock' = ReleasedBy(Retention)
    /\ UNCHANGED <<now, store, catalogue, replica, jobs, bk, hd, faults>>

(* mark_points_expired touches only rows that exist. *)
MarkExpired ==
    /\ rt.pc = "mark"
    /\ row' = [s \in Snaps |-> IF s \in rt.remove /\ row[s] # "none"
                                 THEN "expired" ELSE row[s]]
    /\ rt' = IdleRetention
    /\ lock' = ReleasedBy(Retention)
    /\ UNCHANGED <<now, store, until, created, granted, verified, copies,
                   replica, jobs, bk, hd, faults>>

(* forget dies part of the way through its list. *)
ForgetFails(part) ==
    /\ rt.pc = "forget" /\ crashes + aborts < MaxFaults
    /\ part \subseteq rt.remove
    /\ vault' = vault \ part
    /\ rt' = IdleRetention /\ lock' = ReleasedBy(Retention)
    /\ aborts' = aborts + 1
    /\ UNCHANGED <<now, used, stamp, vmOf, catalogue, replica, jobs, bk, hd,
                   crashes>>

(* A restic call or a statement raises, prune after a good forget among    *)
(* them, or the process dies: nothing is marked.                           *)
RetentionAborts ==
    /\ rt.pc # "idle" /\ crashes + aborts < MaxFaults
    /\ rt' = IdleRetention /\ lock' = ReleasedBy(Retention)
    /\ aborts' = aborts + 1
    /\ UNCHANGED <<now, store, catalogue, replica, jobs, bk, hd, crashes>>

-----------------------------------------------------------------------------
(* Holds: hold_recovery_point and extend_immutability. *)

ReadForHold(h, s, days) ==
    /\ hd[h].pc = "idle"
    /\ row[s] = "live"
    /\ hd' = [hd EXCEPT ![h] = [pc |-> "write", snap |-> s,
                                want |-> now + days, current |-> until[s]]]
    /\ UNCHANGED <<now, store, catalogue, replica, jobs, lock, bk, rt, faults>>

(* Mutant: the new date replaces the old one. *)
WriteHold_Overwrites(h) ==
    /\ hd[h].pc = "write"
    /\ until' = [until EXCEPT ![hd[h].snap] = hd[h].want]
    /\ hd' = [hd EXCEPT ![h] = IdleOperator]
    /\ UNCHANGED <<now, store, row, created, granted, verified, copies, replica,
                   jobs, lock, bk, rt, faults>>

WriteHold(h) ==
    LET s == hd[h].snap IN
    /\ hd[h].pc = "write"
    /\ until' = [until EXCEPT ![s] =
                   IF hd[h].current >= hd[h].want THEN hd[h].current
                   ELSE hd[h].want]
    /\ hd' = [hd EXCEPT ![h] = IdleOperator]
    /\ UNCHANGED <<now, store, row, created, granted, verified, copies, replica,
                   jobs, lock, bk, rt, faults>>

-----------------------------------------------------------------------------
(* A command that outlives command_timeout_seconds is killed, so the two   *)
(* windows in which a snapshot has no catalogue protection stay short.     *)
Tick ==
    /\ now < MaxTime
    /\ rt.pc = "preview" => now < rt.asOf + Span
    /\ \A w \in Workers :
         bk[w].pc \in {"export", "stored"} => now < bk[w].t0 + Span
    /\ now' = now + 1
    /\ UNCHANGED <<store, catalogue, replica, jobs, lock, bk, rt, hd, faults>>

BackupStep(w) ==
    \/ EnterBackup(w) \/ LeaveBackup(w)
    \/ \E vm \in VMs, j \in JobIds : StartJob(w, vm, j)
    \/ \E s \in Snaps : ResticBackup(w, s) \/ ResticBackupOrphans(w, s)
    \/ \E b \in BOOLEAN, d \in PolicyDays \cup {PreserveSuspicious} :
         Catalogue(w, b, d)
    \/ RecordPrimaryCopy(w) \/ FinishJob(w)
    \/ \E r \in Replicas, stored, ok \in BOOLEAN : Replicate(w, r, stored, ok)
    \/ ReplicationDone(w) \/ RestoreForVerify(w)
    \/ \E ok \in BOOLEAN : MarkVerified(w, ok)
    \/ Raise(w) \/ BackupFailed(w)

RetentionStep ==
    \/ EnterRetention \/ ReadProtected
    \/ \E listed \in SUBSET vault : Preview(listed)
    \/ Forget \/ MarkExpired

RetentionFails ==
    \/ \E part \in SUBSET rt.remove : ForgetFails(part)
    \/ RetentionAborts

HoldStep(h) ==
    \/ \E s \in Snaps, d \in HoldDays : ReadForHold(h, s, d)
    \/ WriteHold(h)

Next ==
    \/ \E w \in Workers : BackupStep(w) \/ BackupCrash(w)
    \/ RetentionStep \/ RetentionFails
    \/ \E h \in Holders : HoldStep(h)
    \/ Tick

Spec == Init /\ [][Next]_vars

(* systemd runs a started backup to its end unless it is killed; it need   *)
(* not start another VM, and no operator need ever act.                    *)
JobStep(w) ==
    \/ \E s \in Snaps : ResticBackup(w, s)
    \/ \E b \in BOOLEAN, d \in PolicyDays \cup {PreserveSuspicious} :
         Catalogue(w, b, d)
    \/ RecordPrimaryCopy(w) \/ FinishJob(w) \/ BackupFailed(w) \/ Raise(w)

FairSpec == Spec /\ \A w \in Workers : WF_vars(JobStep(w))

-----------------------------------------------------------------------------
(* Properties. *)

(* Whatever holds, crashes and failed maintenance runs are interleaved, a  *)
(* catalogued snapshot leaves the vault only after the immutability window *)
(* its backup granted has passed (retention against unlocked backups).     *)
EarlyDelete(s) ==
    s \in vault \ vault' /\ row[s] # "none" /\ granted[s] > now
NoEarlyDelete == [][\A s \in Snaps : ~EarlyDelete(s)]_vars

(* No interleaving of extend_immutability calls takes a point below the    *)
(* window its backup granted: max() is taken with a value read earlier.    *)
FloorKept == \A s \in Snaps : row[s] # "none" => granted[s] <= until[s]

(* A row is expired only once the point's granted window is over.          *)
ExpiredPastWindow ==
    \A s \in Snaps : row[s] = "expired" => granted[s] <= now

(* ImmutablePoints' view: jobs, locks and processes are hidden.            *)
Promise == INSTANCE ImmutablePoints WITH
    Points <- Snaps, clock <- now, data <- vault, made <- used,
    phase <- row, window <- granted, hold <- until

(* The catalogue and the vault implement ImmutablePoints: every            *)
(* interleaving looks like points that are listed with their data, held    *)
(* through their windows and expired after them (_backup_vm,               *)
(* extend_immutability, retention).                                        *)
PointsImmutable == Promise!Spec

(* The inductive invariant behind the properties above. A snapshot without *)
(* a row is either being catalogued, and then too young for restic to      *)
(* list, or never will be; a hold in flight read at least the granted      *)
(* window; what a retention run is about to forget is past its window.     *)
Pending(w, s) == bk[w].pc = "stored" /\ bk[w].snap = s

ClockInv ==
    /\ \A s \in used : stamp[s] <= now
    /\ \A s \in Snaps : row[s] # "none" => s \in used

PendingInv ==
    /\ \A w \in Workers : bk[w].pc \in {"export", "stored"} =>
         bk[w].t0 <= now /\ now <= bk[w].t0 + Span
    /\ \A w \in Workers, s \in Snaps : Pending(w, s) =>
         s \in vault /\ row[s] = "none" /\ bk[w].t0 <= stamp[s]
    /\ \A w, v \in Workers, s \in Snaps : Pending(w, s) /\ Pending(v, s) => w = v

HoldInv ==
    \A h \in Holders : hd[h].pc = "write" =>
      /\ hd[h].snap \in Snaps /\ row[hd[h].snap] # "none"
      /\ granted[hd[h].snap] <= hd[h].current

PreviewInv ==
    rt.pc = "preview" =>
      /\ rt.asOf <= now /\ now <= rt.asOf + Span
      /\ \A s \in vault \ rt.protected : row[s] # "none" =>
           granted[s] <= rt.asOf \/ rt.asOf <= stamp[s] + Span

RemoveInv ==
    rt.pc \in {"forget", "mark"} =>
      \A s \in rt.remove :
        /\ s \in used
        /\ row[s] = "none" => \A w \in Workers : ~Pending(w, s)
        /\ row[s] # "none" => granted[s] <= now

WindowInv ==
    ClockInv /\ PendingInv /\ FloorKept /\ HoldInv /\ ExpiredPastWindow
    /\ PreviewInv /\ RemoveInv

(* While no maintenance run has failed, a listed point is missing from the *)
(* vault only between restic forget and mark_points_expired.               *)
CatalogBacked ==
    aborts = 0 =>
      \A s \in Snaps : row[s] = "live" /\ s \notin vault =>
                         rt.pc = "mark" /\ s \in rt.remove

(* The point latest_point picks for a VM can be restored, while no         *)
(* maintenance run has failed and the VM has no uncatalogued snapshot.     *)
LatestRestorable ==
    \A vm \in VMs, s \in Snaps :
      /\ IsLatestPoint(vm, s) /\ aborts = 0
      /\ \A x \in vault : vmOf[x] = vm => row[x] # "none"
      => s \in vault

(* A job that reports success names a catalogued point with its primary    *)
(* copy recorded, and a worker past finish_job never reports another's.    *)
JobTruthful ==
    \A j \in JobIds : jobs[j].status = "success" =>
      /\ row[jobs[j].snap] # "none"
      /\ <<jobs[j].snap, "primary">> \in copies
      /\ \A i \in JobIds : i # j => jobs[i].snap # jobs[j].snap

(* A job shown as running has a worker that has yet to write its status,   *)
(* whatever was raised where, or a process died (_backup_vm).              *)
OwesStatus(w) ==
    bk[w].pc \in {"export", "stored", "catalogued", "copied", "fail"}
RunningHasWorker ==
    \A j \in JobIds : jobs[j].status = "running" /\ crashes = 0 =>
      \E w \in Workers : OwesStatus(w) /\ bk[w].job = j

(* Retention excludes all active held points (ResticRepository.retention;  *)
(* docs/SECURITY.md).                                                      *)
HeldNeverForgotten ==
    [][\A s \in vault \ vault' : row[s] = "live" => until[s] <= now]_vars

(* A started job is settled as success or failed unless a process died.    *)
JobSettles ==
    \A j \in JobIds :
      jobs[j].status = "running" ~> jobs[j].status # "running" \/ crashes > 0
=============================================================================
