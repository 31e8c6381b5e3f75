# TLA+ models of Immutavault

Immutavault backs virtual machines up into an append-only restic vault, keeps a
catalogue of recovery points in SQLite, copies points to locked replicas,
restores them as new VMs under a four-eyes rule (onto another hypervisor if need
be, or file by file), and fails a set of workloads over to a DR site and back.
This directory models the parts of it in which processes, threads, failures and
time meet. Paths below are relative to `src/src/immutavault/` unless they name
`docs/`.

## 1. Inventory

| Part | State | Operations | What is hard | What makes it correct |
|---|---|---|---|---|
| Catalogue, backup engine, vault (`state.py`, `engine.py`, `restic.py`, `lock.py`, `anomaly.py`) | tables `jobs`, `recovery_points`, `recovery_copies`; the restic repository; the file lock | `backup_all`, `_backup_vm`, `retention`, `hold_recovery_point`, `verify_recovery_point` | retention works with a list read before a long preview; holds and the backups of a failback take no lock; death between restic and the catalogue | no point leaves the vault inside its window; catalogue and vault agree; jobs report what happened |
| Adapters and changed-block transport (`adapters/`, `incremental.py`, `consistency.py`) | the provider's disk cache and checkpoint, temporary snapshots, clones and archives at the hypervisor, the staging directory | `export`, `restore`, `provider.backup`, `_snapshot_view` | the guest writes meanwhile; death between a cache and its checkpoint; fallback; cleanups that fail | a point is the disk of one instant and is labelled truthfully; a success leaves nothing behind |
| Restore workflow (`engine.py`, `v2v_engine.py`, `portal_v11_final.py`, `recovery_test.py`, `integrity.py`, `state.py`) | table `restore_requests`, a staging directory per request, imported VMs | `request_restore`, `approve_restore`, `execute_restore`, recovery test | portal threads; status is read in one transaction and written in another; cleanup that fails | a second person approved; what is imported passed the manifest; one VM per request; the reported outcome is true |
| V2V conversion (`v2v.py`, `v2v_cert.py`) | machines and `/var/tmp` of a Proxmox node | `plan`, `execute`, `_restore_proxmox` | a machine number is checked, then taken; a dozen commands, each of which may fail | a done import is complete; a failed one leaves nothing; no other machine is touched |
| File-level restore (`flr.py`, `flr_broker.py`, `enterprise_flr.py`) | sessions, mounts, directories | `open_session`, `close_session`, `cleanup_expired`, reads | a limit checked before mounts that take minutes, longer than a session may live; unmounts that hang; mounts a dead broker left; cleanup only when asked | the limit holds; no live session is unmounted; every mount is removed once somebody asks |
| Replica targets and provider locks (`storage.py`, `dr.py` sync, `setup_wizard.py` verification) | copies, lock rules of an R2 bucket, Object Lock dates | `copy_snapshot`, `apply_object_lock`, `ensure_r2_bucket_lock`, `sync`, `verify_immutable_copies` | a list of rules is read, changed and put back whole; objects are locked one by one | a recorded copy is locked as long as recorded; no lock is shortened; verification does not overstate |
| Management service and setup wizard (`management_*.py`, `setup_wizard.py`, `config*.py`, `policy.py`) | the configuration file, mounts, systemd timers | `save_*`, `delete_policy`, `_commit`, `_sync_timer` | threads that read, change and write one file; a rollback that writes in place; two services that change the same entries under different rules | what is live loads; no exact selection is widened; file and timers agree |
| DR orchestrator and routing (`dr.py`, `dr_network.py`, `health.py`, `state.py`) | tables `dr_runs`, `dr_workloads`, `dr_health`; the maintenance file; two gateways, two hypervisors | `promote`, `failback`, `demote_dr`, `watch`, `maintenance` | a dozen remote calls, each of which may fail; the watcher acts by itself | one owner of the subnet; one running copy of a workload; an active failover serves; a failback loses nothing |
| Audit log (`state.py`) | table `audit_events` | `audit`, `_backfill_audit_hashes`, `verify_audit_chain` | every process appends; the backfill runs at every start | untouched logs verify; altered events are reported, for good |
| Enterprise sign-in and operations, portals, CLI, runner | none that outlives a call | — | — | — |

How they interact. The daily timer, the policy timers, the portals' threads, the
brokers and the `dr-*` commands are separate processes or threads. They share
the SQLite file, the vault, the configuration file and the staging directory. `StateDB` opens a
connection per method, and Python's `sqlite3` begins a transaction at the first
write: a method that selects and then updates is two atomic steps. Only
`backup_all`, `retention` and `restic check` take `repository.lock_file`;
holds, approvals, executions, `dr-sync`, the final backups of a failback and the
other DR commands do not. A backup is an export by an adapter
(`VmTransport`), a snapshot and a row (`VaultCatalog`), and a locked copy on every
replica (`ReplicaLocks`). A restore request is approved and started in
`RestoreWorkflow`; its import is `VmTransport`'s restore or `V2VImport`. A request
of a DR run is created `ready` by the orchestrator and executed by the same
engine. Every part appends to the audit log.

## 2. Modules

| Module | Models | Runs |
|---|---|---|
| `ImmutablePoints` | what catalogue and vault promise together (abstract) | |
| `VaultCatalog` | catalogue, backup workers, retention, holds, clock; implements `ImmutablePoints` | `vault_retention`, `vault_jobs`, `vault_hold_lost` |
| `RestoreWorkflow` | requests, approvals, executions, recovery tests | `restore` |
| `AuditChain` | the hash chain | `audit_chain` |
| `DisasterRecovery` | promote, failback, demote, watch | `dr_drill`, `dr_failback_writes` |
| `DiskBackup` | what a backup promises (abstract) | |
| `VmTransport` | export and restore by every adapter; implements `DiskBackup` | `vm_transport` |
| `AtomicImport` | what imports promise to whoever looks at the node (abstract) | |
| `V2VImport` | gates, conversion and import of a VMware point; implements `AtomicImport` | `v2v_import` |
| `FlrSessions` | the file-level restore broker | `flr_sessions` |
| `ManagementConfig` | the configuration file, the broker, the wizard, timers | `management_config` |
| `ReplicaLocks` | copies, provider locks, `dr-sync`, verification | `replica_locks` |
| `StateDBProofs` | proofs about `VaultCatalog` and `AuditChain`, the two components that `StateDB` keeps | |
| `RestoreWorkflowProofs`, `DisasterRecoveryProofs`, `VmTransportProofs`, `V2VImportProofs`, `FlrSessionsProofs`, `ManagementConfigProofs`, `ReplicaLocksProofs` | proofs about the module they are named for | |
| `MC*` | symmetry sets and configurations for TLC | |

Each module has one action per atomic step of the code: an action ends where
another process can see or change something, that is, at the end of a
transaction, at a system call on a shared file and at the return of an external
command. An operator whose name ends in `_<Word>` and whose comment begins with
*Mutant* is a plausible bug of the operator below it; no specification uses it.
A variable whose comment says *history* is read by properties only.

### ImmutablePoints and VaultCatalog

`ImmutablePoints` is the promise without processes: a point is listed once, with its
data in place and a window; holds may race, but none ends before the window; data
that was listed may be removed once its window is over, and a listed point expires
only when its data is gone as well. `VaultCatalog` implements it under the mapping
`Promise`, which hides the jobs, the lock and every process.

`bk[w]` is the control state of a worker in `_backup_vm`: `export` (adapter
export, manifest, restic backup), `stored` (a snapshot with no row),
`catalogued`, `copied`, `replicate`, `verify`, `mark`, and `fail` for the except
clause. `Raise` may leave any of them, which includes an exception *after*
`finish_job` reported success. Workers in `Unlocked` are the failbacks, which
call `_backup_vm` without the lock. `rt` is the maintenance job: it reads the
protected ids, previews with `restic forget --dry-run`, forgets what is not
protected, and marks. `hd[h]` is an operator between the SELECT and the UPDATE
of `extend_immutability`.

restic is modelled from how the code calls it: `MayForget` allows exactly what
`--keep-within` (counted from the newest snapshot of the tag group) and
`--keep-last` allow; which of the others the daily to yearly rules keep is left
open. Time counts days. `Span` bounds the two windows that the command timeout
bounds in the code: from a job's start to its catalogue row, and from the read
of the protected ids to the end of the preview. The assumption
`2 * Span < KeepWithin` says that hours are shorter than days; without it
`NoEarlyDelete` fails, and TLC shows how.

### RestoreWorkflow

`Requests` are rows, `Approvers` and `Executors` are threads. Approval and start
are a read and a write each. The staging directory `request-<id>` belongs to the
request, not to the execution: `WipeStaging`, `Cleanup` and `Discard` remove it
whoever is filling it (see `intact`), and `Restored` leaves a whole tree only if
nobody did and restic's data is sound. A tree is what the manifest can tell of
it: `partial` (a file is missing or has another size, or a small one another
hash), `hidden` (what is wrong is the content of files over
`SMALL_FILE_HASH_LIMIT`, which have no hash, `integrity.py:34`) or `exact`; the check
passes the last two. `start_restore` commits `running` before it audits and reads the
row again (`state.py:493-496`), and that is before the caller's try: `WriteStart`
may therefore fail after its commit, and so may the writes of the except clause
(`OutcomeLost`); the row then stays `running` with no execution and is remembered in
`abandoned`. `PowerOff` may leave the guest running and look like a success, as
the adapters look at no exit status. `BackupEngine`, `CertifiedBackupEngine` and
`ManagedRecoveryEngine` share this control; the last adds the recovery test
(`isolate`, `boot`, `off`, `destroy`, `testfail`; `AutoCleanup` is the setting
that skips `destroy`). A dry run changes nothing and
is left out.

### AuditChain

A hash is the sequence of what it commits to, so distinct arguments have
distinct hashes. `Open` and `_backfill_audit_hashes`, `ReadTail` and `Insert`
are the reads and the writes of the two methods. `Alter` changes a stored event
outside the program; `raced` remembers whether two appends overlapped. The
definitions that any module has are called `AuditInit`, `AuditNext`, `AuditSpec` and
`AuditTypeOK` here, so that a proof module can extend this one beside `VaultCatalog`.

### DisasterRecovery

`rn[p]` is the control state of a command. A VM is `<<run, workload>>`, run 0
made the originals. `route` is the set of sites whose gateway owns the subnet.
`ver` counts the writes a VM contains, and `base` those at the start of a
failback. The gateways and hypervisors are their effects; a call fails with or
without having worked. One that is not answered in time raises
`TimeoutExpired` even where its exit status is ignored (`runner.py:28-37`): in the
rollback of a promotion this skips the power-off and `finish_dr_run`
(`RollbackRaises`), and the row stays `running` (`abandoned`). A power-off that
fails without raising, an unreachable gateway that is tolerated and an audit
that fails after `finish_dr_run(success)` (`dr.py:237`) are counted in `faults`, like
a kill. The operator who confirms `--confirm-primary-isolated`
tells the truth (`IsolatePrimary`, and the guard of `Failback`).

### DiskBackup and VmTransport

`DiskBackup` is the promise in four actions: the guest writes, a backup captures
an instant, publishes it as a point or is abandoned, and a restore makes a new
machine of a point. `VmTransport` has the same disk, block by block (a block's
content is the number of its last write), and the state of one `export`: `exp.pc`
is the step, `exp.snap` the instant it captured, `exp.made` what its finally
clause has to remove. `cache` is the changed-block provider's directory; the
provider rewrites block files one at a time and the checkpoint follows
(`ProviderWrite`, `ProviderAccepted`, `AdvanceCheckpoint`), `SnapshotView` copies the
cache into the staging directory, and an exception removes it (`RemoveCache`),
possibly in part. `temps` and `archives` are what the hypervisor holds for an
export. `cfg` is the platform's configuration, chosen once: transport, strictness,
fallback and the consistency options. The refinement mapping `Promise` reads a
point as the content of the archive that `restore` would take. It leaves out the
points of an export that began over a half-removed cache or over an archive an
earlier export left on a Proxmox node (`clean`): there the code gives no such
guarantee (section 6).

### AtomicImport and V2VImport

`imp[i]` is an execution: `Plan` chooses the built-in conversion or a certified
provider; then the gates in the code's order, each of which may refuse
(`problems` is what is wrong with the point, the guest, the tools or the target,
`Waived` what the configuration allows); then one action per `qm` or `scp`
command, the except clause (`Destroy`, only if the code's `created` flag is set)
and the finally clause (`RemoveFiles`). `vms` are the node's machines with their
owner, which only the model knows; `files` are the images in `/var/tmp`, whose
path carries the machine number and so may be shared by two imports that
chose the same one. An `rm` that fails is not noticed; one that times out raises
out of the finally clause, past the paths after it, and a complete import is
reported as failed. `leak` marks what a cleanup cannot know of.

`AtomicImport` is the promise without commands: an import makes one complete machine
at a number that nobody has, or none; what one leaves behind whose process died or
whose cleanup was defeated is one machine of its own at such a number; no machine is
ever changed or removed. `V2VImport` implements it under the mapping `Promise`, which shows a machine
once its import has ended (`Visible`, `Seen`): until then the operator was told
nothing, and what is half built is the import's own affair. An import counts as
defeated (`Defeated`) when a command of its timed out, a cleanup failed or it died.

### FlrSessions

`sess` is the broker's table, `dirs` the directories under `mount_root` with
their mounts, `thr[t]` what a handler thread is doing. Every request but a close begins
with `cleanup_expired`: list what expired, close each (a lookup, a pop under the
lock, an unmount), then sweep old directories that belong to no session.
`open_session` is `Open`, two mounts and `Register`, none of them under the
lock. Time is relative (remaining time of a session, age of a directory), so
that the model is finite without a last day. Nothing bounds how long an open
takes: `session_ttl_minutes` may be 1 (`config.py:261`) while the two mounts may take
thirteen minutes (`config.py:274`, `flr.py:293`). `late` remembers the sessions whose
open took longer than `Ttl`; the sweep may remove their directories before they
are registered. An unmount may fail silently (the directory stays) or hang: then
it raises out of the request, and out of the sweep, past the directories after it
(`Remove`).

### ManagementConfig

`file` is the live configuration reduced to its references: platforms with
their scope (absent, every VM, some pattern, exact names), replicas, policies, test
networks, the DR map. `managed` are the replicas with a `mount_type`, which only
the broker's `save_storage` writes, and only if it was given a source; it mounts that
source first. Without a source it mounts nothing, and neither does the wizard's
(`WizardStorage`). Each request reads the file
(`Broker*`, `Wizard*`: the candidate is computed and validated), and replaces it as a
whole in a later step. `_commit` keeps the previous bytes and, on a failure,
truncates the live file (`Undo`) and writes them (`Rewrite`); `hold` says whether
the file it truncated is still the live one, since another thread's `os.replace`
puts a new one in its place. A policy request then loads the file anew and
enables or disables a timer. `raced` remembers that some thread wrote over or acted on
what another had changed after it read. The broker validates with
`load_v11_config`, the wizard with `load_config`. The wizard accepts patterns for VM
names, which the broker refuses. `legacy` is the broad backup timer: `on` as
installed, `off` once a policy's timer superseded it, `again` since the wizard's
`enable_timers` (`WizardTimers`) turned it on, which it does whatever policies exist.

### ReplicaLocks

`proc[w]` is a process in `copy_snapshot`: the copy, the GET and the PUT of R2's
rule list or the walk over the objects of an S3 bucket, the record. The backup
goes over both replicas in turn; `dr-sync` copies the newest point to the DR
replica; `replica-lock-init` only sets rules. Restic deduplicates, so every point
also rests on a shared pack (`Pack`). `Merged` is the merge of rules by prefix;
`raced` remembers that a list was put over one that had changed. The DR replica
is the R2 one, so that of the processes modelled only the backup walks over the
objects of the S3 bucket, and its walk (a get and a put for each object,
`storage.py:238-247`) is one step that may stop anywhere. A hold
(`engine.py:376-396`) and a `dr-sync` to an S3 DR replica walk as well; they are left
out. Where walks meet, it is the provider that refuses to shorten a date.

## 3. Runs

Deadlock is checked in the runs of `FlrSessions`, whose time has no end. In the
others it is not: with every bound used up, an idle system may stop.

| Run | Asks | Bounds |
|---|---|---|
| `vault_retention` | Can a point leave the vault, or its row expire, inside its window? Do catalogue and vault agree? Do they implement `ImmutablePoints`? | two snapshots, a locked and an unlocked worker, one operator, four days, `KeepWithin` 3, windows of 4 days, one fault. Two snapshots are what it takes for one to push the other out; four days are what it takes for a window to end. 2.0 million states |
| `vault_jobs` | Is a reported job true, has a running one a worker that owes its status, and is every job settled? | a replica, verification, two workers, one crash; no time passes |
| `vault_hold_lost` | Are held points excluded from retention? | **violated**: see section 6 |
| `restore` | Does the four-eyes rule survive racing threads? Are only trees that fit their manifest imported, once, is the reported outcome true, has a running request its execution, is every execution settled but one that ended unrecorded? | one request of every kind, so that all threads meet on it, made by one of two users; two approvers, two executors, one crash. 1.3 million states |
| `audit_chain` |
| `DisasterRecovery` | promote, failback, demote, watch | `dr_drill`, `dr_failback_writes` |
| `DiskBackup` | what a backup promises (abstract) | |
| `VmTransport` | export and restore by every adapter; implements `DiskBackup` | `vm_transport` |
| `AtomicImport` | what imports promise to whoever looks at the node (abstract) | |
| `V2VImport` | gates, conversion and import of a VMware point; implements `AtomicImport` | `v2v_import` |
| `FlrSessions` | the file-level restore broker | `flr_sessions` |
| `ManagementConfig` | the configuration file, the broker, the wizard, timers | `management_config` |
| `ReplicaLocks` | copies, provider locks, `dr-sync`, verification | `replica_locks` |
| `StateDBProofs` | proofs about `VaultCatalog` and `AuditChain`, the two components that `StateDB` keeps | |
| `RestoreWorkflowProofs`, `DisasterRecoveryProofs`, `VmTransportProofs`, `V2VImportProofs`, `FlrSessionsProofs`, `ManagementConfigProofs`, `ReplicaLocksProofs` | proofs about the module they are named for | |
| `MC*` | symmetry sets and configurations for TLC | |

Each module has one action per atomic step of the code: an action ends where
another process can see or change something, that is, at the end of a
transaction, at a system call on a shared file and at the return of an external
command. An operator whose name ends in `_<Word>` and whose comment begins with
*Mutant* is a plausible bug of the operator below it; no specification uses it.
A variable whose comment says *history* is read by properties only.

### ImmutablePoints and VaultCatalog

`ImmutablePoints` is the promise without processes: a point is listed once, with its
data in place and a window; holds may race, but none ends before the window; data
that was listed may be removed once its window is over, and a listed point expires
only when its data is gone as well. `VaultCatalog` implements it under the mapping
`Promise`, which hides the jobs, the lock and every process.

`bk[w]` is the control state of a worker in `_backup_vm`: `export` (adapter
export, manifest, restic backup), `stored` (a snapshot with no row),
`catalogued`, `copied`, `replicate`, `verify`, `mark`, and `fail` for the except
clause. `Raise` may leave any of them, which includes an exception *after*
`finish_job` reported success. Workers in `Unlocked` are the failbacks, which
call `_backup_vm` without the lock. `rt` is the maintenance job: it reads the
protected ids, previews with `restic forget --dry-run`, forgets what is not
protected, and marks. `hd[h]` is an operator between the SELECT and the UPDATE
of `extend_immutability`.

restic is modelled from how the code calls it: `MayForget` allows exactly what
`--keep-within` (counted from the newest snapshot of the tag group) and
`--keep-last` allow; which of the others the daily to yearly rules keep is left
open. Time counts days. `Span` bounds the two windows that the command timeout
bounds in the code: from a job's start to its catalogue row, and from the read
of the protected ids to the end of the preview. The assumption
`2 * Span < KeepWithin` says that hours are shorter than days; without it
`NoEarlyDelete` fails, and TLC shows how.

### RestoreWorkflow

`Requests` are rows, `Approvers` and `Executors` are threads. Approval and start
are a read and a write each. The staging directory `request-<id>` belongs to the
request, not to the execution: `WipeStaging`, `Cleanup` and `Discard` remove it
whoever is filling it (see `intact`), and `Restored` leaves a whole tree only if
nobody did and restic's data is sound. A tree is what the manifest can tell of
it: `partial` (a file is missing or has another size, or a small one another
hash), `hidden` (what is wrong is the content of files over
`SMALL_FILE_HASH_LIMIT`, which have no hash, `integrity.py:34`) or `exact`; the check
passes the last two. `start_restore` commits `running` before it audits and reads the
row again (`state.py:493-496`), and that is before the caller's try: `WriteStart`
may therefore fail after its commit, and so may the writes of the except clause
(`OutcomeLost`); the row then stays `running` with no execution and is remembered in
`abandoned`. `PowerOff` may leave the guest running and look like a success, as
the adapters look at no exit status. `BackupEngine`, `CertifiedBackupEngine` and
`ManagedRecoveryEngine` share this control; the last adds the recovery test
(`isolate`, `boot`, `off`, `destroy`, `testfail`; `AutoCleanup` is the setting
that skips `destroy`). A dry run changes nothing and
is left out.

### AuditChain

A hash is the sequence of what it commits to, so distinct arguments have
distinct hashes. `Open` and `_backfill_audit_hashes`, `ReadTail` and `Insert`
are the reads and the writes of the two methods. `Alter` changes a stored event
outside the program; `raced` remembers whether two appends overlapped. The
definitions that any module has are called `AuditInit`, `AuditNext`, `AuditSpec` and
`AuditTypeOK` here, so that a proof module can extend this one beside `VaultCatalog`.

### DisasterRecovery

`rn[p]` is the control state of a command. A VM is `<<run, workload>>`, run 0
made the originals. `route` is the set of sites whose gateway owns the subnet.
`ver` counts the writes a VM contains, and `base` those at the start of a
failback. The gateways and hypervisors are their effects; a call fails with or
without having worked. One that is not answered in time raises
`TimeoutExpired` even where its exit status is ignored (`runner.py:28-37`): in the
rollback of a promotion this skips the power-off and `finish_dr_run`
(`RollbackRaises`), and the row stays `running` (`abandoned`). A power-off that
fails without raising, an unreachable gateway that is tolerated and an audit
that fails after `finish_dr_run(success)` (`dr.py:237`) are counted in `faults`, like
a kill. The operator who confirms `--confirm-primary-isolated`
tells the truth (`IsolatePrimary`, and the guard of `Failback`).

### DiskBackup and VmTransport

`DiskBackup` is the promise in four actions: the guest writes, a backup captures
an instant, publishes it as a point or is abandoned, and a restore makes a new
machine of a point. `VmTransport` has the same disk, block by block (a block's
content is the number of its last write), and the state of one `export`: `exp.pc`
is the step, `exp.snap` the instant it captured, `exp.made` what its finally
clause has to remove. `cache` is the changed-block provider's directory; the
provider rewrites block files one at a time and the checkpoint follows
(`ProviderWrite`, `ProviderAccepted`, `AdvanceCheckpoint`), `SnapshotView` copies the
cache into the staging directory, and an exception removes it (`RemoveCache`),
possibly in part. `temps` and `archives` are what the hypervisor holds for an
export. `cfg` is the platform's configuration, chosen once: transport, strictness,
fallback and the consistency options. The refinement mapping `Promise` reads a
point as the content of the archive that `restore` would take. It leaves out the
points of an export that began over a half-removed cache or over an archive an
earlier export left on a Proxmox node (`clean`): there the code gives no such
guarantee (section 6).

### AtomicImport and V2VImport

`imp[i]` is an execution: `Plan` chooses the built-in conversion or a certified
provider; then the gates in the code's order, each of which may refuse
(`problems` is what is wrong with the point, the guest, the tools or the target,
`Waived` what the configuration allows); then one action per `qm` or `scp`
command, the except clause (`Destroy`, only if the code's `created` flag is set)
and the finally clause (`RemoveFiles`). `vms` are the node's machines with their
owner, which only the model knows; `files` are the images in `/var/tmp`, whose
path carries the machine number and so may be shared by two imports that
chose the same one. An `rm` that fails is not noticed; one that times out raises
out of the finally clause, past the paths after it, and a complete import is
reported as failed. `leak` marks what a cleanup cannot know of.

`AtomicImport` is the promise without commands: an import makes one complete machine
at a number that nobody has, or none; what one leaves behind whose process died or
whose cleanup was defeated is one machine of its own at such a number; no machine is
ever changed or removed. `V2VImport` implements it under the mapping `Promise`, which shows a machine
once its import has ended (`Visible`, `Seen`): until then the operator was told
nothing, and what is half built is the import's own affair. An import counts as
defeated (`Defeated`) when a command of its timed out, a cleanup failed or it died.

### FlrSessions

`sess` is the broker's table, `dirs` the directories under `mount_root` with
their mounts, `thr[t]` what a handler thread is doing. Every request but a close begins
with `cleanup_expired`: list what expired, close each (a lookup, a pop under the
lock, an unmount), then sweep old directories that belong to no session.
`open_session` is `Open`, two mounts and `Register`, none of them under the
lock. Time is relative (remaining time of a session, age of a directory), so
that the model is finite without a last day. Nothing bounds how long an open
takes: `session_ttl_minutes` may be 1 (`config.py:261`) while the two mounts may take
thirteen minutes (`config.py:274`, `flr.py:293`). `late` remembers the sessions whose
open took longer than `Ttl`; the sweep may remove their directories before they
are registered. An unmount may fail silently (the directory stays) or hang: then
it raises out of the request, and out of the sweep, past the directories after it
(`Remove`).

### ManagementConfig

`file` is the live configuration reduced to its references: platforms with
their scope (absent, every VM, some pattern, exact names), replicas, policies, test
networks, the DR map. `managed` are the replicas with a `mount_type`, which only
the broker's `save_storage` writes, and only if it was given a source; it mounts that
source first. Without a source it mounts nothing, and neither does the wizard's
(`WizardStorage`). Each request reads the file
(`Broker*`, `Wizard*`: the candidate is computed and validated), and replaces it as a
whole in a later step. `_commit` keeps the previous bytes and, on a failure,
truncates the live file (`Undo`) and writes them (`Rewrite`); `hold` says whether
the file it truncated is still the live one, since another thread's `os.replace`
puts a new one in its place. A policy request then loads the file anew and
enables or disables a timer. `raced` remembers that some thread wrote over or acted on
what another had changed after it read. The broker validates with
`load_v11_config`, the wizard with `load_config`. The wizard accepts patterns for VM
names, which the broker refuses. `legacy` is the broad backup timer: `on` as
installed, `off` once a policy's timer superseded it, `again` since the wizard's
`enable_timers` (`WizardTimers`) turned it on, which it does whatever policies exist.

### ReplicaLocks

`proc[w]` is a process in `copy_snapshot`: the copy, the GET and the PUT of R2's
rule list or the walk over the objects of an S3 bucket, the record. The backup
goes over both replicas in turn; `dr-sync` copies the newest point to the DR
replica; `replica-lock-init` only sets rules. Restic deduplicates, so every point
also rests on a shared pack (`Pack`). `Merged` is the merge of rules by prefix;
`raced` remembers that a list was put over one that had changed. The DR replica
is the R2 one, so that of the processes modelled only the backup walks over the
objects of the S3 bucket, and its walk (a get and a put for each object,
`storage.py:238-247`) is one step that may stop anywhere. A hold
(`engine.py:376-396`) and a `dr-sync` to an S3 DR replica walk as well; they are left
out. Where walks meet, it is the provider that refuses to shorten a date.

## 3. Runs

Deadlock is checked in the runs of `FlrSessions`, whose time has no end. In the
others it is not: with every bound used up, an idle system may stop.

| Run | Asks | Bounds |
|---|---|---|
| `vault_retention` | Can a point leave the vault, or its row expire, inside its window? Do catalogue and vault agree? Do they implement `ImmutablePoints`? | two snapshots, a locked and an unlocked worker, one operator, four days, `KeepWithin` 3, windows of 4 days, one fault. Two snapshots are what it takes for one to push the other out; four days are what it takes for a window to end. 2.0 million states |
| `vault_jobs` | Is a reported job true, has a running one a worker that owes its status, and is every job settled? | a replica, verification, two workers, one crash; no time passes |
| `vault_hold_lost` | Are held points excluded from retention? | **violated**: see section 6 |
| `restore` | Does the four-eyes rule survive racing threads? Are only validated trees imported, once, is the reported outcome true, has a running request its execution? | one request of every kind, so that all threads meet on it; two approvers, two executors, one crash. 647 000 states |
| `restore_settle` | Is every execution settled, but for one that ended unrecorded? | the same with one approver, so that liveness stays within minutes. 141 000 states |
| `restore_kept` | Is the VM of a successful recovery test off? | **violated**: a kept VM (`AutoCleanup` false), no crash |
| `audit_chain` | Does verification report alterations, all of them, and nothing else? Is a stored hash final? | two processes, up to two events from before the chain, four events, one alteration |
| `dr_drill` | One owner, one copy, an active failover serves, a failback brings the base home, a running run has its command, runs settle | one command at a time, two workloads, two runs, two faults (a rollback that hangs after another fault). A failover followed by a failback is two runs. 438 000 states |
| `dr_failback_writes` | Does a failback preserve what DR served? | **violated** |
| `vm_transport` | Is every point the disk of one instant (`DiskBackup`)? Is a quiesced label true? Does a VMware success leave anything at the hypervisor? | two blocks, two writes, three exports, one fault, every transport and the consistency options that lead to different steps. Two blocks make a torn disk, a third export uses the cache a second one left. 1.2 million states |
| `v2v_import` | Is a done import complete, does a failed one clean up, is any other machine touched, do the imports implement `AtomicImport`? | two imports, a foreign client, two numbers, two disks, one fault, each single problem at each gate, one of them waived. 186 000 states |
| `flr_sessions` | Does a live session keep its mounts, does the limit hold, does every mount go as long as somebody asks? | two threads, two identifiers, limit 1, lifetime 2, one fault (a broker that dies, or an unmount that fails or hangs); time without end. 1.4 million states |
| `management_config` | Does the live file load, are exact selections kept, do timers match? | two threads and two requests of any kind, two platforms, a NAS replica, a policy, two faults (a rollback that is itself killed). 340 000 states |
| `replica_locks` | Is a recorded copy locked, is a lock ever shortened, is verification true, does DR catch up? | the backup and one other process, two points, two policies (shorter and longer than the global window), one day, one fault, one `replica-lock-init`. 485 000 states |

Properties about what a failure or a race may leave behind are conditional on
it, and the condition is in the property:

- `OneOwner`, `OneCopy` and `ActiveServes` hold while no command died, no tolerated
  gateway was unreachable or silent, no power-off failed silently and no audit was lost after its
  commit (`faults = 0`); any other step that raises is not such a fault.
  `RunningHasWorker` holds while no process died. `RunningHasRunner`,
  `RunningHasExecutor`, `RunSettles` and `RestoreSettles` hold for every row but those
  in `abandoned`: the command was killed, its rollback hung, or the database
  failed it between the commit of `running` and the try or in the except clause.
- `CatalogBacked` and `LatestRestorable` hold while no maintenance run failed after
  its forget; after one, a row may describe a snapshot that is gone, for good,
  since the next preview no longer lists it.
- `ImportedVerified`, `ImportOnce` and `OutcomeTruthful` speak of requests whose
  executions did not overlap; `LimitKept` of users whose opens did not; `ChainValid`
  of logs whose appends did not; `ScopeKept` and `TimersMatch` of configurations on
  which no stale thread acted, the first of selections that the wizard replaced by no
  pattern, the second of a broad timer that it has not enabled since and of runs with no failed
  step; `CopyLocked` and the R2 half of `NeverShortened` of buckets
  whose rules were not put back over a change. `SessionUsable` excepts sessions that
  took longer to open than they were to live. `PointsAreSnapshots` excepts exports that
  began over a half-removed cache or a left-over archive, `FailedLeavesNothing` and
  `ImportsAtomic` imports of which a command timed out or a cleanup failed.
- A property does not catch what its condition excepts; the hazards in
  `PROJECT.json` say which, and section 6 says what happens then. `FourEyesHeld`,
  `EventsLinked`, `AlteredReported`, `HashesKept`, `OthersUntouched`, `DoneIsComplete`,
  `VerifiedLocked` and the references and mounts of `LiveLoads` hold in every race.

Fairness. `FairSpec` of `VaultCatalog`, `RestoreWorkflow` and `DisasterRecovery`
is weak fairness of the steps of a job, an execution or a command that has begun.
The code justifies it: each is straight-line code in a process that systemd or
the server runs to its end, and every external command has a timeout
(`runner.py`), after which it raises. Nothing is assumed of operators, timers,
approvals or of the start of anything; `JobSettles`, `RestoreSettles` and
`RunSettles` exempt what was killed or ended unrecorded, because the code has no
recovery of rows left `running`. In `FlrSessions` time passes and threads run, and
nothing is assumed of requests. The broker cleans up only when it is asked
something, and no timer or poll of the repository asks: `MountsGo` names the
requests in its own premise; without them it does not hold (`ExpiryAutomatic`,
section 6). In `ReplicaLocks` the timer of `dr-sync` keeps starting it; `DrCaughtUp` assumes
nothing of the backup.

## 4. Proofs

The runs check what the system promises; the type invariants, the inductive
invariants and what follows from a property of a run (`TypeOK`, `WindowInv`,
`FloorKept`, `ExpiredPastWindow`) are proved here and repeated by no run.

The eight `*Proofs` modules are checked by TLAPS for every value of the constants
that satisfies the named assumptions: bounds are natural numbers
(`DaysAssumption`, `RestoreAssumption`, `DRAssumption`, `TransportAssumption`,
`V2VAssumption`, `FlrAssumption`, `ManagementAssumption`, `ReplicaAssumption`,
`AuditAssumption`), `Span`
is short (`SpanAssumption`, section 2), the configurations of `VmTransport` are
configurations (`SettingsAssumption`), and a value that stands for nothing or for
a torn file is none of the values it stands beside (`NamesAssumption`, both
`NilAssumption`s, `NothingAssumption`, `TornAssumption`, and `NullAssumption`: an empty hash
column is no hash). Every safety property that a passing run checks is proved,
invariants, action properties and all three refinements.

Some theorems carry a hypothesis, which is part of their statement:

- `OneCommand` (`OwnerCorrect`, `CopyCorrect`, `ServesCorrect`): one DR command at a
  time. Without it the properties are false: two promotions boot two copies
  (section 6).
- `PrimaryReserved` (`JobCorrect`): no replica has the name `primary`. The code
  relies on it and nothing in `config.py` enforces it (section 6).
- `LockDays >= 2` (`VerifiedLockedCorrect`): the R2 lock is configured for two days or
  more. The default is 30; with one day the property is false (section 6).
- `Owned = Platforms` (`LiveCorrect`, `TimersCorrect`): every platform has a tenant. The
  wizard does not check it (section 6); without it both properties are false.

### Catalogue and vault (`StateDBProofs`)

- `TypeCorrect`: `Spec => []TypeOK`.
- `WindowCorrect`: `Spec => []WindowInv`, and from it `FloorCorrect`,
  `ExpiryCorrect` and `NoEarlyDeleteCorrect`. `NoEarlyDelete` is not inductive: it
  is about the step that forgets, whose list was made two steps before. `WindowInv`
  says what is true meanwhile. A snapshot without a row is either about to get
  one (`PendingInv`: its worker started at most `Span` ago, and only one worker
  has it) or never will. During a preview, whatever is in the vault and not
  protected was past its window when the list was read, or is at most `Span` older
  than that read (`PreviewInv`). restic lists only what is `KeepWithin` older than
  something in the vault, which by `2 * Span < KeepWithin` excludes the young
  ones; so what is about to be forgotten is past its window or has no row and
  no one to write it (`RemoveInv`). A hold in flight carries a date that was at
  least the granted window (`HoldInv`), so racing holds cannot go below it.
- `BackedCorrect` and `LatestCorrect`: `CatalogBacked` and `LatestRestorable` from
  `BackedInv`, on top of the types and the windows. A forget is a decision about the
  vault of an earlier step, so the invariant keeps for each snapshot on the list one
  of the same VM that stays and is `KeepWithin` younger (`SurvivorInv`); a row's date and
  its snapshot's are at most `Span` apart (`RowAge`), so the row that `latest_point` picks
  is never one of those on the list. Until a maintenance run fails, what is marked was
  forgotten (`GoneInv`). `Youngest`, that a set of snapshots has a newest, rests on
  the library's well-founded order of the naturals.
- `ImmutableCorrect`: `Spec => PointsImmutable`, the refinement of `ImmutablePoints`, step by
  step: the steps of jobs, locks and reads are stutters; a snapshot is a `Store`, its
  catalogue row a `List`, a forget a `Remove`. That a forget respects the windows is
  `RemoveInv`; that what retention then marks has no data left needs one fact more
  (`MarkedGone`): between a forget and its marking nothing on the list can come back,
  since a snapshot's id is used once.
- `JobCorrect`: a snapshot belongs to one worker until `finish_job` names it, and
  what `finish_job` reports has its row and its primary copy (`JobInv`).
- `RunningCorrect`: `RunningHasWorker`, the safety half of `JobSettles`. A job that is
  running has a worker whose step owes its status (`OwesStatus`); every step, an exception at
  any statement included, keeps it or writes the status.

### Audit log (`StateDBProofs`)

- What the walk over the log computes: `Carried` is a recursive function, and its
  recurrence (`CarriedWalks`), like its type (`CarriedType`), is proved by the least
  position at which it could fail (`LeastNumber`, from the library's well-founded
  order of the naturals). `HashInjective` says that a hash commits to the event and to
  the hash before it; `BackfillWrites` what a backfill stores in each row.
- `ChainValidCorrect`, `AlteredCorrect` and `LinkedCorrect` from `ChainInv`. The log is `Bare`
  until the first backfill writes, and `Whole` after it (`PhaseInv`): a second
  backfill that read the bare log has computed what is there already, or finds
  nothing to do. `LinkInv` relates each hash to its event, to `altered` and to an
  earlier hash; `TailInv` says of an append under way that it carries a hash of the
  log, perhaps not the last. Only while no two overlapped does it carry the last
  one (`SoleInv`), which is why `ChainValid` has that condition and the others do not.
- `HashesKeptCorrect`: from the same invariant, step by step.

### Restore (`RestoreWorkflowProofs`)

- `TypeCorrect`; `RunningCorrect`: `Spec => []RunningHasExecutor`. A row can be `running`
  without an execution only through a step that puts it into `abandoned`: a kill, a
  failure between the commit and the try, or one in the except clause.
- `FourEyesCorrect`: the rule is checked by the read of `approve_restore` and
  `start_restore` and relied upon by their writes; `ApprovalInv` says that a
  thread between the two carries an approver who is not the requester, and a start
  whose request had been approved. The requester never changes and an approval is
  only replaced by another, so interleaved threads cannot undo it.
- `VerifiedCorrect`, `ImportOnceCorrect` and `OutcomeCorrect` from `ImportInv`: of a
  request that no two threads worked on at once, the only execution knows at each step
  what it did before (`SolePhase`: nothing imported yet, the tree whole, one VM made), and when there is none, a recovery test has left nothing
  (`TestClean`). `raced` is decided by steps of other threads, so `SoleInv` is
  about all executions of a request together. `KeptInv` holds in races as well: a
  request of another kind keeps what it made.

### Disaster recovery (`DisasterRecoveryProofs`)

- `KeepsBaseCorrect`: `FailbackKeepsBase` for any number of commands, faults and deaths.
  Each command has a row of its own (`RowInv`, `OwnRow`), and the writes that the
  base counts are followed from the DR copies through the final backups to the
  restored machines (`BaseInv`).
- `RunnerCorrect`: `RunningHasRunner`, the safety half of `RunSettles`, for any number of
  commands and every row that is not `abandoned`. `Hands` says what a step makes of the rows reported as running: each is the
  command's own or was somebody else's before. With two commands at once this rests on
  `OwnRow`; it is one of the things a race of promotions does not break.
- `OwnerCorrect`, `CopyCorrect` and `ServesCorrect` from `SiteInv`. Whether a failover is
  active is computed from the rows, so the invariant relates the rows, in their order
  (`OrderInv`), to the machines that run at each site and to the gateways, at each step
  of a command (`GateInv`, `DrInv`, `PromoteInv`, `FailbackInv`). A command that raises
  anywhere leaves a state in which the next one starts from it again.

### Backup and restore of a disk (`VmTransportProofs`)

- `PointsCorrect`: `Spec => Promise!Spec`, the refinement of `DiskBackup`: every initial
  state is one of its initial states and every step is one of its steps or none. The
  invariant (`CaptureInv`) says that a block file of the cache holds what the checkpoint
  says or its block has been written since (`CacheInv`), which blocks the provider has
  brought up to the captured instant (`ProviderInv`), and that the first file of a
  staging directory or of the host's archives, the one `restore` takes, carries
  it (`ArchiveInv`). The blocks a provider skips are those the checkpoint says are
  unchanged since; this is where the numbering of writes is needed (`Ordered`).
- `QuiescenceCorrect` and `LeavesNothingCorrect` from `OutcomeInv`: a label and the guest's
  state agree after every fallback (`LabelInv`), and what an export made is in the list
  of its finally clause until removed (`TempInv`).

### V2V import (`V2VImportProofs`)

- `OthersUntouchedCorrect`: every `qm` command names a machine by its number
  alone. `OwnInv` says that from `qm create` on the machine under an import's number
  is the one it created: nobody else can take the number while it exists, and only
  its owner destroys it.
- `DoneCorrect` and `FailedCorrect` from `CompleteInv`: the machine has at each step
  exactly the disks that the commands so far attached (`Stage`), the flags of the
  code say what there is to clean up (`FlagsInv`, `Tidy`), and the gates passed so far
  were clear (`Gates`). Two imports cannot both own the machine of one number.
- `AtomicCorrect`: `Spec => ImportsAtomic`, the refinement of `AtomicImport`. Until an import ends its
  steps change nothing that is seen, and its last step shows its machine or
  nothing. That it shows at most one machine needs an invariant of its own
  (`LoneInv`): an import creates one machine, and the number it has is the only one
  under which it may have left any.

### File-level restore (`FlrSessionsProofs`)

- `SessionCorrect`: a session that is being made has one maker and, unless it is
  `late`, a directory too young for a sweep (`MakerInv`); what a thread is about to
  close is expired or gone, nobody is making it again, and what it unmounts is not
  registered (`CloserInv`). The rule by age is safe for whatever was opened within
  `Ttl`, and no assumption on the constants says that it was.
- `LimitCorrect`: a user whose opens do not overlap has room for one session more
  between the check and the registration (`LimitInv`).

### Configuration (`ManagementConfigProofs`)

- `LiveCorrect` from `MgmtInv`. What a thread carries loads, and its replicas with a
  `mount_type` are mounted, from the request (or, for the one it mounts, from that
  step) to the write, and so do the bytes a rollback would
  put back (`SafeInv`). When the file can be unreadable needs an account of
  overlapping rollbacks (`TornInv`): a thread that no longer holds the file it
  truncated, finds it written, or read it torn was overtaken, and of two that roll
  back at once one was.
- `ScopeCorrect`: what a thread that was not overtaken may write keeps every selection
  that has been or is about to be acknowledged, unless it is the wizard's pattern,
  whose write takes the selection out of account (`ScopeInv`). A thread's own selection
  is the exception in the bytes it would go back to.
- `TimersCorrect`: a thread that was not overtaken changes no policy but its own, and
  what it decided about a timer is what the file says; a timer that does not match
  has a thread that will see to it (`TimerInv`). Once a policy's timer is enabled, the
  broad one is no longer `on` or a thread is about to disable it; the wizard makes it
  `again`, never `on`.

### Provider locks (`ReplicaLocksProofs`)

- `NeverShortenedCorrect`: the types (`LockTypes`) are the invariant; each step is
  shown to keep the locks and, where no list was put over a changed one, what the
  rules keep (`Keeps`), because `Merged` never replaces a rule by a weaker one.
- `CopyLockedCorrect`: a copy is locked in one step and recorded in a later one,
  so the invariant (`CopyInv`) says of a process in between (`ProcInv`) that the
  point is catalogued, that the bucket holds its objects, that the list it read is
  no stronger than the list in force unless a stale one was put back, and that what
  it is about to record is locked. `PointInv` bounds a point's window by the clock,
  which is what makes a lock set today reach it.
- `VerifiedLockedCorrect`: on R2 verification reads the rules, so it is as true as they
  are; on S3 it believes the record, so the invariant (`S3Inv`) says that what was
  recorded, or is about to be, is the lock the objects have. It holds whatever
  became of the R2 rules.

Only model-checked: the liveness properties (`JobSettles`, `RestoreSettles`, `RunSettles`,
`MountsGo`, `DrCaughtUp`), because fairness and `ENABLED` are out of the prover's reach.

## 5. Not modelled, and the plan

Left out of the modelled parts: the selection of points by a DR plan and the
preflight checks (their verdict is open), the manual `dr-network` commands,
dry runs, notifications, the verification timer's walk over replicas, the
paths and the streaming of files inside a guest, REST and filesystem targets
(which have no provider lock) and the creation of a repository, the requests of the management service that leave
the file alone (`storage_init`, `policy_run`, the test of a mount), the wizard's
`init_storage` and `dr_prepare`, the backups it starts, its dashboard and reports, the walks of a hold and of a
`dr-sync` to an S3 replica over the objects of a bucket (section 2), and the range and format of single configuration values. Partial effects
inside one external command are those named (an import that fails after creating
a VM is `Import` followed by `Raise`; an Object Lock walk or a removal stops
anywhere). The second half of a gateway's deactivation ends in `|| true`; its
silent failure is the unreachable gateway of `RollbackRoute` only.

The parts that stay out: the managed engine variant (superseded by the class in
`portal_v11_final.py`), enterprise sign-in (signed tokens and claims; the server
keeps nothing between requests), enterprise operations (estimates and metrics
computed from the catalogue), the portals' routing and HTML, the command line and
the runner. They are command lines, tables and text with no state of
their own; `PROJECT.json` gives the reason for each.

What is worth doing next:

- an abstract specification of the restore workflow (a request is approved, runs
  once and ends truthfully) and of the DR site (who serves a workload, with which
  writes); the conditions of section 3 would become its faults;
- a lock around the DR commands, around `open_session` and around the read of retention's
  protected ids, modelled as variants: each would remove one of the conditions
  under which a property holds, and the proofs show which lemma changes;
- the walk of the verification timer over the replicas, and REST and filesystem targets in
  `ReplicaLocks`;
- liveness stays with TLC; what can be proved of it is the safety half, that
  what is unfinished has somebody who will finish it (`RunningHasWorker`,
  `RunningHasExecutor`, `RunningHasRunner`).

## 6. What the models say against the documents

Two runs show a statement of the documentation violated by what the code does;
`PROJECT.json` quotes the lines.

- `vault_hold_lost`: retention reads the protected ids once; a hold granted
  during the preview does not keep the point. The window the backup granted is
  still honoured (`NoEarlyDelete`): only the extension is lost.
- `dr_failback_writes`: writes served by the DR copies between their final backup
  and the withdrawal of the DR route are lost by a failback that succeeds.

Further disagreements are stated as definitions that TLC refutes, with no run of
their own:

- `RestoreWorkflow!PassedTestIsOff` (`README.md` of the repository, line 98): the adapters look at no exit
  status of a power-off (`adapters/vmware.py:248`), so a recovery test whose VM is kept
  (`AutoCleanup` false) can succeed with the VM running.
- `FlrSessions!ExpiryAutomatic` (`docs/FILE_LEVEL_RECOVERY.md:110`,
  `enterprise_flr.py:17`), under `FairSpec`: an expired session stays mounted until somebody's next
  request.
- `FlrSessions!SessionsLimited` (`docs/FILE_LEVEL_RECOVERY.md:100`): two opens that
  overlap both pass the limit.
- `ManagementConfig!OneSchedule` (`docs/UNIFIED_MANAGEMENT.md:55`, and the comment at
  `management_service.py:214`), with `MaxFaults = 0`: the wizard's `enable_timers`
  (`setup_console.py:237-243`) turns the broad backup timer on beside those of named policies.
- `AuditChain!OnlyAlterationsReported` (`docs/SECURITY.md:69`): overlapping appends fork
  the chain, and `audit-verify` reports an untouched log. Links stay sound
  (`EventsLinked`).
- `DisasterRecovery!DemoteEndsFailover` (`dr.py:206`): a demotion leaves the failover
  active in `dr_runs`, so promotion stays refused.
- `VmTransport!ArchivesCleaned` (`docs/PRODUCTION_ACCEPTANCE.md:93`): the removal of
  temporary archives on a Proxmox or XCP-ng host is not looked at. On Proxmox the
  next export fetches what was left as well, and `restore` takes the first file in
  the order of names.
- `ManagementConfig!CompleteSchema` with `Owned` smaller than `Platforms`
  (`docs/UNIFIED_MANAGEMENT.md:30`): the wizard replaces the file after
  `load_config` alone (`setup_wizard.py:47`), without tenant ownership. With such a
  platform a policy request that was accepted also finds the file not loading
  when it comes to its timer, and leaves it (`TimersMatch` is false).

Seen with TLC while modelling:

- two racing holds can leave a date earlier than the later of the two;
- an approver who read the request before another approved it sets a running or
  finished request back to `approved`, which can then run again; executing a
  recovery-test request that was never approved marks it `failed`; a portal that
  dies during a recovery test leaves the request `success` with its VM running;
- a request whose `start_restore` commits and then cannot audit or read the row
  (`state.py:493-496`) stays `running`, and `start_restore` refuses it from then on; so
  does a `dr_runs` row whose rollback meets a gateway that does not answer in time
  (`dr.py:241`), with the copies still running;
- the wrong contents of a disk of the right size pass the manifest
  (`integrity.py:59-62`); the program relies on restic for them;
- a promotion that has written `success` is rolled back and set to `failed` when its
  audit raises (`dr.py:237`); in between, the failover reads as active;
- an import whose machine is complete is reported as failed when the removal of its
  images times out (`v2v.py:603`), and the machine stays;
- with `session_ttl_minutes` shorter than the time the mounts take, the sweep unmounts
  what an open is still making, and a session without mounts is registered;
- the wizard's `save_storage` puts a filesystem replica with `mount_required` into the
  live file and mounts nothing, and the broker's without a source as well; only the
  health check of the target reports it (`storage.py:112`);
- the wizard accepts a pattern as a VM name (`setup_wizard.py:261`); where `save_dr`
  asks for exact names it refuses only `*` itself and names with `?`, `[` or `]`
  (`setup_wizard.py:295-297`), so that `web-*` passes;
- two executions of one request can both start and share the staging directory
  (`engine.py:470`); one imports what the other is rewriting;
- two concurrent `dr-promote` commands boot two DR copies (`dr.py:205`), and the one
  that fails withdraws the route of the other;
- a backup and a `dr-sync` that overlap put an older rule list over a newer one
  (`storage.py:396`), which shortens a lock or drops an administrator's rule,
  although the docstring at `storage.py:400` and `docs/CLOUD_STORAGE.md:125` say that
  other rules are preserved;
- `dr-sync` locks for `keep_within_days` and records the point's own date
  (`dr.py:149`), which a longer policy makes later than the lock;
- a configured lock of one day on R2 (`config.py:338` accepts it) is verified with
  `days - 1` (`storage.py:367`): a rule that ends today counts as immutable, and
  `VerifiedLocked` is false for `LockDays = 1`;
- the copies of a replica named `primary` would share the row of `recovery_copies` of
  the vault's own copy (`engine.py:210`, `engine.py:228`, `state.py:242`), and
  `config.py:342` accepts the name; `JobCorrect` says that no replica has it;
- a removal of the changed-block cache that stops half-way can leave a
  checkpoint over missing block files (`adapters/vmware_incremental.py:260`).
