----------------------------- MODULE VmTransport ----------------------------
(***************************************************************************)
(* How the adapters turn a running virtual machine into a recovery point   *)
(* and back: the changed-block (VDDK/CBT) provider with its disk cache and *)
(* checkpoint, the VMware hot clone and cold export, Proxmox vzdump and    *)
(* the XCP-ng snapshot export. The guest writes all the while, every       *)
(* command may fail or time out, and the process may die between any two.  *)
(* What the external tools do (govc, vzdump, xe, the VDDK helper) is what  *)
(* the adapters rely on; the vault itself is VaultCatalog's.               *)
(***************************************************************************)
EXTENDS Naturals, Sequences, FiniteSets

CONSTANTS
    Blocks,      \* blocks of the disk
    Targets,     \* names or numbers for restored machines
    Settings,    \* platform configurations considered
    Nothing,     \* no snapshot, checkpoint, or disk
    Lost,        \* a block file that is not there
    MaxWrites,   \* bound of the guest's writes
    MaxExports,  \* bound of the backups
    MaxFaults    \* bound of crashes and of cleanups that fail

ASSUME TransportAssumption ==
    MaxWrites \in Nat /\ MaxExports \in Nat /\ MaxFaults \in Nat

VARIABLES
    cfg,      \* the platform's mode and options
    disk,     \* the protected disk: the number of the last write of each block
    writes,   \* writes so far
    exp,      \* the export that runs: see Export
    stage,    \* archives in the staging directory
    cache,    \* the provider's directory: block files and checkpoint
    temps,    \* temporary snapshots, clones and templates at the hypervisor
    archives, \* temporary archives at the hypervisor, in the order of their names
    points,   \* recovery points
    restored, \* the disk of each restored machine
    faults    \* crashes and failed cleanups so far

guest == <<cfg, disk, writes>>
host == <<temps, archives>>
vault == <<points, restored>>
vars == <<guest, exp, stage, cache, host, vault, faults>>

VMwareModes == {"vddk-cbt", "hot-clone-export", "cold-export"}
Modes == VMwareModes \cup {"proxmox", "xcpng"}
Setting == [mode : Modes, strict : BOOLEAN, fallback : BOOLEAN,
            appStrict : BOOLEAN, quiesce : BOOLEAN, crash : BOOLEAN]

ASSUME SettingsAssumption == Settings \subseteq Setting

Contents == [Blocks -> 0..MaxWrites]

(* The mark for no disk is not a disk. *)
ASSUME NothingAssumption == Nothing \notin Contents

BlockFiles == [Blocks -> (0..MaxWrites) \cup {Lost}]
Archive == [kind : {"ovf", "layout", "vzdump", "xva"}, content : BlockFiles]

(* ApplicationConsistency.state, the states that claim quiescence, and what *)
(* a provider may attest (normalize_provider_consistency).                 *)
Labels == {"guest-quiesced", "crash-consistent", "unattested",
           "powered-off-consistent", "snapshot-consistent"}
APPLICATION_STATES == {"guest-quiesced"}
Attestations == {"guest-quiesced", "unattested"}

Pcs == {"idle", "probe", "request", "provider", "checkpoint", "view",
        "invalidate", "snapshot", "clone", "template", "ovf", "cleanup",
        "fetch", "remove", "staged"}

Temp == [kind : {"snapshot", "clone", "template"}, no : 0..MaxExports]

(* An adapter's export: no numbers it; snap is the instant it captured and *)
(* frozen whether the guest was quiesced then; made is what its finally    *)
(* clause must remove; next is what follows the removal of the cache.      *)
Export == [pc : Pcs, no : 0..MaxExports, snap : Contents \cup {Nothing},
           frozen : BOOLEAN, label : Labels, made : SUBSET {"snapshot", "clone"},
           err : BOOLEAN, todo : SUBSET Blocks, next : {"idle", "snapshot"},
           clean : BOOLEAN]

Point == [no : 0..MaxExports, files : Seq(Archive), label : Labels,
          frozen : BOOLEAN, clean : BOOLEAN]
Machine == [content : BlockFiles, clean : BOOLEAN]

(* The types of the configuration, the export, the cache, the hypervisor's *)
(* temporary objects, the points and the restored machines.                *)
TypeOK ==
    /\ cfg \in Setting /\ disk \in Contents /\ writes \in 0..MaxWrites
    /\ exp \in Export /\ stage \in Seq(Archive)
    /\ cache.blocks \in BlockFiles
    /\ cache.checkpoint \in Contents \cup {Nothing}
    /\ temps \subseteq Temp /\ archives \in Seq(Archive)
    /\ \A p \in points : p \in Point
    /\ restored \in [Targets -> Machine \cup {Nothing}]
    /\ faults \in 0..MaxFaults

NoCache == [blocks |-> [b \in Blocks |-> Lost], checkpoint |-> Nothing]

Idle(n) == [pc |-> "idle", no |-> n, snap |-> Nothing, frozen |-> FALSE,
            label |-> "snapshot-consistent", made |-> {}, err |-> FALSE,
            todo |-> {}, next |-> "idle", clean |-> TRUE]

Init ==
    /\ cfg \in Settings
    /\ disk = [b \in Blocks |-> 0] /\ writes = 0
    /\ exp = Idle(0) /\ stage = <<>>
    /\ cache = NoCache /\ temps = {} /\ archives = <<>>
    /\ points = {} /\ restored = [t \in Targets |-> Nothing]
    /\ faults = 0

-----------------------------------------------------------------------------
At(pc) == exp.pc = pc
Goto(pc) == exp' = [exp EXCEPT !.pc = pc]
Fails == exp' = Idle(exp.no)
Temporary(kind) == [kind |-> kind, no |-> exp.no]

(* A fault is taken from the budget of faults. *)
Fault == faults < MaxFaults /\ faults' = faults + 1

(* A checkpoint whose block files are not all there. *)
CacheTorn ==
    cache.checkpoint # Nothing /\ \E b \in Blocks : cache.blocks[b] = Lost

(* The guest writes a block. vSphere exports a machine without a snapshot  *)
(* only while it is powered off.                                           *)
GuestWrite(b) ==
    /\ writes < MaxWrites
    /\ cfg.mode = "cold-export" => At("idle")
    /\ writes' = writes + 1
    /\ disk' = [disk EXCEPT ![b] = writes + 1]
    /\ UNCHANGED <<cfg, exp, stage, cache, host, vault, faults>>

(* _backup_vm calls export. The export is clean when no archive of an      *)
(* earlier one is in its way and the cache is not torn.                    *)
BeginExport ==
    /\ At("idle") /\ exp.no < MaxExports
    /\ exp' = [Idle(exp.no + 1) EXCEPT
                 !.pc = IF cfg.mode = "vddk-cbt" THEN "probe" ELSE "snapshot",
                 !.clean = /\ cfg.mode = "proxmox" => archives = <<>>
                           /\ cfg.mode = "vddk-cbt" => ~CacheTorn]
    /\ UNCHANGED <<guest, stage, cache, host, vault, faults>>

-----------------------------------------------------------------------------
(* Changed-block transport *)

(* VDDKProvider.capabilities: the provider is available, or a reason. *)
Capabilities == {"available", "helper_missing", "missing_required_capability",
                 "capability_probe_failed", "invalid_capability_json"}

SAFE_CAPABILITY_FALLBACK_REASONS ==
    {"helper_missing", "missing_required_capability"}

(* Reasons of a provider that fails; the eight allow-listed ones behave    *)
(* alike and are represented by one.                                       *)
SAFE_PROVIDER_FALLBACK_REASONS == {"cbt_invalid"}
ProviderReasons == SAFE_PROVIDER_FALLBACK_REASONS \cup {"provider_error"}

incremental_fallback_allowed(reason, fallback_safe, capability_stage) ==
    /\ ~cfg.strict /\ cfg.fallback /\ fallback_safe
    /\ reason \in IF capability_stage THEN SAFE_CAPABILITY_FALLBACK_REASONS
                                      ELSE SAFE_PROVIDER_FALLBACK_REASONS

(* export: the first probe. An unavailable provider has not touched the    *)
(* cache: fall back where that is allowed, fail where it is not.           *)
Probe(cap) ==
    /\ At("probe")
    /\ \/ cap = "available" /\ Goto("request")
       \/ /\ incremental_fallback_allowed(cap, TRUE, TRUE)
          /\ Goto("snapshot")
       \/ /\ cap # "available"
          /\ ~incremental_fallback_allowed(cap, TRUE, TRUE)
          /\ Fails
    /\ UNCHANGED <<guest, stage, cache, host, vault, faults>>

(* An exception of provider.backup or _snapshot_view: the cache goes, and  *)
(* then the export falls back or fails.                                    *)
Invalidate(fallback) ==
    exp' = [exp EXCEPT !.pc = "invalidate",
                       !.next = IF fallback THEN "snapshot" ELSE "idle"]

(* Blocks to read: those written since the checkpoint, or all of them. *)
ChangedBlocks ==
    IF cache.checkpoint = Nothing THEN Blocks
    ELSE {b \in Blocks : disk[b] # cache.checkpoint[b]}

(* provider.backup probes again, reads the checkpoint and starts the       *)
(* helper, which captures the disk, quiesced if it was asked and could.    *)
ProviderStart ==
    /\ At("request")
    /\ \/ \E quiesced \in {FALSE, cfg.quiesce} :
            exp' = [exp EXCEPT !.pc = "provider", !.snap = disk,
                               !.frozen = quiesced, !.todo = ChangedBlocks]
       \/ Invalidate(FALSE)
    /\ UNCHANGED <<guest, stage, cache, host, vault, faults>>

(* The helper rewrites a block file of the cache. *)
ProviderWrite(b) ==
    /\ At("provider") /\ b \in exp.todo
    /\ cache' = [cache EXCEPT !.blocks[b] = exp.snap[b]]
    /\ exp' = [exp EXCEPT !.todo = @ \ {b}]
    /\ UNCHANGED <<guest, stage, host, vault, faults>>

(* The helper fails, or is killed at the timeout, with part of the cache   *)
(* rewritten.                                                              *)
ProviderFails(reason, fallback_safe) ==
    /\ At("provider")
    /\ Invalidate(incremental_fallback_allowed(reason, fallback_safe, FALSE))
    /\ UNCHANGED <<guest, stage, cache, host, vault, faults>>

(* Mutant: the consistency gate is left out. *)
ConsistencyProven_Unasked(label) == TRUE

(* What a strict configuration asks of the provider's attestation. *)
ConsistencyProven(label) ==
    cfg.appStrict /\ cfg.quiesce => label \in APPLICATION_STATES

(* The helper reports success: what it attests of the guest must satisfy a *)
(* strict configuration, and layout and checkpoint must have been made.    *)
ProviderAccepted(label) ==
    /\ At("provider") /\ exp.todo = {}
    /\ label \in APPLICATION_STATES => exp.frozen
    /\ \/ /\ ConsistencyProven(label)
          /\ exp' = [exp EXCEPT !.pc = "checkpoint", !.label = label]
       \/ Invalidate(FALSE)
    /\ UNCHANGED <<guest, stage, cache, host, vault, faults>>

(* Mutant: the checkpoint names the disk as it is by now. *)
AdvanceCheckpoint_Late ==
    /\ At("checkpoint")
    /\ cache' = [cache EXCEPT !.checkpoint = disk]
    /\ Goto("view")
    /\ UNCHANGED <<guest, stage, host, vault, faults>>

(* _write_json_atomic of the checkpoint, then the consistency record. *)
AdvanceCheckpoint ==
    /\ At("checkpoint")
    /\ cache' = [cache EXCEPT !.checkpoint = exp.snap]
    /\ Goto("view")
    /\ UNCHANGED <<guest, stage, host, vault, faults>>

(* _snapshot_view hard-links the cache into the staging directory. *)
SnapshotView ==
    /\ At("view")
    /\ \/ /\ stage' = <<[kind |-> "layout", content |-> cache.blocks]>>
          /\ Goto("staged")
       \/ Invalidate(FALSE) /\ UNCHANGED stage
    /\ UNCHANGED <<guest, cache, host, vault, faults>>

(* rmtree(cache, ignore_errors=True): an error, or the end of the process, *)
(* leaves any part of it.                                                  *)
RemoveCache ==
    /\ At("invalidate")
    /\ \/ cache' = NoCache /\ UNCHANGED faults
       \/ /\ Fault
          /\ \E kept \in SUBSET Blocks,
                checkpoint \in {cache.checkpoint, Nothing} :
               cache' = [blocks |-> [b \in Blocks |-> IF b \in kept
                                       THEN cache.blocks[b] ELSE Lost],
                         checkpoint |-> checkpoint]
    /\ exp' = [Idle(exp.no) EXCEPT !.pc = exp.next,
                                   !.clean = exp.clean \/ exp.next = "snapshot"]
    /\ UNCHANGED <<guest, stage, host, vault>>

-----------------------------------------------------------------------------
(* VMware hot clone and cold export *)

SnapshotLabel(quiesced) ==
    IF quiesced THEN "guest-quiesced" ELSE "crash-consistent"

(* snapshot.create, quiesced or, where that fails and the configuration    *)
(* says so, not; a command that times out may have made the snapshot. The  *)
(* cold export needs none.                                                 *)
VMwareSnapshot ==
    /\ At("snapshot") /\ cfg.mode \in {"vddk-cbt", "hot-clone-export"}
    /\ \/ cfg.appStrict /\ (~cfg.quiesce \/ cfg.crash) /\ Fails
          /\ UNCHANGED <<temps, faults>>
       \/ /\ cfg.appStrict => cfg.quiesce /\ ~cfg.crash
          /\ \E quiesced \in {cfg.quiesce, cfg.quiesce /\ ~cfg.crash} :
               exp' = [exp EXCEPT
                         !.pc = "clone", !.snap = disk, !.frozen = quiesced,
                         !.made = {"snapshot"},
                         !.label = SnapshotLabel(quiesced)]
          /\ temps' = temps \cup {Temporary("snapshot")} /\ UNCHANGED faults
       \/ /\ cfg.appStrict => cfg.quiesce /\ ~cfg.crash
          /\ Fails
          /\ \/ UNCHANGED <<temps, faults>>
             \/ Fault /\ temps' = temps \cup {Temporary("snapshot")}
    /\ UNCHANGED <<guest, stage, cache, archives, vault>>

ColdExport ==
    /\ At("snapshot") /\ cfg.mode = "cold-export"
    /\ exp' = [exp EXCEPT !.pc = "ovf", !.snap = disk,
                          !.label = "powered-off-consistent"]
    /\ UNCHANGED <<guest, stage, cache, host, vault, faults>>

CloneSnapshot ==
    /\ At("clone")
    /\ \/ /\ exp' = [exp EXCEPT !.pc = "ovf", !.made = @ \cup {"clone"}]
          /\ temps' = temps \cup {Temporary("clone")} /\ UNCHANGED faults
       \/ /\ exp' = [exp EXCEPT !.pc = "cleanup", !.err = TRUE]
          /\ \/ UNCHANGED <<temps, faults>>
             \/ Fault /\ temps' = temps \cup {Temporary("clone")}
    /\ UNCHANGED <<guest, stage, cache, archives, vault>>

ExportOvf ==
    /\ At("ovf")
    /\ \/ /\ stage' = <<[kind |-> "ovf", content |-> exp.snap]>>
          /\ Goto("cleanup")
       \/ /\ exp' = [exp EXCEPT !.pc = "cleanup", !.err = TRUE]
          /\ UNCHANGED stage
    /\ UNCHANGED <<guest, cache, host, vault, faults>>

(* Mutant: cleanup errors are ignored. *)
CleanupRaises_Never(left) == FALSE

CleanupRaises(left) == left # {}

(* The finally clause: destroy the clone, remove the snapshot. What cannot *)
(* be removed fails an export that had succeeded.                          *)
VMwareCleanup ==
    /\ At("cleanup")
    /\ \E left \in SUBSET exp.made :
         /\ IF left = {} THEN UNCHANGED faults ELSE Fault
         /\ temps' = temps \ {Temporary(k) : k \in exp.made \ left}
         /\ IF exp.err \/ CleanupRaises(left) THEN Fails /\ stage' = <<>>
                                    ELSE Goto("staged") /\ UNCHANGED stage
    /\ UNCHANGED <<guest, cache, archives, vault>>

-----------------------------------------------------------------------------
(* Proxmox and XCP-ng *)

Whole(kind) == [kind |-> kind, content |-> exp.snap']
Partial(kind) == [kind |-> kind, content |-> [b \in Blocks |-> Lost]]

(* vzdump in snapshot mode into a directory named for the machine; one     *)
(* that is cut short may leave a partial archive.                          *)
Vzdump ==
    /\ At("snapshot") /\ cfg.mode = "proxmox"
    /\ \/ /\ exp' = [exp EXCEPT !.pc = "fetch", !.snap = disk]
          /\ archives' = Append(archives, Whole("vzdump")) /\ UNCHANGED faults
       \/ /\ exp' = [exp EXCEPT !.pc = "remove", !.err = TRUE]
          /\ \/ UNCHANGED <<archives, faults>>
             \/ Fault /\ archives' = Append(archives, Partial("vzdump"))
    /\ UNCHANGED <<guest, stage, cache, temps, vault>>

(* xe vm-snapshot... *)
XcpSnapshot ==
    /\ At("snapshot") /\ cfg.mode = "xcpng"
    /\ \/ /\ exp' = [exp EXCEPT !.pc = "template", !.snap = disk,
                                !.made = {"snapshot"}]
          /\ temps' = temps \cup {Temporary("snapshot")} /\ UNCHANGED faults
       \/ /\ exp' = [exp EXCEPT !.pc = "remove", !.err = TRUE]
          /\ \/ UNCHANGED <<temps, faults>>
             \/ Fault /\ temps' = temps \cup {Temporary("snapshot")}
    /\ UNCHANGED <<guest, stage, cache, archives, vault>>

(* ...and its export as a template, to a file named for the machine. *)
XcpTemplate ==
    /\ At("template")
    /\ \/ Goto("fetch") /\ archives' = <<Whole("xva")>>
       \/ /\ exp' = [exp EXCEPT !.pc = "remove", !.err = TRUE]
          /\ archives' \in {archives, <<Partial("xva")>>}
    /\ UNCHANGED <<guest, stage, cache, temps, vault, faults>>

(* scp of every file in the directory, or of the one XVA. *)
FetchArchives ==
    /\ At("fetch")
    /\ \/ stage' = archives /\ Goto("remove")
       \/ /\ exp' = [exp EXCEPT !.pc = "remove", !.err = TRUE]
          /\ UNCHANGED stage
    /\ UNCHANGED <<guest, cache, host, vault, faults>>

(* The finally clause: rm of the archives and, on XCP-ng, removal of the   *)
(* snapshot. Neither result is looked at.                                  *)
RemoveArchives ==
    /\ At("remove")
    /\ \/ /\ archives' = <<>> /\ UNCHANGED faults
          /\ temps' = temps \ {Temporary(k) : k \in exp.made}
       \/ /\ Fault /\ archives' \in {<<>>, archives}
          /\ temps' \in {temps, temps \ {Temporary(k) : k \in exp.made}}
    /\ IF exp.err THEN Fails /\ stage' = <<>>
                  ELSE Goto("staged") /\ UNCHANGED stage
    /\ UNCHANGED <<guest, cache, vault>>

-----------------------------------------------------------------------------
(* Recovery point and restore *)

(* restore takes the first file in the order of names. *)
RestoreSource(files) == files[1]

(* _backup_vm stores the staging directory, or fails; it removes it either *)
(* way.                                                                    *)
StorePoint ==
    /\ At("staged")
    /\ \/ points' = points \cup
            {[no |-> exp.no, files |-> stage, label |-> exp.label,
              frozen |-> exp.frozen, clean |-> exp.clean]}
       \/ UNCHANGED points
    /\ exp' = Idle(exp.no) /\ stage' = <<>>
    /\ UNCHANGED <<guest, cache, host, restored, faults>>

(* The process dies. The next export has a staging directory of its own.   *)
CrashExport ==
    /\ ~At("idle") /\ Fault
    /\ exp' = Idle(exp.no) /\ stage' = <<>>
    /\ UNCHANGED <<guest, cache, host, vault>>

(* A target that exists is refused; otherwise the import makes it, or      *)
(* fails and has made nothing the code knows of.                           *)
NewMachine(p, t) ==
    /\ restored[t] = Nothing
    /\ restored' = [restored EXCEPT ![t] =
                      [content |-> RestoreSource(p.files).content,
                       clean |-> p.clean]]

(* A point with a block layout needs the provider, any other VMware point  *)
(* is an OVF package, whatever the mode is by now.                         *)
RestoreLayout(p, t) ==
    /\ RestoreSource(p.files).kind = "layout"
    /\ NewMachine(p, t)
    /\ UNCHANGED <<guest, exp, stage, cache, host, points, faults>>

RestoreOvf(p, t) ==
    /\ RestoreSource(p.files).kind = "ovf"
    /\ NewMachine(p, t)
    /\ UNCHANGED <<guest, exp, stage, cache, host, points, faults>>

RestoreVzdump(p, t) ==
    /\ RestoreSource(p.files).kind = "vzdump"
    /\ NewMachine(p, t)
    /\ UNCHANGED <<guest, exp, stage, cache, host, points, faults>>

(* vm-import makes a template, vm-install the machine; the template may    *)
(* outlive the install, whose removal is not looked at.                    *)
RestoreXva(p, t) ==
    /\ RestoreSource(p.files).kind = "xva"
    /\ NewMachine(p, t)
    /\ \/ UNCHANGED <<temps, faults>>
       \/ Fault /\ temps' = temps \cup {[kind |-> "template", no |-> p.no]}
    /\ UNCHANGED <<guest, exp, stage, cache, archives, points>>

Next ==
    \/ \E b \in Blocks : GuestWrite(b) \/ ProviderWrite(b)
    \/ BeginExport
    \/ \E cap \in Capabilities : Probe(cap)
    \/ ProviderStart
    \/ \E reason \in ProviderReasons, safe \in BOOLEAN :
         ProviderFails(reason, safe)
    \/ \E label \in Attestations : ProviderAccepted(label)
    \/ AdvanceCheckpoint \/ SnapshotView \/ RemoveCache
    \/ VMwareSnapshot \/ ColdExport \/ CloneSnapshot \/ ExportOvf
    \/ VMwareCleanup
    \/ Vzdump \/ XcpSnapshot \/ XcpTemplate \/ FetchArchives
    \/ RemoveArchives
    \/ StorePoint \/ CrashExport
    \/ \E p \in points, t \in Targets :
         \/ RestoreLayout(p, t) \/ RestoreOvf(p, t)
         \/ RestoreVzdump(p, t) \/ RestoreXva(p, t)

Spec == Init /\ [][Next]_vars

-----------------------------------------------------------------------------
(* Properties *)

(* The points and the machines that no leftover of an earlier export had a *)
(* part in, as DiskBackup sees them.                                       *)
Promise == INSTANCE DiskBackup WITH
    snap <- exp.snap,
    points <- {RestoreSource(p.files).content : p \in {q \in points : q.clean}},
    restored <- [t \in Targets |-> IF restored[t] = Nothing \/ ~restored[t].clean
                                     THEN Nothing ELSE restored[t].content]

(* Whatever the guest writes, whichever command fails, times out or is     *)
(* killed, and however many backups have failed before, a recovery point   *)
(* restores the disk as it was at one instant of its own export, and a     *)
(* restored machine holds a point and replaces nothing (export, backup,    *)
(* restore). An export that begins over a torn cache or over an archive an *)
(* earlier export left on the Proxmox node is not held to it.              *)
PointsAreSnapshots == Promise!Spec

(* A point recorded as quiesced was taken while the guest was, and where   *)
(* strict application consistency is configured with quiescing no point of *)
(* any transport, fallback included, was taken otherwise (export, backup). *)
QuiescenceProven ==
    \A p \in points :
      /\ p.label \in APPLICATION_STATES => p.frozen
      /\ cfg.mode \in {"vddk-cbt", "hot-clone-export"}
           /\ cfg.appStrict /\ cfg.quiesce => p.frozen

(* A VMware export that succeeded has left no temporary snapshot or clone  *)
(* at the hypervisor (export).                                             *)
SuccessLeavesNothing ==
    cfg.mode \in VMwareModes =>
      \A p \in points : \A t \in temps : t.no # p.no

(* What docs/PRODUCTION_ACCEPTANCE.md asks for: once no export runs, no    *)
(* archive of one is left on the node. The result of rm is not looked at   *)
(* and a process may die before it: this does not hold, and no run checks  *)
(* it.                                                                     *)
ArchivesCleaned == At("idle") => archives = <<>>
=============================================================================
