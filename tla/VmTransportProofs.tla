------------------------- MODULE VmTransportProofs -------------------------
(***************************************************************************)
(* Proofs about VmTransport: it implements DiskBackup, for any number of   *)
(* blocks, writes, exports, faults and restored machines, and any set of   *)
(* configurations.                                                         *)
(***************************************************************************)
EXTENDS VmTransport, TLAPS

Providing == {"probe", "request", "provider", "checkpoint", "view",
              "invalidate"}
Before == {"idle", "probe", "request", "snapshot"}
Captured == {"provider", "checkpoint", "view", "clone", "template", "ovf",
             "fetch", "staged"}

(* The disk, the cache and the export have their types. *)
CacheType == [blocks : BlockFiles, checkpoint : Contents \cup {Nothing}]

DataTypes ==
    /\ cfg \in Setting /\ disk \in Contents /\ writes \in 0..MaxWrites
    /\ exp \in Export /\ cache \in CacheType

(* Writes are numbered: nothing the export or the checkpoint knows is      *)
(* newer than the disk.                                                    *)
Older(c) == c # Nothing => \A b \in Blocks : c[b] <= disk[b]
Ordered ==
    /\ \A b \in Blocks : disk[b] <= writes
    /\ Older(exp.snap) /\ Older(cache.checkpoint)

(* A block file that is there holds what the checkpoint says, or the block *)
(* has been written since and will be read again.                          *)
CacheInv ==
    cache.checkpoint # Nothing =>
      \A b \in Blocks : disk[b] = cache.checkpoint[b] =>
        cache.blocks[b] \in {cache.checkpoint[b], Lost}

(* When an export has captured the disk, and which transport it uses. *)
PhaseInv ==
    /\ exp.pc \in Before => exp.snap = Nothing
    /\ exp.pc \in Captured => exp.snap \in Contents
    /\ exp.pc \in {"cleanup", "remove"} /\ ~exp.err => exp.snap \in Contents
    /\ exp.pc \in Providing => cfg.mode = "vddk-cbt"

(* What the blocks the provider has dealt with hold. *)
Holds(b) ==
    /\ cache.blocks[b] \in {exp.snap[b], Lost}
    /\ exp.clean => cache.blocks[b] = exp.snap[b]

ProviderInv ==
    /\ exp.pc \in {"probe", "request"} /\ exp.clean => ~CacheTorn
    /\ exp.pc = "provider" =>
         /\ \A b \in Blocks \ exp.todo : Holds(b)
         /\ cache.checkpoint # Nothing =>
              \A b \in Blocks : cache.checkpoint[b] <= exp.snap[b]
         /\ cache.checkpoint # Nothing =>
              \A b \in exp.todo : cache.checkpoint[b] # exp.snap[b]
    /\ exp.pc \in {"checkpoint", "view"} => \A b \in Blocks : Holds(b)

(* The first file of a sequence holds the captured disk. *)
Carries(files) == files # <<>> /\ files[1].content = exp.snap

ArchiveInv ==
    /\ exp.pc = "snapshot" /\ cfg.mode = "proxmox" /\ exp.clean =>
         archives = <<>>
    /\ exp.pc = "fetch" /\ exp.clean => Carries(archives)
    /\ exp.pc = "cleanup" /\ ~exp.err => Carries(stage)
    /\ exp.pc = "remove" /\ ~exp.err /\ exp.clean => Carries(stage)
    /\ exp.pc = "staged" /\ exp.clean => Carries(stage)

CaptureInv ==
    /\ DataTypes /\ Ordered /\ CacheInv /\ PhaseInv /\ ProviderInv
    /\ ArchiveInv /\ DOMAIN restored = Targets

(* The refinement of a step that only changes the captured instant. *)
LEMMA SnapMapped ==
  ASSUME UNCHANGED <<disk, points, restored>>,
         \/ exp'.snap = exp.snap
         \/ exp'.snap = Nothing
         \/ exp.snap = Nothing /\ exp'.snap = disk
  PROVE  [Promise!Next]_Promise!absVars
<1>1. CASE exp'.snap = exp.snap
  <2>1. UNCHANGED Promise!absVars
    BY <1>1 DEF Promise!absVars
  <2> QED
    BY <2>1
<1>2. CASE exp'.snap = Nothing
  <2>1. Promise!Abandon
    BY <1>2 DEF Promise!Abandon
  <2> QED
    BY <2>1 DEF Promise!Next
<1>3. CASE exp.snap = Nothing /\ exp'.snap = disk
  <2>1. Promise!Capture
    BY <1>3 DEF Promise!Capture
  <2> QED
    BY <2>1 DEF Promise!Next
<1> QED
  BY <1>1, <1>2, <1>3

(* An export that ends, well or not. *)
LEMMA IdleShape ==
  ASSUME NEW n \in 0..MaxExports
  PROVE  /\ Idle(n) \in Export
         /\ Idle(n).pc = "idle" /\ Idle(n).snap = Nothing /\ Idle(n).no = n
  BY DEF Export, Idle, Pcs, Labels

LEMMA EndsInv ==
  ASSUME CaptureInv, exp' = Idle(exp.no), UNCHANGED <<cfg, disk, writes, cache, restored>>
  PROVE  CaptureInv' /\ exp'.snap = Nothing
<1>1. exp' \in Export /\ exp'.pc = "idle" /\ exp'.snap = Nothing
  BY IdleShape DEF CaptureInv, DataTypes, Export
<1>2. DataTypes'
  BY <1>1 DEF CaptureInv, DataTypes
<1>3. Ordered' /\ CacheInv'
  BY <1>1 DEF CaptureInv, Ordered, Older, CacheInv
<1>4. PhaseInv' /\ ProviderInv' /\ ArchiveInv'
  BY <1>1 DEF PhaseInv, ProviderInv, ArchiveInv, Captured, Providing
<1> QED
  BY <1>1, <1>2, <1>3, <1>4 DEF CaptureInv

LEMMA InitCapture == Init => CaptureInv /\ Promise!Init
<1> SUFFICES ASSUME Init PROVE CaptureInv /\ Promise!Init
  OBVIOUS
<1>1. exp \in Export /\ exp.pc = "idle" /\ exp.snap = Nothing
  BY IdleShape, TransportAssumption DEF Init
<1>2. DataTypes
  BY <1>1, TransportAssumption, SettingsAssumption
  DEF Init, DataTypes, Contents, CacheType, NoCache, BlockFiles
<1>3. Ordered /\ CacheInv
  BY <1>1 DEF Init, Ordered, Older, CacheInv, NoCache
<1>4. PhaseInv /\ ProviderInv /\ ArchiveInv
  BY <1>1 DEF PhaseInv, ProviderInv, ArchiveInv, Captured, Providing
<1>5. CaptureInv
  BY <1>1, <1>2, <1>3, <1>4 DEF CaptureInv, Init
<1>6. Promise!Init
  <2>1. disk \in Contents /\ exp.snap = Nothing
    BY <1>1, <1>2 DEF DataTypes
  <2>2. {RestoreSource(p.files).content : p \in {q \in points : q.clean}} = {}
    BY DEF Init
  <2>3. [t \in Targets |-> IF restored[t] = Nothing \/ ~restored[t].clean
                             THEN Nothing ELSE restored[t].content]
          = [t \in Targets |-> Nothing]
    BY DEF Init
  <2> QED
    BY <2>1, <2>2, <2>3 DEF Promise!Init
<1> QED
  BY <1>5, <1>6

Refines == CaptureInv' /\ [Promise!Next]_Promise!absVars

LEMMA WriteRefines ==
  ASSUME CaptureInv, NEW b \in Blocks, GuestWrite(b)
  PROVE  Refines
<1> USE DEF GuestWrite
<1>1. disk' \in Contents /\ writes' \in 0..MaxWrites /\ writes' = writes + 1
  BY TransportAssumption DEF CaptureInv, DataTypes, Contents
<1>2. UNCHANGED <<cfg, exp, stage, cache, archives, restored, points>>
  BY DEF host, vault
<1>3. \A x \in Blocks : disk'[x] >= disk[x] /\ disk'[x] <= writes'
  BY <1>1, TransportAssumption DEF CaptureInv, DataTypes, Ordered, Contents
<1>4. \A c \in Contents, x \in Blocks :
        (\A y \in Blocks : c[y] <= disk[y]) =>
           c[x] <= disk'[x] /\ (disk'[x] = c[x] => disk[x] = c[x])
  BY <1>1, <1>3, TransportAssumption
  DEF CaptureInv, DataTypes, Ordered, Contents
<1>5. Ordered'
  <2>1. ASSUME NEW c \in Contents \cup {Nothing}, Older(c) PROVE (c # Nothing => \A x \in Blocks : c[x] <= disk'[x])
    BY <1>4, <2>1 DEF Older
  <2>2. exp.snap \in Contents \cup {Nothing} /\ cache.checkpoint \in Contents \cup {Nothing}
    BY DEF CaptureInv, DataTypes, Export, CacheType
  <2> QED
    BY <1>2, <1>3, <2>1, <2>2 DEF CaptureInv, Ordered, Older
<1>6. CacheInv'
  BY <1>2, <1>4 DEF CaptureInv, CacheInv, Ordered, Older, DataTypes, CacheType
<1>7. DataTypes' /\ PhaseInv' /\ ProviderInv' /\ ArchiveInv'
  BY <1>1, <1>2
  DEF CaptureInv, DataTypes, PhaseInv, ProviderInv, ArchiveInv, Holds,
      Carries, CacheTorn
<1>8. Promise!Write
  BY <1>1, <1>2 DEF Promise!Write
<1> QED
  BY <1>2, <1>5, <1>6, <1>7, <1>8 DEF Refines, CaptureInv, Promise!Next

LEMMA BeginRefines ==
  ASSUME CaptureInv, BeginExport
  PROVE  Refines
<1> DEFINE pc == IF cfg.mode = "vddk-cbt" THEN "probe" ELSE "snapshot"
           clean == /\ cfg.mode = "proxmox" => archives = <<>>
                    /\ cfg.mode = "vddk-cbt" => ~CacheTorn
<1>1. exp.no + 1 \in 0..MaxExports
  BY TransportAssumption DEF BeginExport, CaptureInv, DataTypes, Export
<1>2. pc \in Pcs /\ clean \in BOOLEAN
  BY DEF Pcs
<1>3. exp' \in Export /\ exp'.pc = pc /\ exp'.snap = Nothing
  BY <1>1, <1>2 DEF BeginExport, Export, Idle, Labels
<1>4. exp'.clean <=> clean
  BY <1>1, <1>2 DEF BeginExport, Idle
<1>5. UNCHANGED <<cfg, disk, writes, stage, cache, archives, restored, points>> /\ exp.snap = Nothing
  BY DEF BeginExport, guest, host, vault, CaptureInv, PhaseInv, At, Before
<1>6. Ordered' /\ CacheInv' /\ DataTypes'
  BY <1>3, <1>5 DEF CaptureInv, Ordered, Older, CacheInv, DataTypes
<1>7. PhaseInv' /\ ProviderInv' /\ ArchiveInv'
  BY <1>3, <1>4, <1>5
  DEF PhaseInv, ProviderInv, ArchiveInv, Captured, Providing, CacheTorn
<1> QED
  BY <1>3, <1>5, <1>6, <1>7, SnapMapped DEF Refines, CaptureInv

(* What stays when an export's step leaves the guest, the cache and the    *)
(* restored machines alone: only what its own record says is to be shown.  *)
LEMMA StepRefines ==
  ASSUME CaptureInv, UNCHANGED <<cfg, disk, writes, cache, restored, points>>,
         exp' \in Export,
         \/ exp'.snap = exp.snap
         \/ exp'.snap = Nothing
         \/ exp.snap = Nothing /\ exp'.snap = disk,
         PhaseInv', ProviderInv', ArchiveInv'
  PROVE  Refines
<1>1. Ordered' /\ CacheInv' /\ DataTypes'
  BY TransportAssumption
  DEF CaptureInv, Ordered, Older, CacheInv, DataTypes, Contents
<1> QED
  BY <1>1, SnapMapped DEF Refines, CaptureInv

LEMMA EndRefines ==
  ASSUME CaptureInv, Fails, UNCHANGED <<cfg, disk, writes, cache, restored, points>>
  PROVE  Refines
  BY EndsInv, SnapMapped DEF Refines, Fails

LEMMA ProbeRefines ==
  ASSUME CaptureInv, NEW cap \in Capabilities, Probe(cap)
  PROVE  Refines
<1>1. UNCHANGED <<cfg, disk, writes, stage, cache, archives, restored, points>>
  BY DEF Probe, guest, host, vault
<1>2. CASE Fails
  BY <1>1, <1>2, EndRefines
<1>3. CASE Goto("request") \/ Goto("snapshot")
  <2>1. /\ exp' \in Export /\ exp'.pc \in {"request", "snapshot"}
        /\ exp'.snap = exp.snap /\ exp'.clean = exp.clean
    BY <1>3 DEF Goto, CaptureInv, DataTypes, Export, Pcs
  <2>2. exp.pc = "probe" /\ cfg.mode = "vddk-cbt" /\ exp.snap = Nothing
    BY DEF Probe, At, CaptureInv, PhaseInv, Before, Providing
  <2>3. PhaseInv' /\ ProviderInv' /\ ArchiveInv'
    BY <1>1, <2>1, <2>2
    DEF CaptureInv, PhaseInv, ProviderInv, ArchiveInv, Captured, Providing,
        CacheTorn
  <2> QED
    BY <1>1, <2>1, <2>3, StepRefines
<1> QED
  BY <1>2, <1>3 DEF Probe

(* The provider or the view failed. *)
LEMMA InvalidateRefines ==
  ASSUME CaptureInv, NEW fallback, Invalidate(fallback), exp.pc \in Providing,
         UNCHANGED <<cfg, disk, writes, cache, restored, points>>
  PROVE  Refines
<1>1. exp' \in Export /\ exp'.pc = "invalidate" /\ exp'.snap = exp.snap
  BY DEF Invalidate, CaptureInv, DataTypes, Export, Pcs
<1>2. PhaseInv' /\ ProviderInv' /\ ArchiveInv'
  BY <1>1 DEF CaptureInv, PhaseInv, ProviderInv, ArchiveInv, Before, Captured
<1> QED
  BY <1>1, <1>2, StepRefines

LEMMA StartRefines ==
  ASSUME CaptureInv, ProviderStart
  PROVE  Refines
<1>1. /\ UNCHANGED <<cfg, disk, writes, stage, cache, archives, restored, points>>
      /\ exp.pc = "request"
  BY DEF ProviderStart, guest, host, vault, At
<1>2. CASE Invalidate(FALSE)
  BY <1>1, <1>2, InvalidateRefines DEF Providing
<1>3. ASSUME NEW quiesced \in {FALSE, cfg.quiesce}, quiesced \in BOOLEAN,
             exp' = [exp EXCEPT !.pc = "provider", !.snap = disk,
                               !.frozen = quiesced, !.todo = ChangedBlocks]
      PROVE  Refines
  <2>1. ChangedBlocks \subseteq Blocks /\ disk \in Contents
    BY DEF ChangedBlocks, CaptureInv, DataTypes
  <2>2. /\ exp' \in Export /\ exp'.pc = "provider" /\ exp'.snap = disk
        /\ exp'.todo = ChangedBlocks /\ exp'.clean = exp.clean
    BY <1>3, <2>1 DEF CaptureInv, DataTypes, Export, Pcs
  <2>3. exp.snap = Nothing /\ cfg.mode = "vddk-cbt" /\ (exp.clean => ~CacheTorn)
    BY <1>1 DEF CaptureInv, PhaseInv, ProviderInv, Before, Providing
  <2>4. ASSUME NEW b \in Blocks \ ChangedBlocks
        PROVE  /\ cache.blocks[b] \in {disk[b], Lost}
               /\ exp.clean => cache.blocks[b] = disk[b]
    <3>1. cache.checkpoint # Nothing /\ disk[b] = cache.checkpoint[b]
      BY DEF ChangedBlocks
    <3> QED
      BY <2>3, <3>1 DEF CaptureInv, CacheInv, CacheTorn
  <2>5. ProviderInv'
    BY <1>1, <2>1, <2>2, <2>4
    DEF ProviderInv, Holds, CaptureInv, Ordered, Older, ChangedBlocks
  <2>6. PhaseInv' /\ ArchiveInv'
    BY <1>1, <2>1, <2>2, <2>3
    DEF PhaseInv, ArchiveInv, Before, Captured, Providing
  <2> QED
    BY <1>1, <2>2, <2>3, <2>5, <2>6, StepRefines
<1>4. cfg.quiesce \in BOOLEAN
  BY DEF CaptureInv, DataTypes, Setting
<1> QED
  BY <1>2, <1>3, <1>4 DEF ProviderStart

LEMMA ProviderWriteRefines ==
  ASSUME CaptureInv, NEW b \in Blocks, ProviderWrite(b)
  PROVE  Refines
<1>1. /\ UNCHANGED <<cfg, disk, writes, stage, archives, restored, points>>
      /\ exp.pc = "provider" /\ b \in exp.todo /\ exp.snap \in Contents
  BY DEF ProviderWrite, guest, host, vault, At, CaptureInv, PhaseInv, Captured
<1>2. /\ cache' \in CacheType /\ cache'.checkpoint = cache.checkpoint
      /\ cache'.blocks = [cache.blocks EXCEPT ![b] = exp.snap[b]]
  BY <1>1
  DEF ProviderWrite, CaptureInv, DataTypes, CacheType, BlockFiles, Contents
<1>3. /\ exp' \in Export /\ exp'.pc = exp.pc /\ exp'.snap = exp.snap
      /\ exp'.clean = exp.clean /\ exp'.todo = exp.todo \ {b}
  BY DEF ProviderWrite, CaptureInv, DataTypes, Export
<1>4. \A x \in Blocks : cache'.blocks[x] = IF x = b THEN exp.snap[b] ELSE cache.blocks[x]
  BY <1>2 DEF CaptureInv, DataTypes, CacheType, BlockFiles
<1>5. CacheInv'
  <2> SUFFICES ASSUME cache.checkpoint # Nothing, NEW x \in Blocks,
                      disk[x] = cache.checkpoint[x]
               PROVE  cache'.blocks[x] \in {cache.checkpoint[x], Lost}
    BY <1>1, <1>2 DEF CacheInv
  <2>1. CASE x = b
    <3>1. /\ cache.checkpoint[b] <= exp.snap[b] /\ exp.snap[b] <= disk[b]
          /\ cache.checkpoint[b] # exp.snap[b]
      BY <1>1, NothingAssumption DEF CaptureInv, ProviderInv, Ordered, Older
    <3>2. cache.checkpoint[b] \in Nat /\ exp.snap[b] \in Nat /\ disk[b] \in Nat
      BY <1>1 DEF CaptureInv, DataTypes, CacheType, Contents
    <3> QED
      BY <2>1, <3>1, <3>2
  <2>2. CASE x # b
    BY <1>4, <2>2 DEF CaptureInv, CacheInv
  <2> QED
    BY <2>1, <2>2
<1>6. ProviderInv'
  BY <1>1, <1>2, <1>3, <1>4
  DEF CaptureInv, ProviderInv, Holds, DataTypes, Export
<1>7. PhaseInv' /\ ArchiveInv'
  BY <1>1, <1>3 DEF CaptureInv, PhaseInv, ArchiveInv
<1>8. DataTypes' /\ Ordered'
  BY <1>1, <1>2, <1>3 DEF CaptureInv, DataTypes, Ordered, Older
<1> QED
  BY <1>1, <1>3, <1>5, <1>6, <1>7, <1>8, SnapMapped DEF Refines, CaptureInv

LEMMA ProviderEndRefines ==
  ASSUME CaptureInv,
         \/ \E reason \in ProviderReasons, safe \in BOOLEAN :
              ProviderFails(reason, safe)
         \/ \E label \in Attestations : ProviderAccepted(label)
  PROVE  Refines
<1>1. /\ UNCHANGED <<cfg, disk, writes, stage, cache, archives, restored, points>>
      /\ exp.pc = "provider"
  BY DEF ProviderFails, ProviderAccepted, guest, host, vault, At
<1>2. CASE \E fallback : Invalidate(fallback)
  BY <1>1, <1>2, InvalidateRefines DEF Providing
<1>3. ASSUME NEW label \in Attestations, exp.todo = {},
             exp' = [exp EXCEPT !.pc = "checkpoint", !.label = label]
      PROVE  Refines
  <2>1. /\ exp' \in Export /\ exp'.pc = "checkpoint" /\ exp'.snap = exp.snap
        /\ exp'.clean = exp.clean
    BY <1>3 DEF CaptureInv, DataTypes, Export, Pcs, Attestations, Labels
  <2>2. ProviderInv'
    BY <1>1, <1>3, <2>1 DEF CaptureInv, ProviderInv, Holds
  <2>3. PhaseInv' /\ ArchiveInv'
    BY <1>1, <2>1
    DEF CaptureInv, PhaseInv, ArchiveInv, Before, Captured, Providing
  <2> QED
    BY <1>1, <2>1, <2>2, <2>3, StepRefines
<1> QED
  BY <1>2, <1>3 DEF ProviderFails, ProviderAccepted

LEMMA CheckpointRefines ==
  ASSUME CaptureInv, AdvanceCheckpoint
  PROVE  Refines
<1>1. /\ UNCHANGED <<cfg, disk, writes, stage, archives, restored, points>>
      /\ exp.pc = "checkpoint" /\ exp.snap \in Contents
  BY DEF AdvanceCheckpoint, guest, host, vault, At, CaptureInv, PhaseInv,
     Captured
<1>2. /\ exp' \in Export /\ exp'.pc = "view" /\ exp'.snap = exp.snap
      /\ exp'.clean = exp.clean
  BY DEF AdvanceCheckpoint, Goto, CaptureInv, DataTypes, Export, Pcs
<1>3. cache' \in CacheType /\ cache'.checkpoint = exp.snap /\ cache'.blocks = cache.blocks
  BY <1>1 DEF AdvanceCheckpoint, CaptureInv, DataTypes, CacheType
<1>4. \A b \in Blocks : Holds(b)
  BY <1>1 DEF CaptureInv, ProviderInv
<1>5. CacheInv' /\ ProviderInv'
  BY <1>1, <1>2, <1>3, <1>4 DEF CacheInv, ProviderInv, Holds
<1>6. PhaseInv' /\ ArchiveInv'
  BY <1>1, <1>2
  DEF CaptureInv, PhaseInv, ArchiveInv, Before, Captured, Providing
<1>7. DataTypes' /\ Ordered'
  BY <1>1, <1>2, <1>3 DEF CaptureInv, DataTypes, Ordered, Older
<1> QED
  BY <1>1, <1>2, <1>5, <1>6, <1>7, SnapMapped DEF Refines, CaptureInv

LEMMA ViewRefines ==
  ASSUME CaptureInv, SnapshotView
  PROVE  Refines
<1>1. /\ UNCHANGED <<cfg, disk, writes, cache, archives, restored, points>>
      /\ exp.pc = "view" /\ exp.snap \in Contents
  BY DEF SnapshotView, guest, host, vault, At, CaptureInv, PhaseInv, Captured
<1>2. CASE Invalidate(FALSE)
  BY <1>1, <1>2, InvalidateRefines DEF Providing
<1>3. CASE /\ stage' = <<[kind |-> "layout", content |-> cache.blocks]>>
           /\ Goto("staged")
  <2>1. /\ exp' \in Export /\ exp'.pc = "staged" /\ exp'.snap = exp.snap
        /\ exp'.clean = exp.clean
    BY <1>3 DEF Goto, CaptureInv, DataTypes, Export, Pcs
  <2>2. exp.clean => cache.blocks = exp.snap
    BY <1>1
    DEF CaptureInv, ProviderInv, Holds, DataTypes, CacheType, BlockFiles,
        Contents
  <2>3. exp'.clean => Carries(stage)'
    BY <1>3, <2>1, <2>2 DEF Carries
  <2>4. PhaseInv' /\ ProviderInv' /\ ArchiveInv'
    BY <1>1, <2>1, <2>3
    DEF CaptureInv, PhaseInv, ProviderInv, ArchiveInv, Before, Captured,
        Providing
  <2> QED
    BY <1>1, <2>1, <2>4, StepRefines
<1> QED
  BY <1>2, <1>3 DEF SnapshotView

LEMMA RemoveCacheRefines ==
  ASSUME CaptureInv, RemoveCache
  PROVE  Refines
<1>1. /\ UNCHANGED <<cfg, disk, writes, stage, archives, restored, points>>
      /\ exp.pc = "invalidate" /\ cfg.mode = "vddk-cbt" /\ exp.no \in 0..MaxExports
      /\ exp.next \in {"idle", "snapshot"}
  BY DEF RemoveCache, guest, host, vault, At, CaptureInv, PhaseInv, Providing,
     DataTypes, Export
<1>2. /\ exp' \in Export /\ exp'.snap = Nothing /\ exp'.pc \in {"idle", "snapshot"}
  <2>1. (exp.clean \/ exp.next = "snapshot") \in BOOLEAN
    OBVIOUS
  <2> QED
    BY <1>1, <2>1 DEF RemoveCache, Idle, Export, Pcs, Labels
<1>3. /\ cache' \in CacheType /\ cache'.checkpoint \in {cache.checkpoint, Nothing}
      /\ \A b \in Blocks : cache'.blocks[b] \in {cache.blocks[b], Lost}
  BY DEF RemoveCache, NoCache, CaptureInv, DataTypes, CacheType, BlockFiles
<1>4. CacheInv' /\ DataTypes' /\ Ordered'
  BY <1>1, <1>2, <1>3 DEF CaptureInv, CacheInv, DataTypes, Ordered, Older
<1>5. PhaseInv' /\ ProviderInv' /\ ArchiveInv'
  BY <1>1, <1>2
  DEF CaptureInv, PhaseInv, ProviderInv, ArchiveInv, Captured, Providing
<1> QED
  BY <1>1, <1>2, <1>4, <1>5, SnapMapped DEF Refines, CaptureInv

LEMMA VMwareSnapshotRefines ==
  ASSUME CaptureInv, VMwareSnapshot
  PROVE  Refines
<1>1. /\ UNCHANGED <<cfg, disk, writes, stage, cache, archives, restored, points>>
      /\ exp.pc = "snapshot" /\ exp.snap = Nothing /\ disk \in Contents
  BY DEF VMwareSnapshot, guest, vault, At, CaptureInv, PhaseInv, Before,
     DataTypes
<1>2. CASE Fails
  BY <1>1, <1>2, EndRefines
<1>3. ASSUME NEW quiesced \in BOOLEAN,
             exp' = [exp EXCEPT !.pc = "clone", !.snap = disk, !.frozen = quiesced,
                                !.made = {"snapshot"}, !.label = SnapshotLabel(quiesced)]
      PROVE  Refines
  <2>1. SnapshotLabel(quiesced) \in Labels
    BY DEF SnapshotLabel, Labels
  <2>2. exp' \in Export /\ exp'.pc = "clone" /\ exp'.snap = disk
    BY <1>1, <1>3, <2>1 DEF CaptureInv, DataTypes, Export, Pcs
  <2>3. PhaseInv' /\ ProviderInv' /\ ArchiveInv'
    BY <1>1, <2>2 DEF PhaseInv, ProviderInv, ArchiveInv, Before, Providing
  <2> QED
    BY <1>1, <2>2, <2>3, StepRefines
<1>4. cfg.quiesce \in BOOLEAN /\ (cfg.quiesce /\ ~cfg.crash) \in BOOLEAN
  BY DEF CaptureInv, DataTypes, Setting
<1> QED
  BY <1>2, <1>3, <1>4 DEF VMwareSnapshot

LEMMA ColdRefines ==
  ASSUME CaptureInv, ColdExport
  PROVE  Refines
<1>1. /\ UNCHANGED <<cfg, disk, writes, stage, cache, archives, restored, points>>
      /\ exp.pc = "snapshot" /\ exp.snap = Nothing /\ disk \in Contents
  BY DEF ColdExport, guest, host, vault, At, CaptureInv, PhaseInv, Before,
     DataTypes
<1>2. exp' \in Export /\ exp'.pc = "ovf" /\ exp'.snap = disk
  BY <1>1 DEF ColdExport, CaptureInv, DataTypes, Export, Pcs, Labels
<1>3. PhaseInv' /\ ProviderInv' /\ ArchiveInv'
  BY <1>1, <1>2 DEF PhaseInv, ProviderInv, ArchiveInv, Before, Providing
<1> QED
  BY <1>1, <1>2, <1>3, StepRefines

(* A command of an adapter fails: the finally clause follows. *)
LEMMA ErrRefines ==
  ASSUME CaptureInv, NEW pc \in {"cleanup", "remove"},
         exp' = [exp EXCEPT !.pc = pc, !.err = TRUE],
         UNCHANGED <<cfg, disk, writes, cache, restored, points>>
  PROVE  Refines
<1>1. exp' \in Export /\ exp'.pc = pc /\ exp'.snap = exp.snap /\ exp'.err
  BY DEF CaptureInv, DataTypes, Export, Pcs
<1>2. PhaseInv' /\ ProviderInv' /\ ArchiveInv'
  BY <1>1 DEF PhaseInv, ProviderInv, ArchiveInv, Before, Captured, Providing
<1> QED
  BY <1>1, <1>2, StepRefines

LEMMA CloneRefines ==
  ASSUME CaptureInv, CloneSnapshot
  PROVE  Refines
<1>1. /\ UNCHANGED <<cfg, disk, writes, stage, cache, archives, restored, points>>
      /\ exp.pc = "clone" /\ exp.snap \in Contents
  BY DEF CloneSnapshot, guest, vault, At, CaptureInv, PhaseInv, Captured
<1>2. CASE exp' = [exp EXCEPT !.pc = "ovf", !.made = @ \cup {"clone"}]
  <2>1. exp' \in Export /\ exp'.pc = "ovf" /\ exp'.snap = exp.snap
    BY <1>2 DEF CaptureInv, DataTypes, Export, Pcs
  <2>2. PhaseInv' /\ ProviderInv' /\ ArchiveInv'
    BY <1>1, <2>1 DEF PhaseInv, ProviderInv, ArchiveInv, Before, Providing
  <2> QED
    BY <1>1, <2>1, <2>2, StepRefines
<1>3. CASE exp' = [exp EXCEPT !.pc = "cleanup", !.err = TRUE]
  BY <1>1, <1>3, ErrRefines
<1> QED
  BY <1>2, <1>3 DEF CloneSnapshot

LEMMA OvfRefines ==
  ASSUME CaptureInv, ExportOvf
  PROVE  Refines
<1>1. /\ UNCHANGED <<cfg, disk, writes, cache, archives, restored, points>>
      /\ exp.pc = "ovf" /\ exp.snap \in Contents
  BY DEF ExportOvf, guest, host, vault, At, CaptureInv, PhaseInv, Captured
<1>2. CASE /\ stage' = <<[kind |-> "ovf", content |-> exp.snap]>>
           /\ Goto("cleanup")
  <2>1. exp' \in Export /\ exp'.pc = "cleanup" /\ exp'.snap = exp.snap
    BY <1>2 DEF Goto, CaptureInv, DataTypes, Export, Pcs
  <2>2. Carries(stage)'
    BY <1>2, <2>1 DEF Carries
  <2>3. PhaseInv' /\ ProviderInv' /\ ArchiveInv'
    BY <1>1, <2>1, <2>2
    DEF PhaseInv, ProviderInv, ArchiveInv, Before, Captured, Providing
  <2> QED
    BY <1>1, <2>1, <2>3, StepRefines
<1>3. CASE exp' = [exp EXCEPT !.pc = "cleanup", !.err = TRUE]
  BY <1>1, <1>3, ErrRefines
<1> QED
  BY <1>2, <1>3 DEF ExportOvf

(* The finally clause of an export that may go on to be stored. *)
LEMMA FinallyRefines ==
  ASSUME CaptureInv, exp.pc \in {"cleanup", "remove"},
         UNCHANGED <<cfg, disk, writes, cache, restored, points>>,
         \/ Fails
         \/ ~exp.err /\ Goto("staged") /\ UNCHANGED stage
  PROVE  Refines
<1>1. CASE Fails
  BY <1>1, EndRefines
<1>2. CASE ~exp.err /\ Goto("staged") /\ UNCHANGED stage
  <2>1. /\ exp' \in Export /\ exp'.pc = "staged" /\ exp'.snap = exp.snap
        /\ exp'.clean = exp.clean
    BY <1>2 DEF Goto, CaptureInv, DataTypes, Export, Pcs
  <2>2. exp.snap \in Contents /\ (exp.clean => Carries(stage))
    BY <1>2 DEF CaptureInv, ArchiveInv, PhaseInv
  <2>3. PhaseInv' /\ ProviderInv' /\ ArchiveInv'
    BY <1>2, <2>1, <2>2
    DEF CaptureInv, PhaseInv, ProviderInv, ArchiveInv, Before, Captured,
        Providing, Carries
  <2> QED
    BY <2>1, <2>3, StepRefines
<1> QED
  BY <1>1, <1>2

LEMMA CleanupRefines ==
  ASSUME CaptureInv, VMwareCleanup
  PROVE  Refines
<1>1. /\ UNCHANGED <<cfg, disk, writes, cache, restored, points>>
      /\ exp.pc = "cleanup"
  BY DEF VMwareCleanup, guest, vault, At
<1>2. Fails \/ (~exp.err /\ Goto("staged") /\ UNCHANGED stage)
  BY Zenon DEF VMwareCleanup
<1> QED
  BY <1>1, <1>2, FinallyRefines

LEMMA RemoveArchivesRefines ==
  ASSUME CaptureInv, RemoveArchives
  PROVE  Refines
<1>1. /\ UNCHANGED <<cfg, disk, writes, cache, restored, points>>
      /\ exp.pc = "remove"
  BY DEF RemoveArchives, guest, vault, At
<1>2. Fails \/ (~exp.err /\ Goto("staged") /\ UNCHANGED stage)
  BY Zenon DEF RemoveArchives
<1> QED
  BY <1>1, <1>2, FinallyRefines

LEMMA VzdumpRefines ==
  ASSUME CaptureInv, Vzdump
  PROVE  Refines
<1>1. /\ UNCHANGED <<cfg, disk, writes, cache, restored, points>>
      /\ exp.pc = "snapshot" /\ exp.snap = Nothing /\ disk \in Contents
      /\ exp.clean => archives = <<>>
  BY DEF Vzdump, guest, vault, At, CaptureInv, PhaseInv, ArchiveInv, Before,
     DataTypes
<1>2. CASE /\ exp' = [exp EXCEPT !.pc = "fetch", !.snap = disk]
           /\ archives' = Append(archives, Whole("vzdump"))
  <2>1. /\ exp' \in Export /\ exp'.pc = "fetch" /\ exp'.snap = disk
        /\ exp'.clean = exp.clean
    BY <1>1, <1>2 DEF CaptureInv, DataTypes, Export, Pcs
  <2>2. Whole("vzdump").content = disk
    BY <2>1 DEF Whole
  <2>3. exp'.clean => Carries(archives)'
    <3> HIDE DEF Whole
    <3> QED
      BY <1>1, <1>2, <2>1, <2>2 DEF Carries
  <2>4. PhaseInv' /\ ProviderInv' /\ ArchiveInv'
    BY <1>1, <2>1, <2>3
    DEF PhaseInv, ProviderInv, ArchiveInv, Before, Providing
  <2> QED
    BY <1>1, <2>1, <2>4, StepRefines
<1>3. CASE exp' = [exp EXCEPT !.pc = "remove", !.err = TRUE]
  BY <1>1, <1>3, ErrRefines
<1> QED
  BY <1>2, <1>3 DEF Vzdump

LEMMA XcpRefines ==
  ASSUME CaptureInv, XcpSnapshot
  PROVE  Refines
<1>1. /\ UNCHANGED <<cfg, disk, writes, cache, restored, points>>
      /\ exp.pc = "snapshot" /\ exp.snap = Nothing /\ disk \in Contents
  BY DEF XcpSnapshot, guest, vault, At, CaptureInv, PhaseInv, Before, DataTypes
<1>2. CASE exp' = [exp EXCEPT !.pc = "template", !.snap = disk, !.made = {"snapshot"}]
  <2>1. exp' \in Export /\ exp'.pc = "template" /\ exp'.snap = disk
    BY <1>1, <1>2 DEF CaptureInv, DataTypes, Export, Pcs
  <2>2. PhaseInv' /\ ProviderInv' /\ ArchiveInv'
    BY <1>1, <2>1 DEF PhaseInv, ProviderInv, ArchiveInv, Before, Providing
  <2> QED
    BY <1>1, <2>1, <2>2, StepRefines
<1>3. CASE exp' = [exp EXCEPT !.pc = "remove", !.err = TRUE]
  BY <1>1, <1>3, ErrRefines
<1> QED
  BY <1>2, <1>3 DEF XcpSnapshot

LEMMA TemplateRefines ==
  ASSUME CaptureInv, XcpTemplate
  PROVE  Refines
<1>1. /\ UNCHANGED <<cfg, disk, writes, cache, restored, points>>
      /\ exp.pc = "template" /\ exp.snap \in Contents
  BY DEF XcpTemplate, guest, vault, At, CaptureInv, PhaseInv, Captured
<1>2. CASE Goto("fetch") /\ archives' = <<Whole("xva")>>
  <2>1. exp' \in Export /\ exp'.pc = "fetch" /\ exp'.snap = exp.snap
    BY <1>2 DEF Goto, CaptureInv, DataTypes, Export, Pcs
  <2>2. Carries(archives)'
    BY <1>2, <2>1 DEF Carries, Whole
  <2>3. PhaseInv' /\ ProviderInv' /\ ArchiveInv'
    BY <1>1, <2>1, <2>2
    DEF PhaseInv, ProviderInv, ArchiveInv, Before, Providing
  <2> QED
    BY <1>1, <2>1, <2>3, StepRefines
<1>3. CASE exp' = [exp EXCEPT !.pc = "remove", !.err = TRUE]
  BY <1>1, <1>3, ErrRefines
<1> QED
  BY <1>2, <1>3 DEF XcpTemplate

LEMMA FetchRefines ==
  ASSUME CaptureInv, FetchArchives
  PROVE  Refines
<1>1. /\ UNCHANGED <<cfg, disk, writes, cache, restored, points>>
      /\ exp.pc = "fetch" /\ exp.snap \in Contents
      /\ exp.clean => Carries(archives)
  BY DEF FetchArchives, guest, vault, At, CaptureInv, PhaseInv, ArchiveInv,
     Captured
<1>2. CASE stage' = archives /\ Goto("remove")
  <2>1. /\ exp' \in Export /\ exp'.pc = "remove" /\ exp'.snap = exp.snap
        /\ exp'.clean = exp.clean
    BY <1>2 DEF Goto, CaptureInv, DataTypes, Export, Pcs
  <2>2. exp'.clean => Carries(stage)'
    BY <1>1, <1>2, <2>1 DEF Carries
  <2>3. PhaseInv' /\ ProviderInv' /\ ArchiveInv'
    BY <1>1, <2>1, <2>2
    DEF PhaseInv, ProviderInv, ArchiveInv, Before, Captured, Providing
  <2> QED
    BY <1>1, <2>1, <2>3, StepRefines
<1>3. CASE exp' = [exp EXCEPT !.pc = "remove", !.err = TRUE]
  BY <1>1, <1>3, ErrRefines
<1> QED
  BY <1>2, <1>3 DEF FetchArchives

(* The abstract points and machines. *)
AbsPoints == {RestoreSource(p.files).content : p \in {q \in points : q.clean}}
AbsRestored ==
    [t \in Targets |-> IF restored[t] = Nothing \/ ~restored[t].clean
                         THEN Nothing ELSE restored[t].content]

(* A point of a clean export is the captured disk: Publish. A point of     *)
(* another one is none of DiskBackup's: Abandon.                           *)
LEMMA StoreRefines ==
  ASSUME CaptureInv, StorePoint
  PROVE  Refines
<1> DEFINE new == [no |-> exp.no, files |-> stage, label |-> exp.label,
                   frozen |-> exp.frozen, clean |-> exp.clean]
<1>1. /\ UNCHANGED <<cfg, disk, writes, cache, restored>> /\ exp' = Idle(exp.no)
      /\ exp.pc = "staged" /\ exp.snap \in Contents
      /\ exp.clean => Carries(stage)
  BY DEF StorePoint, guest, At, CaptureInv, PhaseInv, ArchiveInv, Captured
<1>2. CaptureInv' /\ exp'.snap = Nothing
  BY <1>1, EndsInv
<1>3. CASE points' = points
  BY <1>1, <1>2, <1>3, SnapMapped DEF Refines
<1>4. CASE points' = points \cup {new} /\ exp.clean
  <2>1. new.clean /\ RestoreSource(new.files).content = exp.snap
    BY <1>1, <1>4 DEF RestoreSource, Carries
  <2> HIDE DEF new
  <2>2. AbsPoints' = AbsPoints \cup {exp.snap}
    BY <1>4, <2>1 DEF AbsPoints
  <2>3. exp.snap # Nothing
    BY <1>1, NothingAssumption
  <2>4. Promise!Publish
    BY <1>1, <1>2, <2>2, <2>3 DEF Promise!Publish, AbsPoints
  <2> QED
    BY <1>2, <2>4 DEF Refines, Promise!Next
<1>5. CASE points' = points \cup {new} /\ ~exp.clean
  <2>1. ~new.clean
    BY <1>5
  <2> HIDE DEF new
  <2>2. AbsPoints' = AbsPoints
    BY <1>5, <2>1 DEF AbsPoints
  <2>3. Promise!Abandon
    BY <1>1, <1>2, <2>2 DEF Promise!Abandon, AbsPoints
  <2> QED
    BY <1>2, <2>3 DEF Refines, Promise!Next
<1> QED
  BY <1>3, <1>4, <1>5 DEF StorePoint

LEMMA CrashRefines ==
  ASSUME CaptureInv, CrashExport
  PROVE  Refines
  BY EndRefines DEF CrashExport, Fails, guest, vault

LEMMA RestoreRefines ==
  ASSUME CaptureInv, NEW p \in points, NEW t \in Targets,
         \/ RestoreLayout(p, t) \/ RestoreOvf(p, t)
         \/ RestoreVzdump(p, t) \/ RestoreXva(p, t)
  PROVE  Refines
<1> DEFINE c == RestoreSource(p.files).content
           m == [content |-> c, clean |-> p.clean]
<1>1. /\ UNCHANGED <<cfg, disk, writes, exp, stage, cache, archives, points>>
      /\ restored[t] = Nothing /\ restored' = [restored EXCEPT ![t] = m]
  BY DEF RestoreLayout, RestoreOvf, RestoreVzdump, RestoreXva, NewMachine,
     guest, host
<1>2. CaptureInv'
  BY <1>1
  DEF CaptureInv, DataTypes, Ordered, Older, CacheInv, PhaseInv, ProviderInv,
      Holds, CacheTorn, ArchiveInv, Carries
<1>3. m.clean = p.clean /\ m.content = c
  OBVIOUS
<1> HIDE DEF m, c
<1>4. \A x \in Targets : restored'[x] = IF x = t THEN m ELSE restored[x]
  BY <1>1 DEF CaptureInv
<1>5. CASE m = Nothing \/ ~p.clean
  <2>1. AbsRestored' = AbsRestored
    BY <1>1, <1>3, <1>4, <1>5 DEF AbsRestored
  <2>2. UNCHANGED Promise!absVars
    BY <1>1, <2>1 DEF Promise!absVars, AbsRestored
  <2> QED
    BY <1>2, <2>2 DEF Refines
<1>6. CASE m # Nothing /\ p.clean
  <2>1. AbsRestored' = [AbsRestored EXCEPT ![t] = c] /\ AbsRestored[t] = Nothing
    <3>1. AbsRestored[t] = Nothing
      BY <1>1 DEF AbsRestored
    <3>2. \A x \in Targets :
            AbsRestored'[x] = IF x = t THEN c ELSE AbsRestored[x]
      BY <1>3, <1>4, <1>6 DEF AbsRestored
    <3>3. AbsRestored' = [x \in Targets |-> AbsRestored'[x]]
            /\ AbsRestored = [x \in Targets |-> AbsRestored[x]]
      BY DEF AbsRestored
    <3> HIDE DEF AbsRestored
    <3>4. [x \in Targets |-> AbsRestored'[x]]
            = [[x \in Targets |-> AbsRestored[x]] EXCEPT ![t] = c]
      BY <3>2
    <3> QED
      BY <3>1, <3>3, <3>4
  <2>2. c \in AbsPoints
    BY <1>6 DEF AbsPoints, c
  <2>3. Promise!Restore(t)
    BY <1>1, <2>1, <2>2 DEF Promise!Restore, AbsRestored, AbsPoints
  <2> QED
    BY <1>2, <2>3 DEF Refines, Promise!Next
<1> QED
  BY <1>5, <1>6

LEMMA NextRefines == CaptureInv /\ [Next]_vars => Refines
<1> SUFFICES ASSUME CaptureInv, [Next]_vars PROVE Refines
  OBVIOUS
<1>1. CASE UNCHANGED vars
  <2>1. UNCHANGED <<cfg, disk, writes, exp, stage, cache, archives, points, restored>>
    BY <1>1 DEF vars, guest, host, vault
  <2>2. CaptureInv'
    BY <2>1
    DEF CaptureInv, DataTypes, Ordered, Older, CacheInv, PhaseInv,
        ProviderInv, Holds, CacheTorn, ArchiveInv, Carries
  <2> QED
    BY <2>1, <2>2, SnapMapped DEF Refines
<1>2. CASE Next
  BY <1>2, WriteRefines, BeginRefines, ProbeRefines, StartRefines,
     ProviderWriteRefines, ProviderEndRefines, CheckpointRefines, ViewRefines,
     RemoveCacheRefines, VMwareSnapshotRefines, ColdRefines, CloneRefines,
     OvfRefines, CleanupRefines, VzdumpRefines, XcpRefines, TemplateRefines,
     FetchRefines, RemoveArchivesRefines, StoreRefines, CrashRefines,
     RestoreRefines, Zenon
  DEF Next
<1> QED
  BY <1>1, <1>2

(* Whatever the guest writes and whichever command fails, VmTransport      *)
(* implements DiskBackup: a recovery point is the disk of one instant of   *)
(* its export, and a restore makes a new machine that holds a point        *)
(* (export, backup and restore of the adapters).                           *)
THEOREM PointsCorrect == Spec => PointsAreSnapshots
<1>1. Init => CaptureInv /\ Promise!Init
  BY InitCapture
<1>2. CaptureInv /\ [Next]_vars => CaptureInv' /\ [Promise!Next]_Promise!absVars
  BY NextRefines DEF Refines
<1> QED
  BY <1>1, <1>2, PTL DEF Spec, PointsAreSnapshots, Promise!Spec

-----------------------------------------------------------------------------
(* What a point says of the guest, and what an export leaves behind. *)

Unlabelled == {"idle", "probe", "request", "provider", "snapshot"}
Native == {"template", "fetch", "remove"}

(* The configuration asks for quiescence, strictly. *)
Strict == /\ cfg.mode \in {"vddk-cbt", "hot-clone-export"}
          /\ cfg.appStrict /\ cfg.quiesce

LabelInv ==
    /\ exp.pc \in Native => cfg.mode \notin VMwareModes
    /\ exp.label \in APPLICATION_STATES => exp.frozen
    /\ exp.pc \in Unlabelled => exp.label \notin APPLICATION_STATES
    /\ Strict /\ exp.pc \in {"checkpoint", "view", "clone", "ovf", "cleanup",
                             "staged"} => exp.frozen

(* Exports are numbered. A temporary object of the one that runs is in the *)
(* list of its finally clause, unless a command failed after making it.    *)
NumberInv ==
    /\ \A p \in points :
         p.no \in 0..MaxExports /\ p.no <= exp.no
           /\ (exp.pc # "idle" => p.no < exp.no)
    /\ \A t \in temps : t.no \in 0..MaxExports /\ t.no <= exp.no

TempInv ==
    cfg.mode \in VMwareModes =>
      /\ exp.pc \in Providing \cup {"snapshot", "staged"} =>
           \A t \in temps : t.no # exp.no
      /\ exp.pc \in {"clone", "ovf", "cleanup"} /\ ~exp.err =>
           \A t \in temps : t.no = exp.no => \E k \in exp.made : t = Temporary(k)
      /\ exp.pc = "cleanup" /\ ~exp.err => RestoreSource(stage).kind # "xva"
      /\ exp.pc = "staged" => RestoreSource(stage).kind # "xva"
      /\ \A p \in points : RestoreSource(p.files).kind # "xva"

OutcomeInv ==
    /\ cfg \in Setting /\ exp \in Export
    /\ exp.pc \in Providing => cfg.mode = "vddk-cbt"
    /\ LabelInv /\ NumberInv /\ TempInv
    /\ QuiescenceProven /\ SuccessLeavesNothing

LEMMA InitOutcome == Init => OutcomeInv
<1> SUFFICES ASSUME Init PROVE OutcomeInv
  OBVIOUS
<1>1. exp \in Export /\ exp.pc = "idle" /\ exp.label = "snapshot-consistent"
  BY IdleShape, TransportAssumption DEF Init, Idle
<1>2. cfg \in Setting /\ temps = {} /\ points = {}
  BY SettingsAssumption DEF Init
<1>3. LabelInv /\ NumberInv /\ TempInv
  BY <1>1, <1>2
  DEF LabelInv, NumberInv, TempInv, Native, Unlabelled, Providing,
      APPLICATION_STATES
<1> QED
  BY <1>1, <1>2, <1>3
  DEF OutcomeInv, QuiescenceProven, SuccessLeavesNothing, Providing

(* A step that adds no point keeps what holds of the points, as long as    *)
(* what it adds to the temporary objects is of the running export.         *)
Adds(ts) == ts \subseteq temps \cup {Temporary("snapshot"), Temporary("clone")}

LEMMA NoPointOutcome ==
  ASSUME OutcomeInv, UNCHANGED <<cfg, points>>, exp' \in Export,
         exp.pc # "idle", exp'.no = exp.no, Adds(temps'),
         exp'.pc \in Providing => exp.pc \in Providing,
         LabelInv', TempInv'
  PROVE  OutcomeInv'
<1>1. exp.no \in 0..MaxExports /\ exp.no \in Nat
  BY TransportAssumption DEF OutcomeInv, Export
<1>2. \A t \in temps' : t \in temps \/ t.no = exp.no
  BY DEF Adds, Temporary
<1>3. NumberInv'
  BY <1>1, <1>2 DEF OutcomeInv, NumberInv
<1>4. QuiescenceProven'
  BY DEF OutcomeInv, QuiescenceProven
<1>5. SuccessLeavesNothing'
  BY <1>1, <1>2 DEF OutcomeInv, SuccessLeavesNothing, NumberInv
<1> QED
  BY <1>3, <1>4, <1>5 DEF OutcomeInv

LEMMA EndOutcome ==
  ASSUME OutcomeInv, Fails, UNCHANGED <<cfg, points>>, exp.pc # "idle", Adds(temps')
  PROVE  OutcomeInv'
<1>1. /\ exp' \in Export /\ exp'.pc = "idle" /\ exp'.no = exp.no
      /\ exp'.label = "snapshot-consistent"
  <2>1. exp.no \in 0..MaxExports
    BY DEF OutcomeInv, Export
  <2> QED
    BY <2>1, IdleShape DEF Fails, Idle
<1>2. LabelInv' /\ TempInv'
  BY <1>1
  DEF OutcomeInv, LabelInv, TempInv, Native, Unlabelled, Providing,
      APPLICATION_STATES
<1> QED
  BY <1>1, <1>2, NoPointOutcome DEF Providing

LEMMA BeginOutcome ==
  ASSUME OutcomeInv, BeginExport
  PROVE  OutcomeInv'
<1> DEFINE pc == IF cfg.mode = "vddk-cbt" THEN "probe" ELSE "snapshot"
           clean == /\ cfg.mode = "proxmox" => archives = <<>>
                    /\ cfg.mode = "vddk-cbt" => ~CacheTorn
<1>1. exp.no + 1 \in 0..MaxExports /\ exp.no \in Nat
  BY TransportAssumption DEF BeginExport, OutcomeInv, Export
<1>2. pc \in Pcs /\ clean \in BOOLEAN
  BY DEF Pcs
<1>3. /\ exp' \in Export /\ exp'.pc = pc /\ exp'.no = exp.no + 1
      /\ exp'.label = "snapshot-consistent"
  BY <1>1, <1>2 DEF BeginExport, Export, Idle, Labels
<1>4. UNCHANGED <<cfg, stage, temps, points>>
  BY DEF BeginExport, guest, host, vault
<1>5. NumberInv'
  BY <1>1, <1>3, <1>4 DEF OutcomeInv, NumberInv
<1>6. LabelInv'
  BY <1>3, <1>4 DEF LabelInv, Native, Unlabelled, APPLICATION_STATES
<1>7. TempInv'
  BY <1>1, <1>3, <1>4 DEF OutcomeInv, NumberInv, TempInv
<1> QED
  BY <1>3, <1>4, <1>5, <1>6, <1>7
  DEF OutcomeInv, QuiescenceProven, SuccessLeavesNothing, Providing

LEMMA ProbeOutcome ==
  ASSUME OutcomeInv, NEW cap \in Capabilities, Probe(cap)
  PROVE  OutcomeInv'
<1>1. UNCHANGED <<cfg, stage, temps, points>> /\ exp.pc = "probe"
  BY DEF Probe, guest, host, vault, At
<1>2. CASE Fails
  BY <1>1, <1>2, EndOutcome DEF Adds
<1>3. CASE Goto("request") \/ Goto("snapshot")
  <2>1. /\ exp' \in Export /\ exp'.pc \in {"request", "snapshot"}
        /\ exp'.no = exp.no /\ exp'.label = exp.label /\ exp'.frozen = exp.frozen
    BY <1>3 DEF Goto, OutcomeInv, Export, Pcs
  <2>2. LabelInv' /\ TempInv'
    BY <1>1, <2>1
    DEF OutcomeInv, LabelInv, TempInv, Native, Unlabelled, Providing
  <2> QED
    BY <1>1, <2>1, <2>2, NoPointOutcome DEF Adds, Providing
<1> QED
  BY <1>2, <1>3 DEF Probe

LEMMA InvalidateOutcome ==
  ASSUME OutcomeInv, NEW fallback, Invalidate(fallback), exp.pc \in Providing,
         UNCHANGED <<cfg, temps, points>>
  PROVE  OutcomeInv'
<1>1. /\ exp' \in Export /\ exp'.pc = "invalidate" /\ exp'.no = exp.no
      /\ exp'.label = exp.label /\ exp'.frozen = exp.frozen
  BY DEF Invalidate, OutcomeInv, Export, Pcs
<1>2. LabelInv' /\ TempInv'
  BY <1>1 DEF OutcomeInv, LabelInv, TempInv, Native, Unlabelled, Providing
<1> QED
  BY <1>1, <1>2, NoPointOutcome DEF Adds, Providing

LEMMA ProviderOutcome ==
  ASSUME CaptureInv, OutcomeInv,
         \/ ProviderStart
         \/ \E b \in Blocks : ProviderWrite(b)
         \/ \E reason \in ProviderReasons, safe \in BOOLEAN :
              ProviderFails(reason, safe)
         \/ \E label \in Attestations : ProviderAccepted(label)
         \/ AdvanceCheckpoint
         \/ SnapshotView
  PROVE  OutcomeInv'
<1>1. UNCHANGED <<cfg, temps, points>> /\ exp.pc \in Providing
  BY DEF ProviderStart, ProviderWrite, ProviderFails, ProviderAccepted,
         AdvanceCheckpoint, SnapshotView, guest, host, vault, At, Providing
<1>2. CASE \E fallback : Invalidate(fallback)
  BY <1>1, <1>2, InvalidateOutcome
<1>3. ASSUME NEW quiesced \in BOOLEAN, exp.pc = "request",
             exp' = [exp EXCEPT !.pc = "provider", !.snap = disk,
                               !.frozen = quiesced, !.todo = ChangedBlocks]
      PROVE  OutcomeInv'
  <2>1. ChangedBlocks \subseteq Blocks /\ disk \in Contents
    BY DEF ChangedBlocks, CaptureInv, DataTypes
  <2>2. /\ exp' \in Export /\ exp'.pc = "provider" /\ exp'.no = exp.no
        /\ exp'.label = exp.label
    BY <1>3, <2>1 DEF OutcomeInv, Export, Pcs
  <2>3. LabelInv' /\ TempInv'
    BY <1>1, <1>3, <2>2
    DEF OutcomeInv, LabelInv, TempInv, Native, Unlabelled, Providing
  <2> QED
    BY <1>1, <1>3, <2>2, <2>3, NoPointOutcome DEF Adds, Providing
<1>4. ASSUME NEW b \in Blocks, ProviderWrite(b)
      PROVE  OutcomeInv'
  <2>1. /\ exp' \in Export /\ exp'.pc = "provider" /\ exp'.no = exp.no
        /\ exp'.label = exp.label /\ exp'.frozen = exp.frozen /\ exp.pc = "provider"
    BY <1>4 DEF ProviderWrite, At, OutcomeInv, Export
  <2>2. LabelInv' /\ TempInv'
    BY <1>1, <2>1
    DEF OutcomeInv, LabelInv, TempInv, Native, Unlabelled, Providing
  <2> QED
    BY <1>1, <2>1, <2>2, NoPointOutcome DEF Adds, Providing
<1>5. ASSUME NEW label \in Attestations, exp.pc = "provider",
             label \in APPLICATION_STATES => exp.frozen, ConsistencyProven(label),
             exp' = [exp EXCEPT !.pc = "checkpoint", !.label = label]
      PROVE  OutcomeInv'
  <2>1. /\ exp' \in Export /\ exp'.pc = "checkpoint" /\ exp'.no = exp.no
        /\ exp'.label = label /\ exp'.frozen = exp.frozen
    BY <1>5 DEF OutcomeInv, Export, Pcs, Attestations, Labels
  <2>2. Strict => exp.frozen
    BY <1>5 DEF Strict, ConsistencyProven
  <2>3. LabelInv'
    BY <1>1, <1>5, <2>1, <2>2 DEF LabelInv, Native, Unlabelled, Strict
  <2>4. TempInv'
    BY <1>1, <1>5, <2>1 DEF OutcomeInv, TempInv, Providing
  <2> QED
    BY <1>1, <2>1, <2>3, <2>4, NoPointOutcome DEF Adds, Providing
<1>6. CASE AdvanceCheckpoint
  <2>1. /\ exp' \in Export /\ exp'.pc = "view" /\ exp'.no = exp.no
        /\ exp'.label = exp.label /\ exp'.frozen = exp.frozen /\ exp.pc = "checkpoint"
    BY <1>6 DEF AdvanceCheckpoint, At, Goto, OutcomeInv, Export, Pcs
  <2>2. LabelInv' /\ TempInv'
    BY <1>1, <2>1
    DEF OutcomeInv, LabelInv, TempInv, Native, Unlabelled, Providing, Strict
  <2> QED
    BY <1>1, <2>1, <2>2, NoPointOutcome DEF Adds, Providing
<1>7. CASE /\ exp.pc = "view" /\ Goto("staged")
           /\ stage' = <<[kind |-> "layout", content |-> cache.blocks]>>
  <2>1. /\ exp' \in Export /\ exp'.pc = "staged" /\ exp'.no = exp.no
        /\ exp'.label = exp.label /\ exp'.frozen = exp.frozen
    BY <1>7 DEF Goto, OutcomeInv, Export, Pcs
  <2>2. RestoreSource(stage').kind = "layout"
    BY <1>7 DEF RestoreSource
  <2>3. LabelInv' /\ TempInv'
    BY <1>1, <1>7, <2>1, <2>2
    DEF OutcomeInv, LabelInv, TempInv, Native, Unlabelled, Providing, Strict
  <2> QED
    BY <1>1, <1>7, <2>1, <2>3, NoPointOutcome DEF Adds, Providing
<1>8. cfg.quiesce \in BOOLEAN
  BY DEF OutcomeInv, Setting
<1> QED
  BY <1>2, <1>3, <1>4, <1>5, <1>6, <1>7, <1>8
  DEF ProviderStart, ProviderFails, ProviderAccepted, SnapshotView, At

LEMMA RemoveCacheOutcome ==
  ASSUME OutcomeInv, RemoveCache
  PROVE  OutcomeInv'
<1>1. /\ UNCHANGED <<cfg, stage, temps, points>>
      /\ exp.pc = "invalidate" /\ exp.no \in 0..MaxExports
      /\ exp.next \in {"idle", "snapshot"}
  BY DEF RemoveCache, guest, host, vault, At, OutcomeInv, Export
<1>2. /\ exp' \in Export /\ exp'.pc \in {"idle", "snapshot"} /\ exp'.no = exp.no
      /\ exp'.label = "snapshot-consistent"
  <2>1. (exp.clean \/ exp.next = "snapshot") \in BOOLEAN
    OBVIOUS
  <2> QED
    BY <1>1, <2>1 DEF RemoveCache, Idle, Export, Pcs, Labels
<1>3. LabelInv' /\ TempInv'
  BY <1>1, <1>2
  DEF OutcomeInv, LabelInv, TempInv, Native, Unlabelled, Providing,
      APPLICATION_STATES
<1> QED
  BY <1>1, <1>2, <1>3, NoPointOutcome DEF Adds, Providing

(* A command of an adapter fails, before or after it made something. *)
LEMMA ErrOutcome ==
  ASSUME OutcomeInv, NEW pc \in {"cleanup", "remove"}, exp.pc # "idle",
         exp' = [exp EXCEPT !.pc = pc, !.err = TRUE],
         pc = "remove" => cfg.mode \notin VMwareModes,
         pc = "cleanup" => exp.pc \in {"clone", "ovf"},
         UNCHANGED <<cfg, points>>, Adds(temps')
  PROVE  OutcomeInv'
<1>1. /\ exp' \in Export /\ exp'.pc = pc /\ exp'.err /\ exp'.no = exp.no
      /\ exp'.label = exp.label /\ exp'.frozen = exp.frozen
  BY DEF OutcomeInv, Export, Pcs
<1>2. LabelInv'
  BY <1>1 DEF OutcomeInv, LabelInv, Native, Unlabelled, Strict
<1>3. TempInv'
  BY <1>1 DEF OutcomeInv, TempInv, Providing
<1> QED
  BY <1>1, <1>2, <1>3, NoPointOutcome DEF Providing

LEMMA CaptureOutcome ==
  ASSUME CaptureInv, OutcomeInv, VMwareSnapshot \/ ColdExport
  PROVE  OutcomeInv'
<1>1. UNCHANGED <<cfg, stage, points>> /\ exp.pc = "snapshot" /\ Adds(temps')
  BY DEF VMwareSnapshot, ColdExport, guest, host, vault, At, Adds
<1>2. CASE Fails
  BY <1>1, <1>2, EndOutcome
<1>3. ASSUME NEW quiesced \in BOOLEAN, Strict => quiesced,
             temps' = temps \cup {Temporary("snapshot")},
             cfg.mode \in VMwareModes,
             exp' = [exp EXCEPT !.pc = "clone", !.snap = disk, !.frozen = quiesced,
                                !.made = {"snapshot"}, !.label = SnapshotLabel(quiesced)]
      PROVE  OutcomeInv'
  <2>1. /\ SnapshotLabel(quiesced) \in Labels
        /\ SnapshotLabel(quiesced) \in APPLICATION_STATES => quiesced
    BY DEF SnapshotLabel, Labels, APPLICATION_STATES
  <2>2. disk \in Contents
    BY DEF CaptureInv, DataTypes
  <2>3. /\ exp' \in Export /\ exp'.pc = "clone" /\ exp'.no = exp.no
        /\ exp'.label = SnapshotLabel(quiesced) /\ exp'.made = {"snapshot"}
    BY <1>3, <2>1, <2>2 DEF OutcomeInv, Export, Pcs
  <2>4. exp'.frozen = quiesced
    BY <1>3 DEF OutcomeInv, Export
  <2>5. LabelInv'
    BY <1>1, <1>3, <2>1, <2>3, <2>4 DEF LabelInv, Native, Unlabelled, Strict
  <2>6. TempInv'
    BY <1>1, <1>3, <2>3 DEF OutcomeInv, TempInv, Providing, Temporary
  <2> QED
    BY <1>1, <2>3, <2>5, <2>6, NoPointOutcome DEF Providing
<1>4. CASE ColdExport
  <2>1. UNCHANGED temps /\ cfg.mode = "cold-export" /\ disk \in Contents
    BY <1>4 DEF ColdExport, host, CaptureInv, DataTypes
  <2>2. /\ exp' \in Export /\ exp'.pc = "ovf" /\ exp'.no = exp.no
        /\ exp'.label = "powered-off-consistent"
    BY <1>4, <2>1 DEF ColdExport, OutcomeInv, Export, Pcs, Labels
  <2>3. LabelInv' /\ TempInv'
    BY <1>1, <2>1, <2>2
    DEF OutcomeInv, LabelInv, TempInv, Native, Unlabelled, Strict,
        APPLICATION_STATES, Providing
  <2> QED
    BY <1>1, <2>2, <2>3, NoPointOutcome DEF Providing
<1>5. cfg.quiesce \in BOOLEAN /\ (cfg.quiesce /\ ~cfg.crash) \in BOOLEAN
  BY DEF OutcomeInv, Setting
<1>6. ASSUME cfg.appStrict => cfg.quiesce /\ ~cfg.crash,
             NEW quiesced \in {cfg.quiesce, cfg.quiesce /\ ~cfg.crash}
      PROVE  Strict => quiesced
  BY <1>6 DEF Strict
<1> QED
  BY <1>2, <1>3, <1>4, <1>5, <1>6 DEF VMwareSnapshot, VMwareModes

LEMMA CloneOutcome ==
  ASSUME OutcomeInv, CloneSnapshot
  PROVE  OutcomeInv'
<1>1. UNCHANGED <<cfg, stage, points>> /\ exp.pc = "clone" /\ Adds(temps')
  BY DEF CloneSnapshot, guest, vault, At, Adds
<1>2. CASE /\ exp' = [exp EXCEPT !.pc = "ovf", !.made = @ \cup {"clone"}]
           /\ temps' = temps \cup {Temporary("clone")}
  <2>1. /\ exp' \in Export /\ exp'.pc = "ovf" /\ exp'.no = exp.no
        /\ exp'.label = exp.label /\ exp'.frozen = exp.frozen
        /\ exp'.err = exp.err /\ exp'.made = exp.made \cup {"clone"}
    BY <1>2 DEF OutcomeInv, Export, Pcs
  <2>2. LabelInv'
    BY <1>1, <2>1 DEF OutcomeInv, LabelInv, Native, Unlabelled, Strict
  <2>3. TempInv'
    BY <1>1, <1>2, <2>1 DEF OutcomeInv, TempInv, Providing, Temporary
  <2> QED
    BY <1>1, <2>1, <2>2, <2>3, NoPointOutcome DEF Providing
<1>3. CASE exp' = [exp EXCEPT !.pc = "cleanup", !.err = TRUE]
  BY <1>1, <1>3, ErrOutcome
<1> QED
  BY <1>2, <1>3 DEF CloneSnapshot

LEMMA OvfOutcome ==
  ASSUME OutcomeInv, ExportOvf
  PROVE  OutcomeInv'
<1>1. UNCHANGED <<cfg, points, temps>> /\ exp.pc = "ovf"
  BY DEF ExportOvf, guest, host, vault, At
<1>2. CASE /\ stage' = <<[kind |-> "ovf", content |-> exp.snap]>>
           /\ Goto("cleanup")
  <2>1. /\ exp' \in Export /\ exp'.pc = "cleanup" /\ exp'.no = exp.no
        /\ exp'.label = exp.label /\ exp'.frozen = exp.frozen
        /\ exp'.err = exp.err /\ exp'.made = exp.made
    BY <1>2 DEF Goto, OutcomeInv, Export, Pcs
  <2>2. RestoreSource(stage').kind = "ovf"
    BY <1>2 DEF RestoreSource
  <2>3. LabelInv'
    BY <1>1, <2>1 DEF OutcomeInv, LabelInv, Native, Unlabelled, Strict
  <2>4. TempInv'
    BY <1>1, <2>1, <2>2 DEF OutcomeInv, TempInv, Providing, Temporary
  <2> QED
    BY <1>1, <2>1, <2>3, <2>4, NoPointOutcome DEF Providing, Adds
<1>3. CASE exp' = [exp EXCEPT !.pc = "cleanup", !.err = TRUE]
  BY <1>1, <1>3, ErrOutcome DEF Adds
<1> QED
  BY <1>2, <1>3 DEF ExportOvf

LEMMA CleanupOutcome ==
  ASSUME OutcomeInv, VMwareCleanup
  PROVE  OutcomeInv'
<1>1. UNCHANGED <<cfg, points>> /\ exp.pc = "cleanup"
  BY DEF VMwareCleanup, guest, vault, At
<1>2. PICK left \in SUBSET exp.made :
         /\ temps' = temps \ {Temporary(k) : k \in exp.made \ left}
         /\ IF exp.err \/ CleanupRaises(left) THEN Fails /\ stage' = <<>>
                                    ELSE Goto("staged") /\ UNCHANGED stage
  BY Zenon DEF VMwareCleanup
<1>3. Adds(temps')
  BY <1>2 DEF Adds
<1>4. CASE Fails
  BY <1>1, <1>3, <1>4, EndOutcome
<1>5. CASE ~exp.err /\ left = {} /\ Goto("staged") /\ UNCHANGED stage
  <2>1. /\ exp' \in Export /\ exp'.pc = "staged" /\ exp'.no = exp.no
        /\ exp'.label = exp.label /\ exp'.frozen = exp.frozen
    BY <1>5 DEF Goto, OutcomeInv, Export, Pcs
  <2>2. LabelInv'
    BY <1>1, <2>1 DEF OutcomeInv, LabelInv, Native, Unlabelled, Strict
  <2>3. TempInv'
    BY <1>1, <1>2, <1>5, <2>1 DEF OutcomeInv, TempInv, Providing
  <2> QED
    BY <1>1, <1>3, <2>1, <2>2, <2>3, NoPointOutcome DEF Providing
<1> QED
  BY <1>2, <1>4, <1>5, Zenon DEF CleanupRaises

(* Proxmox and XCP-ng: the VMware half of the invariant says nothing. *)
LEMMA NativeOutcome ==
  ASSUME CaptureInv, OutcomeInv,
         \/ Vzdump \/ XcpSnapshot \/ XcpTemplate \/ FetchArchives
         \/ RemoveArchives
  PROVE  OutcomeInv'
<1>1. UNCHANGED <<cfg, points>> /\ exp.pc \in Native \cup {"snapshot"} /\ Adds(temps')
  BY DEF Vzdump, XcpSnapshot, XcpTemplate, FetchArchives, RemoveArchives,
     guest, host, vault, At, Native, Adds
<1>2. cfg.mode \notin VMwareModes
  BY DEF Vzdump, XcpSnapshot, XcpTemplate, FetchArchives, RemoveArchives, At,
     OutcomeInv, LabelInv, Native, VMwareModes
<1>3. CASE Fails
  BY <1>1, <1>3, EndOutcome DEF Native
<1>4. CASE exp' = [exp EXCEPT !.pc = "remove", !.err = TRUE]
  BY <1>1, <1>2, <1>4, ErrOutcome DEF Native
<1>5. ASSUME NEW pc \in Native \cup {"staged"}, NEW s \in Contents \cup {Nothing},
             NEW m \in SUBSET {"snapshot", "clone"},
             exp' = [exp EXCEPT !.pc = pc, !.snap = s, !.made = m]
      PROVE  OutcomeInv'
  <2>1. pc \in Pcs
    BY DEF Pcs, Native
  <2>2. /\ exp' \in Export /\ exp'.pc = pc /\ exp'.no = exp.no
        /\ exp'.label = exp.label /\ exp'.frozen = exp.frozen
    BY <1>5, <2>1 DEF OutcomeInv, Export
  <2>3. LabelInv' /\ TempInv'
    BY <1>1, <1>2, <2>2
    DEF OutcomeInv, LabelInv, TempInv, Native, Unlabelled, Strict, VMwareModes
  <2> QED
    BY <1>1, <2>2, <2>3, NoPointOutcome DEF Providing, Native
<1>6. \A pc : Goto(pc) => exp' = [exp EXCEPT !.pc = pc, !.snap = exp.snap, !.made = exp.made]
  BY DEF Goto, OutcomeInv, Export
<1>7. \A pc, s : exp' = [exp EXCEPT !.pc = pc, !.snap = s] =>
         exp' = [exp EXCEPT !.pc = pc, !.snap = s, !.made = exp.made]
  BY DEF OutcomeInv, Export
<1>8. exp.snap \in Contents \cup {Nothing} /\ exp.made \in SUBSET {"snapshot", "clone"} /\ disk \in Contents
  BY DEF OutcomeInv, Export, CaptureInv, DataTypes
<1>9. CASE Vzdump
  <2>1. \/ exp' = [exp EXCEPT !.pc = "remove", !.err = TRUE]
        \/ exp' = [exp EXCEPT !.pc = "fetch", !.snap = disk]
    BY <1>9 DEF Vzdump
  <2>2. CASE exp' = [exp EXCEPT !.pc = "fetch", !.snap = disk]
    <3>1. exp' = [exp EXCEPT !.pc = "fetch", !.snap = disk, !.made = exp.made]
      BY <1>7, <2>2, Zenon
    <3>2. "fetch" \in Native \cup {"staged"} /\ disk \in Contents \cup {Nothing}
      BY <1>8 DEF Native
    <3> QED
      BY <1>5, <1>8, <3>1, <3>2, Zenon
  <2> QED
    BY <1>4, <2>1, <2>2
<1>10. CASE XcpSnapshot
  <2>1. \/ exp' = [exp EXCEPT !.pc = "remove", !.err = TRUE]
        \/ exp' = [exp EXCEPT !.pc = "template", !.snap = disk, !.made = {"snapshot"}]
    BY <1>10 DEF XcpSnapshot
  <2> QED
    BY <1>4, <1>5, <1>8, <2>1 DEF Native
<1>11. CASE XcpTemplate \/ FetchArchives \/ RemoveArchives
  <2>1. \/ exp' = [exp EXCEPT !.pc = "remove", !.err = TRUE] \/ Fails
        \/ \E pc \in {"fetch", "remove", "staged"} : Goto(pc)
    BY <1>11 DEF XcpTemplate, FetchArchives, RemoveArchives
  <2> QED
    BY <1>3, <1>4, <1>5, <1>6, <1>8, <2>1 DEF Native
<1> QED
  BY <1>9, <1>10, <1>11

LEMMA StoreOutcome ==
  ASSUME OutcomeInv, StorePoint
  PROVE  OutcomeInv'
<1> DEFINE new == [no |-> exp.no, files |-> stage, label |-> exp.label,
                   frozen |-> exp.frozen, clean |-> exp.clean]
<1>1. /\ UNCHANGED <<cfg, temps>> /\ exp' = Idle(exp.no) /\ exp.pc = "staged"
      /\ points' \in {points, points \cup {new}}
  BY DEF StorePoint, guest, host, At
<1>2. exp.no \in 0..MaxExports /\ exp.no \in Nat
  BY TransportAssumption DEF OutcomeInv, Export
<1>3. /\ exp' \in Export /\ exp'.pc = "idle" /\ exp'.no = exp.no
      /\ exp'.label = "snapshot-consistent"
  BY <1>1, <1>2, IdleShape DEF Idle
<1>4. /\ new.no = exp.no /\ new.label = exp.label /\ new.frozen = exp.frozen
      /\ new.files = stage
  OBVIOUS
<1> HIDE DEF new
<1>5. LabelInv'
  BY <1>3 DEF LabelInv, Native, Unlabelled, APPLICATION_STATES
<1>6. NumberInv'
  BY <1>1, <1>2, <1>3, <1>4 DEF OutcomeInv, NumberInv
<1>7. TempInv'
  BY <1>1, <1>3, <1>4 DEF OutcomeInv, TempInv, Providing
<1>8. QuiescenceProven'
  BY <1>1, <1>4 DEF OutcomeInv, QuiescenceProven, LabelInv, Strict
<1>9. SuccessLeavesNothing'
  BY <1>1, <1>4 DEF OutcomeInv, SuccessLeavesNothing, TempInv
<1> QED
  BY <1>1, <1>3, <1>5, <1>6, <1>7, <1>8, <1>9 DEF OutcomeInv, Providing

LEMMA QuietOutcome ==
  ASSUME OutcomeInv, UNCHANGED <<cfg, exp, stage, temps, points>>
  PROVE  OutcomeInv'
  BY DEF OutcomeInv, LabelInv, NumberInv, TempInv, QuiescenceProven,
     SuccessLeavesNothing, Strict, Temporary

LEMMA RestoreOutcome ==
  ASSUME OutcomeInv, NEW p \in points, NEW t \in Targets,
         \/ RestoreLayout(p, t) \/ RestoreOvf(p, t)
         \/ RestoreVzdump(p, t) \/ RestoreXva(p, t)
  PROVE  OutcomeInv'
<1>1. UNCHANGED <<cfg, exp, stage, points>>
  BY DEF RestoreLayout, RestoreOvf, RestoreVzdump, RestoreXva, guest
<1>2. CASE UNCHANGED temps
  BY <1>1, <1>2, QuietOutcome
<1>3. CASE /\ RestoreSource(p.files).kind = "xva"
           /\ temps' = temps \cup {[kind |-> "template", no |-> p.no]}
  <2>1. cfg.mode \notin VMwareModes
    BY <1>3 DEF OutcomeInv, TempInv
  <2>2. LabelInv' /\ TempInv' /\ QuiescenceProven' /\ SuccessLeavesNothing'
    BY <1>1, <2>1
    DEF OutcomeInv, LabelInv, TempInv, QuiescenceProven, SuccessLeavesNothing,
        Strict
  <2>3. NumberInv'
    BY <1>1, <1>3 DEF OutcomeInv, NumberInv
  <2> QED
    BY <1>1, <2>2, <2>3 DEF OutcomeInv
<1> QED
  BY <1>2, <1>3 DEF RestoreLayout, RestoreOvf, RestoreVzdump, RestoreXva, host

LEMMA NextOutcome == CaptureInv /\ OutcomeInv /\ [Next]_vars => OutcomeInv'
<1> SUFFICES ASSUME CaptureInv, OutcomeInv, [Next]_vars PROVE OutcomeInv'
  OBVIOUS
<1>1. CASE UNCHANGED vars
  BY <1>1, QuietOutcome DEF vars, guest, host, vault
<1>2. ASSUME NEW b \in Blocks, GuestWrite(b) PROVE OutcomeInv'
  BY <1>2, QuietOutcome DEF GuestWrite, host, vault
<1>3. CASE CrashExport
  <2>1. Fails /\ UNCHANGED <<cfg, points>> /\ exp.pc # "idle" /\ Adds(temps')
    BY <1>3 DEF CrashExport, Fails, guest, host, vault, At, Adds
  <2> QED
    BY <2>1, EndOutcome
<1>4. CASE Next
  BY <1>2, <1>3, <1>4, BeginOutcome, ProbeOutcome, ProviderOutcome,
     RemoveCacheOutcome, CaptureOutcome, CloneOutcome, OvfOutcome,
     CleanupOutcome, NativeOutcome, StoreOutcome, RestoreOutcome, Zenon
  DEF Next
<1> QED
  BY <1>1, <1>4

LEMMA OutcomeCorrect == Spec => []OutcomeInv
<1>1. Init => CaptureInv /\ OutcomeInv
  BY InitCapture, InitOutcome
<1>2. CaptureInv /\ OutcomeInv /\ [Next]_vars => (CaptureInv /\ OutcomeInv)'
  BY NextRefines, NextOutcome DEF Refines
<1> QED
  BY <1>1, <1>2, PTL DEF Spec

(* A point recorded as quiesced was taken while the guest was, and under a *)
(* strict configuration every VMware point was, whichever transport made   *)
(* it (export, backup).                                                    *)
THEOREM QuiescenceCorrect == Spec => []QuiescenceProven
<1>1. OutcomeInv => QuiescenceProven
  BY DEF OutcomeInv
<1> QED
  BY <1>1, OutcomeCorrect, PTL

(* A VMware export that succeeded has removed its temporary snapshot and   *)
(* clone (export, its finally clause).                                     *)
THEOREM LeavesNothingCorrect == Spec => []SuccessLeavesNothing
<1>1. OutcomeInv => SuccessLeavesNothing
  BY DEF OutcomeInv
<1> QED
  BY <1>1, OutcomeCorrect, PTL
=============================================================================
