------------------------------ MODULE V2VImport -----------------------------
(***************************************************************************)
(* Cross-hypervisor recovery (v2v.py, v2v_cert.py): the gates a VMware     *)
(* recovery point passes, its conversion, and the sequence of qm commands  *)
(* that makes a new Proxmox machine of it or removes what it began. The    *)
(* portal's threads run several at once, other clients of the node create  *)
(* machines meanwhile, and every command may fail, time out or be the last *)
(* one before the process dies. virt-v2v and qm are modelled by what the   *)
(* code relies on.                                                         *)
(***************************************************************************)
EXTENDS Naturals, Sequences, FiniteSets

CONSTANTS
    Imports,   \* executions of a V2V restore
    Vmids,     \* machine numbers of the node
    NDisks,    \* disks of the guest
    Waived,    \* problems the configuration allows
    Foreign,   \* another client of the node
    Nil,
    MaxFaults  \* bound of crashes, timeouts and cleanups that fail

ASSUME V2VAssumption ==
    NDisks \in Nat \ {0} /\ MaxFaults \in Nat /\ Foreign \notin Imports

VARIABLES
    problems, \* what is wrong with each point, guest, tool or target
    imp,      \* the state of each execution
    vms,      \* the machines of the node
    files,    \* disk images in the node's /var/tmp
    faults

vars == <<problems, imp, vms, files, faults>>

(* What the gates refuse, in the order of the gates. CertifiedV2VManager   *)
(* adds a refusal of its own to several gates of V2VManager.               *)
PlanProblems == {"disabled", "unverified", "suspicious"}
TransportProblems == {"transport"}
StorageProblems == {"storage"}
ToolProblems == {"tools"}
OvfProblems == {"ovf"}
ConnectionProblems == {"connection"}
GuestProblems == {"secure_boot", "tpm"}
FirmwareProblems == {"firmware"}
BundleProblems == {"disk_count"}
NicProblems == {"nic_count"}
MappingProblems == {"unmapped"}
BridgeProblems == {"no_bridge"}
ConvertProblems ==
    UNION {TransportProblems, StorageProblems, ToolProblems, OvfProblems,
           ConnectionProblems, GuestProblems, FirmwareProblems, BundleProblems,
           NicProblems, MappingProblems, BridgeProblems}
Problems == PlanProblems \cup ConvertProblems

Disks(i) == [k \in 1..NDisks |-> <<i, k>>]
Machine == [owner : Imports \cup {Foreign},
            virtio : Seq(Imports \X (1..NDisks)),
            unused : Seq(Imports \X (1..NDisks)),
            boot : BOOLEAN]

Pcs == {"plan", "storage", "tools", "ova", "inspect", "convert", "provider",
        "bridges", "number", "check", "create", "efi", "copy",
        "import", "detach", "attach", "boot", "validate", "destroy", "remove",
        "done", "failed", "dead"}

(* An execution: mode is what plan chose, k how many remote paths it has   *)
(* used, created the code's flag, leak whether something happened that its *)
(* cleanup cannot know of or could not do.                                 *)
Execution == [pc : Pcs, mode : {"builtin", "provider"},
              vmid : Vmids \cup {Nil}, k : 0..NDisks,
              volume : (Imports \X (1..NDisks)) \cup {Nil},
              created : BOOLEAN, err : BOOLEAN, leak : BOOLEAN]

(* Nil is no machine and no disk image. *)
ASSUME NilAssumption == Nil \notin Machine \cup (Imports \X (1..NDisks))

(* The types of the executions, the machines and the remote files. *)
TypeOK ==
    /\ problems \in [Imports -> SUBSET Problems]
    /\ imp \in [Imports -> Execution]
    /\ DOMAIN vms = Vmids
    /\ \A v \in Vmids : vms[v] = Nil \/ vms[v] \in Machine
    /\ files \in [Vmids \X (1..NDisks) ->
                    (Imports \X (1..NDisks)) \cup {Nil}]
    /\ faults \in 0..MaxFaults

Init ==
    /\ problems \in [Imports -> {{}} \cup {{p} : p \in Problems}]
    /\ imp = [i \in Imports |->
                [pc |-> "plan", mode |-> "builtin", vmid |-> Nil, k |-> 0,
                 volume |-> Nil, created |-> FALSE, err |-> FALSE, leak |-> FALSE]]
    /\ vms = [v \in Vmids |-> Nil]
    /\ files = [f \in Vmids \X (1..NDisks) |-> Nil]
    /\ faults = 0

-----------------------------------------------------------------------------
At(i, pc) == imp[i].pc = pc
Goto(i, pc) == imp' = [imp EXCEPT ![i].pc = pc]
Mine(i) == vms[imp[i].vmid]
Fault == faults < MaxFaults /\ faults' = faults + 1

(* Mutant: the path carries the number of the disk only. *)
Remote_Shared(v, k) == <<CHOOSE w \in Vmids : TRUE, k>>

(* The path of a disk image at the node carries the machine's number. *)
Remote(v, k) == <<v, k>>

(* Refused for a reason the configuration does not waive. *)
Blocked(i, kinds) == (problems[i] \cap kinds) \ Waived # {}

(* A gate: what it refuses, or a command of it that fails, ends the import *)
(* before it has touched anything.                                         *)
Gate(i, pc, kinds, next) ==
    /\ At(i, pc)
    /\ \/ ~Blocked(i, kinds) /\ Goto(i, next)
       \/ Goto(i, "failed")
    /\ UNCHANGED <<problems, vms, files, faults>>

(* plan, and which way the import goes. The built-in conversion needs a    *)
(* point that attests an OVF export, a certified provider does not.        *)
Plan(i) ==
    /\ At(i, "plan")
    /\ \/ ~Blocked(i, PlanProblems \cup TransportProblems) /\ Goto(i, "storage")
       \/ /\ ~Blocked(i, PlanProblems)
          /\ imp' = [imp EXCEPT ![i].pc = "provider", ![i].mode = "provider"]
       \/ Goto(i, "failed")
    /\ UNCHANGED <<problems, vms, files, faults>>

(* The built-in conversion, in a temporary directory of the server. *)
_preflight_proxmox_storage(i) == Gate(i, "storage", StorageProblems, "tools")

_builtin_doctor(i) == Gate(i, "tools", ToolProblems, "ova")

_prepare_ova(i) == Gate(i, "ova", OvfProblems \cup ConnectionProblems, "inspect")

_inspection(i) == Gate(i, "inspect", GuestProblems \cup FirmwareProblems, "convert")

(* virt-v2v, and _parse_bundle on what it wrote. *)
_convert_vmware(i) == Gate(i, "convert", BundleProblems \cup NicProblems, "bridges")

(* Storage again, _mapped_bridges, and whether each bridge is there. *)
_preflight_proxmox_bridges(i) ==
    Gate(i, "bridges", StorageProblems \cup MappingProblems \cup BridgeProblems,
         "number")

(* _execute_provider instead: the pinned helper converts, and its answer   *)
(* is accepted only with every safety attestation. One that is not leaves  *)
(* what the helper made.                                                   *)
ProviderConvert(i) ==
    /\ At(i, "provider")
    /\ \E v \in Vmids :
         /\ vms[v] = Nil
         /\ vms' = [vms EXCEPT ![v] = [owner |-> i, virtio |-> Disks(i),
                                       unused |-> <<>>, boot |-> TRUE]]
         /\ \E attested \in BOOLEAN :
              imp' = [imp EXCEPT ![i].vmid = v, ![i].leak = ~attested,
                                 ![i].pc = IF attested THEN "done" ELSE "failed"]
    /\ UNCHANGED <<problems, files, faults>>

ProviderRefuses(i) ==
    /\ At(i, "provider") /\ Goto(i, "failed")
    /\ UNCHANGED <<problems, vms, files, faults>>

(* The number the request asks for or the cluster's next free one. *)
ChooseVmid(i) ==
    /\ At(i, "number")
    /\ \E v \in Vmids : imp' = [imp EXCEPT ![i].pc = "check", ![i].vmid = v]
    /\ UNCHANGED <<problems, vms, files, faults>>

(* qm status: a number in use is refused. *)
CheckVmid(i) ==
    /\ At(i, "check")
    /\ Goto(i, IF Mine(i) = Nil THEN "create" ELSE "failed")
    /\ UNCHANGED <<problems, vms, files, faults>>

(* Mutant: the flag is set before the command. *)
CreatedFlag_Early(ok) == TRUE

CreatedFlag(ok) == ok

(* qm create fails if the number is taken by now; one that times out may   *)
(* have made the machine.                                                  *)
Create(i) ==
    LET made == [vms EXCEPT ![imp[i].vmid] =
                   [owner |-> i, virtio |-> <<>>, unused |-> <<>>,
                    boot |-> FALSE]]
        after(ok, leak) == [imp EXCEPT
                   ![i].pc = IF ok THEN "efi"
                             ELSE IF CreatedFlag(ok) THEN "destroy" ELSE "remove",
                   ![i].created = CreatedFlag(ok), ![i].err = ~ok,
                   ![i].leak = leak]
    IN
    /\ At(i, "create")
    /\ \/ /\ Mine(i) = Nil
          /\ vms' = made /\ imp' = after(TRUE, FALSE) /\ UNCHANGED faults
       \/ UNCHANGED <<vms, faults>> /\ imp' = after(FALSE, FALSE)
       \/ Mine(i) = Nil /\ Fault /\ vms' = made /\ imp' = after(FALSE, TRUE)
    /\ UNCHANGED <<problems, files>>

(* An EFI disk for a UEFI guest. *)
SetEfi(i) ==
    /\ At(i, "efi")
    /\ imp' = [imp EXCEPT ![i].pc = "copy", ![i].k = 1]
    /\ UNCHANGED <<problems, vms, files, faults>>

(* scp of the k-th disk. *)
CopyDisk(i) ==
    /\ At(i, "copy")
    /\ files' = [files EXCEPT ![Remote(imp[i].vmid, imp[i].k)] = <<i, imp[i].k>>]
    /\ Goto(i, "import")
    /\ UNCHANGED <<problems, vms, faults>>

(* qm importdisk adds the image as an unused volume. *)
ImportDisk(i) ==
    LET image == files[Remote(imp[i].vmid, imp[i].k)] IN
    /\ At(i, "import") /\ image # Nil
    /\ vms' = [vms EXCEPT ![imp[i].vmid].unused = Append(@, image)]
    /\ Goto(i, "detach")
    /\ UNCHANGED <<problems, files, faults>>

(* The unused entry with the highest number. *)
_unused_volume(unused) == unused[Len(unused)]

(* Its key is deleted, the volume is not. *)
DetachUnused(i) ==
    /\ At(i, "detach") /\ Mine(i).unused # <<>>
    /\ imp' = [imp EXCEPT ![i].pc = "attach",
                          ![i].volume = _unused_volume(Mine(i).unused)]
    /\ vms' = [vms EXCEPT ![imp[i].vmid].unused = SubSeq(@, 1, Len(@) - 1)]
    /\ UNCHANGED <<problems, files, faults>>

LastDisk(k) == k = NDisks

AttachDisk(i) ==
    /\ At(i, "attach")
    /\ vms' = [vms EXCEPT ![imp[i].vmid].virtio = Append(@, imp[i].volume)]
    /\ imp' = [imp EXCEPT ![i].volume = Nil,
                          ![i].pc = IF LastDisk(imp[i].k) THEN "boot" ELSE "copy",
                          ![i].k = IF LastDisk(@) THEN @ ELSE @ + 1]
    /\ UNCHANGED <<problems, files, faults>>

SetBoot(i) ==
    /\ At(i, "boot")
    /\ vms' = [vms EXCEPT ![imp[i].vmid].boot = TRUE]
    /\ Goto(i, "validate")
    /\ UNCHANGED <<problems, files, faults>>

(* The configuration is read back and every slot must be there. *)
Validate(i) ==
    /\ At(i, "validate")
    /\ Len(Mine(i).virtio) >= imp[i].k
    /\ Goto(i, "remove")
    /\ UNCHANGED <<problems, vms, files, faults>>

(* Mutant: a machine that was begun is left as it is. *)
OnFailure_Leave(i) == "remove"

(* The except clause. *)
OnFailure(i) == IF imp[i].created THEN "destroy" ELSE "remove"

(* A command after qm create fails, or what it needs is not there. *)
CommandFails(i) ==
    /\ imp[i].pc \in {"efi", "copy", "import", "detach", "attach", "boot",
                      "validate"}
    /\ imp' = [imp EXCEPT ![i].pc = OnFailure(i), ![i].err = TRUE]
    /\ UNCHANGED <<problems, vms, files, faults>>

(* qm destroy, unchecked. *)
Destroy(i) ==
    /\ At(i, "destroy")
    /\ \/ /\ vms' = [vms EXCEPT ![imp[i].vmid] = Nil]
          /\ Goto(i, "remove") /\ UNCHANGED faults
       \/ /\ Fault /\ UNCHANGED vms
          /\ imp' = [imp EXCEPT ![i].pc = "remove", ![i].leak = TRUE]
    /\ UNCHANGED <<problems, files>>

(* The finally clause: rm -f of every path used so far. One that fails is  *)
(* not noticed; one that times out raises past the paths after it, and a   *)
(* complete import is then reported as failed.                             *)
RemoveFiles(i) ==
    LET end == IF imp[i].err THEN "failed" ELSE "done"
        used == {Remote(imp[i].vmid, k) : k \in 1..imp[i].k}
    IN
    /\ At(i, "remove")
    /\ \/ /\ files' = [f \in DOMAIN files |-> IF f \in used THEN Nil ELSE files[f]]
          /\ Goto(i, end) /\ UNCHANGED faults
       \/ /\ Fault
          /\ \E gone \in SUBSET used :
               files' = [f \in DOMAIN files |->
                           IF f \in gone THEN Nil ELSE files[f]]
          /\ \E as \in {end, "failed"} :
               imp' = [imp EXCEPT ![i].pc = as, ![i].leak = TRUE]
    /\ UNCHANGED <<problems, vms>>

(* The process dies. *)
Crash(i) ==
    /\ imp[i].pc \notin {"done", "failed", "dead"} /\ Fault
    /\ imp' = [imp EXCEPT ![i].pc = "dead", ![i].leak = TRUE]
    /\ UNCHANGED <<problems, vms, files>>

(* Another client of the node creates a machine. *)
ForeignCreate(v) ==
    /\ vms[v] = Nil
    /\ vms' = [vms EXCEPT ![v] = [owner |-> Foreign, virtio |-> <<>>,
                                  unused |-> <<>>, boot |-> TRUE]]
    /\ UNCHANGED <<problems, imp, files, faults>>

Step(i) ==
    \/ Plan(i) \/ _preflight_proxmox_storage(i) \/ _builtin_doctor(i)
    \/ _prepare_ova(i) \/ _inspection(i) \/ _convert_vmware(i)
    \/ _preflight_proxmox_bridges(i) \/ ProviderConvert(i)
    \/ ProviderRefuses(i) \/ ChooseVmid(i)
    \/ CheckVmid(i) \/ Create(i) \/ SetEfi(i) \/ CopyDisk(i) \/ ImportDisk(i)
    \/ DetachUnused(i) \/ AttachDisk(i) \/ SetBoot(i) \/ Validate(i)
    \/ CommandFails(i) \/ Destroy(i) \/ RemoveFiles(i) \/ Crash(i)

Next == (\E i \in Imports : Step(i)) \/ \E v \in Vmids : ForeignCreate(v)

Spec == Init /\ [][Next]_vars

-----------------------------------------------------------------------------
(* No import destroys or changes a machine that it did not create, whoever *)
(* takes the number between qm status and qm create and however the import *)
(* ends (_restore_proxmox).                                                *)
OthersUntouched ==
    [][\A v \in Vmids, i \in Imports :
         vms[v] # Nil /\ vms[v].owner # i /\ imp'[i] # imp[i]
           => vms'[v] = vms[v]]_vars

(* An import reported as done has made a machine with all of its own disks *)
(* in their order and nothing else, from a point that no gate of its way   *)
(* refuses, also when another import used the same number and the same     *)
(* paths meanwhile (_restore_proxmox, execute).                            *)
DoneIsComplete ==
    \A i \in Imports : imp[i].pc = "done" =>
      /\ vms[imp[i].vmid] = [owner |-> i, virtio |-> Disks(i),
                             unused |-> <<>>, boot |-> TRUE]
      /\ ~Blocked(i, PlanProblems)
      /\ imp[i].mode = "builtin" => ~Blocked(i, ConvertProblems)

(* An import that failed has left neither a machine nor a disk image,      *)
(* unless a command timed out, a cleanup failed or the process died        *)
(* (_restore_proxmox).                                                     *)
FailedLeavesNothing ==
    \A i \in Imports : imp[i].pc \in {"failed", "done"} /\ ~imp[i].leak =>
      /\ \A f \in DOMAIN files : files[f] = Nil \/ files[f][1] # i
      /\ imp[i].pc = "failed" =>
           \A v \in Vmids : vms[v] = Nil \/ vms[v].owner # i
(* AtomicImport's view of the node: a machine is seen once the import that *)
(* makes it has ended.                                                     *)
Ended(i) == imp[i].pc \in {"done", "failed", "dead"}
Visible(v) ==
    vms[v] # Nil /\ \A i \in Imports : vms[v].owner = i => Ended(i)
Seen == [v \in Vmids |-> IF Visible(v) THEN vms[v] ELSE Nil]
Fate == [i \in Imports |-> IF Ended(i) THEN imp[i].pc ELSE "running"]
Defeated == {i \in Imports : imp[i].leak}
WholeOf == [i \in Imports |-> [owner |-> i, virtio |-> Disks(i),
                               unused |-> <<>>, boot |-> TRUE]]
PartsOf == [i \in Imports |-> {m \in Machine : m.owner = i}]
ForeignVM == [owner |-> Foreign, virtio |-> <<>>, unused |-> <<>>,
              boot |-> TRUE]
Promise == INSTANCE AtomicImport WITH
    Numbers <- Vmids, Nothing <- Nil,
    Whole <- WholeOf, Parts <- PartsOf, Strange <- ForeignVM,
    machine <- Seen, fate <- Fate, defeated <- Defeated

(* The dozen commands of an import look like one that makes a complete     *)
(* machine at a free number or nothing, whatever else runs and fails at    *)
(* the node; only one that was defeated may leave a part, and what an      *)
(* import has made no other one changes (_restore_proxmox, execute).       *)
ImportsAtomic == Promise!Spec
=============================================================================
