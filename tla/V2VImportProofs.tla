-------------------------- MODULE V2VImportProofs --------------------------
(***************************************************************************)
(* Proofs about V2VImport: for any number of imports, machine numbers and  *)
(* disks, no import changes a machine it did not create, one that is done  *)
(* is complete, one that failed leaves nothing, and together they          *)
(* implement AtomicImport. The first invariant says that from qm create on *)
(* the machine under an import's number is its own, which the check of the *)
(* number before qm create alone does not give; the second what that       *)
(* machine and the node's files hold then; the third, for the refinement,  *)
(* that an import never has two machines.                                  *)
(***************************************************************************)
EXTENDS V2VImport, TLAPS

Images == Imports \X (1..NDisks)

(* The steps from qm create on that name the machine. *)
Building == {"efi", "copy", "import", "detach", "attach", "boot", "validate",
             "destroy"}

(* What an import knows at each step, and whose machine it works on. *)
Progress(i) ==
    /\ imp[i].pc \in Building \cup {"check", "create"} => imp[i].vmid \in Vmids
    /\ imp[i].pc \in {"copy", "import", "detach", "attach"} =>
         imp[i].k \in 1..NDisks
    /\ imp[i].pc = "attach" => imp[i].volume # Nil
    /\ imp[i].pc \in Building => Mine(i) # Nil /\ Mine(i).owner = i

OwnTypes ==
    /\ imp \in [Imports -> Execution]
    /\ DOMAIN vms = Vmids
    /\ \A v \in Vmids : vms[v] = Nil \/ vms[v] \in Machine
    /\ files \in [Vmids \X (1..NDisks) -> Images \cup {Nil}]

OwnInv == OwnTypes /\ \A i \in Imports : Progress(i)

(* The initial state satisfies the invariant. *)
LEMMA InitOwn == Init => OwnInv
<1> SUFFICES ASSUME Init PROVE OwnInv
  OBVIOUS
<1>1. imp \in [Imports -> Execution]
  BY V2VAssumption DEF Init, Execution, Pcs
<1>2. files \in [Vmids \X (1..NDisks) -> Images \cup {Nil}]
  BY DEF Init
<1>3. DOMAIN vms = Vmids /\ \A v \in Vmids : vms[v] = Nil
  BY DEF Init
<1>4. \A i \in Imports : imp[i].pc = "plan"
  BY DEF Init
<1> QED
  BY <1>1, <1>2, <1>3, <1>4 DEF OwnInv, OwnTypes, Progress, Building

(* The records with their flags from any set: what the provers need to see *)
(* of a record whose flags change.                                         *)
ExecOf(F) == [pc : Pcs, mode : {"builtin", "provider"},
              vmid : Vmids \cup {Nil}, k : 0..NDisks,
              volume : Images \cup {Nil}, created : F, err : F, leak : F]

MachineOf(F) == [owner : Imports \cup {Foreign}, virtio : Seq(Images),
                 unused : Seq(Images), boot : F]

LEMMA Flags == Execution = ExecOf(BOOLEAN) /\ Machine = MachineOf(BOOLEAN)
  BY Zenon DEF Execution, ExecOf, Machine, MachineOf, Images

LEMMA ErrShape ==
  ASSUME NEW F, NEW x \in ExecOf(F), NEW pc \in Pcs, NEW e \in F
  PROVE  [x EXCEPT !.pc = pc, !.err = e] \in ExecOf(F)
  BY DEF ExecOf

LEMMA LeakShape ==
  ASSUME NEW F, NEW x \in ExecOf(F), NEW pc \in Pcs, NEW l \in F
  PROVE  [x EXCEPT !.pc = pc, !.leak = l] \in ExecOf(F)
  BY DEF ExecOf

LEMMA ProviderShape ==
  ASSUME NEW F, NEW x \in ExecOf(F), NEW pc \in Pcs,
         NEW v \in Vmids, NEW l \in F
  PROVE  [x EXCEPT !.vmid = v, !.leak = l, !.pc = pc] \in ExecOf(F)
  BY DEF ExecOf

LEMMA CreateShape ==
  ASSUME NEW F, NEW x \in ExecOf(F), NEW pc \in Pcs,
         NEW c \in F, NEW e \in F, NEW l \in F
  PROVE  [x EXCEPT !.pc = pc, !.created = c, !.err = e, !.leak = l] \in ExecOf(F)
  BY DEF ExecOf

LEMMA DiskShape ==
  ASSUME NEW F, NEW x \in ExecOf(F), NEW pc \in Pcs, NEW k \in 0..NDisks
  PROVE  [x EXCEPT !.pc = pc, !.k = k] \in ExecOf(F)
  BY DEF ExecOf

LEMMA VolumeShape ==
  ASSUME NEW F, NEW x \in ExecOf(F), NEW pc \in Pcs,
         NEW u \in Images
  PROVE  [x EXCEPT !.pc = pc, !.volume = u] \in ExecOf(F)
  BY DEF ExecOf

LEMMA AttachShape ==
  ASSUME NEW F, NEW x \in ExecOf(F), NEW pc \in Pcs,
         NEW k \in 0..NDisks
  PROVE  [x EXCEPT !.volume = Nil, !.pc = pc, !.k = k] \in ExecOf(F)
  BY DEF ExecOf

LEMMA NewMachineShape ==
  ASSUME NEW F, NEW b \in F, NEW i \in Imports,
         NEW s \in Seq(Images), NEW u \in Seq(Images)
  PROVE  [owner |-> i, virtio |-> s, unused |-> u, boot |-> b] \in MachineOf(F)
  BY DEF MachineOf

LEMMA ForeignShape ==
  ASSUME NEW F, NEW b \in F, NEW s \in Seq(Images), NEW u \in Seq(Images)
  PROVE  [owner |-> Foreign, virtio |-> s, unused |-> u, boot |-> b]
           \in MachineOf(F)
  BY DEF MachineOf

LEMMA UnusedShape ==
  ASSUME NEW F, NEW m \in MachineOf(F), NEW s \in Seq(Images)
  PROVE  [m EXCEPT !.unused = s] \in MachineOf(F)
  BY DEF MachineOf

LEMMA VirtioShape ==
  ASSUME NEW F, NEW m \in MachineOf(F), NEW s \in Seq(Images)
  PROVE  [m EXCEPT !.virtio = s] \in MachineOf(F)
  BY DEF MachineOf

LEMMA BootShape ==
  ASSUME NEW F, NEW m \in MachineOf(F), NEW b \in F
  PROVE  [m EXCEPT !.boot = b] \in MachineOf(F)
  BY DEF MachineOf

LEMMA PcShape ==
  ASSUME NEW F, NEW x \in ExecOf(F), NEW pc \in Pcs
  PROVE  [x EXCEPT !.pc = pc] \in ExecOf(F)
  BY DEF ExecOf

(* An import's step that changes no machine: its record stays typed and    *)
(* what it knows of its machine stays true.                                *)
Quiet(i) ==
    /\ imp' = [imp EXCEPT ![i] = imp'[i]] /\ imp'[i] \in Execution
    /\ vms' = vms
    /\ imp'[i].pc \in Building =>
         imp[i].pc \in Building /\ imp'[i].vmid = imp[i].vmid

LEMMA GateQuiet ==
  ASSUME OwnInv, NEW i \in Imports, NEW pc, NEW kinds,
         NEW next \in {"tools", "ova", "inspect", "convert", "bridges", "number"},
         Gate(i, pc, kinds, next)
  PROVE  Quiet(i) /\ imp'[i].pc \in {next, "failed"}
  BY DEF OwnInv, OwnTypes, Gate, Goto, Quiet, Execution, Pcs, Building

(* The steps that change no machine. *)
LEMMA QuietSteps ==
  ASSUME OwnInv, NEW i \in Imports,
         \/ Plan(i) \/ _preflight_proxmox_storage(i) \/ _builtin_doctor(i)
         \/ _prepare_ova(i) \/ _inspection(i) \/ _convert_vmware(i)
         \/ _preflight_proxmox_bridges(i) \/ ProviderRefuses(i)
         \/ ChooseVmid(i) \/ CheckVmid(i) \/ SetEfi(i) \/ CopyDisk(i)
         \/ Validate(i) \/ CommandFails(i) \/ RemoveFiles(i) \/ Crash(i)
  PROVE  Quiet(i) /\ Progress(i)'
<1>0. imp \in [Imports -> Execution] /\ imp[i] \in ExecOf(BOOLEAN)
  BY Flags DEF OwnInv, OwnTypes
<1>1. CASE \/ _preflight_proxmox_storage(i) \/ _builtin_doctor(i)
           \/ _prepare_ova(i) \/ _inspection(i) \/ _convert_vmware(i)
           \/ _preflight_proxmox_bridges(i)
  <2>1. Quiet(i) /\ imp'[i].pc \in {"tools", "ova", "inspect", "convert",
                                    "bridges", "number", "failed"}
    BY <1>1, GateQuiet
    DEF _preflight_proxmox_storage, _builtin_doctor, _prepare_ova, _inspection,
        _convert_vmware, _preflight_proxmox_bridges
  <2> QED
    BY <2>1 DEF Progress, Building
<1>2. CASE Plan(i) \/ ProviderRefuses(i)
  BY <1>2 DEF OwnInv, OwnTypes, Execution, Pcs,
              Plan, ProviderRefuses, At, Goto, Quiet, Progress, Building
<1>3. CASE ChooseVmid(i) \/ CheckVmid(i)
  BY <1>3 DEF OwnInv, OwnTypes, Execution, Pcs,
              ChooseVmid, CheckVmid, At, Goto, Quiet, Progress, Building
<1>4. CASE SetEfi(i)
  <2> DEFINE new == [imp[i] EXCEPT !.pc = "copy", !.k = 1]
  <2>1. imp' = [imp EXCEPT ![i] = new] /\ vms' = vms /\ imp[i].pc = "efi"
    BY <1>0, <1>4 DEF SetEfi, At
  <2>2. new \in Execution /\ new.pc = "copy" /\ new.vmid = imp[i].vmid
          /\ new.k \in 1..NDisks
    <3>1. "copy" \in Pcs /\ 1 \in 0..NDisks /\ 1 \in 1..NDisks
      BY V2VAssumption DEF Pcs
    <3>2. new \in Execution
      BY <1>0, <3>1, Flags, DiskShape, Zenon
    <3> QED
      BY <1>0, <3>1, <3>2 DEF ExecOf
  <2> HIDE DEF new
  <2>3. imp'[i] = new
    BY <1>0, <2>1
  <2> QED
    BY <2>1, <2>2, <2>3 DEF Quiet, OwnInv, Progress, Building, Mine
<1>8. CASE Validate(i)
  <2>1. imp' = [imp EXCEPT ![i].pc = "remove"] /\ vms' = vms
    BY <1>8 DEF Validate, Goto
  <2> QED
    BY <1>0, <2>1 DEF Execution, Pcs, Quiet, Progress, Building
<1>5. CASE CopyDisk(i) \/ RemoveFiles(i)
  BY <1>5 DEF OwnInv, OwnTypes, Execution, Pcs,
              CopyDisk, RemoveFiles, At, Goto, Quiet, Progress, Building, Mine
<1>6. CASE CommandFails(i)
  <2> DEFINE new == [imp[i] EXCEPT !.pc = OnFailure(i), !.err = TRUE]
  <2>1. imp' = [imp EXCEPT ![i] = new] /\ vms' = vms
    BY <1>0, <1>6 DEF CommandFails
  <2>2. OnFailure(i) \in {"destroy", "remove"}
    BY DEF OnFailure
  <2>3. new \in Execution /\ new.pc = OnFailure(i) /\ new.vmid = imp[i].vmid
    <3>1. OnFailure(i) \in Pcs /\ TRUE \in BOOLEAN
      BY <2>2 DEF Pcs
    <3>2. new \in Execution
      BY <1>0, <3>1, Flags, ErrShape, Zenon
    <3> QED
      BY <1>0, <3>1, <3>2 DEF ExecOf
  <2>4. imp[i].pc \in Building
    BY <1>6 DEF CommandFails, Building
  <2> HIDE DEF new
  <2>5. imp'[i] = new
    BY <1>0, <2>1
  <2> QED
    BY <2>1, <2>2, <2>3, <2>4, <2>5
    DEF Quiet, OwnInv, Progress, Building, Mine
<1>7. CASE Crash(i)
  <2> DEFINE new == [imp[i] EXCEPT !.pc = "dead", !.leak = TRUE]
  <2>1. imp' = [imp EXCEPT ![i] = new] /\ vms' = vms
    BY <1>0, <1>7 DEF Crash
  <2>2. new \in Execution /\ new.pc = "dead"
    <3>1. "dead" \in Pcs /\ TRUE \in BOOLEAN
      BY DEF Pcs
    <3>2. new \in Execution
      BY <1>0, <3>1, Flags, LeakShape, Zenon
    <3> QED
      BY <1>0, <3>1, <3>2 DEF ExecOf
  <2> HIDE DEF new
  <2>3. imp'[i] = new
    BY <1>0, <2>1
  <2> QED
    BY <2>1, <2>2, <2>3 DEF Quiet, Progress, Building
<1> QED
  BY <1>1, <1>2, <1>3, <1>4, <1>5, <1>6, <1>7, <1>8

(* The images at the node stay images, or nothing. *)
LEMMA FilesTyped ==
  ASSUME OwnInv, NEW i \in Imports, CopyDisk(i) \/ RemoveFiles(i)
  PROVE  files' \in [Vmids \X (1..NDisks) -> Images \cup {Nil}]
<1>1. CASE CopyDisk(i)
  <2>1. imp[i].k \in 1..NDisks /\ imp[i].vmid \in Vmids
    BY <1>1 DEF CopyDisk, At, OwnInv, Progress, Building
  <2>2. <<i, imp[i].k>> \in Images
    BY <2>1 DEF Images
  <2> QED
    BY <1>1, <2>2 DEF CopyDisk, OwnInv, OwnTypes
<1>2. CASE RemoveFiles(i)
  BY <1>2 DEF RemoveFiles, OwnInv, OwnTypes
<1> QED
  BY <1>1, <1>2

(* What a step of an import may do: its own record, and at most one        *)
(* machine, which was free or its own.                                     *)
Acts(i) ==
    /\ imp' = [imp EXCEPT ![i] = imp'[i]] /\ imp'[i] \in Execution
    /\ files' \in [Vmids \X (1..NDisks) -> Images \cup {Nil}]
    /\ Progress(i)'
    /\ \/ vms' = vms
       \/ \E v \in Vmids, m \in Machine \cup {Nil} :
            /\ vms[v] = Nil \/ vms[v].owner = i
            /\ m = Nil \/ m.owner = i
            /\ vms' = [vms EXCEPT ![v] = m]

(* Then the invariant holds again, and no other machine was touched.       *)
LEMMA ActsOwn ==
  ASSUME OwnInv, NEW i \in Imports, Acts(i)
  PROVE  /\ OwnInv'
         /\ \A x \in Imports \ {i} : imp'[x] = imp[x]
         /\ \A v \in Vmids : vms[v] # Nil /\ vms[v].owner # i
                               => vms'[v] = vms[v]
<1>1. imp' \in [Imports -> Execution] /\ \A x \in Imports \ {i} : imp'[x] = imp[x]
  BY DEF Acts, OwnInv, OwnTypes
<1>2. /\ DOMAIN vms' = Vmids
      /\ \A v \in Vmids : vms'[v] = Nil \/ vms'[v] \in Machine
      /\ \A v \in Vmids : vms[v] # Nil /\ vms[v].owner # i
                            => vms'[v] = vms[v]
  BY DEF Acts, OwnInv, OwnTypes
<1>3. ASSUME NEW x \in Imports \ {i} PROVE Progress(x)'
  <2>1. imp'[x] = imp[x] /\ Progress(x)
    BY <1>1 DEF OwnInv
  <2>2. imp[x].pc \in Building => Mine(x)' = Mine(x)
    BY <1>2, <2>1 DEF Progress, Mine
  <2> QED
    BY <2>1, <2>2 DEF Progress
<1>4. Progress(i)' /\ files' \in [Vmids \X (1..NDisks) -> Images \cup {Nil}]
  BY DEF Acts
<1> QED
  BY <1>1, <1>2, <1>3, <1>4 DEF OwnInv, OwnTypes

(* A machine that an import may have at its number. *)
LEMMA OwnMachine ==
  ASSUME OwnInv, NEW i \in Imports, imp[i].pc \in Building
  PROVE  /\ imp[i].vmid \in Vmids /\ vms[imp[i].vmid] \in Machine
         /\ vms[imp[i].vmid].owner = i
BY DEF OwnInv, OwnTypes, Progress, Mine

LEMMA ProviderActs ==
  ASSUME OwnInv, NEW i \in Imports, ProviderConvert(i)
  PROVE  Acts(i)
<1>1. PICK v \in Vmids, attested \in BOOLEAN :
        /\ vms[v] = Nil
        /\ vms' = [vms EXCEPT ![v] = [owner |-> i, virtio |-> Disks(i),
                                      unused |-> <<>>, boot |-> TRUE]]
        /\ imp' = [imp EXCEPT ![i].vmid = v, ![i].leak = ~attested,
                              ![i].pc = IF attested THEN "done" ELSE "failed"]
  BY Zenon DEF ProviderConvert
<1> DEFINE pc == IF attested THEN "done" ELSE "failed"
           new == [imp[i] EXCEPT !.vmid = v, !.leak = ~attested, !.pc = pc]
           m == [owner |-> i, virtio |-> Disks(i), unused |-> <<>>,
                 boot |-> TRUE]
<1>2. imp[i] \in ExecOf(BOOLEAN) /\ imp \in [Imports -> Execution]
  BY Flags DEF OwnInv, OwnTypes
<1>3. imp' = [imp EXCEPT ![i] = new]
  BY <1>1, <1>2
<1>4. pc \in Pcs /\ pc \in {"done", "failed"} /\ (~attested) \in BOOLEAN
  <2>1. pc \in {"done", "failed"}
    OBVIOUS
  <2>2. (~attested) \in BOOLEAN
    BY Zenon
  <2>3. {"done", "failed"} \subseteq Pcs
    BY DEF Pcs
  <2> QED
    BY <2>1, <2>2, <2>3, Zenon
<1>5. new \in Execution
  <2> HIDE DEF pc
  <2> QED
    BY <1>2, <1>4, Flags, ProviderShape, Zenon
<1>6. new.pc = pc
  BY <1>2 DEF ExecOf
<1>7. m \in Machine /\ m.owner = i
  <2>1. Disks(i) \in Seq(Images) /\ <<>> \in Seq(Images) /\ TRUE \in BOOLEAN
    BY V2VAssumption DEF Disks, Images
  <2>2. m \in Machine
    BY <2>1, Flags, NewMachineShape, Zenon
  <2> QED
    BY <2>2
<1> HIDE DEF new, pc, m
<1>8. imp'[i] = new
  BY <1>2, <1>3
<1>9. Progress(i)'
  BY <1>4, <1>6, <1>8 DEF Progress, Building
<1>10. vms' = [vms EXCEPT ![v] = m] /\ files' = files
  BY <1>1 DEF m, ProviderConvert
<1>11. \E w \in Vmids, n \in Machine \cup {Nil} :
         /\ vms[w] = Nil \/ vms[w].owner = i
         /\ n = Nil \/ n.owner = i
         /\ vms' = [vms EXCEPT ![w] = n]
  <2>1. m \in Machine \cup {Nil}
    BY <1>7
  <2> QED
    BY <1>1, <1>7, <1>10, <2>1, Zenon
<1> QED
  BY <1>3, <1>5, <1>8, <1>9, <1>10, <1>11 DEF Acts, OwnInv, OwnTypes

LEMMA CreateActs ==
  ASSUME OwnInv, NEW i \in Imports, Create(i)
  PROVE  Acts(i)
<1> DEFINE m == [owner |-> i, virtio |-> <<>>, unused |-> <<>>,
                 boot |-> FALSE]
           New(ok, leak) ==
             [imp[i] EXCEPT !.pc = IF ok THEN "efi" ELSE "remove",
                            !.created = ok, !.err = ~ok, !.leak = leak]
<1>1. imp[i] \in ExecOf(BOOLEAN) /\ imp \in [Imports -> Execution]
  BY Flags DEF OwnInv, OwnTypes
<1>2. imp[i].pc = "create" /\ imp[i].vmid \in Vmids /\ files' = files
  BY DEF Create, At, OwnInv, Progress
<1>3. PICK ok \in BOOLEAN, leak \in BOOLEAN :
        /\ imp' = [imp EXCEPT ![i] = New(ok, leak)]
        /\ \/ vms' = vms /\ ~ok
           \/ vms[imp[i].vmid] = Nil /\ vms' = [vms EXCEPT ![imp[i].vmid] = m]
  <2>1. \/ /\ imp' = [imp EXCEPT ![i] = New(TRUE, FALSE)]
           /\ vms[imp[i].vmid] = Nil
           /\ vms' = [vms EXCEPT ![imp[i].vmid] = m]
        \/ imp' = [imp EXCEPT ![i] = New(FALSE, FALSE)] /\ vms' = vms
        \/ /\ imp' = [imp EXCEPT ![i] = New(FALSE, TRUE)]
           /\ vms[imp[i].vmid] = Nil
           /\ vms' = [vms EXCEPT ![imp[i].vmid] = m]
    BY <1>1 DEF Create, CreatedFlag, Mine
  <2> HIDE DEF New, m
  <2> QED
    BY <2>1, Zenon
<1>4. m \in Machine /\ m.owner = i
  <2>1. <<>> \in Seq(Images) /\ FALSE \in BOOLEAN
    OBVIOUS
  <2>2. m \in Machine
    BY <2>1, Flags, NewMachineShape, Zenon
  <2> QED
    BY <2>2
<1>5. New(ok, leak) \in Execution
  <2> DEFINE pc == IF ok THEN "efi" ELSE "remove"
  <2>1. pc \in Pcs /\ (~ok) \in BOOLEAN
    <3>1. pc \in {"efi", "remove"}
      OBVIOUS
    <3>2. (~ok) \in BOOLEAN
      BY Zenon
    <3>3. {"efi", "remove"} \subseteq Pcs
      BY DEF Pcs
    <3> QED
      BY <3>1, <3>2, <3>3, Zenon
  <2> HIDE DEF pc
  <2>2. [imp[i] EXCEPT !.pc = pc, !.created = ok, !.err = ~ok, !.leak = leak]
          \in ExecOf(BOOLEAN)
    BY <1>1, <2>1, CreateShape, Zenon
  <2> QED
    BY <2>2, Flags, Zenon DEF pc
<1>6. /\ New(ok, leak).pc = (IF ok THEN "efi" ELSE "remove")
      /\ New(ok, leak).vmid = imp[i].vmid
  BY <1>1 DEF ExecOf
<1> HIDE DEF New, m
<1>7. imp'[i] = New(ok, leak)
  BY <1>1, <1>3
<1>8. Progress(i)'
  <2>1. CASE ok
    <3>1. vms'[imp[i].vmid] = m
      BY <1>2, <1>3, <2>1 DEF OwnInv, OwnTypes
    <3>2. m # Nil
      BY <1>4, NilAssumption
    <3>3. imp'[i].pc = "efi" /\ imp'[i].vmid = imp[i].vmid
      BY <1>6, <1>7, <2>1
    <3> QED
      BY <1>2, <1>4, <3>1, <3>2, <3>3 DEF Progress, Building, Mine
  <2>2. CASE ~ok
    <3>1. imp'[i].pc = "remove"
      BY <1>6, <1>7, <2>2
    <3> QED
      BY <3>1 DEF Progress, Building
  <2> QED
    BY <2>1, <2>2
<1> QED
  BY <1>2, <1>3, <1>4, <1>5, <1>7, <1>8 DEF Acts, OwnInv, OwnTypes

(* A command that leaves an import its machine, and its number. *)
LEMMA BuildActs ==
  ASSUME OwnInv, NEW i \in Imports, imp[i].pc \in Building,
         NEW new \in Execution, imp' = [imp EXCEPT ![i] = new],
         NEW m \in Machine, m.owner = i,
         vms' = [vms EXCEPT ![imp[i].vmid] = m], files' = files,
         new.vmid = imp[i].vmid,
         new.pc \in {"copy", "import", "detach", "attach"} =>
           new.k \in 1..NDisks,
         new.pc = "attach" => new.volume # Nil
  PROVE  Acts(i)
<1>1. /\ imp[i].vmid \in Vmids /\ vms[imp[i].vmid].owner = i
  BY OwnMachine
<1>2. imp'[i] = new
  BY DEF OwnInv, OwnTypes
<1>3. vms'[imp[i].vmid] = m /\ m # Nil
  BY <1>1, NilAssumption DEF OwnInv, OwnTypes
<1>4. Progress(i)'
  BY <1>1, <1>2, <1>3 DEF Progress, Mine
<1> QED
  BY <1>1, <1>2, <1>4 DEF Acts, OwnInv, OwnTypes

LEMMA ImportActs ==
  ASSUME OwnInv, NEW i \in Imports, ImportDisk(i)
  PROVE  Acts(i)
<1> DEFINE x == imp[i]
           old == vms[x.vmid]
           image == files[Remote(x.vmid, x.k)]
           m == [old EXCEPT !.unused = Append(old.unused, image)]
           new == [x EXCEPT !.pc = "detach"]
<1>1. x.pc = "import" /\ image # Nil /\ files' = files
        /\ x.k \in 1..NDisks
  BY DEF ImportDisk, At, OwnInv, Progress
<1>2. x.pc \in Building
  BY <1>1 DEF Building
<1>3. x.vmid \in Vmids /\ old \in Machine /\ old.owner = i
  BY <1>2, OwnMachine
<1>4. image \in Images
  BY <1>1, <1>3 DEF OwnInv, OwnTypes, Remote
<1>5. x \in ExecOf(BOOLEAN) /\ old \in MachineOf(BOOLEAN)
        /\ imp \in [Imports -> Execution] /\ DOMAIN vms = Vmids
  BY <1>3, Flags DEF OwnInv, OwnTypes
<1>6. m \in Machine /\ m.owner = i
  <2>1. old.unused \in Seq(Images)
    BY <1>5 DEF MachineOf
  <2>2. Append(old.unused, image) \in Seq(Images)
    BY <1>4, <2>1
  <2>3. m \in Machine
    BY <1>5, <2>2, Flags, UnusedShape, Zenon
  <2>4. m.owner = old.owner
    BY <1>5 DEF MachineOf
  <2> QED
    BY <1>3, <2>3, <2>4
<1>7. /\ new \in Execution /\ new.pc = "detach" /\ new.vmid = x.vmid
      /\ new.k \in 1..NDisks
  <2>1. "detach" \in Pcs
    BY DEF Pcs
  <2>2. new \in Execution
    BY <1>5, <2>1, Flags, PcShape, Zenon
  <2> QED
    BY <1>1, <1>5, <2>2 DEF ExecOf
<1>8. vms' = [vms EXCEPT ![x.vmid] = m] /\ imp' = [imp EXCEPT ![i] = new]
  BY <1>3, <1>5 DEF ImportDisk, Goto
<1> HIDE DEF m, new, image
<1> QED
  BY <1>1, <1>2, <1>6, <1>7, <1>8, BuildActs

LEMMA DetachActs ==
  ASSUME OwnInv, NEW i \in Imports, DetachUnused(i)
  PROVE  Acts(i)
<1> DEFINE x == imp[i]
           old == vms[x.vmid]
           u == old.unused
           m == [old EXCEPT !.unused = SubSeq(u, 1, Len(u) - 1)]
           new == [x EXCEPT !.pc = "attach", !.volume = _unused_volume(u)]
<1>1. x.pc = "detach" /\ files' = files /\ x.k \in 1..NDisks /\ u # <<>>
  BY DEF DetachUnused, At, OwnInv, Progress, Mine
<1>2. x.pc \in Building
  BY <1>1 DEF Building
<1>3. x.vmid \in Vmids /\ old \in Machine /\ old.owner = i
  BY <1>2, OwnMachine
<1>4. x \in ExecOf(BOOLEAN) /\ old \in MachineOf(BOOLEAN)
        /\ imp \in [Imports -> Execution] /\ DOMAIN vms = Vmids
  BY <1>3, Flags DEF OwnInv, OwnTypes
<1>5. u \in Seq(Images)
  BY <1>4 DEF MachineOf
<1>6. _unused_volume(u) \in Images /\ SubSeq(u, 1, Len(u) - 1) \in Seq(Images)
  <2> HIDE DEF u
  <2>1. Len(u) \in 1..Len(u)
    BY <1>1, <1>5
  <2> QED
    BY <1>5, <2>1 DEF _unused_volume
<1>7. m \in Machine /\ m.owner = i
  <2>1. m \in Machine
    BY <1>4, <1>6, Flags, UnusedShape, Zenon
  <2>2. m.owner = old.owner
    BY <1>4 DEF MachineOf
  <2> QED
    BY <1>3, <2>1, <2>2
<1>8. /\ new \in Execution /\ new.pc = "attach" /\ new.vmid = x.vmid
      /\ new.k \in 1..NDisks /\ new.volume # Nil
  <2>1. "attach" \in Pcs
    BY DEF Pcs
  <2>2. new \in Execution
    BY <1>4, <1>6, <2>1, Flags, VolumeShape, Zenon
  <2>3. _unused_volume(u) # Nil
    BY <1>6, NilAssumption DEF Images
  <2> QED
    BY <1>1, <1>4, <2>2, <2>3 DEF ExecOf
<1>9. vms' = [vms EXCEPT ![x.vmid] = m] /\ imp' = [imp EXCEPT ![i] = new]
  BY <1>3, <1>4 DEF DetachUnused, Mine
<1> HIDE DEF m, new, u
<1> QED
  BY <1>1, <1>2, <1>7, <1>8, <1>9, BuildActs

LEMMA AttachActs ==
  ASSUME OwnInv, NEW i \in Imports, AttachDisk(i)
  PROVE  Acts(i)
<1> DEFINE x == imp[i]
           old == vms[x.vmid]
           m == [old EXCEPT !.virtio = Append(old.virtio, x.volume)]
           pc == IF LastDisk(x.k) THEN "boot" ELSE "copy"
           k == IF LastDisk(x.k) THEN x.k ELSE x.k + 1
           new == [x EXCEPT !.volume = Nil, !.pc = pc, !.k = k]
<1>1. /\ x.pc = "attach" /\ files' = files /\ x.k \in 1..NDisks
      /\ x.volume # Nil
  BY DEF AttachDisk, At, OwnInv, Progress
<1>2. x.pc \in Building
  BY <1>1 DEF Building
<1>3. x.vmid \in Vmids /\ old \in Machine /\ old.owner = i
  BY <1>2, OwnMachine
<1>4. x \in ExecOf(BOOLEAN) /\ old \in MachineOf(BOOLEAN)
        /\ imp \in [Imports -> Execution] /\ DOMAIN vms = Vmids
  BY <1>3, Flags DEF OwnInv, OwnTypes
<1>5. m \in Machine /\ m.owner = i
  <2>1. old.virtio \in Seq(Images) /\ x.volume \in Images
    BY <1>1, <1>4 DEF MachineOf, ExecOf
  <2>2. Append(old.virtio, x.volume) \in Seq(Images)
    BY <2>1
  <2>3. m \in Machine
    BY <1>4, <2>2, Flags, VirtioShape, Zenon
  <2>4. m.owner = old.owner
    BY <1>4 DEF MachineOf
  <2> QED
    BY <1>3, <2>3, <2>4
<1>6. pc \in {"boot", "copy"} /\ k \in 1..NDisks
  BY <1>1, V2VAssumption DEF LastDisk
<1>7. pc \in Pcs /\ k \in 0..NDisks
  BY <1>6 DEF Pcs
<1>8. vms' = [vms EXCEPT ![x.vmid] = m] /\ imp' = [imp EXCEPT ![i] = new]
  BY <1>3, <1>4 DEF AttachDisk
<1> HIDE DEF pc, k
<1>9. /\ new \in Execution /\ new.pc = pc /\ new.vmid = x.vmid
      /\ new.k \in 1..NDisks
  <2>1. new \in Execution
    BY <1>4, <1>7, Flags, AttachShape, Zenon
  <2> QED
    BY <1>4, <1>6, <2>1 DEF ExecOf
<1>10. new.pc # "attach"
  BY <1>6, <1>9
<1> HIDE DEF m, new
<1> QED
  BY <1>1, <1>2, <1>5, <1>8, <1>9, <1>10, BuildActs

LEMMA BootActs ==
  ASSUME OwnInv, NEW i \in Imports, SetBoot(i)
  PROVE  Acts(i)
<1> DEFINE x == imp[i]
           old == vms[x.vmid]
           m == [old EXCEPT !.boot = TRUE]
           new == [x EXCEPT !.pc = "validate"]
<1>1. x.pc = "boot" /\ files' = files
  BY DEF SetBoot, At
<1>2. x.pc \in Building
  BY <1>1 DEF Building
<1>3. x.vmid \in Vmids /\ old \in Machine /\ old.owner = i
  BY <1>2, OwnMachine
<1>4. x \in ExecOf(BOOLEAN) /\ old \in MachineOf(BOOLEAN)
        /\ imp \in [Imports -> Execution] /\ DOMAIN vms = Vmids
  BY <1>3, Flags DEF OwnInv, OwnTypes
<1>5. m \in Machine /\ m.owner = i
  <2>1. TRUE \in BOOLEAN
    OBVIOUS
  <2>2. m \in Machine
    BY <1>4, <2>1, Flags, BootShape, Zenon
  <2>3. m.owner = old.owner
    BY <1>4 DEF MachineOf
  <2> QED
    BY <1>3, <2>2, <2>3
<1>6. new \in Execution /\ new.pc = "validate" /\ new.vmid = x.vmid
  <2>1. "validate" \in Pcs
    BY DEF Pcs
  <2>2. new \in Execution
    BY <1>4, <2>1, Flags, PcShape, Zenon
  <2> QED
    BY <1>4, <2>2 DEF ExecOf
<1>7. vms' = [vms EXCEPT ![x.vmid] = m] /\ imp' = [imp EXCEPT ![i] = new]
  BY <1>3, <1>4 DEF SetBoot, Goto
<1> HIDE DEF m, new
<1> QED
  BY <1>1, <1>2, <1>5, <1>6, <1>7, BuildActs

(* The except clause removes the machine, which is the import's own. *)
LEMMA DestroyActs ==
  ASSUME OwnInv, NEW i \in Imports, Destroy(i)
  PROVE  Acts(i)
<1> DEFINE x == imp[i]
           plain == [x EXCEPT !.pc = "remove"]
           leaky == [x EXCEPT !.pc = "remove", !.leak = TRUE]
<1>1. x.pc \in Building /\ files' = files
  BY DEF Destroy, At, Building
<1>2. x.vmid \in Vmids /\ vms[x.vmid].owner = i
  BY <1>1, OwnMachine
<1>3. x \in ExecOf(BOOLEAN) /\ imp \in [Imports -> Execution]
  BY Flags DEF OwnInv, OwnTypes
<1>4. /\ plain \in Execution /\ plain.pc = "remove"
      /\ leaky \in Execution /\ leaky.pc = "remove"
  <2>1. "remove" \in Pcs /\ TRUE \in BOOLEAN
    BY DEF Pcs
  <2>2. plain \in Execution
    BY <1>3, <2>1, Flags, PcShape, Zenon
  <2>3. leaky \in Execution
    BY <1>3, <2>1, Flags, LeakShape, Zenon
  <2>4. plain.pc = "remove" /\ leaky.pc = "remove"
    BY <1>3 DEF ExecOf
  <2> QED
    BY <2>2, <2>3, <2>4
<1>5. \/ /\ vms' = [vms EXCEPT ![x.vmid] = Nil]
         /\ imp' = [imp EXCEPT ![i] = plain]
      \/ vms' = vms /\ imp' = [imp EXCEPT ![i] = leaky]
  BY <1>3 DEF Destroy, Goto
<1> HIDE DEF plain, leaky
<1>6. imp'[i] \in Execution /\ imp'[i].pc = "remove"
        /\ imp' = [imp EXCEPT ![i] = imp'[i]]
  BY <1>3, <1>4, <1>5
<1>7. Progress(i)'
  BY <1>6 DEF Progress, Building
<1> QED
  BY <1>1, <1>2, <1>5, <1>6, <1>7 DEF Acts, OwnInv, OwnTypes

(* One case per step of an import. *)
LEMMA StepActs ==
  ASSUME OwnInv, NEW i \in Imports, Step(i)
  PROVE  Acts(i)
<1>1. CASE \/ ProviderConvert(i) \/ Create(i) \/ ImportDisk(i)
           \/ DetachUnused(i) \/ AttachDisk(i) \/ SetBoot(i) \/ Destroy(i)
  BY <1>1, ProviderActs, CreateActs, ImportActs, DetachActs, AttachActs,
     BootActs, DestroyActs
<1>2. CASE \/ Plan(i) \/ _preflight_proxmox_storage(i) \/ _builtin_doctor(i)
           \/ _prepare_ova(i) \/ _inspection(i) \/ _convert_vmware(i)
           \/ _preflight_proxmox_bridges(i) \/ ProviderRefuses(i)
           \/ ChooseVmid(i) \/ CheckVmid(i) \/ SetEfi(i) \/ CopyDisk(i)
           \/ Validate(i) \/ CommandFails(i) \/ RemoveFiles(i) \/ Crash(i)
  <2>1. Quiet(i) /\ Progress(i)'
    BY <1>2, QuietSteps
  <2>2. CASE CopyDisk(i) \/ RemoveFiles(i)
    BY <2>1, <2>2, FilesTyped DEF Quiet, Acts
  <2>3. CASE ~(CopyDisk(i) \/ RemoveFiles(i))
    <3>1. files' = files
      BY <1>2, <2>3
      DEF Plan, _preflight_proxmox_storage, _builtin_doctor, _prepare_ova,
          _inspection, _convert_vmware, _preflight_proxmox_bridges, Gate,
          ProviderRefuses, ChooseVmid, CheckVmid, SetEfi, Validate,
          CommandFails, Crash
    <3> QED
      BY <2>1, <3>1 DEF Quiet, Acts, OwnInv, OwnTypes
  <2> QED
    BY <2>2, <2>3
<1> QED
  BY <1>1, <1>2 DEF Step

(* Another client takes a number that is free. *)
LEMMA ForeignOwn ==
  ASSUME OwnInv, NEW v \in Vmids, ForeignCreate(v)
  PROVE  OwnInv' /\ imp' = imp
<1> DEFINE m == [owner |-> Foreign, virtio |-> <<>>, unused |-> <<>>,
                 boot |-> TRUE]
<1>1. vms[v] = Nil /\ UNCHANGED <<imp, files>>
        /\ vms' = [vms EXCEPT ![v] = m]
  BY DEF ForeignCreate
<1>2. m \in Machine
  <2>1. <<>> \in Seq(Images) /\ TRUE \in BOOLEAN
    OBVIOUS
  <2> QED
    BY <2>1, Flags, ForeignShape, Zenon
<1> HIDE DEF m
<1>3. OwnTypes'
  BY <1>1, <1>2 DEF OwnInv, OwnTypes
<1>4. ASSUME NEW i \in Imports PROVE Progress(i)'
  <2>1. Progress(i) /\ imp'[i] = imp[i]
    BY <1>1 DEF OwnInv
  <2>2. imp[i].pc \in Building => Mine(i)' = Mine(i)
    BY <1>1, <2>1 DEF OwnInv, OwnTypes, Progress, Mine
  <2> QED
    BY <2>1, <2>2 DEF Progress
<1> QED
  BY <1>1, <1>3, <1>4 DEF OwnInv

(* For any number of imports, machine numbers and disks, and whatever      *)
(* fails, times out or dies, no import destroys or changes a machine that  *)
(* it did not create: the check of the number and qm create are two        *)
(* commands, but only qm create's success makes the code touch the machine *)
(* (_restore_proxmox).                                                     *)
THEOREM OthersUntouchedCorrect == Spec => OthersUntouched
<1> DEFINE Untouched ==
      \A v \in Vmids, i \in Imports :
        vms[v] # Nil /\ vms[v].owner # i /\ imp'[i] # imp[i]
          => vms'[v] = vms[v]
<1>1. Init => OwnInv
  BY InitOwn
<1>2. ASSUME OwnInv, [Next]_vars
      PROVE  OwnInv' /\ [Untouched]_vars
  <2>1. ASSUME NEW i \in Imports, Step(i)
        PROVE  OwnInv' /\ Untouched
    <3>1. Acts(i)
      BY <1>2, <2>1, StepActs
    <3> QED
      BY <1>2, <3>1, ActsOwn
  <2>2. ASSUME NEW v \in Vmids, ForeignCreate(v)
        PROVE  OwnInv' /\ Untouched
    BY <1>2, <2>2, ForeignOwn
  <2>3. CASE UNCHANGED vars
    BY <1>2, <2>3 DEF vars, OwnInv, OwnTypes, Progress, Mine
  <2> QED
    BY <1>2, <2>1, <2>2, <2>3 DEF Next
<1>3. OwnInv /\ [Next]_vars => OwnInv'
  BY <1>2
<1>4. OwnInv /\ [Next]_vars => [Untouched]_vars
  BY <1>2
<1> QED
  BY <1>1, <1>3, <1>4, PTL DEF Spec, OthersUntouched

-----------------------------------------------------------------------------
(* A finished import is complete, and a failed one leaves nothing.         *)

(* The machine of an import with its first n disks. *)
Made(i, n, unused, boot) ==
    [owner |-> i, virtio |-> [k \in 1..n |-> <<i, k>>], unused |-> unused,
     boot |-> boot]
Full(i) == Made(i, NDisks, <<>>, TRUE)

(* The remote paths an import has used. *)
Used(i) == {Remote(imp[i].vmid, k) : k \in 1..imp[i].k}

Early == {"plan", "storage", "tools", "ova", "inspect", "convert", "provider",
          "bridges", "number", "check", "create"}
Final == {"remove", "done", "failed", "dead"}

(* The machine under the number of an import at each step of the sequence. *)
Stage(i) ==
    LET pc == imp[i].pc  k == imp[i].k  m == vms[imp[i].vmid] IN
    /\ pc = "efi" => m = Made(i, 0, <<>>, FALSE)
    /\ pc \in {"copy", "import", "attach"} => m = Made(i, k - 1, <<>>, FALSE)
    /\ pc = "import" => files[Remote(imp[i].vmid, k)] \in {Nil, <<i, k>>}
    /\ pc = "detach" => m = Made(i, k - 1, << <<i, k>> >>, FALSE)
    /\ pc = "attach" => imp[i].volume = <<i, k>>
    /\ pc = "boot" => m = Made(i, NDisks, <<>>, FALSE)
    /\ pc = "validate" \/ (pc = "remove" /\ ~imp[i].err) \/ pc = "done" =>
         imp[i].vmid \in Vmids /\ m = Full(i)

(* The flags of an import. *)
FlagsInv(i) ==
    LET pc == imp[i].pc IN
    /\ pc \in Building => imp[i].created
    /\ pc \notin Final => ~imp[i].leak
    /\ pc \in Early \cup {"efi"} => imp[i].k = 0
    /\ pc \in Building => (imp[i].err <=> pc = "destroy")

(* What of an import is at the node, unless something happened that its    *)
(* cleanup cannot know of or could not do.                                 *)
Tidy(i) ==
    LET pc == imp[i].pc IN
    ~imp[i].leak =>
      /\ \A f \in Vmids \X (1..NDisks) : files[f] # Nil /\ files[f][1] = i =>
           pc \in Building \cup {"remove"} /\ f \in Used(i)
      /\ \A v \in Vmids : vms[v] # Nil /\ vms[v].owner = i =>
           \/ pc = "done"
           \/ v = imp[i].vmid
              /\ (pc \in Building \/ (pc = "remove" /\ ~imp[i].err))

(* The gates an import has passed at each step. *)
Refused == {"plan", "failed", "dead"}
Gates(i) ==
    LET pc == imp[i].pc  clear(kinds) == ~Blocked(i, kinds) IN
    /\ pc \notin Refused => clear(PlanProblems)
    /\ imp[i].mode = "provider" => pc \in {"provider", "done", "failed", "dead"}
    /\ imp[i].mode = "builtin" =>
         /\ pc # "provider"
         /\ pc \notin Refused => clear(TransportProblems)
         /\ pc \notin Refused \cup {"storage"} => clear(StorageProblems)
         /\ pc \notin Refused \cup {"storage", "tools"} => clear(ToolProblems)
         /\ pc \notin Refused \cup {"storage", "tools", "ova"} =>
              clear(OvfProblems \cup ConnectionProblems)
         /\ pc \notin Refused \cup {"storage", "tools", "ova", "inspect"} =>
              clear(GuestProblems \cup FirmwareProblems)
         /\ pc \notin Refused \cup {"storage", "tools", "ova", "inspect",
                                    "convert"} =>
              clear(BundleProblems \cup NicProblems)
         /\ pc \notin Refused \cup {"storage", "tools", "ova", "inspect",
                                    "convert", "bridges"} =>
              clear(MappingProblems \cup BridgeProblems)

ImportInv(i) == Stage(i) /\ FlagsInv(i) /\ Tidy(i) /\ Gates(i)
CompleteInv == \A i \in Imports : ImportInv(i)

(* The fields of a record after each kind of update. *)
Rest(y, x) ==
    y.vmid = x.vmid /\ y.mode = x.mode /\ y.created = x.created

LEMMA PcFields ==
  ASSUME NEW F, NEW x \in ExecOf(F), NEW pc
  PROVE  LET y == [x EXCEPT !.pc = pc]
         IN  /\ y.pc = pc /\ Rest(y, x) /\ y.k = x.k
             /\ y.err = x.err /\ y.leak = x.leak /\ y.volume = x.volume
  BY DEF ExecOf, Rest

LEMMA ModeFields ==
  ASSUME NEW F, NEW x \in ExecOf(F), NEW pc, NEW mode
  PROVE  LET y == [x EXCEPT !.pc = pc, !.mode = mode]
         IN  /\ y.pc = pc /\ y.mode = mode /\ y.k = x.k
             /\ y.leak = x.leak /\ y.err = x.err
  BY DEF ExecOf

LEMMA VmidFields ==
  ASSUME NEW F, NEW x \in ExecOf(F), NEW pc, NEW v
  PROVE  LET y == [x EXCEPT !.pc = pc, !.vmid = v]
         IN  /\ y.pc = pc /\ y.mode = x.mode /\ y.k = x.k
             /\ y.leak = x.leak /\ y.err = x.err
  BY DEF ExecOf

(* The machine after each command that changes it. *)
LEMMA RecordUnused ==
  ASSUME NEW i, NEW p, NEW u, NEW b, NEW s
  PROVE  [[owner |-> i, virtio |-> p, unused |-> u, boot |-> b]
            EXCEPT !.unused = s]
           = [owner |-> i, virtio |-> p, unused |-> s, boot |-> b]
  OBVIOUS

LEMMA RecordBoot ==
  ASSUME NEW i, NEW p, NEW u, NEW b, NEW c
  PROVE  [[owner |-> i, virtio |-> p, unused |-> u, boot |-> b]
            EXCEPT !.boot = c]
           = [owner |-> i, virtio |-> p, unused |-> u, boot |-> c]
  OBVIOUS

LEMMA RecordVirtio ==
  ASSUME NEW i, NEW p, NEW u, NEW b, NEW q
  PROVE  [[owner |-> i, virtio |-> p, unused |-> u, boot |-> b]
            EXCEPT !.virtio = q]
           = [owner |-> i, virtio |-> q, unused |-> u, boot |-> b]
  OBVIOUS

LEMMA MadeUnused ==
  ASSUME NEW i, NEW n, NEW u, NEW b, NEW s
  PROVE  [Made(i, n, u, b) EXCEPT !.unused = s] = Made(i, n, s, b)
<1> DEFINE p == [k \in 1..n |-> <<i, k>>]
<1>1. [[owner |-> i, virtio |-> p, unused |-> u, boot |-> b]
         EXCEPT !.unused = s]
        = [owner |-> i, virtio |-> p, unused |-> s, boot |-> b]
  <2> HIDE DEF p
  <2> QED
    BY RecordUnused
<1> QED
  BY <1>1, Zenon DEF Made

LEMMA MadeBoot ==
  ASSUME NEW i, NEW n, NEW u, NEW b, NEW c
  PROVE  [Made(i, n, u, b) EXCEPT !.boot = c] = Made(i, n, u, c)
<1> DEFINE p == [k \in 1..n |-> <<i, k>>]
<1>1. [[owner |-> i, virtio |-> p, unused |-> u, boot |-> b] EXCEPT !.boot = c]
        = [owner |-> i, virtio |-> p, unused |-> u, boot |-> c]
  <2> HIDE DEF p
  <2> QED
    BY RecordBoot
<1> QED
  BY <1>1, Zenon DEF Made

LEMMA MadeVirtio ==
  ASSUME NEW i, NEW n \in Nat, NEW u, NEW b
  PROVE  [Made(i, n, u, b) EXCEPT
            !.virtio = Append(Made(i, n, u, b).virtio, <<i, n + 1>>)]
           = Made(i, n + 1, u, b)
<1> DEFINE p == [k \in 1..n |-> <<i, k>>]
           q == [k \in 1..(n + 1) |-> <<i, k>>]
<1>1. Append(p, <<i, n + 1>>) = q
  <2>1. p \in Seq({<<i, k>> : k \in 1..n}) /\ Len(p) = n
    OBVIOUS
  <2>2. q \in Seq({<<i, k>> : k \in 1..(n + 1)}) /\ Len(q) = n + 1
    OBVIOUS
  <2> QED
    BY <2>1, <2>2
<1>2. Made(i, n, u, b).virtio = p
  BY DEF Made
<1>3. [Made(i, n, u, b) EXCEPT !.virtio = q] = Made(i, n + 1, u, b)
  <2>1. [[owner |-> i, virtio |-> p, unused |-> u, boot |-> b]
           EXCEPT !.virtio = q]
          = [owner |-> i, virtio |-> q, unused |-> u, boot |-> b]
    <3> HIDE DEF p, q
    <3> QED
      BY RecordVirtio
  <2> QED
    BY <2>1, Zenon DEF Made
<1> HIDE DEF p, q
<1> QED
  BY <1>1, <1>2, <1>3

LEMMA MadeEmpty ==
  ASSUME NEW i, NEW b
  PROVE  /\ [owner |-> i, virtio |-> <<>>, unused |-> <<>>, boot |-> b]
              = Made(i, 0, <<>>, b)
         /\ [owner |-> i, virtio |-> Disks(i), unused |-> <<>>, boot |-> b]
              = Made(i, NDisks, <<>>, b)
<1>1. [k \in 1..0 |-> <<i, k>>] = <<>>
  OBVIOUS
<1> QED
  BY <1>1 DEF Made, Disks

(* What a step of an import leaves of the others. *)
Outside(i) ==
    /\ problems' = problems
    /\ \A v \in Vmids : vms'[v] = vms[v] \/ vms'[v] = Nil \/ vms'[v].owner = i
    /\ \A v \in Vmids : vms[v] # Nil /\ vms[v].owner # i => vms'[v] = vms[v]
    /\ \A f \in Vmids \X (1..NDisks) :
         \/ files'[f] = files[f] \/ files'[f] = Nil
         \/ /\ imp[i].pc = "copy" /\ f[1] = imp[i].vmid
            /\ files'[f] = <<i, imp[i].k>>

LEMMA StepOutside ==
  ASSUME OwnInv, NEW i \in Imports, Step(i)
  PROVE  Outside(i)
<1>1. problems' = problems
  BY DEF Step, Plan, _preflight_proxmox_storage, _builtin_doctor, _prepare_ova,
         _inspection, _convert_vmware, _preflight_proxmox_bridges, Gate,
         ProviderConvert, ProviderRefuses, ChooseVmid, CheckVmid, Create,
         SetEfi, CopyDisk, ImportDisk, DetachUnused, AttachDisk, SetBoot,
         Validate, CommandFails, Destroy, RemoveFiles, Crash
<1>2. Acts(i)
  BY StepActs
<1>3. \A v \in Vmids : vms'[v] = vms[v] \/ vms'[v] = Nil \/ vms'[v].owner = i
  BY <1>2 DEF Acts, OwnInv, OwnTypes
<1>4. \A v \in Vmids : vms[v] # Nil /\ vms[v].owner # i => vms'[v] = vms[v]
  BY <1>2, ActsOwn
<1>5. ASSUME NEW f \in Vmids \X (1..NDisks)
      PROVE  \/ files'[f] = files[f] \/ files'[f] = Nil
             \/ /\ imp[i].pc = "copy" /\ f[1] = imp[i].vmid
                /\ files'[f] = <<i, imp[i].k>>
  <2>1. CASE CopyDisk(i)
    BY <2>1 DEF CopyDisk, At, Remote, OwnInv, OwnTypes
  <2>2. CASE RemoveFiles(i)
    BY <2>2 DEF RemoveFiles, OwnInv, OwnTypes
  <2>3. CASE ~CopyDisk(i) /\ ~RemoveFiles(i)
    <3>1. files' = files
      BY <2>3
      DEF Step, Plan, _preflight_proxmox_storage, _builtin_doctor,
          _prepare_ova,
          _inspection, _convert_vmware, _preflight_proxmox_bridges, Gate,
          ProviderConvert, ProviderRefuses, ChooseVmid, CheckVmid, Create,
          SetEfi, ImportDisk, DetachUnused, AttachDisk, SetBoot,
          Validate, CommandFails, Destroy, Crash
    <3> QED
      BY <3>1
  <2> QED
    BY <2>1, <2>2, <2>3
<1> QED
  BY <1>1, <1>3, <1>4, <1>5 DEF Outside

LEMMA MadeTyped ==
  ASSUME NEW i \in Imports, NEW n \in 0..NDisks, NEW u \in Seq(Images),
         NEW b \in BOOLEAN
  PROVE  /\ Made(i, n, u, b) \in Machine /\ Made(i, n, u, b) # Nil
         /\ Made(i, n, u, b).owner = i
<1> DEFINE p == [k \in 1..n |-> <<i, k>>]
<1>1. p \in Seq(Images)
  BY V2VAssumption DEF Images
<1>2. [owner |-> i, virtio |-> p, unused |-> u, boot |-> b] \in Machine
  <2> HIDE DEF p
  <2> QED
    BY <1>1, Flags, NewMachineShape, Zenon
<1>3. Made(i, n, u, b) \in Machine
  BY <1>2, Zenon DEF Made
<1>4. Made(i, n, u, b) # Nil
  BY <1>3, NilAssumption, Zenon
<1>5. Made(i, n, u, b).owner = i
  BY DEF Made
<1> QED
  BY <1>3, <1>4, <1>5, Zenon

LEMMA FullTyped ==
  ASSUME NEW i \in Imports
  PROVE  Full(i) # Nil /\ Full(i).owner = i
<1>1. NDisks \in 0..NDisks /\ <<>> \in Seq(Images) /\ TRUE \in BOOLEAN
  BY V2VAssumption
<1> QED
  BY <1>1, MadeTyped, Zenon DEF Full

(* The steps of an import leave what the others know as it was: two        *)
(* imports that work on the same number would both own its machine.        *)
LEMMA OtherInv ==
  ASSUME OwnInv, NEW i \in Imports, NEW x \in Imports \ {i}, ImportInv(x),
         imp'[x] = imp[x], Outside(i)
  PROVE  ImportInv(x)'
<1> DEFINE v == imp[x].vmid
           m == vms[v]
<1>1. imp[x].pc \in Building => v \in Vmids /\ m # Nil /\ m.owner = x /\ vms'[v] = m
  BY OwnMachine DEF Outside, OwnInv, Progress, Mine
<1>2. v \in Vmids /\ m = Full(x) => vms'[v] = m
  BY FullTyped DEF Outside
<1>3. /\ problems' = problems /\ imp'[x] = imp[x] /\ Progress(x)
      /\ Stage(x) /\ FlagsInv(x) /\ Tidy(x) /\ Gates(x)
  BY DEF Outside, ImportInv, OwnInv
<1>4. ASSUME imp[x].pc = "import"
      PROVE  files'[Remote(v, imp[x].k)] \in {Nil, <<x, imp[x].k>>}
  <2> DEFINE f == Remote(v, imp[x].k)
  <2>1. imp[x].k \in 1..NDisks /\ v \in Vmids /\ m # Nil /\ m.owner = x
    BY <1>1, <1>3, <1>4 DEF Progress, Building
  <2>2. f \in Vmids \X (1..NDisks) /\ f[1] = v
    BY <2>1 DEF Remote
  <2>3. files[f] \in {Nil, <<x, imp[x].k>>}
    BY <1>3, <1>4 DEF Stage
  <2>4. ~(imp[i].pc = "copy" /\ imp[i].vmid = v)
    BY <2>1, OwnMachine DEF Building
  <2>5. files'[f] = files[f] \/ files'[f] = Nil
    BY <2>2, <2>4 DEF Outside
  <2> QED
    BY <2>3, <2>5
<1>5. Stage(x)'
  <2>1. imp[x].pc \in {"efi", "copy", "import", "attach", "detach", "boot",
                       "validate"} => vms'[v] = m
    BY <1>1 DEF Building
  <2> HIDE DEF m, v
  <2>2. imp[x].pc = "import" =>
          files'[Remote(imp[x].vmid, imp[x].k)] \in {Nil, <<x, imp[x].k>>}
    BY <1>4 DEF v
  <2>3. imp[x].pc \in {"efi", "copy", "import", "attach", "detach", "boot",
                       "validate"} => vms'[imp[x].vmid] = vms[imp[x].vmid]
    BY <2>1 DEF m, v
  <2>4. imp[x].vmid \in Vmids /\ vms[imp[x].vmid] = Full(x)
          => vms'[imp[x].vmid] = Full(x)
    BY <1>2 DEF m, v
  <2> QED
    BY <1>3, <2>2, <2>3, <2>4 DEF Stage, Full
<1>6. FlagsInv(x)' /\ Gates(x)'
  BY <1>3 DEF FlagsInv, Gates, Blocked
<1>7. Tidy(x)'
  <2>1. \A f \in Vmids \X (1..NDisks) : files'[f] # Nil /\ files'[f][1] = x
          => files[f] # Nil /\ files[f][1] = x
    BY DEF Outside
  <2>2. \A w \in Vmids : vms'[w] # Nil /\ vms'[w].owner = x
          => vms[w] # Nil /\ vms[w].owner = x
    BY DEF Outside
  <2>3. Used(x)' = Used(x)
    BY <1>3 DEF Used
  <2> QED
    BY <1>3, <2>1, <2>2, <2>3 DEF Tidy
<1> QED
  BY <1>5, <1>6, <1>7 DEF ImportInv

-----------------------------------------------------------------------------
(* The import's own steps.                                                 *)

(* The gates are behind an import that has a number.                       *)
LEMMA GatesStay ==
  ASSUME NEW i \in Imports, Gates(i), imp \in [Imports -> Execution],
         imp[i].pc \in Building \cup {"number", "check", "create", "remove"},
         imp'[i].mode = imp[i].mode, imp'[i].pc # "provider",
         problems' = problems
  PROVE  Gates(i)'
<1>1. imp[i].mode = "builtin" /\ imp[i].mode # "provider"
  <2>1. imp[i].mode \in {"builtin", "provider"}
    BY DEF Execution
  <2> QED
    BY <2>1 DEF Gates, Building
<1> DEFINE Clear(kinds) == ~Blocked(i, kinds)
<1>2. /\ Clear(PlanProblems) /\ Clear(TransportProblems)
      /\ Clear(StorageProblems) /\ Clear(ToolProblems)
      /\ Clear(OvfProblems \cup ConnectionProblems)
      /\ Clear(GuestProblems \cup FirmwareProblems)
      /\ Clear(BundleProblems \cup NicProblems)
      /\ Clear(MappingProblems \cup BridgeProblems)
  BY <1>1 DEF Gates, Building, Refused
<1>3. \A kinds : Blocked(i, kinds)' <=> Blocked(i, kinds)
  BY DEF Blocked
<1> QED
  BY <1>1, <1>2, <1>3 DEF Gates

(* An import that stays at work on its machine keeps it and its images.    *)
LEMMA TidyStays ==
  ASSUME OwnInv, NEW i \in Imports, Tidy(i), imp[i].pc \in Building,
         imp'[i].pc \in Building \/ (imp'[i].pc = "remove" /\ ~imp'[i].err),
         imp'[i].vmid = imp[i].vmid, imp'[i].leak = imp[i].leak,
         imp'[i].k \in 0..NDisks, imp[i].k <= imp'[i].k, files' = files,
         \A v \in Vmids \ {imp[i].vmid} : vms'[v] = vms[v]
  PROVE  Tidy(i)'
<1>1. Used(i) \subseteq Used(i)'
  <2>1. imp[i].k \in 0..NDisks
    BY DEF OwnInv, OwnTypes, Execution
  <2>2. 1..imp[i].k \subseteq 1..(imp'[i].k)
    BY <2>1, V2VAssumption
  <2> QED
    BY <2>2 DEF Used
<1>2. imp'[i].pc \in Building \cup {"remove"}
  OBVIOUS
<1>3. ASSUME ~imp'[i].leak, NEW f \in Vmids \X (1..NDisks),
             files'[f] # Nil, files'[f][1] = i
      PROVE  f \in Used(i)'
  BY <1>1, <1>3 DEF Tidy
<1>4. ASSUME ~imp'[i].leak, NEW v \in Vmids, vms'[v] # Nil, vms'[v].owner = i
      PROVE  v = imp'[i].vmid
  BY <1>4 DEF Tidy, Building
<1> QED
  BY <1>2, <1>3, <1>4 DEF Tidy

(* What an import's own step must establish. *)
Own(i) == Stage(i)' /\ FlagsInv(i)' /\ Tidy(i)' /\ Gates(i)'

LEMMA OwnImport ==
  ASSUME NEW i, Own(i)
  PROVE  ImportInv(i)'
  BY DEF Own, ImportInv

(* Before qm create nothing of the import is at the node. *)
LEMMA EarlyOwn ==
  ASSUME OwnInv, NEW i \in Imports, ImportInv(i), imp[i].pc \in Early,
         imp'[i].pc \in Early \cup {"failed"}, imp'[i].k = imp[i].k,
         imp'[i].leak = imp[i].leak, vms' = vms, files' = files, Gates(i)'
  PROVE  Own(i)
<1>1. ~imp[i].leak /\ imp[i].k = 0 /\ imp[i].pc \notin Building \cup {"remove", "done"}
  BY DEF ImportInv, FlagsInv, Early, Building, Final
<1>2. /\ \A f \in Vmids \X (1..NDisks) : ~(files[f] # Nil /\ files[f][1] = i)
      /\ \A v \in Vmids : ~(vms[v] # Nil /\ vms[v].owner = i)
  BY <1>1 DEF ImportInv, Tidy
<1>3. Tidy(i)'
  BY <1>2 DEF Tidy
<1>4. imp'[i].pc \notin Building /\ imp'[i].pc \notin {"validate", "remove", "done"}
        /\ imp'[i].pc \notin {"efi", "copy", "import", "attach", "detach", "boot"}
  BY DEF Early, Building
<1>5. Stage(i)'
  BY <1>4 DEF Stage
<1>6. FlagsInv(i)'
  BY <1>1, <1>4 DEF FlagsInv, Early
<1> QED
  BY <1>3, <1>5, <1>6 DEF Own

LEMMA GateFields ==
  ASSUME OwnInv, NEW i \in Imports, NEW pc, NEW kinds, NEW next \in Pcs,
         Gate(i, pc, kinds, next)
  PROVE  /\ imp[i].pc = pc
         /\ imp'[i].pc = "failed" \/ (imp'[i].pc = next /\ ~Blocked(i, kinds))
         /\ Rest(imp'[i], imp[i]) /\ imp'[i].k = imp[i].k
         /\ imp'[i].leak = imp[i].leak /\ imp'[i].err = imp[i].err
         /\ UNCHANGED <<problems, vms, files>>
<1> DEFINE To(to) == [imp[i] EXCEPT !.pc = to]
<1>1. imp[i] \in ExecOf(BOOLEAN) /\ imp \in [Imports -> Execution]
  BY Flags DEF OwnInv, OwnTypes
<1>2. \/ imp' = [imp EXCEPT ![i] = To(next)] /\ ~Blocked(i, kinds)
      \/ imp' = [imp EXCEPT ![i] = To("failed")]
  BY <1>1 DEF Gate, Goto
<1>3. \A to : /\ To(to).pc = to /\ Rest(To(to), imp[i]) /\ To(to).k = imp[i].k
              /\ To(to).leak = imp[i].leak /\ To(to).err = imp[i].err
  BY <1>1, PcFields
<1> HIDE DEF To
<1>4. \/ imp'[i] = To(next) /\ ~Blocked(i, kinds)
      \/ imp'[i] = To("failed")
  BY <1>1, <1>2
<1> QED
  BY <1>3, <1>4 DEF Gate, At

(* A gate that lets the import through refuses nothing of its kinds. *)
LEMMA GatesOwn ==
  ASSUME OwnInv, NEW i \in Imports, ImportInv(i),
         \/ _preflight_proxmox_storage(i) \/ _builtin_doctor(i)
         \/ _prepare_ova(i) \/ _inspection(i) \/ _convert_vmware(i)
         \/ _preflight_proxmox_bridges(i)
  PROVE  Own(i)
<1> DEFINE Passed(pc, kinds, next) ==
      /\ imp[i].pc = pc
      /\ imp'[i].pc = "failed" \/ (imp'[i].pc = next /\ ~Blocked(i, kinds))
      /\ imp'[i].mode = imp[i].mode /\ imp'[i].k = imp[i].k
      /\ imp'[i].leak = imp[i].leak
      /\ UNCHANGED <<problems, vms, files>>
<1>1. ASSUME NEW pc, NEW kinds, NEW next \in Pcs, Gate(i, pc, kinds, next)
      PROVE  Passed(pc, kinds, next)
  BY <1>1, GateFields DEF Rest
<1>2. {"tools", "ova", "inspect", "convert", "bridges", "number"} \subseteq Pcs
  BY DEF Pcs
<1>3. \/ Passed("storage", StorageProblems, "tools")
      \/ Passed("tools", ToolProblems, "ova")
      \/ Passed("ova", OvfProblems \cup ConnectionProblems, "inspect")
      \/ Passed("inspect", GuestProblems \cup FirmwareProblems, "convert")
      \/ Passed("convert", BundleProblems \cup NicProblems, "bridges")
      \/ Passed("bridges",
                UNION {StorageProblems, MappingProblems, BridgeProblems},
                "number")
  <2> HIDE DEF Passed
  <2>1. UNION {StorageProblems, MappingProblems, BridgeProblems}
          = StorageProblems \cup MappingProblems \cup BridgeProblems
    OBVIOUS
  <2> QED
    BY <1>1, <1>2, <2>1
    DEF _preflight_proxmox_storage, _builtin_doctor, _prepare_ova,
        _inspection, _convert_vmware, _preflight_proxmox_bridges
<1>4. \A kinds : Blocked(i, kinds)' <=> Blocked(i, kinds)
  BY <1>3 DEF Blocked
<1>5. ~Blocked(i, UNION {StorageProblems, MappingProblems, BridgeProblems})
        => ~Blocked(i, MappingProblems \cup BridgeProblems)
  BY DEF Blocked
<1>6. Gates(i)
  BY DEF ImportInv
<1>7. Gates(i)'
  BY <1>3, <1>4, <1>5, <1>6 DEF Gates, Refused
<1>8. /\ imp[i].pc \in Early /\ imp'[i].pc \in Early \cup {"failed"}
      /\ imp'[i].k = imp[i].k /\ imp'[i].leak = imp[i].leak
      /\ vms' = vms /\ files' = files
  BY <1>3 DEF Early
<1> QED
  BY <1>7, <1>8, EarlyOwn

(* plan chooses the way the import goes. *)
LEMMA PlanOwn ==
  ASSUME OwnInv, NEW i \in Imports, ImportInv(i),
         Plan(i) \/ ProviderRefuses(i) \/ ChooseVmid(i) \/ CheckVmid(i)
  PROVE  Own(i)
<1>1. imp[i] \in ExecOf(BOOLEAN) /\ imp \in [Imports -> Execution]
  BY Flags DEF OwnInv, OwnTypes
<1> DEFINE To(to) == [imp[i] EXCEPT !.pc = to]
           Mode(to, mode) == [imp[i] EXCEPT !.pc = to, !.mode = mode]
           Number(to, v) == [imp[i] EXCEPT !.pc = to, !.vmid = v]
<1>2. /\ \A to : /\ To(to).pc = to /\ To(to).mode = imp[i].mode
                 /\ To(to).k = imp[i].k /\ To(to).leak = imp[i].leak
      /\ \A to, mode : /\ Mode(to, mode).pc = to /\ Mode(to, mode).mode = mode
                       /\ Mode(to, mode).k = imp[i].k
                       /\ Mode(to, mode).leak = imp[i].leak
      /\ \A to, v : /\ Number(to, v).pc = to
                    /\ Number(to, v).mode = imp[i].mode
                    /\ Number(to, v).k = imp[i].k
                    /\ Number(to, v).leak = imp[i].leak
  BY <1>1, PcFields, ModeFields, VmidFields DEF Rest
<1>3. /\ imp'[i].k = imp[i].k /\ imp'[i].leak = imp[i].leak
      /\ UNCHANGED <<problems, vms, files>>
      /\ imp'[i].mode = "provider" \/ imp'[i].mode = imp[i].mode
      /\ \/ /\ imp[i].pc = "plan"
            /\ \/ /\ imp'[i].pc = "storage" /\ imp'[i].mode = imp[i].mode
                  /\ ~Blocked(i, PlanProblems \cup TransportProblems)
               \/ /\ imp'[i].pc = "provider" /\ imp'[i].mode = "provider"
                  /\ ~Blocked(i, PlanProblems)
               \/ imp'[i].pc = "failed" /\ imp'[i].mode = imp[i].mode
         \/ /\ imp[i].pc \in {"provider", "number", "check"}
            /\ imp'[i].mode = imp[i].mode
            /\ \/ imp'[i].pc = "failed"
               \/ /\ imp[i].pc \in {"number", "check"}
                  /\ imp'[i].pc \in {"check", "create"}
  <2>1. CASE Plan(i)
    <3>1. \/ /\ imp' = [imp EXCEPT ![i] = To("storage")]
             /\ ~Blocked(i, PlanProblems \cup TransportProblems)
          \/ /\ imp' = [imp EXCEPT ![i] = Mode("provider", "provider")]
             /\ ~Blocked(i, PlanProblems)
          \/ imp' = [imp EXCEPT ![i] = To("failed")]
      BY <1>1, <2>1 DEF Plan, Goto
    <3> HIDE DEF To, Mode
    <3> QED
      BY <1>1, <1>2, <2>1, <3>1 DEF Plan, At
  <2>2. CASE ProviderRefuses(i)
    <3>1. imp' = [imp EXCEPT ![i] = To("failed")]
      BY <1>1, <2>2 DEF ProviderRefuses, Goto
    <3> HIDE DEF To
    <3> QED
      BY <1>1, <1>2, <2>2, <3>1 DEF ProviderRefuses, At
  <2>3. CASE ChooseVmid(i)
    <3>1. PICK v \in Vmids : imp' = [imp EXCEPT ![i] = Number("check", v)]
      BY <1>1, <2>3 DEF ChooseVmid
    <3>2. imp'[i] = Number("check", v)
      BY <1>1, <3>1
    <3>3. /\ imp'[i].pc = "check" /\ imp'[i].mode = imp[i].mode
          /\ imp'[i].k = imp[i].k /\ imp'[i].leak = imp[i].leak
      BY <1>1, <3>2 DEF ExecOf
    <3> QED
      BY <2>3, <3>3 DEF ChooseVmid, At
  <2>4. CASE CheckVmid(i)
    <3>1. \E to \in {"create", "failed"} : imp' = [imp EXCEPT ![i] = To(to)]
      <4>1. \/ imp' = [imp EXCEPT ![i] = To("create")]
            \/ imp' = [imp EXCEPT ![i] = To("failed")]
        BY <1>1, <2>4 DEF CheckVmid, Goto
      <4> HIDE DEF To
      <4> QED
        BY <4>1
    <3> HIDE DEF To
    <3> QED
      BY <1>1, <1>2, <2>4, <3>1 DEF CheckVmid, At
  <2> QED
    BY <2>1, <2>2, <2>3, <2>4
<1>4. /\ imp[i].pc \in Early /\ imp'[i].pc \in Early \cup {"failed"}
  BY <1>3 DEF Early
<1>5. \A kinds : Blocked(i, kinds)' <=> Blocked(i, kinds)
  BY <1>3 DEF Blocked
<1>6. ~Blocked(i, PlanProblems \cup TransportProblems)
        => ~Blocked(i, PlanProblems) /\ ~Blocked(i, TransportProblems)
  BY DEF Blocked
<1>7. Gates(i)' 
  <2>1. Gates(i) /\ imp[i].mode \in {"builtin", "provider"}
    BY <1>1 DEF ImportInv, ExecOf
  <2> QED
    BY <1>3, <1>5, <1>6, <2>1 DEF Gates, Refused
<1> QED
  BY <1>3, <1>4, <1>7, EarlyOwn

(* The provider's machine has every disk, and the code takes it only when  *)
(* the answer attests it.                                                  *)
LEMMA ProviderOwn ==
  ASSUME OwnInv, NEW i \in Imports, ImportInv(i), ProviderConvert(i)
  PROVE  Own(i)
<1>1. PICK v \in Vmids, attested \in BOOLEAN :
        /\ vms[v] = Nil
        /\ vms' = [vms EXCEPT ![v] = [owner |-> i, virtio |-> Disks(i),
                                      unused |-> <<>>, boot |-> TRUE]]
        /\ imp' = [imp EXCEPT ![i].vmid = v, ![i].leak = ~attested,
                              ![i].pc = IF attested THEN "done" ELSE "failed"]
  BY Zenon DEF ProviderConvert
<1>2. imp[i].pc = "provider" /\ problems' = problems /\ files' = files
  BY DEF ProviderConvert, At
<1>3. imp[i] \in ExecOf(BOOLEAN) /\ imp \in [Imports -> Execution]
        /\ DOMAIN vms = Vmids
  BY Flags DEF OwnInv, OwnTypes
<1> DEFINE pc == IF attested THEN "done" ELSE "failed"
           leak == ~attested
           new == [imp[i] EXCEPT !.vmid = v, !.leak = leak, !.pc = pc]
<1>4. imp' = [imp EXCEPT ![i] = new]
  BY <1>1, <1>3
<1>5. /\ new.pc = pc /\ new.mode = imp[i].mode /\ new.vmid = v
      /\ new.leak = leak
  <2> HIDE DEF pc, leak
  <2> QED
    BY <1>3 DEF ExecOf
<1>6. vms'[v] = Full(i) /\ \A w \in Vmids \ {v} : vms'[w] = vms[w]
  <2> DEFINE m == [owner |-> i, virtio |-> Disks(i), unused |-> <<>>,
                   boot |-> TRUE]
  <2>1. m = Full(i)
    BY MadeEmpty, Zenon DEF Full
  <2>2. vms' = [vms EXCEPT ![v] = m]
    BY <1>1
  <2> HIDE DEF m
  <2> QED
    BY <1>3, <2>1, <2>2
<1> HIDE DEF new
<1>7. /\ imp'[i].pc = pc /\ imp'[i].mode = imp[i].mode
      /\ imp'[i].vmid = v /\ imp'[i].leak = leak
  BY <1>3, <1>4, <1>5
<1>8. imp'[i].pc \in {"done", "failed"} /\ (imp'[i].pc = "done" <=> attested)
  BY <1>7
<1>9. Stage(i)'
  BY <1>6, <1>7, <1>8 DEF Stage, Full
<1>10. FlagsInv(i)'
  BY <1>8 DEF FlagsInv, Building, Early, Final
<1>11. Tidy(i)'
  <2>1. ~imp[i].leak
    BY <1>2 DEF ImportInv, FlagsInv, Final
  <2>2. \A f \in Vmids \X (1..NDisks) : ~(files[f] # Nil /\ files[f][1] = i)
    BY <1>2, <2>1 DEF ImportInv, Tidy, Building
  <2>3. ~imp'[i].leak => imp'[i].pc = "done"
    BY <1>7, <1>8
  <2> QED
    BY <1>2, <2>2, <2>3 DEF Tidy
<1>12. Gates(i)'
  <2>1. \A kinds : Blocked(i, kinds)' <=> Blocked(i, kinds)
    BY <1>2 DEF Blocked
  <2>2. Gates(i) /\ imp[i].mode \in {"builtin", "provider"}
    BY <1>3 DEF ImportInv, ExecOf
  <2>3. imp'[i].mode = "provider" /\ ~Blocked(i, PlanProblems)
    BY <1>2, <1>7, <2>2 DEF Gates, Refused
  <2> QED
    BY <1>8, <2>1, <2>3 DEF Gates
<1> QED
  BY <1>9, <1>10, <1>11, <1>12 DEF Own

(* qm create: the machine is new, and only its success sets the flag.      *)
LEMMA CreateOwn ==
  ASSUME OwnInv, NEW i \in Imports, ImportInv(i), Create(i)
  PROVE  Own(i)
<1> DEFINE m == [owner |-> i, virtio |-> <<>>, unused |-> <<>>,
                 boot |-> FALSE]
           New(pc, ok, err, leak) ==
             [imp[i] EXCEPT !.pc = pc, !.created = ok, !.err = err,
                            !.leak = leak]
<1>1. /\ imp[i] \in ExecOf(BOOLEAN) /\ imp \in [Imports -> Execution]
      /\ DOMAIN vms = Vmids
  BY Flags DEF OwnInv, OwnTypes
<1>2. /\ imp[i].pc = "create" /\ imp[i].vmid \in Vmids /\ files' = files
      /\ problems' = problems
  BY DEF Create, At, OwnInv, Progress
<1>3. \/ /\ imp' = [imp EXCEPT ![i] = New("efi", TRUE, FALSE, FALSE)]
         /\ vms' = [vms EXCEPT ![imp[i].vmid] = m]
      \/ imp' = [imp EXCEPT ![i] = New("remove", FALSE, TRUE, FALSE)] /\ vms' = vms
      \/ imp' = [imp EXCEPT ![i] = New("remove", FALSE, TRUE, TRUE)]
  BY <1>1 DEF Create, CreatedFlag, Mine
<1>4. ASSUME NEW pc, NEW ok, NEW err, NEW leak,
             imp' = [imp EXCEPT ![i] = New(pc, ok, err, leak)]
      PROVE  /\ imp'[i].pc = pc /\ imp'[i].created = ok /\ imp'[i].err = err
             /\ imp'[i].leak = leak /\ imp'[i].mode = imp[i].mode
             /\ imp'[i].vmid = imp[i].vmid /\ imp'[i].k = imp[i].k
  BY <1>1, <1>4 DEF ExecOf
<1>5. m = Made(i, 0, <<>>, FALSE)
  BY MadeEmpty
<1> HIDE DEF New, m
<1>6. /\ imp'[i].mode = imp[i].mode /\ imp'[i].vmid = imp[i].vmid
      /\ imp'[i].k = imp[i].k
      /\ \/ /\ imp'[i].pc = "efi" /\ imp'[i].created /\ ~imp'[i].err
            /\ ~imp'[i].leak /\ vms' = [vms EXCEPT ![imp[i].vmid] = m]
         \/ /\ imp'[i].pc = "remove" /\ imp'[i].err
            /\ vms' = vms \/ imp'[i].leak
  <2>1. CASE /\ imp' = [imp EXCEPT ![i] = New("efi", TRUE, FALSE, FALSE)]
             /\ vms' = [vms EXCEPT ![imp[i].vmid] = m]
    BY <1>4, <2>1
  <2>2. CASE /\ imp' = [imp EXCEPT ![i] = New("remove", FALSE, TRUE, FALSE)]
             /\ vms' = vms
    BY <1>4, <2>2
  <2>3. CASE imp' = [imp EXCEPT ![i] = New("remove", FALSE, TRUE, TRUE)]
    BY <1>4, <2>3
  <2> QED
    BY <1>3, <2>1, <2>2, <2>3
<1>7. imp[i].k = 0 /\ ~imp[i].leak
  BY <1>2 DEF ImportInv, FlagsInv, Early, Final
<1>8. Stage(i)'
  BY <1>1, <1>2, <1>5, <1>6 DEF Stage
<1>9. FlagsInv(i)'
  BY <1>6, <1>7 DEF FlagsInv, Building, Early, Final
<1>10. Tidy(i)'
  <2>1. /\ \A f \in Vmids \X (1..NDisks) : ~(files[f] # Nil /\ files[f][1] = i)
        /\ \A v \in Vmids : ~(vms[v] # Nil /\ vms[v].owner = i)
    BY <1>2, <1>7 DEF ImportInv, Tidy, Building
  <2>2. CASE imp'[i].pc = "efi"
    <3>1. \A v \in Vmids \ {imp[i].vmid} : vms'[v] = vms[v]
      BY <1>1, <1>6, <2>2
    <3> QED
      BY <1>2, <1>6, <2>1, <2>2, <3>1 DEF Tidy, Building
  <2>3. CASE imp'[i].pc # "efi"
    BY <1>2, <1>6, <2>1, <2>3 DEF Tidy
  <2> QED
    BY <2>2, <2>3
<1>11. Gates(i)'
  BY <1>1, <1>2, <1>6, GatesStay DEF ImportInv
<1> QED
  BY <1>8, <1>9, <1>10, <1>11 DEF Own

(* A command that succeeds on the machine. *)
LEMMA BuildOwn ==
  ASSUME OwnInv, NEW i \in Imports, ImportInv(i),
         imp[i].pc \in Building \ {"destroy"},
         imp'[i].pc \in Building \ {"efi", "destroy"}, Rest(imp'[i], imp[i]),
         imp'[i].err = imp[i].err, imp'[i].leak = imp[i].leak,
         imp'[i].k \in 0..NDisks, imp[i].k <= imp'[i].k,
         files' = files, problems' = problems,
         \A v \in Vmids \ {imp[i].vmid} : vms'[v] = vms[v],
         Stage(i)'
  PROVE  Own(i)
<1>1. Tidy(i)'
  BY TidyStays DEF ImportInv, Rest
<1>2. FlagsInv(i)'
  BY DEF ImportInv, FlagsInv, Building, Early, Final, Rest
<1>3. Gates(i)'
  BY GatesStay DEF ImportInv, OwnInv, OwnTypes, Building, Rest
<1> QED
  BY <1>1, <1>2, <1>3 DEF Own

LEMMA EfiOwn ==
  ASSUME OwnInv, NEW i \in Imports, ImportInv(i), SetEfi(i)
  PROVE  Own(i)
<1> DEFINE new == [imp[i] EXCEPT !.pc = "copy", !.k = 1]
<1>1. imp[i] \in ExecOf(BOOLEAN) /\ imp \in [Imports -> Execution]
  BY Flags DEF OwnInv, OwnTypes
<1>2. /\ imp' = [imp EXCEPT ![i] = new] /\ imp[i].pc = "efi"
      /\ UNCHANGED <<problems, vms, files>>
  BY <1>1 DEF SetEfi, At
<1>3. /\ new.pc = "copy" /\ new.k = 1 /\ Rest(new, imp[i])
      /\ new.err = imp[i].err /\ new.leak = imp[i].leak
  BY <1>1 DEF ExecOf, Rest
<1> HIDE DEF new
<1>4. imp'[i] = new
  BY <1>1, <1>2
<1>5. imp[i].k = 0 /\ 1 \in 0..NDisks
  BY <1>2, V2VAssumption DEF ImportInv, FlagsInv
<1>6. Stage(i)'
  <2>1. vms[imp[i].vmid] = Made(i, 0, <<>>, FALSE)
    BY <1>2 DEF ImportInv, Stage
  <2>2. 1 - 1 = 0
    OBVIOUS
  <2> QED
    BY <1>2, <1>3, <1>4, <2>1, <2>2 DEF Stage, Rest
<1> QED
  BY <1>2, <1>3, <1>4, <1>5, <1>6, BuildOwn DEF Building

(* scp: the path carries the import's own number, which is its own. *)
LEMMA CopyOwn ==
  ASSUME OwnInv, NEW i \in Imports, ImportInv(i), CopyDisk(i)
  PROVE  Own(i)
<1> DEFINE new == [imp[i] EXCEPT !.pc = "import"]
           path == Remote(imp[i].vmid, imp[i].k)
<1>1. imp[i] \in ExecOf(BOOLEAN) /\ imp \in [Imports -> Execution]
        /\ files \in [Vmids \X (1..NDisks) -> Images \cup {Nil}]
  BY Flags DEF OwnInv, OwnTypes
<1>2. /\ imp' = [imp EXCEPT ![i] = new] /\ imp[i].pc = "copy"
      /\ UNCHANGED <<problems, vms>>
      /\ files' = [files EXCEPT ![path] = <<i, imp[i].k>>]
  BY <1>1 DEF CopyDisk, At, Goto
<1>3. /\ new.pc = "import" /\ new.k = imp[i].k /\ Rest(new, imp[i])
      /\ new.err = imp[i].err /\ new.leak = imp[i].leak
  BY <1>1 DEF ExecOf, Rest
<1> HIDE DEF new
<1>4. imp'[i] = new
  BY <1>1, <1>2
<1>5. imp[i].k \in 1..NDisks /\ imp[i].vmid \in Vmids
  BY <1>2 DEF OwnInv, Progress, Building
<1>6. path \in Vmids \X (1..NDisks) /\ path \in Used(i)
  <2>1. imp[i].k \in 1..imp[i].k
    BY <1>5, V2VAssumption
  <2> QED
    BY <1>5, <2>1 DEF Remote, Used
<1>7. files'[path] = <<i, imp[i].k>>
        /\ \A f \in Vmids \X (1..NDisks) : f # path => files'[f] = files[f]
  BY <1>1, <1>2, <1>6
<1>8. /\ imp'[i].pc = "import" /\ imp'[i].k = imp[i].k
      /\ imp'[i].vmid = imp[i].vmid /\ imp'[i].mode = imp[i].mode
      /\ imp'[i].created = imp[i].created /\ imp'[i].err = imp[i].err
      /\ imp'[i].leak = imp[i].leak
  BY <1>3, <1>4 DEF Rest
<1>9. Stage(i)'
  <2>1. vms[imp[i].vmid] = Made(i, imp[i].k - 1, <<>>, FALSE)
    BY <1>2 DEF ImportInv, Stage
  <2>2. files'[Remote(imp[i].vmid, imp[i].k)] = <<i, imp[i].k>>
    BY <1>7
  <2> QED
    BY <1>2, <1>8, <2>1, <2>2 DEF Stage
<1>10. FlagsInv(i)'
  BY <1>2, <1>8 DEF ImportInv, FlagsInv, Building, Early, Final
<1>11. Tidy(i)'
  <2>1. Used(i)' = Used(i)
    BY <1>8 DEF Used
  <2>2. Tidy(i)
    BY DEF ImportInv
  <2> HIDE DEF path
  <2> QED
    BY <1>2, <1>6, <1>7, <1>8, <2>1, <2>2 DEF Tidy, Building
<1>12. Gates(i)'
  BY <1>1, <1>2, <1>8, GatesStay DEF ImportInv, Building
<1> QED
  BY <1>9, <1>10, <1>11, <1>12 DEF Own

(* qm importdisk: the image is the import's own disk. *)
LEMMA ImportOwn ==
  ASSUME OwnInv, NEW i \in Imports, ImportInv(i), ImportDisk(i)
  PROVE  Own(i)
<1> DEFINE new == [imp[i] EXCEPT !.pc = "detach"]
           v == imp[i].vmid
           k == imp[i].k
           image == files[Remote(v, k)]
           m == [vms[v] EXCEPT !.unused = Append(vms[v].unused, image)]
<1>1. imp[i] \in ExecOf(BOOLEAN) /\ imp \in [Imports -> Execution]
        /\ DOMAIN vms = Vmids
  BY Flags DEF OwnInv, OwnTypes
<1>2. /\ imp[i].pc = "import" /\ image # Nil /\ UNCHANGED <<problems, files>>
      /\ imp' = [imp EXCEPT ![i] = new]
      /\ v \in Vmids /\ k \in 1..NDisks
  BY <1>1 DEF ImportDisk, At, Goto, OwnInv, Progress, Building
<1>3. vms' = [vms EXCEPT ![v] = m]
  BY <1>1, <1>2 DEF ImportDisk
<1>4. /\ new.pc = "detach" /\ new.k = k /\ Rest(new, imp[i])
      /\ new.err = imp[i].err /\ new.leak = imp[i].leak
  BY <1>1 DEF ExecOf, Rest
<1> HIDE DEF new
<1>5. imp'[i] = new
  BY <1>1, <1>2
<1>6. vms[v] = Made(i, k - 1, <<>>, FALSE) /\ image = <<i, k>>
  BY <1>2 DEF ImportInv, Stage
<1> DEFINE n == k - 1
<1>7. m = Made(i, n, << <<i, k>> >>, FALSE)
  <2>1. Append(<<>>, <<i, k>>) = << <<i, k>> >>
    OBVIOUS
  <2>2. vms[v].unused = <<>>
    BY <1>6 DEF Made
  <2> DEFINE u == << <<i, k>> >>
  <2>3. m = [Made(i, n, <<>>, FALSE) EXCEPT !.unused = u]
    <3> HIDE DEF k, v, image
    <3> QED
      BY <1>6, <2>1, <2>2, Zenon
  <2>4. [Made(i, n, <<>>, FALSE) EXCEPT !.unused = u] = Made(i, n, u, FALSE)
    <3> DEFINE off == FALSE
    <3> HIDE DEF u, n, off
    <3>1. [Made(i, n, <<>>, off) EXCEPT !.unused = u] = Made(i, n, u, off)
      BY MadeUnused
    <3> QED
      BY <3>1, Zenon DEF off
  <2>5. m = Made(i, n, u, FALSE)
    BY <2>3, <2>4, Zenon
  <2> QED
    BY <2>5
<1> HIDE DEF m
<1>8. vms'[v] = m /\ \A w \in Vmids \ {v} : vms'[w] = vms[w]
  BY <1>1, <1>2, <1>3
<1>9. Stage(i)'
  BY <1>4, <1>5, <1>7, <1>8 DEF Stage, Rest
<1> QED
  BY <1>1, <1>2, <1>4, <1>5, <1>8, <1>9, BuildOwn DEF Building, ExecOf

(* The entry that is detached is the only unused one: the import's own.    *)
LEMMA DetachOwn ==
  ASSUME OwnInv, NEW i \in Imports, ImportInv(i), DetachUnused(i)
  PROVE  Own(i)
<1> DEFINE v == imp[i].vmid
           k == imp[i].k
           n == k - 1
           used == vms[v].unused
           m == [vms[v] EXCEPT !.unused = SubSeq(used, 1, Len(used) - 1)]
           new == [imp[i] EXCEPT !.pc = "attach", !.volume = _unused_volume(used)]
<1>1. imp[i] \in ExecOf(BOOLEAN) /\ imp \in [Imports -> Execution]
        /\ DOMAIN vms = Vmids
  BY Flags DEF OwnInv, OwnTypes
<1>2. /\ imp[i].pc = "detach" /\ UNCHANGED <<problems, files>>
      /\ imp' = [imp EXCEPT ![i] = new]
      /\ v \in Vmids /\ k \in 1..NDisks
  BY <1>1 DEF DetachUnused, Mine, At, OwnInv, Progress, Building
<1>3. vms' = [vms EXCEPT ![v] = m]
  BY <1>1, <1>2 DEF DetachUnused
<1>4. /\ new.pc = "attach" /\ new.k = k /\ Rest(new, imp[i])
      /\ new.err = imp[i].err /\ new.leak = imp[i].leak
      /\ new.volume = _unused_volume(used)
  BY <1>1 DEF ExecOf, Rest
<1> HIDE DEF new
<1>5. imp'[i] = new
  BY <1>1, <1>2
<1> DEFINE u == << <<i, k>> >>
<1>6. vms[v] = Made(i, n, u, FALSE)
  BY <1>2 DEF ImportInv, Stage
<1>7. used = u
  BY <1>6 DEF Made
<1>8. _unused_volume(used) = <<i, k>>
  <2>1. Len(u) = 1 /\ u[1] = <<i, k>>
    OBVIOUS
  <2> QED
    BY <1>7, <2>1 DEF _unused_volume
<1>9. SubSeq(used, 1, Len(used) - 1) = <<>>
  <2>1. Len(u) - 1 = 0 /\ u \in Seq({<<i, k>>})
    OBVIOUS
  <2> HIDE DEF u
  <2>2. SubSeq(u, 1, 0) = <<>>
    BY <2>1
  <2> QED
    BY <1>7, <2>1, <2>2
<1>10. m = Made(i, n, <<>>, FALSE)
  <2> DEFINE off == FALSE
             rest == SubSeq(used, 1, Len(used) - 1)
  <2> HIDE DEF off, n, u, rest
  <2>1. [Made(i, n, u, off) EXCEPT !.unused = rest] = Made(i, n, rest, off)
    BY MadeUnused
  <2>2. rest = <<>>
    BY <1>9 DEF rest
  <2>3. vms[v] = Made(i, n, u, off)
    BY <1>6, Zenon DEF off
  <2>4. m = [Made(i, n, u, off) EXCEPT !.unused = rest]
    BY <2>3, Zenon DEF rest
  <2>5. m = Made(i, n, <<>>, off)
    BY <2>1, <2>2, <2>4
  <2> QED
    BY <2>5, Zenon DEF off
<1> HIDE DEF m
<1>11. vms'[v] = m /\ \A w \in Vmids \ {v} : vms'[w] = vms[w]
  BY <1>1, <1>2, <1>3
<1>12. Stage(i)'
  BY <1>4, <1>5, <1>8, <1>10, <1>11 DEF Stage, Rest
<1> QED
  BY <1>1, <1>2, <1>4, <1>5, <1>11, <1>12, BuildOwn DEF Building, ExecOf

(* The disk is attached behind those before it. *)
LEMMA AttachOwn ==
  ASSUME OwnInv, NEW i \in Imports, ImportInv(i), AttachDisk(i)
  PROVE  Own(i)
<1> DEFINE v == imp[i].vmid
           k == imp[i].k
           n == k - 1
           m == [vms[v] EXCEPT !.virtio = Append(vms[v].virtio, imp[i].volume)]
           pc == IF LastDisk(k) THEN "boot" ELSE "copy"
           next == IF LastDisk(k) THEN k ELSE k + 1
           new == [imp[i] EXCEPT !.volume = Nil, !.pc = pc, !.k = next]
<1>1. imp[i] \in ExecOf(BOOLEAN) /\ imp \in [Imports -> Execution]
        /\ DOMAIN vms = Vmids
  BY Flags DEF OwnInv, OwnTypes
<1>2. /\ imp[i].pc = "attach" /\ UNCHANGED <<problems, files>>
      /\ imp' = [imp EXCEPT ![i] = new]
      /\ v \in Vmids /\ k \in 1..NDisks
  BY <1>1 DEF AttachDisk, At, OwnInv, Progress, Building
<1>3. vms' = [vms EXCEPT ![v] = m]
  BY <1>1, <1>2 DEF AttachDisk
<1>4. /\ new.pc = pc /\ new.k = next /\ Rest(new, imp[i])
      /\ new.err = imp[i].err /\ new.leak = imp[i].leak
  <2> HIDE DEF pc, next
  <2> QED
    BY <1>1 DEF ExecOf, Rest
<1> HIDE DEF new
<1>5. imp'[i] = new
  BY <1>1, <1>2
<1>6. vms[v] = Made(i, n, <<>>, FALSE) /\ imp[i].volume = <<i, k>>
  BY <1>2 DEF ImportInv, Stage
<1>7. n \in Nat /\ n + 1 = k
  BY <1>2, V2VAssumption
<1>8. m = Made(i, k, <<>>, FALSE)
  <2> DEFINE off == FALSE
             made == Made(i, n, <<>>, off)
             disk == <<i, n + 1>>
  <2> HIDE DEF off
  <2>1. [made EXCEPT !.virtio = Append(made.virtio, disk)]
          = Made(i, n + 1, <<>>, off)
    <3> HIDE DEF n
    <3> QED
      BY <1>7, MadeVirtio
  <2>2. vms[v] = made /\ imp[i].volume = disk
    BY <1>6, <1>7 DEF off
  <2> HIDE DEF made, disk
  <2>3. m = [made EXCEPT !.virtio = Append(made.virtio, disk)]
    BY <2>2, Zenon
  <2>4. m = Made(i, k, <<>>, off)
    BY <1>7, <2>1, <2>3
  <2> QED
    BY <2>4, Zenon DEF off
<1> HIDE DEF m
<1>9. vms'[v] = m /\ \A w \in Vmids \ {v} : vms'[w] = vms[w]
  BY <1>1, <1>2, <1>3
<1>10. /\ next \in 0..NDisks /\ k <= next
       /\ \/ pc = "boot" /\ k = NDisks
          \/ pc = "copy" /\ next - 1 = k
  BY <1>2, V2VAssumption DEF LastDisk
<1> HIDE DEF pc, next
<1>11. Stage(i)'
  BY <1>4, <1>5, <1>8, <1>9, <1>10 DEF Stage, Rest
<1> QED
  BY <1>1, <1>2, <1>4, <1>5, <1>9, <1>10, <1>11, BuildOwn DEF Building

LEMMA BootOwn ==
  ASSUME OwnInv, NEW i \in Imports, ImportInv(i), SetBoot(i)
  PROVE  Own(i)
<1> DEFINE v == imp[i].vmid
           m == [vms[v] EXCEPT !.boot = TRUE]
           new == [imp[i] EXCEPT !.pc = "validate"]
<1>1. imp[i] \in ExecOf(BOOLEAN) /\ imp \in [Imports -> Execution]
        /\ DOMAIN vms = Vmids
  BY Flags DEF OwnInv, OwnTypes
<1>2. /\ imp[i].pc = "boot" /\ UNCHANGED <<problems, files>>
      /\ imp' = [imp EXCEPT ![i] = new] /\ v \in Vmids
  BY <1>1 DEF SetBoot, At, Goto, OwnInv, Progress, Building
<1>3. vms' = [vms EXCEPT ![v] = m]
  BY <1>1, <1>2 DEF SetBoot
<1>4. /\ new.pc = "validate" /\ new.k = imp[i].k /\ Rest(new, imp[i])
      /\ new.err = imp[i].err /\ new.leak = imp[i].leak
  BY <1>1 DEF ExecOf, Rest
<1> HIDE DEF new
<1>5. imp'[i] = new
  BY <1>1, <1>2
<1>6. vms[v] = Made(i, NDisks, <<>>, FALSE)
  BY <1>2 DEF ImportInv, Stage
<1>7. m = Full(i)
  <2> DEFINE off == FALSE
             on == TRUE
  <2> HIDE DEF off, on
  <2>1. [Made(i, NDisks, <<>>, off) EXCEPT !.boot = on] = Made(i, NDisks, <<>>, on)
    BY MadeBoot
  <2>2. vms[v] = Made(i, NDisks, <<>>, off)
    BY <1>6, Zenon DEF off
  <2>3. m = [Made(i, NDisks, <<>>, off) EXCEPT !.boot = on]
    BY <2>2, Zenon DEF on
  <2>4. m = Made(i, NDisks, <<>>, on)
    BY <2>1, <2>3
  <2> QED
    BY <2>4, Zenon DEF on, Full
<1> HIDE DEF m
<1>8. vms'[v] = m /\ \A w \in Vmids \ {v} : vms'[w] = vms[w]
  BY <1>1, <1>2, <1>3
<1>9. imp[i].k \in 0..NDisks /\ imp[i].k <= imp[i].k
  BY <1>1, V2VAssumption DEF ExecOf
<1>10. Stage(i)'
  BY <1>2, <1>4, <1>5, <1>7, <1>8 DEF Stage, Full, Rest
<1> QED
  BY <1>1, <1>2, <1>4, <1>5, <1>8, <1>9, <1>10, BuildOwn DEF Building

(* The read-back sends the import to its cleanup of files only. *)
LEMMA ValidateOwn ==
  ASSUME OwnInv, NEW i \in Imports, ImportInv(i), Validate(i)
  PROVE  Own(i)
<1> DEFINE new == [imp[i] EXCEPT !.pc = "remove"]
<1>1. imp[i] \in ExecOf(BOOLEAN) /\ imp \in [Imports -> Execution]
  BY Flags DEF OwnInv, OwnTypes
<1>2. /\ imp[i].pc = "validate" /\ UNCHANGED <<problems, vms, files>>
      /\ imp' = [imp EXCEPT ![i] = new]
  BY <1>1 DEF Validate, At, Goto
<1>3. /\ new.pc = "remove" /\ new.k = imp[i].k /\ Rest(new, imp[i])
      /\ new.err = imp[i].err /\ new.leak = imp[i].leak
  BY <1>1 DEF ExecOf, Rest
<1> HIDE DEF new
<1>4. imp'[i] = new
  BY <1>1, <1>2
<1>5. ~imp[i].err /\ ~imp[i].leak
  BY <1>2 DEF ImportInv, FlagsInv, Building, Final
<1>6. Stage(i)'
  <2>1. imp[i].vmid \in Vmids /\ vms[imp[i].vmid] = Full(i)
    BY <1>2 DEF ImportInv, Stage
  <2> QED
    BY <1>2, <1>3, <1>4, <2>1 DEF Stage, Full, Rest
<1>7. imp[i].k \in 0..NDisks /\ imp[i].k <= imp[i].k
  BY <1>1, V2VAssumption DEF ExecOf
<1>8. Tidy(i)'
  BY <1>2, <1>3, <1>4, <1>5, <1>7, TidyStays DEF ImportInv, Rest, Building
<1>9. FlagsInv(i)'
  BY <1>3, <1>4 DEF FlagsInv, Building, Early, Final
<1>10. Gates(i)'
  BY <1>1, <1>2, <1>3, <1>4, GatesStay DEF ImportInv, Building, Rest
<1> QED
  BY <1>6, <1>8, <1>9, <1>10 DEF Own

(* A command fails: the flag is set, so the machine is removed first. *)
LEMMA FailsOwn ==
  ASSUME OwnInv, NEW i \in Imports, ImportInv(i), CommandFails(i)
  PROVE  Own(i)
<1> DEFINE new == [imp[i] EXCEPT !.pc = "destroy", !.err = TRUE]
<1>1. imp[i] \in ExecOf(BOOLEAN) /\ imp \in [Imports -> Execution]
  BY Flags DEF OwnInv, OwnTypes
<1>2. imp[i].pc \in Building \ {"destroy"}
  BY DEF CommandFails, Building
<1>3. imp[i].created /\ ~imp[i].leak
  BY <1>2 DEF ImportInv, FlagsInv, Building, Final
<1>4. /\ UNCHANGED <<problems, vms, files>>
      /\ imp' = [imp EXCEPT ![i] = new]
  BY <1>1, <1>3 DEF CommandFails, OnFailure
<1>5. /\ new.pc = "destroy" /\ new.k = imp[i].k /\ Rest(new, imp[i])
      /\ new.err /\ new.leak = imp[i].leak
  BY <1>1 DEF ExecOf, Rest
<1> HIDE DEF new
<1>6. imp'[i] = new
  BY <1>1, <1>4
<1>7. Stage(i)'
  BY <1>5, <1>6 DEF Stage
<1>8. imp[i].k \in 0..NDisks /\ imp[i].k <= imp[i].k
  BY <1>1, V2VAssumption DEF ExecOf
<1>9. Tidy(i)'
  BY <1>2, <1>4, <1>5, <1>6, <1>8, TidyStays DEF ImportInv, Rest, Building
<1>10. FlagsInv(i)'
  BY <1>3, <1>5, <1>6 DEF FlagsInv, Building, Early, Final, Rest
<1>11. Gates(i)'
  BY <1>1, <1>2, <1>4, <1>5, <1>6, GatesStay DEF ImportInv, Building, Rest
<1> QED
  BY <1>7, <1>9, <1>10, <1>11 DEF Own

(* A dead process leaves whatever was there. *)
LEMMA CrashOwn ==
  ASSUME OwnInv, NEW i \in Imports, ImportInv(i), Crash(i)
  PROVE  Own(i)
<1> DEFINE new == [imp[i] EXCEPT !.pc = "dead", !.leak = TRUE]
<1>1. imp[i] \in ExecOf(BOOLEAN) /\ imp \in [Imports -> Execution]
  BY Flags DEF OwnInv, OwnTypes
<1>2. problems' = problems /\ imp' = [imp EXCEPT ![i] = new]
        /\ imp[i].pc \notin {"done", "failed", "dead"}
  BY <1>1 DEF Crash
<1>3. new.pc = "dead" /\ new.leak /\ new.mode = imp[i].mode
  BY <1>1 DEF ExecOf
<1> HIDE DEF new
<1>4. imp'[i] = new
  BY <1>1, <1>2
<1>5. Stage(i)' /\ Tidy(i)'
  BY <1>3, <1>4 DEF Stage, Tidy
<1>6. FlagsInv(i)'
  BY <1>3, <1>4 DEF FlagsInv, Building, Early, Final
<1>7. Gates(i)'
  BY <1>3, <1>4 DEF Gates, Refused
<1> QED
  BY <1>5, <1>6, <1>7 DEF Own

(* qm destroy. *)
LEMMA DestroyOwn ==
  ASSUME OwnInv, NEW i \in Imports, ImportInv(i), Destroy(i)
  PROVE  Own(i)
<1> DEFINE plain == [imp[i] EXCEPT !.pc = "remove"]
           leaky == [imp[i] EXCEPT !.pc = "remove", !.leak = TRUE]
<1>1. imp[i] \in ExecOf(BOOLEAN) /\ imp \in [Imports -> Execution]
        /\ DOMAIN vms = Vmids
  BY Flags DEF OwnInv, OwnTypes
<1>2. imp[i].pc = "destroy" /\ UNCHANGED <<problems, files>>
  BY DEF Destroy, At
<1>3. \/ /\ vms' = [vms EXCEPT ![imp[i].vmid] = Nil]
         /\ imp' = [imp EXCEPT ![i] = plain]
      \/ imp' = [imp EXCEPT ![i] = leaky]
  BY <1>1 DEF Destroy, Goto
<1>4. /\ plain.pc = "remove" /\ plain.k = imp[i].k /\ plain.err = imp[i].err
      /\ plain.leak = imp[i].leak /\ Rest(plain, imp[i])
  BY <1>1 DEF ExecOf, Rest
<1>5. /\ leaky.pc = "remove" /\ leaky.err = imp[i].err /\ leaky.leak
      /\ Rest(leaky, imp[i])
  BY <1>1 DEF ExecOf, Rest
<1>6. imp[i].err /\ imp[i].vmid \in Vmids
  BY <1>2 DEF ImportInv, FlagsInv, OwnInv, Progress, Building
<1> HIDE DEF plain, leaky
<1>7. /\ imp'[i].pc = "remove" /\ imp'[i].err /\ imp'[i].mode = imp[i].mode
      /\ \/ imp'[i].leak
         \/ /\ imp'[i].k = imp[i].k /\ imp'[i].vmid = imp[i].vmid
            /\ imp'[i].leak = imp[i].leak
            /\ vms' = [vms EXCEPT ![imp[i].vmid] = Nil]
  <2>1. CASE /\ vms' = [vms EXCEPT ![imp[i].vmid] = Nil]
             /\ imp' = [imp EXCEPT ![i] = plain]
    BY <1>1, <1>4, <1>6, <2>1 DEF Rest
  <2>2. CASE imp' = [imp EXCEPT ![i] = leaky]
    BY <1>1, <1>5, <1>6, <2>2 DEF Rest
  <2> QED
    BY <1>3, <2>1, <2>2
<1>8. Stage(i)'
  BY <1>7 DEF Stage
<1>9. FlagsInv(i)'
  BY <1>7 DEF FlagsInv, Building, Early, Final
<1>10. Tidy(i)'
  <2> SUFFICES ASSUME ~imp'[i].leak PROVE Tidy(i)'
    BY DEF Tidy
  <2>1. /\ imp'[i].k = imp[i].k /\ imp'[i].vmid = imp[i].vmid
        /\ ~imp[i].leak /\ vms' = [vms EXCEPT ![imp[i].vmid] = Nil]
    BY <1>7
  <2>2. Used(i)' = Used(i)
    BY <2>1 DEF Used
  <2>3. /\ \A f \in Vmids \X (1..NDisks) : files[f] # Nil /\ files[f][1] = i =>
             f \in Used(i)
        /\ \A v \in Vmids : vms[v] # Nil /\ vms[v].owner = i => v = imp[i].vmid
    BY <1>2, <2>1 DEF ImportInv, Tidy
  <2>4. \A v \in Vmids : ~(vms'[v] # Nil /\ vms'[v].owner = i)
    BY <1>1, <1>6, <2>1, <2>3
  <2> QED
    BY <1>2, <1>7, <2>2, <2>3, <2>4 DEF Tidy
<1>11. Gates(i)'
  BY <1>1, <1>2, <1>7, GatesStay DEF ImportInv, Building
<1> QED
  BY <1>8, <1>9, <1>10, <1>11 DEF Own

(* The finally clause. *)
LEMMA RemoveOwn ==
  ASSUME OwnInv, NEW i \in Imports, ImportInv(i), RemoveFiles(i)
  PROVE  Own(i)
<1> DEFINE end == IF imp[i].err THEN "failed" ELSE "done"
           plain == [imp[i] EXCEPT !.pc = end]
           leaky(as) == [imp[i] EXCEPT !.pc = as, !.leak = TRUE]
<1>1. /\ imp[i] \in ExecOf(BOOLEAN) /\ imp \in [Imports -> Execution]
      /\ files \in [Vmids \X (1..NDisks) -> Images \cup {Nil}]
  BY Flags DEF OwnInv, OwnTypes
<1>2. imp[i].pc = "remove" /\ UNCHANGED <<problems, vms>>
  BY DEF RemoveFiles, At
<1>3. \/ /\ files' = [f \in Vmids \X (1..NDisks) |->
                        IF f \in Used(i) THEN Nil ELSE files[f]]
         /\ imp' = [imp EXCEPT ![i] = plain]
      \/ \E as \in {end, "failed"} : imp' = [imp EXCEPT ![i] = leaky(as)]
  <2>1. DOMAIN files = Vmids \X (1..NDisks)
    BY <1>1
  <2> QED
    BY <1>1, <2>1 DEF RemoveFiles, Goto, Used
<1>4. end \in {"failed", "done"} /\ (end = "done" <=> ~imp[i].err)
  OBVIOUS
<1> HIDE DEF end
<1>5. /\ plain.pc = end /\ plain.leak = imp[i].leak /\ Rest(plain, imp[i])
      /\ \A as \in {end, "failed"} :
           leaky(as).pc = as /\ leaky(as).leak /\ Rest(leaky(as), imp[i])
  BY <1>1 DEF ExecOf, Rest
<1> HIDE DEF plain, leaky
<1>6. /\ imp'[i].pc \in {end, "failed"} /\ imp'[i].vmid = imp[i].vmid
      /\ imp'[i].mode = imp[i].mode
      /\ \/ imp'[i].leak
         \/ /\ imp'[i].pc = end
            /\ imp'[i].leak = imp[i].leak
            /\ files' = [f \in Vmids \X (1..NDisks) |->
                           IF f \in Used(i) THEN Nil ELSE files[f]]
  BY <1>1, <1>3, <1>5 DEF Rest
<1>7. Stage(i)'
  <2>1. end = "done" =>
          imp[i].vmid \in Vmids /\ vms[imp[i].vmid] = Full(i)
    BY <1>2, <1>4 DEF ImportInv, Stage
  <2> QED
    BY <1>2, <1>4, <1>6, <2>1 DEF Stage, Full
<1>8. FlagsInv(i)'
  BY <1>4, <1>6 DEF FlagsInv, Building, Early, Final
<1>9. Tidy(i)'
  <2> SUFFICES ASSUME ~imp'[i].leak PROVE Tidy(i)'
    BY DEF Tidy
  <2>1. /\ ~imp[i].leak
        /\ files' = [f \in Vmids \X (1..NDisks) |->
                       IF f \in Used(i) THEN Nil ELSE files[f]]
    BY <1>6
  <2>2. /\ \A f \in Vmids \X (1..NDisks) : files[f] # Nil /\ files[f][1] = i =>
             f \in Used(i)
        /\ \A v \in Vmids : vms[v] # Nil /\ vms[v].owner = i => ~imp[i].err
    BY <1>2, <2>1 DEF ImportInv, Tidy, Building
  <2>3. \A f \in Vmids \X (1..NDisks) : ~(files'[f] # Nil /\ files'[f][1] = i)
    BY <2>1, <2>2
  <2> QED
    BY <1>2, <1>4, <1>6, <2>2, <2>3 DEF Tidy
<1>10. Gates(i)'
  BY <1>1, <1>2, <1>4, <1>6, GatesStay DEF ImportInv
<1> QED
  BY <1>7, <1>8, <1>9, <1>10 DEF Own

(* One case per step of an import. *)
LEMMA StepOwn ==
  ASSUME OwnInv, NEW i \in Imports, ImportInv(i), Step(i)
  PROVE  Own(i)
<1>1. CASE Plan(i) \/ ProviderRefuses(i) \/ ChooseVmid(i) \/ CheckVmid(i)
  BY <1>1, PlanOwn
<1>2. CASE \/ _preflight_proxmox_storage(i) \/ _builtin_doctor(i)
           \/ _prepare_ova(i) \/ _inspection(i) \/ _convert_vmware(i)
           \/ _preflight_proxmox_bridges(i)
  BY <1>2, GatesOwn
<1>3. CASE ProviderConvert(i) \/ Create(i) \/ SetEfi(i) \/ CopyDisk(i)
  BY <1>3, ProviderOwn, CreateOwn, EfiOwn, CopyOwn
<1>4. CASE ImportDisk(i) \/ DetachUnused(i) \/ AttachDisk(i) \/ SetBoot(i)
  BY <1>4, ImportOwn, DetachOwn, AttachOwn, BootOwn
<1>5. CASE \/ Validate(i) \/ CommandFails(i) \/ Destroy(i) \/ RemoveFiles(i)
           \/ Crash(i)
  BY <1>5, ValidateOwn, FailsOwn, DestroyOwn, RemoveOwn, CrashOwn
<1> QED
  BY <1>1, <1>2, <1>3, <1>4, <1>5 DEF Step

(* Another client takes a free number: no import loses or gains a machine. *)
LEMMA ForeignInv ==
  ASSUME OwnInv, NEW i \in Imports, ImportInv(i), NEW v \in Vmids, ForeignCreate(v)
  PROVE  ImportInv(i)'
<1> DEFINE m == [owner |-> Foreign, virtio |-> <<>>, unused |-> <<>>,
                 boot |-> TRUE]
<1>1. vms[v] = Nil /\ UNCHANGED <<problems, imp, files>>
        /\ vms' = [vms EXCEPT ![v] = m]
  BY DEF ForeignCreate
<1>2. m.owner # i
  BY V2VAssumption
<1> HIDE DEF m
<1>3. vms'[v].owner # i /\ \A w \in Vmids \ {v} : vms'[w] = vms[w]
  BY <1>1, <1>2 DEF OwnInv, OwnTypes
<1>4. imp[i].pc \in Building => vms'[imp[i].vmid] = vms[imp[i].vmid]
  BY <1>1, <1>3 DEF OwnInv, Progress, Mine
<1>5. imp[i].vmid \in Vmids /\ vms[imp[i].vmid] = Full(i)
        => vms'[imp[i].vmid] = Full(i)
  BY <1>1, <1>3, FullTyped
<1>6. Stage(i)'
  <2>1. imp[i].pc \in {"efi", "copy", "import", "attach", "detach", "boot"}
          => vms'[imp[i].vmid] = vms[imp[i].vmid]
    BY <1>4 DEF Building
  <2>2. Stage(i)
    BY DEF ImportInv
  <2> QED
    BY <1>1, <1>5, <2>1, <2>2 DEF Stage, Full
<1>7. FlagsInv(i)' /\ Gates(i)'
  BY <1>1 DEF ImportInv, FlagsInv, Gates, Blocked
<1>8. Tidy(i)'
  <2>1. \A w \in Vmids : vms'[w] # Nil /\ vms'[w].owner = i
          => vms[w] # Nil /\ vms[w].owner = i
    BY <1>3
  <2>2. Used(i)' = Used(i) /\ Tidy(i)
    BY <1>1 DEF Used, ImportInv
  <2> QED
    BY <1>1, <2>1, <2>2 DEF Tidy
<1> QED
  BY <1>6, <1>7, <1>8 DEF ImportInv

LEMMA InitComplete == Init => CompleteInv
<1> SUFFICES ASSUME Init, NEW i \in Imports PROVE ImportInv(i)
  BY DEF CompleteInv
<1>1. /\ imp[i].pc = "plan" /\ imp[i].mode = "builtin" /\ imp[i].k = 0
      /\ ~imp[i].leak
  BY DEF Init
<1>2. /\ \A v \in Vmids : vms[v] = Nil
      /\ \A f \in Vmids \X (1..NDisks) : files[f] = Nil
  BY DEF Init
<1> QED
  BY <1>1, <1>2
  DEF ImportInv, Stage, FlagsInv, Tidy, Gates, Building, Early, Final, Refused

LEMMA NextComplete ==
  ASSUME OwnInv, CompleteInv, [Next]_vars
  PROVE  CompleteInv'
<1>1. ASSUME NEW i \in Imports, Step(i) PROVE CompleteInv'
  <2>1. Outside(i) /\ \A x \in Imports \ {i} : imp'[x] = imp[x]
    BY <1>1, StepOutside, StepActs, ActsOwn
  <2>2. ASSUME NEW x \in Imports PROVE ImportInv(x)'
    <3>1. CASE x = i
      BY <1>1, <3>1, StepOwn, OwnImport DEF CompleteInv
    <3>2. CASE x # i
      BY <2>1, <3>2, OtherInv DEF CompleteInv
    <3> QED
      BY <3>1, <3>2
  <2> QED
    BY <2>2 DEF CompleteInv
<1>2. ASSUME NEW v \in Vmids, ForeignCreate(v) PROVE CompleteInv'
  BY <1>2, ForeignInv DEF CompleteInv
<1>3. CASE UNCHANGED vars
  <2> SUFFICES ASSUME NEW i \in Imports PROVE ImportInv(i)'
    BY DEF CompleteInv
  <2>1. UNCHANGED <<problems, imp, vms, files>> /\ ImportInv(i)
    BY <1>3 DEF vars, CompleteInv
  <2>2. Stage(i)' /\ FlagsInv(i)'
    BY <2>1 DEF ImportInv, Stage, FlagsInv
  <2>3. Used(i)' = Used(i)
    BY <2>1 DEF Used
  <2>4. Tidy(i)'
    BY <2>1, <2>3 DEF ImportInv, Tidy
  <2>5. Gates(i)'
    BY <2>1 DEF ImportInv, Gates, Blocked
  <2> QED
    BY <2>2, <2>4, <2>5 DEF ImportInv
<1> QED
  BY <1>1, <1>2, <1>3 DEF Next

LEMMA NextOwn ==
  ASSUME OwnInv, [Next]_vars
  PROVE  OwnInv'
<1>1. ASSUME NEW i \in Imports, Step(i) PROVE OwnInv'
  BY <1>1, StepActs, ActsOwn
<1>2. ASSUME NEW v \in Vmids, ForeignCreate(v) PROVE OwnInv'
  BY <1>2, ForeignOwn
<1>3. CASE UNCHANGED vars
  BY <1>3 DEF vars, OwnInv, OwnTypes, Progress, Mine
<1> QED
  BY <1>1, <1>2, <1>3 DEF Next

LEMMA SpecComplete == Spec => [](OwnInv /\ CompleteInv)
<1>1. Init => OwnInv /\ CompleteInv
  BY InitOwn, InitComplete
<1>2. (OwnInv /\ CompleteInv) /\ [Next]_vars => (OwnInv /\ CompleteInv)'
  BY NextOwn, NextComplete
<1> QED
  BY <1>1, <1>2, PTL DEF Spec

(* An import reported as done has made the machine of its request, all the *)
(* disks in their order and nothing else, from a point that none of the    *)
(* gates of its way refuses, for any number of imports that use the same   *)
(* numbers and paths (_restore_proxmox, execute).                          *)
THEOREM DoneCorrect == Spec => []DoneIsComplete
<1>1. ASSUME OwnInv, CompleteInv PROVE DoneIsComplete
  <2> SUFFICES ASSUME NEW i \in Imports, imp[i].pc = "done"
               PROVE  /\ vms[imp[i].vmid] = [owner |-> i, virtio |-> Disks(i),
                                             unused |-> <<>>, boot |-> TRUE]
                      /\ ~Blocked(i, PlanProblems)
                      /\ imp[i].mode = "builtin" => ~Blocked(i, ConvertProblems)
    BY DEF DoneIsComplete
  <2>1. ImportInv(i)
    BY <1>1 DEF CompleteInv
  <2>2. vms[imp[i].vmid] = Full(i)
    BY <2>1 DEF ImportInv, Stage
  <2>3. [owner |-> i, virtio |-> Disks(i), unused |-> <<>>, boot |-> TRUE]
          = Full(i)
    BY MadeEmpty, Zenon DEF Full
  <2>4. ~Blocked(i, PlanProblems)
    BY <2>1 DEF ImportInv, Gates, Refused
  <2>5. ASSUME imp[i].mode = "builtin" PROVE ~Blocked(i, ConvertProblems)
    <3> DEFINE Clear(kinds) == ~Blocked(i, kinds)
    <3>1. /\ Clear(TransportProblems) /\ Clear(StorageProblems)
          /\ Clear(ToolProblems) /\ Clear(OvfProblems \cup ConnectionProblems)
          /\ Clear(GuestProblems \cup FirmwareProblems)
          /\ Clear(BundleProblems \cup NicProblems)
          /\ Clear(MappingProblems \cup BridgeProblems)
      BY <2>1, <2>5 DEF ImportInv, Gates, Refused
    <3> QED
      BY <3>1 DEF Blocked, ConvertProblems
  <2> QED
    BY <2>2, <2>3, <2>4, <2>5
<1> QED
  BY <1>1, SpecComplete, PTL

(* An import that failed has left neither a machine nor a disk image, and  *)
(* one that is done no disk image, unless a command timed out, a cleanup   *)
(* failed or the process died: the cleanup knows of everything else it did *)
(* (_restore_proxmox).                                                     *)
THEOREM FailedCorrect == Spec => []FailedLeavesNothing
<1>1. ASSUME OwnInv, CompleteInv PROVE FailedLeavesNothing
  <2> SUFFICES ASSUME NEW i \in Imports, imp[i].pc \in {"failed", "done"},
                      ~imp[i].leak
               PROVE  /\ \A f \in DOMAIN files : files[f] = Nil \/ files[f][1] # i
                      /\ imp[i].pc = "failed" =>
                           \A v \in Vmids : vms[v] = Nil \/ vms[v].owner # i
    BY DEF FailedLeavesNothing
  <2>1. Tidy(i) /\ DOMAIN files = Vmids \X (1..NDisks)
    BY <1>1 DEF CompleteInv, ImportInv, OwnInv, OwnTypes
  <2> QED
    BY <2>1 DEF Tidy, Building
<1> QED
  BY <1>1, SpecComplete, PTL

-----------------------------------------------------------------------------
(* The refinement of AtomicImport.                                         *)

(* An import never has two machines, and what it has is at its number.     *)
Lone(i) == \A v \in Vmids : vms[v] # Nil /\ vms[v].owner = i => v = imp[i].vmid
LoneInv == \A i \in Imports : Lone(i)

(* What a step makes of an import's number, and of its end: an import that *)
(* has ended takes no step, one that dies is defeated, and no step forgets *)
(* a defeat.                                                               *)
Onward(i) ==
    /\ ~Ended(i)
    /\ imp'[i].vmid = imp[i].vmid \/ imp[i].pc \in {"provider", "number"}
    /\ imp'[i].pc = "dead" => imp'[i].leak
    /\ imp[i].leak => imp'[i].leak

LEMMA OnwardPc ==
  ASSUME OwnInv, NEW i \in Imports, ~Ended(i), NEW pc, pc # "dead",
         imp' = [imp EXCEPT ![i] = [imp[i] EXCEPT !.pc = pc]]
  PROVE  Onward(i)
<1>1. imp[i] \in ExecOf(BOOLEAN) /\ imp \in [Imports -> Execution]
  BY Flags DEF OwnInv, OwnTypes
<1>2. imp'[i] = [imp[i] EXCEPT !.pc = pc]
  BY <1>1
<1> QED
  BY <1>1, <1>2, PcFields DEF Onward, Rest

LEMMA OnwardLeak ==
  ASSUME OwnInv, NEW i \in Imports, ~Ended(i), NEW pc,
         imp' = [imp EXCEPT ![i] = [imp[i] EXCEPT !.pc = pc, !.leak = TRUE]]
  PROVE  Onward(i)
<1> DEFINE new == [imp[i] EXCEPT !.pc = pc, !.leak = TRUE]
<1>1. imp[i] \in ExecOf(BOOLEAN) /\ imp \in [Imports -> Execution]
  BY Flags DEF OwnInv, OwnTypes
<1>2. new.vmid = imp[i].vmid /\ new.leak
  BY <1>1 DEF ExecOf
<1> HIDE DEF new
<1>3. imp'[i] = new
  BY <1>1 DEF new
<1> QED
  BY <1>2, <1>3 DEF Onward

LEMMA GateOnward ==
  ASSUME OwnInv, NEW i \in Imports, NEW pc, NEW kinds,
         NEW next, next # "dead", pc \notin {"done", "failed", "dead"},
         Gate(i, pc, kinds, next)
  PROVE  Onward(i)
<1>1. ~Ended(i)
  BY DEF Gate, At, Ended
<1>2. \/ imp' = [imp EXCEPT ![i] = [imp[i] EXCEPT !.pc = next]]
      \/ imp' = [imp EXCEPT ![i] = [imp[i] EXCEPT !.pc = "failed"]]
  BY DEF Gate, Goto
<1> QED
  BY <1>1, <1>2, OnwardPc

LEMMA StepOnward ==
  ASSUME OwnInv, NEW i \in Imports, FlagsInv(i), Step(i)
  PROVE  Onward(i)
<1>1. imp[i] \in ExecOf(BOOLEAN) /\ imp \in [Imports -> Execution]
  BY Flags DEF OwnInv, OwnTypes
<1>2. ~Ended(i)
  BY DEF Step, Plan, _preflight_proxmox_storage, _builtin_doctor,
         _prepare_ova, _inspection, _convert_vmware,
         _preflight_proxmox_bridges, Gate, ProviderConvert, ProviderRefuses,
         ChooseVmid, CheckVmid, Create, SetEfi, CopyDisk, ImportDisk,
         DetachUnused, AttachDisk, SetBoot, Validate, CommandFails, Destroy,
         RemoveFiles, Crash, At, Ended
<1>3. CASE \/ _preflight_proxmox_storage(i) \/ _builtin_doctor(i)
           \/ _prepare_ova(i) \/ _inspection(i) \/ _convert_vmware(i)
           \/ _preflight_proxmox_bridges(i)
  BY <1>3, GateOnward
  DEF _preflight_proxmox_storage, _builtin_doctor, _prepare_ova, _inspection,
      _convert_vmware, _preflight_proxmox_bridges
<1>4. CASE \/ ProviderRefuses(i) \/ CopyDisk(i) \/ ImportDisk(i) \/ SetBoot(i)
           \/ Validate(i)
  <2>1. \/ imp' = [imp EXCEPT ![i] = [imp[i] EXCEPT !.pc = "failed"]]
        \/ imp' = [imp EXCEPT ![i] = [imp[i] EXCEPT !.pc = "import"]]
        \/ imp' = [imp EXCEPT ![i] = [imp[i] EXCEPT !.pc = "detach"]]
        \/ imp' = [imp EXCEPT ![i] = [imp[i] EXCEPT !.pc = "validate"]]
        \/ imp' = [imp EXCEPT ![i] = [imp[i] EXCEPT !.pc = "remove"]]
    BY <1>4 DEF ProviderRefuses, CopyDisk, ImportDisk, SetBoot, Validate, Goto
  <2> QED
    BY <1>2, <2>1, OnwardPc
<1>5. CASE Plan(i)
  <2> DEFINE new == [imp[i] EXCEPT !.pc = "provider", !.mode = "provider"]
  <2>1. \/ imp' = [imp EXCEPT ![i] = [imp[i] EXCEPT !.pc = "storage"]]
        \/ imp' = [imp EXCEPT ![i] = [imp[i] EXCEPT !.pc = "failed"]]
        \/ imp' = [imp EXCEPT ![i] = new]
    BY <1>1, <1>5 DEF Plan, Goto
  <2>2. new.pc = "provider" /\ new.vmid = imp[i].vmid /\ new.leak = imp[i].leak
    BY <1>1 DEF ExecOf
  <2> HIDE DEF new
  <2>3. ASSUME imp' = [imp EXCEPT ![i] = new] PROVE Onward(i)
    BY <1>1, <1>2, <2>2, <2>3 DEF Onward
  <2> QED
    BY <1>2, <2>1, <2>3, OnwardPc
<1>6. CASE ProviderConvert(i)
  <2>1. PICK v \in Vmids, attested \in BOOLEAN :
          imp' = [imp EXCEPT ![i].vmid = v, ![i].leak = ~attested,
                             ![i].pc = IF attested THEN "done" ELSE "failed"]
    BY <1>6, Zenon DEF ProviderConvert
  <2> DEFINE end == IF attested THEN "done" ELSE "failed"
             left == ~attested
             new == [imp[i] EXCEPT !.vmid = v, !.leak = left, !.pc = end]
  <2> HIDE DEF end, left
  <2>2. new.pc = end
    BY <1>1 DEF ExecOf
  <2> HIDE DEF new
  <2>3. imp'[i] = new
    <3>1. imp' = [imp EXCEPT ![i] = new]
      BY <1>1, <2>1 DEF new, left, end
    <3> QED
      BY <1>1, <3>1
  <2>4. imp[i].pc = "provider"
    BY <1>6 DEF ProviderConvert, At
  <2> QED
    BY <1>2, <2>2, <2>3, <2>4 DEF Onward, FlagsInv, Final, end
<1>7. CASE ChooseVmid(i)
  <2>1. PICK v \in Vmids :
          imp' = [imp EXCEPT ![i] = [imp[i] EXCEPT !.pc = "check", !.vmid = v]]
    BY <1>1, <1>7 DEF ChooseVmid
  <2>2. imp'[i] = [imp[i] EXCEPT !.pc = "check", !.vmid = v]
    BY <1>1, <2>1
  <2>3. imp[i].pc = "number"
    BY <1>7 DEF ChooseVmid, At
  <2> QED
    BY <1>1, <1>2, <2>2, <2>3, VmidFields DEF Onward
<1>8. CASE CheckVmid(i)
  <2>1. \/ imp' = [imp EXCEPT ![i] = [imp[i] EXCEPT !.pc = "create"]]
        \/ imp' = [imp EXCEPT ![i] = [imp[i] EXCEPT !.pc = "failed"]]
    BY <1>8 DEF CheckVmid, Goto
  <2> QED
    BY <1>2, <2>1, OnwardPc
<1>9. CASE Create(i)
  <2> DEFINE New(pc, ok, err, leak) ==
               [imp[i] EXCEPT !.pc = pc, !.created = ok, !.err = err,
                              !.leak = leak]
  <2>1. \/ imp' = [imp EXCEPT ![i] = New("efi", TRUE, FALSE, FALSE)]
        \/ imp' = [imp EXCEPT ![i] = New("remove", FALSE, TRUE, FALSE)]
        \/ imp' = [imp EXCEPT ![i] = New("remove", FALSE, TRUE, TRUE)]
    BY <1>1, <1>9 DEF Create, CreatedFlag
  <2>2. ASSUME NEW pc, NEW ok, NEW err, NEW leak,
               imp' = [imp EXCEPT ![i] = New(pc, ok, err, leak)]
        PROVE  imp'[i].pc = pc /\ imp'[i].vmid = imp[i].vmid
    BY <1>1, <2>2 DEF ExecOf
  <2> HIDE DEF New
  <2>3. imp'[i].pc \in {"efi", "remove"} /\ imp'[i].vmid = imp[i].vmid
    BY <2>1, <2>2
  <2>4. imp[i].pc = "create"
    BY <1>9 DEF Create, At
  <2> QED
    BY <1>2, <2>3, <2>4 DEF Onward, FlagsInv, Final
<1>10. CASE SetEfi(i)
  <2> DEFINE new == [imp[i] EXCEPT !.pc = "copy", !.k = 1]
  <2>1. imp' = [imp EXCEPT ![i] = new]
    BY <1>1, <1>10 DEF SetEfi
  <2>2. new.pc = "copy" /\ new.vmid = imp[i].vmid /\ new.leak = imp[i].leak
    BY <1>1 DEF ExecOf
  <2> HIDE DEF new
  <2> QED
    BY <1>1, <1>2, <2>1, <2>2 DEF Onward
<1>11. CASE DetachUnused(i)
  <2> DEFINE new == [imp[i] EXCEPT !.pc = "attach",
                                   !.volume = _unused_volume(Mine(i).unused)]
  <2>1. imp' = [imp EXCEPT ![i] = new]
    BY <1>1, <1>11 DEF DetachUnused
  <2>2. new.pc = "attach" /\ new.vmid = imp[i].vmid /\ new.leak = imp[i].leak
    BY <1>1 DEF ExecOf
  <2> HIDE DEF new
  <2> QED
    BY <1>1, <1>2, <2>1, <2>2 DEF Onward
<1>12. CASE AttachDisk(i)
  <2> DEFINE next == IF LastDisk(imp[i].k) THEN "boot" ELSE "copy"
             k == IF LastDisk(imp[i].k) THEN imp[i].k ELSE imp[i].k + 1
             new == [imp[i] EXCEPT !.volume = Nil, !.pc = next, !.k = k]
  <2>1. imp' = [imp EXCEPT ![i] = new]
    BY <1>1, <1>12 DEF AttachDisk
  <2> HIDE DEF next, k
  <2>2. new.pc = next /\ new.vmid = imp[i].vmid /\ new.leak = imp[i].leak
    BY <1>1 DEF ExecOf
  <2> HIDE DEF new
  <2>3. next # "dead"
    BY DEF next
  <2> QED
    BY <1>1, <1>2, <2>1, <2>2, <2>3 DEF Onward
<1>13. CASE CommandFails(i)
  <2> DEFINE new == [imp[i] EXCEPT !.pc = OnFailure(i), !.err = TRUE]
  <2>1. imp' = [imp EXCEPT ![i] = new]
    BY <1>1, <1>13 DEF CommandFails
  <2>2. new.pc = OnFailure(i) /\ new.vmid = imp[i].vmid /\ new.leak = imp[i].leak
    BY <1>1 DEF ExecOf
  <2> HIDE DEF new
  <2>3. OnFailure(i) # "dead"
    BY DEF OnFailure
  <2> QED
    BY <1>1, <1>2, <2>1, <2>2, <2>3 DEF Onward
<1>14. CASE Destroy(i) \/ RemoveFiles(i) \/ Crash(i)
  <2> DEFINE end == IF imp[i].err THEN "failed" ELSE "done"
  <2>1. \/ imp' = [imp EXCEPT ![i] = [imp[i] EXCEPT !.pc = "remove"]]
        \/ imp' = [imp EXCEPT ![i] = [imp[i] EXCEPT !.pc = end]]
        \/ imp' = [imp EXCEPT ![i] = [imp[i] EXCEPT !.pc = "remove", !.leak = TRUE]]
        \/ imp' = [imp EXCEPT ![i] = [imp[i] EXCEPT !.pc = end, !.leak = TRUE]]
        \/ imp' = [imp EXCEPT ![i] = [imp[i] EXCEPT !.pc = "failed", !.leak = TRUE]]
        \/ imp' = [imp EXCEPT ![i] = [imp[i] EXCEPT !.pc = "dead", !.leak = TRUE]]
    BY <1>1, <1>14 DEF Destroy, RemoveFiles, Crash, Goto
  <2>2. end # "dead"
    OBVIOUS
  <2> HIDE DEF end
  <2> QED
    BY <1>2, <2>1, <2>2, OnwardPc, OnwardLeak
<1> QED
  BY <1>3, <1>4, <1>5, <1>6, <1>7, <1>8, <1>9, <1>10, <1>11, <1>12, <1>13,
     <1>14
  DEF Step

(* A step changes nothing under a number that is not the import's then.    *)
LEMMA StepPlace ==
  ASSUME OwnInv, NEW i \in Imports, Step(i)
  PROVE  \A v \in Vmids : vms'[v] # vms[v] =>
           \/ v = imp'[i].vmid
           \/ v = imp[i].vmid /\ imp[i].pc \notin {"provider", "number"}
<1>1. imp[i] \in ExecOf(BOOLEAN) /\ imp \in [Imports -> Execution]
        /\ DOMAIN vms = Vmids
  BY Flags DEF OwnInv, OwnTypes
<1>2. CASE ProviderConvert(i)
  <2>1. PICK v \in Vmids, attested \in BOOLEAN :
          /\ vms' = [vms EXCEPT ![v] = [owner |-> i, virtio |-> Disks(i),
                                        unused |-> <<>>, boot |-> TRUE]]
          /\ imp' = [imp EXCEPT ![i].vmid = v, ![i].leak = ~attested,
                                ![i].pc = IF attested THEN "done" ELSE "failed"]
    BY <1>2, Zenon DEF ProviderConvert
  <2> DEFINE end == IF attested THEN "done" ELSE "failed"
             left == ~attested
             new == [imp[i] EXCEPT !.vmid = v, !.leak = left, !.pc = end]
  <2> HIDE DEF end, left
  <2>2. new.vmid = v
    BY <1>1 DEF ExecOf
  <2> HIDE DEF new
  <2>3. imp'[i] = new
    <3>1. imp' = [imp EXCEPT ![i] = new]
      BY <1>1, <2>1 DEF new, left, end
    <3> QED
      BY <1>1, <3>1
  <2> QED
    BY <1>1, <2>1, <2>2, <2>3
<1>3. CASE Create(i)
  BY <1>1, <1>3 DEF Create, At
<1>4. CASE ImportDisk(i) \/ DetachUnused(i) \/ AttachDisk(i) \/ SetBoot(i)
           \/ Destroy(i)
  BY <1>1, <1>4 DEF ImportDisk, DetachUnused, AttachDisk, SetBoot, Destroy, At
<1>5. CASE \/ Plan(i) \/ _preflight_proxmox_storage(i) \/ _builtin_doctor(i)
           \/ _prepare_ova(i) \/ _inspection(i) \/ _convert_vmware(i)
           \/ _preflight_proxmox_bridges(i) \/ ProviderRefuses(i)
           \/ ChooseVmid(i) \/ CheckVmid(i) \/ SetEfi(i) \/ CopyDisk(i)
           \/ Validate(i) \/ CommandFails(i) \/ RemoveFiles(i) \/ Crash(i)
  BY <1>5
  DEF Plan, _preflight_proxmox_storage, _builtin_doctor, _prepare_ova,
      _inspection, _convert_vmware, _preflight_proxmox_bridges, Gate,
      ProviderRefuses, ChooseVmid, CheckVmid, SetEfi, CopyDisk, Validate,
      CommandFails, RemoveFiles, Crash
<1> QED
  BY <1>2, <1>3, <1>4, <1>5 DEF Step

LEMMA LoneStep ==
  ASSUME OwnInv, CompleteInv, LoneInv, NEW i \in Imports, Step(i)
  PROVE  LoneInv'
<1>1. Outside(i) /\ \A x \in Imports \ {i} : imp'[x] = imp[x]
  BY StepOutside, StepActs, ActsOwn
<1>2. ASSUME NEW x \in Imports \ {i} PROVE Lone(x)'
  BY <1>1 DEF Outside, LoneInv, Lone
<1>3. Lone(i)'
  <2> SUFFICES ASSUME NEW v \in Vmids, vms'[v] # Nil, vms'[v].owner = i,
                      v # imp'[i].vmid
               PROVE  FALSE
    BY DEF Lone
  <2>1. FlagsInv(i) /\ Tidy(i) /\ Lone(i)
    BY DEF CompleteInv, ImportInv, LoneInv
  <2>2. CASE imp[i].pc \in {"provider", "number"}
    <3>1. \A w \in Vmids : ~(vms[w] # Nil /\ vms[w].owner = i)
      BY <2>1, <2>2 DEF FlagsInv, Tidy, Final, Building
    <3>2. vms'[v] # vms[v]
      BY <3>1
    <3> QED
      BY <2>2, <3>2, StepPlace
  <2>3. CASE imp[i].pc \notin {"provider", "number"}
    <3>1. imp'[i].vmid = imp[i].vmid
      BY <2>1, <2>3, StepOnward DEF Onward
    <3>2. vms'[v] = vms[v]
      BY <3>1, StepPlace
    <3> QED
      BY <2>1, <3>1, <3>2 DEF Lone
  <2> QED
    BY <2>2, <2>3
<1> QED
  BY <1>2, <1>3 DEF LoneInv

LEMMA LoneForeign ==
  ASSUME OwnInv, LoneInv, NEW v \in Vmids, ForeignCreate(v)
  PROVE  LoneInv'
BY V2VAssumption DEF ForeignCreate, OwnInv, OwnTypes, LoneInv, Lone

(* A step of an import changes what is seen of that import only.           *)
LEMMA OthersSeen ==
  ASSUME OwnInv, CompleteInv, LoneInv, NEW i \in Imports, Step(i)
  PROVE  /\ \A v \in Vmids : ~(vms'[v] # Nil /\ vms'[v].owner = i /\ Ended(i)')
                               => Seen'[v] = Seen[v]
         /\ \A v \in Vmids : vms'[v] # Nil /\ vms'[v].owner = i => Seen[v] = Nil
         /\ \A x \in Imports \ {i} : Fate'[x] = Fate[x]
         /\ Defeated' \in {Defeated, Defeated \cup {i}}
         /\ Fate[i] = "running"
         /\ imp'[i].leak <=> i \in Defeated'
<1>1. Outside(i) /\ \A x \in Imports \ {i} : imp'[x] = imp[x]
  BY StepOutside, StepActs, ActsOwn
<1>2. /\ ~Ended(i) /\ (imp[i].leak => imp'[i].leak)
  BY StepOnward DEF CompleteInv, ImportInv, Onward
<1>3. ASSUME NEW v \in Vmids, ~(vms'[v] # Nil /\ vms'[v].owner = i /\ Ended(i)')
      PROVE  Seen'[v] = Seen[v]
  <2>1. CASE vms'[v] # Nil /\ vms'[v].owner = i
    <3>1. ~Visible(v)'
      BY <1>3, <2>1 DEF Visible, Ended
    <3>2. ~Visible(v)
      BY <1>1, <1>2, <2>1 DEF Outside, Visible, Ended
    <3> QED
      BY <3>1, <3>2 DEF Seen, Visible, Ended
  <2>2. CASE vms'[v] = Nil
    <3>1. ~Visible(v)
      BY <1>1, <1>2, <2>2 DEF Outside, Visible, Ended
    <3>2. ~Visible(v)'
      BY <2>2 DEF Visible, Ended
    <3> QED
      BY <3>1, <3>2 DEF Seen, Visible, Ended
  <2>3. CASE vms'[v] # Nil /\ vms'[v].owner # i
    <3>1. vms'[v] = vms[v]
      BY <1>1, <2>3 DEF Outside
    <3>2. Visible(v)' <=> Visible(v)
      BY <1>1, <2>3, <3>1 DEF Visible, Ended
    <3> QED
      BY <3>1, <3>2 DEF Seen, Visible, Ended
  <2> QED
    BY <2>1, <2>2, <2>3
<1>4. ASSUME NEW v \in Vmids, vms'[v] # Nil, vms'[v].owner = i
      PROVE  Seen[v] = Nil
  <2>1. ~Visible(v)
    BY <1>1, <1>2, <1>4 DEF Outside, Visible, Ended
  <2> QED
    BY <2>1 DEF Seen, Visible, Ended
<1>5. \A x \in Imports \ {i} : Fate'[x] = Fate[x]
  BY <1>1 DEF Fate, Ended
<1>6. Defeated' \in {Defeated, Defeated \cup {i}}
  BY <1>1, <1>2 DEF Defeated
<1> QED
  BY <1>2, <1>3, <1>4, <1>5, <1>6 DEF Fate, Defeated

(* A step of an import is one of AtomicImport's, or none of its business.  *)
LEMMA StepAtomic ==
  ASSUME OwnInv, CompleteInv, LoneInv, NEW i \in Imports, Step(i),
         OwnInv', CompleteInv', LoneInv'
  PROVE  \/ Promise!Fail(i) \/ Promise!Defeat(i)
         \/ \E n \in Vmids : Promise!Succeed(i, n) \/ Promise!Leave(i, n)
         \/ UNCHANGED <<Seen, Fate, Defeated>>
<1>1. /\ \A v \in Vmids : ~(vms'[v] # Nil /\ vms'[v].owner = i /\ Ended(i)')
                            => Seen'[v] = Seen[v]
      /\ \A v \in Vmids : vms'[v] # Nil /\ vms'[v].owner = i => Seen[v] = Nil
      /\ \A x \in Imports \ {i} : Fate'[x] = Fate[x]
      /\ Defeated' \in {Defeated, Defeated \cup {i}}
      /\ Fate[i] = "running"
      /\ imp'[i].leak <=> i \in Defeated'
  BY OthersSeen
<1>2. /\ Seen = [v \in Vmids |-> Seen[v]] /\ Seen' = [v \in Vmids |-> Seen'[v]]
      /\ Fate = [x \in Imports |-> Fate[x]]
      /\ Fate' = [x \in Imports |-> Fate'[x]]
  BY DEF Seen, Fate, Visible, Ended
<1>3. CASE ~Ended(i)'
  <2>1. Seen' = Seen
    BY <1>1, <1>2, <1>3
  <2>2. Fate' = Fate
    BY <1>1, <1>2, <1>3 DEF Fate, Ended
  <2> QED
    BY <1>1, <2>1, <2>2
    DEF Promise!Defeat
<1>4. CASE Ended(i)'
  <2>1. Fate' = [Fate EXCEPT ![i] = imp'[i].pc] /\ imp'[i].pc \in {"done", "failed", "dead"}
    BY <1>1, <1>2, <1>4 DEF Fate, Ended
  <2>2. Stage(i)' /\ Tidy(i)' /\ Lone(i)'
    BY DEF CompleteInv, ImportInv, LoneInv
  <2>3. imp'[i].pc = "dead" => imp'[i].leak
    BY StepOnward DEF CompleteInv, ImportInv, Onward
  <2>4. CASE \E v \in Vmids : vms'[v] # Nil /\ vms'[v].owner = i
    <3>1. PICK n \in Vmids : vms'[n] # Nil /\ vms'[n].owner = i
      BY <2>4
    <3>2. n = imp'[i].vmid
      BY <2>2, <3>1 DEF Lone
    <3>3. Seen[n] = Nil /\ Seen'[n] = vms'[n]
      <4>1. Visible(n)'
        BY <1>4, <3>1 DEF Visible, Ended
      <4> QED
        BY <1>1, <3>1, <4>1 DEF Seen, Visible, Ended
    <3>4. \A v \in Vmids \ {n} : Seen'[v] = Seen[v]
      BY <1>1, <2>2, <3>2 DEF Lone
    <3>5. Seen' = [Seen EXCEPT ![n] = vms'[n]]
      BY <1>2, <3>3, <3>4
    <3>6. CASE imp'[i].pc = "done"
      <4>1. vms'[n] = Full(i)
        BY <2>2, <3>2, <3>6 DEF Stage
      <4>2. vms'[n] = WholeOf[i]
        BY <4>1, MadeEmpty, Zenon DEF Full, WholeOf
      <4>3. Promise!Succeed(i, n)
        BY <1>1, <2>1, <3>3, <3>5, <3>6, <4>2
        DEF Promise!Succeed, Promise!Ends, Promise!Appears,
            Promise!MayBeDefeated
      <4> QED
        BY <4>3
    <3>7. CASE imp'[i].pc # "done"
      <4>1. imp'[i].leak
        BY <1>4, <2>2, <3>1, <3>7 DEF Tidy, Ended, Building
      <4>2. vms'[n] \in PartsOf[i]
        BY <3>1 DEF PartsOf, OwnInv, OwnTypes
      <4>3. Promise!Leave(i, n)
        BY <1>1, <2>1, <3>3, <3>5, <3>7, <4>1, <4>2
        DEF Promise!Leave, Promise!Ends, Promise!Appears,
            Promise!MayBeDefeated
      <4> QED
        BY <4>3
    <3> QED
      BY <3>6, <3>7
  <2>5. CASE ~ \E v \in Vmids : vms'[v] # Nil /\ vms'[v].owner = i
    <3>1. Seen' = Seen
      BY <1>1, <1>2, <2>5
    <3>2. imp'[i].pc # "done"
      <4> SUFFICES ASSUME imp'[i].pc = "done" PROVE FALSE
        OBVIOUS
      <4>1. imp'[i].vmid \in Vmids /\ vms'[imp'[i].vmid] = Full(i)
        BY <2>2 DEF Stage
      <4>2. Full(i).owner = i /\ Full(i) # Nil
        BY FullTyped, NilAssumption DEF Full, Made
      <4> QED
        BY <2>5, <4>1, <4>2
    <3>3. Promise!Fail(i)
      BY <1>1, <2>1, <2>3, <3>1, <3>2
      DEF Promise!Fail, Promise!Ends, Promise!MayBeDefeated
    <3> QED
      BY <3>3
  <2> QED
    BY <2>4, <2>5
<1> QED
  BY <1>3, <1>4

LEMMA ForeignAtomic ==
  ASSUME OwnInv, NEW n \in Vmids, ForeignCreate(n)
  PROVE  Promise!OtherCreates(n)
<1> DEFINE m == [owner |-> Foreign, virtio |-> <<>>, unused |-> <<>>,
                 boot |-> TRUE]
<1>1. imp' = imp /\ vms[n] = Nil /\ vms' = [vms EXCEPT ![n] = m]
  BY DEF ForeignCreate
<1>2. OwnInv'
  BY ForeignOwn
<1>3. m # Nil /\ m.owner \notin Imports
  <2>1. m \in Machine
    <3>1. <<>> \in Seq(Images) /\ TRUE \in BOOLEAN
      OBVIOUS
    <3> QED
      BY <3>1, Flags, ForeignShape, Zenon
  <2> QED
    BY <2>1, NilAssumption, V2VAssumption
<1> HIDE DEF m
<1>4. Seen' = [Seen EXCEPT ![n] = m] /\ Seen[n] = Nil
  <2>1. vms'[n] = m /\ \A v \in Vmids \ {n} : vms'[v] = vms[v]
    BY <1>1 DEF OwnInv, OwnTypes
  <2>2. Visible(n)' /\ \A v \in Vmids \ {n} : Visible(v)' <=> Visible(v)
    BY <1>1, <1>3, <2>1 DEF Visible, Ended
  <2> QED
    BY <1>1, <2>1, <2>2 DEF Seen, Visible, Ended
<1>5. UNCHANGED <<Fate, Defeated>>
  BY <1>1 DEF Fate, Defeated, Ended
<1> QED
  BY <1>4, <1>5 DEF Promise!OtherCreates, Promise!Appears, ForeignVM, m

(* For any number of imports, numbers and disks V2VImport implements       *)
(* AtomicImport: whoever looks at the node and at the results sees an      *)
(* import make one complete machine at a free number or nothing, but for   *)
(* the one machine a defeated import may leave, and never sees a machine   *)
(* change (_restore_proxmox, execute).                                     *)
THEOREM AtomicCorrect == Spec => ImportsAtomic
<1> DEFINE All == OwnInv /\ CompleteInv /\ LoneInv
<1>1. ASSUME Init PROVE All /\ Promise!Init
  <2>1. \A v \in Vmids : vms[v] = Nil
    BY <1>1 DEF Init
  <2>2. \A i \in Imports : imp[i].pc = "plan" /\ ~imp[i].leak
    BY <1>1 DEF Init
  <2>3. Seen = [v \in Vmids |-> Nil] /\ Fate = [i \in Imports |-> "running"]
          /\ Defeated = {}
    BY <2>1, <2>2 DEF Seen, Visible, Fate, Ended, Defeated
  <2> QED
    BY <1>1, <2>1, <2>3, InitOwn, InitComplete
    DEF LoneInv, Lone, Promise!Init
<1>2. ASSUME All, [Next]_vars
      PROVE  All' /\ [Promise!Next]_Promise!promised
  <2>1. OwnInv' /\ CompleteInv'
    BY <1>2, NextOwn, NextComplete
  <2>2. ASSUME NEW i \in Imports, Step(i) PROVE LoneInv' /\ [Promise!Next]_Promise!promised
    <3>1. LoneInv'
      BY <1>2, <2>2, LoneStep
    <3> QED
      BY <1>2, <2>1, <2>2, <3>1, StepAtomic
      DEF Promise!Next, Promise!promised
  <2>3. ASSUME NEW v \in Vmids, ForeignCreate(v)
        PROVE  LoneInv' /\ [Promise!Next]_Promise!promised
    BY <1>2, <2>3, LoneForeign, ForeignAtomic DEF Promise!Next
  <2>4. CASE UNCHANGED vars
    <3>1. UNCHANGED <<Seen, Fate, Defeated>>
      BY <2>4 DEF vars, Seen, Fate, Defeated, Visible, Ended
    <3>2. LoneInv'
      BY <1>2, <2>4 DEF vars, LoneInv, Lone
    <3> QED
      BY <2>1, <3>1, <3>2 DEF Promise!promised
  <2> QED
    BY <1>2, <2>1, <2>2, <2>3, <2>4 DEF Next
<1>3. Init => All
  BY <1>1
<1>4. All /\ [Next]_vars => All'
  BY <1>2
<1>5. Init => Promise!Init
  BY <1>1
<1>6. All /\ [Next]_vars => [Promise!Next]_Promise!promised
  BY <1>2
<1> HIDE DEF All
<1> QED
  BY <1>3, <1>4, <1>5, <1>6, PTL DEF Spec, ImportsAtomic, Promise!Spec
=============================================================================
