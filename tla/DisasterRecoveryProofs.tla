----------------------- MODULE DisasterRecoveryProofs -----------------------
(***************************************************************************)
(* Proofs about DisasterRecovery. A successful failback brings home every  *)
(* write that the DR site had served when it began, and a run reported as  *)
(* running has the command that will settle it, however many commands run  *)
(* at the same time. While one command runs at a time, no gateway is       *)
(* unreachable and no command dies, one site owns the subnet, one copy of  *)
(* a workload runs, and an active failover serves.                         *)
(***************************************************************************)
EXTENDS DisasterRecovery, FiniteSetTheorems, WellFoundedInduction, TLAPS

-----------------------------------------------------------------------------
(* Rows and final backups, for any number of commands. *)

(* The row a command made is its own and still running, unless its success *)
(* could not be audited and an except clause is at it.                     *)
Failing == {"rollback", "poweroff", "fb_fail"}
RowInv(p) ==
    rn[p].pc \in RowPcs =>
      /\ rn[p].run \in RunIds
      /\ \/ runs[rn[p].run].status = "running"
         \/ faults # 0 /\ rn[p].pc \in Failing
      /\ runs[rn[p].run].dir = IF rn[p].pc \in FailoverPcs THEN "failover"
                               ELSE "failback"
OwnRow(p, q) ==
    rn[p].pc \in RowPcs /\ rn[q].pc \in RowPcs /\ p # q =>
      rn[p].run # rn[q].run

(* A failback withdraws a failover; the copies of that failover hold at    *)
(* least the base, then so do the final backups, then the restored VMs.    *)
BaseInv(p) ==
    LET r == rn[p] IN
    /\ r.pc \in FailbackPcs \cup {"fb_create"} =>
         r.from \in RunIds /\ runs[r.from].dir = "failover"
    /\ r.pc \in FailbackPcs =>
         \A w \in Workloads : base[r.run][w] <= ver[<<r.from, w>>]
    /\ r.pc = "fb_backup" =>
         \A w \in Workloads \ r.todo : base[r.run][w] <= r.saved[w]
    /\ r.pc = "fb_restore" =>
         /\ \A w \in Workloads : base[r.run][w] <= r.saved[w]
         /\ \A w \in Workloads \ r.todo : base[r.run][w] <= ver[<<r.run, w>>]
    /\ r.pc \in FailbackPcs \ {"fb_prepare", "fb_backup", "fb_restore"} =>
         \A w \in Workloads : base[r.run][w] <= ver[<<r.run, w>>]

KeepInv ==
    /\ TypeOK
    /\ \A p \in Runners : RowInv(p) /\ BaseInv(p)
    /\ \A p, q \in Runners : OwnRow(p, q)
    /\ FailbackKeepsBase

-----------------------------------------------------------------------------
(* The last successful run. *)

Succeeded(dir) ==
    {i \in RunIds : runs[i] = [dir |-> dir, status |-> "success"]}

(* A nonempty set of row numbers has a greatest element. *)
LEMMA Greatest ==
    ASSUME NEW S \in SUBSET (0..MaxRuns), S # {}
    PROVE  \E i \in S : \A j \in S : j <= i
<1> DEFINE T == {MaxRuns - i : i \in S}
<1>0. \A i \in S : i \in 0..MaxRuns /\ MaxRuns - i \in Nat
  BY DRAssumption
<1>1. T \subseteq Nat /\ T # {}
  BY <1>0
<1> DEFINE R == {ss \in Nat \X Nat : ss[1] < ss[2]}
<1>2. IsWellFoundedOn(R, Nat)
  BY NatLessThanWellFounded, Zenon DEF OpToRel
<1> HIDE DEF R, T
<1>3. \E x \in T : \A y \in T : ~(<<y, x>> \in R)
  BY <1>1, <1>2, WFMin, Zenon
<1>6. \E x \in T : \A y \in T : ~(y < x)
  BY <1>1, <1>3 DEF R
<1>4. PICK i \in S : \A j \in S : ~(MaxRuns - j < MaxRuns - i)
  BY <1>6 DEF T
<1>5. \A j \in S : j <= i
  BY <1>0, <1>4, DRAssumption
<1> QED
  BY <1>5

(* latest_dr_run is the greatest row that succeeded, or 0. *)
LEMMA LatestDef ==
    ASSUME NEW dir
    PROVE  /\ latest_dr_run(dir) \in {0} \cup Succeeded(dir)
           /\ latest_dr_run(dir) \in 0..MaxRuns
           /\ \A j \in Succeeded(dir) : j <= latest_dr_run(dir)
<1> DEFINE ids == {0} \cup Succeeded(dir)
<1>1. ids \in SUBSET (0..MaxRuns) /\ ids # {}
  BY DRAssumption DEF Succeeded, RunIds
<1>2. latest_dr_run(dir) = CHOOSE i \in ids : \A j \in ids : j <= i
  BY DEF latest_dr_run, Succeeded
<1>3. \E i \in ids : \A j \in ids : j <= i
  BY <1>1, Greatest
<1> HIDE DEF ids
<1>4. latest_dr_run(dir) \in ids /\ \A j \in ids : j <= latest_dr_run(dir)
  BY <1>2, <1>3
<1> QED
  BY <1>1, <1>4 DEF ids

-----------------------------------------------------------------------------
(* Helpers. *)

USE DRAssumption

(* What a control step of a command makes of its record. *)
LEMMA GotoType ==
    ASSUME TypeOK, NEW p \in Runners, NEW pc \in Pcs, Goto(p, pc)
    PROVE  /\ rn' \in [Runners -> Runner]
           /\ \A q \in Runners \ {p} : rn'[q] = rn[q]
           /\ rn'[p] = [rn[p] EXCEPT !.pc = pc]
           /\ rn'[p].pc = pc /\ rn'[p].run = rn[p].run
           /\ rn'[p].from = rn[p].from /\ rn'[p].todo = rn[p].todo
           /\ rn'[p].saved = rn[p].saved
BY DEF Goto, TypeOK, Runner

LEMMA GotoLoopType ==
    ASSUME TypeOK, NEW p \in Runners, NEW pc \in Pcs, GotoLoop(p, pc)
    PROVE  /\ rn' \in [Runners -> Runner]
           /\ \A q \in Runners \ {p} : rn'[q] = rn[q]
           /\ rn'[p].pc = pc /\ rn'[p].run = rn[p].run
           /\ rn'[p].from = rn[p].from /\ rn'[p].todo = Workloads
           /\ rn'[p].saved = rn[p].saved
BY DEF GotoLoop, TypeOK, Runner

LEMMA DoneType ==
    ASSUME TypeOK, NEW p \in Runners, Done(p)
    PROVE  /\ rn' \in [Runners -> Runner]
           /\ \A q \in Runners \ {p} : rn'[q] = rn[q]
           /\ rn'[p].pc = "idle" /\ rn'[p].run = 0
           /\ rn'[p].from = 0 /\ rn'[p].todo = {}
<1>1. Idle \in Runner
  BY DEF Idle, Runner, Pcs
<1>2. Idle.pc = "idle" /\ Idle.run = 0 /\ Idle.from = 0 /\ Idle.todo = {}
  BY DEF Idle
<1> QED
  BY <1>1, <1>2 DEF Done, TypeOK

LEMMA RoundType ==
    ASSUME TypeOK, NEW p \in Runners, NEW w \in Workloads, NEW pc \in Pcs,
           Round(p, w, pc)
    PROVE  /\ rn' \in [Runners -> Runner] /\ w \in rn[p].todo
           /\ \A q \in Runners \ {p} : rn'[q] = rn[q]
           /\ rn'[p].run = rn[p].run /\ rn'[p].from = rn[p].from
           /\ rn'[p].saved = rn[p].saved
           /\ \/ /\ rn'[p].pc = pc /\ rn'[p].todo = Workloads
                 /\ rn[p].todo = {w}
              \/ /\ rn'[p].pc = rn[p].pc
                 /\ rn'[p].todo = rn[p].todo \ {w} /\ rn[p].todo # {w}
<1>1. CASE rn[p].todo = {w}
  BY <1>1, GotoLoopType DEF Round
<1>2. CASE rn[p].todo # {w}
  <2>1. rn' = [rn EXCEPT ![p].todo = @ \ {w}] /\ w \in rn[p].todo
    BY <1>2 DEF Round
  <2> QED
    BY <2>1, <1>2 DEF TypeOK, Runner
<1> QED
  BY <1>1, <1>2

LEMMA PcsSets ==
    /\ PromotePcs \subseteq Pcs /\ FailbackPcs \subseteq Pcs
    /\ DemotePcs \subseteq Pcs
BY DEF Pcs

LEMMA CreateType ==
    ASSUME TypeOK, NEW p \in Runners, NEW pc \in Pcs,
           NEW dir \in {"failover", "failback"}, create_dr_run(p, dir, pc)
    PROVE  \E i \in RunIds :
             /\ runs' \in [RunIds -> Run] /\ rn' \in [Runners -> Runner]
             /\ base' \in [RunIds -> [Workloads -> 0..MaxWrites]]
             /\ runs[i].dir = "none"
             /\ \A j \in RunIds : j < i => runs[j].dir # "none"
             /\ runs'[i] = [dir |-> dir, status |-> "running"]
             /\ \A j \in RunIds \ {i} : runs'[j] = runs[j] /\ base'[j] = base[j]
             /\ rn'[p].pc = pc /\ rn'[p].run = i
             /\ rn'[p].from = rn[p].from /\ rn'[p].todo = rn[p].todo
             /\ \A q \in Runners \ {p} : rn'[q] = rn[q]
             /\ dir = "failback" =>
                  \A w \in Workloads : base'[i][w] = ver[<<rn[p].from, w>>]
<1>1. PICK i \in RunIds :
        /\ runs[i].dir = "none" /\ \A j \in RunIds : j < i => runs[j].dir # "none"
        /\ runs' = [runs EXCEPT ![i] = [dir |-> dir, status |-> "running"]]
        /\ rn' = [rn EXCEPT ![p].pc = pc, ![p].run = i]
        /\ base' = IF dir = "failover" THEN base
                   ELSE [base EXCEPT ![i] =
                           [w \in Workloads |-> ver[<<rn[p].from, w>>]]]
  BY DEF create_dr_run
<1>2. runs' \in [RunIds -> Run]
  BY <1>1 DEF TypeOK, Run
<1>3. /\ rn' \in [Runners -> Runner]
      /\ rn'[p].pc = pc /\ rn'[p].run = i
      /\ rn'[p].from = rn[p].from /\ rn'[p].todo = rn[p].todo
      /\ \A q \in Runners \ {p} : rn'[q] = rn[q]
  <2>1. i \in 0..MaxRuns
    BY DEF RunIds
  <2>2. rn' = [rn EXCEPT ![p].pc = pc, ![p].run = i]
    BY <1>1
  <2>3. rn \in [Runners -> Runner]
    BY DEF TypeOK
  <2> QED
    BY <2>1, <2>2, <2>3 DEF Runner
<1>4. \A w \in Workloads : ver[<<rn[p].from, w>>] \in 0..MaxWrites
  BY DEF TypeOK, Runner, VMs
<1>5. base' \in [RunIds -> [Workloads -> 0..MaxWrites]]
  BY <1>1, <1>4 DEF TypeOK
<1>6. dir = "failback" =>
        \A w \in Workloads : base'[i][w] = ver[<<rn[p].from, w>>]
  BY <1>1, <1>4 DEF TypeOK
<1>7. /\ runs'[i] = [dir |-> dir, status |-> "running"]
      /\ \A j \in RunIds \ {i} : runs'[j] = runs[j] /\ base'[j] = base[j]
  BY <1>1 DEF TypeOK
<1> QED
  BY <1>1, <1>2, <1>3, <1>5, <1>6, <1>7

LEMMA FinishType ==
    ASSUME TypeOK, NEW p \in Runners, NEW s \in {"success", "failed"},
           finish_dr_run(p, s)
    PROVE  /\ runs' \in [RunIds -> Run]
           /\ \A i \in RunIds : runs'[i].dir = runs[i].dir
           /\ \A i \in RunIds \ {rn[p].run} : runs'[i] = runs[i]
           /\ rn[p].run \in RunIds => runs'[rn[p].run].status = s
<1> DEFINE i == rn[p].run
<1>1. runs \in [RunIds -> Run] /\ runs' = [runs EXCEPT ![i].status = s]
  BY DEF finish_dr_run, TypeOK
<1>2. CASE i \in RunIds
  <2>1. runs[i] \in Run
    BY <1>1, <1>2
  <2>2. runs'[i] = [runs[i] EXCEPT !.status = s]
    BY <1>1, <1>2
  <2>3. runs'[i] \in Run /\ runs'[i].dir = runs[i].dir /\ runs'[i].status = s
    BY <2>1, <2>2 DEF Run
  <2>4. \A j \in RunIds \ {i} : runs'[j] = runs[j]
    BY <1>1, <1>2
  <2>5. runs' \in [RunIds -> Run]
    BY <1>1, <1>2, <2>3, <2>4
  <2> QED
    BY <2>3, <2>4, <2>5
<1>3. CASE i \notin RunIds
  <2>1. runs' = runs
    BY <1>1, <1>3
  <2> QED
    BY <1>1, <1>3, <2>1
<1> QED
  BY <1>2, <1>3

(* No fault is ever taken back. *)
LEMMA FaultsStay ==
    ASSUME TypeOK, [Next]_vars, faults' = 0
    PROVE  faults = 0
<1>0. faults \in Nat
  BY DEF TypeOK
<1>1. ASSUME NEW p \in Runners,
             \/ Promote(p) \/ Failback(p) \/ Demote(p) \/ Watch(p)
             \/ CommandStep(p) \/ Crash(p)
      PROVE  faults' = faults \/ faults' = faults + 1
  <2>1. CASE Promote(p) \/ Failback(p) \/ Demote(p) \/ Watch(p) \/ Crash(p)
    BY <2>1 DEF Promote, Failback, Demote, Watch, Crash
  <2>2. CASE PromoteStep(p)
    BY <2>2 DEF PromoteStep, _fence_primary, CreateFailover, FenceFails,
         PrepareDR, RollbackRoute, RestoreWorkload, Boot, ActivateDR,
         RollbackRaises, FinishFailover, PromoteRaises, RollbackPower
  <2>3. CASE FailbackStep(p)
    <3>1. ASSUME NEW w \in Workloads, FinalBackup(p, w)
          PROVE  faults' = faults
      BY <3>1, Zenon DEF FinalBackup
    <3>2. CASE \E w \in Workloads :
                 \/ RestoreToPrimary(p, w)
                 \/ \E b \in BOOLEAN : PowerOffDR(p, w, b) \/ BootPrimary(p, w, b)
      BY <3>2 DEF RestoreToPrimary, PowerOffDR, BootPrimary
    <3>3. CASE \/ CreateFailback(p) \/ PreparePrimary(p) \/ WithdrawDR(p)
               \/ ActivatePrimary(p) \/ FailbackRaises(p)
               \/ \E b \in BOOLEAN : FinishFailback(p, b) \/ FailbackFailed(p, b)
      BY <3>3 DEF CreateFailback, PreparePrimary, WithdrawDR, ActivatePrimary,
           FinishFailback, FailbackRaises, FailbackFailed
    <3> QED
      BY <2>3, <3>1, <3>2, <3>3, Zenon DEF FailbackStep
  <2>4. CASE \/ Demoted(p) \/ DemoteRaises(p) \/ PromoteRefused(p)
             \/ \E b \in BOOLEAN : Probe(p, b)
    BY <2>4 DEF Demoted, DemoteRaises, PromoteRefused, Probe
  <2> QED
    BY <1>1, <2>1, <2>2, <2>3, <2>4, Zenon DEF CommandStep
<1>2. faults' = faults \/ faults' = faults + 1
  <2>1. CASE \E p \in Runners :
               \/ Promote(p) \/ Failback(p) \/ Demote(p) \/ Watch(p)
               \/ CommandStep(p) \/ Crash(p)
    BY <1>1, <2>1
  <2>2. CASE \/ \E b \in BOOLEAN : Maintenance(b)
             \/ IsolatePrimary
             \/ \E v \in VMs : Serve(v)
             \/ UNCHANGED vars
    BY <2>2 DEF Maintenance, IsolatePrimary, Serve, vars
  <2> QED
    BY <2>1, <2>2, Zenon DEF Next
<1> QED
  BY <1>0, <1>2

-----------------------------------------------------------------------------
(* FailbackKeepsBase. *)

(* What a step of command p leaves to the others: it changes the row it    *)
(* made or makes a new one, and lowers the content of no VM but its own.   *)
StepOf(p) ==
    /\ \A q \in Runners \ {p} : rn'[q] = rn[q]
    /\ rn'[p].pc \in RowPcs =>
         \/ rn[p].pc \in RowPcs /\ rn'[p].run = rn[p].run
         \/ rn'[p].run \in RunIds /\ runs[rn'[p].run].dir = "none"
    /\ \A i \in RunIds :
         \/ runs'[i] = runs[i] /\ base'[i] = base[i]
         \/ runs[i].dir = "none" /\ runs'[i].status = "running"
         \/ /\ rn[p].pc \in RowPcs /\ i = rn[p].run
            /\ runs'[i].dir = runs[i].dir /\ base'[i] = base[i]
            /\ runs'[i] = [dir |-> "failback", status |-> "success"] =>
                 \A w \in Workloads : base'[i][w] <= ver'[<<i, w>>]
    /\ \A v \in VMs :
         \/ ver[v] <= ver'[v]
         \/ rn[p].pc \in FailbackPcs /\ v[1] = rn[p].run

LEMMA Numbers ==
    ASSUME TypeOK, NEW i \in 0..MaxRuns, NEW w \in Workloads
    PROVE  /\ <<i, w>> \in VMs /\ ver[<<i, w>>] \in 0..MaxWrites
           /\ ver[<<i, w>>] \in Int
           /\ i \in RunIds => base[i][w] \in Int
BY DEF TypeOK, VMs

LEMMA RunnerType ==
    ASSUME TypeOK, NEW p \in Runners
    PROVE  /\ rn[p] \in Runner /\ rn[p].pc \in Pcs
           /\ rn[p].run \in 0..MaxRuns /\ rn[p].from \in 0..MaxRuns
           /\ rn[p].todo \subseteq Workloads
           /\ \A w \in Workloads : rn[p].saved[w] \in 0..MaxWrites
BY DEF TypeOK, Runner

LEMMA RowType ==
    ASSUME TypeOK, NEW i \in RunIds
    PROVE  /\ runs[i] \in Run /\ i \in 0..MaxRuns
           /\ runs[i] = [dir |-> runs[i].dir, status |-> runs[i].status]
BY DEF TypeOK, Run, RunIds

LEMMA PcDistinct ==
    /\ FailbackPcs \subseteq RowPcs /\ FailoverPcs \subseteq RowPcs
    /\ FailbackPcs \cap FailoverPcs = {} /\ "fb_fail" \in RowPcs
    /\ "fb_create" \notin RowPcs /\ "fb_fail" \notin FailoverPcs \cup FailbackPcs
BY DEF RowPcs, FailoverPcs, FailbackPcs, PromotePcs

LEMMA FailingPcs ==
    /\ Failing \subseteq RowPcs /\ Failing \cap FailbackPcs = {}
    /\ Failing \cap PromotePcs = {}
BY DEF Failing, RowPcs, FailoverPcs, FailbackPcs, PromotePcs

LEMMA Frame ==
    ASSUME KeepInv, TypeOK', NEW p \in Runners, StepOf(p),
           faults' = 0 => faults = 0, RowInv(p)', BaseInv(p)'
    PROVE  KeepInv'
<1>0. /\ TypeOK /\ FailbackKeepsBase
      /\ \A q \in Runners : RowInv(q) /\ BaseInv(q)
      /\ \A q, o \in Runners : OwnRow(q, o)
  BY DEF KeepInv
<1>1. ASSUME NEW q \in Runners \ {p}
      PROVE  rn'[q] = rn[q] /\ RowInv(q) /\ BaseInv(q) /\ OwnRow(p, q)
  BY <1>0, <1>1 DEF StepOf
<1>2. ASSUME NEW q \in Runners \ {p}, rn[q].pc \in RowPcs
      PROVE  /\ rn[q].run \in RunIds
             /\ runs'[rn[q].run] = runs[rn[q].run]
             /\ base'[rn[q].run] = base[rn[q].run]
             /\ \A w \in Workloads : ver[<<rn[q].run, w>>] <= ver'[<<rn[q].run, w>>]
  <2>1. rn[q].run \in RunIds /\ runs[rn[q].run].dir # "none"
    BY <1>1, <1>2 DEF RowInv
  <2>2. rn[p].pc \in RowPcs => rn[p].run # rn[q].run
    BY <1>1, <1>2 DEF OwnRow
  <2>3. runs'[rn[q].run] = runs[rn[q].run] /\ base'[rn[q].run] = base[rn[q].run]
    BY <2>1, <2>2 DEF StepOf
  <2>4. ASSUME NEW w \in Workloads
        PROVE  ver[<<rn[q].run, w>>] <= ver'[<<rn[q].run, w>>]
    <3>1. <<rn[q].run, w>> \in VMs
      BY <2>1, <1>0, Numbers, RowType
    <3> QED
      BY <3>1, <2>2, PcDistinct DEF StepOf
  <2> QED
    BY <2>1, <2>3, <2>4
<1>3. ASSUME NEW q \in Runners \ {p}
      PROVE  RowInv(q)'
  <2>1. rn'[q] = rn[q] /\ RowInv(q)
    BY <1>1
  <2> QED
    BY <2>1, <1>2 DEF RowInv
<1>4. ASSUME NEW q \in Runners \ {p},
             rn[q].pc \in FailbackPcs \cup {"fb_create"}
      PROVE  /\ rn[q].from \in RunIds /\ runs'[rn[q].from].dir = "failover"
             /\ \A w \in Workloads :
                  ver[<<rn[q].from, w>>] <= ver'[<<rn[q].from, w>>]
  <2>1. rn[q].from \in RunIds /\ runs[rn[q].from].dir = "failover"
    BY <1>1, <1>4 DEF BaseInv
  <2>2. runs'[rn[q].from].dir = "failover"
    BY <2>1 DEF StepOf
  <2>3. rn[p].pc \in FailbackPcs => rn[p].run # rn[q].from
    BY <1>0, <2>1, PcDistinct DEF RowInv
  <2>4. ASSUME NEW w \in Workloads
        PROVE  ver[<<rn[q].from, w>>] <= ver'[<<rn[q].from, w>>]
    <3>1. <<rn[q].from, w>> \in VMs
      BY <2>1, <1>0, Numbers, RowType
    <3> QED
      BY <3>1, <2>3 DEF StepOf
  <2> QED
    BY <2>1, <2>2, <2>4
<1>5. ASSUME NEW q \in Runners \ {p}
      PROVE  BaseInv(q)'
  <2>1. rn'[q] = rn[q] /\ BaseInv(q)
    BY <1>1
  <2>2. \A w \in Workloads, i \in RunIds :
          /\ ver[<<i, w>>] \in Int /\ ver'[<<i, w>>] \in Int
          /\ base[i][w] \in Int
    <3>1. ASSUME NEW w \in Workloads, NEW i \in RunIds
          PROVE  /\ ver[<<i, w>>] \in Int /\ ver'[<<i, w>>] \in Int
                 /\ base[i][w] \in Int
      <4>1. i \in 0..MaxRuns
        BY <1>0, RowType
      <4> QED
        BY <4>1, <1>0 DEF TypeOK, VMs
    <3> QED
      BY <3>1
  <2>3. rn[q].pc \in FailbackPcs =>
          /\ rn[q].run \in RunIds /\ rn[q].from \in RunIds
          /\ base'[rn[q].run] = base[rn[q].run]
          /\ \A w \in Workloads :
               /\ ver[<<rn[q].run, w>>] <= ver'[<<rn[q].run, w>>]
               /\ ver[<<rn[q].from, w>>] <= ver'[<<rn[q].from, w>>]
    BY <1>2, <1>4, PcDistinct
  <2>4. rn[q].pc \in FailbackPcs =>
          \A w \in Workloads : base'[rn[q].run][w] <= ver'[<<rn[q].from, w>>]
    <3>1. ASSUME NEW w \in Workloads, rn[q].pc \in FailbackPcs
          PROVE  base'[rn[q].run][w] <= ver'[<<rn[q].from, w>>]
      <4> DEFINE b == base[rn[q].run][w]
                 x == ver[<<rn[q].from, w>>]
                 y == ver'[<<rn[q].from, w>>]
      <4>1. b \in Int /\ x \in Int /\ y \in Int
        BY <3>1, <2>2, <2>3
      <4>2. b <= x /\ x <= y /\ base'[rn[q].run][w] = b
        BY <3>1, <2>1, <2>3 DEF BaseInv
      <4> HIDE DEF b, x, y
      <4>3. b <= y
        BY <4>1, <4>2
      <4> QED
        BY <4>2, <4>3 DEF y
    <3> QED
      BY <3>1
  <2>5. rn[q].pc \in FailbackPcs => \A w \in Workloads :
          base[rn[q].run][w] <= ver[<<rn[q].run, w>>] =>
            base'[rn[q].run][w] <= ver'[<<rn[q].run, w>>]
    <3>1. ASSUME NEW w \in Workloads, rn[q].pc \in FailbackPcs,
                 base[rn[q].run][w] <= ver[<<rn[q].run, w>>]
          PROVE  base'[rn[q].run][w] <= ver'[<<rn[q].run, w>>]
      <4> DEFINE b == base[rn[q].run][w]
                 x == ver[<<rn[q].run, w>>]
                 y == ver'[<<rn[q].run, w>>]
      <4>1. b \in Int /\ x \in Int /\ y \in Int
        BY <3>1, <2>2, <2>3
      <4>2. b <= x /\ x <= y /\ base'[rn[q].run][w] = b
        BY <3>1, <2>3
      <4> HIDE DEF b, x, y
      <4>3. b <= y
        BY <4>1, <4>2
      <4> QED
        BY <4>2, <4>3 DEF y
    <3> QED
      BY <3>1
  <2>6. {"fb_backup", "fb_restore"} \subseteq FailbackPcs
    BY DEF FailbackPcs
  <2> QED
    BY <2>1, <2>3, <2>4, <2>5, <2>6, <1>4 DEF BaseInv
<1>6. \A q, o \in Runners : OwnRow(q, o)'
  <2>1. ASSUME NEW q \in Runners, NEW o \in Runners, q # o,
               rn'[q].pc \in RowPcs, rn'[o].pc \in RowPcs
        PROVE  rn'[q].run # rn'[o].run
    <3>1. CASE q # p /\ o # p
      BY <3>1, <2>1, <1>1, <1>0 DEF OwnRow
    <3>2. ASSUME NEW x \in Runners \ {p}, rn[x].pc \in RowPcs,
                 rn'[p].pc \in RowPcs
          PROVE  rn'[p].run # rn[x].run
      <4>1. runs[rn[x].run].dir # "none"
        BY <1>1, <3>2 DEF RowInv
      <4>2. rn[p].pc \in RowPcs => rn[p].run # rn[x].run
        BY <1>1, <3>2 DEF OwnRow
      <4> QED
        BY <4>1, <4>2, <3>2 DEF StepOf
    <3> QED
      BY <3>1, <3>2, <2>1, <1>1
  <2> QED
    BY <2>1 DEF OwnRow
<1>7. FailbackKeepsBase'
  <2>1. ASSUME NEW i \in RunIds, NEW w \in Workloads,
               runs'[i] = [dir |-> "failback", status |-> "success"]
        PROVE  ver'[<<i, w>>] >= base'[i][w]
    <3>0. i \in 0..MaxRuns /\ <<i, w>> \in VMs
      BY <1>0, RowType, Numbers
    <3>1. /\ ver[<<i, w>>] \in Int /\ ver'[<<i, w>>] \in Int
          /\ base[i][w] \in Int /\ base'[i][w] \in Int
      BY <3>0, <1>0 DEF TypeOK
    <3>2. CASE runs'[i] = runs[i] /\ base'[i] = base[i]
      <4>0. runs[i] = [dir |-> "failback", status |-> "success"]
        BY <3>2, <2>1
      <4>1. ver[<<i, w>>] >= base[i][w] /\ runs[i].status = "success"
        BY <4>0, <1>0 DEF FailbackKeepsBase
      <4>2. rn[p].pc \in FailbackPcs => rn[p].run # i
        BY <4>1, <1>0, PcDistinct, FailingPcs DEF RowInv
      <4>3. ver[<<i, w>>] <= ver'[<<i, w>>]
        BY <4>2, <3>0 DEF StepOf
      <4> QED
        BY <4>1, <4>3, <3>1, <3>2
    <3>3. CASE ~(runs'[i] = runs[i] /\ base'[i] = base[i])
      <4>1. base'[i][w] <= ver'[<<i, w>>]
        BY <3>3, <2>1 DEF StepOf
      <4> QED
        BY <4>1, <3>1
    <3> QED
      BY <3>2, <3>3
  <2> QED
    BY <2>1 DEF FailbackKeepsBase
<1> QED
  BY <1>3, <1>5, <1>6, <1>7 DEF KeepInv

(* What each step of command p has to establish. *)
Kept(p) == TypeOK' /\ StepOf(p) /\ RowInv(p)' /\ BaseInv(p)'

NoRow == FailbackPcs \cup {"fb_create"} \cup RowPcs

LEMMA Leaves ==
    ASSUME KeepInv, NEW p \in Runners, TypeOK', runs' = runs, base' = base,
           ver' = ver, \A q \in Runners \ {p} : rn'[q] = rn[q],
           rn'[p].pc \notin NoRow
    PROVE  Kept(p)
<1>1. \A v \in VMs : ver[v] <= ver'[v]
  BY DEF KeepInv, TypeOK
<1>2. StepOf(p)
  BY <1>1 DEF StepOf, NoRow
<1>3. RowInv(p)'
  BY DEF RowInv, NoRow
<1>4. {"fb_backup", "fb_restore"} \subseteq FailbackPcs
  BY DEF FailbackPcs
<1>5. BaseInv(p)'
  BY <1>4 DEF BaseInv, NoRow
<1> QED
  BY <1>2, <1>3, <1>5 DEF Kept

LEMMA Advances ==
    ASSUME KeepInv, NEW p \in Runners, TypeOK', runs' = runs, base' = base,
           ver' = ver, \A q \in Runners \ {p} : rn'[q] = rn[q],
           rn[p].pc \in RowPcs, rn'[p].run = rn[p].run,
           rn'[p].pc \in RowPcs,
           rn'[p].pc \in FailoverPcs <=> rn[p].pc \in FailoverPcs,
           rn[p].pc \in Failing => rn'[p].pc \in Failing,
           faults' = 0 => faults = 0, BaseInv(p)'
    PROVE  Kept(p)
<1>1. \A v \in VMs : ver[v] <= ver'[v]
  BY DEF KeepInv, TypeOK
<1>2. StepOf(p)
  BY <1>1 DEF StepOf
<1>3. RowInv(p)'
  BY DEF RowInv, KeepInv
<1> QED
  BY <1>2, <1>3 DEF Kept

LEMMA NotFailback ==
    ASSUME NEW p, rn'[p].pc \notin FailbackPcs \cup {"fb_create"}
    PROVE  BaseInv(p)'
<1>1. {"fb_backup", "fb_restore"} \subseteq FailbackPcs
  BY DEF FailbackPcs
<1> QED
  BY <1>1 DEF BaseInv

LEMMA PromoteKept ==
    ASSUME KeepInv, NEW p \in Runners, Promote(p) \/ Watch(p)
    PROVE  Kept(p)
<1>1. PICK pc \in {"fence", "probe"} : Goto(p, pc)
  BY DEF Promote, Watch
<1>2. pc \in Pcs /\ pc \notin NoRow
  BY DEF Pcs, NoRow, RowPcs, FailoverPcs, FailbackPcs, PromotePcs
<1>3. TypeOK /\ TypeOK'
  BY <1>1, <1>2, GotoType DEF KeepInv, TypeOK, Promote, Watch, site, ran
<1> QED
  BY <1>1, <1>2, <1>3, GotoType, Leaves DEF Promote, Watch, site, ran

LEMMA RefusedKept ==
    ASSUME KeepInv, NEW p \in Runners,
           PromoteRefused(p) \/ DemoteRaises(p)
             \/ \E b \in BOOLEAN : FenceFails(p, b)
    PROVE  Kept(p)
<1>1. Done(p)
  BY DEF PromoteRefused, DemoteRaises, FenceFails
<1>2. /\ runs' = runs /\ base' = base /\ ver' = ver /\ copies' = copies
      /\ demoted' = demoted /\ maintenance' = maintenance
      /\ failures' = failures /\ faults' = faults /\ abandoned' = abandoned
      /\ on' \subseteq on /\ route' \subseteq route
  BY DEF PromoteRefused, DemoteRaises, FenceFails, site, ran
<1>3. TypeOK /\ TypeOK'
  BY <1>1, <1>2, DoneType DEF KeepInv, TypeOK
<1>4. rn'[p].pc \notin NoRow
  BY <1>1, <1>3, DoneType
     DEF NoRow, RowPcs, FailoverPcs, FailbackPcs, PromotePcs
<1> QED
  BY <1>1, <1>2, <1>3, <1>4, DoneType, Leaves

(* The steps that abandon a row: the command is killed, or an except       *)
(* clause raises.                                                          *)
Abandons(p) ==
    \/ Crash(p)
    \/ \E b \in BOOLEAN : RollbackRaises(p, b)
    \/ FailbackFailed(p, FALSE)
    \/ \E stuck \in SUBSET ({rn[p].run} \X Workloads) :
         RollbackPower(p, stuck, FALSE)

LEMMA AbandonsDef ==
    ASSUME TypeOK, NEW p \in Runners, Abandons(p)
    PROVE  /\ runs' = runs /\ base' = base /\ ver' = ver /\ copies' = copies
           /\ demoted' = demoted /\ maintenance' = maintenance
           /\ failures' = failures /\ on' \subseteq on /\ route' \subseteq route
           /\ Done(p) /\ faults' \in 0..MaxFaults
           /\ abandoned' = IF rn[p].pc \in RowPcs
                            THEN abandoned \cup {rn[p].run} ELSE abandoned
<1>1. CASE Crash(p)
  BY <1>1 DEF Crash, site, TypeOK
<1>2. CASE \E b \in BOOLEAN : RollbackRaises(p, b)
  <2>1. rn[p].pc \in RowPcs
    BY <1>2 DEF RollbackRaises, RowPcs, FailoverPcs
  <2> QED
    BY <1>2, <2>1 DEF RollbackRaises, Settle, TypeOK
<1>3. CASE FailbackFailed(p, FALSE)
  <2>1. rn[p].pc \in RowPcs
    BY <1>3 DEF FailbackFailed, RowPcs
  <2> QED
    BY <1>3, <2>1 DEF FailbackFailed, Settle, site, TypeOK
<1>4. CASE \E stuck \in SUBSET ({rn[p].run} \X Workloads) :
             RollbackPower(p, stuck, FALSE)
  <2>1. rn[p].pc \in RowPcs
    BY <1>4 DEF RollbackPower, RowPcs, FailoverPcs
  <2> QED
    BY <1>4, <2>1 DEF RollbackPower, Settle, TypeOK
<1> QED
  BY <1>1, <1>2, <1>3, <1>4 DEF Abandons

LEMMA AbandonsKept ==
    ASSUME KeepInv, NEW p \in Runners, Abandons(p)
    PROVE  Kept(p)
<1>0. TypeOK /\ RowInv(p)
  BY DEF KeepInv
<1>1. rn[p].pc \in RowPcs => rn[p].run \in RunIds
  BY <1>0 DEF RowInv
<1>2. abandoned' \subseteq RunIds
  BY <1>0, <1>1, AbandonsDef DEF TypeOK
<1>3. TypeOK'
  BY <1>0, <1>2, AbandonsDef, DoneType DEF TypeOK
<1>4. rn'[p].pc \notin NoRow
  BY <1>0, AbandonsDef, DoneType
     DEF NoRow, RowPcs, FailoverPcs, FailbackPcs, PromotePcs
<1> QED
  BY <1>0, <1>3, <1>4, AbandonsDef, DoneType, Leaves

LEMMA FenceKept ==
    ASSUME KeepInv, NEW p \in Runners, _fence_primary(p)
    PROVE  Kept(p)
<1>1. "create" \in Pcs /\ "create" \notin NoRow
  BY DEF Pcs, NoRow, RowPcs, FailoverPcs, FailbackPcs, PromotePcs
<1>2. TypeOK /\ TypeOK'
  BY <1>1, GotoType DEF KeepInv, TypeOK, _fence_primary, ran
<1> QED
  BY <1>1, <1>2, GotoType, Leaves DEF _fence_primary, ran

LEMMA ProbeKept ==
    ASSUME KeepInv, NEW p \in Runners, NEW b \in BOOLEAN, Probe(p, b)
    PROVE  Kept(p)
<1>1. {"promote", "idle"} \subseteq Pcs /\ {"promote", "idle"} \cap NoRow = {}
  BY DEF Pcs, NoRow, RowPcs, FailoverPcs, FailbackPcs, PromotePcs
<1>2. failures' \in 0..Threshold
  BY DEF Probe, KeepInv, TypeOK
<1>3. TypeOK
  BY DEF KeepInv
<1>4. Goto(p, "promote") \/ Done(p)
  BY DEF Probe
<1>5. /\ rn' \in [Runners -> Runner] /\ rn'[p].pc \in {"promote", "idle"}
      /\ \A q \in Runners \ {p} : rn'[q] = rn[q]
  BY <1>1, <1>3, <1>4, GotoType, DoneType
<1>6. TypeOK'
  BY <1>2, <1>5 DEF KeepInv, TypeOK, Probe, site
<1> QED
  BY <1>1, <1>5, <1>6, Leaves DEF Probe, site

LEMMA DemoteKept ==
    ASSUME KeepInv, NEW p \in Runners, Demote(p) \/ Demoted(p)
    PROVE  Kept(p)
<1>0. TypeOK
  BY DEF KeepInv
<1>1. CASE Demoted(p)
  <2>1. Done(p)
    BY <1>1 DEF Demoted
  <2>2. demoted' \in [RunIds -> {"no", "begun", "done"}]
    BY <1>0, <1>1 DEF Demoted, TypeOK
  <2>3. TypeOK'
    BY <1>0, <1>1, <2>1, <2>2, DoneType DEF Demoted, TypeOK, site
  <2>4. rn'[p].pc \notin NoRow
    BY <1>0, <2>1, DoneType
       DEF NoRow, RowPcs, FailoverPcs, FailbackPcs, PromotePcs
  <2> QED
    BY <1>0, <1>1, <2>1, <2>3, <2>4, DoneType, Leaves DEF Demoted, site
<1>2. CASE Demote(p)
  <2>1. "demote" \in Pcs /\ "demote" \notin NoRow
    BY DEF Pcs, NoRow, RowPcs, FailoverPcs, FailbackPcs, PromotePcs, DemotePcs
  <2>2. latest_dr_run("failover") \in 0..MaxRuns
    BY <1>0, LatestDef DEF RunIds
  <2>3. rn' = [rn EXCEPT ![p].pc = "demote",
                         ![p].from = latest_dr_run("failover")]
    BY <1>2 DEF Demote
  <2>4. /\ rn' \in [Runners -> Runner] /\ rn'[p].pc = "demote"
        /\ \A q \in Runners \ {p} : rn'[q] = rn[q]
    BY <1>0, <2>1, <2>2, <2>3 DEF TypeOK, Runner
  <2>5. TypeOK'
    BY <1>0, <1>2, <2>4 DEF Demote, TypeOK, site, ran
  <2> QED
    BY <1>2, <2>1, <2>4, <2>5, Leaves DEF Demote, site, ran
<1> QED
  BY <1>1, <1>2

LEMMA PromoteStepKept ==
    ASSUME KeepInv, NEW p \in Runners,
           \/ ActivateDR(p) \/ PromoteRaises(p)
           \/ \E b \in BOOLEAN : PrepareDR(p, b) \/ RollbackRoute(p, b)
           \/ \E w \in Workloads : \/ RestoreWorkload(p, w)
                                   \/ \E b \in BOOLEAN : Boot(p, w, b)
    PROVE  Kept(p)
<1>0. TypeOK /\ rn[p].run \in 0..MaxRuns
  BY RunnerType DEF KeepInv
<1>1. {"prepare", "restore", "activate", "boot", "booted", "rollback",
       "poweroff"} \subseteq FailoverPcs /\ FailoverPcs \subseteq Pcs
  BY DEF FailoverPcs, PromotePcs, Pcs
<1>2. /\ \/ \E pc \in FailoverPcs : Goto(p, pc) \/ GotoLoop(p, pc)
         \/ \E w \in Workloads : Round(p, w, "activate") \/ Round(p, w, "booted")
      /\ rn[p].pc \in FailoverPcs
  BY <1>1 DEF PrepareDR, RestoreWorkload, ActivateDR, Boot, PromoteRaises,
              RollbackRoute, PromotePcs, FailoverPcs
<1>3. /\ rn' \in [Runners -> Runner] /\ rn'[p].pc \in FailoverPcs
      /\ rn'[p].run = rn[p].run /\ \A q \in Runners \ {p} : rn'[q] = rn[q]
  <2>1. CASE \E pc \in FailoverPcs : Goto(p, pc)
    BY <1>0, <1>1, <2>1, GotoType
  <2>2. CASE \E pc \in FailoverPcs : GotoLoop(p, pc)
    BY <1>0, <1>1, <2>2, GotoLoopType
  <2>3. CASE \E w \in Workloads : \/ Round(p, w, "activate")
                                  \/ Round(p, w, "booted")
    <3>1. PICK w \in Workloads, pc \in FailoverPcs : Round(p, w, pc)
      BY <1>1, <2>3
    <3>2. pc \in Pcs
      BY <1>1
    <3> QED
      BY <1>0, <1>2, <3>1, <3>2, RoundType
  <2> QED
    BY <1>2, <2>1, <2>2, <2>3
<1>4. \A w \in Workloads : <<rn[p].run, w>> \in VMs
  BY <1>0 DEF VMs
<1>5. /\ runs' = runs /\ base' = base /\ ver' = ver /\ copies' \subseteq VMs
      /\ demoted' = demoted /\ maintenance' = maintenance
      /\ failures' = failures /\ on' \subseteq VMs
      /\ route' \subseteq {"primary", "dr"} /\ abandoned' = abandoned
  BY <1>0, <1>4 DEF PrepareDR, RestoreWorkload, ActivateDR, Boot,
       PromoteRaises, RollbackRoute, site, ran, TypeOK
<1>6. faults' \in 0..MaxFaults
  BY <1>0 DEF PrepareDR, RestoreWorkload, ActivateDR, Boot,
       PromoteRaises, RollbackRoute, TypeOK
<1>7. TypeOK'
  BY <1>0, <1>3, <1>5, <1>6 DEF TypeOK
<1>8. BaseInv(p)'
  BY <1>3, NotFailback, PcDistinct DEF FailoverPcs, PromotePcs
<1>9. rn[p].pc \in Failing => rn'[p].pc \in Failing
  <2>1. SUFFICES ASSUME rn[p].pc \in Failing
                 PROVE  rn'[p].pc \in Failing
    OBVIOUS
  <2>2. Goto(p, "poweroff")
    BY <2>1, FailingPcs DEF PrepareDR, RestoreWorkload, ActivateDR, Boot,
         PromoteRaises, RollbackRoute, PromotePcs
  <2> QED
    BY <1>0, <1>1, <2>2, GotoType DEF Failing
<1>10. faults' = 0 => faults = 0
  BY <1>0 DEF PrepareDR, RestoreWorkload, ActivateDR, Boot,
       PromoteRaises, RollbackRoute, TypeOK
<1> QED
  BY <1>2, <1>3, <1>5, <1>7, <1>8, <1>9, <1>10, Advances, PcDistinct

LEMMA CreateFailoverKept ==
    ASSUME KeepInv, NEW p \in Runners, CreateFailover(p)
    PROVE  Kept(p)
<1>0. TypeOK
  BY DEF KeepInv
<1>1. create_dr_run(p, "failover", "prepare")
  BY DEF CreateFailover
<1>2. "prepare" \in Pcs /\ "prepare" \in FailoverPcs
  BY DEF Pcs, PromotePcs, FailoverPcs
<1>3. PICK i \in RunIds :
        /\ runs' \in [RunIds -> Run] /\ rn' \in [Runners -> Runner]
        /\ base' \in [RunIds -> [Workloads -> 0..MaxWrites]]
        /\ runs[i].dir = "none"
        /\ runs'[i] = [dir |-> "failover", status |-> "running"]
        /\ \A j \in RunIds \ {i} : runs'[j] = runs[j] /\ base'[j] = base[j]
        /\ rn'[p].pc = "prepare" /\ rn'[p].run = i
        /\ \A q \in Runners \ {p} : rn'[q] = rn[q]
  BY <1>0, <1>1, <1>2, CreateType
<1>4. TypeOK'
  BY <1>0, <1>3 DEF TypeOK, CreateFailover, site
<1>5. RowInv(p)'
  BY <1>2, <1>3 DEF RowInv
<1>6. BaseInv(p)'
  BY <1>2, <1>3, NotFailback, PcDistinct
<1>7. \A v \in VMs : ver[v] <= ver'[v]
  BY <1>0 DEF CreateFailover, site, TypeOK
<1>8. StepOf(p)
  BY <1>3, <1>7 DEF StepOf
<1> QED
  BY <1>4, <1>5, <1>6, <1>8 DEF Kept

LEMMA CreateFailbackKept ==
    ASSUME KeepInv, NEW p \in Runners, CreateFailback(p)
    PROVE  Kept(p)
<1>0. TypeOK /\ rn[p].pc = "fb_create" /\ BaseInv(p)
  BY DEF KeepInv, CreateFailback
<1>1. create_dr_run(p, "failback", "fb_prepare")
  BY DEF CreateFailback
<1>2. "fb_prepare" \in Pcs /\ "fb_prepare" \in FailbackPcs
  BY DEF Pcs, FailbackPcs
<1>3. PICK i \in RunIds :
        /\ runs' \in [RunIds -> Run] /\ rn' \in [Runners -> Runner]
        /\ base' \in [RunIds -> [Workloads -> 0..MaxWrites]]
        /\ runs[i].dir = "none"
        /\ runs'[i] = [dir |-> "failback", status |-> "running"]
        /\ \A j \in RunIds \ {i} : runs'[j] = runs[j] /\ base'[j] = base[j]
        /\ rn'[p].pc = "fb_prepare" /\ rn'[p].run = i
        /\ rn'[p].from = rn[p].from
        /\ \A q \in Runners \ {p} : rn'[q] = rn[q]
        /\ \A w \in Workloads : base'[i][w] = ver[<<rn[p].from, w>>]
  BY <1>0, <1>1, <1>2, CreateType
<1>4. TypeOK'
  BY <1>0, <1>3 DEF TypeOK, CreateFailback, site
<1>5. RowInv(p)'
  BY <1>2, <1>3, PcDistinct DEF RowInv
<1>6. ver' = ver
  BY DEF CreateFailback, site
<1>7. rn[p].from \in RunIds /\ runs[rn[p].from].dir = "failover"
  BY <1>0 DEF BaseInv
<1>8. runs'[rn[p].from].dir = "failover"
  BY <1>3, <1>7
<1>9. ASSUME NEW w \in Workloads
      PROVE  base'[i][w] <= ver'[<<rn[p].from, w>>]
  <2>1. rn[p].from \in 0..MaxRuns
    BY <1>0, RunnerType
  <2>2. ver[<<rn[p].from, w>>] \in Int
    BY <1>0, <2>1, Numbers
  <2>3. base'[i][w] = ver'[<<rn[p].from, w>>]
    BY <1>3, <1>6
  <2> QED
    BY <2>2, <2>3, <1>6
<1>10. BaseInv(p)'
  BY <1>3, <1>7, <1>8, <1>9 DEF BaseInv
<1>11. \A v \in VMs : ver[v] <= ver'[v]
  BY <1>0, <1>6 DEF TypeOK
<1>12. StepOf(p)
  BY <1>3, <1>11 DEF StepOf
<1> QED
  BY <1>4, <1>5, <1>10, <1>12 DEF Kept

(* The steps that settle a row and end the command. *)
Settles(p) ==
    \/ FinishFailover(p, TRUE) \/ FinishFailback(p, TRUE)
    \/ FailbackFailed(p, TRUE)
    \/ \E stuck \in SUBSET ({rn[p].run} \X Workloads) :
         RollbackPower(p, stuck, TRUE)

LEMMA SettleKept ==
    ASSUME KeepInv, NEW p \in Runners, Settles(p)
    PROVE  Kept(p)
<1>0. TypeOK /\ RowInv(p) /\ BaseInv(p)
  BY DEF KeepInv
<1>1. PICK s \in {"success", "failed"} :
        /\ finish_dr_run(p, s) /\ Done(p)
        /\ \/ rn[p].pc \in FailoverPcs \cup {"fb_booted"}
           \/ rn[p].pc = "fb_fail" /\ s = "failed"
  <2>1. {"booted", "poweroff"} \subseteq FailoverPcs
    BY DEF FailoverPcs, PromotePcs
  <2>2. CASE FinishFailover(p, TRUE)
    BY <2>1, <2>2 DEF FinishFailover
  <2>3. CASE FinishFailback(p, TRUE)
    BY <2>3 DEF FinishFailback
  <2>4. CASE FailbackFailed(p, TRUE)
    BY <2>4 DEF FailbackFailed, Settle
  <2>5. CASE \E stuck \in SUBSET ({rn[p].run} \X Workloads) :
               RollbackPower(p, stuck, TRUE)
    BY <2>1, <2>5 DEF RollbackPower, Settle
  <2> QED
    BY <2>2, <2>3, <2>4, <2>5 DEF Settles
<1>2. /\ base' = base /\ ver' = ver /\ copies' = copies
      /\ demoted' = demoted /\ maintenance' = maintenance
      /\ failures' = failures /\ on' \subseteq on /\ route' = route
      /\ abandoned' = abandoned
  BY DEF Settles, FinishFailover, FinishFailback, FailbackFailed,
         RollbackPower, Settle, site, ran
<1>3. faults' \in 0..MaxFaults
  <2>1. CASE \/ FinishFailover(p, TRUE) \/ FinishFailback(p, TRUE)
             \/ FailbackFailed(p, TRUE)
    BY <1>0, <2>1 DEF FinishFailover, FinishFailback, FailbackFailed, TypeOK
  <2>2. ASSUME NEW stuck \in SUBSET ({rn[p].run} \X Workloads),
               RollbackPower(p, stuck, TRUE)
        PROVE  faults' \in 0..MaxFaults
    BY <1>0, <2>2 DEF RollbackPower, TypeOK
  <2> QED
    BY <2>1, <2>2, Zenon DEF Settles
<1>4. /\ runs' \in [RunIds -> Run]
      /\ \A i \in RunIds : runs'[i].dir = runs[i].dir
      /\ \A i \in RunIds \ {rn[p].run} : runs'[i] = runs[i]
      /\ rn[p].run \in RunIds => runs'[rn[p].run].status = s
  BY <1>0, <1>1, FinishType
<1>5. /\ rn' \in [Runners -> Runner] /\ rn'[p].pc = "idle"
      /\ \A q \in Runners \ {p} : rn'[q] = rn[q]
  BY <1>0, <1>1, DoneType
<1>6. TypeOK'
  BY <1>0, <1>2, <1>3, <1>4, <1>5 DEF TypeOK
<1>7. "idle" \notin NoRow
  BY DEF NoRow, RowPcs, FailoverPcs, FailbackPcs, PromotePcs
<1>8. RowInv(p)' /\ BaseInv(p)'
  BY <1>5, <1>7, NotFailback DEF RowInv, NoRow
<1>9. \A v \in VMs : ver[v] <= ver'[v]
  BY <1>0, <1>2 DEF TypeOK
<1>10. rn[p].pc \in RowPcs /\ rn[p].run \in RunIds
  BY <1>0, <1>1 DEF RowInv, RowPcs, FailbackPcs
<1>11. runs'[rn[p].run] = [dir |-> "failback", status |-> "success"] =>
         \A w \in Workloads : base'[rn[p].run][w] <= ver'[<<rn[p].run, w>>]
  <2>1. SUFFICES ASSUME runs'[rn[p].run]
                          = [dir |-> "failback", status |-> "success"]
                 PROVE  \A w \in Workloads :
                          base[rn[p].run][w] <= ver[<<rn[p].run, w>>]
    BY <1>2
  <2>2. runs'[rn[p].run].dir = "failback"
          /\ runs'[rn[p].run].status = "success"
    BY <2>1
  <2>3. rn[p].pc \notin FailoverPcs /\ s = "success"
    BY <1>0, <1>4, <1>10, <2>2 DEF RowInv
  <2>4. rn[p].pc = "fb_booted"
    BY <1>1, <2>3
  <2> QED
    BY <1>0, <2>4 DEF BaseInv, FailbackPcs
<1>12. StepOf(p)
  BY <1>2, <1>4, <1>5, <1>7, <1>9, <1>10, <1>11 DEF StepOf, NoRow
<1> QED
  BY <1>6, <1>8, <1>12 DEF Kept

(* A success whose audit raises leads to the except clause. *)
LEMMA UnauditedKept ==
    ASSUME KeepInv, NEW p \in Runners,
           FinishFailover(p, FALSE) \/ FinishFailback(p, FALSE)
    PROVE  Kept(p)
<1>0. TypeOK /\ RowInv(p) /\ BaseInv(p)
  BY DEF KeepInv
<1>1. /\ finish_dr_run(p, "success") /\ faults' = faults + 1
      /\ faults < MaxFaults /\ UNCHANGED <<copies, site, ran>>
      /\ \/ rn[p].pc = "booted" /\ Goto(p, "rollback")
         \/ rn[p].pc = "fb_booted" /\ Goto(p, "fb_fail")
  BY DEF FinishFailover, FinishFailback
<1>2. /\ {"booted", "fb_booted", "rollback", "fb_fail"} \subseteq RowPcs
      /\ {"rollback", "fb_fail"} \subseteq Pcs \cap Failing
      /\ {"booted", "rollback"} \subseteq FailoverPcs
      /\ {"fb_booted", "fb_fail"} \cap FailoverPcs = {}
      /\ {"rollback", "fb_fail"} \cap (FailbackPcs \cup {"fb_create"}) = {}
  BY DEF RowPcs, FailoverPcs, FailbackPcs, PromotePcs, Failing, Pcs
<1>3. /\ rn' \in [Runners -> Runner] /\ rn'[p].pc \in {"rollback", "fb_fail"}
      /\ rn'[p].run = rn[p].run /\ \A q \in Runners \ {p} : rn'[q] = rn[q]
      /\ rn'[p].pc \in FailoverPcs <=> rn[p].pc \in FailoverPcs
  BY <1>0, <1>1, <1>2, GotoType
<1>4. /\ runs' \in [RunIds -> Run]
      /\ \A i \in RunIds : runs'[i].dir = runs[i].dir
      /\ \A i \in RunIds \ {rn[p].run} : runs'[i] = runs[i]
  BY <1>0, <1>1, FinishType
<1>5. faults' \in 0..MaxFaults /\ faults' # 0
  BY <1>0, <1>1 DEF TypeOK
<1>6. TypeOK'
  BY <1>0, <1>1, <1>3, <1>4, <1>5 DEF TypeOK, site, ran
<1>7. rn[p].pc \in RowPcs /\ rn[p].run \in RunIds
  BY <1>0, <1>1, <1>2 DEF RowInv
<1>8. RowInv(p)'
  BY <1>0, <1>2, <1>3, <1>4, <1>5, <1>7 DEF RowInv
<1>9. BaseInv(p)'
  BY <1>2, <1>3, NotFailback
<1>10. base' = base /\ ver' = ver
  BY <1>1 DEF site, ran
<1>11. runs'[rn[p].run] = [dir |-> "failback", status |-> "success"] =>
         \A w \in Workloads : base'[rn[p].run][w] <= ver'[<<rn[p].run, w>>]
  <2>1. SUFFICES ASSUME runs'[rn[p].run]
                          = [dir |-> "failback", status |-> "success"]
                 PROVE  \A w \in Workloads :
                          base[rn[p].run][w] <= ver[<<rn[p].run, w>>]
    BY <1>10
  <2>2. runs'[rn[p].run].dir = "failback"
    BY <2>1
  <2>3. rn[p].pc = "fb_booted"
    BY <1>0, <1>1, <1>2, <1>4, <1>7, <2>2 DEF RowInv
  <2> QED
    BY <1>0, <2>3 DEF BaseInv, FailbackPcs
<1>12. \A v \in VMs : ver[v] <= ver'[v]
  BY <1>0, <1>10 DEF TypeOK
<1>13. StepOf(p)
  BY <1>3, <1>4, <1>7, <1>10, <1>11, <1>12 DEF StepOf
<1> QED
  BY <1>6, <1>8, <1>9, <1>13 DEF Kept

LEMMA FailbackKept ==
    ASSUME KeepInv, NEW p \in Runners, Failback(p)
    PROVE  Kept(p)
<1>0. TypeOK
  BY DEF KeepInv
<1> DEFINE last == latest_dr_run("failover")
<1>1. last \in 0..MaxRuns /\ last \in {0} \cup Succeeded("failover")
        /\ latest_dr_run("failback") \in 0..MaxRuns
  BY LatestDef
<1>2. last > latest_dr_run("failback")
  BY DEF Failback, _already_failed_over
<1>3. last \in RunIds /\ runs[last].dir = "failover"
  BY <1>1, <1>2 DEF Succeeded
<1>4. rn' = [rn EXCEPT ![p].pc = "fb_create", ![p].from = last]
  BY DEF Failback
<1>5. "fb_create" \in Pcs /\ "fb_create" \notin RowPcs \cup FailbackPcs
  BY PcDistinct DEF Pcs, FailbackPcs
<1> HIDE DEF last
<1>6. /\ rn' \in [Runners -> Runner] /\ rn'[p].pc = "fb_create"
      /\ rn'[p].from = last /\ \A q \in Runners \ {p} : rn'[q] = rn[q]
  BY <1>0, <1>1, <1>4, <1>5 DEF TypeOK, Runner
<1>7. TypeOK'
  BY <1>0, <1>6 DEF Failback, TypeOK, site, ran
<1>8. /\ runs' = runs /\ base' = base /\ ver' = ver
      /\ \A v \in VMs : ver[v] <= ver'[v]
  BY <1>0 DEF Failback, TypeOK, site, ran
<1>9. RowInv(p)'
  BY <1>5, <1>6 DEF RowInv
<1>10. BaseInv(p)'
  BY <1>3, <1>5, <1>6, <1>8 DEF BaseInv
<1>11. StepOf(p)
  BY <1>5, <1>6, <1>8 DEF StepOf
<1> QED
  BY <1>7, <1>9, <1>10, <1>11 DEF Kept

(* The steps of a failback that leave the content of every VM. *)
LEMMA FailbackStepKept ==
    ASSUME KeepInv, NEW p \in Runners,
           \/ PreparePrimary(p) \/ ActivatePrimary(p) \/ FailbackRaises(p)
           \/ WithdrawDR(p) /\ rn[p].pc = "fb_withdraw"
           \/ \E w \in Workloads, b \in BOOLEAN :
                \/ PowerOffDR(p, w, b) /\ rn[p].pc = "fb_poweroff"
                \/ BootPrimary(p, w, b)
    PROVE  Kept(p)
<1> DEFINE Homed == FailbackPcs \ {"fb_prepare", "fb_backup", "fb_restore"}
<1>0. TypeOK /\ BaseInv(p) /\ rn[p].run \in 0..MaxRuns
        /\ rn[p].from \in 0..MaxRuns
  BY RunnerType DEF KeepInv
<1>1. /\ FailbackPcs \subseteq Pcs /\ "fb_fail" \in Pcs
      /\ {"fb_prepare", "fb_backup"} \subseteq FailbackPcs
      /\ {"fb_withdraw", "fb_poweroff", "fb_activate", "fb_boot",
          "fb_booted"} \subseteq Homed
      /\ Homed \subseteq FailbackPcs /\ "fb_fail" \notin FailbackPcs
      /\ "fb_fail" # "fb_create" /\ "fb_fail" \in RowPcs
      /\ "fb_create" \notin FailbackPcs
      /\ FailbackPcs \subseteq RowPcs
      /\ (FailbackPcs \cup {"fb_fail"}) \cap FailoverPcs = {}
  BY DEF Pcs, FailbackPcs, RowPcs, FailoverPcs, PromotePcs
<1>2. /\ rn[p].pc \in FailbackPcs
      /\ \/ rn[p].pc = "fb_prepare" /\ GotoLoop(p, "fb_backup")
         \/ /\ rn[p].pc \in Homed
            /\ \E pc \in Homed : \/ GotoLoop(p, pc)
                                \/ \E w \in Workloads : Round(p, w, pc)
         \/ Goto(p, "fb_fail")
  BY <1>1 DEF PreparePrimary, ActivatePrimary, BootPrimary, FailbackRaises,
              WithdrawDR, PowerOffDR
<1> HIDE DEF Homed
<1>3. /\ rn' \in [Runners -> Runner] /\ \A q \in Runners \ {p} : rn'[q] = rn[q]
      /\ rn'[p].run = rn[p].run /\ rn'[p].from = rn[p].from
      /\ \/ /\ rn[p].pc = "fb_prepare"
            /\ rn'[p].pc = "fb_backup" /\ rn'[p].todo = Workloads
         \/ rn[p].pc \in Homed /\ rn'[p].pc \in Homed
         \/ rn'[p].pc = "fb_fail"
  <2>1. CASE rn[p].pc = "fb_prepare" /\ GotoLoop(p, "fb_backup")
    BY <1>0, <1>1, <2>1, GotoLoopType
  <2>2. CASE rn[p].pc \in Homed /\ \E pc \in Homed : GotoLoop(p, pc)
    BY <1>0, <1>1, <2>2, GotoLoopType
  <2>3. CASE rn[p].pc \in Homed 
              /\ \E pc \in Homed, w \in Workloads : Round(p, w, pc)
    BY <1>0, <1>1, <2>3, RoundType
  <2>4. CASE Goto(p, "fb_fail")
    BY <1>0, <1>1, <2>4, GotoType
  <2> QED
    BY <1>2, <2>1, <2>2, <2>3, <2>4
<1>4. \A w \in Workloads : <<rn[p].run, w>> \in VMs
  BY <1>0 DEF VMs
<1>5. /\ runs' = runs /\ base' = base /\ ver' = ver /\ copies' = copies
      /\ maintenance' = maintenance /\ failures' = failures
      /\ demoted' = demoted /\ abandoned' = abandoned
  BY DEF PreparePrimary, ActivatePrimary, BootPrimary, FailbackRaises,
         WithdrawDR, PowerOffDR, site, ran
<1>6. on' \subseteq VMs /\ route' \subseteq {"primary", "dr"}
  BY <1>0, <1>4 DEF PreparePrimary, ActivatePrimary, BootPrimary,
       FailbackRaises, WithdrawDR, PowerOffDR, site, TypeOK
<1>11. faults' \in 0..MaxFaults /\ (faults' = 0 => faults = 0)
  BY <1>0 DEF PreparePrimary, ActivatePrimary, BootPrimary, FailbackRaises,
              WithdrawDR, PowerOffDR, TypeOK
<1>7. TypeOK'
  BY <1>0, <1>3, <1>5, <1>6, <1>11 DEF TypeOK
<1>8. BaseInv(p)'
  <2>1. CASE rn'[p].pc = "fb_fail"
    BY <1>1, <2>1, NotFailback
  <2>2. CASE rn[p].pc = "fb_prepare" /\ rn'[p].pc = "fb_backup"
               /\ rn'[p].todo = Workloads
    BY <1>0, <1>1, <1>3, <1>5, <2>2 DEF BaseInv
  <2>3. CASE rn[p].pc \in Homed /\ rn'[p].pc \in Homed
    BY <1>0, <1>1, <1>3, <1>5, <2>3 DEF BaseInv, Homed
  <2> QED
    BY <1>3, <2>1, <2>2, <2>3
<1>9. rn'[p].pc \in FailbackPcs \cup {"fb_fail"}
  BY <1>1, <1>3
<1> QED
  BY <1>1, <1>2, <1>3, <1>5, <1>7, <1>8, <1>9, <1>11, FailingPcs, Advances

(* The same steps of a demotion. *)
LEMMA DemoteStepKept ==
    ASSUME KeepInv, NEW p \in Runners,
           \/ WithdrawDR(p) /\ rn[p].pc = "demote"
           \/ \E w \in Workloads, b \in BOOLEAN :
                PowerOffDR(p, w, b) /\ rn[p].pc = "demote_off"
    PROVE  Kept(p)
<1>0. TypeOK
  BY DEF KeepInv
<1>1. {"demote_off", "demoted"} \subseteq Pcs
        /\ {"demote_off", "demoted"} \cap NoRow = {}
  BY DEF Pcs, NoRow, RowPcs, FailoverPcs, FailbackPcs, PromotePcs, DemotePcs
<1>2. \/ GotoLoop(p, "demote_off")
      \/ \E w \in Workloads :
           rn[p].pc = "demote_off" /\ Round(p, w, "demoted")
  BY DEF WithdrawDR, PowerOffDR
<1>3. /\ rn' \in [Runners -> Runner] /\ \A q \in Runners \ {p} : rn'[q] = rn[q]
      /\ rn'[p].pc \in {"demote_off", "demoted"}
  BY <1>0, <1>1, <1>2, GotoLoopType, RoundType
<1>4. demoted' \in [RunIds -> {"no", "begun", "done"}]
  BY <1>0 DEF WithdrawDR, PowerOffDR, ran, TypeOK
<1>5. /\ runs' = runs /\ base' = base /\ ver' = ver /\ copies' = copies
      /\ maintenance' = maintenance /\ failures' = failures
      /\ abandoned' = abandoned /\ faults' \in 0..MaxFaults
      /\ on' \subseteq on /\ route' \subseteq route
  BY <1>0 DEF WithdrawDR, PowerOffDR, ran, TypeOK
<1>6. TypeOK'
  BY <1>0, <1>3, <1>4, <1>5 DEF TypeOK
<1> QED
  BY <1>1, <1>3, <1>5, <1>6, Leaves

LEMMA FinalBackupKept ==
    ASSUME KeepInv, NEW p \in Runners, NEW w \in Workloads, FinalBackup(p, w)
    PROVE  Kept(p)
<1> DEFINE r == [rn[p] EXCEPT !.saved[w] = ver[<<rn[p].from, w>>]]
           s == IF r.todo = {w}
                  THEN [r EXCEPT !.pc = "fb_restore", !.todo = Workloads]
                  ELSE [r EXCEPT !.todo = @ \ {w}]
<1>0. /\ TypeOK /\ BaseInv(p) /\ rn[p].pc = "fb_backup" /\ rn[p] \in Runner
      /\ rn[p].from \in 0..MaxRuns /\ w \in rn[p].todo
  BY RunnerType DEF KeepInv, FinalBackup
<1>1. ver[<<rn[p].from, w>>] \in 0..MaxWrites
  BY <1>0, Numbers
<1>2. /\ r \in Runner /\ r.pc = "fb_backup" /\ r.run = rn[p].run
      /\ r.from = rn[p].from /\ r.todo = rn[p].todo
      /\ r.saved[w] = ver[<<rn[p].from, w>>]
      /\ \A x \in Workloads \ {w} : r.saved[x] = rn[p].saved[x]
  BY <1>0, <1>1 DEF Runner
<1>3. {"fb_backup", "fb_restore"} \subseteq FailbackPcs
        /\ "fb_restore" \in Pcs
  BY DEF FailbackPcs, Pcs
<1> HIDE DEF r
<1>4. /\ s \in Runner /\ s.run = r.run /\ s.from = r.from /\ s.saved = r.saved
      /\ \/ r.todo = {w} /\ s.pc = "fb_restore" /\ s.todo = Workloads
         \/ r.todo # {w} /\ s.pc = "fb_backup" /\ s.todo = r.todo \ {w}
  BY <1>2, <1>3 DEF Runner
<1>5. rn' = [rn EXCEPT ![p] = s]
  BY DEF FinalBackup, r
<1> HIDE DEF s
<1>6. /\ rn' \in [Runners -> Runner] /\ rn'[p] = s
      /\ \A q \in Runners \ {p} : rn'[q] = rn[q]
  BY <1>0, <1>4, <1>5 DEF TypeOK
<1>7. /\ runs' = runs /\ base' = base /\ ver' = ver
      /\ copies' = copies /\ on' = on /\ route' = route /\ demoted' = demoted
      /\ maintenance' = maintenance /\ failures' = failures
      /\ faults' = faults /\ abandoned' = abandoned
  BY DEF FinalBackup, site, ran
<1>8. TypeOK'
  BY <1>0, <1>6, <1>7 DEF TypeOK
<1>9. \A x \in Workloads : base[rn[p].run][x] <= ver[<<rn[p].from, x>>]
  BY <1>0, <1>3 DEF BaseInv
<1>10. \A x \in Workloads \ s.todo : base[rn[p].run][x] <= s.saved[x]
  <2>1. ASSUME NEW x \in Workloads, x = w \/ x \notin rn[p].todo
        PROVE  base[rn[p].run][x] <= r.saved[x]
    <3>1. CASE x = w
      BY <1>2, <1>9, <3>1
    <3>2. CASE x # w
      BY <1>0, <1>2, <2>1, <3>2 DEF BaseInv
    <3> QED
      BY <3>1, <3>2
  <2>2. \A x \in Workloads \ s.todo : x = w \/ x \notin rn[p].todo
    BY <1>2, <1>4
  <2> QED
    BY <1>4, <2>1, <2>2
<1>11. s.pc = "fb_restore" =>
         \A x \in Workloads : base[rn[p].run][x] <= s.saved[x]
  <2>1. ASSUME s.pc = "fb_restore", NEW x \in Workloads, x # w
        PROVE  x \notin rn[p].todo
    BY <1>2, <1>4, <2>1
  <2>2. ASSUME s.pc = "fb_restore", NEW x \in Workloads
        PROVE  base[rn[p].run][x] <= s.saved[x]
    <3>1. CASE x = w
      BY <1>2, <1>4, <1>9, <3>1
    <3>2. CASE x # w
      BY <1>0, <1>2, <1>4, <2>1, <2>2, <3>2 DEF BaseInv
    <3> QED
      BY <3>1, <3>2
  <2> QED
    BY <2>2
<1>12. BaseInv(p)'
  <2>1. /\ rn'[p].run = rn[p].run /\ rn'[p].from = rn[p].from
        /\ rn'[p].saved = s.saved /\ rn'[p].todo = s.todo /\ rn'[p].pc = s.pc
        /\ \/ s.pc = "fb_backup"
           \/ s.pc = "fb_restore" /\ s.todo = Workloads
    BY <1>2, <1>4, <1>6
  <2>2. rn[p].from \in RunIds /\ runs[rn[p].from].dir = "failover"
    BY <1>0, <1>3 DEF BaseInv
  <2> QED
    BY <1>7, <1>9, <1>10, <1>11, <2>1, <2>2 DEF BaseInv
<1>13. /\ rn'[p].pc \in FailbackPcs /\ rn[p].pc \in FailbackPcs
       /\ rn'[p].run = rn[p].run
  BY <1>0, <1>2, <1>3, <1>4, <1>6
<1> QED
  BY <1>6, <1>7, <1>8, <1>12, <1>13, PcDistinct, FailingPcs, Advances

LEMMA RestoreToPrimaryKept ==
    ASSUME KeepInv, NEW p \in Runners, NEW w \in Workloads,
           RestoreToPrimary(p, w)
    PROVE  Kept(p)
<1>0. /\ TypeOK /\ BaseInv(p) /\ RowInv(p) /\ rn[p].pc = "fb_restore"
      /\ rn[p].run \in 0..MaxRuns /\ rn[p].saved[w] \in 0..MaxWrites
      /\ rn[p].from \in 0..MaxRuns
  BY RunnerType DEF KeepInv, RestoreToPrimary
<1>1. {"fb_restore", "fb_withdraw"} \subseteq FailbackPcs
        /\ "fb_withdraw" \in Pcs
  BY DEF FailbackPcs, Pcs
<1>2. Round(p, w, "fb_withdraw")
  BY DEF RestoreToPrimary
<1>3. /\ rn' \in [Runners -> Runner] /\ w \in rn[p].todo
      /\ \A q \in Runners \ {p} : rn'[q] = rn[q]
      /\ rn'[p].run = rn[p].run /\ rn'[p].from = rn[p].from
      /\ rn'[p].saved = rn[p].saved
      /\ \/ /\ rn'[p].pc = "fb_withdraw" /\ rn'[p].todo = Workloads
            /\ rn[p].todo = {w}
         \/ /\ rn'[p].pc = "fb_restore" /\ rn'[p].todo = rn[p].todo \ {w}
            /\ rn[p].todo # {w}
  BY <1>0, <1>1, <1>2, RoundType
<1> DEFINE new == <<rn[p].run, w>>
<1>4. /\ new \in VMs /\ runs' = runs /\ base' = base /\ on' = on
      /\ ver' = [ver EXCEPT ![new] = rn[p].saved[w]]
      /\ copies' = copies \cup {new}
  BY <1>0 DEF RestoreToPrimary, ran, VMs
<1>5. /\ ver' \in [VMs -> 0..MaxWrites] /\ ver'[new] = rn[p].saved[w]
      /\ \A v \in VMs \ {new} : ver'[v] = ver[v]
  BY <1>0, <1>4 DEF TypeOK
<1> HIDE DEF new
<1>6. TypeOK'
  BY <1>0, <1>3, <1>4, <1>5 DEF TypeOK, RestoreToPrimary, ran
<1>7. /\ rn[p].run \in RunIds /\ runs[rn[p].run].dir = "failback"
      /\ rn[p].from \in RunIds /\ runs[rn[p].from].dir = "failover"
  BY <1>0, <1>1, PcDistinct DEF RowInv, BaseInv
<1>8. rn[p].run # rn[p].from
  BY <1>7
<1>9. \A x \in Workloads :
        /\ ver'[<<rn[p].from, x>>] = ver[<<rn[p].from, x>>]
        /\ x # w => ver'[<<rn[p].run, x>>] = ver[<<rn[p].run, x>>]
  <2>1. ASSUME NEW x \in Workloads
        PROVE  /\ <<rn[p].from, x>> \in VMs \ {new}
               /\ x # w => <<rn[p].run, x>> \in VMs \ {new}
    BY <1>0, <1>8 DEF VMs, new
  <2> QED
    BY <1>5, <2>1
<1>10. \A x \in Workloads :
         /\ base[rn[p].run][x] <= ver[<<rn[p].from, x>>]
         /\ base[rn[p].run][x] <= rn[p].saved[x]
         /\ x \notin rn[p].todo => base[rn[p].run][x] <= ver[<<rn[p].run, x>>]
  BY <1>0, <1>1 DEF BaseInv
<1>11. \A x \in Workloads :
         x = w \/ x \notin rn[p].todo =>
           base'[rn[p].run][x] <= ver'[<<rn[p].run, x>>]
  <2>1. ASSUME NEW x \in Workloads, x = w
        PROVE  base'[rn[p].run][x] <= ver'[<<rn[p].run, x>>]
    BY <1>4, <1>5, <1>10, <2>1 DEF new
  <2>2. ASSUME NEW x \in Workloads, x # w, x \notin rn[p].todo
        PROVE  base'[rn[p].run][x] <= ver'[<<rn[p].run, x>>]
    BY <1>4, <1>9, <1>10, <2>2
  <2> QED
    BY <2>1, <2>2
<1>12. \A x \in Workloads : base'[rn[p].run][x] <= ver'[<<rn[p].from, x>>]
  BY <1>4, <1>9, <1>10
<1>13. BaseInv(p)'
  <2>1. CASE rn'[p].pc = "fb_restore" /\ rn'[p].todo = rn[p].todo \ {w}
    <3>1. \A x \in Workloads \ rn'[p].todo : x = w \/ x \notin rn[p].todo
      BY <2>1
    <3>2. \A x \in Workloads : base'[rn'[p].run][x] <= rn'[p].saved[x]
      BY <1>3, <1>4, <1>10
    <3> QED
      BY <1>3, <1>4, <1>7, <1>11, <1>12, <2>1, <3>1, <3>2 DEF BaseInv
  <2>2. CASE rn'[p].pc = "fb_withdraw" /\ rn[p].todo = {w}
    <3>1. \A x \in Workloads : base'[rn[p].run][x] <= ver'[<<rn[p].run, x>>]
      BY <1>11, <2>2
    <3> QED
      BY <1>3, <1>4, <1>7, <1>12, <2>2, <3>1 DEF BaseInv
  <2> QED
    BY <1>3, <2>1, <2>2
<1>14. rn'[p].pc \in FailbackPcs /\ rn[p].pc \in FailbackPcs
  BY <1>0, <1>1, <1>3
<1>15. RowInv(p)'
  BY <1>0, <1>3, <1>4, <1>14, PcDistinct, FailingPcs DEF RowInv
<1>16. ASSUME NEW v \in VMs
       PROVE  \/ ver[v] <= ver'[v]
              \/ rn[p].pc \in FailbackPcs /\ v[1] = rn[p].run
  <2>1. CASE v = new
    BY <1>14, <2>1 DEF new
  <2>2. CASE v # new
    BY <1>0, <1>5, <2>2 DEF TypeOK
  <2> QED
    BY <2>1, <2>2
<1>17. StepOf(p)
  BY <1>3, <1>4, <1>14, <1>16, PcDistinct DEF StepOf
<1> QED
  BY <1>6, <1>13, <1>15, <1>17 DEF Kept

(* Every step of a command. *)
LEMMA CommandKept ==
    ASSUME KeepInv, NEW p \in Runners,
           \/ Promote(p) \/ Failback(p) \/ Demote(p) \/ Watch(p)
           \/ CommandStep(p) \/ Crash(p)
    PROVE  Kept(p)
<1>1. CASE PromoteStep(p)
  <2>1. CASE _fence_primary(p) \/ CreateFailover(p)
    BY <2>1, FenceKept, CreateFailoverKept
  <2>2. ASSUME NEW stuck \in SUBSET ({rn[p].run} \X Workloads),
               NEW b \in BOOLEAN, RollbackPower(p, stuck, b)
        PROVE  Kept(p)
    <3>1. Settles(p) \/ Abandons(p)
      BY <2>2, Zenon DEF Settles, Abandons
    <3> QED
      BY <3>1, SettleKept, AbandonsKept
  <2>3. CASE \E b \in BOOLEAN : FenceFails(p, b)
    BY <2>3, RefusedKept
  <2>5. ASSUME NEW b \in BOOLEAN, FinishFailover(p, b) \/ RollbackRaises(p, b)
        PROVE  Kept(p)
    <3>1. \/ Settles(p) \/ Abandons(p) \/ FinishFailover(p, FALSE)
      BY <2>5, Zenon DEF Settles, Abandons
    <3> QED
      BY <3>1, SettleKept, AbandonsKept, UnauditedKept
  <2>4. CASE \/ ActivateDR(p) \/ PromoteRaises(p)
             \/ \E b \in BOOLEAN : PrepareDR(p, b) \/ RollbackRoute(p, b)
             \/ \E w \in Workloads : \/ RestoreWorkload(p, w)
                                     \/ \E b \in BOOLEAN : Boot(p, w, b)
    BY <2>4, PromoteStepKept
  <2> QED
    BY <1>1, <2>1, <2>2, <2>3, <2>4, <2>5, Zenon DEF PromoteStep
<1>2. CASE FailbackStep(p)
  <2>1. CASE CreateFailback(p)
    BY <2>1, CreateFailbackKept
  <2>7. ASSUME NEW b \in BOOLEAN, FinishFailback(p, b) \/ FailbackFailed(p, b)
        PROVE  Kept(p)
    <3>1. \/ Settles(p) \/ Abandons(p) \/ FinishFailback(p, FALSE)
      BY <2>7, Zenon DEF Settles, Abandons
    <3> QED
      BY <3>1, SettleKept, AbandonsKept, UnauditedKept
  <2>2. CASE PreparePrimary(p) \/ ActivatePrimary(p) \/ FailbackRaises(p)
    BY <2>2, FailbackStepKept
  <2>3. CASE \E w \in Workloads : FinalBackup(p, w) \/ RestoreToPrimary(p, w)
    BY <2>3, FinalBackupKept, RestoreToPrimaryKept
  <2>4. CASE \E w \in Workloads, b \in BOOLEAN : BootPrimary(p, w, b)
    BY <2>4, FailbackStepKept
  <2>5. CASE WithdrawDR(p)
    <3>1. rn[p].pc = "fb_withdraw" \/ rn[p].pc = "demote"
      BY <2>5 DEF WithdrawDR
    <3> QED
      BY <2>5, <3>1, FailbackStepKept, DemoteStepKept
  <2>6. ASSUME NEW w \in Workloads, NEW b \in BOOLEAN, PowerOffDR(p, w, b)
        PROVE  Kept(p)
    <3>1. rn[p].pc = "fb_poweroff" \/ rn[p].pc = "demote_off"
      BY <2>6 DEF PowerOffDR
    <3> QED
      BY <2>6, <3>1, FailbackStepKept, DemoteStepKept
  <2> QED
    BY <1>2, <2>1, <2>2, <2>3, <2>4, <2>5, <2>6, <2>7, Zenon
       DEF FailbackStep
<1>3. CASE Demoted(p) \/ Demote(p)
  BY <1>3, DemoteKept
<1>4. CASE DemoteRaises(p) \/ PromoteRefused(p)
  BY <1>4, RefusedKept
<1>5. CASE \E b \in BOOLEAN : Probe(p, b)
  BY <1>5, ProbeKept
<1>6. CASE Promote(p) \/ Watch(p)
  BY <1>6, PromoteKept
<1>7. CASE Failback(p)
  BY <1>7, FailbackKept
<1>8. CASE Crash(p)
  BY <1>8, AbandonsKept DEF Abandons
<1> QED
  BY <1>1, <1>2, <1>3, <1>4, <1>5, <1>6, <1>7, <1>8, Zenon DEF CommandStep

(* The steps that no command makes. *)
LEMMA OutsideKept ==
    ASSUME KeepInv,
           \/ \E b \in BOOLEAN : Maintenance(b)
           \/ IsolatePrimary
           \/ \E v \in VMs : Serve(v)
           \/ UNCHANGED vars
    PROVE  KeepInv'
<1>0. /\ TypeOK /\ FailbackKeepsBase
      /\ \A p \in Runners : RowInv(p) /\ BaseInv(p)
      /\ \A p, q \in Runners : OwnRow(p, q)
  BY DEF KeepInv
<1>1. runs' = runs /\ base' = base /\ rn' = rn /\ faults' = faults
  BY DEF Maintenance, IsolatePrimary, Serve, vars, site, ran
<1>2. TypeOK'
  <2>1. CASE \E b \in BOOLEAN : Maintenance(b)
    BY <1>0, <2>1 DEF Maintenance, TypeOK, site
  <2>2. CASE IsolatePrimary
    BY <1>0, <2>2 DEF IsolatePrimary, TypeOK, ran
  <2>3. CASE \E v \in VMs : Serve(v)
    <3>1. PICK v \in VMs : Serve(v)
      BY <2>3
    <3>2. ver[v] \in Nat /\ ver[v] + 1 \in 0..MaxWrites
      BY <1>0, <3>1 DEF Serve, TypeOK
    <3>3. ver' \in [VMs -> 0..MaxWrites]
      BY <1>0, <3>1, <3>2 DEF Serve, TypeOK
    <3> QED
      BY <1>0, <3>1, <3>3 DEF Serve, TypeOK, ran
  <2>4. CASE UNCHANGED vars
    BY <1>0, <2>4 DEF vars, site, TypeOK
  <2> QED
    BY <2>1, <2>2, <2>3, <2>4
<1>3. \A v \in VMs : ver[v] <= ver'[v]
  BY <1>0 DEF Maintenance, IsolatePrimary, Serve, vars, site, TypeOK
<1>4. ASSUME NEW i \in 0..MaxRuns, NEW w \in Workloads, NEW n \in Int,
             n <= ver[<<i, w>>]
      PROVE  n <= ver'[<<i, w>>]
  <2>1. <<i, w>> \in VMs
    BY DEF VMs
  <2>2. ver[<<i, w>>] \in Int /\ ver'[<<i, w>>] \in Int
    BY <1>0, <1>2, <2>1 DEF TypeOK
  <2> QED
    BY <1>3, <1>4, <2>1, <2>2
<1>5. \A p \in Runners : RowInv(p)'
  BY <1>0, <1>1 DEF RowInv
<1>6. ASSUME NEW p \in Runners
      PROVE  BaseInv(p)'
  <2>1. /\ BaseInv(p) /\ RowInv(p) /\ rn[p].run \in 0..MaxRuns
        /\ rn[p].from \in 0..MaxRuns
    BY <1>0, RunnerType
  <2>2. rn[p].pc \in FailbackPcs =>
          \A w \in Workloads : base[rn[p].run][w] \in Int
    BY <1>0, <2>1, PcDistinct DEF RowInv, TypeOK
  <2>3. {"fb_backup", "fb_restore"} \subseteq FailbackPcs
    BY DEF FailbackPcs
  <2>4. rn[p].pc \in FailbackPcs => \A w \in Workloads :
          /\ base[rn[p].run][w] <= ver[<<rn[p].from, w>>] =>
               base[rn[p].run][w] <= ver'[<<rn[p].from, w>>]
          /\ base[rn[p].run][w] <= ver[<<rn[p].run, w>>] =>
               base[rn[p].run][w] <= ver'[<<rn[p].run, w>>]
    BY <1>4, <2>1, <2>2
  <2> QED
    BY <1>1, <2>1, <2>3, <2>4 DEF BaseInv
<1>7. \A p, q \in Runners : OwnRow(p, q)'
  BY <1>0, <1>1 DEF OwnRow
<1>8. FailbackKeepsBase'
  <2>1. ASSUME NEW i \in RunIds, NEW w \in Workloads,
               runs[i] = [dir |-> "failback", status |-> "success"]
        PROVE  ver'[<<i, w>>] >= base[i][w]
    <3>1. i \in 0..MaxRuns /\ base[i][w] \in Int
      BY <1>0, RowType, Numbers
    <3>2. ver[<<i, w>>] \in Int /\ ver'[<<i, w>>] \in Int
      BY <1>0, <1>2, <3>1 DEF TypeOK, VMs
    <3>3. ver[<<i, w>>] >= base[i][w]
      BY <1>0, <2>1 DEF FailbackKeepsBase
    <3>4. base[i][w] <= ver[<<i, w>>]
      BY <3>1, <3>2, <3>3
    <3>5. base[i][w] <= ver'[<<i, w>>]
      BY <1>4, <3>1, <3>4
    <3> QED
      BY <3>1, <3>2, <3>5
  <2> QED
    BY <1>1, <2>1 DEF FailbackKeepsBase
<1> QED
  BY <1>2, <1>5, <1>6, <1>7, <1>8 DEF KeepInv

LEMMA KeepStep ==
    ASSUME KeepInv, [Next]_vars
    PROVE  KeepInv'
<1>1. CASE \E p \in Runners :
             \/ Promote(p) \/ Failback(p) \/ Demote(p) \/ Watch(p)
             \/ CommandStep(p) \/ Crash(p)
  <2>1. PICK p \in Runners : \/ Promote(p) \/ Failback(p) \/ Demote(p)
                             \/ Watch(p) \/ CommandStep(p) \/ Crash(p)
    BY <1>1
  <2>2. Kept(p)
    BY <2>1, CommandKept
  <2>3. faults' = 0 => faults = 0
    BY FaultsStay DEF KeepInv
  <2> QED
    BY <2>2, <2>3, Frame DEF Kept
<1>2. CASE \/ \E b \in BOOLEAN : Maintenance(b)
           \/ IsolatePrimary
           \/ \E v \in VMs : Serve(v)
           \/ UNCHANGED vars
  BY <1>2, OutsideKept
<1> QED
  BY <1>1, <1>2, Zenon DEF Next

LEMMA InitFacts ==
    ASSUME Init
    PROVE  /\ TypeOK /\ faults = 0
           /\ \A i \in RunIds :
                runs[i].dir = "none" /\ runs[i].status = "failed"
           /\ \A p \in Runners : rn[p].pc = "idle"
<1>1. NoRun \in Run /\ NoRun.dir = "none" /\ NoRun.status = "failed"
  BY DEF NoRun, Run
<1>2. Idle \in Runner /\ Idle.pc = "idle"
  BY DEF Idle, Runner, Pcs
<1>3. {0} \X Workloads \subseteq VMs
  BY DEF VMs
<1>4. 0 \in 0..MaxWrites /\ 0 \in 0..Threshold /\ 0 \in 0..MaxFaults
  OBVIOUS
<1>5. /\ runs \in [RunIds -> Run] /\ rn \in [Runners -> Runner]
      /\ ver \in [VMs -> 0..MaxWrites]
      /\ base \in [RunIds -> [Workloads -> 0..MaxWrites]]
  BY <1>1, <1>2, <1>4 DEF Init
<1>6. TypeOK
  BY <1>3, <1>4, <1>5 DEF Init, TypeOK
<1> QED
  BY <1>1, <1>2, <1>6 DEF Init

LEMMA KeepInit == Init => KeepInv
<1> SUFFICES ASSUME Init
             PROVE  KeepInv
  OBVIOUS
<1>1. "idle" \notin NoRow
  BY DEF NoRow, RowPcs, FailoverPcs, FailbackPcs, PromotePcs
<1>2. \A p \in Runners : rn[p].pc \notin NoRow
  BY <1>1, InitFacts
<1>3. \A p \in Runners : RowInv(p)
  BY <1>2 DEF RowInv, NoRow
<1>4. \A p, q \in Runners : OwnRow(p, q)
  BY <1>2 DEF OwnRow, NoRow
<1>5. {"fb_backup", "fb_restore"} \subseteq FailbackPcs
  BY DEF FailbackPcs
<1>6. \A p \in Runners : BaseInv(p)
  BY <1>2, <1>5 DEF BaseInv, NoRow
<1>7. \A i \in RunIds :
        runs[i] # [dir |-> "failback", status |-> "success"]
  BY InitFacts
<1>8. FailbackKeepsBase
  BY <1>7 DEF FailbackKeepsBase
<1> QED
  BY <1>3, <1>4, <1>6, <1>8, InitFacts DEF KeepInv

(* A failback that succeeded restored at least what the DR copies held     *)
(* when its row was made, whatever other commands, crashes and writes came *)
(* in between (failback).                                                  *)
THEOREM KeepsBaseCorrect == Spec => []FailbackKeepsBase
<1>1. KeepInv => FailbackKeepsBase
  BY DEF KeepInv
<1> QED
  BY <1>1, KeepInit, KeepStep, PTL DEF Spec

-----------------------------------------------------------------------------
(* RunningHasRunner, for any number of commands. *)

(* What a step of command p makes of the runs reported as running: each is *)
(* p's own, or was running before and not p's, or p abandons it.           *)
Hands(p) ==
    /\ abandoned \subseteq abandoned'
    /\ \A i \in RunIds \ abandoned' : runs'[i].status = "running" =>
         \/ rn'[p].pc \in RowPcs /\ rn'[p].run = i
         \/ /\ runs[i].status = "running"
            /\ ~(rn[p].pc \in RowPcs /\ rn[p].run = i)

(* A step of a command that has made no row, or that goes on with its row. *)
LEMMA HandsOn ==
    ASSUME NEW p \in Runners, runs' = runs, abandoned' = abandoned,
           \/ rn[p].pc \notin RowPcs
           \/ rn'[p].pc \in RowPcs /\ rn'[p].run = rn[p].run
    PROVE  Hands(p)
BY DEF Hands

(* To another statement of the same try block. *)
LEMMA RowGoesOn ==
    ASSUME TypeOK, NEW p \in Runners, rn[p].pc \in RowPcs,
           \E pc \in RowPcs : \/ Goto(p, pc) \/ GotoLoop(p, pc)
                              \/ \E w \in Workloads : Round(p, w, pc)
    PROVE  rn'[p].pc \in RowPcs /\ rn'[p].run = rn[p].run
<1>1. RowPcs \subseteq Pcs
  BY DEF RowPcs, FailoverPcs, Pcs
<1>2. PICK pc \in RowPcs : \/ Goto(p, pc) \/ GotoLoop(p, pc)
                           \/ \E w \in Workloads : Round(p, w, pc)
  OBVIOUS
<1>3. pc \in Pcs
  BY <1>1
<1>4. CASE Goto(p, pc)
  BY <1>3, <1>4, GotoType
<1>5. CASE GotoLoop(p, pc)
  BY <1>3, <1>5, GotoLoopType
<1>6. CASE \E w \in Workloads : Round(p, w, pc)
  BY <1>3, <1>6, RoundType
<1> QED
  BY <1>2, <1>4, <1>5, <1>6

LEMMA RowPcNames ==
    /\ {"prepare", "restore", "activate", "boot", "booted", "rollback",
        "poweroff", "fb_prepare", "fb_backup", "fb_restore", "fb_withdraw",
        "fb_poweroff", "fb_activate", "fb_boot", "fb_booted", "fb_fail"}
         \subseteq RowPcs
    /\ {"idle", "probe", "promote", "fence", "create", "fb_create", "demote",
        "demote_off", "demoted"} \cap RowPcs = {}
BY DEF RowPcs, FailoverPcs, FailbackPcs, PromotePcs

(* The commands' steps before create_dr_run, and those of a demotion and   *)
(* of the watcher.                                                         *)
LEMMA NoRowHands ==
    ASSUME NEW p \in Runners,
           \/ Promote(p) \/ Failback(p) \/ Demote(p) \/ Watch(p)
           \/ _fence_primary(p) \/ Demoted(p) \/ DemoteRaises(p)
           \/ PromoteRefused(p)
           \/ \E b \in BOOLEAN : FenceFails(p, b) \/ Probe(p, b)
    PROVE  Hands(p)
<1>1. runs' = runs /\ abandoned' = abandoned
  BY DEF Promote, Failback, Demote, Watch, _fence_primary, Demoted,
         DemoteRaises, PromoteRefused, FenceFails, Probe, ran
<1>2. rn[p].pc \in {"idle", "probe", "promote", "fence", "demote",
                    "demote_off", "demoted"}
  BY DEF Promote, Failback, Demote, Watch, _fence_primary, Demoted,
         DemoteRaises, PromoteRefused, FenceFails, Probe, DemotePcs
<1>3. rn[p].pc \notin RowPcs
  BY <1>2, RowPcNames
<1> QED
  BY <1>1, <1>3, HandsOn

(* create_dr_run: the new row is the command's. *)
LEMMA CreateHands ==
    ASSUME TypeOK, NEW p \in Runners, CreateFailover(p) \/ CreateFailback(p)
    PROVE  Hands(p)
<1>1. PICK dir \in {"failover", "failback"}, pc \in {"prepare", "fb_prepare"} :
        create_dr_run(p, dir, pc)
  BY DEF CreateFailover, CreateFailback
<1>2. pc \in Pcs /\ pc \in RowPcs
  BY RowPcNames DEF Pcs, PromotePcs, FailbackPcs
<1>3. rn[p].pc \notin RowPcs /\ abandoned' = abandoned
  BY RowPcNames DEF CreateFailover, CreateFailback
<1>4. PICK i \in RunIds :
        /\ \A j \in RunIds \ {i} : runs'[j] = runs[j]
        /\ rn'[p].pc = pc /\ rn'[p].run = i
  BY <1>1, <1>2, CreateType
<1> QED
  BY <1>2, <1>3, <1>4 DEF Hands

(* finish_dr_run: the row is not running any more. *)
LEMMA FinishHands ==
    ASSUME TypeOK, NEW p \in Runners,
           \/ Settles(p) \/ FinishFailover(p, FALSE) \/ FinishFailback(p, FALSE)
    PROVE  Hands(p)
<1>1. PICK s \in {"success", "failed"} :
        finish_dr_run(p, s) /\ abandoned' = abandoned
  BY DEF Settles, FinishFailover, FinishFailback, FailbackFailed,
         RollbackPower, Settle, ran
<1>2. /\ \A i \in RunIds \ {rn[p].run} : runs'[i] = runs[i]
      /\ rn[p].run \in RunIds => runs'[rn[p].run].status = s
  BY <1>1, FinishType
<1> QED
  BY <1>1, <1>2 DEF Hands

(* The command is killed or its except clause raises. *)
LEMMA AbandonsHands ==
    ASSUME TypeOK, NEW p \in Runners, Abandons(p)
    PROVE  Hands(p)
BY AbandonsDef DEF Hands

(* The statements of promote's try block, and its except clause. *)
LEMMA PromoteHands ==
    ASSUME TypeOK, NEW p \in Runners,
           \/ ActivateDR(p) \/ PromoteRaises(p)
           \/ \E b \in BOOLEAN : PrepareDR(p, b) \/ RollbackRoute(p, b)
           \/ \E w \in Workloads : \/ RestoreWorkload(p, w)
                                   \/ \E b \in BOOLEAN : Boot(p, w, b)
    PROVE  Hands(p)
<1>1. runs' = runs /\ abandoned' = abandoned
  BY DEF ActivateDR, PromoteRaises, PrepareDR, RollbackRoute,
         RestoreWorkload, Boot, ran
<1>2. rn[p].pc \in RowPcs
  BY RowPcNames DEF ActivateDR, PromoteRaises, PrepareDR, RollbackRoute,
                    RestoreWorkload, Boot, PromotePcs
<1>3. \E pc \in RowPcs : \/ Goto(p, pc) \/ GotoLoop(p, pc)
                         \/ \E w \in Workloads : Round(p, w, pc)
  BY RowPcNames DEF ActivateDR, PromoteRaises, PrepareDR, RollbackRoute,
                    RestoreWorkload, Boot
<1> QED
  BY <1>1, <1>2, <1>3, RowGoesOn, HandsOn

(* The final backup of a workload. *)
LEMMA FinalBackupHands ==
    ASSUME TypeOK, NEW p \in Runners, NEW w \in Workloads, FinalBackup(p, w)
    PROVE  Hands(p)
<1> DEFINE r == [rn[p] EXCEPT !.saved[w] = ver[<<rn[p].from, w>>]]
           s == IF r.todo = {w}
                  THEN [r EXCEPT !.pc = "fb_restore", !.todo = Workloads]
                  ELSE [r EXCEPT !.todo = @ \ {w}]
<1>1. rn[p] \in Runner /\ rn[p].from \in 0..MaxRuns /\ rn[p].pc = "fb_backup"
  BY RunnerType DEF FinalBackup
<1>2. ver[<<rn[p].from, w>>] \in 0..MaxWrites
  BY <1>1, Numbers
<1>3. r \in Runner /\ r.pc = "fb_backup" /\ r.run = rn[p].run
  BY <1>1, <1>2 DEF Runner
<1> HIDE DEF r
<1>4. s.run = r.run /\ s.pc \in {"fb_backup", "fb_restore"}
  BY <1>3 DEF Runner
<1>5. rn' = [rn EXCEPT ![p] = s] /\ runs' = runs /\ abandoned' = abandoned
  BY DEF FinalBackup, r, ran
<1> HIDE DEF s
<1>6. rn'[p] = s
  BY <1>5 DEF TypeOK
<1> QED
  BY <1>3, <1>4, <1>5, <1>6, RowPcNames, HandsOn

(* The other statements of failback's try block, and of a demotion. *)
LEMMA FailbackHands ==
    ASSUME TypeOK, NEW p \in Runners,
           \/ PreparePrimary(p) \/ ActivatePrimary(p) \/ FailbackRaises(p)
           \/ WithdrawDR(p)
           \/ \E w \in Workloads :
                \/ RestoreToPrimary(p, w)
                \/ \E b \in BOOLEAN : PowerOffDR(p, w, b) \/ BootPrimary(p, w, b)
    PROVE  Hands(p)
<1>1. runs' = runs /\ abandoned' = abandoned
  BY DEF PreparePrimary, ActivatePrimary, FailbackRaises, WithdrawDR,
         RestoreToPrimary, PowerOffDR, BootPrimary, ran
<1>2. \/ rn[p].pc \in {"demote", "demote_off"}
      \/ /\ rn[p].pc \in RowPcs
         /\ \E pc \in RowPcs : \/ Goto(p, pc) \/ GotoLoop(p, pc)
                               \/ \E w \in Workloads : Round(p, w, pc)
  <2>1. CASE PreparePrimary(p) \/ ActivatePrimary(p) \/ FailbackRaises(p)
    BY <2>1, RowPcNames, PcDistinct
       DEF PreparePrimary, ActivatePrimary, FailbackRaises
  <2>2. CASE WithdrawDR(p)
    BY <2>2, RowPcNames DEF WithdrawDR
  <2>3. CASE \E w \in Workloads :
               \/ RestoreToPrimary(p, w)
               \/ \E b \in BOOLEAN : PowerOffDR(p, w, b) \/ BootPrimary(p, w, b)
    BY <2>3, RowPcNames DEF RestoreToPrimary, PowerOffDR, BootPrimary
  <2> QED
    BY <2>1, <2>2, <2>3
<1>3. CASE rn[p].pc \in {"demote", "demote_off"}
  BY <1>1, <1>3, RowPcNames, HandsOn
<1>4. CASE /\ rn[p].pc \in RowPcs
           /\ \E pc \in RowPcs : \/ Goto(p, pc) \/ GotoLoop(p, pc)
                                 \/ \E w \in Workloads : Round(p, w, pc)
  BY <1>1, <1>4, RowGoesOn, HandsOn
<1> QED
  BY <1>2, <1>3, <1>4

LEMMA CommandHands ==
    ASSUME TypeOK, NEW p \in Runners,
           \/ Promote(p) \/ Failback(p) \/ Demote(p) \/ Watch(p)
           \/ CommandStep(p) \/ Crash(p)
    PROVE  Hands(p)
<1>1. CASE PromoteStep(p)
  <2>1. CASE _fence_primary(p) \/ \E b \in BOOLEAN : FenceFails(p, b)
    BY <2>1, NoRowHands
  <2>2. CASE CreateFailover(p)
    BY <2>2, CreateHands
  <2>3. ASSUME NEW stuck \in SUBSET ({rn[p].run} \X Workloads),
               NEW b \in BOOLEAN, RollbackPower(p, stuck, b)
        PROVE  Hands(p)
    <3>1. Settles(p) \/ Abandons(p)
      BY <2>3, Zenon DEF Settles, Abandons
    <3> QED
      BY <3>1, FinishHands, AbandonsHands
  <2>5. ASSUME NEW b \in BOOLEAN, FinishFailover(p, b) \/ RollbackRaises(p, b)
        PROVE  Hands(p)
    <3>1. \/ Settles(p) \/ Abandons(p) \/ FinishFailover(p, FALSE)
      BY <2>5, Zenon DEF Settles, Abandons
    <3> QED
      BY <3>1, FinishHands, AbandonsHands
  <2>4. CASE \/ ActivateDR(p) \/ PromoteRaises(p)
             \/ \E b \in BOOLEAN : PrepareDR(p, b) \/ RollbackRoute(p, b)
             \/ \E w \in Workloads : \/ RestoreWorkload(p, w)
                                     \/ \E b \in BOOLEAN : Boot(p, w, b)
    BY <2>4, PromoteHands
  <2> QED
    BY <1>1, <2>1, <2>2, <2>3, <2>4, <2>5, Zenon DEF PromoteStep
<1>2. CASE FailbackStep(p)
  <2>1. CASE CreateFailback(p)
    BY <2>1, CreateHands
  <2>2. ASSUME NEW b \in BOOLEAN, FinishFailback(p, b) \/ FailbackFailed(p, b)
        PROVE  Hands(p)
    <3>1. \/ Settles(p) \/ Abandons(p) \/ FinishFailback(p, FALSE)
      BY <2>2, Zenon DEF Settles, Abandons
    <3> QED
      BY <3>1, FinishHands, AbandonsHands
  <2>3. CASE \E w \in Workloads : FinalBackup(p, w)
    BY <2>3, FinalBackupHands
  <2>4. CASE \/ PreparePrimary(p) \/ ActivatePrimary(p) \/ FailbackRaises(p)
             \/ WithdrawDR(p)
             \/ \E w \in Workloads :
                  \/ RestoreToPrimary(p, w)
                  \/ \E b \in BOOLEAN :
                       PowerOffDR(p, w, b) \/ BootPrimary(p, w, b)
    BY <2>4, FailbackHands
  <2> QED
    BY <1>2, <2>1, <2>2, <2>3, <2>4, Zenon DEF FailbackStep
<1>3. CASE \/ Promote(p) \/ Failback(p) \/ Demote(p) \/ Watch(p)
           \/ Demoted(p) \/ DemoteRaises(p) \/ PromoteRefused(p)
           \/ \E b \in BOOLEAN : Probe(p, b)
  BY <1>3, NoRowHands
<1>4. CASE Crash(p)
  BY <1>4, AbandonsHands DEF Abandons
<1> QED
  BY <1>1, <1>2, <1>3, <1>4, Zenon DEF CommandStep

(* A step of p, which hands the rows on as it should; the others keep      *)
(* theirs.                                                                 *)
LEMMA RunnersStay ==
    ASSUME RunningHasRunner, NEW p \in Runners, Hands(p),
           \A q \in Runners \ {p} : rn'[q] = rn[q]
    PROVE  RunningHasRunner'
<1>1. ASSUME NEW i \in RunIds \ abandoned', runs'[i].status = "running"
      PROVE  \E q \in Runners : rn'[q].pc \in RowPcs /\ rn'[q].run = i
  <2>1. CASE rn'[p].pc \in RowPcs /\ rn'[p].run = i
    BY <2>1
  <2>2. CASE /\ runs[i].status = "running"
             /\ ~(rn[p].pc \in RowPcs /\ rn[p].run = i)
    <3>1. PICK q \in Runners : rn[q].pc \in RowPcs /\ rn[q].run = i
      BY <2>2 DEF RunningHasRunner, Hands
    <3>2. q # p
      BY <2>2, <3>1
    <3> QED
      BY <3>1, <3>2
  <2> QED
    BY <1>1, <2>1, <2>2 DEF Hands
<1> QED
  BY <1>1 DEF RunningHasRunner

LEMMA RunnerStep ==
    ASSUME KeepInv, RunningHasRunner, [Next]_vars
    PROVE  RunningHasRunner'
<1>0. TypeOK
  BY DEF KeepInv
<1>1. ASSUME NEW p \in Runners,
             \/ Promote(p) \/ Failback(p) \/ Demote(p) \/ Watch(p)
             \/ CommandStep(p) \/ Crash(p)
      PROVE  RunningHasRunner'
  <2>1. Kept(p)
    BY <1>1, CommandKept
  <2>2. \A q \in Runners \ {p} : rn'[q] = rn[q]
    BY <2>1 DEF Kept, StepOf
  <2> QED
    BY <1>0, <1>1, <2>2, CommandHands, RunnersStay
<1>2. CASE \/ \E b \in BOOLEAN : Maintenance(b)
           \/ IsolatePrimary
           \/ \E v \in VMs : Serve(v)
           \/ UNCHANGED vars
  <2>1. runs' = runs /\ rn' = rn /\ abandoned' = abandoned
    BY <1>2 DEF Maintenance, IsolatePrimary, Serve, vars, ran
  <2> QED
    BY <2>1 DEF RunningHasRunner
<1> QED
  BY <1>1, <1>2, Zenon DEF Next

(* A run reported as running has the command that will settle it, in every *)
(* race of commands, unless the command was killed or its except clause    *)
(* raised before it wrote the outcome (promote, failback).                 *)
THEOREM RunnerCorrect == Spec => []RunningHasRunner
<1>1. Init => RunningHasRunner
  <2>1. ASSUME Init
        PROVE  \A i \in RunIds : runs[i].status = "failed"
    BY <2>1, InitFacts
  <2> QED
    BY <2>1 DEF RunningHasRunner
<1>2. KeepInv /\ RunningHasRunner /\ [Next]_vars
        => KeepInv' /\ RunningHasRunner'
  BY KeepStep, RunnerStep
<1> QED
  BY <1>1, <1>2, KeepInit, PTL DEF Spec

-----------------------------------------------------------------------------
(* The sites, for one command at a time and without faults. *)

OneCommand == \E p : Runners = {p}

Latest == latest_dr_run("failover")
Up == _already_failed_over
OnAt(where) == on \cap VMsAt(where)

(* Rows are used in order, and a command that made a row made the last. *)
OrderInv(p) ==
    /\ \A i, j \in RunIds : i < j /\ runs[i].dir = "none" => runs[j].dir = "none"
    /\ rn[p].pc \in RowPcs =>
         \A j \in RunIds : j > rn[p].run => runs[j].dir = "none"

(* The gateways while a command changes them. *)
GateInv(p) ==
    /\ rn[p].pc \in {"restore", "activate"} => "primary" \notin route
    /\ rn[p].pc \in {"boot", "booted"} => "dr" \in route
    /\ rn[p].pc \in {"fb_poweroff", "fb_activate"} => "dr" \notin route

(* A DR copy that runs is one of the active failover, unless a promotion   *)
(* is at it.                                                               *)
DrInv(p) ==
    /\ Up => OnAt("dr") \subseteq {Latest} \X Workloads
    /\ ~Up /\ rn[p].pc \notin FailoverPcs => OnAt("dr") = {}

(* A promotion: no failover is active, the primary site is fenced, and     *)
(* what runs is what it booted.                                            *)
PromoteInv(p) ==
    LET r == rn[p] IN
    /\ r.pc \in FailoverPcs \cup {"fence", "create"} => ~Up
    /\ r.pc \in FailoverPcs \cup {"create"} => OnAt("primary") = {}
    /\ r.pc \in {"create", "prepare", "restore", "activate"} => on = {}
    /\ r.pc = "boot" => on = {r.run} \X (Workloads \ r.todo)
    /\ r.pc = "booted" => on = {r.run} \X Workloads
    /\ r.pc \in FailoverPcs => on \subseteq {r.run} \X Workloads

(* A failback: its failover is the active one, the primary site stays off  *)
(* until the DR copies are off; and a demotion.                            *)
FailbackInv(p) ==
    LET r == rn[p] IN
    /\ r.pc \in FailbackPcs \cup {"fb_create", "fb_fail"} =>
         Up /\ r.from = Latest
    /\ r.pc \in (FailbackPcs \ {"fb_boot", "fb_booted"}) \cup {"fb_create"} =>
         OnAt("primary") = {}
    /\ r.pc = "fb_poweroff" =>
         on \cap ({r.from} \X (Workloads \ r.todo)) = {}
    /\ r.pc = "fb_activate" => on = {}
    /\ r.pc = "fb_boot" => on \subseteq {r.run} \X (Workloads \ r.todo)
    /\ r.pc = "fb_booted" => on \subseteq {r.run} \X Workloads
    /\ r.pc \in DemotePcs \cup {"demoted"} => Latest # 0 /\ r.from = Latest
    /\ r.pc \in {"demote_off", "demoted"} => demoted[r.from] # "no"

(* OneCopy, without counting. *)
Single == \A u, v \in on : u[2] = v[2] => u = v

(* ActiveServes, while nothing has gone wrong. *)
Serving ==
    Up /\ ~Withdrawing(Latest) =>
      "dr" \in route /\ {Latest} \X Workloads \subseteq on

SiteOf(p) ==
    /\ OrderInv(p) /\ GateInv(p) /\ DrInv(p) /\ PromoteInv(p) /\ FailbackInv(p)
    /\ route # {"primary", "dr"} /\ Single /\ Serving

SiteInv == faults = 0 => \A p \in Runners : SiteOf(p)

(* An active failover has a row that succeeded, and no later failback has. *)
LEMMA UpDef ==
    ASSUME Up
    PROVE  /\ Latest \in RunIds /\ Latest \in 0..MaxRuns
           /\ runs[Latest] = [dir |-> "failover", status |-> "success"]
           /\ runs[Latest].dir = "failover"
           /\ latest_dr_run("failback") < Latest
<1>1. /\ Latest \in {0} \cup Succeeded("failover")
      /\ Latest \in 0..MaxRuns /\ latest_dr_run("failback") \in 0..MaxRuns
  BY LatestDef DEF Latest
<1>2. latest_dr_run("failback") < Latest
  BY <1>1 DEF Up, _already_failed_over, Latest
<1>3. Latest \in Succeeded("failover")
  BY <1>1, <1>2
<1> QED
  BY <1>1, <1>2, <1>3 DEF Succeeded

(* While the rows stay the same, so does what is asked of them. *)
LEMMA SameRows ==
    ASSUME runs' = runs
    PROVE  /\ Latest' = Latest /\ (Up <=> Up')
           /\ \A where : VMsAt(where)' = VMsAt(where)
           /\ \A i : Withdrawing(i)' <=>
                \/ \E j \in RunIds : j > i /\ runs[j].dir = "failback"
                \/ demoted'[i] # "no"
<1>1. \A dir : latest_dr_run(dir)' = latest_dr_run(dir)
  BY DEF latest_dr_run
<1> QED
  BY <1>1 DEF Latest, Up, _already_failed_over, VMsAt, Withdrawing

(* The steps that make no row, settle none and power nothing on. *)
LEMMA SiteFrame ==
    ASSUME KeepInv, NEW p \in Runners, SiteOf(p), runs' = runs,
           on' \subseteq on, route' # {"primary", "dr"},
           rn[p].pc \in FailoverPcs => rn'[p].pc \in FailoverPcs,
           rn'[p].pc \in RowPcs =>
             rn[p].pc \in RowPcs /\ rn'[p].run = rn[p].run,
           \/ ~Up
           \/ Withdrawing(Latest)'
           \/ /\ "dr" \in route => "dr" \in route'
              /\ on \cap VMsAt("dr") \subseteq on'
              /\ demoted'[Latest] = "no" => demoted[Latest] = "no",
           GateInv(p)', PromoteInv(p)', FailbackInv(p)'
    PROVE  SiteOf(p)'
<1>1. /\ Latest' = Latest /\ (Up <=> Up')
      /\ \A where : VMsAt(where)' = VMsAt(where)
      /\ \A i : Withdrawing(i)' <=>
           \/ \E j \in RunIds : j > i /\ runs[j].dir = "failback"
           \/ demoted'[i] # "no"
  BY SameRows
<1>2. OrderInv(p)'
  BY DEF SiteOf, OrderInv
<1>3. OnAt("dr")' \subseteq OnAt("dr")
  BY <1>1 DEF OnAt
<1>4. DrInv(p)'
  BY <1>1, <1>3 DEF SiteOf, DrInv
<1>5. Single'
  BY DEF SiteOf, Single
<1>6. Serving'
  <2>1. CASE ~Up \/ Withdrawing(Latest)'
    BY <1>1, <2>1 DEF Serving
  <2>2. CASE Up /\ ~Withdrawing(Latest)'
    <3>1. /\ "dr" \in route => "dr" \in route'
          /\ on \cap VMsAt("dr") \subseteq on'
          /\ demoted'[Latest] = "no" => demoted[Latest] = "no"
      BY <2>2
    <3>2. ~Withdrawing(Latest)
      BY <1>1, <2>2, <3>1 DEF Withdrawing
    <3>3. "dr" \in route /\ {Latest} \X Workloads \subseteq on
      BY <2>2, <3>2 DEF SiteOf, Serving
    <3>4. {Latest} \X Workloads \subseteq VMsAt("dr")
      <4>1. Latest \in RunIds /\ runs[Latest].dir = "failover"
        BY <2>2, UpDef
      <4> QED
        BY <3>3, <4>1 DEF KeepInv, TypeOK, VMsAt
    <3> QED
      BY <1>1, <3>1, <3>3, <3>4 DEF Serving
  <2> QED
    BY <2>1, <2>2
<1> QED
  BY <1>2, <1>4, <1>5, <1>6 DEF SiteOf

(* Where the parts of the invariant that follow a command say nothing. *)
LEMMA NoPromotion ==
    ASSUME NEW p, rn'[p].pc \notin FailoverPcs \cup {"fence", "create"}
    PROVE  PromoteInv(p)'
<1>1. {"prepare", "restore", "activate", "boot", "booted"} \subseteq FailoverPcs
  BY DEF FailoverPcs, PromotePcs
<1> QED
  BY <1>1 DEF PromoteInv

LEMMA NoFailback ==
    ASSUME NEW p, rn'[p].pc \notin FailbackPcs \cup {"fb_create", "fb_fail"}
                    \cup DemotePcs \cup {"demoted"}
    PROVE  FailbackInv(p)'
BY DEF FailbackInv, FailbackPcs, DemotePcs

LEMMA PcKinds ==
    /\ FailoverPcs = {"prepare", "restore", "activate", "boot", "booted",
                      "rollback", "poweroff"}
    /\ FailbackPcs = {"fb_prepare", "fb_backup", "fb_restore", "fb_withdraw",
                      "fb_poweroff", "fb_activate", "fb_boot", "fb_booted"}
    /\ DemotePcs = {"demote", "demote_off"}
    /\ RowPcs = {"prepare", "restore", "activate", "boot", "booted",
                 "rollback", "poweroff", "fb_prepare", "fb_backup",
                 "fb_restore", "fb_withdraw", "fb_poweroff", "fb_activate",
                 "fb_boot", "fb_booted", "fb_fail"}
BY DEF FailoverPcs, FailbackPcs, DemotePcs, RowPcs, PromotePcs

(* Both sites together hold every VM. *)
LEMMA Sides ==
    ASSUME TypeOK
    PROVE  on = OnAt("primary") \cup OnAt("dr")
BY DEF TypeOK, OnAt, VMsAt

(* The steps that begin or end a command and leave the sites. *)
LEMMA QuietSite ==
    ASSUME KeepInv, NEW p \in Runners, SiteOf(p), runs' = runs,
           on' \subseteq on, route' # {"primary", "dr"},
           rn[p].pc \notin FailoverPcs,
           rn'[p].pc \in {"idle", "probe", "promote"},
           \/ ~Up
           \/ /\ route' = route /\ on' = on
              /\ demoted'[Latest] = "no" => demoted[Latest] = "no"
    PROVE  SiteOf(p)'
<1>1. rn'[p].pc \notin FailoverPcs \cup RowPcs
  BY PcKinds
<1>2. GateInv(p)' /\ PromoteInv(p)' /\ FailbackInv(p)'
  BY NoPromotion, NoFailback, PcKinds DEF GateInv
<1> QED
  BY <1>1, <1>2, SiteFrame, Zenon

LEMMA EndSite ==
    ASSUME KeepInv, NEW p \in Runners, SiteOf(p),
           \/ PromoteRefused(p) \/ DemoteRaises(p) \/ Watch(p)
           \/ \E b \in BOOLEAN : FenceFails(p, b) \/ Probe(p, b)
           \/ Demoted(p)
    PROVE  SiteOf(p)'
<1>0. TypeOK /\ route \subseteq {"primary", "dr"}
        /\ route # {"primary", "dr"}
  BY DEF KeepInv, TypeOK, SiteOf
<1>1. rn'[p].pc \in {"idle", "probe", "promote"} /\ runs' = runs
        /\ on' \subseteq on
  <2>1. CASE Watch(p)
    BY <1>0, <2>1, GotoType DEF Watch, Pcs, site
  <2>2. CASE \E b \in BOOLEAN : Probe(p, b)
    <3>1. Done(p) \/ Goto(p, "promote")
      BY <2>2 DEF Probe
    <3> QED
      BY <1>0, <2>2, <3>1, GotoType, DoneType DEF Probe, Pcs, site
  <2>3. CASE \/ PromoteRefused(p) \/ DemoteRaises(p) \/ Demoted(p)
             \/ \E b \in BOOLEAN : FenceFails(p, b)
    <3>1. Done(p)
      BY <2>3 DEF PromoteRefused, DemoteRaises, Demoted, FenceFails
    <3> QED
      BY <1>0, <2>3, <3>1, DoneType
         DEF PromoteRefused, DemoteRaises, Demoted, FenceFails, site
  <2> QED
    BY <2>1, <2>2, <2>3
<1>2. rn[p].pc \in {"idle", "probe", "promote", "fence", "demote",
                    "demote_off", "demoted"}
  BY DEF PromoteRefused, DemoteRaises, Watch, FenceFails, Probe, Demoted,
         DemotePcs
<1>3. rn[p].pc \notin FailoverPcs
  BY <1>2, PcKinds
<1>4. CASE \E b \in BOOLEAN : FenceFails(p, b)
  <2>1. rn[p].pc = "fence" /\ route' \subseteq route
    BY <1>4 DEF FenceFails
  <2>2. ~Up
    BY <2>1 DEF SiteOf, PromoteInv
  <2>3. route' # {"primary", "dr"}
    BY <1>0, <2>1
  <2> QED
    BY <1>1, <1>3, <2>2, <2>3, QuietSite
<1>5. CASE ~\E b \in BOOLEAN : FenceFails(p, b)
  <2>1. on' = on /\ route' = route
    BY <1>5 DEF PromoteRefused, DemoteRaises, Watch, Probe, Demoted, site
  <2>2. ASSUME Up
        PROVE  demoted'[Latest] = "no" => demoted[Latest] = "no"
    <3>1. Latest \in RunIds
      BY <2>2, UpDef
    <3>2. demoted' = demoted \/ demoted' = [demoted EXCEPT ![rn[p].from] = "done"]
      BY <1>5 DEF PromoteRefused, DemoteRaises, Watch, Probe, Demoted, ran
    <3> QED
      BY <1>0, <3>1, <3>2 DEF TypeOK
  <2> QED
    BY <1>0, <1>1, <1>3, <2>1, <2>2, QuietSite
<1> QED
  BY <1>4, <1>5

LEMMA PromoteSite ==
    ASSUME KeepInv, NEW p \in Runners, SiteOf(p), Promote(p)
    PROVE  SiteOf(p)'
<1>1. TypeOK /\ "fence" \in Pcs /\ Goto(p, "fence")
  BY DEF KeepInv, Pcs, Promote
<1>2. rn'[p].pc = "fence"
  BY <1>1, GotoType
<1>3. /\ runs' = runs /\ on' = on /\ route' = route
      /\ demoted' = demoted /\ ~Up /\ rn[p].pc \notin FailoverPcs
  BY PcKinds DEF Promote, site, ran, Up
<1>4. ~Up'
  BY <1>3, SameRows
<1>5. GateInv(p)' /\ PromoteInv(p)' /\ FailbackInv(p)'
  BY <1>2, <1>4, NoFailback, PcKinds DEF GateInv, PromoteInv
<1>6. route' # {"primary", "dr"}
  BY <1>3 DEF SiteOf
<1>7. rn'[p].pc \notin RowPcs
  BY <1>2, PcKinds
<1> QED
  BY <1>3, <1>5, <1>6, <1>7, SiteFrame

LEMMA FenceSite ==
    ASSUME KeepInv, NEW p \in Runners, SiteOf(p), _fence_primary(p)
    PROVE  SiteOf(p)'
<1>1. /\ TypeOK /\ "create" \in Pcs /\ Goto(p, "create")
      /\ rn[p].pc = "fence" /\ route \subseteq {"primary", "dr"}
  BY DEF KeepInv, Pcs, _fence_primary, TypeOK
<1>2. rn'[p].pc = "create"
  BY <1>1, GotoType
<1>3. /\ runs' = runs /\ on' = on \ VMsAt("primary")
      /\ route' = route \ {"primary"} /\ demoted' = demoted
  BY DEF _fence_primary, ran
<1>4. ~Up /\ OnAt("dr") = {}
  BY <1>1, PcKinds DEF SiteOf, PromoteInv, DrInv
<1>5. on' = {}
  BY <1>1, <1>3, <1>4, Sides DEF OnAt
<1>6. ~Up' /\ OnAt("primary")' = {}
  BY <1>3, <1>4, <1>5, SameRows DEF OnAt
<1>7. GateInv(p)' /\ PromoteInv(p)' /\ FailbackInv(p)'
  BY <1>2, <1>5, <1>6, NoFailback, PcKinds DEF GateInv, PromoteInv
<1>8. route' # {"primary", "dr"} /\ on' \subseteq on
  BY <1>3
<1>9. rn'[p].pc \notin RowPcs /\ rn[p].pc \notin FailoverPcs
  BY <1>1, <1>2, PcKinds
<1> QED
  BY <1>3, <1>4, <1>7, <1>8, <1>9, SiteFrame

(* The steps of a promotion that power nothing on and settle no row. *)
LEMMA PromoteStepSite ==
    ASSUME KeepInv, NEW p \in Runners, SiteOf(p), faults = 0, faults' = 0,
           \/ ActivateDR(p) \/ PromoteRaises(p)
           \/ \E b \in BOOLEAN : PrepareDR(p, b) \/ RollbackRoute(p, b)
           \/ \E w \in Workloads : RestoreWorkload(p, w)
    PROVE  SiteOf(p)'
<1>0. /\ TypeOK /\ route \subseteq {"primary", "dr"}
      /\ route # {"primary", "dr"}
  BY DEF KeepInv, TypeOK, SiteOf
<1>1. /\ runs' = runs /\ on' = on /\ demoted' = demoted
      /\ rn[p].pc \in FailoverPcs
  BY PcKinds DEF ActivateDR, PromoteRaises, PrepareDR, RollbackRoute,
       RestoreWorkload, site, ran, PromotePcs
<1>2. ~Up /\ OnAt("primary") = {} /\ on \subseteq {rn[p].run} \X Workloads
  BY <1>1 DEF SiteOf, PromoteInv
<1>3. ~Up' /\ OnAt("primary")' = {}
  BY <1>1, <1>2, SameRows DEF OnAt
<1>4. {"restore", "boot", "rollback", "poweroff", "activate"} \subseteq Pcs
  BY DEF Pcs, PromotePcs
<1>5. ASSUME rn'[p].run = rn[p].run,
             \/ rn'[p].pc \in {"restore", "activate"} /\ on = {}
             \/ rn'[p].pc = "boot" /\ on = {} /\ rn'[p].todo = Workloads
             \/ rn'[p].pc \in {"rollback", "poweroff"}
      PROVE  PromoteInv(p)'
  <2>1. on' \subseteq {rn'[p].run} \X Workloads
    BY <1>1, <1>2, <1>5
  <2>2. rn'[p].pc = "boot" => on' = {rn'[p].run} \X (Workloads \ rn'[p].todo)
    BY <1>1, <1>5
  <2> QED
    BY <1>1, <1>3, <1>5, <2>1, <2>2, PcKinds DEF PromoteInv
<1>6. ASSUME rn'[p].pc \in FailoverPcs, rn'[p].run = rn[p].run,
             PromoteInv(p)', GateInv(p)', route' # {"primary", "dr"}
      PROVE  SiteOf(p)'
  <2>1. FailbackInv(p)'
    BY <1>6, NoFailback, PcKinds
  <2>2. rn[p].pc \in RowPcs /\ on' \subseteq on
    BY <1>1, PcKinds
  <2> QED
    BY <1>1, <1>2, <1>6, <2>1, <2>2, SiteFrame
<1>7. CASE \E b \in BOOLEAN : PrepareDR(p, b)
  <2>1. /\ rn[p].pc = "prepare" /\ GotoLoop(p, "restore")
        /\ route' = route \ {"primary"}
    BY <1>7 DEF PrepareDR
  <2>2. rn'[p].pc = "restore" /\ rn'[p].run = rn[p].run
    BY <1>0, <1>4, <2>1, GotoLoopType
  <2>3. on = {}
    BY <2>1 DEF SiteOf, PromoteInv
  <2>4. GateInv(p)'
    BY <2>1, <2>2 DEF GateInv
  <2> QED
    BY <1>5, <1>6, <2>1, <2>2, <2>3, <2>4, PcKinds
<1>8. CASE \E w \in Workloads : RestoreWorkload(p, w)
  <2>1. PICK w \in Workloads : RestoreWorkload(p, w)
    BY <1>8
  <2>2. rn[p].pc = "restore" /\ Round(p, w, "activate") /\ route' = route
    BY <2>1 DEF RestoreWorkload, site
  <2>3. rn'[p].pc \in {"restore", "activate"} /\ rn'[p].run = rn[p].run
    BY <1>0, <1>4, <2>2, RoundType
  <2>4. on = {} /\ "primary" \notin route
    BY <2>2 DEF SiteOf, PromoteInv, GateInv
  <2>5. GateInv(p)'
    BY <2>2, <2>3, <2>4 DEF GateInv
  <2> QED
    BY <1>0, <1>5, <1>6, <2>2, <2>3, <2>4, <2>5, PcKinds
<1>9. CASE ActivateDR(p)
  <2>1. /\ rn[p].pc = "activate" /\ GotoLoop(p, "boot")
        /\ route' = route \cup {"dr"}
    BY <1>9 DEF ActivateDR
  <2>2. /\ rn'[p].pc = "boot" /\ rn'[p].run = rn[p].run
        /\ rn'[p].todo = Workloads
    BY <1>0, <1>4, <2>1, GotoLoopType
  <2>3. on = {} /\ "primary" \notin route
    BY <2>1 DEF SiteOf, PromoteInv, GateInv
  <2>4. GateInv(p)' /\ route' # {"primary", "dr"}
    BY <2>1, <2>2, <2>3 DEF GateInv
  <2> QED
    BY <1>5, <1>6, <2>2, <2>3, <2>4, PcKinds
<1>10. CASE PromoteRaises(p) \/ \E b \in BOOLEAN : RollbackRoute(p, b)
  <2>1. /\ Goto(p, "rollback") \/ Goto(p, "poweroff")
        /\ route' \subseteq route
    BY <1>10 DEF PromoteRaises, RollbackRoute, site
  <2>2. rn'[p].pc \in {"rollback", "poweroff"} /\ rn'[p].run = rn[p].run
    BY <1>0, <1>4, <2>1, GotoType
  <2>3. GateInv(p)' /\ route' # {"primary", "dr"}
    BY <1>0, <2>1, <2>2 DEF GateInv
  <2> QED
    BY <1>5, <1>6, <2>2, <2>3, PcKinds
<1> QED
  BY <1>7, <1>8, <1>9, <1>10

(* A row is made after all the others. *)
LEMMA CreateOrder ==
    ASSUME KeepInv, KeepInv', NEW p \in Runners, SiteOf(p), NEW i \in RunIds,
           NEW dir \in {"failover", "failback"},
           runs[i].dir = "none", rn'[p].run = i,
           \A j \in RunIds : j < i => runs[j].dir # "none",
           runs'[i] = [dir |-> dir, status |-> "running"],
           \A j \in RunIds \ {i} : runs'[j] = runs[j]
    PROVE  /\ OrderInv(p)' /\ Latest' = Latest /\ (Up <=> Up')
           /\ \A j \in RunIds : runs[j].dir # "none" => j < i
           /\ dir = "failback" => VMsAt("primary")' = VMsAt("primary")
           /\ on \subseteq VMsAt("dr") =>
                VMsAt("dr") \cap on = VMsAt("dr")' \cap on
<1>0. RunIds \subseteq Int /\ MaxRuns \in Nat /\ TypeOK /\ TypeOK'
  BY DEF RunIds, KeepInv
<1>1. \A j \in RunIds : j > i => runs[j].dir = "none"
  BY DEF SiteOf, OrderInv
<1>2. \A j \in RunIds : runs[j].dir # "none" => j < i
  BY <1>0, <1>1
<1>3. OrderInv(p)'
  <2>1. \A j \in RunIds : j > i => runs'[j].dir = "none"
    BY <1>0, <1>1
  <2>2. ASSUME NEW j \in RunIds, NEW k \in RunIds, j < k,
               runs'[j].dir = "none"
        PROVE  runs'[k].dir = "none"
    <3>1. j # i
      BY <2>2
    <3>2. runs[j].dir = "none" /\ runs[k].dir = "none"
      BY <2>2, <3>1 DEF SiteOf, OrderInv
    <3>3. ~(j < i)
      BY <3>2
    <3>4. k > i
      BY <1>0, <3>3, <2>2
    <3> QED
      BY <2>1, <3>4
  <2> QED
    BY <2>1, <2>2 DEF OrderInv
<1>4. \A d \in {"failover", "failback"} :
        {0} \cup {k \in RunIds : runs'[k] = [dir |-> d, status |-> "success"]}
          = {0} \cup {k \in RunIds : runs[k] = [dir |-> d, status |-> "success"]}
  <2>1. runs[i].dir # "failover" /\ runs[i].dir # "failback"
    OBVIOUS
  <2>2. runs'[i].status # "success"
    OBVIOUS
  <2> QED
    BY <2>1, <2>2
<1>5. \A d \in {"failover", "failback"} : latest_dr_run(d)' = latest_dr_run(d)
  BY <1>4 DEF latest_dr_run
<1>6. Latest' = Latest /\ (Up <=> Up')
  BY <1>5 DEF Latest, Up, _already_failed_over
<1>7. \A j \in RunIds : runs'[j].dir = runs[j].dir \/ j = i
  OBVIOUS
<1>8. dir = "failback" => VMsAt("primary")' = VMsAt("primary")
  <2>1. dir = "failback" => \A j \in RunIds :
          runs'[j].dir = "failover" <=> runs[j].dir = "failover"
    BY <1>7
  <2> QED
    BY <2>1 DEF VMsAt
<1>9. on \subseteq VMsAt("dr") => VMsAt("dr") \cap on = VMsAt("dr")' \cap on
  <2>1. ASSUME on \subseteq VMsAt("dr"), NEW v \in on
        PROVE  v \in VMsAt("dr")'
    <3>1. v \in VMs /\ v[1] \in RunIds /\ runs[v[1]].dir = "failover"
      BY <2>1 DEF VMsAt
    <3>2. runs'[v[1]].dir = "failover"
      BY <1>7, <3>1
    <3> QED
      BY <3>1, <3>2 DEF VMsAt
  <2> QED
    BY <2>1
<1> QED
  BY <1>2, <1>3, <1>6, <1>8, <1>9

LEMMA CreateFailoverSite ==
    ASSUME KeepInv, KeepInv', NEW p \in Runners, SiteOf(p), CreateFailover(p)
    PROVE  SiteOf(p)'
<1>0. /\ TypeOK /\ "prepare" \in Pcs /\ rn[p].pc = "create"
      /\ create_dr_run(p, "failover", "prepare")
  BY DEF KeepInv, Pcs, PromotePcs, CreateFailover
<1>1. PICK i \in RunIds :
        /\ runs[i].dir = "none"
        /\ \A j \in RunIds : j < i => runs[j].dir # "none"
        /\ runs'[i] = [dir |-> "failover", status |-> "running"]
        /\ \A j \in RunIds \ {i} : runs'[j] = runs[j]
        /\ rn'[p].pc = "prepare" /\ rn'[p].run = i
  BY <1>0, CreateType
<1>2. on' = on /\ route' = route
  BY DEF CreateFailover, site
<1>3. OrderInv(p)' /\ ~Up'
  <2>1. OrderInv(p)' /\ (Up <=> Up')
    BY <1>1, CreateOrder
  <2>2. ~Up
    BY <1>0 DEF SiteOf, PromoteInv
  <2> QED
    BY <2>1, <2>2
<1>4. on = {}
  BY <1>0 DEF SiteOf, PromoteInv
<1>5. OnAt("primary")' = {} /\ OnAt("dr")' = {}
  BY <1>2, <1>4 DEF OnAt
<1>6. GateInv(p)' /\ PromoteInv(p)' /\ FailbackInv(p)'
  BY <1>1, <1>2, <1>3, <1>4, <1>5, NoFailback, PcKinds DEF GateInv, PromoteInv
<1>7. DrInv(p)' /\ Serving' /\ Single' /\ route' # {"primary", "dr"}
  BY <1>2, <1>3, <1>4, <1>5 DEF DrInv, Serving, Single, SiteOf
<1> QED
  BY <1>3, <1>6, <1>7 DEF SiteOf

LEMMA CreateFailbackSite ==
    ASSUME KeepInv, KeepInv', NEW p \in Runners, SiteOf(p), CreateFailback(p)
    PROVE  SiteOf(p)'
<1>0. /\ TypeOK /\ "fb_prepare" \in Pcs /\ rn[p].pc = "fb_create"
      /\ create_dr_run(p, "failback", "fb_prepare")
  BY DEF KeepInv, Pcs, FailbackPcs, CreateFailback
<1>1. PICK i \in RunIds :
        /\ runs[i].dir = "none"
        /\ \A j \in RunIds : j < i => runs[j].dir # "none"
        /\ runs'[i] = [dir |-> "failback", status |-> "running"]
        /\ \A j \in RunIds \ {i} : runs'[j] = runs[j]
        /\ rn'[p].pc = "fb_prepare" /\ rn'[p].run = i
        /\ rn'[p].from = rn[p].from
  BY <1>0, CreateType
<1>2. on' = on /\ route' = route
  BY DEF CreateFailback, site
<1>3. /\ Up /\ rn[p].from = Latest /\ OnAt("primary") = {}
      /\ OnAt("dr") \subseteq {Latest} \X Workloads
  BY <1>0 DEF SiteOf, FailbackInv, DrInv
<1>4. /\ OrderInv(p)' /\ Up' /\ Latest' = Latest
      /\ VMsAt("primary")' = VMsAt("primary") /\ Latest < i
      /\ on \subseteq VMsAt("dr") =>
           VMsAt("dr") \cap on = VMsAt("dr")' \cap on
  <2>1. Latest \in RunIds /\ runs[Latest].dir # "none"
    BY <1>3, UpDef
  <2> QED
    BY <1>1, <1>3, <2>1, CreateOrder
<1>5. OnAt("primary")' = {} /\ OnAt("dr")' = OnAt("dr")
  <2>1. on \subseteq VMsAt("dr")
    BY <1>0, <1>3, Sides DEF OnAt
  <2> QED
    BY <1>2, <1>3, <1>4, <2>1 DEF OnAt
<1>6. GateInv(p)' /\ PromoteInv(p)'
  BY <1>1, NoPromotion, PcKinds DEF GateInv
<1>7. FailbackInv(p)'
  BY <1>1, <1>3, <1>4, <1>5, PcKinds DEF FailbackInv
<1>8. DrInv(p)' /\ Single' /\ route' # {"primary", "dr"}
  BY <1>2, <1>3, <1>4, <1>5 DEF DrInv, Single, SiteOf
<1>9. Withdrawing(Latest)'
  BY <1>1, <1>4 DEF Withdrawing, RunIds
<1> QED
  BY <1>4, <1>6, <1>7, <1>8, <1>9 DEF SiteOf, Serving

LEMMA BootSite ==
    ASSUME KeepInv, KeepInv', NEW p \in Runners, SiteOf(p),
           NEW w \in Workloads, NEW b \in BOOLEAN, Boot(p, w, b)
    PROVE  SiteOf(p)'
<1>0. /\ TypeOK /\ rn[p].pc = "boot" /\ w \in rn[p].todo
      /\ {"booted", "rollback"} \subseteq Pcs
      /\ rn[p].todo \subseteq Workloads
  BY RunnerType DEF KeepInv, Boot, Pcs, PromotePcs
<1>1. Round(p, w, "booted") \/ Goto(p, "rollback")
  BY DEF Boot
<1>2. /\ rn'[p].run = rn[p].run
      /\ \/ rn'[p].pc = "booted" /\ rn[p].todo = {w}
         \/ rn'[p].pc = "boot" /\ rn'[p].todo = rn[p].todo \ {w}
         \/ rn'[p].pc = "rollback"
  <2>1. CASE Round(p, w, "booted")
    BY <1>0, <2>1, RoundType
  <2>2. CASE Goto(p, "rollback")
    BY <1>0, <2>2, GotoType
  <2> QED
    BY <1>1, <2>1, <2>2
<1>3. /\ runs' = runs /\ on' = on \cup {<<rn[p].run, w>>} /\ route' = route
      /\ demoted' = demoted
  BY DEF Boot, ran
<1>4. /\ on = {rn[p].run} \X (Workloads \ rn[p].todo) /\ ~Up
      /\ OnAt("primary") = {}
  BY <1>0, PcKinds DEF SiteOf, PromoteInv
<1>5. /\ on' \subseteq {rn[p].run} \X Workloads
      /\ rn'[p].pc = "boot" => on' = {rn[p].run} \X (Workloads \ rn'[p].todo)
      /\ rn'[p].pc = "booted" => on' = {rn[p].run} \X Workloads
  <2>1. on' = {rn[p].run} \X (Workloads \ (rn[p].todo \ {w}))
    BY <1>0, <1>3, <1>4
  <2> QED
    BY <1>2, <2>1
<1>6. <<rn[p].run, w>> \notin VMsAt("primary")
  <2>1. RowInv(p)
    BY DEF KeepInv
  <2>2. rn[p].run \in RunIds /\ runs[rn[p].run].dir = "failover"
    BY <1>0, <2>1, PcKinds DEF RowInv
  <2> QED
    BY <2>2 DEF VMsAt
<1>7. ~Up' /\ OnAt("primary")' = {}
  BY <1>3, <1>4, <1>6, SameRows DEF OnAt
<1>8. PromoteInv(p)' /\ FailbackInv(p)'
  BY <1>2, <1>5, <1>7, NoFailback, PcKinds DEF PromoteInv
<1>9. GateInv(p)' /\ route' # {"primary", "dr"}
  BY <1>0, <1>2, <1>3 DEF GateInv, SiteOf
<1>10. rn'[p].pc \in FailoverPcs /\ rn[p].pc \in RowPcs
  BY <1>0, <1>2, PcKinds
<1>11. DrInv(p)' /\ Serving'
  BY <1>7, <1>10 DEF DrInv, Serving
<1>12. Single'
  BY <1>5 DEF Single
<1>13. OrderInv(p)'
  BY <1>2, <1>3, <1>10 DEF OrderInv, SiteOf
<1> QED
  BY <1>8, <1>9, <1>11, <1>12, <1>13 DEF SiteOf

(* A row that settles leaves the last success of the other direction, and  *)
(* one that fails leaves both.                                             *)
LEMMA OtherRows ==
    ASSUME KeepInv, NEW p \in Runners, NEW d \in {"failover", "failback"},
           NEW s \in {"success", "failed"}, finish_dr_run(p, s), faults = 0,
           rn[p].pc \in RowPcs, rn'[p].pc = "idle",
           s = "failed" \/ (d = "failover" <=> rn[p].pc \notin FailoverPcs)
    PROVE  latest_dr_run(d)' = latest_dr_run(d)
<1> DEFINE i == rn[p].run
<1>0. TypeOK /\ RowInv(p)
  BY DEF KeepInv
<1>1. /\ i \in RunIds /\ runs[i].status = "running"
      /\ runs[i].dir = IF rn[p].pc \in FailoverPcs THEN "failover"
                       ELSE "failback"
  BY <1>0 DEF RowInv
<1>2. /\ \A j \in RunIds : runs'[j].dir = runs[j].dir
      /\ \A j \in RunIds \ {i} : runs'[j] = runs[j]
      /\ runs'[i].status = s
  BY <1>0, <1>1, FinishType
<1>3. s = "failed" \/ runs[i].dir # d
  BY <1>1
<1>4. runs'[i] # [dir |-> d, status |-> "success"]
        /\ runs[i] # [dir |-> d, status |-> "success"]
  <2>1. runs'[i].dir # d \/ runs'[i].status # "success"
    BY <1>1, <1>2, <1>3
  <2>2. runs[i].status # "success"
    BY <1>1
  <2> QED
    BY <2>1, <2>2
<1>5. {0} \cup {k \in RunIds : runs'[k] = [dir |-> d, status |-> "success"]}
        = {0} \cup {k \in RunIds : runs[k] = [dir |-> d, status |-> "success"]}
  BY <1>1, <1>2, <1>4
<1> QED
  BY <1>5 DEF latest_dr_run

(* A row that settles is the last; what latest_dr_run then returns. *)
LEMMA SettleRows ==
    ASSUME KeepInv, KeepInv', NEW p \in Runners, SiteOf(p),
           NEW s \in {"success", "failed"}, finish_dr_run(p, s), faults = 0,
           rn[p].pc \in RowPcs, rn'[p].pc = "idle"
    PROVE  /\ OrderInv(p)'
           /\ \A where : VMsAt(where)' = VMsAt(where)
           /\ \A i : demoted'[i] = demoted[i] =>
                (Withdrawing(i)' <=> Withdrawing(i))
           /\ s = "failed" => Latest' = Latest /\ (Up <=> Up')
           /\ s = "success" /\ rn[p].pc \in FailoverPcs =>
                Latest' = rn[p].run
           /\ s = "success" /\ rn[p].pc \notin FailoverPcs => ~Up'
<1> DEFINE i == rn[p].run
<1>0. TypeOK /\ TypeOK' /\ RowInv(p)
  BY DEF KeepInv
<1>1. /\ i \in RunIds /\ runs[i].status = "running"
      /\ runs[i].dir = IF rn[p].pc \in FailoverPcs THEN "failover"
                       ELSE "failback"
      /\ \A j \in RunIds : j > i => runs[j].dir = "none"
  BY <1>0 DEF RowInv, SiteOf, OrderInv
<1>2. /\ \A j \in RunIds : runs'[j].dir = runs[j].dir
      /\ \A j \in RunIds \ {i} : runs'[j] = runs[j]
      /\ runs'[i].status = s
  BY <1>0, <1>1, FinishType
<1>3. OrderInv(p)'
  BY <1>2, PcKinds DEF SiteOf, OrderInv
<1>4. \A where : VMsAt(where)' = VMsAt(where)
  BY <1>2 DEF VMsAt
<1>5. \A j : demoted'[j] = demoted[j] => (Withdrawing(j)' <=> Withdrawing(j))
  BY <1>2 DEF Withdrawing
<1>6. \A d \in {"failover", "failback"} :
        s = "failed" \/ (d = "failover" <=> rn[p].pc \notin FailoverPcs) =>
          latest_dr_run(d)' = latest_dr_run(d)
  BY OtherRows
<1>7. ASSUME NEW d \in {"failover", "failback"}, s = "success",
             runs[i].dir = d
      PROVE  latest_dr_run(d)' = i
  <2>1. runs'[i] \in Run /\ runs'[i].dir = d /\ runs'[i].status = "success"
    BY <1>0, <1>1, <1>2, <1>7 DEF TypeOK
  <2>2. runs'[i] = [dir |-> d, status |-> "success"]
    BY <2>1 DEF Run
  <2>3. i \in Succeeded(d)'
    BY <1>1, <2>2 DEF Succeeded
  <2>4. ASSUME NEW j \in Succeeded(d)'
        PROVE  j \in RunIds /\ ~(j > i)
    <3>1. j \in RunIds /\ runs'[j] = [dir |-> d, status |-> "success"]
      BY DEF Succeeded
    <3>2. runs[j].dir # "none"
      BY <1>2, <3>1
    <3> QED
      BY <1>1, <3>1, <3>2
  <2>5. /\ latest_dr_run(d)' \in {0} \cup Succeeded(d)'
        /\ \A j \in Succeeded(d)' : j <= latest_dr_run(d)'
    <3> DEFINE ids == {0} \cup Succeeded(d)'
    <3>1. ids \in SUBSET (0..MaxRuns) /\ ids # {}
      BY <1>0 DEF Succeeded, RunIds
    <3>2. latest_dr_run(d)' = CHOOSE k \in ids : \A j \in ids : j <= k
      BY DEF latest_dr_run, Succeeded
    <3> HIDE DEF ids
    <3>3. latest_dr_run(d)' \in ids /\ \A j \in ids : j <= latest_dr_run(d)'
      BY <3>1, <3>2, Greatest
    <3> QED
      BY <3>3 DEF ids
  <2> QED
    BY <1>1, <2>3, <2>4, <2>5 DEF RunIds
<1>8. s = "failed" => Latest' = Latest /\ (Up <=> Up')
  BY <1>6 DEF Latest, Up, _already_failed_over
<1>9. s = "success" /\ rn[p].pc \in FailoverPcs => Latest' = i
  BY <1>1, <1>7 DEF Latest
<1>10. s = "success" /\ rn[p].pc \notin FailoverPcs => ~Up'
  <2>1. ASSUME s = "success", rn[p].pc \notin FailoverPcs
        PROVE  ~Up'
    <3>1. latest_dr_run("failback")' = i
            /\ latest_dr_run("failover")' = latest_dr_run("failover")
      BY <1>1, <1>6, <1>7, <2>1
    <3>2. /\ latest_dr_run("failover") \in {0} \cup Succeeded("failover")
      BY LatestDef
    <3>3. ~(latest_dr_run("failover") > i)
      <4>1. CASE latest_dr_run("failover") = 0
        BY <1>1, <4>1 DEF RunIds
      <4>2. CASE latest_dr_run("failover") \in Succeeded("failover")
        <5>1. latest_dr_run("failover") \in RunIds
                /\ runs[latest_dr_run("failover")].dir = "failover"
          BY <4>2 DEF Succeeded
        <5> QED
          BY <1>1, <5>1
      <4> QED
        BY <3>2, <4>1, <4>2
    <3> QED
      BY <3>1, <3>3 DEF Up, _already_failed_over
  <2> QED
    BY <2>1
<1> QED
  BY <1>3, <1>4, <1>5, <1>8, <1>9, <1>10

LEMMA FinishFailoverSite ==
    ASSUME KeepInv, KeepInv', NEW p \in Runners, SiteOf(p), faults = 0,
           FinishFailover(p, TRUE)
    PROVE  SiteOf(p)'
<1>0. /\ TypeOK /\ rn[p].pc = "booted" /\ finish_dr_run(p, "success")
      /\ Done(p)
  BY DEF KeepInv, FinishFailover
<1>1. rn'[p].pc = "idle"
  BY <1>0, DoneType
<1>2. on' = on /\ route' = route /\ demoted' = demoted
  BY DEF FinishFailover, site, ran
<1>3. /\ OrderInv(p)' /\ Latest' = rn[p].run
      /\ \A where : VMsAt(where)' = VMsAt(where)
  BY <1>0, <1>1, PcKinds, SettleRows
<1>4. on = {rn[p].run} \X Workloads /\ "dr" \in route
  BY <1>0 DEF SiteOf, PromoteInv, GateInv
<1>5. GateInv(p)' /\ PromoteInv(p)' /\ FailbackInv(p)'
  BY <1>1, NoPromotion, NoFailback, PcKinds DEF GateInv
<1>6. Up'
  <2>1. latest_dr_run("failback")' < Latest'
    <3>1. latest_dr_run("failback")' = latest_dr_run("failback")
      BY <1>0, <1>1, OtherRows, PcKinds
    <3>2. latest_dr_run("failback") \in {0} \cup Succeeded("failback")
      BY LatestDef
    <3>3. /\ rn[p].run \in RunIds /\ runs[rn[p].run].dir = "failover"
          /\ \A j \in RunIds : j > rn[p].run => runs[j].dir = "none"
      BY <1>0, PcKinds DEF KeepInv, RowInv, SiteOf, OrderInv
    <3>4. CASE latest_dr_run("failback") = 0
      BY <1>3, <3>1, <3>3, <3>4 DEF RunIds
    <3>5. CASE latest_dr_run("failback") \in Succeeded("failback")
      <4>1. /\ latest_dr_run("failback") \in RunIds
            /\ runs[latest_dr_run("failback")].dir = "failback"
        BY <3>5 DEF Succeeded
      <4>2. /\ latest_dr_run("failback") # rn[p].run
            /\ ~(latest_dr_run("failback") > rn[p].run)
        BY <3>3, <4>1
      <4> QED
        BY <1>3, <3>1, <3>3, <4>1, <4>2 DEF RunIds
    <3> QED
      BY <3>2, <3>4, <3>5
  <2>2. latest_dr_run("failover")' = Latest'
    BY DEF Latest
  <2>3. Latest' \in Int /\ latest_dr_run("failback")' \in Int
    <3>1. rn[p].run \in Int /\ latest_dr_run("failback") \in 0..MaxRuns
      BY <1>0, RunnerType, LatestDef
    <3> QED
      BY <1>0, <1>1, <1>3, <3>1, OtherRows, PcKinds
  <2> QED
    BY <2>1, <2>2, <2>3 DEF Up, _already_failed_over
<1>7. DrInv(p)' /\ Serving' /\ Single' /\ route' # {"primary", "dr"}
  <2>1. on' = {Latest'} \X Workloads
    BY <1>2, <1>3, <1>4
  <2>2. DrInv(p)'
    BY <1>6, <2>1 DEF DrInv, OnAt
  <2>3. Serving'
    BY <1>2, <1>4, <2>1 DEF Serving
  <2> QED
    BY <1>2, <2>2, <2>3 DEF Single, SiteOf
<1> QED
  BY <1>3, <1>5, <1>7 DEF SiteOf

LEMMA FinishFailbackSite ==
    ASSUME KeepInv, KeepInv', NEW p \in Runners, SiteOf(p), faults = 0,
           FinishFailback(p, TRUE)
    PROVE  SiteOf(p)'
<1>0. /\ TypeOK /\ rn[p].pc = "fb_booted" /\ finish_dr_run(p, "success")
      /\ Done(p)
  BY DEF KeepInv, FinishFailback
<1>1. rn'[p].pc = "idle"
  BY <1>0, DoneType
<1>2. on' = on /\ route' = route
  BY DEF FinishFailback, site
<1>3. /\ OrderInv(p)' /\ ~Up'
      /\ \A where : VMsAt(where)' = VMsAt(where)
  BY <1>0, <1>1, PcKinds, SettleRows
<1>4. OnAt("dr") = {}
  <2>1. on \subseteq {rn[p].run} \X Workloads
    BY <1>0 DEF SiteOf, FailbackInv
  <2>2. runs[rn[p].run].dir = "failback"
    BY <1>0, PcKinds DEF KeepInv, RowInv
  <2> QED
    BY <2>1, <2>2 DEF OnAt, VMsAt
<1>5. GateInv(p)' /\ PromoteInv(p)' /\ FailbackInv(p)'
  BY <1>1, NoPromotion, NoFailback, PcKinds DEF GateInv
<1>6. DrInv(p)' /\ Serving' /\ Single' /\ route' # {"primary", "dr"}
  BY <1>2, <1>3, <1>4 DEF DrInv, Serving, Single, SiteOf, OnAt
<1> QED
  BY <1>3, <1>5, <1>6 DEF SiteOf

LEMMA FailbackFailedSite ==
    ASSUME KeepInv, KeepInv', NEW p \in Runners, SiteOf(p), faults = 0,
           NEW b \in BOOLEAN, FailbackFailed(p, b)
    PROVE  SiteOf(p)'
<1>0. /\ TypeOK /\ rn[p].pc = "fb_fail" /\ Done(p)
      /\ finish_dr_run(p, "failed") \/ runs' = runs
  BY DEF KeepInv, FailbackFailed, Settle
<1>1. rn'[p].pc = "idle"
  BY <1>0, DoneType
<1>2. on' = on /\ route' = route /\ demoted' = demoted
  BY DEF FailbackFailed, site
<1>3. /\ OrderInv(p)' /\ Latest' = Latest /\ (Up <=> Up')
      /\ \A where : VMsAt(where)' = VMsAt(where)
      /\ Withdrawing(Latest)' <=> Withdrawing(Latest)
  <2>1. \A i : demoted'[i] = demoted[i]
    BY <1>2
  <2>2. /\ OrderInv(p)' /\ Latest' = Latest /\ (Up <=> Up')
        /\ \A where : VMsAt(where)' = VMsAt(where)
        /\ \A i : Withdrawing(i)' <=> Withdrawing(i)
    <3>1. CASE finish_dr_run(p, "failed")
      BY <1>0, <1>1, <2>1, <3>1, PcKinds, SettleRows
    <3>2. CASE runs' = runs
      <4>1. OrderInv(p)'
        BY <1>1, <3>2, PcKinds DEF SiteOf, OrderInv
      <4>2. \A i : Withdrawing(i)' <=> Withdrawing(i)
        BY <2>1, <3>2 DEF Withdrawing
      <4> QED
        BY <3>2, <4>1, <4>2, SameRows
    <3> QED
      BY <1>0, <3>1, <3>2
  <2>3. Withdrawing(Latest)' <=> Withdrawing(Latest)
    BY <2>2 DEF Withdrawing
  <2> QED
    BY <2>2, <2>3
<1>4. GateInv(p)' /\ PromoteInv(p)' /\ FailbackInv(p)'
  BY <1>1, NoPromotion, NoFailback, PcKinds DEF GateInv
<1>5. DrInv(p)'
  BY <1>0, <1>1, <1>2, <1>3, PcKinds DEF DrInv, SiteOf, OnAt
<1>6. Serving' /\ Single' /\ route' # {"primary", "dr"}
  BY <1>2, <1>3 DEF Serving, Single, SiteOf
<1> QED
  BY <1>3, <1>4, <1>5, <1>6 DEF SiteOf

LEMMA RollbackSite ==
    ASSUME KeepInv, KeepInv', NEW p \in Runners, SiteOf(p), faults = 0,
           faults' = 0,
           NEW stuck \in SUBSET ({rn[p].run} \X Workloads), NEW b \in BOOLEAN,
           RollbackPower(p, stuck, b)
    PROVE  SiteOf(p)'
<1>0. /\ TypeOK /\ rn[p].pc = "poweroff" /\ Done(p)
      /\ finish_dr_run(p, "failed") \/ runs' = runs
  BY DEF KeepInv, RollbackPower, Settle
<1>1. rn'[p].pc = "idle"
  BY <1>0, DoneType
<1>2. stuck = {} /\ route' = route
  BY DEF RollbackPower
<1>3. on' = {}
  <2>1. on \subseteq {rn[p].run} \X Workloads
    BY <1>0, PcKinds DEF SiteOf, PromoteInv
  <2> QED
    BY <1>2, <2>1 DEF RollbackPower
<1>4. OrderInv(p)' /\ ~Up'
  <2>1. OrderInv(p)' /\ (Up <=> Up')
    <3>1. CASE finish_dr_run(p, "failed")
      BY <1>0, <1>1, <3>1, PcKinds, SettleRows
    <3>2. CASE runs' = runs
      BY <1>1, <3>2, SameRows, PcKinds DEF SiteOf, OrderInv
    <3> QED
      BY <1>0, <3>1, <3>2
  <2>2. ~Up
    BY <1>0, PcKinds DEF SiteOf, PromoteInv
  <2> QED
    BY <2>1, <2>2
<1>5. GateInv(p)' /\ PromoteInv(p)' /\ FailbackInv(p)'
  BY <1>1, NoPromotion, NoFailback, PcKinds DEF GateInv
<1>6. DrInv(p)' /\ Serving' /\ Single' /\ route' # {"primary", "dr"}
  BY <1>2, <1>3, <1>4 DEF DrInv, Serving, Single, SiteOf, OnAt
<1> QED
  BY <1>4, <1>5, <1>6 DEF SiteOf

LEMMA FailbackSite ==
    ASSUME KeepInv, NEW p \in Runners, SiteOf(p), Failback(p)
    PROVE  SiteOf(p)'
<1>0. /\ TypeOK /\ rn[p].pc = "idle" /\ Up /\ OnAt("primary") = {}
      /\ "fb_create" \in Pcs /\ Latest \in 0..MaxRuns
  BY LatestDef DEF KeepInv, Failback, Up, OnAt, Pcs, Latest
<1>1. rn' = [rn EXCEPT ![p].pc = "fb_create", ![p].from = Latest]
  BY DEF Failback, Latest
<1>2. rn'[p].pc = "fb_create" /\ rn'[p].from = Latest
  BY <1>0, <1>1 DEF TypeOK, Runner
<1>3. runs' = runs /\ on' = on /\ route' = route /\ demoted' = demoted
  BY DEF Failback, site, ran
<1>4. Up' /\ Latest' = Latest /\ OnAt("primary")' = {}
  BY <1>0, <1>3, SameRows DEF OnAt
<1>5. GateInv(p)' /\ PromoteInv(p)'
  BY <1>2, NoPromotion, PcKinds DEF GateInv
<1>6. FailbackInv(p)'
  BY <1>2, <1>4, PcKinds DEF FailbackInv
<1>7. /\ route' # {"primary", "dr"} /\ rn[p].pc \notin FailoverPcs
      /\ rn'[p].pc \notin RowPcs
  BY <1>0, <1>2, <1>3, PcKinds DEF SiteOf
<1> QED
  BY <1>3, <1>5, <1>6, <1>7, SiteFrame

LEMMA DemoteSite ==
    ASSUME KeepInv, NEW p \in Runners, SiteOf(p), Demote(p)
    PROVE  SiteOf(p)'
<1>0. /\ TypeOK /\ rn[p].pc = "idle" /\ Latest # 0
      /\ "demote" \in Pcs /\ Latest \in 0..MaxRuns
  BY LatestDef DEF KeepInv, Demote, Pcs, DemotePcs, Latest
<1>1. rn' = [rn EXCEPT ![p].pc = "demote", ![p].from = Latest]
  BY DEF Demote, Latest
<1>2. rn'[p].pc = "demote" /\ rn'[p].from = Latest
  BY <1>0, <1>1 DEF TypeOK, Runner
<1>3. runs' = runs /\ on' = on /\ route' = route /\ demoted' = demoted
  BY DEF Demote, site, ran
<1>4. Latest' = Latest
  BY <1>3, SameRows
<1>5. GateInv(p)' /\ PromoteInv(p)'
  BY <1>2, NoPromotion, PcKinds DEF GateInv
<1>6. FailbackInv(p)'
  BY <1>0, <1>2, <1>4, PcKinds DEF FailbackInv
<1>7. /\ route' # {"primary", "dr"} /\ rn[p].pc \notin FailoverPcs
      /\ rn'[p].pc \notin RowPcs
  BY <1>0, <1>2, <1>3, PcKinds DEF SiteOf
<1> QED
  BY <1>3, <1>5, <1>6, <1>7, SiteFrame

(* A failback that has its row withdraws the active failover. *)
LEMMA RowWithdraws ==
    ASSUME KeepInv, NEW p \in Runners, SiteOf(p), runs' = runs,
           rn[p].pc \in FailbackPcs
    PROVE  Withdrawing(Latest)'
<1>1. /\ Up /\ rn[p].run \in RunIds /\ runs[rn[p].run].dir = "failback"
      /\ \A j \in RunIds : j > rn[p].run => runs[j].dir = "none"
  BY PcKinds DEF KeepInv, RowInv, SiteOf, OrderInv, FailbackInv
<1>2. Latest \in RunIds /\ runs[Latest].dir = "failover"
  BY <1>1, UpDef
<1>3. rn[p].run # Latest /\ ~(Latest > rn[p].run)
  BY <1>1, <1>2
<1>4. rn[p].run > Latest
  BY <1>1, <1>2, <1>3 DEF RunIds
<1> QED
  BY <1>1, <1>4, SameRows

(* The steps of a failback that power nothing on. *)
LEMMA FailbackStepSite ==
    ASSUME KeepInv, NEW p \in Runners, SiteOf(p), faults = 0, faults' = 0,
           \/ PreparePrimary(p) \/ ActivatePrimary(p) \/ FailbackRaises(p)
           \/ WithdrawDR(p) /\ rn[p].pc = "fb_withdraw"
           \/ \E w \in Workloads :
                \/ FinalBackup(p, w) \/ RestoreToPrimary(p, w)
                \/ \E b \in BOOLEAN :
                     PowerOffDR(p, w, b) /\ rn[p].pc = "fb_poweroff"
    PROVE  SiteOf(p)'
<1>0. /\ TypeOK /\ route \subseteq {"primary", "dr"} /\ rn[p] \in Runner
      /\ route # {"primary", "dr"}
  BY RunnerType DEF KeepInv, TypeOK, SiteOf
<1>1. /\ runs' = runs /\ on' \subseteq on /\ rn[p].pc \in FailbackPcs
  BY PcKinds DEF PreparePrimary, ActivatePrimary, FailbackRaises, WithdrawDR,
       FinalBackup, RestoreToPrimary, PowerOffDR, site, ran
<1>2. /\ Up /\ rn[p].from = Latest
      /\ OnAt("dr") \subseteq {Latest} \X Workloads
  BY <1>1 DEF SiteOf, FailbackInv, DrInv
<1>3. /\ Up' /\ Latest' = Latest /\ Withdrawing(Latest)'
      /\ OnAt("primary")' \subseteq OnAt("primary")
  BY <1>1, <1>2, SameRows, RowWithdraws DEF OnAt
<1>4. {"fb_backup", "fb_restore", "fb_withdraw", "fb_poweroff",
       "fb_activate", "fb_boot", "fb_fail"} \subseteq Pcs
  BY DEF Pcs, FailbackPcs
<1>5. ASSUME rn'[p].run = rn[p].run, GateInv(p)', FailbackInv(p)',
             route' # {"primary", "dr"},
             rn'[p].pc \in FailbackPcs \cup {"fb_fail"}
      PROVE  SiteOf(p)'
  <2>1. PromoteInv(p)'
    BY <1>5, NoPromotion, PcKinds
  <2>2. rn[p].pc \in RowPcs /\ rn[p].pc \notin FailoverPcs
    BY <1>1, PcKinds
  <2> QED
    BY <1>1, <1>3, <1>5, <2>1, <2>2, SiteFrame
<1>6. CASE FailbackRaises(p)
  <2>1. Goto(p, "fb_fail") /\ route' = route
    BY <1>6 DEF FailbackRaises, site
  <2>2. /\ rn'[p].pc = "fb_fail" /\ rn'[p].run = rn[p].run
        /\ rn'[p].from = rn[p].from
    BY <1>0, <1>4, <2>1, GotoType
  <2>3. GateInv(p)' /\ FailbackInv(p)'
    BY <1>2, <1>3, <2>2, PcKinds DEF GateInv, FailbackInv
  <2> QED
    BY <1>0, <1>5, <2>1, <2>2, <2>3
<1>7. ASSUME OnAt("primary") = {}, rn'[p].from = rn[p].from,
             \/ rn'[p].pc \in {"fb_backup", "fb_restore", "fb_withdraw"}
             \/ rn'[p].pc = "fb_poweroff"
                /\ on' \cap ({rn'[p].from} \X (Workloads \ rn'[p].todo)) = {}
             \/ rn'[p].pc = "fb_activate" /\ on' = {}
      PROVE  FailbackInv(p)'
  <2>1. OnAt("primary")' = {}
    BY <1>3, <1>7
  <2> QED
    BY <1>2, <1>3, <1>7, <2>1, PcKinds DEF FailbackInv
<1>8. CASE PreparePrimary(p)
  <2>1. /\ rn[p].pc = "fb_prepare" /\ GotoLoop(p, "fb_backup")
        /\ route' = route \ {"primary"}
    BY <1>8 DEF PreparePrimary
  <2>2. /\ rn'[p].pc = "fb_backup" /\ rn'[p].run = rn[p].run
        /\ rn'[p].from = rn[p].from
    BY <1>0, <1>4, <2>1, GotoLoopType
  <2>3. OnAt("primary") = {}
    BY <2>1, PcKinds DEF SiteOf, FailbackInv
  <2>4. GateInv(p)' /\ route' # {"primary", "dr"}
    BY <1>0, <2>1, <2>2 DEF GateInv
  <2> QED
    BY <1>5, <1>7, <2>2, <2>3, <2>4, PcKinds
<1>9. CASE \E w \in Workloads : RestoreToPrimary(p, w)
  <2>1. PICK w \in Workloads : RestoreToPrimary(p, w)
    BY <1>9
  <2>2. /\ rn[p].pc = "fb_restore" /\ Round(p, w, "fb_withdraw")
        /\ route' = route
    BY <2>1 DEF RestoreToPrimary
  <2>3. /\ rn'[p].pc \in {"fb_restore", "fb_withdraw"}
        /\ rn'[p].run = rn[p].run /\ rn'[p].from = rn[p].from
    BY <1>0, <1>4, <2>2, RoundType
  <2>4. OnAt("primary") = {}
    BY <2>2, PcKinds DEF SiteOf, FailbackInv
  <2>5. GateInv(p)'
    BY <2>3 DEF GateInv
  <2> QED
    BY <1>0, <1>5, <1>7, <2>2, <2>3, <2>4, <2>5, PcKinds
<1>10. CASE \E w \in Workloads : FinalBackup(p, w)
  <2>1. PICK w \in Workloads : FinalBackup(p, w)
    BY <1>10
  <2>2. rn[p].pc = "fb_backup" /\ route' = route
    BY <2>1 DEF FinalBackup, site
  <2>3. /\ rn'[p].pc \in {"fb_backup", "fb_restore"}
        /\ rn'[p].run = rn[p].run /\ rn'[p].from = rn[p].from
    <3> DEFINE r == [rn[p] EXCEPT !.saved[w] = ver[<<rn[p].from, w>>]]
    <3>1. /\ r.pc = "fb_backup" /\ r.run = rn[p].run /\ r.from = rn[p].from
          /\ r \in [pc : Pcs, run : 0..MaxRuns, from : 0..MaxRuns,
                    todo : SUBSET Workloads,
                    saved : [Workloads -> 0..MaxWrites]]
      <4>1. rn[p].from \in 0..MaxRuns
        BY <1>0 DEF Runner
      <4>2. ver[<<rn[p].from, w>>] \in 0..MaxWrites
        BY <1>0, <4>1, Numbers
      <4> QED
        BY <1>0, <2>2, <4>2 DEF Runner
    <3> DEFINE s == IF r.todo = {w}
                      THEN [r EXCEPT !.pc = "fb_restore", !.todo = Workloads]
                      ELSE [r EXCEPT !.todo = @ \ {w}]
    <3>2. rn' = [rn EXCEPT ![p] = s]
      BY <2>1 DEF FinalBackup
    <3> HIDE DEF r
    <3>3. /\ s.pc \in {"fb_backup", "fb_restore"} /\ s.run = rn[p].run
          /\ s.from = rn[p].from
      BY <3>1
    <3> HIDE DEF s
    <3>4. rn'[p] = s
      BY <1>0, <3>2 DEF TypeOK
    <3> QED
      BY <3>3, <3>4
  <2>4. OnAt("primary") = {}
    BY <2>2, PcKinds DEF SiteOf, FailbackInv
  <2>5. GateInv(p)'
    BY <2>3 DEF GateInv
  <2> QED
    BY <1>0, <1>5, <1>7, <2>2, <2>3, <2>4, <2>5, PcKinds
<1>11. CASE WithdrawDR(p) /\ rn[p].pc = "fb_withdraw"
  <2>1. /\ GotoLoop(p, "fb_poweroff") /\ route' = route \ {"dr"}
        /\ rn[p].pc = "fb_withdraw"
    BY <1>11 DEF WithdrawDR
  <2>2. /\ rn'[p].pc = "fb_poweroff" /\ rn'[p].run = rn[p].run
        /\ rn'[p].from = rn[p].from /\ rn'[p].todo = Workloads
    BY <1>0, <1>4, <2>1, GotoLoopType
  <2>3. OnAt("primary") = {}
    BY <2>1, PcKinds DEF SiteOf, FailbackInv
  <2>4. GateInv(p)' /\ route' # {"primary", "dr"}
    BY <1>0, <2>1, <2>2 DEF GateInv
  <2>5. on' \cap ({rn'[p].from} \X (Workloads \ rn'[p].todo)) = {}
    BY <2>2
  <2> QED
    BY <1>5, <1>7, <2>2, <2>3, <2>4, <2>5, PcKinds
<1>12. CASE \E w \in Workloads, b \in BOOLEAN :
              PowerOffDR(p, w, b) /\ rn[p].pc = "fb_poweroff"
  <2>1. PICK w \in Workloads, b \in BOOLEAN :
          PowerOffDR(p, w, b) /\ rn[p].pc = "fb_poweroff"
    BY <1>12
  <2>2. /\ rn[p].pc = "fb_poweroff" /\ Round(p, w, "fb_activate")
        /\ route' = route /\ on' = on \ {<<rn[p].from, w>>}
    BY <2>1 DEF PowerOffDR
  <2>3. /\ rn'[p].run = rn[p].run /\ rn'[p].from = rn[p].from
        /\ \/ rn'[p].pc = "fb_activate" /\ rn[p].todo = {w}
           \/ rn'[p].pc = "fb_poweroff" /\ rn'[p].todo = rn[p].todo \ {w}
    BY <1>0, <1>4, <2>2, RoundType
  <2>4. /\ OnAt("primary") = {} /\ "dr" \notin route
        /\ on \cap ({rn[p].from} \X (Workloads \ rn[p].todo)) = {}
    BY <2>2, PcKinds DEF SiteOf, FailbackInv, GateInv
  <2>5. on' \cap ({rn[p].from} \X (Workloads \ (rn[p].todo \ {w}))) = {}
    BY <2>2, <2>4
  <2>6. rn'[p].pc = "fb_activate" => on' = {}
    <3>1. SUFFICES ASSUME rn'[p].pc = "fb_activate"
                   PROVE  on' = {}
      OBVIOUS
    <3>2. on \subseteq {rn[p].from} \X Workloads
      BY <1>0, <1>2, <2>4, Sides
    <3>3. on' \cap ({rn[p].from} \X Workloads) = {}
      BY <2>3, <2>5, <3>1
    <3> QED
      BY <1>1, <3>2, <3>3
  <2>7. GateInv(p)'
    BY <2>2, <2>3, <2>4 DEF GateInv
  <2>8. FailbackInv(p)'
    BY <1>7, <2>3, <2>4, <2>5, <2>6
  <2> QED
    BY <1>0, <1>5, <2>2, <2>3, <2>7, <2>8, PcKinds
<1>13. CASE ActivatePrimary(p)
  <2>1. /\ rn[p].pc = "fb_activate" /\ GotoLoop(p, "fb_boot")
        /\ route' = route \cup {"primary"}
    BY <1>13 DEF ActivatePrimary
  <2>2. /\ rn'[p].pc = "fb_boot" /\ rn'[p].run = rn[p].run
        /\ rn'[p].from = rn[p].from /\ rn'[p].todo = Workloads
    BY <1>0, <1>4, <2>1, GotoLoopType
  <2>3. on = {} /\ "dr" \notin route
    BY <2>1 DEF SiteOf, FailbackInv, GateInv
  <2>4. GateInv(p)' /\ route' # {"primary", "dr"}
    BY <2>1, <2>2, <2>3 DEF GateInv
  <2>5. on' = {}
    BY <1>1, <2>3
  <2>6. FailbackInv(p)'
    BY <1>2, <1>3, <2>2, <2>5, PcKinds DEF FailbackInv
  <2> QED
    BY <1>5, <2>2, <2>4, <2>6, PcKinds
<1> QED
  BY <1>6, <1>8, <1>9, <1>10, <1>11, <1>12, <1>13

LEMMA DemoteStepSite ==
    ASSUME KeepInv, NEW p \in Runners, SiteOf(p),
           \/ WithdrawDR(p) /\ rn[p].pc = "demote"
           \/ \E w \in Workloads, b \in BOOLEAN :
                PowerOffDR(p, w, b) /\ rn[p].pc = "demote_off"
    PROVE  SiteOf(p)'
<1>0. /\ TypeOK /\ {"demote_off", "demoted"} \subseteq Pcs
      /\ route \subseteq {"primary", "dr"} /\ route # {"primary", "dr"}
      /\ rn[p].pc \in {"demote", "demote_off"}
  BY DEF KeepInv, Pcs, DemotePcs, TypeOK, SiteOf
<1>1. runs' = runs /\ on' \subseteq on /\ route' \subseteq route
  BY DEF WithdrawDR, PowerOffDR
<1>2. /\ rn'[p].pc \in {"demote_off", "demoted"}
      /\ rn'[p].from = rn[p].from
  <2>1. CASE WithdrawDR(p) /\ rn[p].pc = "demote"
    <3>1. GotoLoop(p, "demote_off")
      BY <2>1 DEF WithdrawDR
    <3> QED
      BY <1>0, <3>1, GotoLoopType
  <2>2. CASE \E w \in Workloads, b \in BOOLEAN :
               PowerOffDR(p, w, b) /\ rn[p].pc = "demote_off"
    <3>1. PICK w \in Workloads : Round(p, w, "demoted") /\ rn[p].pc = "demote_off"
      BY <2>2 DEF PowerOffDR
    <3> QED
      BY <1>0, <3>1, RoundType
  <2> QED
    BY <2>1, <2>2
<1>3. Latest # 0 /\ rn[p].from = Latest /\ Latest' = Latest
  BY <1>0, <1>1, PcKinds, SameRows DEF SiteOf, FailbackInv
<1>4. demoted'[Latest] # "no"
  <2>1. CASE WithdrawDR(p) /\ rn[p].pc = "demote"
    <3>1. Latest \in RunIds
      <4>1. Latest \in {0} \cup Succeeded("failover")
        BY LatestDef DEF Latest
      <4> QED
        BY <1>3, <4>1 DEF Succeeded
    <3>2. demoted' = [demoted EXCEPT ![Latest] = "begun"]
      BY <1>3, <2>1 DEF WithdrawDR
    <3> QED
      BY <1>0, <3>1, <3>2 DEF TypeOK
  <2>2. CASE \E w \in Workloads, b \in BOOLEAN :
               PowerOffDR(p, w, b) /\ rn[p].pc = "demote_off"
    <3>1. demoted' = demoted /\ rn[p].pc = "demote_off"
      BY <2>2 DEF PowerOffDR, ran
    <3> QED
      BY <1>3, <3>1 DEF SiteOf, FailbackInv
  <2> QED
    BY <2>1, <2>2
<1>5. GateInv(p)' /\ PromoteInv(p)'
  BY <1>2, NoPromotion, PcKinds DEF GateInv
<1>6. FailbackInv(p)'
  BY <1>2, <1>3, <1>4, PcKinds DEF FailbackInv
<1>7. Withdrawing(Latest)'
  BY <1>3, <1>4 DEF Withdrawing
<1>8. /\ route' # {"primary", "dr"} /\ rn[p].pc \notin FailoverPcs
      /\ rn'[p].pc \notin RowPcs
  BY <1>0, <1>1, <1>2, PcKinds
<1> QED
  BY <1>1, <1>5, <1>6, <1>7, <1>8, SiteFrame

LEMMA BootPrimarySite ==
    ASSUME KeepInv, NEW p \in Runners, SiteOf(p),
           NEW w \in Workloads, NEW b \in BOOLEAN, BootPrimary(p, w, b)
    PROVE  SiteOf(p)'
<1>0. /\ TypeOK /\ rn[p].pc = "fb_boot" /\ w \in rn[p].todo
      /\ {"fb_booted", "fb_fail"} \subseteq Pcs
      /\ rn[p].todo \subseteq Workloads
  BY RunnerType DEF KeepInv, BootPrimary, Pcs, FailbackPcs
<1>1. Round(p, w, "fb_booted") \/ Goto(p, "fb_fail")
  BY DEF BootPrimary
<1>2. /\ rn'[p].run = rn[p].run /\ rn'[p].from = rn[p].from
      /\ \/ rn'[p].pc = "fb_booted" /\ rn[p].todo = {w}
         \/ rn'[p].pc = "fb_boot" /\ rn'[p].todo = rn[p].todo \ {w}
         \/ rn'[p].pc = "fb_fail"
  <2>1. CASE Round(p, w, "fb_booted")
    BY <1>0, <2>1, RoundType
  <2>2. CASE Goto(p, "fb_fail")
    BY <1>0, <2>2, GotoType
  <2> QED
    BY <1>1, <2>1, <2>2
<1>3. /\ runs' = runs /\ on' = on \cup {<<rn[p].run, w>>} /\ route' = route
      /\ demoted' = demoted
  BY DEF BootPrimary, ran
<1>4. /\ on \subseteq {rn[p].run} \X (Workloads \ rn[p].todo) /\ Up
      /\ rn[p].from = Latest /\ runs[rn[p].run].dir = "failback"
  BY <1>0, PcKinds DEF SiteOf, FailbackInv, KeepInv, RowInv
<1>5. /\ on' \subseteq {rn[p].run} \X Workloads
      /\ rn'[p].pc = "fb_boot" =>
           on' \subseteq {rn[p].run} \X (Workloads \ rn'[p].todo)
  <2>1. on' \subseteq {rn[p].run} \X (Workloads \ (rn[p].todo \ {w}))
    BY <1>0, <1>3, <1>4
  <2> QED
    BY <1>2, <2>1
<1>6. /\ Up' /\ Latest' = Latest /\ Withdrawing(Latest)'
      /\ \A where : VMsAt(where)' = VMsAt(where)
  BY <1>0, <1>3, <1>4, SameRows, RowWithdraws, PcKinds
<1>7. OnAt("dr")' = {}
  <2>1. \A v \in VMsAt("dr") : v[1] # rn[p].run
    BY <1>4 DEF VMsAt
  <2> QED
    BY <1>5, <1>6, <2>1 DEF OnAt
<1>8. GateInv(p)' /\ PromoteInv(p)' /\ route' # {"primary", "dr"}
  BY <1>2, <1>3, NoPromotion, PcKinds DEF GateInv, SiteOf
<1>9. FailbackInv(p)'
  BY <1>2, <1>4, <1>5, <1>6, PcKinds DEF FailbackInv
<1>10. DrInv(p)' /\ Serving' /\ Single'
  BY <1>5, <1>6, <1>7 DEF DrInv, Serving, Single
<1>11. OrderInv(p)'
  BY <1>0, <1>2, <1>3, PcKinds DEF OrderInv, SiteOf
<1> QED
  BY <1>8, <1>9, <1>10, <1>11 DEF SiteOf

(* Every step of a command. *)
LEMMA CommandSite ==
    ASSUME KeepInv, KeepInv', NEW p \in Runners, SiteOf(p), faults = 0,
           faults' = 0,
           \/ Promote(p) \/ Failback(p) \/ Demote(p) \/ Watch(p)
           \/ CommandStep(p) \/ Crash(p)
    PROVE  SiteOf(p)'
<1>1. CASE PromoteStep(p)
  <2>1. CASE _fence_primary(p)
    BY <2>1, FenceSite
  <2>2. CASE CreateFailover(p)
    BY <2>2, CreateFailoverSite
  <2>3. CASE \E b \in BOOLEAN : FinishFailover(p, b)
    <3>1. FinishFailover(p, TRUE)
      BY <2>3 DEF FinishFailover
    <3> QED
      BY <3>1, FinishFailoverSite
  <2>4. CASE \E stuck \in SUBSET ({rn[p].run} \X Workloads), b \in BOOLEAN :
               RollbackPower(p, stuck, b)
    BY <2>4, RollbackSite
  <2>8. ~\E b \in BOOLEAN : RollbackRaises(p, b)
    BY DEF RollbackRaises
  <2>5. CASE \E b \in BOOLEAN : FenceFails(p, b)
    BY <2>5, EndSite
  <2>6. CASE \E w \in Workloads, b \in BOOLEAN : Boot(p, w, b)
    BY <2>6, BootSite
  <2>7. CASE \/ ActivateDR(p) \/ PromoteRaises(p)
             \/ \E b \in BOOLEAN : PrepareDR(p, b) \/ RollbackRoute(p, b)
             \/ \E w \in Workloads : RestoreWorkload(p, w)
    BY <2>7, PromoteStepSite
  <2> QED
    BY <1>1, <2>1, <2>2, <2>3, <2>4, <2>5, <2>6, <2>7, <2>8, Zenon
       DEF PromoteStep
<1>2. CASE FailbackStep(p)
  <2>1. CASE CreateFailback(p)
    BY <2>1, CreateFailbackSite
  <2>2. CASE \E b \in BOOLEAN : FinishFailback(p, b)
    <3>1. FinishFailback(p, TRUE)
      BY <2>2 DEF FinishFailback
    <3> QED
      BY <3>1, FinishFailbackSite
  <2>3. CASE \E b \in BOOLEAN : FailbackFailed(p, b)
    BY <2>3, FailbackFailedSite
  <2>4. CASE \E w \in Workloads, b \in BOOLEAN : BootPrimary(p, w, b)
    BY <2>4, BootPrimarySite
  <2>5. CASE PreparePrimary(p) \/ ActivatePrimary(p) \/ FailbackRaises(p)
    BY <2>5, FailbackStepSite
  <2>6. CASE \E w \in Workloads : FinalBackup(p, w) \/ RestoreToPrimary(p, w)
    BY <2>6, FailbackStepSite
  <2>7. CASE WithdrawDR(p)
    <3>1. rn[p].pc = "fb_withdraw" \/ rn[p].pc = "demote"
      BY <2>7 DEF WithdrawDR
    <3> QED
      BY <2>7, <3>1, FailbackStepSite, DemoteStepSite
  <2>8. ASSUME NEW w \in Workloads, NEW b \in BOOLEAN, PowerOffDR(p, w, b)
        PROVE  SiteOf(p)'
    <3>1. rn[p].pc = "fb_poweroff" \/ rn[p].pc = "demote_off"
      BY <2>8 DEF PowerOffDR
    <3> QED
      BY <2>8, <3>1, FailbackStepSite, DemoteStepSite
  <2> QED
    BY <1>2, <2>1, <2>2, <2>3, <2>4, <2>5, <2>6, <2>7, <2>8, Zenon
       DEF FailbackStep
<1>3. CASE \/ PromoteRefused(p) \/ DemoteRaises(p) \/ Watch(p) \/ Demoted(p)
           \/ \E b \in BOOLEAN : Probe(p, b)
  BY <1>3, EndSite
<1>4. CASE Promote(p)
  BY <1>4, PromoteSite
<1>5. CASE Failback(p)
  BY <1>5, FailbackSite
<1>6. CASE Demote(p)
  BY <1>6, DemoteSite
<1>7. ~Crash(p)
  <2>1. faults \in Nat /\ faults' = 0
    BY DEF KeepInv, TypeOK
  <2> QED
    BY <2>1 DEF Crash
<1> QED
  BY <1>1, <1>2, <1>3, <1>4, <1>5, <1>6, <1>7, Zenon DEF CommandStep

(* The steps that no command makes. *)
LEMMA OutsideSite ==
    ASSUME KeepInv, NEW p \in Runners, SiteOf(p),
           \/ \E b \in BOOLEAN : Maintenance(b)
           \/ IsolatePrimary
           \/ \E v \in VMs : Serve(v)
           \/ UNCHANGED vars
    PROVE  SiteOf(p)'
<1>0. /\ TypeOK /\ route \subseteq {"primary", "dr"}
      /\ route # {"primary", "dr"}
  BY DEF KeepInv, TypeOK, SiteOf
<1>1. /\ runs' = runs /\ demoted' = demoted /\ rn' = rn
      /\ \/ on' = on /\ route' = route
         \/ /\ Up /\ on' = on \ VMsAt("primary")
            /\ route' = route \ {"primary"}
  BY DEF Maintenance, IsolatePrimary, Serve, vars, site, ran, Up
<1>2. on' \subseteq on /\ route' # {"primary", "dr"}
        /\ ("dr" \in route => "dr" \in route')
        /\ ("primary" \notin route => "primary" \notin route')
        /\ ("dr" \notin route => "dr" \notin route')
  BY <1>0, <1>1
<1>3. on \cap VMsAt("dr") \subseteq on'
  BY <1>1 DEF VMsAt
<1>4. GateInv(p)'
  BY <1>1, <1>2 DEF SiteOf, GateInv
<1>5. /\ Latest' = Latest /\ (Up <=> Up')
      /\ OnAt("primary")' \subseteq OnAt("primary")
  BY <1>1, <1>2, SameRows DEF OnAt
<1>6. PromoteInv(p)'
  <2>1. CASE on' = on
    BY <1>1, <1>5, <2>1 DEF SiteOf, PromoteInv
  <2>2. CASE Up
    <3>1. rn'[p].pc \notin FailoverPcs \cup {"fence", "create"}
      BY <1>1, <2>2 DEF SiteOf, PromoteInv
    <3> QED
      BY <3>1, NoPromotion
  <2> QED
    BY <1>1, <2>1, <2>2
<1>7. FailbackInv(p)'
  BY <1>1, <1>2, <1>5 DEF SiteOf, FailbackInv
<1> QED
  BY <1>1, <1>2, <1>3, <1>4, <1>6, <1>7, SiteFrame

LEMMA SiteStep ==
    ASSUME OneCommand, KeepInv, KeepInv', SiteInv, [Next]_vars
    PROVE  SiteInv'
<1>1. PICK p : Runners = {p}
  BY DEF OneCommand
<1>2. faults' = 0 => faults = 0
  BY FaultsStay DEF KeepInv
<1>3. SUFFICES ASSUME faults = 0, faults' = 0
               PROVE  SiteOf(p)'
  BY <1>1, <1>2 DEF SiteInv
<1>4. p \in Runners /\ SiteOf(p)
  BY <1>1, <1>3 DEF SiteInv
<1>5. CASE \E q \in Runners :
             \/ Promote(q) \/ Failback(q) \/ Demote(q) \/ Watch(q)
             \/ CommandStep(q) \/ Crash(q)
  <2>1. \/ Promote(p) \/ Failback(p) \/ Demote(p) \/ Watch(p)
        \/ CommandStep(p) \/ Crash(p)
    BY <1>1, <1>5, Zenon
  <2> QED
    BY <1>3, <1>4, <2>1, CommandSite
<1>6. CASE \/ \E b \in BOOLEAN : Maintenance(b)
           \/ IsolatePrimary
           \/ \E v \in VMs : Serve(v)
           \/ UNCHANGED vars
  BY <1>4, <1>6, OutsideSite
<1> QED
  BY <1>5, <1>6, Zenon DEF Next

LEMMA SiteInit == Init => SiteInv
<1> SUFFICES ASSUME Init, NEW p \in Runners
             PROVE  SiteOf(p)
  BY DEF SiteInv
<1>1. /\ \A i \in RunIds :
           runs[i].dir = "none" /\ runs[i].status = "failed"
      /\ rn[p].pc = "idle" /\ TypeOK
  BY InitFacts
<1>2. ~Up
  BY <1>1, UpDef
<1>3. OnAt("dr") = {}
  BY <1>1 DEF OnAt, VMsAt
<1>4. OrderInv(p) /\ GateInv(p) /\ DrInv(p) /\ Serving
  BY <1>1, <1>2, <1>3, PcKinds DEF OrderInv, GateInv, DrInv, Serving
<1>5. PromoteInv(p) /\ FailbackInv(p)
  BY <1>1, PcKinds DEF PromoteInv, FailbackInv
<1>6. Single /\ route # {"primary", "dr"}
  BY DEF Init, Single
<1> QED
  BY <1>4, <1>5, <1>6 DEF SiteOf

(* What the invariant says of the properties that the runs check. *)
LEMMA SiteFacts ==
    ASSUME OneCommand, KeepInv, SiteInv
    PROVE  OneOwner /\ OneCopy /\ ActiveServes
<1>1. PICK p : Runners = {p}
  BY DEF OneCommand
<1>2. faults = 0 => SiteOf(p)
  BY <1>1 DEF SiteInv
<1>3. OneOwner
  BY <1>2 DEF OneOwner, SiteOf
<1>4. ASSUME faults = 0, NEW w \in Workloads
      PROVE  Cardinality({v \in on : v[2] = w}) <= 1
  <2> DEFINE S == {v \in on : v[2] = w}
  <2>1. \A u, v \in S : u = v
    BY <1>2, <1>4 DEF SiteOf, Single
  <2>2. CASE S = {}
    BY <2>2, FS_EmptySet
  <2>3. CASE S # {}
    <3>1. PICK u : S = {u}
      BY <2>1, <2>3
    <3> QED
      BY <3>1, FS_Singleton
  <2> QED
    BY <2>2, <2>3
<1>5. OneCopy
  BY <1>4 DEF OneCopy
<1>6. ActiveServes
  BY <1>2 DEF ActiveServes, SiteOf, Serving, Up, Latest
<1> QED
  BY <1>3, <1>5, <1>6

LEMMA SiteCorrect ==
    ASSUME OneCommand
    PROVE  Spec => [](OneOwner /\ OneCopy /\ ActiveServes)
<1>1. Init => KeepInv /\ SiteInv
  BY KeepInit, SiteInit
<1>2. KeepInv /\ SiteInv /\ [Next]_vars => (KeepInv /\ SiteInv)'
  BY KeepStep, SiteStep
<1>3. KeepInv /\ SiteInv => OneOwner /\ OneCopy /\ ActiveServes
  BY SiteFacts
<1> QED
  BY <1>1, <1>2, <1>3, PTL DEF Spec

(* While one command runs at a time, and until a command dies, a tolerated *)
(* gateway is unreachable or a power-off silently fails: one site owns the *)
(* gateway address and advertises the subnet (promote, failback).          *)
THEOREM OwnerCorrect == OneCommand => (Spec => []OneOwner)
<1>1. ASSUME OneCommand
      PROVE  Spec => []OneOwner
  BY <1>1, SiteCorrect, PTL
<1> QED
  BY <1>1

(* Under the same conditions one copy of a workload runs: the original, a  *)
(* DR copy or a failback copy (promote, failback).                         *)
THEOREM CopyCorrect == OneCommand => (Spec => []OneCopy)
<1>1. ASSUME OneCommand
      PROVE  Spec => []OneCopy
  BY <1>1, SiteCorrect, PTL
<1> QED
  BY <1>1

(* Under the same conditions an active failover serves behind the DR       *)
(* gateway until a failback or a demotion withdraws it (promote).          *)
THEOREM ServesCorrect == OneCommand => (Spec => []ActiveServes)
<1>1. ASSUME OneCommand
      PROVE  Spec => []ActiveServes
  BY <1>1, SiteCorrect, PTL
<1> QED
  BY <1>1
=============================================================================
