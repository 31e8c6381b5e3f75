-------------------------- MODULE DisasterRecovery --------------------------
(***************************************************************************)
(* DROrchestrator: failover of the configured workloads to the DR site     *)
(* (promote), failback to the primary site, demotion of the DR copies, and *)
(* the watcher that promotes by itself. The commands are processes of      *)
(* their own, the watcher a systemd timer; none takes a lock. The gateways *)
(* and the hypervisors are external: a command sent to them is done, or it *)
(* fails with or without having taken effect; so does one that is not      *)
(* answered in time, which raises even where an exit status is ignored.    *)
(***************************************************************************)
EXTENDS Integers, FiniteSets

CONSTANTS
    Runners,      \* processes that run dr- commands, the watcher included
    Workloads,    \* disaster_recovery.workloads
    AutoFailover, \* auto_failover, and with it fence.mode = command
    Threshold,    \* failure_threshold
    MaxRuns,      \* bound of the dr_runs rows
    MaxWrites,    \* bound of the writes a DR workload serves
    MaxFaults     \* bound of killed commands, unreachable gateways that are
                  \* tolerated, power-offs that do not work, lost audits

ASSUME DRAssumption ==
    /\ AutoFailover \in BOOLEAN /\ Threshold \in Nat \ {0}
    /\ MaxRuns \in Nat /\ MaxWrites \in Nat /\ MaxFaults \in Nat

VARIABLES
    runs,        \* the dr_runs table, ids in the order of started_at
    copies,      \* dr_workloads: the VM <<run, workload>> a run restored
    on,          \* VMs that are powered on; run 0 made the originals
    route,       \* the sites whose gateway owns and advertises the subnet
    ver,         \* how many writes served at the DR site a VM contains
    base,        \* history: those writes when a failback began
    demoted,     \* history: whether dr-demote began or ended, by failover
    maintenance, \* the maintenance file exists
    failures,    \* dr_health.consecutive_failures, counted up to Threshold
    rn,          \* the state of each process
    abandoned,   \* history: rows whose command ended and wrote no outcome:
                 \* it was killed, or an except clause raised before it did
    faults       \* faults so far

site == <<on, route, ver>>
vars == <<runs, copies, on, route, ver, base, demoted, maintenance, failures,
          rn, abandoned, faults>>

RunIds == 1..MaxRuns
VMs == (0..MaxRuns) \X Workloads
Run == [dir : {"none", "failover", "failback"},
        status : {"running", "success", "failed"}]
NoRun == [dir |-> "none", status |-> "failed"]

(* PromotePcs and FailbackPcs: the try blocks; RowPcs: from create_dr_run  *)
(* to the last finish_dr_run.                                              *)
PromotePcs == {"prepare", "restore", "activate", "boot", "booted"}
FailoverPcs == PromotePcs \cup {"rollback", "poweroff"}
FailbackPcs == {"fb_prepare", "fb_backup", "fb_restore", "fb_withdraw",
                "fb_poweroff", "fb_activate", "fb_boot", "fb_booted"}
RowPcs == FailoverPcs \cup FailbackPcs \cup {"fb_fail"}
DemotePcs == {"demote", "demote_off"}
Pcs == {"idle", "probe", "promote", "fence", "create", "rollback", "poweroff",
        "fb_create", "fb_fail", "demoted"}
         \cup PromotePcs \cup FailbackPcs \cup DemotePcs

(* run: the row this command made; from: the failover it withdraws; todo:  *)
(* the workloads its current loop has left; saved: its final backups.      *)
Runner == [pc : Pcs, run : 0..MaxRuns, from : 0..MaxRuns,
           todo : SUBSET Workloads, saved : [Workloads -> 0..MaxWrites]]
Idle == [pc |-> "idle", run |-> 0, from |-> 0, todo |-> {},
         saved |-> [w \in Workloads |-> 0]]

(* The type of the state. *)
TypeOK ==
    /\ runs \in [RunIds -> Run]
    /\ copies \subseteq VMs /\ on \subseteq VMs
    /\ route \subseteq {"primary", "dr"}
    /\ ver \in [VMs -> 0..MaxWrites]
    /\ base \in [RunIds -> [Workloads -> 0..MaxWrites]]
    /\ demoted \in [RunIds -> {"no", "begun", "done"}]
    /\ maintenance \in BOOLEAN /\ failures \in 0..Threshold
    /\ rn \in [Runners -> Runner]
    /\ abandoned \subseteq RunIds
    /\ faults \in 0..MaxFaults

Init ==
    /\ runs = [i \in RunIds |-> NoRun]
    /\ copies = {}
    /\ on = {0} \X Workloads /\ route = {"primary"}
    /\ ver = [v \in VMs |-> 0]
    /\ base = [i \in RunIds |-> [w \in Workloads |-> 0]]
    /\ demoted = [i \in RunIds |-> "no"]
    /\ maintenance = FALSE /\ failures = 0
    /\ rn = [p \in Runners |-> Idle]
    /\ abandoned = {}
    /\ faults = 0

-----------------------------------------------------------------------------
(* Queries. *)

VMsAt(where) ==
    {v \in VMs : IF v[1] \in RunIds /\ runs[v[1]].dir = "failover"
                   THEN where = "dr" ELSE where = "primary"}

(* latest_dr_run: the id of the last successful run of a direction, or 0. *)
latest_dr_run(dir) ==
    LET ids == {0} \cup {i \in RunIds : runs[i] = [dir |-> dir,
                                                   status |-> "success"]}
    IN  CHOOSE i \in ids : \A j \in ids : j <= i

_already_failed_over == latest_dr_run("failover") > latest_dr_run("failback")

-----------------------------------------------------------------------------
Goto(p, pc) == rn' = [rn EXCEPT ![p].pc = pc]
GotoLoop(p, pc) == rn' = [rn EXCEPT ![p].pc = pc, ![p].todo = Workloads]
Done(p) == rn' = [rn EXCEPT ![p] = Idle]

(* One round of the loop over the workloads; the last goes on to pc. *)
Round(p, w, pc) ==
    /\ w \in rn[p].todo
    /\ IF rn[p].todo = {w} THEN GotoLoop(p, pc)
       ELSE rn' = [rn EXCEPT ![p].todo = @ \ {w}]
ran == <<base, demoted, maintenance, failures, abandoned>>

create_dr_run(p, dir, pc) ==
    \E i \in RunIds :
      /\ runs[i].dir = "none" /\ \A j \in RunIds : j < i => runs[j].dir # "none"
      /\ runs' = [runs EXCEPT ![i] = [dir |-> dir, status |-> "running"]]
      /\ rn' = [rn EXCEPT ![p].pc = pc, ![p].run = i]
      /\ base' = IF dir = "failover" THEN base
                 ELSE [base EXCEPT ![i] =
                         [w \in Workloads |-> ver[<<rn[p].from, w>>]]]

finish_dr_run(p, status) == runs' = [runs EXCEPT ![rn[p].run].status = status]

(* finish_dr_run, called by an except clause, raises: the row stays as it  *)
(* is and its command is over.                                             *)
Settle(p, written) ==
    /\ IF written THEN finish_dr_run(p, "failed") /\ UNCHANGED abandoned
       ELSE abandoned' = abandoned \cup {rn[p].run} /\ UNCHANGED runs
    /\ Done(p)

-----------------------------------------------------------------------------
(* promote. *)

(* Mutant: an active failover does not refuse another. *)
Promote_Again(p) ==
    /\ rn[p].pc \in {"idle", "promote"}
    /\ Goto(p, "fence")
    /\ UNCHANGED <<runs, copies, site, ran, faults>>

(* The plan is ready, no failover is active and preflight passes; which    *)
(* points are verified, recent and replicated is left open.                *)
Promote(p) ==
    /\ rn[p].pc \in {"idle", "promote"}
    /\ ~_already_failed_over
    /\ Goto(p, "fence")
    /\ UNCHANGED <<runs, copies, site, ran, faults>>

(* _fence_primary: the commands succeed, or the operator, who isolated the *)
(* site, confirmed it. Nothing at the primary site serves any more.        *)
_fence_primary(p) ==
    /\ rn[p].pc = "fence"
    /\ on' = on \ VMsAt("primary") /\ route' = route \ {"primary"}
    /\ Goto(p, "create")
    /\ UNCHANGED <<runs, copies, ver, ran, faults>>

(* A fence command or its verification fails, before or after it worked. *)
FenceFails(p, worked) ==
    /\ rn[p].pc = "fence"
    /\ on' = IF worked THEN on \ VMsAt("primary") ELSE on
    /\ route' = IF worked THEN route \ {"primary"} ELSE route
    /\ Done(p)
    /\ UNCHANGED <<runs, copies, ver, ran, faults>>

CreateFailover(p) ==
    /\ rn[p].pc = "create"
    /\ create_dr_run(p, "failover", "prepare")
    /\ UNCHANGED <<copies, site, demoted, maintenance, failures, abandoned,
                   faults>>

(* net.prepare(dr) and net.deactivate(primary, tolerate_unreachable=True). *)
PrepareDR(p, reached) ==
    /\ rn[p].pc = "prepare"
    /\ reached \/ faults < MaxFaults
    /\ route' = IF reached THEN route \ {"primary"} ELSE route
    /\ faults' = IF reached THEN faults ELSE faults + 1
    /\ GotoLoop(p, "restore")
    /\ UNCHANGED <<runs, copies, on, ver, ran>>

(* create_restore_request, execute_restore and add_dr_workload. *)
RestoreWorkload(p, w) ==
    /\ rn[p].pc = "restore"
    /\ copies' = copies \cup {<<rn[p].run, w>>}
    /\ Round(p, w, "activate")
    /\ UNCHANGED <<runs, site, ran, faults>>

(* Mutant: the DR gateway is activated with dry_run. *)
ActivateDR_DryRun(p) ==
    /\ rn[p].pc = "activate"
    /\ GotoLoop(p, "boot")
    /\ UNCHANGED <<runs, copies, site, ran, faults>>

ActivateDR(p) ==
    /\ rn[p].pc = "activate"
    /\ route' = route \cup {"dr"}
    /\ GotoLoop(p, "boot")
    /\ UNCHANGED <<runs, copies, on, ver, ran, faults>>

(* adapter.power_on and _wait_workload_health. *)
Boot(p, w, healthy) ==
    /\ rn[p].pc = "boot" /\ w \in rn[p].todo
    /\ on' = on \cup {<<rn[p].run, w>>}
    /\ IF healthy THEN Round(p, w, "booted") ELSE Goto(p, "rollback")
    /\ UNCHANGED <<runs, copies, route, ver, ran, faults>>

(* finish_dr_run, and the audit in the same try block: when it raises, the *)
(* successful row is rolled back.                                          *)
FinishFailover(p, audited) ==
    /\ rn[p].pc = "booted"
    /\ audited \/ faults < MaxFaults
    /\ finish_dr_run(p, "success")
    /\ IF audited THEN Done(p) ELSE Goto(p, "rollback")
    /\ faults' = IF audited THEN faults ELSE faults + 1
    /\ UNCHANGED <<copies, site, ran>>

(* Any statement of the try block may raise; activate may have worked. *)
PromoteRaises(p) ==
    /\ rn[p].pc \in PromotePcs
    /\ Goto(p, "rollback")
    /\ UNCHANGED <<runs, copies, site, ran, faults>>

(* except: net.deactivate(dr, tolerate_unreachable=True)... *)
RollbackRoute(p, reached) ==
    /\ rn[p].pc = "rollback"
    /\ reached \/ faults < MaxFaults
    /\ route' = IF reached THEN route \ {"dr"} ELSE route
    /\ faults' = IF reached THEN faults ELSE faults + 1
    /\ Goto(p, "poweroff")
    /\ UNCHANGED <<runs, copies, on, ver, ran>>

(* It is not answered in time, which raises past power_off and             *)
(* finish_dr_run.                                                          *)
RollbackRaises(p, worked) ==
    /\ rn[p].pc = "rollback" /\ faults < MaxFaults
    /\ route' = IF worked THEN route \ {"dr"} ELSE route
    /\ faults' = faults + 1
    /\ Settle(p, FALSE)
    /\ UNCHANGED <<copies, on, ver, base, demoted, maintenance, failures>>

(* ...power_off of what was restored, errors ignored, and finish_dr_run. *)
RollbackPower(p, stuck, written) ==
    /\ rn[p].pc = "poweroff"
    /\ stuck \subseteq ({rn[p].run} \X Workloads) \cap on
    /\ stuck = {} \/ faults < MaxFaults
    /\ on' = on \ (({rn[p].run} \X Workloads) \ stuck)
    /\ faults' = IF stuck = {} THEN faults ELSE faults + 1
    /\ Settle(p, written)
    /\ UNCHANGED <<copies, route, ver, base, demoted, maintenance, failures>>

-----------------------------------------------------------------------------
(* failback. *)

(* A failover is active and the operator confirms, truthfully, that the    *)
(* primary copies are off and isolated.                                    *)
Failback(p) ==
    /\ rn[p].pc = "idle"
    /\ _already_failed_over
    /\ on \cap VMsAt("primary") = {}
    /\ rn' = [rn EXCEPT ![p].pc = "fb_create",
                        ![p].from = latest_dr_run("failover")]
    /\ UNCHANGED <<runs, copies, site, ran, faults>>

CreateFailback(p) ==
    /\ rn[p].pc = "fb_create"
    /\ create_dr_run(p, "failback", "fb_prepare")
    /\ UNCHANGED <<copies, site, demoted, maintenance, failures, abandoned,
                   faults>>

PreparePrimary(p) ==
    /\ rn[p].pc = "fb_prepare"
    /\ route' = route \ {"primary"}
    /\ GotoLoop(p, "fb_backup")
    /\ UNCHANGED <<runs, copies, on, ver, ran, faults>>

(* Mutant: the point of the failover is taken for the final backup. *)
FinalBackup_Stale(p, w) ==
    /\ rn[p].pc = "fb_backup"
    /\ Round(p, w, "fb_restore")
    /\ UNCHANGED <<runs, copies, site, ran, faults>>

(* _backup_vm of the DR copy, which goes on serving. *)
FinalBackup(p, w) ==
    LET r == [rn[p] EXCEPT !.saved[w] = ver[<<rn[p].from, w>>]] IN
    /\ rn[p].pc = "fb_backup" /\ w \in rn[p].todo
    /\ <<rn[p].from, w>> \in copies
    /\ rn' = [rn EXCEPT ![p] =
                 IF r.todo = {w}
                   THEN [r EXCEPT !.pc = "fb_restore", !.todo = Workloads]
                   ELSE [r EXCEPT !.todo = @ \ {w}]]
    /\ UNCHANGED <<runs, copies, site, ran, faults>>

RestoreToPrimary(p, w) ==
    /\ rn[p].pc = "fb_restore"
    /\ copies' = copies \cup {<<rn[p].run, w>>}
    /\ ver' = [ver EXCEPT ![<<rn[p].run, w>>] = rn[p].saved[w]]
    /\ Round(p, w, "fb_withdraw")
    /\ UNCHANGED <<runs, on, route, ran, faults>>

(* Mutant: an unreachable DR gateway is tolerated here too. *)
WithdrawDR_Tolerant(p) ==
    /\ rn[p].pc \in {"fb_withdraw", "demote"}
    /\ GotoLoop(p, IF rn[p].pc = "demote" THEN "demote_off" ELSE "fb_poweroff")
    /\ UNCHANGED <<runs, copies, site, ran, faults>>

(* net.deactivate(dr), of a failback and of a demotion: an unreachable     *)
(* gateway raises.                                                         *)
WithdrawDR(p) ==
    /\ rn[p].pc \in {"fb_withdraw", "demote"}
    /\ route' = route \ {"dr"}
    /\ GotoLoop(p, IF rn[p].pc = "demote" THEN "demote_off" ELSE "fb_poweroff")
    /\ demoted' = IF rn[p].pc = "demote"
                    THEN [demoted EXCEPT ![rn[p].from] = "begun"] ELSE demoted
    /\ UNCHANGED <<runs, copies, on, ver, base, maintenance, failures,
                   abandoned, faults>>

(* adapter.power_off ignores an exit status: it may do nothing.            *)
PowerOffDR(p, w, off) ==
    /\ rn[p].pc \in {"fb_poweroff", "demote_off"}
    /\ off \/ faults < MaxFaults
    /\ on' = IF off THEN on \ {<<rn[p].from, w>>} ELSE on
    /\ faults' = IF off THEN faults ELSE faults + 1
    /\ Round(p, w, IF rn[p].pc = "demote_off" THEN "demoted"
                   ELSE "fb_activate")
    /\ UNCHANGED <<runs, copies, route, ver, ran>>

ActivatePrimary(p) ==
    /\ rn[p].pc = "fb_activate"
    /\ route' = route \cup {"primary"}
    /\ GotoLoop(p, "fb_boot")
    /\ UNCHANGED <<runs, copies, on, ver, ran, faults>>

BootPrimary(p, w, healthy) ==
    /\ rn[p].pc = "fb_boot" /\ w \in rn[p].todo
    /\ on' = on \cup {<<rn[p].run, w>>}
    /\ IF healthy THEN Round(p, w, "fb_booted") ELSE Goto(p, "fb_fail")
    /\ UNCHANGED <<runs, copies, route, ver, ran, faults>>

(* When the audit raises, the row of what was done is settled as failed.   *)
FinishFailback(p, audited) ==
    /\ rn[p].pc = "fb_booted"
    /\ audited \/ faults < MaxFaults
    /\ finish_dr_run(p, "success")
    /\ IF audited THEN Done(p) ELSE Goto(p, "fb_fail")
    /\ faults' = IF audited THEN faults ELSE faults + 1
    /\ UNCHANGED <<copies, site, ran>>

(* Any statement of the try block may raise; nothing is rolled back. *)
FailbackRaises(p) ==
    /\ rn[p].pc \in FailbackPcs
    /\ Goto(p, "fb_fail")
    /\ UNCHANGED <<runs, copies, site, ran, faults>>

(* Mutant: the except clause returns and does not call finish_dr_run. *)
FailbackFailed_Silent(p, written) ==
    /\ rn[p].pc = "fb_fail"
    /\ Done(p)
    /\ UNCHANGED <<runs, copies, site, ran, faults>>

FailbackFailed(p, written) ==
    /\ rn[p].pc = "fb_fail"
    /\ Settle(p, written)
    /\ UNCHANGED <<copies, site, base, demoted, maintenance, failures, faults>>

-----------------------------------------------------------------------------
(* demote_dr: no row of dr_runs records it. *)

Demote(p) ==
    /\ rn[p].pc = "idle"
    /\ latest_dr_run("failover") # 0
    /\ rn' = [rn EXCEPT ![p].pc = "demote",
                        ![p].from = latest_dr_run("failover")]
    /\ UNCHANGED <<runs, copies, site, ran, faults>>

Demoted(p) ==
    /\ rn[p].pc = "demoted"
    /\ demoted' = [demoted EXCEPT ![rn[p].from] = "done"]
    /\ Done(p)
    /\ UNCHANGED <<runs, copies, site, base, maintenance, failures, abandoned,
                   faults>>

DemoteRaises(p) ==
    /\ rn[p].pc \in DemotePcs
    /\ Done(p)
    /\ UNCHANGED <<runs, copies, site, ran, faults>>

-----------------------------------------------------------------------------
(* watch and maintenance. *)

(* No maintenance file, and an evaluation is due. *)
Watch(p) ==
    /\ rn[p].pc = "idle"
    /\ ~maintenance
    /\ Goto(p, "probe")
    /\ UNCHANGED <<runs, copies, site, ran, faults>>

(* The probes, update_dr_health and the decision. *)
Probe(p, site_healthy) ==
    /\ rn[p].pc = "probe"
    /\ failures' = IF site_healthy THEN 0
                   ELSE IF failures = Threshold THEN Threshold ELSE failures + 1
    /\ IF failures' = Threshold /\ AutoFailover /\ ~_already_failed_over
         THEN Goto(p, "promote") ELSE Done(p)
    /\ UNCHANGED <<runs, copies, site, base, demoted, maintenance, abandoned,
                   faults>>

(* promote finds the plan not ready, preflight failing, or a failover      *)
(* active by now.                                                          *)
PromoteRefused(p) ==
    /\ rn[p].pc = "promote"
    /\ Done(p)
    /\ UNCHANGED <<runs, copies, site, ran, faults>>

Maintenance(b) ==
    /\ maintenance # b
    /\ maintenance' = b
    /\ UNCHANGED <<runs, copies, site, base, demoted, failures, rn, abandoned,
                   faults>>

(* An operator powers the primary copies off and withdraws their route. *)
IsolatePrimary ==
    /\ _already_failed_over
    /\ on \cap VMsAt("primary") # {}
    /\ on' = on \ VMsAt("primary") /\ route' = route \ {"primary"}
    /\ UNCHANGED <<runs, copies, ver, ran, rn, faults>>

(* A DR copy behind the DR gateway serves a write. *)
Serve(v) ==
    /\ v \in on \cap VMsAt("dr") /\ "dr" \in route
    /\ ver[v] < MaxWrites
    /\ ver' = [ver EXCEPT ![v] = @ + 1]
    /\ UNCHANGED <<runs, copies, on, route, ran, rn, faults>>

Crash(p) ==
    /\ rn[p].pc # "idle" /\ faults < MaxFaults
    /\ faults' = faults + 1
    /\ abandoned' = IF rn[p].pc \in RowPcs THEN abandoned \cup {rn[p].run}
                    ELSE abandoned
    /\ Done(p)
    /\ UNCHANGED <<runs, copies, site, base, demoted, maintenance, failures>>

-----------------------------------------------------------------------------
PromoteStep(p) ==
    \/ _fence_primary(p) \/ CreateFailover(p)
    \/ \E b \in BOOLEAN :
         \/ FenceFails(p, b) \/ PrepareDR(p, b) \/ FinishFailover(p, b)
         \/ RollbackRoute(p, b) \/ RollbackRaises(p, b)
    \/ \E w \in Workloads : \/ RestoreWorkload(p, w)
                            \/ \E b \in BOOLEAN : Boot(p, w, b)
    \/ ActivateDR(p) \/ PromoteRaises(p)
    \/ \E stuck \in SUBSET ({rn[p].run} \X Workloads), b \in BOOLEAN :
         RollbackPower(p, stuck, b)

FailbackStep(p) ==
    \/ CreateFailback(p) \/ PreparePrimary(p)
    \/ \E w \in Workloads :
         \/ FinalBackup(p, w) \/ RestoreToPrimary(p, w)
         \/ \E b \in BOOLEAN : PowerOffDR(p, w, b) \/ BootPrimary(p, w, b)
    \/ WithdrawDR(p) \/ ActivatePrimary(p) \/ FailbackRaises(p)
    \/ \E b \in BOOLEAN : FinishFailback(p, b) \/ FailbackFailed(p, b)

(* The steps of a command that has begun. *)
CommandStep(p) ==
    \/ PromoteStep(p) \/ FailbackStep(p)
    \/ Demoted(p) \/ DemoteRaises(p)
    \/ \E b \in BOOLEAN : Probe(p, b)
    \/ PromoteRefused(p)

Next ==
    \/ \E p \in Runners :
         \/ Promote(p) \/ Failback(p) \/ Demote(p) \/ Watch(p)
         \/ CommandStep(p) \/ Crash(p)
    \/ \E b \in BOOLEAN : Maintenance(b)
    \/ IsolatePrimary
    \/ \E v \in VMs : Serve(v)

Spec == Init /\ [][Next]_vars

(* A command that was started runs to its end unless it is killed: every   *)
(* call it makes has a timeout.                                            *)
FairSpec == Spec /\ \A p \in Runners : WF_vars(CommandStep(p))

-----------------------------------------------------------------------------
(* Properties. *)

(* Only one site owns the gateway address and advertises the subnet        *)
(* (docs/DR_RUNBOOK.md; promote, failback), while nothing is unreachable   *)
(* and no command dies.                                                    *)
OneOwner == faults = 0 => route # {"primary", "dr"}

(* No two copies of a workload, which share an address, run at the same    *)
(* time: the original, a DR copy, a failback copy (promote, failback).     *)
OneCopy ==
    faults = 0 => \A w \in Workloads : Cardinality({v \in on : v[2] = w}) <= 1

(* While a failover is reported active, its copies run behind the DR       *)
(* gateway, unless a failback or a demotion of it has begun, or is over.   *)
Withdrawing(i) ==
    \/ \E j \in RunIds : j > i /\ runs[j].dir = "failback"
    \/ demoted[i] # "no"
ActiveServes ==
    LET i == latest_dr_run("failover") IN
    faults = 0 /\ _already_failed_over /\ ~Withdrawing(i) =>
      "dr" \in route /\ ({i} \X Workloads) \subseteq on

(* A successful failback brings home every write the DR site had served    *)
(* when it began (failback takes final backups).                           *)
FailbackKeepsBase ==
    \A i \in RunIds, w \in Workloads :
      runs[i] = [dir |-> "failback", status |-> "success"] =>
        ver[<<i, w>>] >= base[i][w]

(* dr-failback captures the final DR state and preserves the changes made  *)
(* while DR was active (docs/PRODUCTION_ACCEPTANCE.md).                    *)
FailbackKeepsWrites ==
    \A i, j \in RunIds, w \in Workloads :
      /\ runs[i] = [dir |-> "failback", status |-> "success"]
      /\ runs[j] = [dir |-> "failover", status |-> "success"] /\ j < i
      /\ \A k \in j..i : k \in {i, j}
      => ver[<<i, w>>] >= ver[<<j, w>>]

(* A failover that was demoted no longer blocks a promotion: fail back or  *)
(* demote it before promoting again (promote's message). demote_dr writes  *)
(* no row of dr_runs: this does not hold, and no run checks it.            *)
DemoteEndsFailover ==
    _already_failed_over => demoted[latest_dr_run("failover")] # "done"

(* A run reported as running has the command that made it and that will    *)
(* settle it: but for a kill, a rollback whose withdrawal is not answered  *)
(* and a database that fails the except clause, no path of promote or      *)
(* failback returns or raises past finish_dr_run, whatever other commands  *)
(* do and fail.                                                            *)
RunningHasRunner ==
    \A i \in RunIds \ abandoned :
      runs[i].status = "running" =>
        \E p \in Runners : rn[p].pc \in RowPcs /\ rn[p].run = i

(* A run is settled as success or failed, with the same exceptions.        *)
RunSettles ==
    \A i \in RunIds :
      runs[i].status = "running"
        ~> runs[i].status # "running" \/ i \in abandoned
=============================================================================
