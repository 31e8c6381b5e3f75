-------------------------- MODULE ManagementConfig --------------------------
(***************************************************************************)
(* The live configuration file and the systemd timers, as the threads of   *)
(* the management broker (FinalValidatedManagementManager) and of the      *)
(* setup wizard (SetupManager) change them. Every request reads the whole  *)
(* file, changes a part and puts the whole file back; nothing serialises   *)
(* the requests. A _commit undoes itself when it fails after the write, by *)
(* writing the bytes it read before over the live file; a policy request   *)
(* does not, and then brings the policy's timer in line. The broker checks *)
(* a candidate with load_v11_config, the wizard with load_config only; the *)
(* wizard accepts patterns for VM names, saves NAS storage without mounting*)
(* it, and enables the broad backup timer whatever policies there are.     *)
(***************************************************************************)
EXTENDS Naturals, FiniteSets

CONSTANTS
    Platforms,    \* names of hypervisors
    Owned,        \* the platforms that exactly one tenant claims
    Replicas,     \* names of NAS replicas
    Policies,     \* ids of protection policies
    Threads,      \* request threads of the broker and the wizard
    Nothing,      \* no policy, no DR map
    Torn,         \* the content of a file truncated and not yet written
    MaxRequests,  \* bound of the requests
    MaxFaults     \* bound of the failed commands and of the killed processes

ASSUME ManagementAssumption ==
    /\ Owned \subseteq Platforms
    /\ MaxRequests \in Nat /\ MaxFaults \in Nat

VARIABLES
    file,      \* the live configuration
    mounts,    \* the replicas whose mount unit is active
    timers,    \* the policies whose timer is enabled
    legacy,    \* immutavault-backup.timer: "on" as installed, "off", or
               \* "again" since the wizard enabled it
    th,        \* the state of each request thread
    scoped,    \* history: platforms whose exact VM selection was acknowledged,
               \* and which the wizard selected by no pattern since
    raced,     \* history: a thread acted on what another had changed meanwhile
    requests, faults

vars == <<file, mounts, timers, legacy, th, scoped, raced, requests, faults>>

-----------------------------------------------------------------------------
(* The configuration and its validation. *)

(* A policy: its platform (with exact VMs), its replica targets, and       *)
(* whether it is enabled with a calendar (PolicySchedule.on_calendar).     *)
Policy == [platform : Platforms, replicas : SUBSET Replicas,
           timed : BOOLEAN]

(* scope: include is ["*"], has some pattern, or is exact VM names;        *)
(* managed: the replicas with a mount_type. dr: source, target, replica.   *)
Scopes == {"absent", "all", "pattern", "exact"}
Config == [scope : [Platforms -> Scopes],
           replicas : SUBSET Replicas, managed : SUBSET Replicas,
           policies : [Policies -> Policy \cup {Nothing}],
           networks : SUBSET Platforms,
           dr : (Platforms \X Platforms \X Replicas) \cup {Nothing}]

(* What cannot be read is no configuration. *)
ASSUME TornAssumption == Torn \notin Config

Present(c) == {p \in Platforms : c.scope[p] # "absent"}

(* The DR map names platforms and a replica that are there. *)
DrResolves(c) ==
    c.dr # Nothing => c.dr[1] \in Present(c) /\ c.dr[2] \in Present(c)
                        /\ c.dr[3] \in c.replicas

(* load_config: the core schema. *)
load_config(c) == c # Torn /\ DrResolves(c)

(* load_enterprise_config: every platform has exactly one tenant. *)
TenantsOwn(c) == Present(c) \subseteq Owned

(* load_v11_config: policies and test networks name what is there. *)
PoliciesResolve(c) ==
    /\ \A q \in Policies : c.policies[q] # Nothing =>
         /\ c.policies[q].platform \in Present(c)
         /\ c.policies[q].replicas \subseteq c.replicas
    /\ c.networks \subseteq Present(c)

(* Mutant: the references of a policy are not resolved. *)
load_v11_config_Core(c) == load_config(c) /\ TenantsOwn(c)

load_v11_config(c) == load_config(c) /\ TenantsOwn(c) /\ PoliciesResolve(c)

-----------------------------------------------------------------------------
(* The requests, as functions of the configuration they read; each is      *)
(* refused unless its own checks hold, and again unless the result loads.  *)

(* Mutant: editing a platform resets its include list. *)
save_platform_Reset(p, c) == [c EXCEPT !.scope[p] = "all"]

(* save_platform keeps the scope a platform had. *)
save_platform(p, c) ==
    [c EXCEPT !.scope[p] = IF @ = "absent" THEN "all" ELSE @]

save_selection(p, kept, c) == [c EXCEPT !.scope[p] = kept]

(* The entry of a replica is replaced; only the broker, given a source to  *)
(* mount, writes a mount_type into it.                                     *)
save_storage(r, sourced, c) ==
    [c EXCEPT !.replicas = @ \cup {r},
              !.managed = IF sourced THEN @ \cup {r} ELSE @ \ {r}]

save_policy(q, row, c) == [c EXCEPT !.policies[q] = row]

delete_policy(q, c) == [c EXCEPT !.policies[q] = Nothing]

save_dr_test_network(p, c) == [c EXCEPT !.networks = @ \cup {p}]

(* save_dr maps the VMs of the source to a platform of its family.         *)
save_dr(s, d, r, c) == [c EXCEPT !.dr = <<s, d, r>>]

-----------------------------------------------------------------------------
NoConfig == [scope |-> [p \in Platforms |-> "absent"],
             replicas |-> {}, managed |-> {},
             policies |-> [q \in Policies |-> Nothing], networks |-> {},
             dr |-> Nothing]

(* A request thread. via: with rollback (commit, select), with a timer to  *)
(* bring in line (policy), or neither (plain, and widen for a selection by *)
(* a pattern); about: the platform, policy or replica; hold: the file it   *)
(* truncated is still the live one.                                        *)
IdleThread == [pc |-> "idle", via |-> "none", about |-> Nothing,
               cand |-> NoConfig, prev |-> NoConfig, stale |-> FALSE,
               hold |-> FALSE]

Pcs == {"idle", "mount", "previous", "replace", "post", "undo", "rewrite",
        "sync", "enable", "disable", "legacy"}
Vias == {"none", "commit", "select", "policy", "plain", "widen"}
Thread == [pc : Pcs, via : Vias,
           about : Platforms \cup Policies \cup Replicas \cup {Nothing},
           cand : Config, prev : Config \cup {Torn},
           stale : BOOLEAN, hold : BOOLEAN]

(* The type of the state; a timer belongs to a policy that some request    *)
(* named.                                                                  *)
TypeOK ==
    /\ file \in Config \cup {Torn}
    /\ mounts \subseteq Replicas /\ timers \subseteq Policies
    /\ legacy \in {"on", "off", "again"}
    /\ th \in [Threads -> Thread]
    /\ scoped \subseteq Platforms /\ raced \in BOOLEAN
    /\ requests \in 0..MaxRequests /\ faults \in 0..MaxFaults

(* A configured controller with platforms and replicas, its schedules      *)
(* enabled, and no named policy yet.                                       *)
Init ==
    /\ \E sc \in [Platforms -> {"absent", "all", "exact"}],
          rs \in SUBSET Replicas :
         \E ms \in SUBSET rs :
           file = [NoConfig EXCEPT !.scope = sc, !.replicas = rs,
                                   !.managed = ms]
    /\ Present(file) # {} /\ load_v11_config(file)
    /\ mounts = file.managed /\ timers = {} /\ legacy = "on"
    /\ th = [t \in Threads |-> IdleThread]
    /\ scoped = {p \in Platforms : file.scope[p] = "exact"}
    /\ raced = FALSE /\ requests = 0 /\ faults = 0

units == <<mounts, timers, legacy>>

Goto(t, pc) == th' = [th EXCEPT ![t].pc = pc]
Answer(t) == th' = [th EXCEPT ![t] = IdleThread]
Fault == faults < MaxFaults /\ faults' = faults + 1

(* _data(), the request's change and its first validation: the thread      *)
(* carries the candidate on. A truncated file reads as an empty mapping,   *)
(* which no candidate survives.                                            *)
Start(t, via, pc, about, cand) ==
    /\ th[t].pc = "idle"
    /\ requests < MaxRequests /\ requests' = requests + 1
    /\ th' = [th EXCEPT ![t] = [IdleThread EXCEPT
                 !.pc = pc, !.via = via, !.about = about, !.cand = cand]]
    /\ UNCHANGED <<file, units, scoped, raced, faults>>

BrokerPlatform(t, p) ==
    /\ file # Torn /\ load_v11_config(save_platform(p, file))
    /\ Start(t, "commit", "previous", p, save_platform(p, file))

BrokerSelection(t, p) ==
    /\ file # Torn /\ p \in Present(file)
    /\ load_v11_config(save_selection(p, "exact", file))
    /\ Start(t, "select", "previous", p, save_selection(p, "exact", file))

(* A NAS replica that comes with its source is mounted between the first   *)
(* validation and the commit; a path without a source is taken as it is.   *)
BrokerStorage(t, r, sourced) ==
    /\ file # Torn /\ load_v11_config(save_storage(r, sourced, file))
    /\ Start(t, "commit", IF sourced THEN "mount" ELSE "previous", r,
             save_storage(r, sourced, file))

BrokerPolicy(t, q, row) ==
    /\ file # Torn /\ load_v11_config(save_policy(q, row, file))
    /\ Start(t, "policy", "replace", q, save_policy(q, row, file))

BrokerDelete(t, q) ==
    /\ file # Torn /\ file.policies[q] # Nothing
    /\ load_v11_config(delete_policy(q, file))
    /\ Start(t, "policy", "replace", q, delete_policy(q, file))

BrokerNetwork(t, p) ==
    /\ file # Torn /\ load_v11_config(file) /\ p \in Present(file)
    /\ Start(t, "plain", "replace", p, save_dr_test_network(p, file))

WizardPlatform(t, p) ==
    /\ file # Torn /\ load_config(save_platform(p, file))
    /\ Start(t, "plain", "replace", p, save_platform(p, file))

(* The wizard, unlike the broker, refuses no pattern. *)
WizardSelection(t, p, kept) ==
    /\ file # Torn /\ p \in Present(file)
    /\ load_config(save_selection(p, kept, file))
    /\ Start(t, IF kept = "exact" THEN "plain" ELSE "widen", "replace", p,
             save_selection(p, kept, file))

(* The wizard mounts nothing. *)
WizardStorage(t, r) ==
    /\ file # Torn /\ load_config(save_storage(r, FALSE, file))
    /\ Start(t, "plain", "replace", r, save_storage(r, FALSE, file))

(* save_rpo_target changes a number, and puts back the rest as it read it. *)
WizardTarget(t) ==
    /\ file # Torn /\ load_config(file)
    /\ Start(t, "plain", "replace", Nothing, file)

(* A pattern passes for the name of a VM unless it is "*" or has ?, [ or ].*)
WizardDr(t, s, d, r) ==
    /\ file # Torn /\ s # d /\ {s, d} \subseteq Present(file)
    /\ r \in file.replicas /\ file.scope[s] \in {"pattern", "exact"}
    /\ Start(t, "plain", "replace", s, save_dr(s, d, r, file))

-----------------------------------------------------------------------------
(* _ensure_persistent_mount: the unit is enabled, or the request ends.     *)
EnsureMount(t) ==
    /\ th[t].pc = "mount"
    /\ \/ /\ mounts' = mounts \cup {th[t].about} /\ Goto(t, "previous")
          /\ UNCHANGED faults
       \/ Fault /\ Answer(t) /\ UNCHANGED mounts
    /\ UNCHANGED <<file, timers, legacy, scoped, raced, requests>>

(* _commit: the bytes to go back to. *)
ReadPrevious(t) ==
    /\ th[t].pc = "previous"
    /\ th' = [th EXCEPT ![t].prev = file, ![t].pc = "replace"]
    /\ UNCHANGED <<file, units, scoped, raced, requests, faults>>

(* What comes after the file is replaced, and after it could not be.       *)
AfterReplace(t) == IF th[t].via = "policy" THEN "sync" ELSE "post"
IsCommit(t) == th[t].via \in {"commit", "select"}

(* The live file is now another: every other request in flight has read    *)
(* one that is gone, and a rollback that opened it writes to no file.      *)
Overtaken(t, pc) ==
    th' = [x \in Threads |->
             IF x = t THEN [th[x] EXCEPT !.pc = pc]
             ELSE [th[x] EXCEPT !.stale = th[x].pc # "idle", !.hold = FALSE]]

(* _atomic_v11 and _atomic: the candidate is validated again, the live     *)
(* file is copied aside, os.replace.                                       *)
Replace(t) ==
    /\ th[t].pc = "replace"
    /\ file' = th[t].cand
    /\ Overtaken(t, AfterReplace(t))
    /\ raced' = (raced \/ th[t].stale)
    /\ scoped' = IF th[t].via = "widen" THEN scoped \ {th[t].about}
                 ELSE scoped
    /\ UNCHANGED <<units, requests, faults>>

(* The temporary file or the copy could not be written. *)
ReplaceFails(t) ==
    /\ th[t].pc = "replace"
    /\ Fault
    /\ IF IsCommit(t) THEN Goto(t, "undo") ELSE Answer(t)
    /\ UNCHANGED <<file, units, scoped, raced, requests>>

(* A selection that was answered with success is one to keep, unless       *)
(* another request wrote before the answer.                                *)
Acknowledge(t) ==
    /\ scoped' = IF th[t].via = "select" /\ ~th[t].stale
                   THEN scoped \cup {th[t].about} ELSE scoped
    /\ Answer(t)

(* _env_write, and for a _commit the live file is loaded once more. *)
Post(t) ==
    /\ th[t].pc = "post"
    /\ IF IsCommit(t) /\ ~load_v11_config(file)
         THEN Goto(t, "undo") /\ UNCHANGED scoped
         ELSE Acknowledge(t)
    /\ UNCHANGED <<file, units, raced, requests, faults>>

PostFails(t) ==
    /\ th[t].pc = "post"
    /\ Fault
    /\ IF IsCommit(t) THEN Goto(t, "undo") ELSE Answer(t)
    /\ UNCHANGED <<file, units, scoped, raced, requests>>

(* config_path.write_bytes(previous): the live file is truncated...        *)
Undo(t) ==
    /\ th[t].pc = "undo"
    /\ file' = Torn
    /\ th' = [x \in Threads |->
                IF x = t THEN [th[x] EXCEPT !.pc = "rewrite", !.hold = TRUE]
                ELSE [th[x] EXCEPT !.stale = th[x].pc # "idle"]]
    /\ raced' = (raced \/ th[t].stale)
    /\ UNCHANGED <<units, scoped, requests, faults>>

(* ...and written, unless another took its place; over what a second       *)
(* rollback wrote, the bytes may mix.                                      *)
Rewrite(t) ==
    /\ th[t].pc = "rewrite"
    /\ file' \in IF ~th[t].hold THEN {file}
                 ELSE IF file = Torn THEN {th[t].prev} ELSE {th[t].prev, Torn}
    /\ raced' = (raced \/ th[t].stale)
    /\ Answer(t)
    /\ UNCHANGED <<units, scoped, requests, faults>>

-----------------------------------------------------------------------------
(* _sync_timer after a policy request. *)

Timed(c, q) == c.policies[q] # Nothing /\ c.policies[q].timed

(* The configuration is loaded anew; the request fails if it does not load.*)
LoadForTimer(t) ==
    /\ th[t].pc = "sync"
    /\ IF ~load_v11_config(file) THEN Answer(t)
       ELSE Goto(t, IF Timed(file, th[t].about) THEN "enable" ELSE "disable")
    /\ raced' = (raced \/ file = Torn)
    /\ UNCHANGED <<file, units, scoped, requests, faults>>

(* Mutant: the timer of a policy that has no calendar any more is left. *)
DisableTimer_Left(t) ==
    /\ th[t].pc = "disable"
    /\ Answer(t)
    /\ raced' = (raced \/ th[t].stale)
    /\ UNCHANGED <<file, mounts, timers, legacy, scoped, requests, faults>>

(* What systemctl answers is not looked at, so the timer may go on. *)
DisableTimer(t) ==
    /\ th[t].pc = "disable"
    /\ \/ timers' = timers \ {th[t].about} /\ UNCHANGED faults
       \/ Fault /\ UNCHANGED timers
    /\ Answer(t)
    /\ raced' = (raced \/ th[t].stale)
    /\ UNCHANGED <<file, mounts, legacy, scoped, requests>>

EnableTimer(t) ==
    /\ th[t].pc = "enable"
    /\ \/ /\ timers' = timers \cup {th[t].about} /\ Goto(t, "legacy")
          /\ UNCHANGED faults
       \/ Fault /\ Answer(t) /\ UNCHANGED timers
    /\ raced' = (raced \/ th[t].stale)
    /\ UNCHANGED <<file, mounts, legacy, scoped, requests>>

(* A named schedule supersedes the broad one; a refusal is not looked at.  *)
DisableLegacy(t) ==
    /\ th[t].pc = "legacy"
    /\ \/ legacy' = "off" /\ UNCHANGED faults
       \/ Fault /\ UNCHANGED legacy
    /\ Answer(t)
    /\ UNCHANGED <<file, mounts, timers, scoped, raced, requests>>

(* The wizard's enable_timers: one systemctl after the other, whatever     *)
(* policies have timers of their own; a unit before this one may refuse.   *)
WizardTimers ==
    /\ requests < MaxRequests /\ requests' = requests + 1
    /\ \/ legacy' = "again" /\ UNCHANGED faults
       \/ Fault /\ UNCHANGED legacy
    /\ UNCHANGED <<file, mounts, timers, th, scoped, raced>>

(* The processes are killed, their threads with them. *)
Kill ==
    /\ Fault
    /\ \E t \in Threads : th[t].pc # "idle"
    /\ th' = [t \in Threads |-> IdleThread]
    /\ UNCHANGED <<file, units, scoped, raced, requests>>

-----------------------------------------------------------------------------
Request(t) ==
    \/ \E p \in Platforms :
         \/ BrokerPlatform(t, p) \/ BrokerSelection(t, p)
         \/ BrokerNetwork(t, p) \/ WizardPlatform(t, p)
         \/ \E kept \in Scopes \ {"absent"} : WizardSelection(t, p, kept)
    \/ WizardTarget(t)
    \/ \E r \in Replicas :
         \/ \E sourced \in BOOLEAN : BrokerStorage(t, r, sourced)
         \/ WizardStorage(t, r)
         \/ \E s, d \in Platforms : WizardDr(t, s, d, r)
    \/ \E q \in Policies :
         \/ \E row \in Policy : BrokerPolicy(t, q, row)
         \/ BrokerDelete(t, q)

Work(t) ==
    \/ EnsureMount(t) \/ ReadPrevious(t) \/ Replace(t) \/ ReplaceFails(t)
    \/ Post(t) \/ PostFails(t) \/ Undo(t) \/ Rewrite(t)
    \/ LoadForTimer(t) \/ DisableTimer(t) \/ EnableTimer(t)
    \/ DisableLegacy(t)

Next == (\E t \in Threads : Request(t) \/ Work(t)) \/ WizardTimers \/ Kill

Spec == Init /\ [][Next]_vars

-----------------------------------------------------------------------------
(* Properties. *)

Idle == \A t \in Threads : th[t].pc = "idle"

(* Whoever races, what is live passes the complete schema, and a NAS       *)
(* replica with a mount_type has been mounted before it went live, whether *)
(* or not others save it meanwhile without a source; the file is unreadable*)
(* only while a rollback rewrites it, after one that met another writer, or*)
(* after a process died (_commit, _atomic_v11, save_storage).              *)
LiveLoads ==
    IF file = Torn
      THEN raced \/ faults > 1 \/ \E t \in Threads : th[t].pc = "rewrite"
      ELSE /\ DrResolves(file) /\ TenantsOwn(file) /\ PoliciesResolve(file)
           /\ file.managed \subseteq mounts

(* An acknowledged selection of exact VMs is never widened back to every   *)
(* VM by a later edit of the platform, of another section or by a rollback,*)
(* of the broker or the wizard; only a selection by a pattern, which the   *)
(* wizard accepts, or a writer that puts back what it had read before      *)
(* another's write, widens it (save_platform, _commit).                    *)
ScopeKept ==
    ~raced /\ file # Torn => \A p \in scoped : file.scope[p] = "exact"

(* Between requests exactly the scheduled policies have a timer, and the   *)
(* broad legacy timer is off once there is one, unless the wizard enabled  *)
(* it since, a step failed or a request was overtaken (_sync_timer).       *)
TimersMatch ==
    Idle /\ ~raced /\ faults = 0 =>
      /\ timers = {q \in Policies : Timed(file, q)}
      /\ timers # {} => legacy # "on"

(* What docs/UNIFIED_MANAGEMENT.md and the comment in _sync_timer say: the *)
(* broad timer does not run beside those of named policies. The wizard's   *)
(* enable_timers turns it on again, with no failure and no race: this does *)
(* not hold, and no run checks it.                                         *)
OneSchedule ==
    Idle /\ ~raced /\ faults = 0 /\ timers # {} => legacy = "off"

(* What docs/UNIFIED_MANAGEMENT.md says of every candidate: only one that  *)
(* passes the complete schema, tenant ownership included, replaces the     *)
(* live file. The wizard checks less: with a platform that no tenant       *)
(* claims (Owned smaller than Platforms) this does not hold, and no run    *)
(* checks it.                                                              *)
CompleteSchema ==
    file # Torn => TenantsOwn(file) /\ PoliciesResolve(file)
=============================================================================
