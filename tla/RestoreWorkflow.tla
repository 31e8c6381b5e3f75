-------------------------- MODULE RestoreWorkflow --------------------------
(***************************************************************************)
(* Restore requests, from request_restore to the imported VM: the          *)
(* restore_requests table, the four-eyes approval, the execution of a      *)
(* request by BackupEngine, CertifiedBackupEngine (same control, another   *)
(* importer) and ManagedRecoveryEngine, which wraps an isolated recovery   *)
(* test around it. Approvals and executions are threads of the portal's    *)
(* ThreadingHTTPServer and CLI processes; nothing serialises them, and     *)
(* approve_restore and start_restore read the row in one transaction and   *)
(* update it, unconditionally, in another.                                 *)
(***************************************************************************)
EXTENDS Naturals, FiniteSets

CONSTANTS
    Requests,    \* ids of restore_requests
    Users,       \* identities that approve
    Requesters,  \* those of them that request
    Approvers,   \* threads that run approve_restore
    Executors,   \* threads that run execute_restore
    Nil,         \* approved_by IS NULL; no request
    FourEyes,    \* protection.require_four_eyes_restore
    KeepStaging, \* runtime.keep_staging_on_failure
    AutoCleanup, \* management.dr_test_auto_cleanup
    MaxCrashes   \* bound of the killed executions

ASSUME RestoreAssumption ==
    /\ Nil \notin Users /\ Nil \notin Requests
    /\ Requesters \subseteq Users
    /\ {FourEyes, KeepStaging, AutoCleanup} \subseteq BOOLEAN
    /\ MaxCrashes \in Nat

VARIABLES
    req,      \* the restore_requests table
    ap,       \* the state of each approving thread
    ex,       \* the state of each executing thread
    intact,   \* executions whose staging nobody removed as they filled it
    flunked,  \* executions whose recovery test has failed so far
    staging,  \* the directory request-<id> every execution of a request uses
    imports,  \* how many VMs a request has imported; numbers them
    vms,      \* the imported VMs <<request, number>> that exist
    tainted,  \* history: requests that imported a tree unlike its manifest
    on,       \* the recovery-test VMs that are powered on
    booted,   \* history: requests whose VM passed the boot validation
    raced,    \* history: requests that two threads worked on at once
    abandoned, \* history: requests whose execution ended unrecorded
    crashes   \* executions killed so far

target == <<imports, vms, tainted, on, booted>>
faults == <<raced, abandoned, crashes>>
vars == <<req, ap, ex, intact, flunked, staging, target, faults>>

TryPcs == {"wipe", "restore", "check", "import", "finish", "cleanup"}
RunPcs == TryPcs \cup {"fail"}
TestPcs == {"isolate", "boot", "off", "destroy"}
ExecPcs == {"idle", "plan", "start", "discard", "testfail"}
             \cup RunPcs \cup TestPcs

(* A request is a plain restore, an isolated recovery test, or a workload  *)
(* of a DR run, which the orchestrator creates as 'ready'.                 *)
Kinds == {"restore", "dr_test", "dr_run"}
Statuses == {"absent", "pending_approval", "approved", "ready", "running",
             "success", "failed"}
Request == [status : Statuses,
            requester : Users \cup {Nil}, approvedBy : Users \cup {Nil},
            kind : Kinds]
Approval == [pc : {"idle", "write"}, req : Requests \cup {Nil},
             user : Users \cup {Nil}]
(* vm: the number of the VM the execution imported. *)
Execution == [pc : ExecPcs, req : Requests \cup {Nil}, vm : Nat]

(* What the manifest lets tell of a tree: partial, files are missing or     *)
(* have another size, or a small one another hash; hidden, all that is     *)
(* wrong is the content of files over SMALL_FILE_HASH_LIMIT, the disks;    *)
(* exact, it is what was backed up, to the byte.                           *)
Trees == {"partial", "hidden", "exact"}
Whole == Trees \ {"partial"}

(* The type of the state; a thread at work has a request. *)
TypeOK ==
    /\ req \in [Requests -> Request]
    /\ ap \in [Approvers -> Approval]
    /\ ex \in [Executors -> Execution]
    /\ intact \subseteq Executors /\ flunked \subseteq Executors
    /\ staging \in [Requests -> {"absent"} \cup Trees]
    /\ imports \in [Requests -> Nat]
    /\ tainted \subseteq Requests /\ booted \subseteq Requests
    /\ raced \subseteq Requests /\ abandoned \subseteq Requests
    /\ vms \subseteq Requests \X Nat /\ on \subseteq Requests \X Nat
    /\ crashes \in Nat
    /\ \A a \in Approvers : ap[a].pc = "write" => ap[a].req \in Requests
    /\ \A e \in Executors : ex[e].pc # "idle" => ex[e].req \in Requests

NoRequest == [status |-> "absent", requester |-> Nil, approvedBy |-> Nil,
              kind |-> "restore"]
IdleApproval == [pc |-> "idle", req |-> Nil, user |-> Nil]
IdleExecution == [pc |-> "idle", req |-> Nil, vm |-> 0]

Init ==
    /\ req = [r \in Requests |-> NoRequest]
    /\ ap = [a \in Approvers |-> IdleApproval]
    /\ ex = [e \in Executors |-> IdleExecution]
    /\ intact = {} /\ flunked = {}
    /\ staging = [r \in Requests |-> "absent"]
    /\ imports = [r \in Requests |-> 0]
    /\ vms = {} /\ on = {} /\ tainted = {} /\ booted = {}
    /\ raced = {} /\ abandoned = {} /\ crashes = 0

-----------------------------------------------------------------------------
(* Requests and approvals. *)

InitialStatus(kind) ==
    IF FourEyes /\ kind # "dr_run" THEN "pending_approval" ELSE "ready"

(* request_restore, and create_restore_request by the DR orchestrator. *)
Submit(r, u, kind) ==
    /\ req[r].status = "absent"
    /\ req' = [req EXCEPT ![r] = [status |-> InitialStatus(kind),
                                  requester |-> u, approvedBy |-> Nil,
                                  kind |-> kind]]
    /\ UNCHANGED <<ap, ex, intact, flunked, staging, target, faults>>

(* Mutant: the requester is not compared with the approver. *)
ReadForApproval_Self(a, r, u) ==
    /\ ap[a].pc = "idle"
    /\ req[r].status = "pending_approval"
    /\ ap' = [ap EXCEPT ![a] = [pc |-> "write", req |-> r, user |-> u]]
    /\ UNCHANGED <<req, ex, intact, flunked, staging, target, faults>>

(* approve_restore: the SELECT and its two refusals... *)
ReadForApproval(a, r, u) ==
    /\ ap[a].pc = "idle"
    /\ req[r].status = "pending_approval"
    /\ FourEyes => u # req[r].requester
    /\ ap' = [ap EXCEPT ![a] = [pc |-> "write", req |-> r, user |-> u]]
    /\ UNCHANGED <<req, ex, intact, flunked, staging, target, faults>>

(* ...and the UPDATE, whose WHERE clause names the id only. *)
WriteApproval(a) ==
    /\ ap[a].pc = "write"
    /\ req' = [req EXCEPT ![ap[a].req].status = "approved",
                          ![ap[a].req].approvedBy = ap[a].user]
    /\ ap' = [ap EXCEPT ![a] = IdleApproval]
    /\ raced' = IF req[ap[a].req].status = "pending_approval" THEN raced
                ELSE raced \cup {ap[a].req}
    /\ UNCHANGED <<ex, intact, flunked, staging, target, abandoned, crashes>>

-----------------------------------------------------------------------------
(* Execution. *)

Goto(e, pc) == ex' = [ex EXCEPT ![e].pc = pc]
Done(e) == ex' = [ex EXCEPT ![e] = IdleExecution]
SetStatus(e, status) == req' = [req EXCEPT ![ex[e].req].status = status]
IsTest(e) == req[ex[e].req].kind = "dr_test"
VMof(e) == <<ex[e].req, ex[e].vm>>

(* An exception that leaves the inner execute_restore: the recovery test   *)
(* catches it and reports it, a plain restore ends.                        *)
Escapes(e) == IF IsTest(e) THEN Goto(e, "testfail") ELSE Done(e)

(* shutil.rmtree(restore_root): the threads filling the same directory go  *)
(* on, and will leave a tree with holes.                                   *)
Filling(r) == {x \in Executors : ex[x].pc = "restore" /\ ex[x].req = r}

(* The executions of a request. *)
Working(r) == {e \in Executors : ex[e].pc # "idle" /\ ex[e].req = r}

(* The request exists and, for a recovery test, _validate_dr_test passed. *)
Begin(e, r) ==
    /\ ex[e].pc = "idle"
    /\ req[r].status # "absent"
    /\ ex' = [ex EXCEPT ![e] = [IdleExecution EXCEPT !.pc = "plan", !.req = r]]
    /\ raced' = IF Working(r) = {} THEN raced ELSE raced \cup {r}
    /\ UNCHANGED <<req, ap, intact, flunked, staging, target, abandoned,
                   crashes>>

(* The point, its copy, the capacity or the adapter's doctor refuse, or    *)
(* start_restore fails before it commits.                                  *)
PreflightFails(e) ==
    /\ ex[e].pc \in {"plan", "start"}
    /\ Escapes(e)
    /\ UNCHANGED <<req, ap, intact, flunked, staging, target, faults>>

(* start_restore: the SELECT... *)
ReadForStart(e) ==
    /\ ex[e].pc = "plan"
    /\ IF req[ex[e].req].status \in {"approved", "ready"}
         THEN Goto(e, "start") ELSE Escapes(e)
    /\ UNCHANGED <<req, ap, intact, flunked, staging, target, faults>>

(* ...and the UPDATE. The audit and the SELECT that follow the commit are  *)
(* outside every try: when they raise, the row says running and nobody     *)
(* works on it.                                                            *)
WriteStart(e, ok) ==
    LET r == ex[e].req IN
    /\ ex[e].pc = "start"
    /\ SetStatus(e, "running")
    /\ IF ok THEN Goto(e, "wipe") ELSE Escapes(e)
    /\ abandoned' = IF ok THEN abandoned \ {r} ELSE abandoned \cup {r}
    /\ UNCHANGED <<ap, intact, flunked, staging, target, raced, crashes>>

(* rmtree, and restic begins to fill the directory. *)
WipeStaging(e) ==
    /\ ex[e].pc = "wipe"
    /\ staging' = [staging EXCEPT ![ex[e].req] = "partial"]
    /\ intact' = (intact \ Filling(ex[e].req)) \cup {e}
    /\ Goto(e, "restore")
    /\ UNCHANGED <<req, ap, flunked, target, faults>>

(* restic restore returns, having written a tree that is exact, or is not; *)
(* what another thread removed meanwhile is missing, unless a third has    *)
(* restored it since.                                                      *)
Restored(e, tree) ==
    LET r == ex[e].req IN
    /\ ex[e].pc = "restore"
    /\ staging' = [staging EXCEPT ![r] =
                     IF e \in intact \/ @ \in Whole THEN tree ELSE "partial"]
    /\ intact' = intact \ {e}
    /\ Goto(e, "check")
    /\ UNCHANGED <<req, ap, flunked, target, faults>>

(* Mutant: the verdict of verify_manifest is not looked at. *)
VerifyManifest_Ignored(e) ==
    /\ ex[e].pc = "check"
    /\ Goto(e, "import")
    /\ UNCHANGED <<req, ap, intact, flunked, staging, target, faults>>

(* verify_manifest accepts a whole tree: it compares the sizes of all      *)
(* files and the hashes of the small ones. While another thread fills the  *)
(* directory its files may already have their size. Any other tree raises. *)
VerifyManifest(e) ==
    /\ ex[e].pc = "check"
    /\ staging[ex[e].req] \in Whole \/ Filling(ex[e].req) # {}
    /\ Goto(e, "import")
    /\ UNCHANGED <<req, ap, intact, flunked, staging, target, faults>>

(* adapter.restore or v2v.execute finds a disk image and creates a new VM. *)
(* Whether a VM of that name refuses the import depends on the adapter.    *)
Import(e) ==
    LET r == ex[e].req IN
    /\ ex[e].pc = "import"
    /\ staging[r] # "absent"
    /\ imports' = [imports EXCEPT ![r] = @ + 1]
    /\ vms' = vms \cup {<<r, imports[r] + 1>>}
    /\ tainted' = IF staging[r] \in Whole THEN tainted ELSE tainted \cup {r}
    /\ ex' = [ex EXCEPT ![e].pc = "finish", ![e].vm = imports[r] + 1]
    /\ UNCHANGED <<req, ap, intact, flunked, staging, on, booted, faults>>

FinishSuccess(e) ==
    /\ ex[e].pc = "finish"
    /\ SetStatus(e, "success")
    /\ Goto(e, "cleanup")
    /\ UNCHANGED <<ap, intact, flunked, staging, target, faults>>

Cleanup(e) ==
    /\ ex[e].pc = "cleanup"
    /\ staging' = [staging EXCEPT ![ex[e].req] = "absent"]
    /\ intact' = intact \ Filling(ex[e].req)
    /\ IF IsTest(e) THEN Goto(e, "isolate") ELSE Done(e)
    /\ UNCHANGED <<req, ap, flunked, target, faults>>

(* Any statement of the try block may raise, the audit that follows        *)
(* finish_restore included.                                                *)
Raise(e) ==
    /\ ex[e].pc \in TryPcs
    /\ intact' = intact \ {e}
    /\ Goto(e, "fail")
    /\ UNCHANGED <<req, ap, flunked, staging, target, faults>>

(* Mutant: the except clause writes no outcome. *)
FinishFailed_Silent(e) ==
    /\ ex[e].pc = "fail"
    /\ Goto(e, "discard")
    /\ UNCHANGED <<req, ap, intact, flunked, staging, target, faults>>

(* Mutant: a failed request goes back to be tried again. *)
FinishFailed_Reopens(e) ==
    /\ ex[e].pc = "fail"
    /\ SetStatus(e, "approved")
    /\ Goto(e, "discard")
    /\ UNCHANGED <<ap, intact, flunked, staging, target, faults>>

FinishFailed(e) ==
    /\ ex[e].pc = "fail"
    /\ SetStatus(e, "failed")
    /\ Goto(e, "discard")
    /\ UNCHANGED <<ap, intact, flunked, staging, target, faults>>

(* rmtree unless keep_staging_on_failure, or unless the audit before it    *)
(* raises; the exception goes on.                                          *)
Discard(e, audited) ==
    /\ ex[e].pc = "discard"
    /\ IF KeepStaging \/ ~audited THEN UNCHANGED <<staging, intact>>
       ELSE /\ staging' = [staging EXCEPT ![ex[e].req] = "absent"]
            /\ intact' = intact \ Filling(ex[e].req)
    /\ Escapes(e)
    /\ UNCHANGED <<req, ap, flunked, target, faults>>

-----------------------------------------------------------------------------
(* The isolated recovery test around an import. *)

Flunk(e, ok) == flunked' = IF ok THEN flunked ELSE flunked \cup {e}

(* helper.isolate and adapter.power_on; either may fail, power_on late. *)
PowerOnIsolated(e, started, ok) ==
    /\ ex[e].pc = "isolate"
    /\ ok => started
    /\ on' = IF started THEN on \cup {VMof(e)} ELSE on
    /\ Flunk(e, ok)
    /\ Goto(e, IF ok THEN "boot" ELSE "off")
    /\ UNCHANGED <<req, ap, intact, staging, imports, vms, tainted, booted,
                   faults>>

(* up: the VM still runs after dr_test_boot_seconds. The test goes on only *)
(* then, and only if the question and the audit that follows did not fail. *)
BootCheck(e, up, ok) ==
    /\ ex[e].pc = "boot"
    /\ booted' = IF up THEN booted \cup {ex[e].req} ELSE booted
    /\ Flunk(e, up /\ ok)
    /\ Goto(e, "off")
    /\ UNCHANGED <<req, ap, intact, staging, imports, vms, tainted, on, faults>>

(* adapter.power_off: it looks at no exit status, so a guest that stays on *)
(* fails the test only when the command cannot run or times out.           *)
PowerOff(e, off, ok) ==
    /\ ex[e].pc = "off"
    /\ on' = IF off THEN on \ {VMof(e)} ELSE on
    /\ Flunk(e, ok)
    /\ Goto(e, "destroy")
    /\ UNCHANGED <<req, ap, intact, staging, imports, vms, tainted, booted,
                   faults>>

(* Mutant: cleanup errors do not fail the test. *)
Destroy_Lenient(e, ok) ==
    LET gone == IF AutoCleanup /\ ok THEN {VMof(e)} ELSE {} IN
    /\ ex[e].pc = "destroy"
    /\ vms' = vms \ gone /\ on' = on \ gone
    /\ Done(e)
    /\ flunked' = flunked \ {e}
    /\ UNCHANGED <<req, ap, intact, staging, imports, tainted, booted, faults>>

(* helper.destroy, then the verdict: a test that passed leaves the status  *)
(* the import wrote.                                                       *)
Destroy(e, ok) ==
    LET gone == IF AutoCleanup /\ ok THEN {VMof(e)} ELSE {} IN
    /\ ex[e].pc = "destroy"
    /\ vms' = vms \ gone /\ on' = on \ gone
    /\ IF e \notin flunked /\ (AutoCleanup => ok)
         THEN Done(e) ELSE Goto(e, "testfail")
    /\ flunked' = flunked \ {e}
    /\ UNCHANGED <<req, ap, intact, staging, imports, tainted, booted, faults>>

TestFailed(e) ==
    /\ ex[e].pc = "testfail"
    /\ SetStatus(e, "failed")
    /\ Done(e)
    /\ UNCHANGED <<ap, intact, flunked, staging, target, faults>>

(* The database fails as the outcome is recorded, in the except clause of  *)
(* the execution or after the recovery test.                               *)
OutcomeLost(e) ==
    /\ ex[e].pc \in {"fail", "testfail"}
    /\ IF ex[e].pc = "fail" THEN Escapes(e) ELSE Done(e)
    /\ abandoned' = abandoned \cup {ex[e].req}
    /\ UNCHANGED <<req, ap, intact, flunked, staging, target, raced, crashes>>

(* The portal or the CLI process dies; its VM and its directory stay. *)
Crash(e) ==
    /\ ex[e].pc # "idle" /\ crashes < MaxCrashes
    /\ crashes' = crashes + 1
    /\ abandoned' = abandoned \cup {ex[e].req}
    /\ intact' = intact \ {e} /\ flunked' = flunked \ {e}
    /\ Done(e)
    /\ UNCHANGED <<req, ap, staging, target, raced>>

-----------------------------------------------------------------------------
RequestStep ==
    \/ \E r \in Requests, u \in Requesters, k \in Kinds : Submit(r, u, k)
    \/ \E a \in Approvers :
         \/ \E r \in Requests, u \in Users : ReadForApproval(a, r, u)
         \/ WriteApproval(a)

(* The steps of an execution that has begun. *)
ExecutionStep(e) ==
    \/ PreflightFails(e) \/ ReadForStart(e) \/ WipeStaging(e)
    \/ \E tree \in Trees : Restored(e, tree)
    \/ VerifyManifest(e) \/ Import(e) \/ FinishSuccess(e) \/ Cleanup(e)
    \/ Raise(e) \/ FinishFailed(e) \/ TestFailed(e) \/ OutcomeLost(e)
    \/ \E ok \in BOOLEAN : WriteStart(e, ok) \/ Discard(e, ok) \/ Destroy(e, ok)
    \/ \E s, ok \in BOOLEAN :
         PowerOnIsolated(e, s, ok) \/ BootCheck(e, s, ok) \/ PowerOff(e, s, ok)

Next ==
    \/ RequestStep
    \/ \E e \in Executors :
         \/ \E r \in Requests : Begin(e, r)
         \/ ExecutionStep(e) \/ Crash(e)

Spec == Init /\ [][Next]_vars

(* A thread the server started runs to its end unless the process dies;    *)
(* nobody need submit, approve or execute anything.                        *)
FairSpec == Spec /\ \A e \in Executors : WF_vars(ExecutionStep(e))

-----------------------------------------------------------------------------
(* Properties. *)

VMsOf(r) == {v \in vms : v[1] = r}

(* Under the four-eyes policy, whatever threads approve and execute at the *)
(* same time, a request other than a DR run's is executed, or has made a   *)
(* VM, only with the approval of somebody other than its requester         *)
(* (approve_restore, start_restore).                                       *)
SecondPerson(r) == req[r].approvedBy \notin {Nil, req[r].requester}
FourEyesHeld ==
    \A r \in Requests :
      FourEyes /\ req[r].kind # "dr_run"
        /\ (req[r].status \in {"approved", "running", "success"}
              \/ imports[r] > 0)
      => SecondPerson(r)

(* The inductive invariant behind it: a thread between the read and the    *)
(* write of approve_restore or start_restore carries the approval with it. *)
ApprovalInv ==
    FourEyes =>
      /\ \A r \in Requests :
           req[r].kind # "dr_run" => req[r].status # "ready"
      /\ \A a \in Approvers : ap[a].pc = "write" =>
           /\ req[ap[a].req].status # "absent"
           /\ ap[a].user \notin {Nil, req[ap[a].req].requester}
      /\ \A e \in Executors : ex[e].pc # "idle" =>
           req[ex[e].req].status # "absent"
      /\ \A e \in Executors : ex[e].pc \in {"start"} \cup RunPcs =>
           req[ex[e].req].kind = "dr_run" \/ SecondPerson(ex[e].req)
      /\ \A r \in Requests : req[r].status = "absent" => imports[r] = 0
FourEyesInv == FourEyesHeld /\ ApprovalInv

(* A request shown as running has an execution that has yet to write its   *)
(* outcome, unless its execution ended unrecorded: its process died, or    *)
(* the database failed it between the commit of start_restore and the try, *)
(* or in the except clause (start_restore, finish_restore).                *)
OwesOutcome(e) == ex[e].pc \in RunPcs \ {"cleanup"}
RunningHasExecutor ==
    \A r \in Requests \ abandoned : req[r].status = "running" =>
      \E e \in Executors : OwesOutcome(e) /\ ex[e].req = r

(* A tree is imported only if all its files have the size, and all its     *)
(* small files the hash, they were backed up with: a restore that stopped  *)
(* half way or lost a file makes no VM, unless two threads worked on the   *)
(* request at once and shared its directory (execute_restore). A disk of   *)
(* the right size with other contents is not caught.                       *)
ImportedVerified == tainted \subseteq raced

(* One request makes at most one VM, whatever fails on the way, unless two *)
(* threads executed it at once or a late approval opened it again.         *)
ImportOnce == \A r \in Requests \ raced : imports[r] <= 1

(* A settled plain restore that reports success has its VM; a recovery     *)
(* test that reports success made a VM that passed its boot validation,    *)
(* and that is gone if it is to be cleaned up, unless the execution ended  *)
(* unrecorded or two threads worked on it (ManagedRecoveryEngine).         *)
OutcomeTruthful ==
    \A r \in Requests :
      req[r].status = "success" /\ Working(r) = {} =>
        IF req[r].kind # "dr_test" THEN VMsOf(r) # {}
        ELSE r \notin raced \cup abandoned =>
               r \in booted /\ (AutoCleanup => VMsOf(r) = {})

(* What README.md says: "A failed power-off ... is a failed DR test", so   *)
(* the VM of a test that reports success is off. It does not hold: no      *)
(* adapter looks at the exit status of the power-off, so a VM that         *)
(* dr_test_auto_cleanup does not destroy may run on, on its isolated       *)
(* network. No run checks it.                                              *)
PassedTestIsOff ==
    \A r \in Requests :
      /\ req[r].kind = "dr_test" /\ req[r].status = "success"
      /\ Working(r) = {} /\ r \notin raced \cup abandoned
      => VMsOf(r) \cap on = {}

(* A running restore is settled as success or failed, or approved again by *)
(* a late approver, unless its execution ended unrecorded; then nothing    *)
(* ever settles it.                                                        *)
RestoreSettles ==
    \A r \in Requests :
      []<>(req[r].status # "running" \/ r \in abandoned)
=============================================================================
