----------------------- MODULE RestoreWorkflowProofs -----------------------
(***************************************************************************)
(* Proofs about RestoreWorkflow: type correctness, that the four-eyes      *)
(* policy holds for any number of concurrent approvers and executors, that *)
(* a running request has an executor, and that what a request and a        *)
(* recovery test report is what was imported, verified and cleaned up.     *)
(***************************************************************************)
EXTENDS RestoreWorkflow, TLAPS

USE DEF target, faults, Trees

(* The initial state is well typed. *)
LEMMA InitType == Init => TypeOK
  BY RestoreAssumption
  DEF Init, TypeOK, NoRequest, IdleApproval, IdleExecution, Request, Statuses,
      Approval, Execution, ExecPcs, Kinds

(* An update of a row's status, and of its approver, is a row. *)
LEMMA RowUpdate ==
  ASSUME NEW q \in Request, NEW s \in Statuses, NEW u \in Users \cup {Nil}
  PROVE  /\ [q EXCEPT !.status = s] \in Request
         /\ [q EXCEPT !.status = s, !.approvedBy = u] \in Request
  BY DEF Request

(* The executors' part of the type. *)
ExecOK ==
    /\ ex \in [Executors -> Execution]
    /\ \A e \in Executors : ex[e].pc # "idle" => ex[e].req \in Requests

(* A step of an execution keeps the executors' records well typed. *)
LEMMA ExecType ==
  ASSUME TypeOK, NEW e \in Executors, ExecutionStep(e) \/ Crash(e)
  PROVE  ExecOK'
<1> USE DEF TypeOK, ExecOK, Execution, ExecPcs, RunPcs, TryPcs, TestPcs
<1>1. CASE PreflightFails(e) \/ ReadForStart(e)
  BY <1>1 DEF PreflightFails, ReadForStart, Escapes, Goto, Done, IdleExecution
<1>2. CASE (\E tree \in Trees : Restored(e, tree)) \/ VerifyManifest(e)
             \/ (\E ok \in BOOLEAN : WriteStart(e, ok))
  BY <1>2 DEF WriteStart, Restored, VerifyManifest, Escapes, Goto, Done,
              IdleExecution
<1>3. CASE WipeStaging(e) \/ Cleanup(e) \/ (\E ok \in BOOLEAN : Discard(e, ok))
  BY <1>3 DEF WipeStaging, Cleanup, Discard, Escapes, Goto, Done, IdleExecution
<1>4. CASE Import(e)
  <2>1. imports[ex[e].req] + 1 \in Nat
    BY <1>4 DEF Import
  <2>2. ex' = [ex EXCEPT ![e] = [ex[e] EXCEPT !.pc = "finish",
                                              !.vm = imports[ex[e].req] + 1]]
    BY <1>4 DEF Import
  <2>3. [ex[e] EXCEPT !.pc = "finish", !.vm = imports[ex[e].req] + 1]
          \in Execution
    BY <2>1
  <2> QED
    BY <1>4, <2>2, <2>3 DEF Import
<1>5. CASE FinishSuccess(e) \/ FinishFailed(e) \/ Raise(e)
  BY <1>5 DEF FinishSuccess, FinishFailed, Raise, Goto
<1>6. ASSUME NEW s \in BOOLEAN, NEW ok \in BOOLEAN,
             \/ PowerOnIsolated(e, s, ok) \/ BootCheck(e, s, ok)
             \/ PowerOff(e, s, ok)
      PROVE  ExecOK'
  BY <1>6 DEF PowerOnIsolated, BootCheck, PowerOff, Goto
<1>7. ASSUME NEW ok \in BOOLEAN, Destroy(e, ok)
      PROVE  ExecOK'
  BY <1>7 DEF Destroy, Goto, Done, IdleExecution
<1>8. CASE TestFailed(e) \/ OutcomeLost(e) \/ Crash(e)
  BY <1>8 DEF TestFailed, OutcomeLost, Crash, Escapes, Goto, Done,
              IdleExecution
<1> HIDE DEF ExecOK
<1> QED
  BY <1>1, <1>2, <1>3, <1>4, <1>5, <1>6, <1>7, <1>8 DEF ExecutionStep

(* What a step of an execution may do to the other threads and the tables. *)
Effect(e) ==
    LET r == ex[e].req IN
    /\ r \in Requests /\ ap' = ap
    /\ \A x \in Executors \ {e} : ex'[x] = ex[x]
    /\ ex'[e].pc # "idle" => ex'[e].req = r /\ ex[e].pc # "idle"
    /\ ex'[e].pc = "start" => req[r].status \in {"approved", "ready"}
    /\ ex'[e].pc \in RunPcs => ex[e].pc \in {"start"} \cup RunPcs
    /\ \/ req' = req
       \/ /\ ex[e].pc = "start" /\ (ex'[e].pc = "wipe" \/ r \in abandoned')
          /\ req' = [req EXCEPT ![r].status = "running"]
       \/ /\ ex[e].pc = "finish"
          /\ req' = [req EXCEPT ![r].status = "success"]
       \/ req' = [req EXCEPT ![r].status = "failed"]
    /\ \/ ~OwesOutcome(e) \/ OwesOutcome(e)' \/ r \in abandoned'
       \/ req'[r].status # "running"
    /\ \A q \in Requests : q \in abandoned /\ q \notin abandoned' =>
         q = r /\ ex'[e].pc = "wipe"
    /\ \/ imports' = imports
       \/ ex[e].pc = "import" /\ imports' = [imports EXCEPT ![r] = @ + 1]

(* Every step of an execution has that effect. *)
LEMMA ExecEffect ==
  ASSUME TypeOK, NEW e \in Executors, ExecutionStep(e) \/ Crash(e)
  PROVE  Effect(e)
<1> USE DEF TypeOK, Effect, Execution, RunPcs, TryPcs, SetStatus, OwesOutcome
<1>1. CASE PreflightFails(e) \/ ReadForStart(e)
  BY <1>1 DEF PreflightFails, ReadForStart, Escapes, Goto, Done, IdleExecution
<1>2. CASE (\E tree \in Trees : Restored(e, tree)) \/ VerifyManifest(e)
             \/ (\E ok \in BOOLEAN : WriteStart(e, ok))
  BY <1>2 DEF WriteStart, Restored, VerifyManifest, Escapes, Goto, Done,
              IdleExecution
<1>3. CASE WipeStaging(e) \/ Cleanup(e) \/ (\E ok \in BOOLEAN : Discard(e, ok))
  BY <1>3 DEF WipeStaging, Cleanup, Discard, Escapes, Goto, Done, IdleExecution
<1>4. CASE Import(e)
  BY <1>4 DEF Import
<1>5. CASE FinishSuccess(e) \/ FinishFailed(e) \/ Raise(e)
  <2>2. CASE FinishSuccess(e) \/ FinishFailed(e)
    <3>1. \E s \in {"success", "failed"} :
            req' = [req EXCEPT ![ex[e].req].status = s]
      BY <2>2 DEF FinishSuccess, FinishFailed
    <3>2. req'[ex[e].req].status # "running"
      BY <2>2, <3>1 DEF FinishSuccess, FinishFailed, Request
    <3> QED
      BY <2>2, <3>2 DEF FinishSuccess, FinishFailed, Goto
  <2>3. CASE Raise(e)
    BY <2>3 DEF Raise, Goto
  <2> QED
    BY <1>5, <2>2, <2>3
<1>6. ASSUME NEW s \in BOOLEAN, NEW ok \in BOOLEAN,
             \/ PowerOnIsolated(e, s, ok) \/ BootCheck(e, s, ok)
             \/ PowerOff(e, s, ok)
      PROVE  Effect(e)
  BY <1>6 DEF PowerOnIsolated, BootCheck, PowerOff, Goto
<1>7. ASSUME NEW ok \in BOOLEAN, Destroy(e, ok)
      PROVE  Effect(e)
  BY <1>7 DEF Destroy, Goto, Done, IdleExecution
<1>8. CASE TestFailed(e) \/ OutcomeLost(e) \/ Crash(e)
  BY <1>8 DEF TestFailed, OutcomeLost, Crash, Escapes, Goto, Done,
              IdleExecution
<1> HIDE DEF Effect
<1> QED
  BY <1>1, <1>2, <1>3, <1>4, <1>5, <1>6, <1>7, <1>8 DEF ExecutionStep

(* A step of an execution keeps the stores and the target well typed. *)
LEMMA ExecStores ==
  ASSUME TypeOK, NEW e \in Executors, ExecutionStep(e) \/ Crash(e)
  PROVE  /\ staging' \in [Requests -> {"absent"} \cup Trees]
         /\ intact' \subseteq Executors /\ flunked' \subseteq Executors
         /\ tainted' \subseteq Requests /\ booted' \subseteq Requests
         /\ raced' \subseteq Requests /\ abandoned' \subseteq Requests
         /\ crashes' \in Nat
         /\ vms' \subseteq Requests \X Nat /\ on' \subseteq Requests \X Nat
<1> USE DEF TypeOK
<1>0. /\ ex[e].pc # "idle" => ex[e].req \in Requests
      /\ ex[e].vm \in Nat
  BY DEF Execution
<1>1. CASE PreflightFails(e) \/ ReadForStart(e) \/ VerifyManifest(e)
             \/ FinishSuccess(e) \/ FinishFailed(e) \/ Raise(e)
             \/ TestFailed(e) \/ OutcomeLost(e)
             \/ (\E ok \in BOOLEAN : WriteStart(e, ok))
  BY <1>0, <1>1
  DEF PreflightFails, ReadForStart, WriteStart, VerifyManifest, FinishSuccess,
      FinishFailed, Raise, TestFailed, OutcomeLost
<1>2. CASE WipeStaging(e) \/ (\E tree \in Trees : Restored(e, tree))
             \/ Cleanup(e) \/ (\E ok \in BOOLEAN : Discard(e, ok))
  BY <1>2 DEF WipeStaging, Restored, Cleanup, Discard, Filling
<1>3. CASE Import(e)
  BY <1>0, <1>3 DEF Import
<1>4. ASSUME NEW s \in BOOLEAN, NEW ok \in BOOLEAN,
             \/ PowerOnIsolated(e, s, ok) \/ BootCheck(e, s, ok)
             \/ PowerOff(e, s, ok)
      PROVE  /\ on' \subseteq Requests \X Nat /\ booted' \subseteq Requests
             /\ flunked' \subseteq Executors
             /\ UNCHANGED <<intact, staging, vms, tainted, raced, abandoned,
                            crashes>>
  BY <1>0, <1>4 DEF PowerOnIsolated, BootCheck, PowerOff, VMof, Flunk
<1>5. ASSUME NEW ok \in BOOLEAN, Destroy(e, ok)
      PROVE  /\ vms' \subseteq vms /\ on' \subseteq on
             /\ flunked' \subseteq Executors
             /\ UNCHANGED <<intact, staging, tainted, booted, raced, abandoned,
                            crashes>>
  BY <1>5 DEF Destroy
<1>6. CASE Crash(e)
  BY <1>0, <1>6 DEF Crash
<1> QED
  BY <1>1, <1>2, <1>3, <1>4, <1>5, <1>6 DEF ExecutionStep

(* Requests, approvals and new executions keep the state well typed. *)
LEMMA RequestType ==
  ASSUME TypeOK,
         RequestStep \/ \E e \in Executors, r \in Requests : Begin(e, r)
  PROVE  TypeOK'
<1> USE RestoreAssumption DEF TypeOK
<1>1. ASSUME NEW r \in Requests, NEW u \in Requesters, NEW k \in Kinds,
             Submit(r, u, k)
      PROVE  TypeOK'
  BY <1>1 DEF Submit, Request, Statuses, InitialStatus
<1>2. ASSUME NEW a \in Approvers, NEW r \in Requests, NEW u \in Users,
             ReadForApproval(a, r, u)
      PROVE  TypeOK'
  BY <1>2 DEF ReadForApproval, Approval
<1>3. ASSUME NEW a \in Approvers, WriteApproval(a)
      PROVE  TypeOK'
  <2> DEFINE r == ap[a].req
             new == [req[r] EXCEPT !.status = "approved",
                                   !.approvedBy = ap[a].user]
  <2>1. r \in Requests /\ ap[a].user \in Users \cup {Nil}
    BY <1>3 DEF WriteApproval, Approval
  <2>2. new \in Request
    BY <2>1, RowUpdate, req[r] \in Request DEF Statuses
  <2>3. req' = [req EXCEPT ![r] = new]
    BY <1>3 DEF WriteApproval
  <2> QED
    BY <1>3, <2>1, <2>2, <2>3 DEF WriteApproval, Approval, IdleApproval
<1>4. ASSUME NEW e \in Executors, NEW r \in Requests, Begin(e, r)
      PROVE  TypeOK'
  BY <1>4 DEF Begin, Execution, ExecPcs, IdleExecution
<1> QED
  BY <1>1, <1>2, <1>3, <1>4 DEF RequestStep

(* Every step keeps the state well typed. *)
LEMMA NextType == TypeOK /\ [Next]_vars => TypeOK'
<1> SUFFICES ASSUME TypeOK, [Next]_vars PROVE TypeOK'
  OBVIOUS
<1>1. ASSUME NEW e \in Executors, ExecutionStep(e) \/ Crash(e)
      PROVE  TypeOK'
  <2>1. Effect(e) /\ ExecOK'
    BY <1>1, ExecEffect, ExecType
  <2>2. req' \in [Requests -> Request]
    <3>1. \A s \in Statuses :
            [req EXCEPT ![ex[e].req].status = s] \in [Requests -> Request]
      BY <2>1, RowUpdate DEF Effect, TypeOK
    <3> QED
      BY <2>1, <3>1 DEF Effect, TypeOK, Statuses
  <2>3. imports' \in [Requests -> Nat] /\ ap' = ap
    BY <2>1 DEF Effect, TypeOK
  <2> QED
    BY <1>1, <2>1, <2>2, <2>3, ExecStores DEF ExecOK, TypeOK
<1>2. CASE UNCHANGED vars
  BY <1>2 DEF vars, TypeOK
<1> QED
  BY <1>1, <1>2, RequestType DEF Next

(* In every reachable state the tables, the threads and the staging        *)
(* directories are well typed, and a thread at work has a request.         *)
THEOREM TypeCorrect == Spec => []TypeOK
  BY InitType, NextType, PTL DEF Spec

-----------------------------------------------------------------------------
(* The initial state satisfies the invariants of the approval. *)
LEMMA InitFourEyes == Init => FourEyesInv /\ RunningHasExecutor
  BY DEF Init, FourEyesInv, FourEyesHeld, ApprovalInv, RunningHasExecutor,
         NoRequest, IdleApproval, IdleExecution, RunPcs, TryPcs

(* A step of an execution keeps the four-eyes invariant: what it writes it *)
(* was allowed to write when it read the row.                              *)
LEMMA ExecFourEyes ==
  ASSUME TypeOK, FourEyesInv, NEW e \in Executors,
         ExecutionStep(e) \/ Crash(e)
  PROVE  FourEyesInv'
<1> DEFINE r == ex[e].req
<1>1. Effect(e) /\ TypeOK' /\ r \in Requests
  BY ExecEffect, NextType DEF Next, Effect
<1>2. \A q \in Requests :
        /\ req'[q].kind = req[q].kind
        /\ req'[q].requester = req[q].requester
        /\ req'[q].approvedBy = req[q].approvedBy
        /\ req'[q].status = "ready" => req[q].status = "ready"
        /\ req'[q].status = "absent" => req[q].status = "absent"
  BY <1>1 DEF Effect, TypeOK, Request
<1>3. \A q \in Requests : SecondPerson(q)' <=> SecondPerson(q)
  BY <1>2 DEF SecondPerson
<1>4. FourEyesHeld'
  BY <1>1, <1>2, <1>3, SMTT(30)
  DEF Effect, FourEyesInv, FourEyesHeld, ApprovalInv, TypeOK, Request, RunPcs,
      TryPcs
<1>5. ASSUME FourEyes, NEW x \in Executors, ex'[x].pc # "idle"
      PROVE  /\ req'[ex'[x].req].status # "absent"
             /\ ex'[x].pc \in {"start"} \cup RunPcs =>
                  \/ req'[ex'[x].req].kind = "dr_run"
                  \/ req'[ex'[x].req].approvedBy
                       \notin {Nil, req'[ex'[x].req].requester}
  <2>1. /\ ex[x].pc # "idle" /\ ex'[x].req = ex[x].req
        /\ ex[x].req \in Requests
    BY <1>1, <1>5 DEF Effect, TypeOK
  <2>2. req'[ex'[x].req].status # "absent"
    BY <1>2, <1>5, <2>1 DEF FourEyesInv, ApprovalInv
  <2>3. ASSUME ex'[x].pc \in {"start"} \cup RunPcs
        PROVE  req[ex[x].req].kind = "dr_run" \/ SecondPerson(ex[x].req)
    <3>1. CASE ex[x].pc \in {"start"} \cup RunPcs
      BY <1>5, <3>1 DEF FourEyesInv, ApprovalInv
    <3>2. CASE x = e /\ ex'[e].pc = "start"
      BY <1>1, <1>5, <3>2
      DEF Effect, FourEyesInv, FourEyesHeld, ApprovalInv
    <3> QED
      BY <1>1, <2>3, <3>1, <3>2 DEF Effect
  <2> QED
    BY <1>2, <2>1, <2>2, <2>3 DEF SecondPerson
<1>6. ApprovalInv'
  <2>0. ap' = ap
    BY <1>1 DEF Effect
  <2>1. FourEyes => \A q \in Requests :
          req'[q].status = "absent" => imports'[q] = 0
    BY <1>1, <1>2 DEF Effect, FourEyesInv, ApprovalInv, TypeOK
  <2>2. ASSUME FourEyes, NEW a \in Approvers, ap[a].pc = "write"
        PROVE  /\ req'[ap[a].req].status # "absent"
               /\ ap[a].user \notin {Nil, req'[ap[a].req].requester}
    BY <1>2, <2>2 DEF FourEyesInv, ApprovalInv, TypeOK
  <2> QED
    BY <1>2, <1>5, <2>0, <2>1, <2>2
    DEF FourEyesInv, ApprovalInv, SecondPerson, RunPcs, TryPcs
<1> QED
  BY <1>4, <1>6 DEF FourEyesInv

(* Requests, approvals and new executions keep it: the approver was        *)
(* compared with the requester, who never changes.                         *)
LEMMA RequestFourEyes ==
  ASSUME TypeOK, FourEyesInv,
         RequestStep \/ \E e \in Executors, r \in Requests : Begin(e, r)
  PROVE  FourEyesInv'
<1> USE RestoreAssumption
    DEF TypeOK, FourEyesInv, FourEyesHeld, ApprovalInv, SecondPerson
<1>1. ASSUME NEW r \in Requests, NEW u \in Requesters, NEW k \in Kinds,
             Submit(r, u, k)
      PROVE  FourEyesInv'
  BY <1>1 DEF Submit, InitialStatus, Request, RunPcs, TryPcs
<1>2. ASSUME NEW a \in Approvers, NEW r \in Requests, NEW u \in Users,
             ReadForApproval(a, r, u)
      PROVE  FourEyesInv'
  BY <1>2 DEF ReadForApproval
<1>3. ASSUME NEW a \in Approvers, WriteApproval(a)
      PROVE  FourEyesInv'
  <2> DEFINE r == ap[a].req
             row == [req[r] EXCEPT !.status = "approved",
                                   !.approvedBy = ap[a].user]
  <2>1. /\ ap[a].pc = "write" /\ r \in Requests
        /\ req' = [req EXCEPT ![r] = row]
        /\ ap' = [ap EXCEPT ![a] = IdleApproval]
        /\ UNCHANGED <<ex, imports>>
    BY <1>3 DEF WriteApproval, Request, target
  <2>2. /\ row.status = "approved" /\ row.approvedBy = ap[a].user
        /\ row.requester = req[r].requester /\ row.kind = req[r].kind
    BY <2>1 DEF Request
  <2>3. FourEyes => ap[a].user \notin {Nil, req[r].requester}
    BY <2>1
  <2> HIDE DEF row, r
  <2>4. /\ \A x \in Requests : x # r => req'[x] = req[x]
        /\ req'[r] = row
    BY <2>1
  <2>5. FourEyesHeld'
    BY <2>1, <2>2, <2>3, <2>4
  <2>6. ApprovalInv'
    BY <2>1, <2>2, <2>3, <2>4 DEF IdleApproval, RunPcs, TryPcs
  <2> QED
    BY <2>5, <2>6
<1>4. ASSUME NEW e \in Executors, NEW r \in Requests, Begin(e, r)
      PROVE  FourEyesInv'
  <2>1. /\ req[r].status # "absent"
        /\ \A x \in Executors : x # e => ex'[x] = ex[x]
        /\ ex'[e].pc = "plan" /\ ex'[e].req = r
        /\ UNCHANGED <<req, ap, imports>>
    BY <1>4 DEF Begin, IdleExecution, target
  <2>2. FourEyesHeld'
    BY <2>1
  <2>3. ApprovalInv'
    BY <2>1 DEF RunPcs, TryPcs
  <2> QED
    BY <2>2, <2>3
<1> HIDE DEF FourEyesInv
<1> QED
  BY <1>1, <1>2, <1>3, <1>4 DEF RequestStep

(* Every step keeps the four-eyes invariant. *)
LEMMA NextFourEyes == TypeOK /\ FourEyesInv /\ [Next]_vars => FourEyesInv'
<1> SUFFICES ASSUME TypeOK, FourEyesInv, [Next]_vars PROVE FourEyesInv'
  OBVIOUS
<1>1. CASE UNCHANGED vars
  BY <1>1 DEF vars, FourEyesInv, FourEyesHeld, ApprovalInv, SecondPerson
<1> QED
  BY <1>1, ExecFourEyes, RequestFourEyes DEF Next

(* Every step keeps an executor behind each running request. *)
LEMMA NextRunning ==
  TypeOK /\ RunningHasExecutor /\ [Next]_vars => RunningHasExecutor'
<1> SUFFICES ASSUME TypeOK, RunningHasExecutor, [Next]_vars
             PROVE  RunningHasExecutor'
  OBVIOUS
<1>1. ASSUME NEW e \in Executors, ExecutionStep(e) \/ Crash(e)
      PROVE  RunningHasExecutor'
  <2> SUFFICES ASSUME NEW q \in Requests, req'[q].status = "running",
                      q \notin abandoned'
               PROVE  \E x \in Executors : OwesOutcome(x)' /\ ex'[x].req = q
    BY DEF RunningHasExecutor
  <2>1. Effect(e)
    BY <1>1, ExecEffect
  <2>2. CASE req[q].status = "running" /\ q \notin abandoned
    <3>1. PICK x \in Executors : OwesOutcome(x) /\ ex[x].req = q
      BY <2>1, <2>2 DEF RunningHasExecutor, Effect
    <3>2. OwesOutcome(x)' /\ ex'[x].req = q
      BY <2>1, <3>1 DEF Effect, OwesOutcome, RunPcs, TryPcs
    <3> QED
      BY <3>2
  <2>3. CASE ~(req[q].status = "running" /\ q \notin abandoned)
    <3>1. ex[e].req = q /\ ex'[e].pc = "wipe"
      BY <2>1, <2>3 DEF Effect, TypeOK, Request
    <3> QED
      BY <2>1, <3>1 DEF Effect, OwesOutcome, RunPcs, TryPcs
  <2> QED
    BY <2>2, <2>3
<1>2. CASE RequestStep
  <2>1. \A q \in Requests : req'[q].status = "running" =>
          req[q].status = "running"
    <3>1. ASSUME NEW r \in Requests, NEW u \in Requesters, NEW k \in Kinds,
                 Submit(r, u, k), NEW q \in Requests,
                 req'[q].status = "running"
          PROVE  req[q].status = "running"
      BY <3>1 DEF Submit, InitialStatus, TypeOK
    <3>2. ASSUME NEW a \in Approvers, WriteApproval(a), NEW q \in Requests,
                 req'[q].status = "running"
          PROVE  req[q].status = "running"
      BY <3>2 DEF WriteApproval, TypeOK, Request
    <3> QED
      BY <1>2, <3>1, <3>2 DEF RequestStep, ReadForApproval
  <2>2. ex' = ex /\ abandoned' = abandoned
    BY <1>2 DEF RequestStep, Submit, ReadForApproval, WriteApproval
  <2> QED
    BY <2>1, <2>2 DEF RunningHasExecutor, OwesOutcome
<1>3. ASSUME NEW e \in Executors, NEW r \in Requests, Begin(e, r)
      PROVE  RunningHasExecutor'
  BY <1>3 DEF Begin, RunningHasExecutor, OwesOutcome, RunPcs, TryPcs, TypeOK
<1>4. CASE UNCHANGED vars
  BY <1>4 DEF vars, RunningHasExecutor, OwesOutcome
<1> QED
  BY <1>1, <1>2, <1>3, <1>4 DEF Next

(* For any number of users, approving and executing threads and crashes,   *)
(* no request but a DR run's is executed or makes a VM without the         *)
(* approval of somebody other than its requester.                          *)
THEOREM FourEyesCorrect == Spec => []FourEyesHeld
<1>1. Spec => []FourEyesInv
  BY InitFourEyes, NextFourEyes, TypeCorrect, PTL DEF Spec
<1>2. FourEyesInv => FourEyesHeld
  BY DEF FourEyesInv
<1> QED
  BY <1>1, <1>2, PTL

(* For any number of threads and crashes, a running request has an         *)
(* execution that has yet to write its outcome, unless its execution ended *)
(* unrecorded: a process died, or the database failed outside the try.     *)
THEOREM RunningCorrect == Spec => []RunningHasExecutor
  BY InitFourEyes, NextRunning, TypeCorrect, PTL DEF Spec

-----------------------------------------------------------------------------
(* What an execution has reached. *)
Open == {"absent", "pending_approval", "approved", "ready"}
Before == {"wipe", "restore", "check", "import"}
After == {"cleanup"} \cup TestPcs

(* VMs and executions carry numbers the request has already given out. *)
VmNumbers ==
    /\ \A v \in vms : v[2] \in 1..imports[v[1]]
    /\ \A e \in Executors : ex[e].pc # "idle" => ex[e].vm <= imports[ex[e].req]

(* Only a submitted request is executed, only a recovery test is tested. *)
WorkInv ==
    \A e \in Executors : ex[e].pc # "idle" =>
      /\ req[ex[e].req].status # "absent"
      /\ ex[e].pc \in TestPcs => IsTest(e)

(* A request other than a recovery test keeps every VM it made. *)
KeptInv ==
    \A r \in Requests :
      req[r].kind # "dr_test"
        /\ (req[r].status = "success"
              \/ \E e \in Working(r) : ex[e].pc = "finish")
      => VMsOf(r) # {}

(* What the only execution of a request knows of it at each step. *)
SolePhase(e) ==
    LET r == ex[e].req  pc == ex[e].pc IN
    /\ pc = "start" => req[r].status \in {"approved", "ready"}
    /\ pc \in Before => req[r].status = "running" /\ imports[r] = 0
    /\ pc = "import" => staging[r] \in Whole
    /\ pc = "finish" => req[r].status = "running"
    /\ pc \in After => req[r].status = "success"
    /\ pc \in {"finish"} \cup After => imports[r] = 1 /\ ex[e].vm = 1
    /\ pc \in {"off", "destroy"} /\ e \notin flunked => r \in booted

SoleRow(r) ==
    /\ imports[r] <= 1 /\ (req[r].status \in Open => imports[r] = 0)
    /\ r \notin tainted

(* What a recovery test that succeeded leaves. *)
TestClean(r) ==
    /\ req[r].kind = "dr_test" /\ req[r].status = "success"
    /\ r \notin abandoned
    => r \in booted /\ (AutoCleanup => VMsOf(r) = {})

(* A request no two threads worked on at once. *)
SoleInv ==
    \A r \in Requests \ raced :
      /\ \A e, f \in Working(r) : e = f
      /\ SoleRow(r)
      /\ \A e \in Working(r) : SolePhase(e)
      /\ Working(r) = {} => TestClean(r)

ImportInv == VmNumbers /\ WorkInv /\ KeptInv /\ SoleInv

(* What a step of an execution leaves alone: the other threads, the other  *)
(* requests and their VMs.                                                 *)
Others(e) ==
    LET r == ex[e].req IN
    /\ r \in Requests /\ ex[e].pc # "idle" /\ raced' = raced
    /\ \A x \in Executors \ {e} :
         ex'[x] = ex[x] /\ (x \in flunked' <=> x \in flunked)
    /\ \A q \in Requests \ {r} :
         /\ req'[q] = req[q] /\ staging'[q] = staging[q]
         /\ imports'[q] = imports[q] /\ (q \in tainted' <=> q \in tainted)
         /\ (q \in booted' <=> q \in booted)
         /\ (q \in abandoned' <=> q \in abandoned)
    /\ \A q \in Requests \ {r}, n \in Nat :
         <<q, n>> \in vms' <=> <<q, n>> \in vms
    /\ req'[r].kind = req[r].kind
    /\ req'[r].status = "absent" => req[r].status = "absent"
    /\ ex'[e].pc # "idle" => ex'[e].req = r

(* A write of a status changes nothing else of any row. *)
LEMMA StatusWrite ==
  ASSUME TypeOK, NEW e \in Executors, NEW s \in Statuses,
         ex[e].req \in Requests, SetStatus(e, s)
  PROVE  /\ \A q \in Requests \ {ex[e].req} : req'[q] = req[q]
         /\ req'[ex[e].req].status = s
         /\ req'[ex[e].req].kind = req[ex[e].req].kind
  BY DEF TypeOK, Request, SetStatus

(* A step to another statement, or out of the function. *)
LEMMA ThreadStep ==
  ASSUME TypeOK, NEW e \in Executors, ex[e].pc # "idle"
  PROVE  /\ \A pc \in ExecPcs : Goto(e, pc) =>
              /\ \A x \in Executors \ {e} : ex'[x] = ex[x]
              /\ ex'[e].pc = pc /\ ex'[e].req = ex[e].req
              /\ ex'[e].vm = ex[e].vm
         /\ Done(e) =>
              /\ \A x \in Executors \ {e} : ex'[x] = ex[x]
              /\ ex'[e].pc = "idle" /\ ex'[e].req = Nil
  BY DEF TypeOK, Execution, Goto, Done, IdleExecution

(* Every step of an execution leaves them alone. *)
LEMMA ExecOthers ==
  ASSUME TypeOK, NEW e \in Executors, ExecutionStep(e) \/ Crash(e)
  PROVE  Others(e)
<1> USE DEF TypeOK, Others, Execution
<1>0. ex[e].pc # "idle" /\ ex[e].req \in Requests
  <2>1. ex[e].pc # "idle"
    BY DEF ExecutionStep, PreflightFails, ReadForStart, WriteStart,
           WipeStaging, Restored, VerifyManifest, Import, FinishSuccess,
           Cleanup, Raise, FinishFailed, OutcomeLost, Discard,
           PowerOnIsolated, BootCheck, PowerOff, Destroy, TestFailed, Crash,
           TryPcs
  <2> QED
    BY <2>1
<1> USE <1>0
<1>1. CASE PreflightFails(e) \/ ReadForStart(e) \/ VerifyManifest(e)
             \/ Raise(e) \/ OutcomeLost(e) \/ Crash(e)
  BY <1>1 DEF PreflightFails, ReadForStart, VerifyManifest, Raise, OutcomeLost,
              Crash, Escapes, Goto, Done, IdleExecution
<1>2. CASE WipeStaging(e) \/ (\E tree \in Trees : Restored(e, tree))
             \/ Cleanup(e) \/ (\E ok \in BOOLEAN : Discard(e, ok))
  BY <1>2 DEF WipeStaging, Restored, Cleanup, Discard, Escapes, Goto, Done,
              IdleExecution
<1>3. CASE Import(e)
  BY <1>3 DEF Import
<1>4. CASE (\E ok \in BOOLEAN : WriteStart(e, ok)) \/ FinishSuccess(e)
             \/ FinishFailed(e) \/ TestFailed(e)
  <2>1. PICK s \in {"running", "success", "failed"} : SetStatus(e, s)
    BY <1>4 DEF WriteStart, FinishSuccess, FinishFailed, TestFailed
  <2>2. /\ \A q \in Requests \ {ex[e].req} : req'[q] = req[q]
        /\ req'[ex[e].req].status = s
        /\ req'[ex[e].req].kind = req[ex[e].req].kind
    BY <2>1, StatusWrite DEF Statuses
  <2>3. /\ \A x \in Executors \ {e} : ex'[x] = ex[x]
        /\ ex'[e].pc # "idle" => ex'[e].req = ex[e].req
        /\ UNCHANGED <<flunked, staging, target, raced>>
        /\ \A q \in Requests \ {ex[e].req} :
             q \in abandoned' <=> q \in abandoned
    BY <1>4 DEF WriteStart, FinishSuccess, FinishFailed, TestFailed, Escapes,
                Goto, Done, IdleExecution
  <2> QED
    BY <2>2, <2>3
<1>5. ASSUME NEW s \in BOOLEAN, NEW ok \in BOOLEAN,
             \/ PowerOnIsolated(e, s, ok) \/ BootCheck(e, s, ok)
             \/ PowerOff(e, s, ok)
      PROVE  Others(e)
  BY <1>5 DEF PowerOnIsolated, BootCheck, PowerOff, Goto, Flunk, VMof
<1>6. ASSUME NEW ok \in BOOLEAN, Destroy(e, ok)
      PROVE  Others(e)
  BY <1>6 DEF Destroy, VMof, Goto, Done, IdleExecution
<1> HIDE DEF Others
<1> QED
  BY <1>1, <1>2, <1>3, <1>4, <1>5, <1>6 DEF ExecutionStep

(* The only execution of a request keeps what it knows of it, and leaves a *)
(* recovery test that succeeded clean.                                     *)
Sole(e, r) ==
    /\ SoleRow(r)
    /\ IF ex[e].pc = "idle" THEN TestClean(r) ELSE SolePhase(e)

(* Every step of the only execution of a request does so.                  *)
LEMMA ExecSole ==
  ASSUME TypeOK, VmNumbers, WorkInv, NEW e \in Executors, NEW r \in Requests,
         r = ex[e].req, ex[e].pc # "idle", Working(r) = {e}, Sole(e, r),
         ExecutionStep(e) \/ Crash(e)
  PROVE  Sole(e, r)'
<1>0. /\ ex \in [Executors -> Execution] /\ req \in [Requests -> Request]
      /\ imports \in [Requests -> Nat] /\ flunked \subseteq Executors
      /\ staging \in [Requests -> {"absent"} \cup Trees]
  BY DEF TypeOK
<1>00. /\ ex[e].pc \in TestPcs => req[r].kind = "dr_test"
       /\ req[r].status # "absent"
       /\ VMof(e) = <<r, ex[e].vm>>
  BY DEF WorkInv, IsTest, VMof
<1>01. SoleRow(r) /\ SolePhase(e)
  BY DEF Sole
<1> USE <1>0, <1>00, <1>01
    DEF Execution, Sole, SoleRow, SolePhase, TestClean, Open, Before, After,
        TestPcs, VMof
<1>1. CASE PreflightFails(e) \/ ReadForStart(e)
  BY <1>1 DEF PreflightFails, ReadForStart, Escapes, IsTest, Goto, Done,
              IdleExecution, TestClean
<1>2. ASSUME NEW ok \in BOOLEAN, WriteStart(e, ok)
      PROVE  Sole(e, r)'
  BY <1>2 DEF WriteStart, SetStatus, Escapes, Goto, Done, IdleExecution,
              IsTest, Request
<1>3. CASE WipeStaging(e) \/ (\E tree \in Trees : Restored(e, tree))
  BY <1>3 DEF WipeStaging, Restored, Goto
<1>4. CASE Import(e)
  <2>1. /\ ex'[e].pc = "finish" /\ ex'[e].vm = 1 /\ ex'[e].req = r
        /\ imports'[r] = 1 /\ r \notin tainted'
        /\ req' = req /\ flunked' = flunked
        /\ req[r].status = "running"
    BY <1>4 DEF Import
  <2> QED
    BY <1>4, <2>1
<1>5. CASE FinishSuccess(e) \/ FinishFailed(e)
  <2>1. PICK s \in {"success", "failed"} :
          /\ SetStatus(e, s)
          /\ s = "success" <=> FinishSuccess(e)
          /\ Goto(e, IF s = "success" THEN "cleanup" ELSE "discard")
    BY <1>5 DEF FinishSuccess, FinishFailed
  <2>2. req'[r].status = s
    BY <2>1 DEF SetStatus, Request
  <2> QED
    BY <1>5, <2>1, <2>2 DEF FinishSuccess, FinishFailed, Goto
<1>6. CASE Cleanup(e) \/ (\E ok \in BOOLEAN : Discard(e, ok))
  BY <1>6 DEF Cleanup, Discard, Escapes, IsTest, Goto, Done, IdleExecution
<1>7. CASE Raise(e)
  BY <1>7 DEF Raise, Goto, TryPcs
<1>8. ASSUME NEW s \in BOOLEAN, NEW ok \in BOOLEAN,
             PowerOnIsolated(e, s, ok) \/ BootCheck(e, s, ok)
      PROVE  Sole(e, r)'
  BY <1>8 DEF PowerOnIsolated, BootCheck, Goto, Flunk
<1>9. ASSUME NEW off \in BOOLEAN, NEW ok \in BOOLEAN, PowerOff(e, off, ok)
      PROVE  Sole(e, r)'
  BY <1>9 DEF PowerOff, Goto, Flunk
<1>10. ASSUME NEW ok \in BOOLEAN, Destroy(e, ok)
       PROVE  Sole(e, r)'
  <2>1. /\ VMsOf(r) \subseteq {<<r, 1>>}
        /\ ex[e].vm = 1 /\ imports[r] = 1
    BY <1>10 DEF VMsOf, VmNumbers, TypeOK, Destroy
  <2>2. /\ UNCHANGED <<req, imports, tainted, booted, abandoned>>
        /\ vms' \subseteq vms /\ on' \subseteq on
        /\ AutoCleanup /\ ok => <<r, 1>> \notin vms'
    BY <1>10, <2>1 DEF Destroy
  <2>3. SoleRow(r)'
    BY <2>2
  <2>4. CASE e \notin flunked /\ (AutoCleanup => ok)
    <3>1. ex'[e].pc = "idle" /\ r \in booted
      BY <1>10, <2>1, <2>4 DEF Destroy, Done, IdleExecution
    <3>2. VMsOf(r)' \subseteq {<<r, 1>>}
      BY <2>1, <2>2 DEF VMsOf
    <3>3. TestClean(r)'
      BY <2>2, <2>4, <3>1, <3>2 DEF TestClean, VMsOf
    <3> QED
      BY <2>3, <3>1, <3>3
  <2>5. CASE ~(e \notin flunked /\ (AutoCleanup => ok))
    <3>1. ex'[e].pc = "testfail" /\ ex'[e].req = r
      BY <1>10, <2>5 DEF Destroy, Goto
    <3> QED
      BY <2>3, <3>1
  <2> QED
    BY <2>4, <2>5
<1>11. CASE TestFailed(e)
  BY <1>11 DEF TestFailed, SetStatus, Done, IdleExecution, Request
<1>12. CASE OutcomeLost(e) \/ Crash(e)
  BY <1>12 DEF OutcomeLost, Crash, Escapes, IsTest, Goto, Done, IdleExecution
<1>13. CASE VerifyManifest(e)
  <2>1. Filling(r) = {}
    BY <1>13 DEF Filling, Working, VerifyManifest
  <2> QED
    BY <1>13, <2>1 DEF VerifyManifest, Goto
<1> HIDE DEF Sole
<1> QED
  BY <1>1, <1>2, <1>3, <1>4, <1>5, <1>6, <1>7, <1>8, <1>9, <1>10, <1>11,
     <1>12, <1>13 DEF ExecutionStep

(* Every step of an execution keeps the numbers of its request's VMs.      *)
LEMMA ExecNumbers ==
  ASSUME TypeOK, VmNumbers, NEW e \in Executors, ExecutionStep(e) \/ Crash(e)
  PROVE  VmNumbers'
<1> DEFINE r == ex[e].req
<1>1. Others(e) /\ TypeOK /\ TypeOK'
  BY ExecOthers, NextType DEF Next
<1>2. r \in Requests /\ ex[e].vm \in Nat /\ ex[e].vm <= imports[r]
  BY <1>1 DEF Others, VmNumbers, TypeOK, Execution
<1>3. CASE Import(e)
  <2>1. /\ imports[r] \in Nat /\ imports' = [imports EXCEPT ![r] = @ + 1]
        /\ vms' = vms \cup {<<r, imports[r] + 1>>}
        /\ ex'[e].vm = imports[r] + 1
    BY <1>2, <1>3 DEF Import, TypeOK, Execution
  <2>2. \A q \in Requests : imports[q] \in Nat /\ imports'[q] \in Nat
                              /\ imports[q] <= imports'[q]
    BY <2>1, <1>2, <1>3 DEF TypeOK, Import
  <2>3. \A v \in vms : v[1] \in Requests /\ v[2] \in Nat
    BY DEF TypeOK
  <2>4. \A v \in vms' : v[2] \in 1..imports'[v[1]]
    <3> SUFFICES ASSUME NEW v \in vms' PROVE v[2] \in 1..imports'[v[1]]
      OBVIOUS
    <3>1. CASE v \in vms
      BY <2>2, <2>3, <3>1 DEF VmNumbers
    <3>2. CASE v = <<r, imports[r] + 1>>
      BY <1>2, <2>1, <3>2 DEF TypeOK
    <3> QED
      BY <2>1, <3>1, <3>2
  <2>5. \A x \in Executors : ex'[x].pc # "idle" =>
          ex'[x].vm <= imports'[ex'[x].req]
    <3> SUFFICES ASSUME NEW x \in Executors, ex'[x].pc # "idle"
                 PROVE  ex'[x].vm <= imports'[ex'[x].req]
      OBVIOUS
    <3>1. CASE x = e
      BY <1>1, <1>2, <2>1, <3>1 DEF Others, TypeOK
    <3>2. CASE x # e
      <4>1. /\ ex'[x] = ex[x] /\ ex[x].req \in Requests
            /\ ex[x].vm \in Nat /\ ex[x].vm <= imports[ex[x].req]
        BY <1>1, <3>2 DEF Others, TypeOK, VmNumbers, Execution
      <4> QED
        BY <2>2, <4>1
    <3> QED
      BY <3>1, <3>2
  <2> QED
    BY <2>4, <2>5 DEF VmNumbers
<1>4. CASE ~Import(e)
  <2>1. imports' = imports /\ vms' \subseteq vms
    BY <1>4, RestoreAssumption
    DEF ExecutionStep, PreflightFails, ReadForStart, WriteStart, WipeStaging,
        Restored, VerifyManifest, FinishSuccess, Cleanup, Raise, FinishFailed,
        OutcomeLost, Discard, PowerOnIsolated, BootCheck, PowerOff, Destroy,
        TestFailed, Crash
  <2>2. ex'[e].pc # "idle" => ex'[e].vm = ex[e].vm
    BY <1>4 DEF ExecutionStep, PreflightFails, ReadForStart, WriteStart,
        WipeStaging, Restored, VerifyManifest, FinishSuccess, Cleanup, Raise,
        FinishFailed, OutcomeLost, Discard, PowerOnIsolated, BootCheck,
        PowerOff, Destroy,
        TestFailed, Crash, Escapes, Goto, Done, IdleExecution, TypeOK,
        Execution
  <2> QED
    BY <1>1, <1>2, <2>1, <2>2 DEF Others, VmNumbers
<1> QED
  BY <1>3, <1>4

(* ...that it was submitted, and is tested only if it is a test...         *)
LEMMA ExecWork ==
  ASSUME TypeOK, WorkInv, NEW e \in Executors, ExecutionStep(e) \/ Crash(e)
  PROVE  WorkInv'
<1> DEFINE r == ex[e].req
<1>1. Others(e)
  BY ExecOthers
<1>2. ex'[e].pc \in TestPcs => ex[e].pc \in TestPcs \/ IsTest(e)
  BY DEF ExecutionStep, PreflightFails, ReadForStart, WriteStart,
         WipeStaging, Restored, VerifyManifest, Import, FinishSuccess, Cleanup,
         Raise, FinishFailed, OutcomeLost, Discard, PowerOnIsolated, BootCheck,
         PowerOff,
         Destroy, TestFailed, Crash, Escapes, Goto, Done, IdleExecution,
         TypeOK, Execution, TestPcs
<1>3. \A q \in Requests :
        /\ req'[q].kind = req[q].kind
        /\ req'[q].status = "absent" => req[q].status = "absent"
  BY <1>1 DEF Others
<1>4. \A x \in Executors : ex'[x].pc # "idle" =>
        /\ ex[x].pc # "idle" /\ ex'[x].req = ex[x].req
        /\ ex[x].req \in Requests
        /\ ex'[x].pc \in TestPcs => ex[x].pc \in TestPcs \/ IsTest(x)
  BY <1>1, <1>2 DEF Others, TypeOK
<1> QED
  BY <1>3, <1>4 DEF WorkInv, IsTest

(* ...and the VMs of a request that is no test.                            *)
LEMMA ExecKept ==
  ASSUME TypeOK, WorkInv, KeptInv, NEW e \in Executors,
         ExecutionStep(e) \/ Crash(e)
  PROVE  KeptInv'
<1> DEFINE r == ex[e].req
<1> SUFFICES ASSUME NEW q \in Requests, req'[q].kind # "dr_test",
                    \/ req'[q].status = "success"
                    \/ \E x \in Working(q)' : ex'[x].pc = "finish"
             PROVE  VMsOf(q)' # {}
  BY DEF KeptInv
<1>1. Others(e) /\ TypeOK'
  BY ExecOthers, NextType DEF Next
<1>2. CASE q # r
  <2>1. /\ req'[q] = req[q]
        /\ \A x \in Working(q)' : ex'[x] = ex[x] /\ x \in Working(q)
    BY <1>1, <1>2 DEF Others, Working
  <2>2. PICK v \in VMsOf(q) : TRUE
    BY <2>1 DEF KeptInv
  <2>3. v \in vms'
    BY <1>1, <1>2, <2>2 DEF Others, VMsOf, TypeOK
  <2> QED
    BY <2>2, <2>3 DEF VMsOf
<1>3. CASE q = r
  <2>1. req[r].kind # "dr_test"
    BY <1>1, <1>3 DEF Others
  <2>2. CASE Import(e)
    <3>1. <<q, imports[q] + 1>> \in VMsOf(q)'
      BY <1>3, <2>2 DEF Import, VMsOf
    <3> QED
      BY <3>1
  <2>3. CASE ~Import(e)
    <3>1. ex[e].pc \notin TestPcs
      BY <1>1, <2>1 DEF WorkInv, IsTest, Others
    <3>2. vms' = vms
      BY <2>3, <3>1
      DEF ExecutionStep, PreflightFails, ReadForStart, WriteStart,
          WipeStaging, Restored, VerifyManifest, FinishSuccess, Cleanup,
          Raise, FinishFailed, OutcomeLost, Discard, PowerOnIsolated, BootCheck,
          PowerOff,
          Destroy, TestFailed, Crash, TestPcs
    <3>3. /\ ex'[e].pc # "finish"
          /\ req'[r].status = "success" =>
               ex[e].pc = "finish" \/ req[r].status = "success"
      BY <1>1, <2>3
      DEF Others, ExecutionStep, PreflightFails, ReadForStart, WriteStart,
          WipeStaging, Restored, VerifyManifest, FinishSuccess, Cleanup,
          Raise, FinishFailed, OutcomeLost, Discard, PowerOnIsolated, BootCheck,
          PowerOff,
          Destroy, TestFailed, Crash, Escapes, Goto, Done, IdleExecution,
          SetStatus, TypeOK, Execution, Request
    <3>4. \A x \in Working(q)' : ex'[x].pc = "finish" =>
            x \in Working(q) /\ ex[x].pc = "finish"
      BY <1>1, <3>3 DEF Others, Working
    <3>5. e \in Working(q)
      BY <1>1, <1>3 DEF Others, Working
    <3> QED
      BY <1>3, <2>1, <3>2, <3>3, <3>4, <3>5 DEF KeptInv, VMsOf
  <2> QED
    BY <2>2, <2>3
<1> QED
  BY <1>2, <1>3

(* A step of an execution keeps what is known of every request that no two *)
(* threads worked on at once.                                              *)
LEMMA ExecSoleInv ==
  ASSUME TypeOK, VmNumbers, WorkInv, SoleInv, NEW e \in Executors,
         ExecutionStep(e) \/ Crash(e)
  PROVE  SoleInv'
<1> SUFFICES ASSUME NEW q \in Requests \ raced
             PROVE  /\ \A x, y \in Working(q)' : x = y
                    /\ SoleRow(q)'
                    /\ \A x \in Working(q)' : SolePhase(x)'
                    /\ Working(q)' = {} => TestClean(q)'
  BY ExecOthers DEF Others, SoleInv
<1>1. Others(e) /\ TypeOK'
  BY ExecOthers, NextType DEF Next
<1>2. /\ \A x, y \in Working(q) : x = y
      /\ SoleRow(q)
      /\ \A x \in Working(q) : SolePhase(x)
      /\ Working(q) = {} => TestClean(q)
  BY DEF SoleInv
<1>3. CASE q # ex[e].req
  <2>1. /\ req'[q] = req[q] /\ imports'[q] = imports[q]
        /\ staging'[q] = staging[q] /\ (q \in tainted' <=> q \in tainted)
        /\ q \in booted' <=> q \in booted
        /\ q \in abandoned' <=> q \in abandoned
        /\ \A n \in Nat : <<q, n>> \in vms' <=> <<q, n>> \in vms
    BY <1>1, <1>3 DEF Others
  <2>2. /\ Working(q)' = Working(q)
        /\ \A x \in Working(q) :
             /\ ex'[x] = ex[x] /\ (x \in flunked' <=> x \in flunked)
             /\ ex[x].req = q /\ ex[x].vm \in Nat
    <3>1. \A x \in Executors \ {e} :
            ex'[x] = ex[x] /\ (x \in flunked' <=> x \in flunked)
      BY <1>1 DEF Others
    <3>2. e \notin Working(q) /\ e \notin Working(q)'
      BY <1>1, <1>3 DEF Others, Working
    <3>3. Working(q)' = Working(q)
      BY <3>1, <3>2 DEF Working
    <3>4. \A x \in Executors : ex[x].vm \in Nat
      BY DEF TypeOK, Execution
    <3> QED
      BY <3>1, <3>2, <3>3, <3>4 DEF Working
  <2>3. SoleRow(q)'
    BY <1>2, <2>1 DEF SoleRow
  <2>4. ASSUME NEW x \in Working(q) PROVE SolePhase(x)'
    BY <1>2, <2>1, <2>2 DEF SolePhase, VMof
  <2>5. TestClean(q) => TestClean(q)'
    <3>1. VMsOf(q)' = VMsOf(q)
      BY <1>1, <2>1 DEF VMsOf, TypeOK
    <3> QED
      BY <1>1, <2>1, <3>1 DEF TestClean, Others
  <2> QED
    BY <1>2, <2>2, <2>3, <2>4, <2>5
<1>4. CASE q = ex[e].req
  <2>1. e \in Working(q) /\ Working(q) = {e} /\ Sole(e, q)
    BY <1>1, <1>2, <1>4 DEF Others, Working, Sole
  <2>2. Sole(e, q)'
    BY <1>1, <1>4, <2>1, ExecSole DEF Others
  <2>3. Working(q)' = IF ex'[e].pc = "idle" THEN {} ELSE {e}
    BY <1>1, <1>4, <2>1 DEF Others, Working
  <2> QED
    BY <2>2, <2>3 DEF Sole
<1> QED
  BY <1>3, <1>4

(* A step of an execution keeps the invariant of the imports.              *)
LEMMA ExecImport ==
  ASSUME TypeOK, ImportInv, NEW e \in Executors, ExecutionStep(e) \/ Crash(e)
  PROVE  ImportInv'
  BY ExecNumbers, ExecWork, ExecKept, ExecSoleInv DEF ImportInv

(* Requests and approvals keep it: an approval that comes late counts as a *)
(* second thread at work on the request.                                   *)
LEMMA RequestImport ==
  ASSUME TypeOK, ImportInv, RequestStep
  PROVE  ImportInv'
<1>1. /\ UNCHANGED <<ex, flunked, staging, imports, vms, tainted, booted,
                  abandoned>>
      /\ \A q \in Requests : Working(q)' = Working(q)
  BY DEF RequestStep, Submit, ReadForApproval, WriteApproval, Working
<1>2. /\ raced \subseteq raced'
      /\ \A q \in Requests :
           \/ req'[q] = req[q]
           \/ /\ req[q].status = "absent" /\ Working(q) = {}
              /\ req'[q].status \in Open \ {"absent"}
           \/ /\ req'[q].status = "approved" /\ req'[q].kind = req[q].kind
              /\ (q \in raced' \/ req[q].status = "pending_approval")
  <2>1. ASSUME NEW r \in Requests, NEW u \in Requesters, NEW k \in Kinds,
               Submit(r, u, k), NEW q \in Requests
        PROVE  \/ req'[q] = req[q]
               \/ /\ req[q].status = "absent" /\ Working(q) = {}
                  /\ req'[q].status \in Open \ {"absent"}
    <3>1. q = r => Working(q) = {}
      BY <2>1 DEF Submit, ImportInv, WorkInv, Working
    <3> QED
      BY <2>1, <3>1 DEF Submit, InitialStatus, Open, TypeOK
  <2>2. ASSUME NEW a \in Approvers, WriteApproval(a), NEW q \in Requests
        PROVE  \/ req'[q] = req[q]
               \/ /\ req'[q].status = "approved" /\ req'[q].kind = req[q].kind
                  /\ (q \in raced' \/ req[q].status = "pending_approval")
    BY <2>2 DEF WriteApproval, TypeOK, Request
  <2>3. raced \subseteq raced'
    BY DEF RequestStep, Submit, ReadForApproval, WriteApproval
  <2> QED
    BY <2>1, <2>2, <2>3 DEF RequestStep, ReadForApproval
<1>3. VmNumbers'
  BY <1>1 DEF VmNumbers, ImportInv
<1>4. WorkInv'
  <2> SUFFICES ASSUME NEW e \in Executors, ex[e].pc # "idle"
               PROVE  /\ req'[ex[e].req].status # "absent"
                      /\ ex[e].pc \in TestPcs =>
                           req'[ex[e].req].kind = "dr_test"
    BY <1>1 DEF WorkInv, IsTest
  <2>1. /\ req[ex[e].req].status # "absent" /\ ex[e].req \in Requests
        /\ ex[e].pc \in TestPcs => req[ex[e].req].kind = "dr_test"
    BY DEF ImportInv, WorkInv, IsTest, TypeOK
  <2> QED
    BY <1>2, <2>1
<1>5. KeptInv'
  <2> SUFFICES ASSUME NEW q \in Requests, req'[q].kind # "dr_test",
                      \/ req'[q].status = "success"
                      \/ \E x \in Working(q) : ex[x].pc = "finish"
               PROVE  VMsOf(q) # {}
    BY <1>1 DEF KeptInv, VMsOf
  <2>1. /\ req[q].kind = req'[q].kind
        /\ req'[q].status = "success" => req[q].status = "success"
    BY <1>2 DEF Open
  <2> QED
    BY <2>1 DEF ImportInv, KeptInv
<1>6. SoleInv'
  <2> SUFFICES ASSUME NEW q \in Requests \ raced'
               PROVE  /\ \A x, y \in Working(q) : x = y
                      /\ SoleRow(q)'
                      /\ \A x \in Working(q) : SolePhase(x)'
                      /\ Working(q) = {} => TestClean(q)'
    BY <1>1 DEF SoleInv
  <2>1. /\ \A x, y \in Working(q) : x = y
        /\ SoleRow(q)
        /\ \A x \in Working(q) : SolePhase(x)
        /\ Working(q) = {} => TestClean(q)
    BY <1>2 DEF SoleInv, ImportInv
  <2>2. SoleRow(q)'
    BY <1>1, <1>2, <2>1 DEF SoleRow, Open
  <2>3. ASSUME NEW x \in Working(q) PROVE SolePhase(x)'
    <3>1. ex[x].req = q
      BY DEF Working
    <3> QED
      BY <1>1, <1>2, <2>1, <3>1
      DEF SolePhase, VMof, Before, After, TestPcs, Open
  <2>4. TestClean(q) => TestClean(q)'
    BY <1>1, <1>2 DEF TestClean, VMsOf, Open
  <2> QED
    BY <2>1, <2>2, <2>3, <2>4
<1> QED
  BY <1>3, <1>4, <1>5, <1>6 DEF ImportInv

(* A new execution keeps it: it has done nothing yet, and if another is at *)
(* work on the request the two race.                                       *)
LEMMA BeginImport ==
  ASSUME TypeOK, ImportInv, NEW e \in Executors, NEW r \in Requests,
         Begin(e, r)
  PROVE  ImportInv'
<1>1. /\ UNCHANGED <<req, flunked, staging, imports, vms, tainted, booted,
                  abandoned>>
      /\ \A x \in Executors \ {e} : ex'[x] = ex[x]
      /\ ex'[e].pc = "plan" /\ ex'[e].req = r /\ ex'[e].vm = 0
      /\ ex[e].pc = "idle" /\ req[r].status # "absent"
      /\ raced \subseteq raced' /\ (r \in raced' \/ Working(r) = {})
  BY DEF Begin, IdleExecution, TypeOK
<1>2. \A q \in Requests :
        Working(q)' = IF q = r THEN Working(q) \cup {e} ELSE Working(q)
  BY <1>1 DEF Working
<1>3. VmNumbers'
  BY <1>1 DEF VmNumbers, ImportInv, TypeOK
<1>4. WorkInv'
  BY <1>1 DEF WorkInv, ImportInv, IsTest, TestPcs
<1>5. KeptInv'
  <2> SUFFICES ASSUME NEW q \in Requests, req[q].kind # "dr_test",
                      \/ req[q].status = "success"
                      \/ \E x \in Working(q)' : ex'[x].pc = "finish"
               PROVE  VMsOf(q) # {}
    BY <1>1 DEF KeptInv, VMsOf
  <2>1. \A x \in Working(q)' : ex'[x].pc = "finish" =>
          x \in Working(q) /\ ex[x].pc = "finish"
    BY <1>1 DEF Working
  <2> QED
    BY <2>1 DEF ImportInv, KeptInv
<1>6. SoleInv'
  <2> SUFFICES ASSUME NEW q \in Requests \ raced'
               PROVE  /\ \A x, y \in Working(q)' : x = y
                      /\ SoleRow(q)'
                      /\ \A x \in Working(q)' : SolePhase(x)'
                      /\ Working(q)' = {} => TestClean(q)'
    BY DEF SoleInv
  <2>1. /\ \A x, y \in Working(q) : x = y
        /\ SoleRow(q)
        /\ \A x \in Working(q) : SolePhase(x)
        /\ Working(q) = {} => TestClean(q)
    BY <1>1 DEF SoleInv, ImportInv
  <2>2. SoleRow(q)'
    BY <1>1, <2>1 DEF SoleRow
  <2>3. ASSUME NEW x \in Working(q)' PROVE SolePhase(x)'
    <3>1. CASE x = e
      BY <1>1, <3>1 DEF SolePhase, Before, After, TestPcs
    <3>2. CASE x # e
      BY <1>1, <2>1, <3>2 DEF SolePhase, VMof, Working
    <3> QED
      BY <3>1, <3>2
  <2>4. TestClean(q) => TestClean(q)'
    BY <1>1 DEF TestClean, VMsOf
  <2> QED
    BY <1>1, <1>2, <2>1, <2>2, <2>3, <2>4
<1> QED
  BY <1>3, <1>4, <1>5, <1>6 DEF ImportInv

(* The initial state satisfies it, and every step keeps it.                *)
LEMMA InitImport == Init => ImportInv
  BY DEF Init, ImportInv, VmNumbers, WorkInv, KeptInv, SoleInv, SoleRow,
         Working, TestClean, NoRequest, IdleExecution

LEMMA NextImport == TypeOK /\ ImportInv /\ [Next]_vars => ImportInv'
<1> SUFFICES ASSUME TypeOK, ImportInv, [Next]_vars PROVE ImportInv'
  OBVIOUS
<1>1. CASE UNCHANGED vars
  BY <1>1 DEF vars, ImportInv, VmNumbers, WorkInv, KeptInv, SoleInv, SoleRow,
              SolePhase, TestClean, Working, VMsOf, VMof, IsTest
<1> QED
  BY <1>1, ExecImport, RequestImport, BeginImport DEF Next

(* The invariant holds throughout. *)
LEMMA ImportInvCorrect == Spec => []ImportInv
  BY InitImport, NextImport, TypeCorrect, PTL DEF Spec

(* For any number of requests, threads, failures and crashes, no request   *)
(* imports a tree whose files have not the sizes, and whose small files    *)
(* have not the hashes, of its manifest, unless two threads worked on it   *)
(* at once: VerifyManifest may accept a tree that another one is filling.  *)
THEOREM VerifiedCorrect == Spec => []ImportedVerified
<1>1. TypeOK /\ ImportInv => ImportedVerified
  BY DEF ImportInv, SoleInv, SoleRow, ImportedVerified, TypeOK
<1> QED
  BY <1>1, TypeCorrect, ImportInvCorrect, PTL

(* One request makes at most one VM, whatever fails or dies on the way,    *)
(* unless two threads worked on it at once.                                *)
THEOREM ImportOnceCorrect == Spec => []ImportOnce
<1>1. ImportInv => ImportOnce
  BY DEF ImportInv, SoleInv, SoleRow, ImportOnce
<1> QED
  BY <1>1, ImportInvCorrect, PTL

(* A settled restore that reports success has its VM, and a recovery test  *)
(* that does made one that booted and, under auto-cleanup, is gone, unless *)
(* its outcome went unrecorded or two threads worked on it.                *)
THEOREM OutcomeCorrect == Spec => []OutcomeTruthful
<1>1. ImportInv => OutcomeTruthful
  BY DEF ImportInv, SoleInv, KeptInv, TestClean, OutcomeTruthful
<1> QED
  BY <1>1, ImportInvCorrect, PTL
=============================================================================
