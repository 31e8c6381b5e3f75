---------------------------- MODULE ReplicaLocks ----------------------------
(***************************************************************************)
(* Copies of recovery points on replicas and the provider locks that make  *)
(* them immutable: the bucket-lock rules of a Cloudflare R2 bucket, which  *)
(* are read, merged and put back as one list (ensure_r2_bucket_lock), and  *)
(* the object retention of an S3 bucket (apply_object_lock), one object at *)
(* a time. A backup copies its point to every replica under the file lock; *)
(* dr-sync and replica-lock-init are commands of their own that take no    *)
(* lock; the DR replica is the R2 one. Not modelled: hold_recovery_point,  *)
(* which extends the locks of the copies of a point it holds.              *)
(* restic deduplicates, so every point also rests on a shared pack.        *)
(***************************************************************************)
EXTENDS Naturals, FiniteSets, Sequences

CONSTANTS
    Writers,      \* processes other than the backup: dr-sync, replica-lock-init
    Backup,       \* the process that holds the file lock and backs up
    Nil,
    PolicyDays,   \* immutable_days a policy may give its points
    KeepWithin,   \* retention.keep_within_days
    LockDays,     \* r2_bucket_lock_days, object_lock_days
    MaxPoints, MaxTime, MaxFaults,
    MaxInits      \* times replica-lock-init is run

ASSUME ReplicaAssumption ==
    /\ Backup \notin Writers
    /\ PolicyDays \subseteq Nat /\ {KeepWithin, LockDays} \subseteq Nat
    /\ {MaxPoints, MaxTime, MaxFaults, MaxInits} \subseteq Nat

Replicas == <<"s3", "r2">>               \* cfg.replicas, in its order
Targets == {"s3", "r2"}
DrReplica == "r2"                        \* disaster_recovery.replica
Namespaces == {"data", "snapshots"}      \* persistent restic prefixes
RuleIds == Namespaces \cup {"admin"}     \* and a rule of the administrator's
Points == 1..MaxPoints
Pack == 0
Objects == {Pack} \cup Points
Procs == Writers \cup {Backup}

VARIABLES
    now,     \* days
    points,  \* recovery_points in their order: immutable_until, days, suspicious
    copies,  \* recovery_copies
    held,    \* the objects of each replica
    rules,   \* the lock rules of the R2 bucket
    locks,   \* RetainUntilDate of the objects of the S3 bucket
    proc,    \* the state of each process
    inits,   \* times replica-lock-init was run
    raced,   \* history: rules were put back over a list that had changed
    faults   \* failures, kills and suspicious backups, up to MaxFaults

vars == <<now, points, copies, held, rules, locks, proc, inits, raced, faults>>

Rule == ({"none", "age", "indefinite"} \X {0}) \cup ({"date"} \X Nat)
Point == [until : Nat, days : Nat, suspicious : BOOLEAN]
(* retain: object_lock.retain_until, 0 where the replica has no lock;      *)
(* by: the command that recorded the copy.                                 *)
Copy == [status : {"none", "success", "failed"}, until : Nat, retain : Nat,
         by : Procs \cup {Nil}]
NoCopy == [status |-> "none", until |-> 0, retain |-> 0, by |-> Nil]
(* at: the position of the replica in the loop of the backup; seen: the    *)
(* rules as they were read.                                                *)
Process == [pc : {"idle", "copy", "get", "put", "lock", "record"},
            point : {0} \cup Points, target : Targets,
            at : 0..Len(Replicas),
            seen : [RuleIds -> Rule], retain : Nat]
NoRules == [i \in RuleIds |-> <<"none", 0>>]
IdleProcess == [pc |-> "idle", point |-> 0, target |-> DrReplica,
                at |-> 0, seen |-> NoRules, retain |-> 0]

Last == Len(points)

(* The type of the state; what a copy names, its replica holds. *)
TypeOK ==
    /\ now \in 0..MaxTime /\ Last <= MaxPoints
    /\ \A p \in 1..Last : points[p] \in Point
    /\ copies \in [Points \X Targets -> Copy]
    /\ held \in [Targets -> SUBSET Objects]
    /\ rules \in [RuleIds -> Rule] /\ locks \in [Objects -> Nat]
    /\ proc \in [Procs -> Process]
    /\ inits \in 0..MaxInits /\ raced \in BOOLEAN /\ faults \in 0..MaxFaults
    /\ \A p \in Points, t \in Targets :
         copies[<<p, t>>].status = "success" => {Pack, p} \subseteq held[t]

(* A bucket with a legacy Age rule on the data, an indefinite one on the   *)
(* snapshots and a rule of the administrator's own.                        *)
Init ==
    /\ now = 0 /\ points = <<>>
    /\ copies = [c \in Points \X Targets |-> NoCopy]
    /\ held = [t \in Targets |-> {}]
    /\ rules = [data |-> <<"age", 0>>, snapshots |-> <<"indefinite", 0>>,
                admin |-> <<"date", MaxTime>>]
    /\ locks = [o \in Objects |-> 0]
    /\ proc = [w \in Procs |-> IdleProcess]
    /\ inits = 0 /\ raced = FALSE /\ faults = 0

MaxOf(a, b) == IF a >= b THEN a ELSE b
Fault == faults < MaxFaults /\ faults' = faults + 1
catalogue == <<points, copies>>
provider == <<held, rules, locks>>

-----------------------------------------------------------------------------
(* The commands. *)

(* The copy of a point to the i-th replica. *)
CopyTo(p, i) == [IdleProcess EXCEPT !.pc = "copy", !.point = p,
                                    !.target = Replicas[i], !.at = i]

(* _backup_vm has catalogued a point and begins its loop over replicas. *)
BackUp(days, suspicious) ==
    /\ proc[Backup].pc = "idle" /\ Last < MaxPoints
    /\ points' = Append(points, [until |-> now + days, days |-> days,
                                 suspicious |-> suspicious])
    /\ IF suspicious THEN Fault ELSE UNCHANGED faults
    /\ proc' = [proc EXCEPT ![Backup] = CopyTo(Last + 1, 1)]
    /\ UNCHANGED <<now, copies, provider, inits, raced>>

(* Mutant: any row of the copy counts, a failed one too. *)
NeedsSync_Any(p) ==
    ~points[p].suspicious /\ copies[<<p, DrReplica>>].status = "none"

(* sync: the newest point of the workload, unless it is suspicious or its  *)
(* copy has succeeded.                                                     *)
NeedsSync(p) ==
    ~points[p].suspicious /\ copies[<<p, DrReplica>>].status # "success"

Sync(w) ==
    /\ proc[w].pc = "idle" /\ Last > 0 /\ NeedsSync(Last)
    /\ proc' = [proc EXCEPT ![w] = [IdleProcess EXCEPT
                   !.pc = "copy", !.point = Last]]
    /\ UNCHANGED <<now, catalogue, provider, inits, raced, faults>>

(* init_replica_lock sets the rules up, with no point to copy. *)
InitLock(w) ==
    /\ proc[w].pc = "idle" /\ inits < MaxInits
    /\ inits' = inits + 1
    /\ proc' = [proc EXCEPT ![w] = [IdleProcess EXCEPT !.pc = "get"]]
    /\ UNCHANGED <<now, catalogue, provider, raced, faults>>

-----------------------------------------------------------------------------
(* copy_snapshot. *)

Goto(w, pc) == proc' = [proc EXCEPT ![w].pc = pc]
(* Where a process goes on: the backup to its next replica. *)
Return(w) == proc' = [proc EXCEPT ![w] =
    IF w = Backup /\ @.at < Len(Replicas) THEN CopyTo(@.point, @.at + 1)
    ELSE IdleProcess]

(* The days the lock must last: what the policy gives the point being      *)
(* backed up, the global window for every other command.                   *)
MinimumDays(w) == IF w = Backup THEN points[proc[w].point].days ELSE KeepWithin

(* restic copy, and the probe that sees the snapshot at its destination.   *)
CopySnapshot(w) ==
    LET p == proc[w].point t == proc[w].target IN
    /\ proc[w].pc = "copy"
    /\ held' = [held EXCEPT ![t] = @ \cup {Pack, p}]
    /\ proc' = [proc EXCEPT
         ![w].pc = IF t = "r2" THEN "get" ELSE "lock",
         ![w].retain = IF t = "s3" THEN now + MaxOf(LockDays, MinimumDays(w))
                       ELSE 0]
    /\ UNCHANGED <<now, catalogue, rules, locks, inits, raced, faults>>

(* ensure_r2_bucket_lock: the GET... *)
R2Get(w) ==
    /\ proc[w].pc = "get"
    /\ proc' = [proc EXCEPT ![w].pc = "put", ![w].seen = rules,
                  ![w].retain = now + MaxOf(LockDays, MinimumDays(w))]
    /\ UNCHANGED <<now, catalogue, provider, inits, raced, faults>>

(* Mutant: a later date or an indefinite rule is replaced all the same. *)
_r2_rule_covers_until_Exact(rule, until) == rule = <<"date", until>>

_r2_rule_covers_until(rule, until) ==
    rule[1] = "indefinite" \/ (rule[1] = "date" /\ rule[2] >= until)

(* Every persistent namespace gets a Date rule unless its own covers it;   *)
(* the rules of others are taken over as they were read.                   *)
Merged(seen, until) ==
    [i \in RuleIds |->
       IF i \in Namespaces /\ ~_r2_rule_covers_until(seen[i], until)
         THEN <<"date", until>> ELSE seen[i]]

(* ...and the PUT of the whole list, if it changed. *)
R2Put(w) ==
    LET merged == Merged(proc[w].seen, proc[w].retain) IN
    /\ proc[w].pc = "put"
    /\ IF merged = proc[w].seen THEN UNCHANGED <<rules, raced>>
       ELSE rules' = merged /\ raced' = (raced \/ rules # proc[w].seen)
    /\ IF proc[w].point = 0 THEN Return(w)
       ELSE proc' = [proc EXCEPT ![w].pc = "record", ![w].seen = NoRules]
    /\ UNCHANGED <<now, catalogue, held, locks, inits, faults>>

(* apply_object_lock to some objects: one whose date is late enough is     *)
(* skipped, any other is extended.                                         *)
Extended(objects, until) ==
    [o \in Objects |-> IF o \in objects THEN MaxOf(locks[o], until) ELSE locks[o]]

(* Mutant: only the objects of the new point are locked. *)
LockObjects_New(w) ==
    /\ proc[w].pc = "lock"
    /\ locks' = Extended({proc[w].point}, proc[w].retain)
    /\ Goto(w, "record")
    /\ UNCHANGED <<now, catalogue, held, rules, inits, raced, faults>>

(* The whole bucket, object by object: a get and a put for each. One walk  *)
(* is one step, since of the processes modelled only the backup walks. A   *)
(* hold and a dr-sync to an S3 replica, which are not modelled, walk too;  *)
(* where walks meet, the provider refuses to shorten a date, so that the   *)
(* later one stays, as in Extended.                                        *)
LockObjects(w) ==
    /\ proc[w].pc = "lock"
    /\ locks' = Extended(held["s3"], proc[w].retain)
    /\ Goto(w, "record")
    /\ UNCHANGED <<now, catalogue, held, rules, inits, raced, faults>>

(* upsert_recovery_copy: the backup records the date of the lock, sync the *)
(* date of the point.                                                      *)
Record(w) ==
    LET p == proc[w].point t == proc[w].target r == proc[w].retain IN
    /\ proc[w].pc = "record"
    /\ copies' = [copies EXCEPT ![<<p, t>>] =
         [status |-> "success", retain |-> r, by |-> w,
          until |-> IF w = Backup /\ r > 0 THEN r ELSE points[p].until]]
    /\ Return(w)
    /\ UNCHANGED <<now, points, provider, inits, raced, faults>>

(* What a failure or a kill leaves of the objects' locks: some were set. *)
SomeLocked(w) ==
    \E done \in (IF proc[w].pc = "lock" THEN SUBSET held["s3"] ELSE {{}}) :
      locks' = Extended(done, proc[w].retain)

(* A command of the copy or of the lock fails: the backup records the      *)
(* failure and goes on to the next replica, the others end.                *)
CopyFails(w) ==
    /\ proc[w].pc \in {"copy", "get", "put", "lock"}
    /\ Fault /\ SomeLocked(w)
    /\ copies' = IF w = Backup
         THEN [copies EXCEPT ![<<proc[w].point, proc[w].target>>] =
                 [NoCopy EXCEPT !.status = "failed", !.by = w]]
         ELSE copies
    /\ Return(w)
    /\ UNCHANGED <<now, points, held, rules, inits, raced>>

(* A process dies. *)
Kill(w) ==
    /\ proc[w].pc # "idle"
    /\ Fault /\ SomeLocked(w)
    /\ proc' = [proc EXCEPT ![w] = IdleProcess]
    /\ UNCHANGED <<now, catalogue, held, rules, inits, raced>>

-----------------------------------------------------------------------------
(* r2_bucket_lock_status: every namespace is locked for all but one of the *)
(* configured days.                                                        *)
r2_bucket_lock_status ==
    \A i \in Namespaces :
      _r2_rule_covers_until(rules[i], now + MaxOf(LockDays, 1) - 1)

(* Mutant: the recorded date alone decides. *)
ImmutableNow_Recorded(p, t) ==
    LET c == copies[<<p, t>>] IN
    (IF c.until > 0 THEN c.until ELSE points[p].until) > now

(* verify_immutable_copies reports a copy as immutable: the rules of R2    *)
(* are read, for S3 the lock that was recorded counts, and the recorded    *)
(* date, or for want of one the point's, is not over.                      *)
ImmutableNow(p, t) ==
    LET c == copies[<<p, t>>] IN
    /\ (IF c.until > 0 THEN c.until ELSE points[p].until) > now
    /\ t = "r2" => r2_bucket_lock_status
    /\ t = "s3" => c.retain > 0

Tick ==
    /\ now < MaxTime
    /\ now' = now + 1
    /\ UNCHANGED <<catalogue, provider, proc, inits, raced, faults>>

-----------------------------------------------------------------------------
Step(w) ==
    \/ CopySnapshot(w) \/ R2Get(w) \/ R2Put(w)
    \/ LockObjects(w) \/ Record(w)

Next ==
    \/ \E d \in PolicyDays, s \in BOOLEAN : BackUp(d, s)
    \/ \E w \in Writers : Sync(w) \/ InitLock(w)
    \/ \E w \in Procs : Step(w) \/ CopyFails(w) \/ Kill(w)
    \/ Tick

Spec == Init /\ [][Next]_vars

(* The dr-sync timer keeps starting sync, and a copy that was started runs *)
(* on unless its process dies.                                             *)
FairSpec ==
    /\ Spec
    /\ \A w \in Writers : WF_vars(Sync(w)) /\ WF_vars(Step(w))

-----------------------------------------------------------------------------
(* Properties. *)

(* A rule of R2 keeps what it covers until the date. *)
RuleKeeps(rule, date) ==
    rule[1] = "indefinite" \/ (rule[1] = "date" /\ rule[2] >= date)

(* The provider keeps all that p needs on t until the date. *)
LockedUntil(p, t, date) ==
    IF t = "r2" THEN \A i \in Namespaces : RuleKeeps(rules[i], date)
    ELSE \A o \in {Pack, p} : locks[o] >= date

(* dr-sync locks for the global window and records the point's own.        *)
Overstated(c) == c.by \in Writers /\ c.until > c.retain

(* A copy that is recorded as immutable until a date is locked by its      *)
(* provider until then, the packs it shares with older points included,    *)
(* whatever is copied, locked, failed or killed around it, unless the      *)
(* rules of the bucket were put back over a change, or dr-sync copied a    *)
(* point whose policy outlasts the global window (copy_snapshot).          *)
CopyLocked ==
    \A p \in Points, t \in Targets :
      LET c == copies[<<p, t>>] IN
      c.status = "success" /\ ~raced =>
        LockedUntil(p, t, IF Overstated(c) THEN c.retain ELSE c.until)

(* No step shortens a retention or takes a rule away: on S3 never, on R2   *)
(* unless a stale list is put back (apply_object_lock,                     *)
(* ensure_r2_bucket_lock).                                                 *)
NeverShortened ==
    [][/\ \A o \in Objects : locks'[o] >= locks[o]
       /\ \A i \in RuleIds, d \in 0..(MaxTime + KeepWithin) :
            ~raced' /\ RuleKeeps(rules[i], d) => RuleKeeps(rules'[i], d)]_vars

(* A copy of the newest point that verification reports as immutable is in *)
(* fact held and locked at its provider, although for S3 it trusts what    *)
(* was recorded and reads no retention, also after a race or a failed copy *)
(* (verify_immutable_copies).                                              *)
VerifiedLocked ==
    \A t \in Targets :
      Last > 0 /\ copies[<<Last, t>>].status # "none" /\ ImmutableNow(Last, t)
        /\ {Pack, Last} \subseteq held[t] => LockedUntil(Last, t, now + 1)

(* The newest point that is not suspicious comes to the DR replica, failed *)
(* copies being tried again (sync).                                        *)
DrCaughtUp ==
    \A p \in Points :
      (Last = p /\ ~points[p].suspicious) ~>
        (copies[<<p, DrReplica>>].status = "success" \/ Last > p)
=============================================================================
