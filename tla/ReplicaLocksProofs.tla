------------------------- MODULE ReplicaLocksProofs -------------------------
(***************************************************************************)
(* Proofs about ReplicaLocks: no step shortens a lock, a copy recorded as  *)
(* locked is locked, and what verification reports as immutable is.        *)
(***************************************************************************)
EXTENDS ReplicaLocks, TLAPS

(* What the locks, the rules and the processes look like; a backup under   *)
(* way is of a catalogued point.                                           *)
LockTypes ==
    /\ now \in Nat
    /\ points \in Seq(Point)
    /\ Len(points) <= MaxPoints
    /\ locks \in [Objects -> Nat]
    /\ rules \in [RuleIds -> Rule]
    /\ proc \in [Procs -> Process]
    /\ proc[Backup].pc # "idle" => proc[Backup].point \in 1..Len(points)

LEMMA ExtendedKeeps ==
    ASSUME LockTypes, NEW objects, NEW until \in Nat
    PROVE  /\ Extended(objects, until) \in [Objects -> Nat]
           /\ \A o \in Objects : Extended(objects, until)[o] >= locks[o]
BY DEF LockTypes, Extended, MaxOf

LEMMA RulePair ==
    ASSUME NEW rule \in Rule
    PROVE  /\ rule[2] \in Nat
           /\ rule[1] \in {"none", "age", "indefinite", "date"}
BY DEF Rule

LEMMA DateRule ==
    ASSUME NEW until \in Nat
    PROVE  /\ <<"date", until>> \in Rule
           /\ <<"none", 0>> \in Rule /\ <<"age", 0>> \in Rule
           /\ <<"indefinite", 0>> \in Rule
BY DEF Rule

LEMMA MergedKeeps ==
    ASSUME NEW seen \in [RuleIds -> Rule], NEW until \in Nat
    PROVE  /\ Merged(seen, until) \in [RuleIds -> Rule]
           /\ \A i \in RuleIds, d \in Nat :
                RuleKeeps(seen[i], d) => RuleKeeps(Merged(seen, until)[i], d)
<1>1. \A i \in RuleIds : Merged(seen, until)[i] =
         IF i \in Namespaces /\ ~_r2_rule_covers_until(seen[i], until)
           THEN <<"date", until>> ELSE seen[i]
  BY DEF Merged
<1>2. Merged(seen, until) \in [RuleIds -> Rule]
  BY DateRule DEF Merged
<1>3. ASSUME NEW i \in RuleIds, NEW d \in Nat, RuleKeeps(seen[i], d)
      PROVE  RuleKeeps(Merged(seen, until)[i], d)
  <2>1. CASE ~(i \in Namespaces /\ ~_r2_rule_covers_until(seen[i], until))
    BY <1>1, <1>3, <2>1
  <2>2. CASE i \in Namespaces /\ ~_r2_rule_covers_until(seen[i], until)
    <3>1. Merged(seen, until)[i] = <<"date", until>>
      BY <1>1, <2>2
    <3>2. seen[i][2] \in Nat
      BY RulePair
    <3>3. until >= d
      BY <1>3, <2>2, <3>2 DEF RuleKeeps, _r2_rule_covers_until
    <3> QED
      BY <3>1, <3>3 DEF RuleKeeps
  <2> QED
    BY <2>1, <2>2
<1> QED
  BY <1>2, <1>3

LEMMA Constants ==
    /\ {KeepWithin, LockDays, MaxPoints, MaxTime} \subseteq Nat
    /\ PolicyDays \subseteq Nat
    /\ Backup \in Procs /\ Len(Replicas) = 2
    /\ \A i \in 1..2 : Replicas[i] \in Targets
BY ReplicaAssumption DEF Procs, Replicas, Targets

LEMMA IdleType ==
    IdleProcess \in Process /\ IdleProcess.pc = "idle" /\ IdleProcess.point = 0
<1>1. NoRules \in [RuleIds -> Rule]
  BY DateRule DEF NoRules
<1> QED
  BY <1>1, Constants DEF IdleProcess, Process, DrReplica, Targets, Points

LEMMA CopyToType ==
    ASSUME NEW p \in Points, NEW i \in 1..2
    PROVE  /\ CopyTo(p, i) \in Process
           /\ CopyTo(p, i).point = p /\ CopyTo(p, i).pc = "copy"
<1>1. Replicas[i] \in Targets /\ i \in 0..Len(Replicas)
  BY Constants
<1> QED
  BY <1>1, IdleType DEF CopyTo, IdleProcess, Process, Points

(* Where a process goes on is a process again, at the same point. *)
LEMMA ReturnType ==
    ASSUME LockTypes, NEW w \in Procs, proc[w].pc # "idle", Return(w)
    PROVE  \E new \in Process :
             /\ proc' = [proc EXCEPT ![w] = new]
             /\ w = Backup => new.pc = "idle" \/ new.point = proc[w].point
             /\ \/ new.pc = "idle" /\ new.point = 0
                \/ new.pc = "copy" /\ new.point = proc[w].point
                     /\ new.point # 0
<1> DEFINE x == proc[w]
           new == IF w = Backup /\ x.at < Len(Replicas)
                    THEN CopyTo(x.point, x.at + 1) ELSE IdleProcess
<1>1. proc' = [proc EXCEPT ![w] = new]
  BY DEF Return, LockTypes
<1>2. x \in Process
  BY DEF LockTypes
<1>3. x.at \in 0..2
  BY <1>2, Constants DEF Process
<1>4. CASE w = Backup /\ x.at < Len(Replicas)
  <2>1. x.point \in Points
    BY <1>4, Constants DEF LockTypes, Points
  <2>2. x.at + 1 \in 1..2
    BY <1>3, <1>4, Constants
  <2>3. new = CopyTo(x.point, x.at + 1)
    BY <1>4
  <2>4. new \in Process /\ new.point = x.point /\ new.pc = "copy"
    BY <2>1, <2>2, <2>3, CopyToType
  <2>5. x.point # 0
    BY <2>1 DEF Points
  <2> HIDE DEF new
  <2> QED
    BY <1>1, <2>4, <2>5
<1>5. CASE ~(w = Backup /\ x.at < Len(Replicas))
  <2>1. new \in Process /\ new.pc = "idle" /\ new.point = 0
    BY <1>5, IdleType
  <2> HIDE DEF new
  <2> QED
    BY <1>1, <2>1
<1> QED
  BY <1>4, <1>5

(* The date of a lock. *)
LEMMA RetainNat ==
    ASSUME LockTypes, NEW w \in Procs, proc[w].pc # "idle"
    PROVE  now + MaxOf(LockDays, MinimumDays(w)) \in Nat
<1>1. MinimumDays(w) \in Nat
  <2>1. CASE w = Backup
    <3>1. points[proc[w].point] \in Point
      BY <2>1 DEF LockTypes
    <3> QED
      BY <2>1, <3>1 DEF MinimumDays, Point
  <2>2. CASE w # Backup
    BY <2>2, Constants DEF MinimumDays
  <2> QED
    BY <2>1, <2>2
<1>2. MaxOf(LockDays, MinimumDays(w)) \in Nat
  BY <1>1, Constants DEF MaxOf
<1> QED
  BY <1>2 DEF LockTypes

(* What every step leaves of the locks, the rules and the processes.       *)
Keeps ==
    /\ locks' \in [Objects -> Nat]
    /\ \A o \in Objects : locks'[o] >= locks[o]
    /\ rules' \in [RuleIds -> Rule]
    /\ \A i \in RuleIds, d \in Nat :
         ~raced' /\ RuleKeeps(rules[i], d) => RuleKeeps(rules'[i], d)

LEMMA SameLocks ==
    ASSUME LockTypes, UNCHANGED locks
    PROVE  /\ locks' \in [Objects -> Nat]
           /\ \A o \in Objects : locks'[o] >= locks[o]
BY DEF LockTypes

LEMMA SameRules ==
    ASSUME LockTypes, UNCHANGED rules
    PROVE  /\ rules' \in [RuleIds -> Rule]
           /\ \A i \in RuleIds, d \in Nat :
                ~raced' /\ RuleKeeps(rules[i], d) => RuleKeeps(rules'[i], d)
BY DEF LockTypes

(* A step of one process, among the points there are. *)
LEMMA OneProcess ==
    ASSUME LockTypes, Keeps, UNCHANGED <<now, points>>,
           NEW w \in Procs, NEW new \in Process,
           proc' = [proc EXCEPT ![w] = new],
           w = Backup => new.pc = "idle" \/ new.point \in 1..Len(points)
    PROVE  LockTypes'
<1>1. proc' \in [Procs -> Process]
  BY DEF LockTypes
<1>2. proc'[Backup].pc # "idle" => proc'[Backup].point \in 1..Len(points)
  BY Constants DEF LockTypes
<1> QED
  BY <1>1, <1>2 DEF LockTypes, Keeps

(* A process goes on after its copy or its failure. *)
LEMMA Returning ==
    ASSUME LockTypes, Keeps, UNCHANGED <<now, points>>,
           NEW w \in Procs, proc[w].pc # "idle", Return(w)
    PROVE  LockTypes'
<1>1. PICK new \in Process :
        /\ proc' = [proc EXCEPT ![w] = new]
        /\ w = Backup => new.pc = "idle" \/ new.point = proc[w].point
  BY ReturnType
<1>2. w = Backup => new.pc = "idle" \/ new.point \in 1..Len(points)
  BY <1>1 DEF LockTypes
<1> QED
  BY <1>1, <1>2, OneProcess

LEMMA InitLocks ==
    Init => LockTypes
<1> SUFFICES ASSUME Init PROVE LockTypes
  OBVIOUS
<1>1. rules \in [RuleIds -> Rule]
  <2>1. /\ <<"age", 0>> \in Rule /\ <<"indefinite", 0>> \in Rule
        /\ <<"date", MaxTime>> \in Rule
    BY Constants, DateRule DEF Rule
  <2> QED
    BY <2>1 DEF Init, RuleIds, Namespaces
<1>2. proc \in [Procs -> Process] /\ proc[Backup].pc = "idle"
  BY IdleType, Constants DEF Init
<1>3. points \in Seq(Point) /\ Len(points) = 0
  BY DEF Init
<1> QED
  BY <1>1, <1>2, <1>3, Constants DEF Init, LockTypes

LEMMA BackUpKeeps ==
    ASSUME LockTypes, NEW d \in PolicyDays, NEW s \in BOOLEAN, BackUp(d, s)
    PROVE  LockTypes' /\ Keeps
<1> DEFINE row == [until |-> now + d, days |-> d, suspicious |-> s]
<1>1. Keeps
  BY SameLocks, SameRules DEF BackUp, provider, Keeps
<1>2. row \in Point
  BY Constants DEF LockTypes, Point
<1>3. points' = Append(points, row) /\ Len(points) < MaxPoints
  BY DEF BackUp, Last
<1> HIDE DEF row
<1>4. points' \in Seq(Point) /\ Len(points') = Len(points) + 1
  BY <1>2, <1>3 DEF LockTypes
<1>5. Len(points) + 1 \in Points
  BY <1>3, Constants DEF LockTypes, Points
<1>6. CopyTo(Len(points) + 1, 1) \in Process
        /\ CopyTo(Len(points) + 1, 1).point = Len(points) + 1
  BY <1>5, CopyToType
<1>7. proc' = [proc EXCEPT ![Backup] = CopyTo(Len(points) + 1, 1)]
  BY DEF BackUp, Last
<1>8. proc' \in [Procs -> Process] /\ proc'[Backup].point = Len(points')
  BY <1>4, <1>6, <1>7, Constants DEF LockTypes
<1>9. Len(points') \in 1..Len(points') /\ Len(points') <= MaxPoints
  BY <1>3, <1>4, Constants DEF LockTypes
<1>10. now' = now
  BY DEF BackUp
<1> QED
  BY <1>1, <1>4, <1>8, <1>9, <1>10 DEF LockTypes, Keeps

LEMMA StartKeeps ==
    ASSUME LockTypes, NEW w \in Writers, Sync(w) \/ InitLock(w)
    PROVE  LockTypes' /\ Keeps
<1>1. w \in Procs /\ w # Backup
  BY ReplicaAssumption DEF Procs
<1>2. Keeps
  BY SameLocks, SameRules DEF Sync, InitLock, provider, Keeps
<1>3. UNCHANGED <<now, points>>
  BY DEF Sync, InitLock, catalogue
<1>4. CASE Sync(w)
  <2> DEFINE new == [IdleProcess EXCEPT !.pc = "copy", !.point = Last]
  <2>1. Last \in Points
    BY <1>4, Constants DEF Sync, Last, LockTypes, Points
  <2>2. new \in Process
    BY <2>1, IdleType DEF IdleProcess, Process
  <2>3. proc' = [proc EXCEPT ![w] = new]
    BY <1>4 DEF Sync
  <2> HIDE DEF new
  <2> QED
    BY <1>1, <1>2, <1>3, <2>2, <2>3, OneProcess
<1>5. CASE InitLock(w)
  <2> DEFINE new == [IdleProcess EXCEPT !.pc = "get"]
  <2>1. new \in Process
    BY IdleType DEF IdleProcess, Process
  <2>2. proc' = [proc EXCEPT ![w] = new]
    BY <1>5 DEF InitLock
  <2> HIDE DEF new
  <2> QED
    BY <1>1, <1>2, <1>3, <2>1, <2>2, OneProcess
<1> QED
  BY <1>4, <1>5

LEMMA ReadSteps ==
    ASSUME LockTypes, NEW w \in Procs, CopySnapshot(w) \/ R2Get(w)
    PROVE  LockTypes' /\ Keeps
<1> DEFINE x == proc[w]
           until == now + MaxOf(LockDays, MinimumDays(w))
<1>1. x \in Process /\ x.pc # "idle"
  BY DEF LockTypes, CopySnapshot, R2Get
<1>2. until \in Nat
  BY <1>1, RetainNat
<1>3. Keeps
  BY SameLocks, SameRules DEF CopySnapshot, R2Get, provider, Keeps
<1>4. UNCHANGED <<now, points>>
  BY DEF CopySnapshot, R2Get, catalogue
<1>5. w = Backup => x.point \in 1..Len(points)
  BY <1>1 DEF LockTypes
<1> HIDE DEF until
<1>6. CASE CopySnapshot(w)
  <2> DEFINE pc == IF x.target = "r2" THEN "get" ELSE "lock"
             retain == IF x.target = "s3" THEN until ELSE 0
             new == [x EXCEPT !.pc = pc, !.retain = retain]
  <2>1. proc' = [proc EXCEPT ![w] = new]
    BY <1>6 DEF CopySnapshot, until, LockTypes
  <2>2. new \in Process /\ new.point = x.point
    BY <1>1, <1>2 DEF Process
  <2> HIDE DEF new
  <2> QED
    BY <1>3, <1>4, <1>5, <2>1, <2>2, OneProcess
<1>7. CASE R2Get(w)
  <2> DEFINE new == [x EXCEPT !.pc = "put", !.seen = rules, !.retain = until]
  <2>1. proc' = [proc EXCEPT ![w] = new]
    BY <1>7 DEF R2Get, until, LockTypes
  <2>2. new \in Process /\ new.point = x.point
    BY <1>1, <1>2 DEF Process, LockTypes
  <2> HIDE DEF new
  <2> QED
    BY <1>3, <1>4, <1>5, <2>1, <2>2, OneProcess
<1> QED
  BY <1>6, <1>7

(* The list that is put back keeps what the one that was read kept; while  *)
(* nobody has raced, that one is still the bucket's.                       *)
LEMMA PutKeeps ==
    ASSUME LockTypes, NEW w \in Procs, R2Put(w)
    PROVE  LockTypes' /\ Keeps
<1> DEFINE x == proc[w]
           merged == Merged(x.seen, x.retain)
<1>1. x \in Process /\ x.pc # "idle"
  BY DEF LockTypes, R2Put
<1>2. /\ merged \in [RuleIds -> Rule]
      /\ \A i \in RuleIds, d \in Nat :
           RuleKeeps(x.seen[i], d) => RuleKeeps(merged[i], d)
  <2>1. x.seen \in [RuleIds -> Rule] /\ x.retain \in Nat
    BY <1>1 DEF Process
  <2> QED
    BY <2>1, MergedKeeps
<1>3. \/ UNCHANGED rules
      \/ rules' = merged /\ (raced' \/ rules = x.seen)
  BY DEF R2Put
<1>4. /\ rules' \in [RuleIds -> Rule]
      /\ \A i \in RuleIds, d \in Nat :
           ~raced' /\ RuleKeeps(rules[i], d) => RuleKeeps(rules'[i], d)
  <2> HIDE DEF merged
  <2> QED
    BY <1>2, <1>3, SameRules
<1>5. Keeps
  BY <1>4, SameLocks DEF R2Put, Keeps
<1>6. UNCHANGED <<now, points>>
  BY DEF R2Put, catalogue
<1>7. CASE x.point = 0
  BY <1>1, <1>5, <1>6, <1>7, Returning DEF R2Put
<1>8. CASE x.point # 0
  <2> DEFINE new == [x EXCEPT !.pc = "record", !.seen = NoRules]
  <2>1. proc' = [proc EXCEPT ![w] = new]
    BY <1>8 DEF R2Put, LockTypes
  <2>2. NoRules \in [RuleIds -> Rule]
    BY DateRule DEF NoRules
  <2>3. new \in Process /\ new.point = x.point
    BY <1>1, <2>2 DEF Process
  <2>4. w = Backup => x.point \in 1..Len(points)
    BY <1>1 DEF LockTypes
  <2> HIDE DEF new
  <2> QED
    BY <1>5, <1>6, <2>1, <2>3, <2>4, OneProcess
<1> QED
  BY <1>7, <1>8

LEMMA LockKeeps ==
    ASSUME LockTypes, NEW w \in Procs, LockObjects(w)
    PROVE  LockTypes' /\ Keeps
<1> DEFINE x == proc[w]
           new == [x EXCEPT !.pc = "record"]
<1>1. x \in Process /\ x.pc # "idle" /\ x.retain \in Nat
  BY DEF LockTypes, LockObjects, Process
<1>2. Keeps
  BY <1>1, ExtendedKeeps, SameRules DEF LockObjects, Keeps
<1>3. UNCHANGED <<now, points>>
  BY DEF LockObjects, catalogue
<1>4. proc' = [proc EXCEPT ![w] = new]
  BY DEF LockObjects, Goto, LockTypes
<1>5. new \in Process /\ new.point = x.point
  BY <1>1 DEF Process
<1>6. w = Backup => x.point \in 1..Len(points)
  BY <1>1 DEF LockTypes
<1> HIDE DEF new
<1> QED
  BY <1>2, <1>3, <1>4, <1>5, <1>6, OneProcess

LEMMA EndKeeps ==
    ASSUME LockTypes, NEW w \in Procs, Record(w) \/ CopyFails(w) \/ Kill(w)
    PROVE  LockTypes' /\ Keeps
<1>1. proc[w] \in Process /\ proc[w].pc # "idle" /\ proc[w].retain \in Nat
  BY DEF LockTypes, Record, CopyFails, Kill, Process
<1>2. UNCHANGED <<now, points, rules>>
  BY DEF Record, CopyFails, Kill, catalogue, provider
<1>3. /\ locks' \in [Objects -> Nat]
      /\ \A o \in Objects : locks'[o] >= locks[o]
  <2>1. CASE Record(w)
    BY <2>1, SameLocks DEF Record, provider
  <2>2. CASE CopyFails(w) \/ Kill(w)
    <3>1. PICK done : locks' = Extended(done, proc[w].retain)
      BY <2>2 DEF CopyFails, Kill, SomeLocked
    <3> QED
      BY <1>1, <3>1, ExtendedKeeps
  <2> QED
    BY <2>1, <2>2
<1>4. Keeps
  BY <1>2, <1>3, SameRules DEF Keeps
<1>5. CASE Record(w) \/ CopyFails(w)
  BY <1>1, <1>2, <1>4, <1>5, Returning DEF Record, CopyFails
<1>6. CASE Kill(w)
  <2>1. proc' = [proc EXCEPT ![w] = IdleProcess]
    BY <1>6 DEF Kill
  <2> QED
    BY <1>2, <1>4, <2>1, IdleType, OneProcess
<1> QED
  BY <1>5, <1>6

LEMMA NextKeeps ==
    ASSUME LockTypes, [Next]_vars
    PROVE  LockTypes' /\ Keeps
<1>1. ASSUME NEW d \in PolicyDays, NEW s \in BOOLEAN, BackUp(d, s)
      PROVE  LockTypes' /\ Keeps
  BY <1>1, BackUpKeeps
<1>2. ASSUME NEW w \in Writers, Sync(w) \/ InitLock(w)
      PROVE  LockTypes' /\ Keeps
  BY <1>2, StartKeeps
<1>3. ASSUME NEW w \in Procs, Step(w)
      PROVE  LockTypes' /\ Keeps
  BY <1>3, ReadSteps, PutKeeps, LockKeeps, EndKeeps DEF Step
<1>4. ASSUME NEW w \in Procs, CopyFails(w) \/ Kill(w)
      PROVE  LockTypes' /\ Keeps
  BY <1>4, EndKeeps
<1>5. CASE Tick
  <2>1. Keeps
    BY <1>5, SameLocks, SameRules DEF Tick, provider, Keeps
  <2>2. UNCHANGED <<points, proc>> /\ now' \in Nat
    BY <1>5 DEF Tick, catalogue, LockTypes
  <2> QED
    BY <2>1, <2>2 DEF LockTypes, Keeps
<1>6. CASE UNCHANGED vars
  <2>1. Keeps
    BY <1>6, SameLocks, SameRules DEF vars, Keeps
  <2> QED
    BY <1>6, <2>1 DEF LockTypes, vars
<1> QED
  BY <1>1, <1>2, <1>3, <1>4, <1>5, <1>6 DEF Next

(* For any number of commands and points, no step of a backup, of dr-sync, *)
(* of replica-lock-init, of a failure or of a kill shortens the retention  *)
(* of an object of the S3 bucket, nor, while no stale list was put back,   *)
(* takes away what a rule of the R2 bucket keeps (apply_object_lock,       *)
(* ensure_r2_bucket_lock).                                                 *)
THEOREM NeverShortenedCorrect == Spec => NeverShortened
<1> DEFINE Kept ==
      /\ \A o \in Objects : locks'[o] >= locks[o]
      /\ \A i \in RuleIds, d \in 0..(MaxTime + KeepWithin) :
           ~raced' /\ RuleKeeps(rules[i], d) => RuleKeeps(rules'[i], d)
<1>1. Init => LockTypes
  BY InitLocks
<1>2. LockTypes /\ [Next]_vars => LockTypes'
  BY NextKeeps
<1>3. LockTypes /\ [Next]_vars => [Kept]_vars
  <2>1. \A d \in 0..(MaxTime + KeepWithin) : d \in Nat
    BY Constants
  <2> QED
    BY <2>1, NextKeeps DEF Keeps
<1> QED
  BY <1>1, <1>2, <1>3, PTL DEF Spec, NeverShortened

-----------------------------------------------------------------------------
(* Recorded copies are locked.                                             *)

(* What a process relies on at its next step: its point is catalogued, the *)
(* objects it is about to lock are there, the bucket still keeps what the  *)
(* list it read kept, and what it is about to record is locked.            *)
ProcInv(w) ==
    /\ proc[w].point # 0 => proc[w].point \in 1..Len(points)
    /\ proc[w].pc \in {"copy", "lock", "record"} => proc[w].point # 0
    /\ proc[w].pc \in {"get", "put"} => proc[w].target = "r2"
    /\ proc[w].pc = "lock" =>
         proc[w].target = "s3" /\ {Pack, proc[w].point} \subseteq held["s3"]
    /\ proc[w].pc = "put" /\ ~raced =>
         \A i \in RuleIds, d \in Nat :
           RuleKeeps(proc[w].seen[i], d) => RuleKeeps(rules[i], d)
    /\ proc[w].pc = "record" /\ ~raced =>
         LockedUntil(proc[w].point, proc[w].target, proc[w].retain)
    /\ w = Backup /\ proc[w].pc \in {"lock", "put", "record"} =>
         points[proc[w].point].until <= proc[w].retain

(* A point's window began when it was made. *)
PointInv == \A p \in 1..Len(points) : points[p].until <= now + points[p].days

CopyTypes ==
    /\ held \in [Targets -> SUBSET Objects]
    /\ copies \in [Points \X Targets -> Copy]

CopyInv ==
    /\ LockTypes /\ CopyTypes /\ PointInv
    /\ \A w \in Procs : ProcInv(w)
    /\ CopyLocked

(* What only grows. *)
Grow ==
    /\ now' >= now
    /\ Len(points') >= Len(points)
    /\ \A p \in 1..Len(points) : points'[p] = points[p]
    /\ \A t \in Targets : held[t] \subseteq held'[t]
    /\ raced => raced'

LEMMA NextGrows ==
    ASSUME LockTypes, CopyTypes, [Next]_vars
    PROVE  Grow
<1>1. CASE UNCHANGED <<now, points, held, raced>>
  BY <1>1 DEF Grow, LockTypes
<1>2. ASSUME NEW d \in PolicyDays, NEW s \in BOOLEAN, BackUp(d, s)
      PROVE  Grow
  <2> DEFINE row == [until |-> now + d, days |-> d, suspicious |-> s]
  <2>1. row \in Point
    BY Constants DEF LockTypes, Point
  <2>2. points' = Append(points, row)
    BY <1>2 DEF BackUp
  <2> HIDE DEF row
  <2>3. /\ Len(points') >= Len(points)
        /\ \A p \in 1..Len(points) : points'[p] = points[p]
    BY <2>1, <2>2 DEF LockTypes
  <2> QED
    BY <1>2, <2>3 DEF BackUp, provider, Grow, LockTypes
<1>3. ASSUME NEW w \in Procs, CopySnapshot(w)
      PROVE  Grow
  <2>1. proc[w].target \in Targets
    BY DEF LockTypes, Process
  <2>2. \A t \in Targets : held[t] \subseteq held'[t]
    BY <1>3, <2>1 DEF CopySnapshot, CopyTypes
  <2> QED
    BY <1>3, <2>2 DEF CopySnapshot, catalogue, Grow, LockTypes
<1>4. ASSUME NEW w \in Procs, R2Put(w)
      PROVE  Grow
  <2>1. raced => raced'
    BY <1>4, Zenon DEF R2Put
  <2> QED
    BY <1>4, <2>1 DEF R2Put, catalogue, Grow, LockTypes
<1>5. CASE Tick
  BY <1>5 DEF Tick, catalogue, provider, Grow, LockTypes
<1>6. ASSUME NEW w \in Procs,
             \/ Sync(w) \/ InitLock(w) \/ R2Get(w) \/ LockObjects(w)
             \/ Record(w) \/ CopyFails(w) \/ Kill(w)
      PROVE  UNCHANGED <<now, points, held, raced>>
  BY <1>6 DEF Sync, InitLock, R2Get, LockObjects, Record, CopyFails, Kill,
              catalogue, provider
<1>7. \A w \in Writers : w \in Procs
  BY DEF Procs
<1> QED
  BY <1>1, <1>2, <1>3, <1>4, <1>5, <1>6, <1>7 DEF Next, Step, vars

(* What is locked stays locked. *)
LEMMA LockedStays ==
    ASSUME LockTypes, Keeps, ~raced', NEW p \in Points, NEW t \in Targets,
           NEW date \in Nat, LockedUntil(p, t, date)
    PROVE  LockedUntil(p, t, date)'
<1>1. CASE t = "r2"
  BY <1>1 DEF LockedUntil, Keeps, RuleIds
<1>2. CASE t # "r2"
  <2>1. \A o \in {Pack, p} : o \in Objects
    BY DEF Objects
  <2>2. \A o \in {Pack, p} : locks[o] \in Nat /\ locks'[o] \in Nat
                               /\ locks'[o] >= locks[o] /\ locks[o] >= date
    BY <1>2, <2>1 DEF LockedUntil, Keeps, LockTypes
  <2> QED
    BY <1>2, <2>2 DEF LockedUntil
<1> QED
  BY <1>1, <1>2

(* A step of another process takes nothing of this from one. *)
LEMMA OtherProcess ==
    ASSUME LockTypes, LockTypes', Keeps, Grow, NEW v \in Procs,
           proc'[v] = proc[v], ProcInv(v)
    PROVE  ProcInv(v)'
<1> DEFINE x == proc[v]
<1>1. x \in Process
  BY DEF LockTypes
<1>2. x.point # 0 => x.point \in 1..Len(points) /\ x.point \in 1..Len(points')
                       /\ points'[x.point] = points[x.point]
  BY DEF ProcInv, Grow, LockTypes
<1>3. x.pc \in {"copy", "lock", "record"} => x.point # 0
  BY DEF ProcInv
<1>4. x.pc = "put" /\ ~raced' =>
        \A i \in RuleIds, d \in Nat :
          RuleKeeps(x.seen[i], d) => RuleKeeps(rules'[i], d)
  BY DEF ProcInv, Keeps, Grow
<1>5. x.pc = "record" /\ ~raced' => LockedUntil(x.point, x.target, x.retain)'
  <2> SUFFICES ASSUME x.pc = "record", ~raced'
               PROVE  LockedUntil(x.point, x.target, x.retain)'
    OBVIOUS
  <2>1. LockedUntil(x.point, x.target, x.retain)
    BY DEF ProcInv, Grow
  <2>2. x.point \in Points /\ x.target \in Targets /\ x.retain \in Nat
    BY <1>1, <1>3 DEF Process
  <2> QED
    BY <2>1, <2>2, LockedStays
<1>6. v = Backup /\ x.pc \in {"lock", "put", "record"} => x.point # 0
  BY DEF LockTypes
<1>7. v = Backup /\ x.pc \in {"lock", "put", "record"} =>
        points'[x.point].until <= x.retain
  BY <1>2, <1>6 DEF ProcInv
<1>8. x.pc = "lock" => x.target = "s3" /\ {Pack, x.point} \subseteq held'["s3"]
  BY DEF ProcInv, Grow, Targets
<1>9. x.pc \in {"get", "put"} => x.target = "r2"
  BY DEF ProcInv
<1> QED
  BY <1>2, <1>3, <1>4, <1>5, <1>7, <1>8, <1>9 DEF ProcInv

(* A copy that was recorded before stays as it was. *)
LockedCopy(p, t) ==
    LET c == copies[<<p, t>>] IN
    c.status = "success" /\ ~raced =>
      LockedUntil(p, t, IF Overstated(c) THEN c.retain ELSE c.until)

LEMMA CopyStays ==
    ASSUME LockTypes, CopyTypes, Keeps, Grow, NEW p \in Points,
           NEW t \in Targets, copies'[<<p, t>>] = copies[<<p, t>>],
           LockedCopy(p, t)
    PROVE  LockedCopy(p, t)'
<1> DEFINE c == copies[<<p, t>>]
           date == IF Overstated(c) THEN c.retain ELSE c.until
<1>1. date \in Nat
  BY DEF CopyTypes, Copy
<1>2. Overstated(c)' = Overstated(c)
  BY DEF Overstated
<1>3. SUFFICES ASSUME c.status = "success", ~raced'
               PROVE  LockedUntil(p, t, date)'
  BY <1>2 DEF LockedCopy
<1>4. LockedUntil(p, t, date)
  BY <1>3 DEF LockedCopy, Grow
<1>5. PICK day \in Nat : day = date
  BY <1>1
<1>6. LockedUntil(p, t, day)'
  BY <1>3, <1>4, <1>5, LockedStays
<1>7. date' = day
  BY <1>2, <1>5
<1> QED
  BY <1>6, <1>7 DEF LockedUntil

LEMMA CopiesStay ==
    ASSUME LockTypes, CopyTypes, Keeps, Grow, CopyLocked, UNCHANGED copies
    PROVE  CopyLocked'
<1>1. ASSUME NEW p \in Points, NEW t \in Targets
      PROVE  LockedCopy(p, t)'
  BY CopyStays DEF CopyLocked, LockedCopy
<1> QED
  BY <1>1 DEF CopyLocked, LockedCopy

(* The points keep their windows. *)
LEMMA PointsStay ==
    ASSUME LockTypes, LockTypes', PointInv, now' >= now, UNCHANGED points
    PROVE  PointInv'
<1> SUFFICES ASSUME NEW p \in 1..Len(points)
             PROVE  points[p].until <= now' + points[p].days
  BY DEF PointInv
<1>1. points[p] \in Point
  BY DEF LockTypes
<1>2. points[p].until \in Nat /\ points[p].days \in Nat
  BY <1>1 DEF Point
<1>3. now \in Nat /\ now' \in Nat /\ points[p].until <= now + points[p].days
  BY DEF PointInv, LockTypes
<1> QED
  BY <1>2, <1>3

(* A process that is idle again or goes on to its next replica. *)
LEMMA ReturnInv ==
    ASSUME LockTypes, UNCHANGED points, NEW w \in Procs, proc[w].pc # "idle",
           ProcInv(w), Return(w)
    PROVE  /\ \A v \in Procs \ {w} : proc'[v] = proc[v]
           /\ ProcInv(w)'
<1>1. PICK new \in Process :
        /\ proc' = [proc EXCEPT ![w] = new]
        /\ \/ new.pc = "idle" /\ new.point = 0
           \/ new.pc = "copy" /\ new.point = proc[w].point /\ new.point # 0
  BY ReturnType
<1>2. proc'[w] = new /\ \A v \in Procs \ {w} : proc'[v] = proc[v]
  BY <1>1 DEF LockTypes
<1>3. new.point # 0 => new.point \in 1..Len(points)
  BY <1>1 DEF ProcInv
<1>4. new.pc \in {"idle", "copy"} /\ (new.pc = "copy" => new.point # 0)
  BY <1>1
<1> QED
  BY <1>2, <1>3, <1>4 DEF ProcInv

(* What remains to be shown of a step of w. *)
LEMMA StepOf ==
    ASSUME CopyInv, [Next]_vars, NEW w \in Procs, CopyTypes', PointInv',
           CopyLocked', ProcInv(w)', \A v \in Procs \ {w} : proc'[v] = proc[v]
    PROVE  CopyInv'
<1>1. LockTypes' /\ Keeps /\ Grow
  BY NextKeeps, NextGrows DEF CopyInv
<1>2. ASSUME NEW v \in Procs \ {w}
      PROVE  ProcInv(v)'
  BY <1>1, <1>2, OtherProcess DEF CopyInv
<1> QED
  BY <1>1, <1>2 DEF CopyInv

LEMMA InitCopies ==
    Init => CopyInv
<1> SUFFICES ASSUME Init PROVE CopyInv
  OBVIOUS
<1>1. LockTypes
  BY InitLocks
<1>2. NoCopy \in Copy /\ NoCopy.status = "none"
  BY DEF NoCopy, Copy
<1>3. CopyTypes
  BY <1>2 DEF Init, CopyTypes
<1>4. CopyLocked
  BY <1>2 DEF Init, CopyLocked
<1>5. PointInv
  BY DEF Init, PointInv
<1>6. ASSUME NEW w \in Procs PROVE ProcInv(w)
  <2>1. proc[w].pc = "idle" /\ proc[w].point = 0
    BY IdleType DEF Init
  <2> QED
    BY <2>1 DEF ProcInv
<1> QED
  BY <1>1, <1>3, <1>4, <1>5, <1>6 DEF CopyInv

LEMMA BackUpLocked ==
    ASSUME CopyInv, NEW d \in PolicyDays, NEW s \in BOOLEAN, BackUp(d, s)
    PROVE  CopyInv'
<1> DEFINE row == [until |-> now + d, days |-> d, suspicious |-> s]
<1>1. LockTypes /\ [Next]_vars
  BY DEF Next, CopyInv
<1>2. LockTypes' /\ Keeps /\ Grow
  BY <1>1, NextKeeps, NextGrows DEF CopyInv
<1>3. row \in Point /\ row.until = now + row.days
  BY <1>1, Constants DEF LockTypes, Point
<1>4. points' = Append(points, row) /\ now' = now /\ Len(points) < MaxPoints
  BY DEF BackUp, Last
<1> HIDE DEF row
<1>5. /\ Len(points') = Len(points) + 1 /\ points'[Len(points) + 1] = row
      /\ \A p \in 1..Len(points) : points'[p] = points[p]
  BY <1>1, <1>3, <1>4 DEF LockTypes
<1>6. PointInv'
  <2> SUFFICES ASSUME NEW p \in 1..Len(points')
               PROVE  points'[p].until <= now + points'[p].days
    BY <1>4 DEF PointInv
  <2>1. CASE p \in 1..Len(points)
    BY <1>5, <2>1 DEF CopyInv, PointInv
  <2>2. CASE p \notin 1..Len(points)
    <3>1. points'[p] = row
      BY <1>1, <1>5, <2>2 DEF LockTypes
    <3>2. row.days \in Nat
      BY <1>3 DEF Point
    <3> QED
      BY <1>1, <1>3, <3>1, <3>2 DEF LockTypes
  <2> QED
    BY <2>1, <2>2
<1>7. CopyTypes'
  BY DEF BackUp, provider, CopyInv, CopyTypes
<1>8. CopyLocked'
  BY <1>1, <1>2, CopiesStay DEF BackUp, CopyInv
<1>9. Len(points) + 1 \in Points /\ Len(points) + 1 # 0
  BY <1>1, <1>4, Constants DEF LockTypes, Points
<1>10. /\ proc'[Backup] = CopyTo(Len(points) + 1, 1)
       /\ \A v \in Procs \ {Backup} : proc'[v] = proc[v]
  BY <1>1, Constants DEF BackUp, Last, LockTypes
<1>11. proc'[Backup].pc = "copy" /\ proc'[Backup].point = Len(points) + 1
  BY <1>9, <1>10, CopyToType
<1>12. Len(points) + 1 \in 1..Len(points')
  BY <1>1, <1>5 DEF LockTypes
<1>13. ProcInv(Backup)'
  BY <1>9, <1>11, <1>12 DEF ProcInv
<1> QED
  BY <1>1, <1>6, <1>7, <1>8, <1>10, <1>13, Constants, StepOf

(* The steps that touch no point and no copy. *)
LEMMA QuietStep ==
    ASSUME CopyInv, [Next]_vars, UNCHANGED <<now, points, copies>>,
           NEW w \in Procs, held' \in [Targets -> SUBSET Objects],
           ProcInv(w)', \A v \in Procs \ {w} : proc'[v] = proc[v]
    PROVE  CopyInv'
<1>1. LockTypes /\ LockTypes' /\ Keeps /\ Grow
  BY NextKeeps, NextGrows DEF CopyInv
<1>2. CopyTypes'
  BY DEF CopyInv, CopyTypes
<1>3. CopyLocked'
  BY <1>1, CopiesStay DEF CopyInv
<1>4. PointInv'
  BY <1>1, PointsStay DEF CopyInv, Grow
<1> QED
  BY <1>2, <1>3, <1>4, StepOf

LEMMA StartLocked ==
    ASSUME CopyInv, NEW w \in Writers, Sync(w) \/ InitLock(w)
    PROVE  CopyInv'
<1>1. w \in Procs /\ w # Backup /\ [Next]_vars /\ LockTypes
  BY ReplicaAssumption DEF Procs, Next, CopyInv
<1>2. UNCHANGED <<now, points, copies, held>>
  BY DEF Sync, InitLock, catalogue, provider
<1>3. \A v \in Procs \ {w} : proc'[v] = proc[v]
  BY <1>1 DEF Sync, InitLock, LockTypes
<1>4. \/ /\ proc'[w].pc = "copy" /\ proc'[w].point = Len(points)
         /\ Len(points) > 0
      \/ /\ proc'[w].pc = "get" /\ proc'[w].point = 0
         /\ proc'[w].target = "r2"
  BY <1>1 DEF Sync, InitLock, Last, LockTypes, IdleProcess, DrReplica
<1>5. Len(points) > 0 => Len(points) \in 1..Len(points) /\ Len(points) # 0
  BY <1>1 DEF LockTypes
<1>6. ProcInv(w)'
  BY <1>1, <1>2, <1>4, <1>5 DEF ProcInv
<1> QED
  BY <1>1, <1>2, <1>3, <1>6, QuietStep DEF CopyInv, CopyTypes

(* The lock of a backup outlasts the window of its point. *)
LEMMA LongEnough ==
    ASSUME LockTypes, PointInv, proc[Backup].pc # "idle"
    PROVE  points[proc[Backup].point].until
             <= now + MaxOf(LockDays, MinimumDays(Backup))
<1> DEFINE p == proc[Backup].point
<1>1. p \in 1..Len(points)
  BY DEF LockTypes
<1>2. points[p] \in Point
  BY <1>1 DEF LockTypes
<1>3. points[p].until \in Nat /\ points[p].days \in Nat
  BY <1>2 DEF Point
<1>4. points[p].until <= now + points[p].days
  BY <1>1 DEF PointInv
<1>5. MaxOf(LockDays, points[p].days) >= points[p].days
        /\ MaxOf(LockDays, points[p].days) \in Nat
  BY <1>3, Constants DEF MaxOf
<1>6. MinimumDays(Backup) = points[p].days
  BY DEF MinimumDays
<1> HIDE DEF p
<1>7. points[p].until <= now + MaxOf(LockDays, points[p].days)
  BY <1>3, <1>4, <1>5 DEF LockTypes
<1> QED
  BY <1>6, <1>7 DEF p

LEMMA CopyingLocked ==
    ASSUME CopyInv, NEW w \in Procs, CopySnapshot(w)
    PROVE  CopyInv'
<1> DEFINE x == proc[w]
           until == now + MaxOf(LockDays, MinimumDays(w))
<1>1. LockTypes /\ PointInv /\ ProcInv(w) /\ [Next]_vars /\ x.pc = "copy"
  BY DEF CopySnapshot, Step, Next, CopyInv
<1>2. x \in Process
  BY <1>1 DEF LockTypes
<1>3. UNCHANGED <<now, points, copies>>
  BY DEF CopySnapshot, catalogue
<1>4. x.point \in 1..Len(points) /\ x.point # 0
  BY <1>1 DEF ProcInv
<1>5. x.point \in Objects /\ Pack \in Objects /\ x.target \in Targets
  BY <1>2 DEF Process, Objects, Pack
<1>6. /\ held' \in [Targets -> SUBSET Objects]
      /\ {Pack, x.point} \subseteq held'[x.target]
  BY <1>5 DEF CopySnapshot, CopyInv, CopyTypes
<1>7. /\ \A v \in Procs \ {w} : proc'[v] = proc[v]
      /\ proc'[w].point = x.point /\ proc'[w].target = x.target
      /\ \/ x.target = "r2" /\ proc'[w].pc = "get"
         \/ x.target = "s3" /\ proc'[w].pc = "lock" /\ proc'[w].retain = until
  BY <1>1, <1>2, <1>5 DEF CopySnapshot, LockTypes, Process, Targets
<1>8. w = Backup => points[x.point].until <= until
  BY <1>1, LongEnough
<1> HIDE DEF until
<1>9. ProcInv(w)'
  BY <1>3, <1>4, <1>6, <1>7, <1>8 DEF ProcInv
<1> QED
  BY <1>1, <1>3, <1>6, <1>7, <1>9, QuietStep

LEMMA GetLocked ==
    ASSUME CopyInv, NEW w \in Procs, R2Get(w)
    PROVE  CopyInv'
<1> DEFINE x == proc[w]
           until == now + MaxOf(LockDays, MinimumDays(w))
<1>1. LockTypes /\ PointInv /\ ProcInv(w) /\ [Next]_vars /\ x.pc = "get"
  BY DEF R2Get, Step, Next, CopyInv
<1>2. x \in Process
  BY <1>1 DEF LockTypes
<1>3. UNCHANGED <<now, points, copies, held, rules>>
  BY DEF R2Get, catalogue, provider
<1>4. /\ \A v \in Procs \ {w} : proc'[v] = proc[v]
      /\ proc'[w].point = x.point /\ proc'[w].target = x.target
      /\ proc'[w].pc = "put" /\ proc'[w].retain = until
      /\ proc'[w].seen = rules
  BY <1>2 DEF R2Get, CopyInv, LockTypes, Process
<1>5. w = Backup => points[x.point].until <= until
  BY <1>1, LongEnough
<1> HIDE DEF until
<1>6. (x.point # 0 => x.point \in 1..Len(points)) /\ x.target = "r2"
  BY <1>1 DEF ProcInv
<1>7. ProcInv(w)'
  BY <1>3, <1>4, <1>5, <1>6 DEF ProcInv
<1> QED
  BY <1>1, <1>3, <1>4, <1>7, QuietStep DEF CopyInv, CopyTypes

(* The list that is put back locks every namespace until the date. *)
LEMMA MergedLocks ==
    ASSUME NEW seen \in [RuleIds -> Rule], NEW until \in Nat,
           NEW i \in Namespaces
    PROVE  RuleKeeps(Merged(seen, until)[i], until)
<1>1. i \in RuleIds
  BY DEF RuleIds
<1>2. Merged(seen, until)[i] =
        IF ~_r2_rule_covers_until(seen[i], until)
          THEN <<"date", until>> ELSE seen[i]
  BY <1>1 DEF Merged
<1>3. CASE _r2_rule_covers_until(seen[i], until)
  BY <1>2, <1>3 DEF _r2_rule_covers_until, RuleKeeps
<1>4. CASE ~_r2_rule_covers_until(seen[i], until)
  BY <1>2, <1>4 DEF RuleKeeps
<1> QED
  BY <1>3, <1>4

LEMMA PutLocked ==
    ASSUME CopyInv, NEW w \in Procs, R2Put(w)
    PROVE  CopyInv'
<1> DEFINE x == proc[w]
           merged == Merged(x.seen, x.retain)
<1>1. LockTypes /\ ProcInv(w) /\ [Next]_vars /\ x.pc = "put"
  BY DEF R2Put, Step, Next, CopyInv
<1>2. x \in Process /\ x.seen \in [RuleIds -> Rule] /\ x.retain \in Nat
  BY <1>1 DEF LockTypes, Process
<1>3. UNCHANGED <<now, points, copies, held>>
  BY DEF R2Put, catalogue
<1>4. CASE x.point = 0
  <2>1. Return(w)
    BY <1>4 DEF R2Put
  <2> QED
    BY <1>1, <1>3, <2>1, ReturnInv, QuietStep DEF CopyInv, CopyTypes
<1>5. CASE x.point # 0
  <2>1. /\ \A v \in Procs \ {w} : proc'[v] = proc[v]
        /\ proc'[w].point = x.point /\ proc'[w].target = x.target
        /\ proc'[w].pc = "record" /\ proc'[w].retain = x.retain
    BY <1>2, <1>5 DEF R2Put, CopyInv, LockTypes, Process
  <2>2. x.target = "r2" /\ x.point \in 1..Len(points)
    BY <1>1, <1>5 DEF ProcInv
  <2>3. ASSUME ~raced', NEW i \in Namespaces
        PROVE  RuleKeeps(rules'[i], x.retain)
    <3>1. i \in RuleIds
      BY DEF RuleIds
    <3>2. RuleKeeps(merged[i], x.retain)
      BY <1>2, MergedLocks
    <3>3. CASE merged = x.seen
      <4>1. ~raced /\ rules' = rules
        BY <2>3, <3>3 DEF R2Put
      <4>2. RuleKeeps(x.seen[i], x.retain) => RuleKeeps(rules[i], x.retain)
        BY <1>1, <1>2, <3>1, <4>1 DEF ProcInv
      <4> QED
        BY <3>2, <3>3, <4>1, <4>2
    <3>4. CASE merged # x.seen
      <4>1. rules' = merged
        BY <3>4 DEF R2Put
      <4> HIDE DEF merged
      <4> QED
        BY <3>2, <4>1
    <3> QED
      BY <3>3, <3>4
  <2>4. w = Backup => points[x.point].until <= x.retain
    BY <1>1 DEF ProcInv
  <2>5. ~raced' => LockedUntil(proc[w].point, proc[w].target, proc[w].retain)'
    BY <2>1, <2>2, <2>3 DEF LockedUntil
  <2>6. ProcInv(w)'
    BY <1>3, <1>5, <2>1, <2>2, <2>4, <2>5 DEF ProcInv
  <2> QED
    BY <1>1, <1>3, <2>1, <2>6, QuietStep DEF CopyInv, CopyTypes
<1> QED
  BY <1>4, <1>5

LEMMA ObjectsLocked ==
    ASSUME CopyInv, NEW w \in Procs, LockObjects(w)
    PROVE  CopyInv'
<1> DEFINE x == proc[w]
<1>1. LockTypes /\ ProcInv(w) /\ [Next]_vars /\ x.pc = "lock"
  BY DEF LockObjects, Step, Next, CopyInv
<1>2. x \in Process /\ x.retain \in Nat
  BY <1>1 DEF LockTypes, Process
<1>3. UNCHANGED <<now, points, copies, held>>
  BY DEF LockObjects, catalogue
<1>4. /\ \A v \in Procs \ {w} : proc'[v] = proc[v]
      /\ proc'[w].point = x.point /\ proc'[w].target = x.target
      /\ proc'[w].pc = "record" /\ proc'[w].retain = x.retain
  BY <1>1, <1>2 DEF LockObjects, Goto, LockTypes, Process
<1>5. /\ x.point # 0 /\ x.point \in 1..Len(points)
      /\ x.target = "s3" /\ {Pack, x.point} \subseteq held["s3"]
      /\ w = Backup => points[x.point].until <= x.retain
  BY <1>1 DEF ProcInv
<1>6. ASSUME NEW o \in {Pack, x.point}
      PROVE  locks'[o] >= x.retain
  <2>1. o \in Objects /\ o \in held["s3"]
    BY <1>5 DEF CopyInv, CopyTypes, Targets
  <2>2. locks'[o] = MaxOf(locks[o], x.retain)
    BY <2>1 DEF LockObjects, Extended
  <2>3. locks[o] \in Nat
    BY <1>1, <2>1 DEF LockTypes
  <2> QED
    BY <1>2, <2>2, <2>3 DEF MaxOf
<1>7. LockedUntil(proc[w].point, proc[w].target, proc[w].retain)'
  BY <1>4, <1>5, <1>6 DEF LockedUntil
<1>8. ProcInv(w)'
  BY <1>3, <1>4, <1>5, <1>7 DEF ProcInv
<1> QED
  BY <1>1, <1>3, <1>4, <1>8, QuietStep DEF CopyInv, CopyTypes

(* What is locked until a date is locked until any earlier one. *)
LEMMA LockedEarlier ==
    ASSUME LockTypes, NEW p \in Points, NEW t \in Targets, NEW late \in Nat,
           NEW date \in Nat, date <= late, LockedUntil(p, t, late)
    PROVE  LockedUntil(p, t, date)
<1>1. CASE t = "r2"
  <2> SUFFICES ASSUME NEW i \in Namespaces PROVE RuleKeeps(rules[i], date)
    BY <1>1 DEF LockedUntil
  <2>1. rules[i] \in Rule
    BY DEF LockTypes, RuleIds
  <2>2. rules[i][2] \in Nat
    BY <2>1, RulePair
  <2>3. RuleKeeps(rules[i], late)
    BY <1>1 DEF LockedUntil
  <2> QED
    BY <2>2, <2>3 DEF RuleKeeps
<1>2. CASE t # "r2"
  <2>1. \A o \in {Pack, p} : locks[o] \in Nat /\ locks[o] >= late
    BY <1>2 DEF LockTypes, LockedUntil, Objects
  <2> QED
    BY <1>2, <2>1 DEF LockedUntil
<1> QED
  BY <1>1, <1>2

(* A recorded copy is locked until the date it is held to. *)
LEMMA RecordLocked ==
    ASSUME CopyInv, NEW w \in Procs, Record(w)
    PROVE  CopyInv'
<1> DEFINE p == proc[w].point
           t == proc[w].target
           r == proc[w].retain
           u == IF w = Backup /\ r > 0 THEN r ELSE points[p].until
           row == [status |-> "success", retain |-> r, by |-> w, until |-> u]
<1>1. LockTypes /\ ProcInv(w) /\ [Next]_vars /\ proc[w].pc = "record"
  BY DEF Record, Step, Next, CopyInv
<1>2. p \in Points /\ t \in Targets /\ r \in Nat
  <2>1. proc[w] \in Process /\ p # 0
    BY <1>1 DEF LockTypes, ProcInv
  <2> QED
    BY <2>1 DEF Process
<1>3. p \in 1..Len(points)
  BY <1>1 DEF ProcInv
<1>4. points[p].until \in Nat
  <2>1. points[p] \in Point
    BY <1>1, <1>3 DEF LockTypes
  <2> QED
    BY <2>1 DEF Point
<1>5. UNCHANGED <<now, points, held, rules, locks, raced>>
  BY DEF Record, provider
<1>6. copies' = [copies EXCEPT ![<<p, t>>] = row]
  BY DEF Record
<1>7. u \in Nat /\ (w = Backup => u <= r)
  BY <1>1, <1>2, <1>4 DEF ProcInv
<1>8. row \in Copy
  BY <1>2, <1>7 DEF Copy
<1>9. CopyTypes'
  BY <1>2, <1>5, <1>6, <1>8 DEF CopyInv, CopyTypes
<1>10. LockTypes' /\ Keeps /\ Grow
  BY <1>1, NextKeeps, NextGrows DEF CopyInv
<1>11. ~raced => LockedUntil(p, t, IF Overstated(row) THEN row.retain
                                   ELSE row.until)
  <2> SUFFICES ASSUME ~raced
               PROVE  LockedUntil(p, t, IF Overstated(row) THEN row.retain
                                        ELSE row.until)
    OBVIOUS
  <2>1. LockedUntil(p, t, r)
    BY <1>1 DEF ProcInv
  <2>2. CASE Overstated(row)
    BY <2>1, <2>2
  <2>3. CASE ~Overstated(row)
    <3>1. u <= r
      BY <1>2, <1>7, <2>3 DEF Overstated, Procs
    <3>2. LockedUntil(p, t, u)
      <4> HIDE DEF p, t, r, u
      <4> QED
        BY <1>1, <1>2, <1>7, <2>1, <3>1, LockedEarlier
    <3> QED
      BY <2>3, <3>2
  <2> QED
    BY <2>2, <2>3
<1> HIDE DEF u
<1>12. CopyLocked'
  <2> SUFFICES ASSUME NEW q \in Points, NEW s \in Targets
               PROVE  LockedCopy(q, s)'
    BY DEF CopyLocked, LockedCopy
  <2>1. CASE q = p /\ s = t
    <3>1. copies'[<<q, s>>] = row
      BY <1>2, <1>6, <2>1 DEF CopyInv, CopyTypes
    <3> HIDE DEF row
    <3>2. ~raced => LockedUntil(q, s, IF Overstated(row) THEN row.retain
                                      ELSE row.until)
      BY <1>11, <2>1
    <3> QED
      BY <1>5, <3>1, <3>2 DEF LockedCopy, LockedUntil, Overstated
  <2>2. CASE ~(q = p /\ s = t)
    <3>1. copies'[<<q, s>>] = copies[<<q, s>>]
      BY <1>2, <1>6, <2>2 DEF CopyInv, CopyTypes
    <3>2. LockedCopy(q, s)
      BY DEF CopyInv, CopyLocked, LockedCopy
    <3> QED
      BY <1>1, <1>10, <3>1, <3>2, CopyStays DEF CopyInv
  <2> QED
    BY <2>1, <2>2
<1>13. PointInv'
  BY <1>1, <1>5, <1>10, PointsStay DEF CopyInv, Grow
<1>14. ProcInv(w)' /\ \A v \in Procs \ {w} : proc'[v] = proc[v]
  BY <1>1, <1>5, ReturnInv DEF Record
<1> QED
  BY <1>1, <1>9, <1>12, <1>13, <1>14, StepOf

LEMMA FailLocked ==
    ASSUME CopyInv, NEW w \in Procs, CopyFails(w)
    PROVE  CopyInv'
<1> DEFINE p == proc[w].point
           t == proc[w].target
           row == [NoCopy EXCEPT !.status = "failed", !.by = w]
<1>1. LockTypes /\ ProcInv(w) /\ [Next]_vars /\ proc[w].pc # "idle"
  BY DEF CopyFails, Next, CopyInv
<1>2. UNCHANGED <<now, points, held>> /\ Return(w)
  BY DEF CopyFails
<1>3. LockTypes' /\ Keeps /\ Grow
  BY <1>1, NextKeeps, NextGrows DEF CopyInv
<1>4. row \in Copy /\ row.status # "success"
  BY DEF NoCopy, Copy
<1> HIDE DEF row
<1>5. UNCHANGED copies \/ copies' = [copies EXCEPT ![<<p, t>>] = row]
  BY DEF CopyFails, row
<1>6. CopyTypes'
  BY <1>2, <1>4, <1>5 DEF CopyInv, CopyTypes
<1>7. CopyLocked'
  <2> SUFFICES ASSUME NEW q \in Points, NEW s \in Targets
               PROVE  LockedCopy(q, s)'
    BY DEF CopyLocked, LockedCopy
  <2>1. \/ copies'[<<q, s>>] = copies[<<q, s>>]
        \/ copies'[<<q, s>>] = row
    BY <1>5 DEF CopyInv, CopyTypes
  <2>2. LockedCopy(q, s)
    BY DEF CopyInv, CopyLocked, LockedCopy
  <2>3. CASE copies'[<<q, s>>] = copies[<<q, s>>]
    BY <1>1, <1>3, <2>2, <2>3, CopyStays DEF CopyInv
  <2>4. CASE copies'[<<q, s>>] = row
    BY <1>4, <2>4 DEF LockedCopy
  <2> QED
    BY <2>1, <2>3, <2>4
<1>8. PointInv'
  BY <1>1, <1>2, <1>3, PointsStay DEF CopyInv, Grow
<1>9. ProcInv(w)' /\ \A v \in Procs \ {w} : proc'[v] = proc[v]
  BY <1>1, <1>2, ReturnInv
<1> QED
  BY <1>1, <1>6, <1>7, <1>8, <1>9, StepOf

LEMMA KillLocked ==
    ASSUME CopyInv, NEW w \in Procs, Kill(w)
    PROVE  CopyInv'
<1>1. [Next]_vars /\ LockTypes
  BY DEF Next, CopyInv
<1>2. UNCHANGED <<now, points, copies, held>>
  BY DEF Kill, catalogue
<1>3. proc'[w] = IdleProcess /\ \A v \in Procs \ {w} : proc'[v] = proc[v]
  BY <1>1 DEF Kill, LockTypes
<1>4. ProcInv(w)'
  BY <1>3, IdleType DEF ProcInv
<1> QED
  BY <1>1, <1>2, <1>3, <1>4, QuietStep DEF CopyInv, CopyTypes

LEMMA NextLocked ==
    ASSUME CopyInv, [Next]_vars
    PROVE  CopyInv'
<1>1. ASSUME NEW w \in Procs, Step(w)
      PROVE  CopyInv'
  BY <1>1, CopyingLocked, GetLocked, PutLocked, ObjectsLocked, RecordLocked
     DEF Step
<1>2. CASE Tick \/ UNCHANGED vars
  <2>1. LockTypes /\ LockTypes' /\ Keeps /\ Grow
    BY NextKeeps, NextGrows DEF CopyInv
  <2>2. UNCHANGED <<points, copies, held, proc>>
    BY <1>2 DEF Tick, catalogue, provider, vars
  <2>3. CopyTypes' /\ CopyLocked' /\ PointInv'
    BY <2>1, <2>2, CopiesStay, PointsStay DEF CopyInv, CopyTypes, Grow
  <2>4. ASSUME NEW v \in Procs PROVE ProcInv(v)'
    BY <2>1, <2>2, OtherProcess DEF CopyInv
  <2> QED
    BY <2>1, <2>3, <2>4 DEF CopyInv
<1> QED
  BY <1>1, <1>2, BackUpLocked, StartLocked, FailLocked, KillLocked DEF Next

(* For any number of commands, points and policies, a copy recorded as     *)
(* immutable until a date is locked by its provider until then, except     *)
(* where a stale list of rules was put back, and dr-sync is held to the    *)
(* date of its own lock (copy_snapshot, _backup_vm, sync).                 *)
THEOREM CopyLockedCorrect == Spec => []CopyLocked
<1>1. Init => CopyInv
  BY InitCopies
<1>2. CopyInv /\ [Next]_vars => CopyInv'
  BY NextLocked
<1>3. CopyInv => CopyLocked
  BY DEF CopyInv
<1> QED
  BY <1>1, <1>2, <1>3, PTL DEF Spec

-----------------------------------------------------------------------------
(* What verification reports as immutable.                                 *)

(* Only the backup copies to S3, and what it is about to record is locked, *)
(* whatever became of the rules of the R2 bucket meanwhile.                *)
S3Process(w) ==
    /\ proc[w].pc \in {"copy", "lock", "record"} /\ proc[w].target = "s3" =>
         w = Backup
    /\ proc[w].pc = "record" /\ proc[w].target = "s3" =>
         LockedUntil(proc[w].point, "s3", proc[w].retain)

(* A lock that was recorded for a copy on S3 is the date of the copy. *)
S3Copy(p) ==
    LET c == copies[<<p, "s3">>] IN
    c.retain > 0 => c.until = c.retain /\ LockedUntil(p, "s3", c.retain)

S3Inv ==
    /\ \A w \in Procs : S3Process(w)
    /\ \A p \in Points : S3Copy(p)

(* No retention of an object is ever shortened. *)
LEMMA S3Stays ==
    ASSUME LockTypes, Keeps, NEW p \in Points, NEW date \in Nat,
           LockedUntil(p, "s3", date)
    PROVE  LockedUntil(p, "s3", date)'
<1>1. \A o \in {Pack, p} : o \in Objects
  BY DEF Objects
<1>2. \A o \in {Pack, p} : locks[o] \in Nat /\ locks'[o] \in Nat
                             /\ locks'[o] >= locks[o] /\ locks[o] >= date
  BY <1>1 DEF LockedUntil, Keeps, LockTypes
<1> QED
  BY <1>2 DEF LockedUntil

LEMMA S3ProcessStays ==
    ASSUME CopyInv, Keeps, NEW v \in Procs, S3Process(v), proc'[v] = proc[v]
    PROVE  S3Process(v)'
<1> DEFINE x == proc[v]
<1> SUFFICES ASSUME x.pc = "record", x.target = "s3"
             PROVE  LockedUntil(x.point, "s3", x.retain)'
  BY DEF S3Process
<1>1. x \in Process /\ x.point # 0
  BY DEF CopyInv, LockTypes, ProcInv
<1>2. x.point \in Points /\ x.retain \in Nat
  BY <1>1 DEF Process
<1>3. LockedUntil(x.point, "s3", x.retain)
  BY DEF S3Process
<1>4. PICK p \in Points : p = x.point
  BY <1>2
<1>5. PICK date \in Nat : date = x.retain
  BY <1>2
<1>6. LockedUntil(p, "s3", date)'
  BY <1>3, <1>4, <1>5, S3Stays DEF CopyInv
<1> QED
  BY <1>4, <1>5, <1>6 DEF LockedUntil

(* Only the backup goes on to another replica. *)
LEMMA ReturnS3 ==
    ASSUME LockTypes, NEW w \in Procs, proc[w].pc # "idle", Return(w)
    PROVE  /\ S3Process(w)'
           /\ \A v \in Procs \ {w} : proc'[v] = proc[v]
<1>1. PICK new \in Process :
        /\ proc' = [proc EXCEPT ![w] = new]
        /\ new.pc = "idle" \/ new.pc = "copy"
  BY ReturnType
<1>2. proc'[w] = new /\ \A v \in Procs \ {w} : proc'[v] = proc[v]
  BY <1>1 DEF LockTypes
<1>3. CASE w = Backup
  BY <1>1, <1>2, <1>3 DEF S3Process
<1>4. CASE w # Backup
  <2> DEFINE to == IF w = Backup /\ proc[w].at < Len(Replicas)
                     THEN CopyTo(proc[w].point, proc[w].at + 1)
                     ELSE IdleProcess
  <2>1. proc' = [proc EXCEPT ![w] = to]
    BY DEF Return, LockTypes
  <2>2. to = IdleProcess
    BY <1>4
  <2> HIDE DEF to
  <2>3. proc'[w] = IdleProcess
    BY <2>1, <2>2 DEF LockTypes
  <2> QED
    BY <1>2, <2>3, IdleType DEF S3Process
<1> QED
  BY <1>2, <1>3, <1>4

(* A step of one process: its new state, the others as they were. *)
LEMMA OneS3 ==
    ASSUME CopyInv, \A v \in Procs : S3Process(v), Keeps, NEW w \in Procs,
           S3Process(w)', \A v \in Procs \ {w} : proc'[v] = proc[v]
    PROVE  \A v \in Procs : S3Process(v)'
  BY S3ProcessStays

LEMMA StepS3 ==
    ASSUME CopyInv, S3Inv, Keeps, NEW w \in Procs, Step(w)
    PROVE  \A v \in Procs : S3Process(v)'
<1> DEFINE x == proc[w]
<1>1. LockTypes /\ CopyTypes /\ ProcInv(w) /\ x \in Process /\ S3Process(w)
  BY DEF CopyInv, LockTypes, S3Inv
<1> SUFFICES S3Process(w)' /\ \A v \in Procs \ {w} : proc'[v] = proc[v]
  BY OneS3 DEF S3Inv
<1>2. CASE CopySnapshot(w)
  <2>1. /\ \A v \in Procs \ {w} : proc'[v] = proc[v]
        /\ proc'[w].target = x.target
        /\ \/ x.target = "r2" /\ proc'[w].pc = "get"
           \/ x.target = "s3" /\ proc'[w].pc = "lock"
    BY <1>1, <1>2 DEF CopySnapshot, LockTypes, Process, Targets
  <2>2. x.pc = "copy"
    BY <1>2 DEF CopySnapshot
  <2> QED
    BY <1>1, <2>1, <2>2 DEF S3Process
<1>3. CASE R2Get(w)
  <2>1. /\ \A v \in Procs \ {w} : proc'[v] = proc[v]
        /\ proc'[w].pc = "put"
    BY <1>1, <1>3 DEF R2Get, LockTypes, Process
  <2> QED
    BY <2>1 DEF S3Process
<1>4. CASE R2Put(w)
  <2>1. x.pc = "put" /\ x.target = "r2"
    BY <1>1, <1>4 DEF R2Put, ProcInv
  <2>2. CASE Return(w)
    BY <1>1, <2>1, <2>2, ReturnS3
  <2>3. CASE proc' = [proc EXCEPT ![w].pc = "record", ![w].seen = NoRules]
    <3>1. /\ \A v \in Procs \ {w} : proc'[v] = proc[v]
          /\ proc'[w].target = "r2"
      BY <1>1, <2>1, <2>3 DEF LockTypes, Process
    <3> QED
      BY <3>1 DEF S3Process
  <2> QED
    BY <1>4, <2>2, <2>3, Zenon DEF R2Put
<1>5. CASE LockObjects(w)
  <2>1. /\ \A v \in Procs \ {w} : proc'[v] = proc[v]
        /\ proc'[w].point = x.point /\ proc'[w].target = x.target
        /\ proc'[w].pc = "record" /\ proc'[w].retain = x.retain
        /\ x.pc = "lock"
    BY <1>1, <1>5 DEF LockObjects, Goto, LockTypes, Process
  <2>2. x.target = "s3" /\ {Pack, x.point} \subseteq held["s3"] /\ x.retain \in Nat
    BY <1>1, <2>1 DEF ProcInv, Process
  <2>3. ASSUME NEW o \in {Pack, x.point}
        PROVE  locks'[o] >= x.retain
    <3>1. o \in Objects /\ o \in held["s3"]
      BY <1>1, <2>2 DEF CopyTypes, Targets
    <3>2. locks'[o] = MaxOf(locks[o], x.retain)
      BY <1>5, <3>1 DEF LockObjects, Extended
    <3>3. locks[o] \in Nat
      BY <1>1, <3>1 DEF LockTypes
    <3> QED
      BY <2>2, <3>2, <3>3 DEF MaxOf
  <2>4. LockedUntil(proc[w].point, "s3", proc[w].retain)'
    BY <2>1, <2>3 DEF LockedUntil
  <2> QED
    BY <1>1, <2>1, <2>2, <2>4 DEF S3Process
<1>6. CASE Record(w)
  BY <1>1, <1>6, ReturnS3 DEF Record
<1> QED
  BY <1>2, <1>3, <1>4, <1>5, <1>6 DEF Step

LEMMA ProcessesS3 ==
    ASSUME CopyInv, S3Inv, [Next]_vars
    PROVE  \A v \in Procs : S3Process(v)'
<1>1. LockTypes /\ Keeps
  BY NextKeeps DEF CopyInv
<1>2. ASSUME NEW d \in PolicyDays, NEW s \in BOOLEAN, BackUp(d, s)
      PROVE  \A v \in Procs : S3Process(v)'
  <2>1. Last + 1 \in Points
    BY <1>1, <1>2, Constants DEF BackUp, Last, LockTypes, Points
  <2>2. CopyTo(Last + 1, 1).pc = "copy"
    BY <2>1, CopyToType
  <2>3. proc'[Backup].pc = "copy" /\ \A v \in Procs \ {Backup} : proc'[v] = proc[v]
    BY <1>1, <1>2, <2>2, Constants DEF BackUp, LockTypes
  <2> QED
    BY <1>1, <2>3, OneS3, Constants DEF S3Inv, S3Process
<1>3. ASSUME NEW w \in Writers, Sync(w) \/ InitLock(w)
      PROVE  \A v \in Procs : S3Process(v)'
  <2>1. w \in Procs
    BY DEF Procs
  <2>2. /\ \A v \in Procs \ {w} : proc'[v] = proc[v]
        /\ proc'[w].target = "r2"
    BY <1>1, <1>3, <2>1, IdleType
       DEF Sync, InitLock, IdleProcess, DrReplica, LockTypes
  <2> QED
    BY <1>1, <2>1, <2>2, OneS3 DEF S3Inv, S3Process
<1>4. ASSUME NEW w \in Procs, CopyFails(w)
      PROVE  \A v \in Procs : S3Process(v)'
  BY <1>1, <1>4, ReturnS3, OneS3 DEF CopyFails, S3Inv
<1>5. ASSUME NEW w \in Procs, Kill(w)
      PROVE  \A v \in Procs : S3Process(v)'
  <2>1. proc'[w] = IdleProcess /\ \A v \in Procs \ {w} : proc'[v] = proc[v]
    BY <1>1, <1>5 DEF Kill, LockTypes
  <2> QED
    BY <1>1, <2>1, IdleType, OneS3 DEF S3Inv, S3Process
<1>6. CASE Tick \/ UNCHANGED vars
  BY <1>1, <1>6, S3ProcessStays DEF Tick, vars, S3Inv
<1> QED
  BY <1>1, <1>2, <1>3, <1>4, <1>5, <1>6, StepS3 DEF Next

(* The lock of a copy that is recorded is the one its objects have. *)
LEMMA CopiesS3 ==
    ASSUME CopyInv, S3Inv, [Next]_vars, NEW p \in Points
    PROVE  S3Copy(p)'
<1>1. LockTypes /\ CopyTypes /\ Keeps /\ S3Copy(p)
  BY NextKeeps DEF CopyInv, S3Inv
<1>2. "s3" \in Targets /\ <<p, "s3">> \in Points \X Targets
  BY DEF Targets
<1>3. CASE copies'[<<p, "s3">>] = copies[<<p, "s3">>]
  <2>1. copies[<<p, "s3">>] \in Copy
    BY <1>1, <1>2 DEF CopyTypes
  <2>2. PICK date \in Nat : date = copies[<<p, "s3">>].retain
    BY <2>1 DEF Copy
  <2>3. date > 0 => LockedUntil(p, "s3", date)'
    BY <1>1, <2>2, S3Stays DEF S3Copy
  <2> QED
    BY <1>1, <1>3, <2>2, <2>3 DEF S3Copy, LockedUntil
<1>4. ASSUME NEW w \in Procs, Record(w), proc[w].point = p,
             proc[w].target = "s3"
      PROVE  S3Copy(p)'
  <2>0. PICK r \in Nat : r = proc[w].retain
    BY <1>1 DEF LockTypes, Process
  <2>1. w = Backup /\ LockedUntil(p, "s3", r)
    BY <1>4, <2>0 DEF S3Inv, S3Process, Record
  <2>2. /\ copies'[<<p, "s3">>].retain = r
        /\ r > 0 => copies'[<<p, "s3">>].until = r
    BY <1>1, <1>2, <1>4, <2>0, <2>1 DEF Record, CopyTypes
  <2>3. LockedUntil(p, "s3", r)'
    BY <1>4, <2>1 DEF LockedUntil, Record, provider
  <2> QED
    BY <2>2, <2>3 DEF S3Copy, LockedUntil
<1>5. ASSUME NEW w \in Procs, CopyFails(w), proc[w].point = p,
             proc[w].target = "s3",
             copies' # copies
      PROVE  S3Copy(p)'
  <2>1. copies'[<<p, "s3">>].retain = 0
    BY <1>1, <1>2, <1>5 DEF CopyFails, NoCopy, CopyTypes
  <2> QED
    BY <2>1 DEF S3Copy
<1>6. ASSUME NEW w \in Procs, Record(w) \/ CopyFails(w),
             ~(proc[w].point = p /\ proc[w].target = "s3")
      PROVE  copies'[<<p, "s3">>] = copies[<<p, "s3">>]
  BY <1>1, <1>2, <1>6 DEF Record, CopyFails, CopyTypes
<1>7. \/ UNCHANGED copies
      \/ \E w \in Procs : Record(w) \/ CopyFails(w)
  <2>1. \A w \in Writers : Sync(w) \/ InitLock(w) => UNCHANGED copies
    BY DEF Sync, InitLock, catalogue
  <2>2. \A w \in Procs :
          (CopySnapshot(w) \/ R2Get(w) \/ R2Put(w) \/ LockObjects(w)
             \/ Kill(w)) => UNCHANGED copies
    BY DEF CopySnapshot, R2Get, R2Put, LockObjects, Kill, catalogue
  <2>3. \A d \in PolicyDays, s \in BOOLEAN : BackUp(d, s) => UNCHANGED copies
    BY DEF BackUp
  <2>4. Tick \/ UNCHANGED vars => UNCHANGED copies
    BY DEF Tick, catalogue, vars
  <2> QED
    BY <2>1, <2>2, <2>3, <2>4, Zenon DEF Next, Step
<1> QED
  BY <1>3, <1>4, <1>5, <1>6, <1>7

(* A rule that verification accepts outlasts the day, if the lock is       *)
(* configured for two days or more: of one day the code asks nothing, the  *)
(* day that may pass between two refreshes being all of it.                *)
LEMMA StatusLocked ==
    ASSUME LockTypes, LockDays >= 2, r2_bucket_lock_status, NEW p
    PROVE  LockedUntil(p, "r2", now + 1)
<1> SUFFICES ASSUME NEW i \in Namespaces
             PROVE  RuleKeeps(rules[i], now + 1)
  BY DEF LockedUntil
<1>1. _r2_rule_covers_until(rules[i], now + MaxOf(LockDays, 1) - 1)
  BY DEF r2_bucket_lock_status
<1>2. rules[i] \in Rule
  BY DEF LockTypes, RuleIds
<1>3. rules[i][2] \in Nat /\ now \in Nat /\ LockDays \in Nat
  BY <1>2, RulePair, Constants DEF LockTypes
<1>4. MaxOf(LockDays, 1) = LockDays
  BY <1>3 DEF MaxOf
<1> QED
  BY <1>1, <1>3, <1>4 DEF RuleKeeps, _r2_rule_covers_until

(* A copy that verification reports as immutable is locked at its          *)
(* provider: on R2 because the rules are read, on S3, where only what was  *)
(* recorded is, because a recorded lock is never shortened; also after a   *)
(* race, a failed copy or a kill (verify_immutable_copies,                 *)
(* r2_bucket_lock_status, apply_object_lock).                              *)
THEOREM VerifiedLockedCorrect ==
    LockDays >= 2 => (Spec => []VerifiedLocked)
<1>1. Init => CopyInv /\ S3Inv
  <2> SUFFICES ASSUME Init PROVE S3Inv
    BY InitCopies
  <2>1. ASSUME NEW w \in Procs PROVE S3Process(w)
    <3>1. proc[w].pc = "idle"
      BY IdleType DEF Init
    <3> QED
      BY <3>1 DEF S3Process
  <2>2. ASSUME NEW p \in Points PROVE S3Copy(p)
    <3>1. copies[<<p, "s3">>] = NoCopy
      BY DEF Init, Targets
    <3> QED
      BY <3>1 DEF S3Copy, NoCopy
  <2> QED
    BY <2>1, <2>2 DEF S3Inv
<1>2. (CopyInv /\ S3Inv) /\ [Next]_vars => (CopyInv /\ S3Inv)'
  BY NextLocked, ProcessesS3, CopiesS3 DEF S3Inv
<1>3. ASSUME LockDays >= 2, CopyInv, S3Inv PROVE VerifiedLocked
  <2> SUFFICES ASSUME NEW t \in Targets, Last > 0, ImmutableNow(Last, t)
               PROVE  LockedUntil(Last, t, now + 1)
    BY DEF VerifiedLocked
  <2>1. LockTypes /\ CopyTypes /\ Last \in Points
    BY <1>3 DEF CopyInv, LockTypes, Last, Points
  <2>2. CASE t = "r2"
    BY <1>3, <2>1, <2>2, StatusLocked DEF ImmutableNow
  <2>3. CASE t = "s3"
    <3> DEFINE c == copies[<<Last, "s3">>]
    <3>1. c.retain > 0 /\ (IF c.until > 0 THEN c.until ELSE points[Last].until) > now
      BY <2>3 DEF ImmutableNow
    <3>2. c \in Copy
      BY <2>1 DEF CopyTypes, Targets
    <3>3. c.until = c.retain /\ LockedUntil(Last, "s3", c.retain)
      BY <1>3, <2>1, <3>1 DEF S3Inv, S3Copy
    <3>4. c.retain \in Nat /\ now \in Nat /\ c.retain > now
      BY <2>1, <3>1, <3>2, <3>3 DEF Copy, LockTypes
    <3>5. PICK late \in Nat : late = c.retain
      BY <3>4
    <3>6. PICK date \in Nat : date = now + 1
      BY <3>4
    <3>7. LockedUntil(Last, "s3", date)
      <4>1. date <= late
        BY <3>4, <3>5, <3>6
      <4>2. LockedUntil(Last, "s3", late)
        BY <3>3, <3>5
      <4> QED
        BY <2>1, <4>1, <4>2, LockedEarlier DEF Targets
    <3> QED
      BY <2>3, <3>6, <3>7
  <2> QED
    BY <2>2, <2>3 DEF Targets
<1> SUFFICES ASSUME LockDays >= 2 PROVE Spec => []VerifiedLocked
  OBVIOUS
<1>4. CopyInv /\ S3Inv => VerifiedLocked
  BY <1>3
<1> QED
  BY <1>1, <1>2, <1>4, PTL DEF Spec
=============================================================================
