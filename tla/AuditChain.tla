----------------------------- MODULE AuditChain -----------------------------
(***************************************************************************)
(* The hash-chained audit log of StateDB: audit() appends an event that    *)
(* commits to the one before it, opening the database fills in the hashes  *)
(* of events written before the chain existed, and verify_audit_chain      *)
(* walks the log. Every portal thread, timer and CLI command appends. The  *)
(* SELECT of audit() and of the backfill precede the transaction that      *)
(* writes, so each is a step of its own.                                   *)
(***************************************************************************)
EXTENDS Naturals, Sequences, FiniteSets

CONSTANTS
    Procs,     \* processes and threads that open the database
    Bodies,    \* what an event says: time, actor, action, object, details
    Null,      \* a hash column of an event from before the chain
    Legacy,    \* how many events there may be from before the chain
    MaxEvents, \* bound of the log
    MaxAlterations  \* bound of the rows changed behind the code's back

ASSUME AuditAssumption ==
    Legacy \in Nat /\ MaxEvents \in Nat /\ MaxAlterations \in Nat

(* No event hashes to the mark of an empty column. *)
ASSUME NullAssumption == Null \notin Seq(Bodies)

VARIABLES
    log,     \* audit_events ORDER BY id
    proc,    \* the state of each process
    raced,   \* history: processes that read the tail during another append
    altered  \* history: positions whose event was changed after hashing

auditVars == <<log, proc, raced, altered>>

(* SHA-256 of the event and the previous hash: distinct arguments have     *)
(* distinct hashes. The hash of an event thus lists what it commits to.    *)
_audit_hash(body, prev) == <<body>> \o prev

GENESIS == <<>>

Hashes == Seq(Bodies) \cup {Null}
Event == [body : Bodies, prev : Hashes, hash : Hashes]
Pcs == {"new", "backfill", "ready", "insert"}

(* The type of the log and of the processes. *)
AuditTypeOK ==
    /\ log \in Seq(Event)
    /\ proc \in [Procs -> [pc : Pcs, seen : Seq(Event), tail : Seq(Bodies)]]
    /\ raced \subseteq Procs /\ altered \subseteq DOMAIN log

Closed == [pc |-> "new", seen |-> <<>>, tail |-> GENESIS]

AuditInit ==
    /\ \E n \in 0..Legacy : \E bodies \in [1..n -> Bodies] :
         log = [i \in 1..n |-> [body |-> bodies[i], prev |-> Null,
                                hash |-> Null]]
    /\ proc = [p \in Procs |-> Closed]
    /\ raced = {} /\ altered = {}

-----------------------------------------------------------------------------
(* Mutant: the database is opened without the backfill. *)
Open_NoBackfill(p) ==
    /\ proc[p].pc = "new"
    /\ proc' = [proc EXCEPT ![p].pc = "ready"]
    /\ UNCHANGED <<log, raced, altered>>

(* StateDB.__init__: _backfill_audit_hashes reads the whole log... *)
Open(p) ==
    /\ proc[p].pc = "new"
    /\ proc' = [proc EXCEPT ![p].pc = "backfill", ![p].seen = log]
    /\ UNCHANGED <<log, raced, altered>>

(* The hash the backfill carries from row to row: computed where the       *)
(* column was empty, kept where it was not.                                *)
Carried(rows) ==
    LET hash[i \in 0..Len(rows)] ==
          IF i = 0 THEN GENESIS
          ELSE IF rows[i].hash = Null
                 THEN _audit_hash(rows[i].body, hash[i - 1])
                 ELSE rows[i].hash
    IN  hash

(* Mutant: the backfill hashes every row anew. *)
_backfill_audit_hashes_All(p) ==
    LET seen == proc[p].seen
        carried == Carried([i \in DOMAIN seen |->
                              [seen[i] EXCEPT !.hash = Null]])
    IN
    /\ proc[p].pc = "backfill"
    /\ log' = [i \in DOMAIN log |->
                 IF i \in DOMAIN seen
                   THEN [log[i] EXCEPT !.prev = carried[i - 1],
                                       !.hash = carried[i]]
                   ELSE log[i]]
    /\ proc' = [proc EXCEPT ![p] = [Closed EXCEPT !.pc = "ready"]]
    /\ UNCHANGED <<raced, altered>>

(* ...and updates, in one transaction, the rows that had no hash. *)
_backfill_audit_hashes(p) ==
    LET seen == proc[p].seen
        carried == Carried(seen)
    IN
    /\ proc[p].pc = "backfill"
    /\ log' = [i \in DOMAIN log |->
                 IF i \in DOMAIN seen /\ seen[i].hash = Null
                   THEN [log[i] EXCEPT !.prev = carried[i - 1],
                                       !.hash = carried[i]]
                   ELSE log[i]]
    /\ proc' = [proc EXCEPT ![p] = [Closed EXCEPT !.pc = "ready"]]
    /\ UNCHANGED <<raced, altered>>

(* audit(): the last event's hash... *)
ReadTail(p) ==
    /\ proc[p].pc = "ready"
    /\ Len(log) < MaxEvents
    /\ proc' = [proc EXCEPT
         ![p].pc = "insert",
         ![p].tail = IF log = <<>> THEN GENESIS
                     ELSE IF log[Len(log)].hash = Null THEN GENESIS
                     ELSE log[Len(log)].hash]
    /\ raced' = IF \E q \in Procs : proc[q].pc = "insert"
                  THEN raced \cup {p} ELSE raced
    /\ UNCHANGED <<log, altered>>

(* Mutant: the hash leaves the previous event out. *)
Insert_Unchained(p, body) ==
    /\ proc[p].pc = "insert"
    /\ log' = Append(log, [body |-> body, prev |-> proc[p].tail,
                           hash |-> _audit_hash(body, GENESIS)])
    /\ proc' = [proc EXCEPT ![p] = [Closed EXCEPT !.pc = "ready"]]
    /\ UNCHANGED <<raced, altered>>

(* ...and the INSERT. *)
Insert(p, body) ==
    /\ proc[p].pc = "insert"
    /\ log' = Append(log, [body |-> body, prev |-> proc[p].tail,
                           hash |-> _audit_hash(body, proc[p].tail)])
    /\ proc' = [proc EXCEPT ![p] = [Closed EXCEPT !.pc = "ready"]]
    /\ UNCHANGED <<raced, altered>>

(* The process ends, or dies with an event not yet inserted. *)
Exit(p) ==
    /\ proc[p].pc # "new"
    /\ proc' = [proc EXCEPT ![p] = Closed]
    /\ UNCHANGED <<log, raced, altered>>

(* A stored, hashed event is changed behind the code's back, once. *)
Alter(i, body) ==
    /\ Cardinality(altered) < MaxAlterations
    /\ i \notin altered
    /\ log[i].hash # Null /\ log[i].body # body
    /\ log' = [log EXCEPT ![i].body = body]
    /\ altered' = altered \cup {i}
    /\ UNCHANGED <<proc, raced>>

AuditNext ==
    \/ \E p \in Procs :
         \/ Open(p) \/ _backfill_audit_hashes(p) \/ ReadTail(p) \/ Exit(p)
         \/ \E body \in Bodies : Insert(p, body)
    \/ \E i \in DOMAIN log, body \in Bodies : Alter(i, body)

AuditSpec == AuditInit /\ [][AuditNext]_auditVars

-----------------------------------------------------------------------------
(* verify_audit_chain: the positions it reports. The walk carries the hash *)
(* stored in the row before, or the expected one where none is stored.     *)
verify_audit_chain ==
    LET before == Carried(log) IN
    {i \in DOMAIN log :
       \/ log[i].prev # before[i - 1]
       \/ log[i].hash # _audit_hash(log[i].body, before[i - 1])}

Opened == \E p \in Procs : proc[p].pc \in {"ready", "insert"}

(* Once a process has opened the database, verification reports the        *)
(* events that were altered and no others, whichever processes start,      *)
(* backfill, append and die, as long as no two appends overlap (audit,     *)
(* _backfill_audit_hashes).                                                *)
ChainValid == Opened /\ raced = {} => verify_audit_chain = altered

(* What docs/SECURITY.md says: what verification reports is an alteration. *)
(* Two appends that overlap store the same prev_hash and the second is     *)
(* reported: this does not hold, and no run checks it.                     *)
OnlyAlterationsReported == Opened => verify_audit_chain \subseteq altered

(* An altered event is reported, and no later event, backfill or restart   *)
(* hides it (verify_audit_chain).                                          *)
AlteredReported == altered \subseteq verify_audit_chain

(* However many processes append, an event's previous hash is the hash of  *)
(* an event before it or GENESIS, and its own hash commits to both: a race *)
(* forks the chain but never breaks a link (audit).                        *)
EventsLinked ==
    \A i \in DOMAIN log : log[i].hash # Null /\ altered = {} =>
      /\ log[i].hash = _audit_hash(log[i].body, log[i].prev)
      /\ log[i].prev = GENESIS \/ \E k \in 1..(i - 1) : log[k].hash = log[i].prev

(* A hash and the link before it are final once stored: a backfill that    *)
(* read the log before another one wrote it writes what is there already,  *)
(* and a changed body is never hashed anew (_backfill_audit_hashes).       *)
HashesKept ==
    [][\A i \in DOMAIN log : log[i].hash # Null =>
         /\ i \in DOMAIN log'
         /\ log'[i].hash = log[i].hash /\ log'[i].prev = log[i].prev]_auditVars
=============================================================================
