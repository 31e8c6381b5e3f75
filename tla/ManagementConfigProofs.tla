----------------------- MODULE ManagementConfigProofs -----------------------
(***************************************************************************)
(* Proofs about ManagementConfig: for any number of threads, requests and  *)
(* faults the live file loads, acknowledged selections are kept, and the   *)
(* timers match the policies. Platforms that no tenant claims are left out *)
(* where the wizard, which does not ask for tenants, would let them in.    *)
(***************************************************************************)
EXTENDS ManagementConfig, TLAPS

(* What the fields of a thread say together. *)
Shape(t) ==
    /\ th[t].pc = "mount" => th[t].via = "commit" /\ th[t].about \in Replicas
    /\ th[t].pc \in {"previous", "undo", "rewrite"} =>
         th[t].via \in {"commit", "select"}
    /\ th[t].pc \in {"sync", "enable", "disable", "legacy"} =>
         th[t].via = "policy"
    /\ th[t].pc = "post" => th[t].via # "policy"
    /\ th[t].via = "policy" => th[t].about \in Policies
    /\ th[t].via = "select" => th[t].about \in Platforms

MgmtTypes == TypeOK /\ \A t \in Threads : Shape(t)

-----------------------------------------------------------------------------
(* The file is unreadable. *)

(* While the file is torn, whoever did not tear it is overtaken; the bytes *)
(* a thread may put back are torn only if it was; a thread that no longer  *)
(* holds the file, or finds it written, was overtaken by the one who wrote.*)
TornThread(t) ==
    /\ file = Torn /\ th[t].pc # "idle" =>
         th[t].stale \/ raced \/ th[t].pc = "rewrite"
    /\ th[t].prev = Torn => th[t].pc # "idle" /\ (th[t].stale \/ raced)
    /\ th[t].pc = "rewrite" /\ ~th[t].hold => th[t].stale
    /\ th[t].pc = "rewrite" /\ file # Torn => th[t].stale \/ raced
    /\ th[t].pc \in {"undo", "rewrite"} => faults > 0 \/ raced

(* Of two that roll back at once, the first is overtaken by the second. *)
OneRollback(t) ==
    \A u \in Threads \ {t} :
      th[t].pc = "rewrite" /\ th[u].pc = "rewrite" =>
        th[t].stale \/ th[u].stale

TornInv ==
    /\ file = Torn => raced \/ faults > 1
                        \/ \E t \in Threads : th[t].pc = "rewrite"
    /\ \A t \in Threads : TornThread(t) /\ OneRollback(t)

-----------------------------------------------------------------------------
(* The file loads. *)

Safe(c) == DrResolves(c) /\ PoliciesResolve(c)

(* What a thread may write is safe, and the replicas with a mount_type are *)
(* mounted by the time it is written.                                      *)
SafeThread(t) ==
    /\ Safe(th[t].cand)
    /\ th[t].cand.managed \subseteq
         IF th[t].pc = "mount" THEN mounts \cup {th[t].about} ELSE mounts
    /\ th[t].prev # Torn =>
         Safe(th[t].prev) /\ th[t].prev.managed \subseteq mounts

SafeInv ==
    /\ file # Torn => Safe(file) /\ file.managed \subseteq mounts
    /\ \A t \in Threads : SafeThread(t)

-----------------------------------------------------------------------------
(* Selections. *)

(* A thread is about to acknowledge the selection of p. *)
Selects(u, p) ==
    /\ th[u].pc = "post" /\ ~th[u].stale
    /\ th[u].via = "select" /\ th[u].about = p

Held(p) == p \in scoped \/ \E u \in Threads : Selects(u, p)

HeldBesides(t, p) == p \in scoped \/ \E u \in Threads \ {t} : Selects(u, p)

(* What a thread that was not overtaken may write keeps what is selected,  *)
(* unless it selects by a pattern.                                         *)
ScopeThread(t, p) ==
    /\ ~th[t].stale /\ ~(th[t].via = "widen" /\ th[t].about = p)
         /\ th[t].pc \in {"mount", "previous", "replace"}
         /\ HeldBesides(t, p) => th[t].cand.scope[p] = "exact"
    /\ ~th[t].stale /\ th[t].via \in {"commit", "select"}
         /\ th[t].pc \in {"replace", "post", "undo", "rewrite"}
         /\ th[t].prev # Torn /\ HeldBesides(t, p) =>
         th[t].prev.scope[p] = "exact"
    /\ th[t].via = "select" /\ th[t].about = p =>
         th[t].cand.scope[p] = "exact"

ScopeInv ==
    ~raced => \A p \in Platforms :
      /\ file # Torn /\ Held(p) => file.scope[p] = "exact"
      /\ \A t \in Threads : ScopeThread(t, p)

-----------------------------------------------------------------------------
(* Timers. *)

Pending(q) ==
    \E t \in Threads :
      th[t].pc \in {"sync", "enable", "disable"} /\ th[t].about = q

(* A thread that was not overtaken changes no policy but its own, and what *)
(* it decided about a timer is what the file says.                         *)
TimerThread(t, q) ==
    /\ ~th[t].stale /\ th[t].pc \in {"mount", "previous", "replace"}
         /\ ~(th[t].via = "policy" /\ th[t].about = q) =>
         th[t].cand.policies[q] = file.policies[q]
    /\ ~th[t].stale /\ th[t].pc = "enable" /\ th[t].about = q =>
         Timed(file, q)
    /\ ~th[t].stale /\ th[t].pc = "disable" /\ th[t].about = q =>
         ~Timed(file, q)

TimerInv ==
    ~raced /\ faults = 0 =>
      /\ \A q \in Policies :
           /\ Pending(q) \/ (q \in timers <=> Timed(file, q))
           /\ \A t \in Threads : TimerThread(t, q)
      /\ \/ timers = {} \/ legacy # "on"
         \/ \E t \in Threads : th[t].pc = "legacy"

-----------------------------------------------------------------------------
(* Threads. *)

(* What a request may be, and be about. *)
Kinds == Vias \ {"none"}
Abouts == Platforms \cup Policies \cup Replicas \cup {Nothing}

LEMMA ThreadFields ==
    ASSUME MgmtTypes, NEW t \in Threads
    PROVE  /\ th[t] \in Thread
           /\ th[t].pc \in Pcs /\ th[t].cand \in Config
           /\ th[t].via \in Vias /\ th[t].about \in Abouts
           /\ th[t].prev \in Config \cup {Torn}
           /\ th[t].stale \in BOOLEAN /\ th[t].hold \in BOOLEAN
           /\ Shape(t)
BY DEF MgmtTypes, TypeOK, Thread, Abouts

LEMMA NoConfigType == NoConfig \in Config /\ Safe(NoConfig)
BY DEF NoConfig, Config, Scopes, Safe, DrResolves, PoliciesResolve, Present

LEMMA IdleType ==
    /\ IdleThread \in Thread
    /\ IdleThread.pc = "idle" /\ IdleThread.via = "none"
    /\ IdleThread.cand = NoConfig /\ IdleThread.prev = NoConfig
    /\ IdleThread.stale = FALSE /\ IdleThread.hold = FALSE
BY NoConfigType DEF IdleThread, Thread, Pcs, Vias

(* The other threads are left alone. *)
Alone(t) == \A x \in Threads \ {t} : th'[x] = th[x]

(* All of a thread but its step and what it goes back to. *)
SameJob(x) ==
    /\ th'[x].via = th[x].via /\ th'[x].about = th[x].about
    /\ th'[x].cand = th[x].cand

LEMMA GotoFields ==
    ASSUME MgmtTypes, NEW t \in Threads, NEW pc \in Pcs, Goto(t, pc)
    PROVE  /\ th' \in [Threads -> Thread] /\ Alone(t)
           /\ th'[t].pc = pc /\ SameJob(t) /\ th'[t].prev = th[t].prev
           /\ th'[t].stale = th[t].stale /\ th'[t].hold = th[t].hold
<1>1. th[t] \in Thread /\ th \in [Threads -> Thread]
  BY DEF MgmtTypes, TypeOK
<1>2. th' = [th EXCEPT ![t] = [th[t] EXCEPT !.pc = pc]]
  BY DEF Goto
<1> QED
  BY <1>1, <1>2 DEF Alone, SameJob, Thread

LEMMA AnswerFields ==
    ASSUME MgmtTypes, NEW t \in Threads, Answer(t)
    PROVE  /\ th' \in [Threads -> Thread] /\ Alone(t)
           /\ th'[t] = IdleThread
BY IdleType DEF MgmtTypes, TypeOK, Answer, Alone

LEMMA ReadPreviousFields ==
    ASSUME MgmtTypes, NEW t \in Threads, ReadPrevious(t)
    PROVE  /\ th' \in [Threads -> Thread] /\ Alone(t)
           /\ th'[t].pc = "replace" /\ SameJob(t) /\ th'[t].prev = file
           /\ th'[t].stale = th[t].stale /\ th'[t].hold = th[t].hold
<1>1. /\ th[t] \in Thread /\ th \in [Threads -> Thread]
      /\ file \in Config \cup {Torn}
  BY DEF MgmtTypes, TypeOK
<1>2. th' = [th EXCEPT ![t] = [th[t] EXCEPT !.prev = file,
                                            !.pc = "replace"]]
  BY DEF ReadPrevious
<1> QED
  BY <1>1, <1>2 DEF Alone, SameJob, Thread, Pcs

LEMMA OvertakenFields ==
    ASSUME MgmtTypes, NEW t \in Threads, NEW pc \in Pcs, Overtaken(t, pc)
    PROVE  /\ th' \in [Threads -> Thread]
           /\ th'[t].pc = pc /\ SameJob(t) /\ th'[t].prev = th[t].prev
           /\ th'[t].stale = th[t].stale /\ th'[t].hold = th[t].hold
           /\ \A x \in Threads \ {t} :
                /\ th'[x].pc = th[x].pc /\ SameJob(x)
                /\ th'[x].prev = th[x].prev
                /\ th'[x].stale = (th[x].pc # "idle")
                /\ th'[x].hold = FALSE
<1>1. \A x \in Threads : th[x] \in Thread
  BY DEF MgmtTypes, TypeOK
<1>2. th' = [x \in Threads |->
               IF x = t THEN [th[x] EXCEPT !.pc = pc]
               ELSE [th[x] EXCEPT !.stale = th[x].pc # "idle",
                                  !.hold = FALSE]]
  BY DEF Overtaken
<1>3. /\ th'[t] = [th[t] EXCEPT !.pc = pc]
      /\ th'[t] \in Thread
  BY <1>1, <1>2 DEF Thread
<1>4. ASSUME NEW x \in Threads \ {t}
      PROVE  /\ th'[x] = [th[x] EXCEPT !.stale = th[x].pc # "idle",
                                       !.hold = FALSE]
             /\ th'[x] \in Thread
  BY <1>1, <1>2 DEF Thread
<1>5. th' \in [Threads -> Thread]
  BY <1>2, <1>3, <1>4
<1>6. ASSUME NEW x \in Threads \ {t}
      PROVE  /\ th'[x].pc = th[x].pc /\ SameJob(x)
             /\ th'[x].prev = th[x].prev
             /\ th'[x].stale = (th[x].pc # "idle")
             /\ th'[x].hold = FALSE
  BY <1>1, <1>4 DEF SameJob, Thread
<1> QED
  BY <1>1, <1>3, <1>5, <1>6 DEF SameJob, Thread

LEMMA UndoFields ==
    ASSUME MgmtTypes, NEW t \in Threads, Undo(t)
    PROVE  /\ th' \in [Threads -> Thread]
           /\ th'[t].pc = "rewrite" /\ SameJob(t)
           /\ th'[t].prev = th[t].prev
           /\ th'[t].stale = th[t].stale /\ th'[t].hold = TRUE
           /\ \A x \in Threads \ {t} :
                /\ th'[x].pc = th[x].pc /\ SameJob(x)
                /\ th'[x].prev = th[x].prev
                /\ th'[x].stale = (th[x].pc # "idle")
                /\ th'[x].hold = th[x].hold
<1>1. \A x \in Threads : th[x] \in Thread
  BY DEF MgmtTypes, TypeOK
<1>2. th' = [x \in Threads |->
               IF x = t THEN [th[x] EXCEPT !.pc = "rewrite", !.hold = TRUE]
               ELSE [th[x] EXCEPT !.stale = th[x].pc # "idle"]]
  BY DEF Undo
<1>3. /\ th'[t] = [th[t] EXCEPT !.pc = "rewrite", !.hold = TRUE]
      /\ th'[t] \in Thread
  BY <1>1, <1>2 DEF Thread, Pcs
<1>4. ASSUME NEW x \in Threads \ {t}
      PROVE  /\ th'[x] = [th[x] EXCEPT !.stale = th[x].pc # "idle"]
             /\ th'[x] \in Thread
  BY <1>1, <1>2 DEF Thread
<1>5. th' \in [Threads -> Thread]
  BY <1>2, <1>3, <1>4
<1>6. ASSUME NEW x \in Threads \ {t}
      PROVE  /\ th'[x].pc = th[x].pc /\ SameJob(x)
             /\ th'[x].prev = th[x].prev
             /\ th'[x].stale = (th[x].pc # "idle")
             /\ th'[x].hold = th[x].hold
  BY <1>1, <1>4 DEF SameJob, Thread
<1> QED
  BY <1>1, <1>3, <1>5, <1>6 DEF SameJob, Thread

(* A thread that has started with a job. *)
Started(t, via, pc, about, cand) ==
    /\ th'[t].pc = pc /\ th'[t].via = via /\ th'[t].about = about
    /\ th'[t].cand = cand /\ th'[t].prev = NoConfig
    /\ th'[t].stale = FALSE /\ th'[t].hold = FALSE

LEMMA StartFields ==
    ASSUME MgmtTypes, NEW t \in Threads,
           NEW via \in Kinds,
           NEW pc \in Pcs, NEW cand \in Config,
           NEW about \in Abouts,
           Start(t, via, pc, about, cand)
    PROVE  /\ th' \in [Threads -> Thread] /\ Alone(t)
           /\ Started(t, via, pc, about, cand)
<1>1. th \in [Threads -> Thread]
  BY DEF MgmtTypes, TypeOK
<1> DEFINE new == [IdleThread EXCEPT !.pc = pc, !.via = via,
                                     !.about = about, !.cand = cand]
<1>3. th' = [th EXCEPT ![t] = new]
  BY DEF Start
<1>4. new \in Thread
  BY IdleType DEF Thread, Kinds, Abouts
<1>5. /\ new.pc = pc /\ new.via = via /\ new.about = about
      /\ new.cand = cand /\ new.prev = NoConfig
      /\ new.stale = FALSE /\ new.hold = FALSE
  BY IdleType DEF Thread
<1> HIDE DEF new
<1>6. th'[t] = new /\ th' \in [Threads -> Thread]
  BY <1>1, <1>3, <1>4
<1>7. Alone(t)
  BY <1>1, <1>3 DEF Alone
<1> QED
  BY <1>5, <1>6, <1>7 DEF Started

-----------------------------------------------------------------------------
(* Requests. *)

LEMMA ConfigFields ==
    ASSUME NEW c \in Config
    PROVE  /\ c.scope \in [Platforms -> Scopes]
           /\ c.replicas \in SUBSET Replicas
           /\ c.managed \in SUBSET Replicas
           /\ c.policies \in [Policies -> Policy \cup {Nothing}]
           /\ c.networks \in SUBSET Platforms
           /\ c.dr \in (Platforms \X Platforms \X Replicas) \cup {Nothing}
BY DEF Config

(* Only the scope of a configuration changes, and no platform goes away.   *)
Rescoped(c, d) ==
    /\ d.replicas = c.replicas /\ d.managed = c.managed
    /\ d.policies = c.policies
    /\ d.networks = c.networks /\ d.dr = c.dr
    /\ Present(c) \subseteq Present(d)

LEMMA RescopedSafe ==
    ASSUME NEW c \in Config, NEW d \in Config, Rescoped(c, d), Safe(c)
    PROVE  Safe(d)
BY DEF Rescoped, Safe, DrResolves, PoliciesResolve

LEMMA PlatformConfig ==
    ASSUME NEW c \in Config, NEW p \in Platforms
    PROVE  /\ save_platform(p, c) \in Config
           /\ Rescoped(c, save_platform(p, c))
           /\ \A x \in Platforms :
                c.scope[x] = "exact" => save_platform(p, c).scope[x] = "exact"
<1> DEFINE scope == [c.scope EXCEPT
                       ![p] = IF @ = "absent" THEN "all" ELSE @]
<1>1. scope \in [Platforms -> Scopes]
  BY ConfigFields DEF Scopes
<1>2. \A x \in Platforms :
        /\ scope[x] = "absent" => c.scope[x] = "absent"
        /\ c.scope[x] = "exact" => scope[x] = "exact"
  BY ConfigFields
<1>3. save_platform(p, c) = [c EXCEPT !.scope = scope]
  BY DEF save_platform
<1> HIDE DEF scope
<1>4. /\ save_platform(p, c) \in Config
      /\ save_platform(p, c).scope = scope
      /\ save_platform(p, c).replicas = c.replicas
      /\ save_platform(p, c).managed = c.managed
      /\ save_platform(p, c).policies = c.policies
      /\ save_platform(p, c).networks = c.networks
      /\ save_platform(p, c).dr = c.dr
  BY <1>1, <1>3 DEF Config
<1> QED
  BY <1>2, <1>4 DEF Rescoped, Present

LEMMA SelectionConfig ==
    ASSUME NEW c \in Config, NEW p \in Platforms,
           NEW kept \in Scopes \ {"absent"}
    PROVE  /\ save_selection(p, kept, c) \in Config
           /\ Rescoped(c, save_selection(p, kept, c))
           /\ save_selection(p, kept, c).scope[p] = kept
           /\ \A x \in Platforms \ {p} :
                save_selection(p, kept, c).scope[x] = c.scope[x]
<1> DEFINE scope == [c.scope EXCEPT ![p] = kept]
<1>1. scope \in [Platforms -> Scopes]
  BY ConfigFields
<1>2. /\ scope[p] = kept
      /\ \A x \in Platforms \ {p} : scope[x] = c.scope[x]
      /\ \A x \in Platforms : scope[x] = "absent" => c.scope[x] = "absent"
  BY ConfigFields
<1>3. save_selection(p, kept, c) = [c EXCEPT !.scope = scope]
  BY DEF save_selection
<1> HIDE DEF scope
<1>4. /\ save_selection(p, kept, c) \in Config
      /\ save_selection(p, kept, c).scope = scope
      /\ save_selection(p, kept, c).replicas = c.replicas
      /\ save_selection(p, kept, c).managed = c.managed
      /\ save_selection(p, kept, c).policies = c.policies
      /\ save_selection(p, kept, c).networks = c.networks
      /\ save_selection(p, kept, c).dr = c.dr
  BY <1>1, <1>3 DEF Config
<1> QED
  BY <1>2, <1>4 DEF Rescoped, Present

LEMMA StorageConfig ==
    ASSUME NEW c \in Config, NEW r \in Replicas, NEW sourced \in BOOLEAN
    PROVE  LET d == save_storage(r, sourced, c) IN
           /\ d \in Config /\ d.scope = c.scope /\ d.policies = c.policies
           /\ d.networks = c.networks /\ d.dr = c.dr
           /\ d.replicas = c.replicas \cup {r}
           /\ d.managed \subseteq
                IF sourced THEN c.managed \cup {r} ELSE c.managed
<1> DEFINE rs == c.replicas \cup {r}
           ms == IF sourced THEN c.managed \cup {r} ELSE c.managed \ {r}
<1>1. rs \in SUBSET Replicas /\ ms \in SUBSET Replicas
  BY ConfigFields
<1>2. save_storage(r, sourced, c)
        = [c EXCEPT !.replicas = rs, !.managed = ms]
  BY DEF save_storage
<1>3. ms \subseteq IF sourced THEN c.managed \cup {r} ELSE c.managed
  OBVIOUS
<1> HIDE DEF rs, ms
<1>4. LET d == [c EXCEPT !.replicas = rs, !.managed = ms] IN
        /\ d \in Config /\ d.scope = c.scope /\ d.policies = c.policies
        /\ d.networks = c.networks /\ d.dr = c.dr
        /\ d.replicas = rs /\ d.managed = ms
  BY <1>1 DEF Config
<1> QED
  BY <1>2, <1>3, <1>4 DEF rs

(* One more replica breaks no reference. *)
LEMMA StorageSafe ==
    ASSUME NEW c, NEW d, Safe(c), d.scope = c.scope,
           d.policies = c.policies, d.networks = c.networks, d.dr = c.dr,
           c.replicas \subseteq d.replicas
    PROVE  Safe(d)
BY DEF Safe, DrResolves, PoliciesResolve, Present

LEMMA PolicyConfig ==
    ASSUME NEW c \in Config, NEW q \in Policies,
           NEW row \in Policy \cup {Nothing}
    PROVE  LET d == [c EXCEPT !.policies[q] = row] IN
           /\ d \in Config /\ d.scope = c.scope
           /\ d.managed = c.managed
           /\ \A x \in Policies \ {q} : d.policies[x] = c.policies[x]
<1> DEFINE rows == [c.policies EXCEPT ![q] = row]
<1>1. /\ rows \in [Policies -> Policy \cup {Nothing}]
      /\ \A x \in Policies \ {q} : rows[x] = c.policies[x]
  BY ConfigFields
<1>2. [c EXCEPT !.policies[q] = row] = [c EXCEPT !.policies = rows]
  OBVIOUS
<1> HIDE DEF rows
<1>3. [c EXCEPT !.policies = rows] \in Config
  BY <1>1 DEF Config
<1>4. /\ [c EXCEPT !.policies = rows].policies = rows
      /\ [c EXCEPT !.policies = rows].scope = c.scope
      /\ [c EXCEPT !.policies = rows].managed = c.managed
  BY DEF Config
<1> QED
  BY <1>1, <1>2, <1>3, <1>4

LEMMA NetworkConfig ==
    ASSUME NEW c \in Config, NEW p \in Present(c), Safe(c)
    PROVE  /\ save_dr_test_network(p, c) \in Config
           /\ save_dr_test_network(p, c).scope = c.scope
           /\ save_dr_test_network(p, c).policies = c.policies
           /\ save_dr_test_network(p, c).managed = c.managed
           /\ Safe(save_dr_test_network(p, c))
<1>1. p \in Platforms /\ c.networks \cup {p} \in SUBSET Platforms
  BY ConfigFields DEF Present
<1>2. /\ save_dr_test_network(p, c) \in Config
      /\ save_dr_test_network(p, c).scope = c.scope
      /\ save_dr_test_network(p, c).policies = c.policies
      /\ save_dr_test_network(p, c).replicas = c.replicas
      /\ save_dr_test_network(p, c).managed = c.managed
      /\ save_dr_test_network(p, c).networks = c.networks \cup {p}
      /\ save_dr_test_network(p, c).dr = c.dr
  BY <1>1 DEF save_dr_test_network, Config
<1> QED
  BY <1>2 DEF Safe, DrResolves, PoliciesResolve, Present

LEMMA DrConfig ==
    ASSUME NEW c \in Config, NEW s \in Present(c), NEW d \in Present(c),
           NEW r \in c.replicas
    PROVE  /\ save_dr(s, d, r, c) \in Config
           /\ save_dr(s, d, r, c).scope = c.scope
           /\ save_dr(s, d, r, c).policies = c.policies
           /\ save_dr(s, d, r, c).managed = c.managed
           /\ Safe(c) => Safe(save_dr(s, d, r, c))
<1>1. <<s, d, r>> \in Platforms \X Platforms \X Replicas
  BY ConfigFields DEF Present
<1>2. /\ save_dr(s, d, r, c) \in Config
      /\ save_dr(s, d, r, c).scope = c.scope
      /\ save_dr(s, d, r, c).policies = c.policies
      /\ save_dr(s, d, r, c).replicas = c.replicas
      /\ save_dr(s, d, r, c).managed = c.managed
      /\ save_dr(s, d, r, c).networks = c.networks
      /\ save_dr(s, d, r, c).dr = <<s, d, r>>
  BY <1>1 DEF save_dr, Config
<1> QED
  BY <1>2 DEF Safe, DrResolves, PoliciesResolve, Present

(* What a request makes of the file it read, and what its thread does next:*)
(* the result is safe if the file was, no exact scope is widened unless it *)
(* selects by a pattern, and only the policy it is about may change.       *)
Derived(via, pc, about, cand) ==
    /\ Safe(file) => Safe(cand)
    /\ cand.managed \subseteq
         IF pc = "mount" THEN file.managed \cup {about} ELSE file.managed
    /\ \A p \in Platforms :
         (via = "widen" /\ about = p) \/
           (file.scope[p] = "exact" => cand.scope[p] = "exact")
    /\ \A q \in Policies :
         (via = "policy" /\ about = q) \/ cand.policies[q] = file.policies[q]
    /\ \/ via = "commit" /\ pc = "previous"
       \/ via = "commit" /\ pc = "mount" /\ about \in Replicas
       \/ via = "select" /\ pc = "previous" /\ about \in Platforms
            /\ cand.scope[about] = "exact"
       \/ via = "policy" /\ pc = "replace" /\ about \in Policies
       \/ via = "plain" /\ pc = "replace"
       \/ via = "widen" /\ pc = "replace" /\ about \in Platforms

(* A request is the start of a thread that carries what it derived.        *)
LEMMA RequestShape ==
    ASSUME MgmtTypes, NEW t \in Threads, Request(t)
    PROVE  /\ file # Torn /\ file \in Config
           /\ \E via \in Kinds,
                 pc \in {"mount", "previous", "replace"},
                 about \in Abouts,
                 cand \in Config :
                Start(t, via, pc, about, cand) /\ Derived(via, pc, about, cand)
<1>1. file # Torn => file \in Config
  BY DEF MgmtTypes, TypeOK
<1> DEFINE Goal == \E via \in Kinds,
                      pc \in {"mount", "previous", "replace"},
                      about \in Abouts,
                      cand \in Config :
                     /\ Start(t, via, pc, about, cand)
                     /\ Derived(via, pc, about, cand)
<1>2. ASSUME NEW p \in Platforms,
             BrokerPlatform(t, p) \/ WizardPlatform(t, p)
      PROVE  file # Torn /\ Goal
  <2>1. file # Torn /\ file \in Config
    BY <1>1, <1>2 DEF BrokerPlatform, WizardPlatform
  <2>2. PICK cand \in Config : cand = save_platform(p, file)
    BY <2>1, PlatformConfig
  <2>3. /\ Rescoped(file, cand) /\ (Safe(file) => Safe(cand))
        /\ \A x \in Platforms :
             file.scope[x] = "exact" => cand.scope[x] = "exact"
    BY <2>1, <2>2, PlatformConfig, RescopedSafe
  <2>4. /\ Derived("commit", "previous", p, cand)
        /\ Derived("plain", "replace", p, cand)
    BY <2>1, <2>3 DEF Derived, Rescoped
  <2>5. \/ Start(t, "commit", "previous", p, cand)
        \/ Start(t, "plain", "replace", p, cand)
    BY <1>2, <2>2 DEF BrokerPlatform, WizardPlatform
  <2> QED
    BY <2>1, <2>4, <2>5 DEF Kinds, Vias, Abouts
<1>3. ASSUME NEW p \in Platforms, NEW kept \in Scopes \ {"absent"},
             \/ BrokerSelection(t, p) /\ kept = "exact"
             \/ WizardSelection(t, p, kept)
      PROVE  file # Torn /\ Goal
  <2>1. file # Torn /\ file \in Config
    BY <1>1, <1>3 DEF BrokerSelection, WizardSelection
  <2>2. PICK cand \in Config : cand = save_selection(p, kept, file)
    BY <2>1, SelectionConfig
  <2>3. /\ Rescoped(file, cand) /\ (Safe(file) => Safe(cand))
        /\ cand.scope[p] = kept
        /\ \A x \in Platforms \ {p} : cand.scope[x] = file.scope[x]
    BY <2>1, <2>2, SelectionConfig, RescopedSafe
  <2>4. /\ kept = "exact" => /\ Derived("select", "previous", p, cand)
                             /\ Derived("plain", "replace", p, cand)
        /\ kept # "exact" => Derived("widen", "replace", p, cand)
    BY <2>1, <2>3 DEF Derived, Rescoped
  <2>5. \/ Start(t, "select", "previous", p, cand) /\ kept = "exact"
        \/ Start(t, "plain", "replace", p, cand) /\ kept = "exact"
        \/ Start(t, "widen", "replace", p, cand) /\ kept # "exact"
    BY <1>3, <2>2 DEF BrokerSelection, WizardSelection
  <2> QED
    BY <2>1, <2>4, <2>5 DEF Kinds, Vias, Abouts
<1>4. ASSUME NEW p \in Platforms, BrokerNetwork(t, p)
      PROVE  file # Torn /\ Goal
  <2>1. /\ file # Torn /\ file \in Config /\ p \in Present(file)
        /\ Safe(file)
    BY <1>1, <1>4 DEF BrokerNetwork, load_v11_config, load_config, Safe
  <2>2. PICK cand \in Config : cand = save_dr_test_network(p, file)
    BY <2>1, NetworkConfig
  <2>3. Derived("plain", "replace", p, cand)
    BY <2>1, <2>2, NetworkConfig DEF Derived
  <2>4. Start(t, "plain", "replace", p, cand)
    BY <1>4, <2>2 DEF BrokerNetwork
  <2> QED
    BY <2>1, <2>3, <2>4 DEF Kinds, Vias, Abouts
<1>5. ASSUME NEW r \in Replicas, NEW sourced \in BOOLEAN,
             \/ BrokerStorage(t, r, sourced)
             \/ WizardStorage(t, r) /\ ~sourced
      PROVE  file # Torn /\ Goal
  <2>1. file # Torn /\ file \in Config
    BY <1>1, <1>5 DEF BrokerStorage, WizardStorage
  <2>2. PICK cand \in Config : cand = save_storage(r, sourced, file)
    BY <2>1, StorageConfig
  <2>3. /\ cand.scope = file.scope /\ cand.policies = file.policies
        /\ cand.managed \subseteq
             IF sourced THEN file.managed \cup {r} ELSE file.managed
        /\ Safe(file) => Safe(cand)
    BY <2>1, <2>2, StorageConfig, StorageSafe
  <2>4. /\ sourced => Derived("commit", "mount", r, cand)
        /\ ~sourced => /\ Derived("commit", "previous", r, cand)
                       /\ Derived("plain", "replace", r, cand)
    BY <2>1, <2>3 DEF Derived
  <2>5. \/ Start(t, "commit", "mount", r, cand) /\ sourced
        \/ Start(t, "commit", "previous", r, cand) /\ ~sourced
        \/ Start(t, "plain", "replace", r, cand) /\ ~sourced
    BY <1>5, <2>2 DEF BrokerStorage, WizardStorage
  <2> QED
    BY <2>1, <2>4, <2>5 DEF Kinds, Vias, Abouts
<1>6. ASSUME NEW s \in Platforms, NEW d \in Platforms, NEW r \in Replicas,
             WizardDr(t, s, d, r)
      PROVE  file # Torn /\ Goal
  <2>1. /\ file # Torn /\ file \in Config
        /\ s \in Present(file) /\ d \in Present(file)
        /\ r \in file.replicas
    BY <1>1, <1>6 DEF WizardDr
  <2>2. PICK cand \in Config : cand = save_dr(s, d, r, file)
    BY <2>1, DrConfig
  <2>3. Derived("plain", "replace", s, cand)
    BY <2>1, <2>2, DrConfig DEF Derived
  <2>4. Start(t, "plain", "replace", s, cand)
    BY <1>6, <2>2 DEF WizardDr
  <2> QED
    BY <2>1, <2>3, <2>4 DEF Kinds, Vias, Abouts
<1>7. ASSUME NEW q \in Policies, NEW row \in Policy \cup {Nothing},
             BrokerPolicy(t, q, row) \/ (row = Nothing /\ BrokerDelete(t, q))
      PROVE  file # Torn /\ Goal
  <2>1. file # Torn /\ file \in Config
    BY <1>1, <1>7 DEF BrokerPolicy, BrokerDelete
  <2>2. PICK cand \in Config : cand = [file EXCEPT !.policies[q] = row]
    BY <2>1, PolicyConfig
  <2>3. /\ cand = save_policy(q, row, file)
        /\ row = Nothing => cand = delete_policy(q, file)
    BY <2>2 DEF save_policy, delete_policy
  <2>4. /\ load_v11_config(cand)
        /\ Start(t, "policy", "replace", q, cand)
    BY <1>7, <2>3 DEF BrokerPolicy, BrokerDelete
  <2>5. Safe(cand)
    BY <2>4 DEF load_v11_config, load_config, Safe
  <2>6. Derived("policy", "replace", q, cand)
    BY <2>1, <2>2, <2>5, PolicyConfig DEF Derived
  <2> QED
    BY <2>1, <2>4, <2>6 DEF Kinds, Vias, Abouts
<1>8. ASSUME WizardTarget(t)
      PROVE  file # Torn /\ Goal
  <2>1. /\ file # Torn /\ file \in Config
        /\ Start(t, "plain", "replace", Nothing, file)
    BY <1>1, <1>8 DEF WizardTarget
  <2>2. Derived("plain", "replace", Nothing, file)
    BY DEF Derived
  <2> QED
    BY <2>1, <2>2 DEF Kinds, Vias, Abouts
<1> HIDE DEF Goal
<1>9. file # Torn /\ Goal
  BY <1>2, <1>3, <1>4, <1>5, <1>6, <1>7, <1>8 DEF Request, Scopes
<1> QED
  BY <1>1, <1>9 DEF Goal

-----------------------------------------------------------------------------
(* Types. *)

MgmtInv == MgmtTypes /\ TornInv /\ SafeInv

LEMMA InitMgmt ==
    ASSUME Init
    PROVE  MgmtInv /\ ScopeInv /\ TimerInv
<1>1. PICK sc \in [Platforms -> {"absent", "all", "exact"}],
           rs \in SUBSET Replicas, ms \in SUBSET Replicas :
        file = [NoConfig EXCEPT !.scope = sc, !.replicas = rs,
                                !.managed = ms]
  BY Zenon DEF Init
<1>2. /\ file \in Config /\ file.managed = ms
      /\ \A q \in Policies : file.policies[q] = Nothing
      /\ load_v11_config(file)
  <2>1. load_v11_config(file)
    BY Zenon DEF Init
  <2>2. NoConfig \in Config
    BY NoConfigType
  <2>3. file.policies = NoConfig.policies
    BY <1>1, <2>2 DEF Config
  <2>4. sc \in [Platforms -> Scopes]
    BY DEF Scopes
  <2>5. file \in Config /\ file.managed = ms
    BY <1>1, <2>2, <2>4 DEF Config
  <2> QED
    BY <2>1, <2>3, <2>5 DEF NoConfig
<1>3. file # Torn /\ Safe(file)
  BY <1>2, TornAssumption DEF load_v11_config, load_config, Safe
<1>4. \A t \in Threads : th[t] = IdleThread
  BY DEF Init
<1>5. /\ mounts = file.managed /\ timers = {} /\ raced = FALSE
      /\ requests = 0 /\ faults = 0 /\ legacy = "on"
      /\ th = [t \in Threads |-> IdleThread]
      /\ scoped = {p \in Platforms : file.scope[p] = "exact"}
  BY DEF Init
<1>6. MgmtTypes
  <2>1. th \in [Threads -> Thread]
    BY <1>5, IdleType
  <2>2. /\ mounts \subseteq Replicas /\ timers \subseteq Policies
        /\ scoped \subseteq Platforms /\ file \in Config \cup {Torn}
    BY <1>2, <1>5, ConfigFields
  <2>3. requests \in 0..MaxRequests /\ faults \in 0..MaxFaults
    BY <1>5, ManagementAssumption
  <2>4. legacy \in {"on", "off", "again"} /\ raced \in BOOLEAN
    BY <1>5
  <2>5. TypeOK
    BY <2>1, <2>2, <2>3, <2>4 DEF TypeOK
  <2> QED
    BY <1>4, <2>5, IdleType DEF MgmtTypes, Shape
<1>7. NoConfig # Torn /\ Safe(NoConfig) /\ NoConfig.managed = {}
  <2>1. NoConfig.managed = {}
    BY DEF NoConfig
  <2> QED
    BY <2>1, NoConfigType, TornAssumption
<1>8. TornInv
  BY <1>3, <1>4, <1>7, IdleType DEF TornInv, TornThread, OneRollback
<1>9. SafeInv
  BY <1>3, <1>4, <1>5, <1>7, IdleType DEF SafeInv, SafeThread
<1>10. ScopeInv
  BY <1>4, <1>5, IdleType DEF ScopeInv, ScopeThread, Held, Selects
<1>11. TimerInv
  BY <1>2, <1>4, <1>5, IdleType DEF TimerInv, TimerThread, Timed
<1> QED
  BY <1>6, <1>8, <1>9, <1>10, <1>11 DEF MgmtInv

(* A thread with the same step and the same job keeps its shape. *)
LEMMA ShapeStays ==
    ASSUME NEW x, Shape(x), SameJob(x), th'[x].pc = th[x].pc
    PROVE  Shape(x)'
BY DEF Shape, SameJob

LEMMA ThreadStays ==
    ASSUME NEW x, Shape(x), th'[x] = th[x]
    PROVE  Shape(x)'
BY DEF Shape

LEMMA IdleShape ==
    ASSUME NEW x, th'[x] = IdleThread
    PROVE  Shape(x)'
BY IdleType DEF Shape

LEMMA FaultCounts ==
    ASSUME MgmtTypes, Fault
    PROVE  faults' \in 0..MaxFaults /\ faults' > 0 /\ faults' = faults + 1
BY ManagementAssumption DEF Fault, MgmtTypes, TypeOK

LEMMA RequestTypes ==
    ASSUME MgmtTypes, NEW t \in Threads, Request(t)
    PROVE  MgmtTypes'
<1>1. PICK via \in Kinds,
           pc \in {"mount", "previous", "replace"},
           about \in Abouts,
           cand \in Config :
        Start(t, via, pc, about, cand) /\ Derived(via, pc, about, cand)
  BY RequestShape
<1>2. pc \in Pcs
  BY DEF Pcs
<1>3. /\ th' \in [Threads -> Thread] /\ Alone(t)
      /\ th'[t].pc = pc /\ th'[t].via = via /\ th'[t].about = about
  <2>1. Start(t, via, pc, about, cand)
    BY <1>1
  <2>2. th' \in [Threads -> Thread] /\ Alone(t)
    BY <1>2, <2>1, StartFields
  <2>3. Started(t, via, pc, about, cand)
    BY <1>2, <2>1, StartFields
  <2> QED
    BY <2>2, <2>3 DEF Started
<1>4. Shape(t)'
  BY <1>1, <1>3 DEF Derived, Shape
<1>5. \A x \in Threads : Shape(x)'
  BY <1>3, <1>4, ThreadStays DEF Alone, MgmtTypes
<1>6. /\ requests' \in 0..MaxRequests
      /\ UNCHANGED <<file, mounts, timers, legacy, scoped, raced, faults>>
  BY <1>1, ManagementAssumption DEF Start, MgmtTypes, TypeOK, units
<1> QED
  BY <1>3, <1>5, <1>6 DEF MgmtTypes, TypeOK

(* A thread is done, or goes on to a step of its kind. *)
LEMMA GotoTypes ==
    ASSUME MgmtTypes, NEW t \in Threads, NEW pc \in Pcs,
           Answer(t) \/ Goto(t, pc),
           pc = "mount" => th[t].via = "commit" /\ th[t].about \in Replicas,
           pc \in {"previous", "undo", "rewrite"} =>
             th[t].via \in {"commit", "select"},
           pc \in {"sync", "enable", "disable", "legacy"} =>
             th[t].via = "policy",
           pc = "post" => th[t].via # "policy"
    PROVE  th' \in [Threads -> Thread] /\ \A x \in Threads : Shape(x)'
<1>1. th' \in [Threads -> Thread] /\ Alone(t)
  BY AnswerFields, GotoFields
<1>2. Shape(t)
  BY DEF MgmtTypes
<1>3. Shape(t)'
  <2>1. CASE Answer(t)
    BY <2>1, AnswerFields, IdleShape
  <2>2. CASE Goto(t, pc)
    <3>1. th'[t].pc = pc /\ SameJob(t)
      BY <2>2, GotoFields
    <3> QED
      BY <1>2, <3>1 DEF Shape, SameJob
  <2> QED
    BY <2>1, <2>2
<1> QED
  BY <1>1, <1>3, ThreadStays DEF Alone, MgmtTypes

LEMMA WorkTypes ==
    ASSUME MgmtTypes, NEW t \in Threads, Work(t)
    PROVE  MgmtTypes'
<1>1. /\ th[t].pc \in Pcs
      /\ th[t].cand \in Config /\ th[t].prev \in Config \cup {Torn}
      /\ Shape(t) /\ TypeOK
  BY ThreadFields DEF MgmtTypes
<1>2. Fault => faults' \in 0..MaxFaults
  BY FaultCounts
<1> SUFFICES /\ th' \in [Threads -> Thread] /\ \A x \in Threads : Shape(x)'
             /\ file' \in Config \cup {Torn} /\ mounts' \subseteq Replicas
             /\ timers' \subseteq Policies /\ legacy' \in {"on", "off", "again"}
             /\ scoped' \subseteq Platforms /\ raced' \in BOOLEAN
             /\ requests' \in 0..MaxRequests /\ faults' \in 0..MaxFaults
  BY DEF MgmtTypes, TypeOK
<1>3. /\ {"post", "undo", "rewrite", "sync", "enable", "disable", "legacy",
          "previous"} \subseteq Pcs
  BY DEF Pcs
<1>4. CASE EnsureMount(t)
  <2>1. th[t].via = "commit" /\ th[t].about \in Replicas
    BY <1>1, <1>4 DEF EnsureMount, Shape
  <2>2. Answer(t) \/ Goto(t, "previous")
    BY <1>4 DEF EnsureMount
  <2>3. th' \in [Threads -> Thread] /\ \A x \in Threads : Shape(x)'
    BY <1>3, <2>1, <2>2, GotoTypes
  <2> QED
    BY <1>1, <1>2, <1>4, <2>1, <2>3 DEF EnsureMount, TypeOK
<1>5. CASE ReadPrevious(t)
  <2>1. /\ th' \in [Threads -> Thread] /\ Alone(t)
        /\ th'[t].pc = "replace" /\ SameJob(t)
    BY <1>5, ReadPreviousFields
  <2>2. Shape(t)'
    BY <1>1, <2>1 DEF Shape, SameJob
  <2>3. \A x \in Threads : Shape(x)'
    BY <2>1, <2>2, ThreadStays DEF Alone, MgmtTypes
  <2> QED
    BY <1>1, <1>5, <2>1, <2>3 DEF ReadPrevious, TypeOK, units
<1>6. CASE Replace(t)
  <2>1. PICK pc \in Pcs : /\ Overtaken(t, pc) /\ pc \in {"sync", "post"}
                          /\ pc = "sync" <=> th[t].via = "policy"
    BY <1>3, <1>6 DEF Replace, AfterReplace
  <2>2. /\ th' \in [Threads -> Thread] /\ th'[t].pc = pc /\ SameJob(t)
        /\ \A x \in Threads \ {t} : th'[x].pc = th[x].pc /\ SameJob(x)
    BY <2>1, OvertakenFields
  <2>3. Shape(t)'
    BY <1>1, <2>1, <2>2 DEF Shape, SameJob
  <2>4. \A x \in Threads : Shape(x)'
    BY <2>2, <2>3, ShapeStays DEF MgmtTypes
  <2>5. scoped' \subseteq scoped
    BY <1>6 DEF Replace
  <2> QED
    BY <1>1, <1>6, <2>2, <2>4, <2>5 DEF Replace, TypeOK, units
<1>7. CASE ReplaceFails(t) \/ PostFails(t)
  <2>1. \/ Answer(t)
        \/ Goto(t, "undo") /\ th[t].via \in {"commit", "select"}
    BY <1>7 DEF ReplaceFails, PostFails, IsCommit
  <2>2. th' \in [Threads -> Thread] /\ \A x \in Threads : Shape(x)'
    BY <1>3, <2>1, GotoTypes
  <2>3. /\ UNCHANGED <<file, mounts, timers, legacy, scoped, raced, requests>>
        /\ Fault
    BY <1>7 DEF ReplaceFails, PostFails, units
  <2> QED
    BY <1>1, <1>2, <2>2, <2>3 DEF TypeOK
<1>8. CASE Post(t)
  <2>1. \/ Answer(t)
        \/ Goto(t, "undo") /\ th[t].via \in {"commit", "select"}
    BY <1>8 DEF Post, Acknowledge, IsCommit
  <2>2. th' \in [Threads -> Thread] /\ \A x \in Threads : Shape(x)'
    BY <1>3, <2>1, GotoTypes
  <2>3. /\ UNCHANGED <<file, mounts, timers, legacy, raced, requests, faults>>
        /\ \/ scoped' = scoped
           \/ scoped' = scoped \cup {th[t].about} /\ th[t].via = "select"
    BY <1>8 DEF Post, Acknowledge, units
  <2>4. scoped' \subseteq Platforms
    BY <1>1, <2>3 DEF Shape, TypeOK
  <2> QED
    BY <1>1, <2>2, <2>3, <2>4 DEF TypeOK
<1>9. CASE Undo(t)
  <2>1. /\ th' \in [Threads -> Thread] /\ th'[t].pc = "rewrite" /\ SameJob(t)
        /\ \A x \in Threads \ {t} : th'[x].pc = th[x].pc /\ SameJob(x)
    BY <1>9, UndoFields
  <2>2. Shape(t)'
    BY <1>1, <1>9, <2>1 DEF Shape, SameJob, Undo
  <2>3. \A x \in Threads : Shape(x)'
    BY <2>1, <2>2, ShapeStays DEF MgmtTypes
  <2> QED
    BY <1>1, <1>9, <2>1, <2>3 DEF Undo, TypeOK, units
<1>10. CASE Rewrite(t)
  <2>1. th' \in [Threads -> Thread] /\ \A x \in Threads : Shape(x)'
    BY <1>3, <1>10, GotoTypes DEF Rewrite
  <2>2. file' \in {file, th[t].prev, Torn}
    BY <1>10 DEF Rewrite
  <2> QED
    BY <1>1, <1>10, <2>1, <2>2 DEF Rewrite, TypeOK, units
<1>11. CASE LoadForTimer(t) \/ DisableTimer(t) \/ EnableTimer(t)
              \/ DisableLegacy(t)
  <2>1. th[t].via = "policy" /\ th[t].about \in Policies
    BY <1>1, <1>11
       DEF LoadForTimer, DisableTimer, EnableTimer, DisableLegacy, Shape
  <2>2. \/ Answer(t) \/ Goto(t, "enable") \/ Goto(t, "disable")
        \/ Goto(t, "legacy")
    BY <1>11 DEF LoadForTimer, DisableTimer, EnableTimer, DisableLegacy
  <2>3. th' \in [Threads -> Thread] /\ \A x \in Threads : Shape(x)'
    BY <1>3, <2>1, <2>2, GotoTypes
  <2>4. /\ UNCHANGED <<file, mounts, scoped, requests>>
        /\ raced' \in BOOLEAN /\ (UNCHANGED faults \/ Fault)
        /\ timers' \in {timers, timers \ {th[t].about},
                        timers \cup {th[t].about}}
        /\ legacy' \in {legacy, "off"}
    BY <1>1, <1>11 DEF LoadForTimer, DisableTimer, EnableTimer, TypeOK,
                       DisableLegacy, units
  <2>5. timers' \subseteq Policies
    BY <1>1, <2>1, <2>4 DEF TypeOK
  <2> QED
    BY <1>1, <1>2, <2>3, <2>4, <2>5 DEF TypeOK
<1> QED
  BY <1>4, <1>5, <1>6, <1>7, <1>8, <1>9, <1>10, <1>11 DEF Work

LEMMA KillFields ==
    ASSUME MgmtTypes, Kill
    PROVE  /\ th' \in [Threads -> Thread]
           /\ \A t \in Threads : th'[t] = IdleThread
           /\ faults' = faults + 1 /\ faults' \in 0..MaxFaults
           /\ UNCHANGED <<file, mounts, timers, legacy, scoped, raced,
                          requests>>
BY IdleType, FaultCounts DEF Kill, units

LEMMA StepTypes ==
    ASSUME MgmtTypes, [Next]_vars
    PROVE  MgmtTypes'
<1>1. CASE UNCHANGED vars
  BY <1>1 DEF vars, MgmtTypes, TypeOK, Shape
<1>2. CASE Kill
  <2>1. TypeOK'
    BY <1>2, KillFields DEF MgmtTypes, TypeOK
  <2> QED
    BY <1>2, <2>1, KillFields, IdleShape DEF MgmtTypes
<1>3. CASE WizardTimers
  <2>1. /\ UNCHANGED <<file, mounts, timers, th, scoped, raced>>
        /\ legacy' \in {legacy, "again"} /\ requests' \in 0..MaxRequests
        /\ faults' \in 0..MaxFaults
    BY <1>3, FaultCounts, ManagementAssumption
       DEF WizardTimers, MgmtTypes, TypeOK
  <2> QED
    BY <2>1 DEF MgmtTypes, TypeOK, Shape
<1> QED
  BY <1>1, <1>2, <1>3, RequestTypes, WorkTypes DEF Next

LEMMA RequestMoves ==
    ASSUME MgmtTypes, NEW t \in Threads, Request(t)
    PROVE  /\ file # Torn /\ file \in Config
           /\ UNCHANGED <<file, mounts, timers, legacy, scoped, raced, faults>>
           /\ Alone(t) /\ th[t].pc = "idle"
           /\ \E via \in Kinds,
                 pc \in {"mount", "previous", "replace"},
                 about \in Abouts,
                 cand \in Config :
                /\ Started(t, via, pc, about, cand)
                /\ Derived(via, pc, about, cand)
<1>1. PICK via \in Kinds,
           pc \in {"mount", "previous", "replace"},
           about \in Abouts,
           cand \in Config :
        Start(t, via, pc, about, cand) /\ Derived(via, pc, about, cand)
  BY RequestShape
<1>2. pc \in Pcs /\ Start(t, via, pc, about, cand)
  BY <1>1 DEF Pcs
<1>3. Alone(t)
  BY <1>2, StartFields
<1>4. Started(t, via, pc, about, cand)
  BY <1>2, StartFields
<1>5. /\ UNCHANGED <<file, mounts, timers, legacy, scoped, raced, faults>>
      /\ th[t].pc = "idle"
  BY <1>2 DEF Start, units
<1>6. file # Torn /\ file \in Config
  BY RequestShape
<1> QED
  BY <1>1, <1>3, <1>4, <1>5, <1>6

-----------------------------------------------------------------------------
(* The file is unreadable only during or after a rollback. *)

TornFile ==
    file = Torn => raced \/ faults > 1
                     \/ \E t \in Threads : th[t].pc = "rewrite"

LEMMA LoadsUnlessTorn ==
    ASSUME Owned = Platforms, SafeInv
    PROVE  file # Torn => load_v11_config(file)
BY DEF SafeInv, Safe, load_v11_config, load_config, TenantsOwn, Present

LEMMA TornStays ==
    ASSUME NEW x, TornThread(x), th'[x].pc = th[x].pc,
           th'[x].prev = th[x].prev, th'[x].stale = th[x].stale,
           th'[x].hold = th[x].hold,
           file' = file, raced => raced', faults > 0 => faults' > 0
    PROVE  TornThread(x)'
BY DEF TornThread

(* A thread that another overtakes. *)
LEMMA TornOvertaken ==
    ASSUME NEW x, TornThread(x), th'[x].pc = th[x].pc,
           th'[x].prev = th[x].prev, th'[x].stale = (th[x].pc # "idle"),
           raced => raced', faults' = faults
    PROVE  TornThread(x)'
BY DEF TornThread

LEMMA TornIdle ==
    ASSUME NEW x, th'[x] = IdleThread
    PROVE  TornThread(x)'
BY IdleType, NoConfigType, TornAssumption DEF TornThread

LEMMA RollbackStays ==
    ASSUME TornInv,
           \A x \in Threads : th'[x].pc = "rewrite" =>
             th[x].pc = "rewrite" /\ (th[x].stale => th'[x].stale)
    PROVE  \A x \in Threads : OneRollback(x)'
BY DEF TornInv, OneRollback

(* A step that neither touches the file nor begins or ends a rewrite.      *)
LEMMA QuietTorn ==
    ASSUME MgmtTypes, TornInv, NEW t \in Threads,
           NEW pc \in Pcs \ {"idle", "rewrite"},
           Answer(t) \/ Goto(t, pc),
           th[t].pc \notin {"idle", "rewrite"},
           file' = file, raced => raced', raced' \in BOOLEAN,
           faults' = faults \/ Fault,
           pc = "undo" => faults' > 0 \/ raced'
    PROVE  TornInv'
<1>1. faults \in Nat /\ faults' \in Nat /\ faults' >= faults
  BY FaultCounts, ManagementAssumption DEF MgmtTypes, TypeOK
<1>2. Alone(t)
  BY AnswerFields, GotoFields
<1>3. \A x \in Threads : TornThread(x) /\ OneRollback(x)
  BY DEF TornInv
<1>4. TornThread(t)'
  <2>1. CASE Answer(t)
    BY <2>1, AnswerFields, TornIdle
  <2>2. CASE Goto(t, pc)
    <3>1. /\ th'[t].pc = pc /\ th'[t].prev = th[t].prev
          /\ th'[t].stale = th[t].stale
      BY <2>2, GotoFields
    <3> QED
      BY <1>3, <3>1 DEF TornThread
  <2> QED
    BY <2>1, <2>2
<1>5. \A x \in Threads \ {t} : th'[x] = th[x]
  BY <1>2 DEF Alone
<1>6. \A x \in Threads : TornThread(x)'
  BY <1>1, <1>3, <1>4, <1>5, TornStays
<1>7. th'[t].pc # "rewrite"
  BY AnswerFields, GotoFields, IdleType
<1>8. \A x \in Threads : OneRollback(x)'
  BY <1>5, <1>7, RollbackStays
<1>9. TornFile'
  <2>1. TornFile
    BY DEF TornInv, TornFile
  <2>2. \A u \in Threads : th[u].pc = "rewrite" => th'[u].pc = "rewrite"
    BY <1>5
  <2> QED
    BY <1>1, <2>1, <2>2 DEF TornFile
<1> QED
  BY <1>6, <1>8, <1>9 DEF TornInv, TornFile

LEMMA QuietSteps ==
    ASSUME MgmtTypes, TornInv, SafeInv, Owned = Platforms, NEW t \in Threads,
           \/ EnsureMount(t) \/ ReplaceFails(t) \/ Post(t) \/ PostFails(t)
           \/ LoadForTimer(t) \/ DisableTimer(t) \/ EnableTimer(t)
           \/ DisableLegacy(t)
    PROVE  TornInv'
<1>1. /\ {"previous", "undo", "enable", "disable", "legacy"}
           \subseteq Pcs \ {"idle", "rewrite"}
      /\ raced \in BOOLEAN
  BY DEF Pcs, MgmtTypes, TypeOK
<1>2. CASE EnsureMount(t) \/ LoadForTimer(t) \/ DisableTimer(t)
             \/ EnableTimer(t) \/ DisableLegacy(t)
  <2>1. /\ \/ Answer(t) \/ Goto(t, "previous") \/ Goto(t, "enable")
           \/ Goto(t, "disable") \/ Goto(t, "legacy")
        /\ th[t].pc \in {"mount", "sync", "enable", "disable", "legacy"}
        /\ file' = file /\ (raced => raced') /\ raced' \in BOOLEAN
        /\ faults' = faults \/ Fault
    BY <1>1, <1>2 DEF EnsureMount, LoadForTimer, DisableTimer, EnableTimer,
                      DisableLegacy
  <2> QED
    BY <1>1, <2>1, QuietTorn
<1>3. CASE ReplaceFails(t) \/ PostFails(t)
  <2>1. /\ Answer(t) \/ Goto(t, "undo")
        /\ th[t].pc \in {"replace", "post"}
        /\ file' = file /\ raced' = raced /\ Fault
    BY <1>3 DEF ReplaceFails, PostFails
  <2>2. faults' > 0
    BY <2>1, FaultCounts
  <2> QED
    BY <1>1, <2>1, <2>2, QuietTorn
<1>4. CASE Post(t)
  <2>1. /\ th[t].pc = "post" /\ file' = file /\ raced' = raced
        /\ faults' = faults
        /\ Answer(t) \/ (Goto(t, "undo") /\ ~load_v11_config(file))
    BY <1>4 DEF Post, Acknowledge
  <2>2. Goto(t, "undo") /\ ~load_v11_config(file) => faults > 0 \/ raced
    <3>1. ~load_v11_config(file) => file = Torn
      BY LoadsUnlessTorn
    <3>2. faults \in Nat
      BY ManagementAssumption DEF MgmtTypes, TypeOK
    <3> QED
      BY <3>1, <3>2 DEF TornInv, TornThread
  <2>3. CASE Answer(t)
    <3>1. "previous" \in Pcs \ {"idle", "rewrite"}
      BY <1>1
    <3> QED
      BY <1>1, <2>1, <2>3, <3>1, QuietTorn
  <2>4. CASE Goto(t, "undo") /\ ~load_v11_config(file)
    BY <1>1, <2>1, <2>2, <2>4, QuietTorn
  <2> QED
    BY <2>1, <2>3, <2>4
<1> QED
  BY <1>2, <1>3, <1>4

LEMMA StepTorn ==
    ASSUME MgmtTypes, TornInv, SafeInv, Owned = Platforms, [Next]_vars
    PROVE  TornInv'
<1>1. /\ faults \in Nat /\ raced \in BOOLEAN
      /\ \A x \in Threads : TornThread(x) /\ OneRollback(x)
      /\ TornFile
  BY ManagementAssumption DEF MgmtTypes, TypeOK, TornInv, TornFile
<1>2. ASSUME UNCHANGED vars
      PROVE  TornInv'
  BY <1>2 DEF vars, TornInv, TornThread, OneRollback
<1>3. ASSUME Kill
      PROVE  TornInv'
  <2>1. /\ \A x \in Threads : th'[x] = IdleThread
        /\ faults' = faults + 1 /\ file' = file /\ raced' = raced
    BY <1>3, KillFields
  <2>2. TornFile'
    BY <1>1, <2>1 DEF TornFile, TornThread
  <2>3. \A x \in Threads : TornThread(x)' /\ th'[x].pc # "rewrite"
    BY <2>1, TornIdle, IdleType
  <2> QED
    BY <2>2, <2>3 DEF TornInv, TornFile, OneRollback
<1>4. ASSUME NEW t \in Threads, Request(t)
      PROVE  TornInv'
  <2>1. PICK via \in Kinds,
             pc \in {"mount", "previous", "replace"},
             about \in Abouts,
             cand \in Config :
          Started(t, via, pc, about, cand)
    BY <1>4, RequestMoves
  <2>2. /\ file # Torn /\ Alone(t) /\ th[t].pc = "idle"
        /\ UNCHANGED <<file, raced, faults>>
    BY <1>4, RequestMoves
  <2>3. TornThread(t)' /\ th'[t].pc # "rewrite"
    BY <2>1, <2>2, NoConfigType, TornAssumption DEF Started, TornThread
  <2>4. \A x \in Threads : TornThread(x)'
    BY <1>1, <2>2, <2>3, TornStays DEF Alone
  <2>5. \A x \in Threads : OneRollback(x)'
    BY <2>2, <2>3, RollbackStays DEF Alone
  <2> QED
    BY <2>2, <2>4, <2>5 DEF TornInv
<1>5. ASSUME NEW t \in Threads, ReadPrevious(t)
      PROVE  TornInv'
  <2>1. /\ Alone(t) /\ th'[t].pc = "replace" /\ th'[t].prev = file
        /\ th'[t].stale = th[t].stale
        /\ th[t].pc = "previous" /\ UNCHANGED <<file, raced, faults>>
    BY <1>5, ReadPreviousFields DEF ReadPrevious
  <2>2. TornThread(t)'
    BY <1>1, <2>1 DEF TornThread
  <2>3. \A x \in Threads : TornThread(x)'
    BY <1>1, <2>1, <2>2, TornStays DEF Alone
  <2>4. \A x \in Threads : OneRollback(x)'
    BY <2>1, RollbackStays DEF Alone
  <2>5. TornFile'
    BY <1>1, <2>1 DEF TornFile, Alone
  <2> QED
    BY <2>3, <2>4, <2>5 DEF TornInv, TornFile
<1>6. ASSUME NEW t \in Threads, Replace(t)
      PROVE  TornInv'
  <2>1. PICK pc \in {"sync", "post"} : Overtaken(t, pc)
    BY <1>6 DEF Replace, AfterReplace
  <2>2. /\ th'[t].pc = pc /\ th'[t].prev = th[t].prev
        /\ th'[t].stale = th[t].stale
        /\ \A x \in Threads \ {t} :
             /\ th'[x].pc = th[x].pc /\ th'[x].prev = th[x].prev
             /\ th'[x].stale = (th[x].pc # "idle")
    <3>1. pc \in Pcs
      BY DEF Pcs
    <3> QED
      BY <2>1, <3>1, OvertakenFields
  <2>3. /\ file' \in Config /\ file' # Torn /\ faults' = faults
        /\ raced' = (raced \/ th[t].stale)
    BY <1>6, ThreadFields, TornAssumption DEF Replace
  <2>4. TornThread(t)'
    BY <1>1, <2>2, <2>3 DEF TornThread
  <2>5. \A x \in Threads \ {t} : TornThread(x)'
    BY <1>1, <2>2, <2>3, TornOvertaken
  <2>6. \A x \in Threads : OneRollback(x)'
    BY <2>2, RollbackStays
  <2> QED
    BY <2>3, <2>4, <2>5, <2>6 DEF TornInv
<1>7. ASSUME NEW t \in Threads, Undo(t)
      PROVE  TornInv'
  <2>1. /\ th'[t].pc = "rewrite" /\ th'[t].prev = th[t].prev
        /\ th'[t].stale = th[t].stale /\ th'[t].hold = TRUE
        /\ \A x \in Threads \ {t} :
             /\ th'[x].pc = th[x].pc /\ th'[x].prev = th[x].prev
             /\ th'[x].stale = (th[x].pc # "idle")
    BY <1>7, UndoFields
  <2>2. /\ file' = Torn /\ faults' = faults /\ th[t].pc = "undo"
        /\ raced' = (raced \/ th[t].stale)
    BY <1>7 DEF Undo
  <2>3. TornThread(t)'
    BY <1>1, <2>1, <2>2 DEF TornThread
  <2>4. \A x \in Threads \ {t} : TornThread(x)'
    BY <1>1, <2>1, <2>2, TornOvertaken
  <2>5. \A x \in Threads : OneRollback(x)'
    BY <2>1 DEF OneRollback
  <2> QED
    BY <2>1, <2>3, <2>4, <2>5 DEF TornInv
<1>8. ASSUME NEW t \in Threads, Rewrite(t)
      PROVE  TornInv'
  <2>1. /\ Answer(t) /\ th[t].pc = "rewrite" /\ faults' = faults
        /\ raced' = (raced \/ th[t].stale)
        /\ file' \in IF ~th[t].hold THEN {file}
                     ELSE IF file = Torn THEN {th[t].prev}
                     ELSE {th[t].prev, Torn}
    BY <1>8 DEF Rewrite
  <2>2. th'[t] = IdleThread /\ \A x \in Threads \ {t} : th'[x] = th[x]
    BY <2>1, AnswerFields DEF Alone
  <2>3. TornThread(t) /\ th[t].stale \in BOOLEAN
    BY <1>1, ThreadFields
  <2>4. file' = Torn => raced'
    BY <2>1, <2>3 DEF TornThread
  <2>5. ASSUME NEW x \in Threads \ {t}
        PROVE  TornThread(x)'
    <3>1. TornThread(x) /\ OneRollback(x)
      BY <1>1
    <3>2. th[x].pc = "rewrite" => th[t].stale \/ th[x].stale
      BY <2>1, <3>1 DEF OneRollback
    <3> QED
      BY <2>1, <2>2, <2>4, <3>1, <3>2 DEF TornThread
  <2>6. TornThread(t)'
    BY <2>2, TornIdle
  <2>7. \A x \in Threads : OneRollback(x)'
    BY <2>2, IdleType, RollbackStays
  <2> QED
    BY <2>4, <2>5, <2>6, <2>7 DEF TornInv
<1>9. ASSUME WizardTimers
      PROVE  TornInv'
  <2>1. /\ UNCHANGED <<file, th, raced>>
        /\ faults' = faults \/ faults' = faults + 1
    BY <1>9 DEF WizardTimers, Fault
  <2> QED
    BY <1>1, <2>1 DEF TornInv, TornThread, OneRollback
<1> QED
  BY <1>2, <1>3, <1>4, <1>5, <1>6, <1>7, <1>8, <1>9, QuietSteps
     DEF Next, Work

-----------------------------------------------------------------------------
(* What is readable loads. *)

LEMMA SafeStays ==
    ASSUME NEW x, SafeThread(x), th'[x].cand = th[x].cand,
           th'[x].prev = th[x].prev, mounts \subseteq mounts',
           th[x].pc = "mount" =>
             th'[x].pc = "mount" /\ th'[x].about = th[x].about
    PROVE  SafeThread(x)'
BY DEF SafeThread

LEMMA SafeIdle ==
    ASSUME NEW x, th'[x] = IdleThread
    PROVE  SafeThread(x)'
<1>1. NoConfig.managed = {}
  BY DEF NoConfig
<1> QED
  BY <1>1, IdleType, NoConfigType DEF SafeThread

(* A step that leaves the file alone, and of one thread at most the step.  *)
LEMMA QuietSafe ==
    ASSUME MgmtTypes, SafeInv, NEW t \in Threads, NEW pc \in Pcs,
           Answer(t) \/ Goto(t, pc), th[t].pc # "mount",
           file' = file, mounts' = mounts
    PROVE  SafeInv'
<1>1. Alone(t) /\ \A x \in Threads : SafeThread(x)
  BY AnswerFields, GotoFields DEF SafeInv
<1>2. SafeThread(t)'
  <2>1. CASE Answer(t)
    BY <2>1, AnswerFields, SafeIdle
  <2>2. CASE Goto(t, pc)
    <3>1. th'[t].cand = th[t].cand /\ th'[t].prev = th[t].prev
      BY <2>2, GotoFields DEF SameJob
    <3> QED
      BY <1>1, <3>1, SafeStays
  <2> QED
    BY <2>1, <2>2
<1>3. \A x \in Threads : SafeThread(x)'
  BY <1>1, <1>2, SafeStays DEF Alone
<1> QED
  BY <1>3 DEF SafeInv

LEMMA StepSafe ==
    ASSUME MgmtTypes, SafeInv, [Next]_vars
    PROVE  SafeInv'
<1>1. \A x \in Threads : SafeThread(x)
  BY DEF SafeInv
<1>2. ASSUME UNCHANGED vars \/ WizardTimers
      PROVE  SafeInv'
  <2>1. UNCHANGED <<file, mounts, th>>
    BY <1>2 DEF vars, WizardTimers
  <2> QED
    BY <2>1 DEF SafeInv, SafeThread, Safe, DrResolves, PoliciesResolve,
                Present
<1>3. ASSUME Kill
      PROVE  SafeInv'
  BY <1>3, KillFields, SafeIdle DEF SafeInv
<1>4. ASSUME NEW t \in Threads, Request(t)
      PROVE  SafeInv'
  <2>1. PICK via \in Kinds,
             pc \in {"mount", "previous", "replace"},
             about \in Abouts,
             cand \in Config :
          Started(t, via, pc, about, cand) /\ Derived(via, pc, about, cand)
    BY <1>4, RequestMoves
  <2>2. /\ file # Torn /\ Alone(t) /\ UNCHANGED <<file, mounts>>
    BY <1>4, RequestMoves
  <2>3. Safe(cand) /\ Safe(NoConfig) /\ NoConfig.managed = {}
    <3>1. NoConfig.managed = {}
      BY DEF NoConfig
    <3> QED
      BY <2>1, <2>2, <3>1, NoConfigType DEF Derived, SafeInv
  <2>4. SafeThread(t)'
    <3>1. file.managed \subseteq mounts
      BY <2>2 DEF SafeInv
    <3> QED
      BY <2>1, <2>2, <2>3, <3>1 DEF Started, Derived, SafeThread
  <2>5. \A x \in Threads : SafeThread(x)'
    BY <1>1, <2>2, <2>4, SafeStays DEF Alone
  <2> QED
    BY <2>2, <2>5 DEF SafeInv
<1>5. ASSUME NEW t \in Threads, EnsureMount(t)
      PROVE  SafeInv'
  <2>1. /\ th[t].pc = "mount" /\ file' = file
        /\ \/ Answer(t) /\ mounts' = mounts
           \/ Goto(t, "previous") /\ mounts' = mounts \cup {th[t].about}
    BY <1>5 DEF EnsureMount
  <2>2. "previous" \in Pcs
    BY DEF Pcs
  <2>3. Alone(t)
    BY <2>1, <2>2, AnswerFields, GotoFields
  <2>4. SafeThread(t)'
    <3>1. CASE Answer(t)
      BY <3>1, AnswerFields, SafeIdle
    <3>2. CASE Goto(t, "previous") /\ mounts' = mounts \cup {th[t].about}
      <4>1. /\ th'[t].cand = th[t].cand /\ th'[t].prev = th[t].prev
            /\ th'[t].pc = "previous"
        BY <2>2, <3>2, GotoFields DEF SameJob
      <4> QED
        BY <1>1, <2>1, <3>2, <4>1 DEF SafeThread
    <3> QED
      BY <2>1, <3>1, <3>2
  <2>5. \A x \in Threads : SafeThread(x)'
    BY <1>1, <2>1, <2>3, <2>4, SafeStays DEF Alone
  <2> QED
    BY <2>1, <2>5 DEF SafeInv
<1>6. ASSUME NEW t \in Threads, ReadPrevious(t)
      PROVE  SafeInv'
  <2>1. /\ Alone(t) /\ th'[t].pc = "replace" /\ th'[t].prev = file
        /\ th'[t].cand = th[t].cand
        /\ th[t].pc = "previous" /\ UNCHANGED <<file, mounts>>
    BY <1>6, ReadPreviousFields DEF ReadPrevious, units, SameJob
  <2>2. SafeThread(t)'
    BY <1>1, <2>1 DEF SafeThread, SafeInv
  <2>3. \A x \in Threads : SafeThread(x)'
    BY <1>1, <2>1, <2>2, SafeStays DEF Alone
  <2> QED
    BY <2>1, <2>3 DEF SafeInv
<1>7. ASSUME NEW t \in Threads, Replace(t) \/ Undo(t)
      PROVE  SafeInv'
  <2>1. /\ \A x \in Threads : th'[x].cand = th[x].cand
                                /\ th'[x].prev = th[x].prev
        /\ \A x \in Threads \ {t} :
             th'[x].pc = th[x].pc /\ th'[x].about = th[x].about
    <3>1. CASE Replace(t)
      <4>1. PICK pc \in Pcs : Overtaken(t, pc)
        BY <3>1 DEF Replace, AfterReplace, Pcs
      <4> QED
        BY <4>1, OvertakenFields DEF SameJob
    <3>2. CASE Undo(t)
      BY <3>2, UndoFields DEF SameJob
    <3> QED
      BY <1>7, <3>1, <3>2
  <2>2. /\ th[t].pc \in {"replace", "undo"} /\ mounts' = mounts
        /\ file' = th[t].cand \/ file' = Torn
    BY <1>7 DEF Replace, Undo, units
  <2>3. \A x \in Threads : SafeThread(x)'
    BY <1>1, <2>1, <2>2, SafeStays
  <2>4. file' # Torn => Safe(file') /\ file'.managed \subseteq mounts
    BY <1>1, <2>2 DEF SafeThread
  <2> QED
    BY <2>2, <2>3, <2>4 DEF SafeInv, Safe, DrResolves, PoliciesResolve,
                            Present
<1>8. ASSUME NEW t \in Threads, Rewrite(t)
      PROVE  SafeInv'
  <2>1. /\ Answer(t) /\ mounts' = mounts
        /\ file' \in {file, th[t].prev, Torn}
    BY <1>8 DEF Rewrite, units
  <2>2. th'[t] = IdleThread /\ \A x \in Threads \ {t} : th'[x] = th[x]
    BY <2>1, AnswerFields DEF Alone
  <2>3. \A x \in Threads : SafeThread(x)'
    BY <1>1, <2>1, <2>2, SafeStays, SafeIdle
  <2>4. file' # Torn => Safe(file') /\ file'.managed \subseteq mounts
    BY <1>1, <2>1 DEF SafeThread, SafeInv
  <2> QED
    BY <2>1, <2>3, <2>4 DEF SafeInv, Safe, DrResolves, PoliciesResolve,
                            Present
<1>9. ASSUME NEW t \in Threads,
             \/ ReplaceFails(t) \/ Post(t) \/ PostFails(t)
             \/ LoadForTimer(t) \/ DisableTimer(t) \/ EnableTimer(t)
             \/ DisableLegacy(t)
      PROVE  SafeInv'
  <2>1. /\ \/ Answer(t) \/ Goto(t, "undo") \/ Goto(t, "enable")
           \/ Goto(t, "disable") \/ Goto(t, "legacy")
        /\ th[t].pc # "mount" /\ file' = file /\ mounts' = mounts
    BY <1>9 DEF ReplaceFails, Post, PostFails, LoadForTimer, DisableTimer,
                EnableTimer, DisableLegacy, Acknowledge, units
  <2>2. {"undo", "enable", "disable", "legacy"} \subseteq Pcs
    BY DEF Pcs
  <2> QED
    BY <2>1, <2>2, QuietSafe
<1> QED
  BY <1>2, <1>3, <1>4, <1>5, <1>6, <1>7, <1>8, <1>9 DEF Next, Work

(* Whoever races and whatever fails or dies, what is live passes the       *)
(* complete schema, and every replica in it that has a mount_type has been *)
(* mounted, beside any that the broker or the wizard saved unmounted; it is*)
(* unreadable only in a rollback, after two that met or after a kill       *)
(* (_commit, _atomic_v11, save_storage). The wizard does not ask whether a *)
(* tenant claims a platform, so each has to have one.                      *)
THEOREM LiveCorrect == Owned = Platforms => (Spec => []LiveLoads)
<1> SUFFICES ASSUME Owned = Platforms
             PROVE  Spec => []LiveLoads
  OBVIOUS
<1>1. Init => MgmtInv
  BY InitMgmt
<1>2. MgmtInv /\ [Next]_vars => MgmtInv'
  BY StepTypes, StepTorn, StepSafe DEF MgmtInv
<1>3. MgmtInv => LiveLoads
  <2> SUFFICES ASSUME MgmtInv PROVE LiveLoads
    OBVIOUS
  <2>1. file = Torn => raced \/ faults > 1
                         \/ \E t \in Threads : th[t].pc = "rewrite"
    BY DEF MgmtInv, TornInv
  <2>2. file # Torn => /\ DrResolves(file) /\ PoliciesResolve(file)
                       /\ file.managed \subseteq mounts
                       /\ TenantsOwn(file)
    BY LoadsUnlessTorn
       DEF MgmtInv, SafeInv, Safe, load_v11_config
  <2> QED
    BY <2>1, <2>2 DEF LiveLoads
<1> QED
  BY <1>1, <1>2, <1>3, PTL DEF Spec

-----------------------------------------------------------------------------
(* What was selected stays selected. *)

LEMMA HeldFewer ==
    ASSUME NEW p, scoped' = scoped,
           \A u \in Threads : Selects(u, p)' => Selects(u, p)
    PROVE  /\ Held(p)' => Held(p)
           /\ \A t \in Threads : HeldBesides(t, p)' => HeldBesides(t, p)
BY DEF Held, HeldBesides

LEMMA ScopeStays ==
    ASSUME NEW p, NEW x, ScopeThread(x, p), th'[x] = th[x],
           HeldBesides(x, p)' => HeldBesides(x, p)
    PROVE  ScopeThread(x, p)'
BY DEF ScopeThread

LEMMA ScopeIdle ==
    ASSUME NEW p, NEW x, th'[x] = IdleThread
    PROVE  ScopeThread(x, p)' /\ ~Selects(x, p)'
BY IdleType DEF ScopeThread, Selects

(* A thread that another overtakes carries nothing that has to be kept.    *)
LEMMA ScopeOvertaken ==
    ASSUME NEW p, NEW x, ScopeThread(x, p), th'[x].pc = th[x].pc,
           SameJob(x), th'[x].stale = (th[x].pc # "idle")
    PROVE  ScopeThread(x, p)'
BY DEF ScopeThread, SameJob

(* A step of one thread that leaves the file alone and does not replace it.*)
LEMMA QuietScope ==
    ASSUME MgmtTypes, NEW p \in Platforms, NEW t \in Threads,
           file # Torn /\ Held(p) => file.scope[p] = "exact",
           \A x \in Threads : ScopeThread(x, p),
           file' = file,
           \/ /\ Answer(t)
              /\ \/ scoped' = scoped
                 \/ scoped' = scoped \cup {th[t].about} /\ th[t].pc = "post"
                      /\ th[t].via = "select" /\ ~th[t].stale
           \/ /\ scoped' = scoped
              /\ \/ Goto(t, "previous") /\ th[t].pc = "mount"
                 \/ Goto(t, "undo") /\ th[t].pc \in {"replace", "post"}
                 \/ \E pc \in {"enable", "disable", "legacy"} : Goto(t, pc)
    PROVE  /\ file' # Torn /\ Held(p)' => file'.scope[p] = "exact"
           /\ \A x \in Threads : ScopeThread(x, p)'
<1>1. {"previous", "undo", "enable", "disable", "legacy"} \subseteq Pcs
  BY DEF Pcs
<1>2. \A x \in Threads \ {t} : th'[x] = th[x]
  BY <1>1, AnswerFields, GotoFields DEF Alone
<1>3. \A x \in Threads \ {t} : Selects(x, p)' <=> Selects(x, p)
  BY <1>2 DEF Selects
<1>4. CASE Answer(t)
  <2>1. th'[t] = IdleThread
    BY <1>4, AnswerFields
  <2>2. ScopeThread(t, p)' /\ ~Selects(t, p)'
    BY <2>1, ScopeIdle
  <2>3. p \in scoped' => p \in scoped \/ Selects(t, p)
    BY <1>1, <1>4, <2>1, GotoFields, IdleType DEF Selects
  <2>4. Held(p)' => Held(p)
    BY <1>3, <2>2, <2>3 DEF Held
  <2>5. \A x \in Threads \ {t} : HeldBesides(x, p)' => HeldBesides(x, p)
    BY <1>3, <2>2, <2>3 DEF HeldBesides
  <2> QED
    BY <1>2, <2>2, <2>4, <2>5, ScopeStays
<1>5. CASE /\ scoped' = scoped
           /\ \/ Goto(t, "previous") /\ th[t].pc = "mount"
              \/ Goto(t, "undo") /\ th[t].pc \in {"replace", "post"}
              \/ \E pc \in {"enable", "disable", "legacy"} : Goto(t, pc)
  <2>1. /\ SameJob(t) /\ th'[t].prev = th[t].prev
        /\ th'[t].stale = th[t].stale
        /\ \/ th'[t].pc = "previous" /\ th[t].pc = "mount"
           \/ th'[t].pc = "undo" /\ th[t].pc \in {"replace", "post"}
           \/ th'[t].pc \in {"enable", "disable", "legacy"}
    BY <1>1, <1>5, GotoFields
  <2>2. ~Selects(t, p)'
    BY <2>1 DEF Selects
  <2>3. /\ Held(p)' => Held(p)
        /\ \A x \in Threads : HeldBesides(x, p)' => HeldBesides(x, p)
    BY <1>3, <1>5, <2>2, HeldFewer
  <2>4. ScopeThread(t, p)'
    BY <2>1, <2>3 DEF ScopeThread, SameJob
  <2> QED
    BY <1>2, <2>3, <2>4, ScopeStays
<1> QED
  BY <1>4, <1>5

LEMMA QuietScopeSteps ==
    ASSUME MgmtTypes, NEW t \in Threads,
           \/ EnsureMount(t) \/ ReplaceFails(t) \/ Post(t) \/ PostFails(t)
           \/ LoadForTimer(t) \/ DisableTimer(t) \/ EnableTimer(t)
           \/ DisableLegacy(t)
    PROVE  /\ file' = file /\ (raced => raced')
           /\ \/ /\ Answer(t)
                 /\ \/ scoped' = scoped
                    \/ scoped' = scoped \cup {th[t].about}
                         /\ th[t].pc = "post" /\ th[t].via = "select"
                         /\ ~th[t].stale
              \/ /\ scoped' = scoped
                 /\ \/ Goto(t, "previous") /\ th[t].pc = "mount"
                    \/ Goto(t, "undo") /\ th[t].pc \in {"replace", "post"}
                    \/ \E pc \in {"enable", "disable", "legacy"} : Goto(t, pc)
<1>1. CASE EnsureMount(t)
  BY <1>1 DEF EnsureMount
<1>2. CASE ReplaceFails(t) \/ PostFails(t)
  BY <1>2 DEF ReplaceFails, PostFails
<1>3. CASE Post(t)
  BY <1>3 DEF Post, Acknowledge
<1>4. CASE LoadForTimer(t)
  <2>1. UNCHANGED <<file, scoped>> /\ (raced => raced')
    BY <1>4 DEF LoadForTimer
  <2>2. Answer(t) \/ Goto(t, "enable") \/ Goto(t, "disable")
    BY <1>4 DEF LoadForTimer
  <2> QED
    BY <2>1, <2>2
<1>5. CASE DisableTimer(t) \/ EnableTimer(t) \/ DisableLegacy(t)
  <2>1. UNCHANGED <<file, scoped>>
    BY <1>5 DEF DisableTimer, EnableTimer, DisableLegacy
  <2>2. raced' = (raced \/ th[t].stale) \/ raced' = raced
    BY <1>5 DEF DisableTimer, EnableTimer, DisableLegacy
  <2>3. Answer(t) \/ Goto(t, "legacy")
    BY <1>5 DEF DisableTimer, EnableTimer, DisableLegacy
  <2>4. raced => raced'
    BY <2>2
  <2> QED
    BY <2>1, <2>3, <2>4
<1> QED
  BY <1>1, <1>2, <1>3, <1>4, <1>5

LEMMA StepScope ==
    ASSUME MgmtTypes, ScopeInv, [Next]_vars
    PROVE  ScopeInv'
<1> DEFINE Good(p) == /\ file # Torn /\ Held(p) => file.scope[p] = "exact"
                      /\ \A x \in Threads : ScopeThread(x, p)
<1>1. ASSUME raced => raced', ~raced', NEW p \in Platforms
      PROVE  Good(p)
  BY <1>1 DEF ScopeInv
<1> SUFFICES ASSUME ~raced', NEW p \in Platforms
             PROVE  Good(p)'
  BY DEF ScopeInv
<1>2. ASSUME UNCHANGED vars \/ WizardTimers
      PROVE  Good(p)'
  <2>1. UNCHANGED <<file, th, scoped, raced>>
    BY <1>2 DEF vars, WizardTimers
  <2>2. Good(p)
    BY <1>1, <2>1
  <2> QED
    BY <2>1, <2>2 DEF Held, HeldBesides, Selects, ScopeThread
<1>3. ASSUME Kill
      PROVE  Good(p)'
  <2>1. /\ \A x \in Threads : th'[x] = IdleThread
        /\ UNCHANGED <<file, scoped, raced>>
    BY <1>3, KillFields
  <2>2. \A x \in Threads : ScopeThread(x, p)' /\ ~Selects(x, p)'
    BY <2>1, ScopeIdle
  <2>3. Held(p)' => Held(p)
    BY <2>1, <2>2, HeldFewer
  <2> QED
    BY <1>1, <2>1, <2>2, <2>3
<1>4. ASSUME NEW t \in Threads, Request(t)
      PROVE  Good(p)'
  <2>1. PICK via \in Kinds,
             pc \in {"mount", "previous", "replace"},
             about \in Abouts,
             cand \in Config :
          Started(t, via, pc, about, cand) /\ Derived(via, pc, about, cand)
    BY <1>4, RequestMoves
  <2>2. /\ file # Torn /\ Alone(t) /\ UNCHANGED <<file, scoped, raced>>
    BY <1>4, RequestMoves
  <2>3. Good(p)
    BY <1>1, <2>2
  <2>4. ~Selects(t, p)' /\ \A x \in Threads \ {t} : th'[x] = th[x]
    BY <2>1, <2>2 DEF Started, Selects, Alone
  <2>5. \A u \in Threads : Selects(u, p)' => Selects(u, p)
    BY <2>4 DEF Selects
  <2>6. /\ Held(p)' => Held(p)
        /\ \A x \in Threads : HeldBesides(x, p)' => HeldBesides(x, p)
    BY <2>2, <2>5, HeldFewer
  <2>7. HeldBesides(t, p)' =>
          cand.scope[p] = "exact" \/ (via = "widen" /\ about = p)
    BY <2>1, <2>2, <2>3, <2>6 DEF Held, HeldBesides, Derived
  <2>8. ScopeThread(t, p)'
    BY <2>1, <2>7 DEF Started, Derived, ScopeThread
  <2> QED
    BY <2>2, <2>3, <2>4, <2>6, <2>8, ScopeStays
<1>5. ASSUME NEW t \in Threads, ReadPrevious(t)
      PROVE  Good(p)'
  <2>1. /\ Alone(t) /\ th'[t].pc = "replace" /\ th'[t].prev = file
        /\ SameJob(t) /\ th'[t].stale = th[t].stale
        /\ th[t].pc = "previous" /\ UNCHANGED <<file, scoped, raced>>
    BY <1>5, ReadPreviousFields DEF ReadPrevious
  <2>2. Good(p)
    BY <1>1, <2>1
  <2>3. \A u \in Threads : Selects(u, p)' => Selects(u, p)
    BY <2>1 DEF Selects, Alone
  <2>4. /\ Held(p)' => Held(p)
        /\ \A x \in Threads : HeldBesides(x, p)' => HeldBesides(x, p)
    BY <2>1, <2>3, HeldFewer
  <2>5. HeldBesides(t, p) => Held(p)
    BY DEF Held, HeldBesides
  <2>6. ScopeThread(t, p)'
    BY <2>1, <2>2, <2>4, <2>5 DEF ScopeThread, SameJob
  <2> QED
    BY <2>1, <2>2, <2>4, <2>6, ScopeStays DEF Alone
<1>6. ASSUME NEW t \in Threads, Replace(t)
      PROVE  Good(p)'
  <2>1. PICK pc \in {"sync", "post"} :
          /\ Overtaken(t, pc)
          /\ pc = "post" <=> th[t].via # "policy"
    BY <1>6 DEF Replace, AfterReplace
  <2>2. /\ th'[t].pc = pc /\ SameJob(t) /\ th'[t].prev = th[t].prev
        /\ th'[t].stale = th[t].stale
        /\ \A x \in Threads \ {t} :
             /\ th'[x].pc = th[x].pc /\ SameJob(x)
             /\ th'[x].stale = (th[x].pc # "idle")
    <3>1. pc \in Pcs
      BY DEF Pcs
    <3> QED
      BY <2>1, <3>1, OvertakenFields
  <2>3. /\ file' = th[t].cand /\ th[t].pc = "replace"
        /\ scoped' = IF th[t].via = "widen" THEN scoped \ {th[t].about}
                     ELSE scoped
        /\ raced' = (raced \/ th[t].stale)
    BY <1>6 DEF Replace
  <2>4. Good(p) /\ ~th[t].stale
    BY <1>1, <2>3
  <2>5. \A x \in Threads \ {t} : ~Selects(x, p)'
    BY <2>2, IdleType DEF Selects
  <2>6. HeldBesides(t, p)' => /\ p \in scoped
                              /\ ~(th[t].via = "widen" /\ th[t].about = p)
    BY <2>3, <2>5 DEF HeldBesides
  <2>7. Held(p)' => HeldBesides(t, p)' \/ Selects(t, p)'
    BY DEF Held, HeldBesides
  <2>8. Selects(t, p)' => th[t].via = "select" /\ th[t].about = p
    BY <2>2 DEF Selects, SameJob
  <2>9. Held(p)' => file'.scope[p] = "exact"
    BY <2>3, <2>4, <2>6, <2>7, <2>8 DEF ScopeThread, HeldBesides
  <2>10. \A x \in Threads \ {t} : ScopeThread(x, p)'
    BY <2>2, <2>4, ScopeOvertaken
  <2>11. ScopeThread(t, p)'
    BY <2>2, <2>3, <2>4, <2>6 DEF ScopeThread, SameJob, HeldBesides
  <2> QED
    BY <2>9, <2>10, <2>11
<1>7. ASSUME NEW t \in Threads, Undo(t)
      PROVE  Good(p)'
  <2>1. /\ th'[t].pc = "rewrite" /\ th'[t].prev = th[t].prev
        /\ th'[t].stale = th[t].stale /\ SameJob(t)
        /\ \A x \in Threads \ {t} :
             /\ th'[x].pc = th[x].pc /\ SameJob(x)
             /\ th'[x].stale = (th[x].pc # "idle")
    BY <1>7, UndoFields
  <2>2. /\ file' = Torn /\ scoped' = scoped /\ th[t].pc = "undo"
        /\ raced' = (raced \/ th[t].stale)
    BY <1>7 DEF Undo
  <2>3. Good(p)
    BY <1>1, <2>2
  <2>4. \A x \in Threads \ {t} : Selects(x, p)' => Selects(x, p)
    BY <2>1 DEF Selects, SameJob
  <2>5. HeldBesides(t, p)' => HeldBesides(t, p)
    BY <2>2, <2>4 DEF HeldBesides
  <2>6. \A x \in Threads \ {t} : ScopeThread(x, p)'
    BY <2>1, <2>3, ScopeOvertaken
  <2>7. ScopeThread(t, p)'
    BY <2>1, <2>2, <2>3, <2>5 DEF ScopeThread, SameJob
  <2> QED
    BY <2>2, <2>6, <2>7
<1>8. ASSUME NEW t \in Threads, Rewrite(t)
      PROVE  Good(p)'
  <2>1. /\ Answer(t) /\ scoped' = scoped /\ th[t].pc = "rewrite"
        /\ raced' = (raced \/ th[t].stale)
        /\ file' \in {file, th[t].prev, Torn}
    BY <1>8 DEF Rewrite
  <2>2. th'[t] = IdleThread /\ \A x \in Threads \ {t} : th'[x] = th[x]
    BY <2>1, AnswerFields DEF Alone
  <2>3. Good(p) /\ ~th[t].stale /\ th[t].via \in {"commit", "select"}
    BY <1>1, <2>1, ThreadFields DEF Shape
  <2>4. ScopeThread(t, p)' /\ ~Selects(t, p)'
    BY <2>2, ScopeIdle
  <2>5. \A u \in Threads : Selects(u, p)' => Selects(u, p)
    BY <2>2, <2>4 DEF Selects
  <2>6. /\ Held(p)' => Held(p)
        /\ \A x \in Threads : HeldBesides(x, p)' => HeldBesides(x, p)
    BY <2>1, <2>5, HeldFewer
  <2>7. Held(p)' => HeldBesides(t, p)'
    BY <2>4 DEF Held, HeldBesides
  <2>8. file' # Torn /\ Held(p)' => file'.scope[p] = "exact"
    BY <2>1, <2>3, <2>6, <2>7 DEF ScopeThread
  <2>9. \A x \in Threads : ScopeThread(x, p)'
    BY <2>2, <2>3, <2>4, <2>6, ScopeStays
  <2> QED
    BY <2>8, <2>9
<1>9. ASSUME NEW t \in Threads,
             \/ EnsureMount(t) \/ ReplaceFails(t) \/ Post(t) \/ PostFails(t)
             \/ LoadForTimer(t) \/ DisableTimer(t) \/ EnableTimer(t)
             \/ DisableLegacy(t)
      PROVE  Good(p)'
  <2>1. Good(p)
    BY <1>1, <1>9, QuietScopeSteps
  <2> QED
    BY <1>9, <2>1, QuietScopeSteps, QuietScope
<1> QED
  BY <1>2, <1>3, <1>4, <1>5, <1>6, <1>7, <1>8, <1>9 DEF Next, Work

(* An acknowledged selection of exact VMs is never widened again, for any  *)
(* number of threads, unless the wizard is given a pattern for the platform*)
(* or a writer put back what it had read before another's write            *)
(* (save_platform, save_selection).                                        *)
THEOREM ScopeCorrect == Spec => []ScopeKept
<1>1. Init => MgmtTypes /\ ScopeInv
  BY InitMgmt DEF MgmtInv
<1>2. MgmtTypes /\ ScopeInv /\ [Next]_vars => (MgmtTypes /\ ScopeInv)'
  BY StepTypes, StepScope
<1>3. MgmtTypes /\ ScopeInv => ScopeKept
  BY DEF MgmtTypes, TypeOK, ScopeInv, ScopeKept, Held
<1> QED
  BY <1>1, <1>2, <1>3, PTL DEF Spec

-----------------------------------------------------------------------------
(* The timers match. *)

(* While nothing raced or failed, nobody rolls back and the file loads.    *)
LEMMA CalmFile ==
    ASSUME MgmtInv, Owned = Platforms, ~raced, faults = 0
    PROVE  /\ file # Torn /\ file \in Config /\ load_v11_config(file)
           /\ \A t \in Threads : th[t].pc \notin {"undo", "rewrite"}
<1>1. \A t \in Threads : th[t].pc \notin {"undo", "rewrite"}
  BY DEF MgmtInv, TornInv, TornThread
<1>2. file # Torn
  BY <1>1 DEF MgmtInv, TornInv
<1>3. file \in Config /\ load_v11_config(file)
  BY <1>2, LoadsUnlessTorn DEF MgmtInv, MgmtTypes, TypeOK
<1> QED
  BY <1>1, <1>2, <1>3

(* A thread that will bring the timer of q in line. *)
Tends(t, q) ==
    th[t].pc \in {"sync", "enable", "disable"} /\ th[t].about = q

Fixed(q) ==
    (\E t \in Threads : Tends(t, q)) \/ (q \in timers <=> Timed(file, q))

LegacyFixed ==
    timers = {} \/ legacy # "on" \/ \E t \in Threads : th[t].pc = "legacy"

Calm == /\ \A q \in Policies : /\ Fixed(q)
                               /\ \A t \in Threads : TimerThread(t, q)
        /\ LegacyFixed

LEMMA TimerCalm == TimerInv <=> (~raced /\ faults = 0 => Calm)
BY DEF TimerInv, Calm, Fixed, Tends, Pending, LegacyFixed

LEMMA TimerStays ==
    ASSUME NEW q, NEW x, TimerThread(x, q), th'[x] = th[x], file' = file
    PROVE  TimerThread(x, q)'
BY DEF TimerThread, Timed

LEMMA TimerIdle ==
    ASSUME NEW q, NEW x, th'[x] = IdleThread
    PROVE  TimerThread(x, q)' /\ ~Tends(x, q)'
BY IdleType DEF TimerThread, Tends

LEMMA TimerOvertaken ==
    ASSUME NEW q, NEW x, th'[x].pc = th[x].pc,
           th'[x].stale = (th[x].pc # "idle")
    PROVE  TimerThread(x, q)'
BY DEF TimerThread

(* A step of t that leaves the file alone; what t does with the timers is  *)
(* to be shown.                                                            *)
LEMMA CalmStep ==
    ASSUME Calm, NEW t \in Threads, file' = file, Alone(t),
           \A q \in Policies : TimerThread(t, q)',
           \A q \in Policies :
             \/ Tends(t, q)'
             \/ ~Tends(t, q) /\ (q \in timers' <=> q \in timers)
             \/ q \in timers' <=> Timed(file, q),
           \/ timers' = {} \/ legacy' # "on"
           \/ timers' \subseteq timers /\ legacy' = legacy
                /\ th[t].pc # "legacy"
           \/ th'[t].pc = "legacy"
    PROVE  Calm'
<1>1. ASSUME NEW q \in Policies, NEW x \in Threads
      PROVE  TimerThread(x, q)'
  BY TimerStays DEF Calm, Alone
<1>2. ASSUME NEW q \in Policies
      PROVE  Fixed(q)'
  <2>1. \A x \in Threads \ {t} : Tends(x, q)' <=> Tends(x, q)
    BY DEF Tends, Alone
  <2>2. Fixed(q) /\ Timed(file, q)' = Timed(file, q)
    BY DEF Calm, Timed
  <2>3. CASE Tends(t, q)'
    BY <2>3 DEF Fixed
  <2>4. CASE ~Tends(t, q) /\ (q \in timers' <=> q \in timers)
    BY <2>1, <2>2, <2>4 DEF Fixed
  <2>5. CASE q \in timers' <=> Timed(file, q)
    BY <2>2, <2>5 DEF Fixed
  <2> QED
    BY <2>3, <2>4, <2>5
<1>3. LegacyFixed'
  <2>1. LegacyFixed
    BY DEF Calm
  <2>2. \A x \in Threads \ {t} : th'[x] = th[x]
    BY DEF Alone
  <2> QED
    BY <2>1, <2>2 DEF LegacyFixed
<1> QED
  BY <1>1, <1>2, <1>3 DEF Calm

LEMMA StepTimer ==
    ASSUME MgmtInv, Owned = Platforms, TimerInv, [Next]_vars
    PROVE  TimerInv'
<1>1. MgmtTypes /\ faults \in Nat
  BY ManagementAssumption DEF MgmtInv, MgmtTypes, TypeOK
<1>2. ~Fault \/ faults' # 0
  BY <1>1 DEF Fault
<1> DEFINE Before == ~raced /\ faults = 0
<1>3. Before => Calm /\ file # Torn /\ file \in Config
                /\ load_v11_config(file)
                /\ \A t \in Threads : th[t].pc \notin {"undo", "rewrite"}
  BY CalmFile, TimerCalm
<1> SUFFICES ASSUME ~raced', faults' = 0
             PROVE  Calm'
  BY TimerCalm DEF TimerInv, Calm, Fixed, Tends, Pending, LegacyFixed
<1>4. ~Fault
  BY <1>2
<1>5. CASE UNCHANGED vars
  <2>1. Calm
    BY <1>3, <1>5 DEF vars
  <2> QED
    BY <1>5, <2>1 DEF vars, Calm, Fixed, Tends, LegacyFixed, TimerThread,
                      Timed
<1>6. ASSUME NEW t \in Threads, Request(t)
      PROVE  Calm'
  <2>1. PICK via \in Kinds,
             pc \in {"mount", "previous", "replace"},
             about \in Abouts,
             cand \in Config :
          Started(t, via, pc, about, cand) /\ Derived(via, pc, about, cand)
    BY <1>1, <1>6, RequestMoves
  <2>2. /\ Alone(t) /\ th[t].pc = "idle"
        /\ UNCHANGED <<file, timers, legacy, raced, faults>>
    BY <1>1, <1>6, RequestMoves
  <2>3. \A q \in Policies : TimerThread(t, q)' /\ ~Tends(t, q)
    BY <2>1, <2>2 DEF Started, Derived, TimerThread, Tends
  <2>4. Calm
    BY <1>3, <2>2
  <2> QED
    BY <2>2, <2>3, <2>4, CalmStep
<1>7. ASSUME NEW t \in Threads, EnsureMount(t) \/ ReadPrevious(t) \/ Post(t)
      PROVE  Calm'
  <2>1. /\ th[t].pc \in {"mount", "previous", "post"}
        /\ UNCHANGED <<file, timers, legacy, raced>> /\ faults' = faults
    BY <1>4, <1>7 DEF EnsureMount, ReadPrevious, Post, units
  <2>2. Calm /\ load_v11_config(file)
    BY <1>3, <2>1
  <2>3. /\ Alone(t)
        /\ \/ th'[t] = IdleThread
           \/ /\ th[t].pc \in {"mount", "previous"}
              /\ th'[t].pc \in {"previous", "replace"}
              /\ SameJob(t) /\ th'[t].stale = th[t].stale
    <3>1. "previous" \in Pcs
      BY DEF Pcs
    <3>2. CASE EnsureMount(t)
      <4>1. Goto(t, "previous") /\ th[t].pc = "mount"
        BY <1>4, <3>2 DEF EnsureMount
      <4> QED
        BY <1>1, <3>1, <4>1, GotoFields
    <3>3. CASE ReadPrevious(t)
      <4>1. th[t].pc = "previous"
        BY <3>3 DEF ReadPrevious
      <4> QED
        BY <1>1, <3>3, <4>1, ReadPreviousFields
    <3>4. CASE Post(t)
      <4>1. Answer(t)
        BY <2>2, <3>4 DEF Post, Acknowledge
      <4> QED
        BY <1>1, <4>1, AnswerFields
    <3> QED
      BY <1>7, <3>2, <3>3, <3>4
  <2>4. ASSUME NEW q \in Policies
        PROVE  TimerThread(t, q)' /\ ~Tends(t, q)
    <3>1. ~Tends(t, q)
      BY <2>1 DEF Tends
    <3>2. TimerThread(t, q)
      BY <2>2 DEF Calm
    <3>3. TimerThread(t, q)'
      BY <2>1, <2>3, <3>2, TimerIdle DEF TimerThread, SameJob
    <3> QED
      BY <3>1, <3>3
  <2> QED
    BY <2>1, <2>2, <2>3, <2>4, CalmStep
<1>8. ASSUME NEW t \in Threads, Replace(t)
      PROVE  Calm'
  <2>1. PICK pc \in {"sync", "post"} :
          /\ Overtaken(t, pc)
          /\ pc = "sync" <=> th[t].via = "policy"
    BY <1>8 DEF Replace, AfterReplace
  <2>2. /\ th'[t].pc = pc /\ SameJob(t)
        /\ \A x \in Threads \ {t} :
             /\ th'[x].pc = th[x].pc /\ SameJob(x)
             /\ th'[x].stale = (th[x].pc # "idle")
    <3>1. pc \in Pcs
      BY DEF Pcs
    <3> QED
      BY <1>1, <2>1, <3>1, OvertakenFields
  <2>3. /\ file' = th[t].cand /\ th[t].pc = "replace"
        /\ raced' = (raced \/ th[t].stale)
        /\ UNCHANGED <<timers, legacy, faults>>
    BY <1>8 DEF Replace, units
  <2>4. Calm /\ ~th[t].stale
    BY <1>3, <2>3
  <2>5. ASSUME NEW q \in Policies, NEW x \in Threads
        PROVE  TimerThread(x, q)'
    <3>1. CASE x = t
      BY <2>1, <2>2, <3>1 DEF TimerThread
    <3>2. CASE x # t
      BY <2>2, <3>2, TimerOvertaken
    <3> QED
      BY <3>1, <3>2
  <2>6. ASSUME NEW q \in Policies
        PROVE  Fixed(q)'
    <3>1. CASE th[t].via = "policy" /\ th[t].about = q
      BY <2>1, <2>2, <3>1 DEF Fixed, Tends, SameJob
    <3>2. CASE ~(th[t].via = "policy" /\ th[t].about = q)
      <4>1. TimerThread(t, q) /\ Fixed(q)
        BY <2>4 DEF Calm
      <4>2. file'.policies[q] = file.policies[q]
        BY <2>3, <2>4, <3>2, <4>1 DEF TimerThread
      <4>3. Timed(file', q) <=> Timed(file, q)
        BY <4>2 DEF Timed
      <4>4. \A x \in Threads : Tends(x, q) => Tends(x, q)'
        BY <2>2, <2>3 DEF Tends, SameJob
      <4>5. Timed(file, q)' <=> Timed(file, q)
        BY <4>3 DEF Timed
      <4> QED
        BY <2>3, <4>1, <4>4, <4>5 DEF Fixed
    <3> QED
      BY <3>1, <3>2
  <2>7. LegacyFixed'
    <3>1. LegacyFixed
      BY <2>4 DEF Calm
    <3> QED
      BY <2>2, <2>3, <3>1 DEF LegacyFixed
  <2> QED
    BY <2>5, <2>6, <2>7 DEF Calm
<1>9. ASSUME NEW t \in Threads, LoadForTimer(t)
      PROVE  Calm'
  <2>1. /\ th[t].pc = "sync" /\ raced' = (raced \/ file = Torn)
        /\ UNCHANGED <<file, timers, legacy, faults>>
    BY <1>9 DEF LoadForTimer, units
  <2>2. Calm /\ load_v11_config(file)
    BY <1>3, <2>1
  <2>3. \/ Goto(t, "enable") /\ Timed(file, th[t].about)
        \/ Goto(t, "disable") /\ ~Timed(file, th[t].about)
    BY <1>9, <2>2 DEF LoadForTimer
  <2>4. {"enable", "disable"} \subseteq Pcs
    BY DEF Pcs
  <2>5. /\ Alone(t) /\ SameJob(t) /\ th'[t].pc \in {"enable", "disable"}
        /\ th'[t].pc = "enable" <=> Timed(file, th[t].about)
    BY <1>1, <2>3, <2>4, GotoFields
  <2>6. ASSUME NEW q \in Policies
        PROVE  TimerThread(t, q)' /\ (Tends(t, q) => Tends(t, q)')
    <3>1. Timed(file, q)' <=> Timed(file, q)
      BY <2>1 DEF Timed
    <3>2. th'[t].about = th[t].about
      BY <2>5 DEF SameJob
    <3> QED
      BY <2>5, <3>1, <3>2 DEF TimerThread, Tends
  <2> QED
    BY <2>1, <2>2, <2>5, <2>6, CalmStep
<1>10. ASSUME NEW t \in Threads, DisableTimer(t)
       PROVE  Calm'
  <2>1. /\ th[t].pc = "disable" /\ raced' = (raced \/ th[t].stale)
        /\ timers' = timers \ {th[t].about} /\ faults' = faults
        /\ UNCHANGED <<file, legacy>> /\ Answer(t)
    BY <1>4, <1>10 DEF DisableTimer
  <2>2. Calm /\ ~th[t].stale
    BY <1>3, <2>1
  <2>3. th'[t] = IdleThread /\ Alone(t)
    BY <1>1, <2>1, AnswerFields
  <2>4. ASSUME NEW q \in Policies
        PROVE  /\ TimerThread(t, q)'
               /\ \/ ~Tends(t, q) /\ (q \in timers' <=> q \in timers)
                  \/ q \in timers' <=> Timed(file, q)
    <3>1. TimerThread(t, q)
      BY <2>2 DEF Calm
    <3>2. TimerThread(t, q)'
      BY <2>3, TimerIdle
    <3>3. CASE th[t].about = q
      BY <2>1, <2>2, <3>1, <3>2, <3>3 DEF TimerThread
    <3>4. CASE th[t].about # q
      BY <2>1, <3>2, <3>4 DEF Tends
    <3> QED
      BY <3>3, <3>4
  <2> QED
    BY <2>1, <2>2, <2>3, <2>4, CalmStep
<1>11. ASSUME NEW t \in Threads, EnableTimer(t)
       PROVE  Calm'
  <2>1. /\ th[t].pc = "enable" /\ raced' = (raced \/ th[t].stale)
        /\ timers' = timers \cup {th[t].about} /\ faults' = faults
        /\ UNCHANGED <<file, legacy>> /\ Goto(t, "legacy")
    BY <1>4, <1>11 DEF EnableTimer
  <2>2. Calm /\ ~th[t].stale
    BY <1>3, <2>1
  <2>3. "legacy" \in Pcs
    BY DEF Pcs
  <2>4. th'[t].pc = "legacy" /\ Alone(t)
    BY <1>1, <2>1, <2>3, GotoFields
  <2>5. ASSUME NEW q \in Policies
        PROVE  /\ TimerThread(t, q)'
               /\ \/ ~Tends(t, q) /\ (q \in timers' <=> q \in timers)
                  \/ q \in timers' <=> Timed(file, q)
    <3>1. TimerThread(t, q)
      BY <2>2 DEF Calm
    <3>2. TimerThread(t, q)'
      BY <2>4 DEF TimerThread
    <3>3. CASE th[t].about = q
      BY <2>1, <2>2, <3>1, <3>2, <3>3 DEF TimerThread
    <3>4. CASE th[t].about # q
      BY <2>1, <3>2, <3>4 DEF Tends
    <3> QED
      BY <3>3, <3>4
  <2> QED
    BY <2>1, <2>2, <2>4, <2>5, CalmStep
<1>12. ASSUME NEW t \in Threads, DisableLegacy(t)
       PROVE  Calm'
  <2>1. /\ th[t].pc = "legacy" /\ legacy' = "off" /\ faults' = faults
        /\ UNCHANGED <<file, timers, raced>> /\ Answer(t)
    BY <1>4, <1>12 DEF DisableLegacy
  <2>2. Calm
    BY <1>3, <2>1
  <2>3. th'[t] = IdleThread /\ Alone(t)
    BY <1>1, <2>1, AnswerFields
  <2>4. \A q \in Policies : TimerThread(t, q)' /\ ~Tends(t, q)
    BY <2>1, <2>3, TimerIdle DEF Tends
  <2> QED
    BY <2>1, <2>2, <2>3, <2>4, CalmStep
<1>13. ASSUME NEW t \in Threads, Undo(t) \/ Rewrite(t)
       PROVE  FALSE
  <2>1. /\ th[t].pc \in {"undo", "rewrite"} /\ faults' = faults
        /\ raced' = (raced \/ th[t].stale)
    BY <1>13 DEF Undo, Rewrite
  <2> QED
    BY <1>3, <2>1
<1>14. ASSUME NEW t \in Threads, ReplaceFails(t) \/ PostFails(t)
       PROVE  FALSE
  BY <1>4, <1>14 DEF ReplaceFails, PostFails
<1>15. ASSUME Kill
       PROVE  FALSE
  BY <1>4, <1>15 DEF Kill
<1>16. ASSUME WizardTimers
       PROVE  Calm'
  <2>1. /\ UNCHANGED <<file, timers, th, raced>>
        /\ legacy' = "again" /\ faults' = faults
    BY <1>4, <1>16 DEF WizardTimers
  <2>2. Calm
    BY <1>3, <2>1
  <2> QED
    BY <2>1, <2>2 DEF Calm, Fixed, Tends, LegacyFixed, TimerThread, Timed
<1> QED
  BY <1>5, <1>6, <1>7, <1>8, <1>9, <1>10, <1>11, <1>12, <1>13, <1>14, <1>15,
     <1>16 DEF Next, Work

(* Between requests exactly the scheduled policies have a timer, and the   *)
(* broad one is off once there is one unless the wizard enabled it since,  *)
(* for any number of threads, unless a step failed or one was overtaken    *)
(* (_sync_timer, enable_timers). A policy whose platform no tenant claims  *)
(* would not load there, so each has to have one.                          *)
THEOREM TimersCorrect == Owned = Platforms => (Spec => []TimersMatch)
<1> SUFFICES ASSUME Owned = Platforms
             PROVE  Spec => []TimersMatch
  OBVIOUS
<1>1. Init => MgmtInv /\ TimerInv
  BY InitMgmt
<1>2. MgmtInv /\ TimerInv /\ [Next]_vars => (MgmtInv /\ TimerInv)'
  BY StepTypes, StepTorn, StepSafe, StepTimer DEF MgmtInv
<1>3. MgmtInv /\ TimerInv => TimersMatch
  <2> SUFFICES ASSUME MgmtInv, TimerInv, Idle, ~raced, faults = 0
               PROVE  /\ timers = {q \in Policies : Timed(file, q)}
                      /\ timers # {} => legacy # "on"
    BY DEF TimersMatch
  <2>1. Calm
    BY TimerCalm
  <2>2. \A q \in Policies : q \in timers <=> Timed(file, q)
    BY <2>1 DEF Calm, Fixed, Tends, Idle
  <2>3. timers \subseteq Policies
    BY DEF MgmtInv, MgmtTypes, TypeOK
  <2>4. timers # {} => legacy # "on"
    BY <2>1 DEF Calm, LegacyFixed, Idle
  <2> QED
    BY <2>2, <2>3, <2>4
<1> QED
  BY <1>1, <1>2, <1>3, PTL DEF Spec
=============================================================================
