----------------------------- MODULE FlrSessions ----------------------------
(***************************************************************************)
(* File-level recovery: the broker mounts a recovery point and the guest's *)
(* file systems for a session that expires. Handler threads open, browse   *)
(* and close sessions; all but a close begin by closing what has expired   *)
(* and by sweeping directories that belong to no session and are old.      *)
(* Mounting takes minutes and holds no lock, unmounting may fail silently  *)
(* or hang, and a broker that dies forgets its sessions and leaves their   *)
(* mounts. Nothing but a request makes the broker look for what expired.   *)
(* Time passes in ticks; ages and remaining times are relative, so that    *)
(* behaviours may go on forever.                                           *)
(***************************************************************************)
EXTENDS Naturals, FiniteSets

CONSTANTS
    Ids,       \* session identifiers; one is used again once it is gone
    Users,
    Threads,   \* handler threads of the broker
    Nil,
    Limit,     \* max_sessions_per_user
    Ttl,       \* session_ttl_minutes
    MaxFaults  \* bound of crashes, stops and unmounts that fail or hang

ASSUME FlrAssumption ==
    Limit \in Nat \ {0} /\ Ttl \in Nat \ {0} /\ MaxFaults \in Nat

VARIABLES
    sess,    \* _sessions: owner and remaining time, or Nil
    dirs,    \* mount_root: age and mounts of each session directory, or Nil
    thr,     \* the request each thread handles
    racing,  \* history: users two of whose opens have overlapped
    late,    \* history: sessions whose open has lasted longer than Ttl
    faults

vars == <<sess, dirs, thr, racing, late, faults>>

Session == [owner : Users, left : 0..Ttl]
Dir == [age : 0..(Ttl + 1), mounts : SUBSET {"restic", "guest"}]

(* The mark for nothing is neither a session nor a directory. *)
ASSUME NilAssumption == Nil \notin Session \cup Dir

Kinds == {"open", "browse", "close"}
Pcs == {"idle", "expire", "pop", "unmount", "sweep", "serve",
        "restic", "guest", "register", "abort"}
Opening == {"restic", "guest", "register", "abort"}

(* The types of the sessions, their directories and the threads. *)
TypeOK ==
    /\ \A s \in Ids : sess[s] = Nil \/ sess[s] \in Session
    /\ \A s \in Ids : dirs[s] = Nil \/ dirs[s] \in Dir
    /\ thr \in [Threads -> [pc : Pcs, kind : Kinds, user : Users \cup {Nil},
                            id : Ids \cup {Nil}, todo : SUBSET Ids]]
    /\ racing \subseteq Users /\ late \subseteq Ids /\ faults \in 0..MaxFaults

Resting == [pc |-> "idle", kind |-> "browse", user |-> Nil, id |-> Nil,
            todo |-> {}]

Init ==
    /\ sess = [s \in Ids |-> Nil] /\ dirs = [s \in Ids |-> Nil]
    /\ thr = [t \in Threads |-> Resting]
    /\ racing = {} /\ late = {} /\ faults = 0

-----------------------------------------------------------------------------
At(t, pc) == thr[t].pc = pc
Returns(t) == thr' = [thr EXCEPT ![t] = Resting]
Fault == faults < MaxFaults /\ faults' = faults + 1

Expired(s) == sess[s] # Nil /\ sess[s].left = 0

(* _cleanup_mount_paths and rmtree, after which the thread is at "on". A   *)
(* busy mount stays with its directory, which is young again when rmtree   *)
(* took something out of it, and nobody is told. An unmount that hangs for *)
(* 30 s raises instead: the directory stays and the request has failed.    *)
Remove(t, s, on) ==
    \/ /\ dirs' = [dirs EXCEPT ![s] = Nil]
       /\ thr' = [thr EXCEPT ![t] = on]
       /\ UNCHANGED faults
    \/ /\ dirs[s] # Nil /\ Fault
       /\ \E left \in SUBSET dirs[s].mounts :
            \/ /\ left # {}
               /\ \E age \in {0, dirs[s].age} :
                    dirs' = [dirs EXCEPT ![s] = [age |-> age, mounts |-> left]]
               /\ thr' = [thr EXCEPT ![t] = on]
            \/ /\ dirs' = [dirs EXCEPT ![s].mounts = left]
               /\ Returns(t)

(* A request reaches the broker: cleanup_expired lists what has expired... *)
Request(t, kind, user) ==
    /\ At(t, "idle")
    /\ thr' = [thr EXCEPT ![t] =
                 [pc |-> "expire", kind |-> kind, user |-> user, id |-> Nil,
                  todo |-> {s \in Ids : Expired(s)}]]
    /\ UNCHANGED <<sess, dirs, racing, late, faults>>

(* ...close_session looks each of them up, and removes the directory of    *)
(* one that is gone by now...                                              *)
CloseExpired(t, s) ==
    /\ At(t, "expire") /\ s \in thr[t].todo
    /\ \/ /\ sess[s] # Nil
          /\ thr' = [thr EXCEPT ![t].pc = "pop", ![t].id = s]
          /\ UNCHANGED <<dirs, faults>>
       \/ /\ sess[s] = Nil
          /\ Remove(t, s, [thr[t] EXCEPT !.todo = @ \ {s}])
    /\ UNCHANGED <<sess, racing, late>>

(* ...and takes it out of _sessions. When another thread did between the   *)
(* two lookups, the request fails, whatever it was for.                    *)
Pop(t) ==
    /\ At(t, "pop")
    /\ IF sess[thr[t].id] = Nil
         THEN Returns(t) /\ UNCHANGED sess
         ELSE /\ thr' = [thr EXCEPT ![t].pc = "unmount"]
              /\ sess' = [sess EXCEPT ![thr[t].id] = Nil]
    /\ UNCHANGED <<dirs, racing, late, faults>>

Unmount(t) ==
    LET s == thr[t].id IN
    /\ At(t, "unmount")
    /\ Remove(t, s, IF thr[t].kind = "close" THEN Resting
                    ELSE [thr[t] EXCEPT !.pc = "expire", !.id = Nil,
                                        !.todo = @ \ {s}])
    /\ UNCHANGED <<sess, racing, late>>

(* Then the directories of mount_root, in turn. *)
ListDirs(t) ==
    /\ At(t, "expire") /\ thr[t].todo = {}
    /\ thr' = [thr EXCEPT ![t].pc = "sweep",
                          ![t].todo = {s \in Ids : dirs[s] # Nil}]
    /\ UNCHANGED <<sess, dirs, racing, late, faults>>

(* Mutant: the age alone decides. *)
Orphan_ByAge(s) == dirs[s].age > Ttl

(* Mutant: directories of sessions the broker has forgotten stay. *)
Orphan_Never(s) == FALSE

(* Of no session, and older than a session may get. *)
Orphan(s) == sess[s] = Nil /\ dirs[s].age > Ttl

Sweep(t, s) ==
    LET on == [thr[t] EXCEPT !.todo = @ \ {s}] IN
    /\ At(t, "sweep") /\ s \in thr[t].todo
    /\ IF dirs[s] # Nil /\ Orphan(s)
         THEN Remove(t, s, on)
         ELSE thr' = [thr EXCEPT ![t] = on] /\ UNCHANGED <<dirs, faults>>
    /\ UNCHANGED <<sess, racing, late>>

Swept(t) ==
    /\ At(t, "sweep") /\ thr[t].todo = {}
    /\ thr' = [thr EXCEPT ![t].pc = "serve"]
    /\ UNCHANGED <<sess, dirs, racing, late, faults>>

Owned(user) == {s \in Ids : sess[s] # Nil /\ sess[s].owner = user}

(* Mutant: one session more than the limit. *)
LimitReached_Above(user) == Cardinality(Owned(user)) > Limit

LimitReached(user) == Cardinality(Owned(user)) >= Limit

(* An identifier no session, directory or thread has. Without one the open *)
(* is given up: the bound of Ids.                                          *)
Fresh ==
    {s \in Ids : sess[s] = Nil /\ dirs[s] = Nil
                  /\ \A t \in Threads : thr[t].id # s /\ s \notin thr[t].todo}

(* status, list_directory, open_file: only read. *)
Browse(t) ==
    /\ At(t, "serve") /\ thr[t].kind = "browse"
    /\ Returns(t)
    /\ UNCHANGED <<sess, dirs, racing, late, faults>>

(* open_session: the limit, a new identifier, and its directory. *)
Open(t) ==
    /\ At(t, "serve") /\ thr[t].kind = "open"
    /\ \/ /\ LimitReached(thr[t].user) \/ Fresh = {}
          /\ Returns(t) /\ UNCHANGED <<dirs, racing, late>>
       \/ /\ ~LimitReached(thr[t].user)
          /\ \E s \in Fresh :
               /\ dirs' = [dirs EXCEPT ![s] = [age |-> 0, mounts |-> {}]]
               /\ thr' = [thr EXCEPT ![t].pc = "restic", ![t].id = s]
               /\ late' = late \ {s}
          /\ racing' = racing \cup
               {u \in {thr[t].user} : \E o \in Threads \ {t} :
                  thr[o].pc \in Opening /\ thr[o].user = u}
    /\ UNCHANGED <<sess, faults>>

(* A mount that fails, whose directory a sweep has taken, or that does not *)
(* show what was asked for in time ends the open.                          *)
Mount(t, fs, next) ==
    /\ At(t, fs)
    /\ \/ /\ dirs[thr[t].id] # Nil
          /\ dirs' = [dirs EXCEPT ![thr[t].id].mounts = @ \cup {fs}]
          /\ thr' = [thr EXCEPT ![t].pc = next]
       \/ UNCHANGED dirs /\ thr' = [thr EXCEPT ![t].pc = "abort"]
    /\ UNCHANGED <<sess, racing, late, faults>>

_start_restic_mount(t) == Mount(t, "restic", "guest")

_mount_guest(t) == Mount(t, "guest", "register")

Register(t) ==
    /\ At(t, "register")
    /\ sess' = [sess EXCEPT ![thr[t].id] = [owner |-> thr[t].user, left |-> Ttl]]
    /\ Returns(t)
    /\ UNCHANGED <<dirs, racing, late, faults>>

(* The except clause of open_session. *)
Abort(t) ==
    /\ At(t, "abort")
    /\ Remove(t, thr[t].id, Resting)
    /\ UNCHANGED <<sess, racing, late>>

(* close_session by the owner: refused for a session that is not there. *)
Close(t, s) ==
    /\ At(t, "idle") /\ sess[s] # Nil
    /\ thr' = [thr EXCEPT ![t] =
                 [pc |-> "pop", kind |-> "close", user |-> sess[s].owner,
                  id |-> s, todo |-> {}]]
    /\ UNCHANGED <<sess, dirs, racing, late, faults>>

(* The broker is killed: processes that hold the mounts stay. *)
Crash ==
    /\ Fault
    /\ sess' = [s \in Ids |-> Nil] /\ thr' = [t \in Threads |-> Resting]
    /\ UNCHANGED <<dirs, racing, late>>

(* SIGTERM: cleanup closes the sessions it knows; opens that are under way *)
(* end with the process.                                                   *)
Stop ==
    /\ Fault
    /\ dirs' = [s \in Ids |-> IF sess[s] # Nil THEN Nil ELSE dirs[s]]
    /\ sess' = [s \in Ids |-> Nil] /\ thr' = [t \in Threads |-> Resting]
    /\ UNCHANGED <<racing, late>>

(* The sessions whose open began Ttl ago and goes on. *)
Overdue ==
    {s \in Ids : /\ dirs[s] # Nil /\ dirs[s].age >= Ttl
                 /\ \E t \in Threads : thr[t].pc \in Opening /\ thr[t].id = s}

(* Time passes, also while a session is opened: Ttl may be one minute, and *)
(* nothing keeps the two mounts from taking ten.                           *)
Tick ==
    /\ late' = late \cup Overdue
    /\ dirs' = [s \in Ids |-> IF dirs[s] = Nil \/ dirs[s].age > Ttl THEN dirs[s]
                              ELSE [dirs[s] EXCEPT !.age = @ + 1]]
    /\ sess' = [s \in Ids |-> IF sess[s] = Nil \/ Expired(s) THEN sess[s]
                              ELSE [sess[s] EXCEPT !.left = @ - 1]]
    /\ UNCHANGED <<thr, racing, faults>>

Step(t) ==
    \/ \E s \in Ids : CloseExpired(t, s) \/ Sweep(t, s)
    \/ Pop(t) \/ Unmount(t) \/ ListDirs(t) \/ Swept(t) \/ Browse(t) \/ Open(t)
    \/ _start_restic_mount(t) \/ _mount_guest(t) \/ Register(t) \/ Abort(t)

Next ==
    \/ \E t \in Threads :
         \/ Step(t)
         \/ \E kind \in {"open", "browse"}, user \in Users : Request(t, kind, user)
         \/ \E s \in Ids : Close(t, s)
    \/ Crash \/ Stop \/ Tick

Spec == Init /\ [][Next]_vars

(* Threads run and time passes; that requests come is nobody's promise.    *)
FairSpec ==
    Spec /\ WF_vars(Tick) /\ \A t \in Threads : WF_vars(Step(t))

-----------------------------------------------------------------------------
(* A session that has not expired can be browsed: neither the sweep nor    *)
(* the end of another session has taken its mounts, whichever threads      *)
(* open, close and sweep at the same time (cleanup_expired). It says       *)
(* nothing of a session that took longer to open than it was to live: the  *)
(* sweep may have taken that one before it was registered.                 *)
SessionUsable ==
    \A s \in Ids \ late : sess[s] # Nil /\ ~Expired(s) =>
      dirs[s] # Nil /\ dirs[s].mounts = {"restic", "guest"}

(* A user whose opens did not overlap never has more sessions than the     *)
(* limit (open_session).                                                   *)
LimitKept ==
    \A u \in Users \ racing : Cardinality(Owned(u)) <= Limit

(* What docs/FILE_LEVEL_RECOVERY.md says: concurrent sessions are limited  *)
(* per user. Two opens that overlap both pass the check of open_session    *)
(* before either registers: this does not hold, and no run checks it.      *)
SessionsLimited == \A u \in Users : Cardinality(Owned(u)) <= Limit

Asked ==
    \E t \in Threads, kind \in {"open", "browse"}, user \in Users :
      Request(t, kind, user)

(* As long as somebody goes on asking, whatever a session has mounted      *)
(* goes: closed, expired, failed half-way, or left by a broker that was    *)
(* killed (cleanup_expired, close_session).                                *)
MountsGo ==
    []<><<Asked>>_vars => \A s \in Ids : []<>(dirs[s] = Nil)

(* What enterprise_flr.py says: expiry cleanup works automatically. It     *)
(* waits for somebody's next request: this does not hold, and no run checks*)
(* it.                                                                     *)
ExpiryAutomatic == \A s \in Ids : []<>(dirs[s] = Nil)
=============================================================================
