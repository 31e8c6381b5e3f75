------------------------- MODULE FlrSessionsProofs --------------------------
(***************************************************************************)
(* Proofs about FlrSessions: for any number of threads, users and sessions *)
(* a live session that was opened in time keeps its mounts, and users      *)
(* whose opens do not overlap stay within the limit.                       *)
(***************************************************************************)
EXTENDS FlrSessions, FiniteSetTheorems, TLAPS

Thread == [pc : Pcs, kind : Kinds, user : Users \cup {Nil},
           id : Ids \cup {Nil}, todo : SUBSET Ids]

FlrTypes ==
    /\ DOMAIN sess = Ids /\ DOMAIN dirs = Ids
    /\ \A s \in Ids : sess[s] = Nil \/ sess[s] \in Session
    /\ \A s \in Ids : dirs[s] = Nil \/ dirs[s] \in Dir
    /\ thr \in [Threads -> Thread]

(* Whether a thread is making the directory and the mounts of a session. *)
Makes(t, s) == thr[t].pc \in Opening /\ thr[t].id = s

(* What a thread has made of a session that is not late: a directory too   *)
(* young for a sweep, with the mounts so far.                              *)
Made(t) ==
    LET d == dirs[thr[t].id] IN
    /\ d # Nil /\ d.age <= Ttl
    /\ thr[t].pc \in {"guest", "register"} => "restic" \in d.mounts
    /\ thr[t].pc = "register" => "guest" \in d.mounts

(* A session that is being made has no other maker and is not registered   *)
(* yet.                                                                    *)
MakerInv(t) ==
    thr[t].pc \in Opening =>
      /\ thr[t].id \in Ids /\ thr[t].user \in Users
      /\ sess[thr[t].id] = Nil
      /\ \A o \in Threads : Makes(o, thr[t].id) => o = t
      /\ thr[t].id \notin late => Made(t)

(* What a thread is about to close has expired or is gone, and nobody is   *)
(* making it again; what it unmounts is no longer registered.              *)
CloserInv(t) ==
    /\ thr[t].pc \in {"expire", "pop", "unmount"} =>
         \A s \in thr[t].todo :
           /\ sess[s] = Nil \/ Expired(s)
           /\ \A o \in Threads : ~Makes(o, s)
    /\ thr[t].pc \in {"pop", "unmount"} =>
         thr[t].id \in Ids /\ \A o \in Threads : ~Makes(o, thr[t].id)
    /\ thr[t].pc = "unmount" => sess[thr[t].id] = Nil

UsableInv ==
    /\ FlrTypes
    /\ \A t \in Threads : MakerInv(t) /\ CloserInv(t)
    /\ \A t \in Threads : thr[t].pc \notin {"idle"} => thr[t].user \in Users
    /\ SessionUsable

LEMMA InitUsable == Init => UsableInv
  BY DEF Init, UsableInv, FlrTypes, Thread, Resting, Pcs, Kinds, MakerInv,
         CloserInv, SessionUsable, Opening

(* The step of a thread: it leaves the other threads alone, registers only *)
(* what it made, makes only what is fresh, and touches the directory of    *)
(* nothing another thread makes, unless that is late.                      *)
Alone(t) ==
    /\ DOMAIN sess' = Ids /\ DOMAIN dirs' = Ids
    /\ \A s \in Ids : sess'[s] = Nil \/ sess'[s] \in Session
    /\ \A s \in Ids : dirs'[s] = Nil \/ dirs'[s] \in Dir
    /\ thr' \in [Threads -> Thread]
    /\ \A o \in Threads \ {t} : thr'[o] = thr[o]
    /\ \A s \in Ids : sess'[s] \in {sess[s], Nil} \/ Makes(t, s)
    /\ \A s \in Ids : \/ dirs'[s] = dirs[s]
                      \/ \A o \in Threads \ {t} : ~Makes(o, s)
                      \/ s \in late
    /\ late \ Fresh \subseteq late'
    /\ \A s \in Ids : Makes(t, s)' => Makes(t, s) \/ s \in Fresh
    /\ thr'[t].pc # "idle" => thr'[t].user \in Users

LEMMA OthersUsable ==
  ASSUME UsableInv, NEW t \in Threads, Alone(t), NEW o \in Threads \ {t}
  PROVE  MakerInv(o)' /\ CloserInv(o)'
<1>1. thr'[o] = thr[o] /\ MakerInv(o) /\ CloserInv(o) /\ thr[o] \in Thread
  BY DEF Alone, UsableInv, FlrTypes
<1>2. \A x \in Threads, s \in Ids : x # t => (Makes(x, s)' <=> Makes(x, s))
  BY DEF Alone, Makes
<1>3. \A s \in Ids : s \in Fresh => thr[o].id # s /\ s \notin thr[o].todo
  BY DEF Fresh
<1>4. MakerInv(o)'
  <2> SUFFICES ASSUME thr[o].pc \in Opening PROVE MakerInv(o)'
    BY <1>1 DEF MakerInv
  <2>1. thr[o].id \in Ids /\ Makes(o, thr[o].id) /\ ~Makes(t, thr[o].id)
    BY <1>1 DEF MakerInv, Makes
  <2>2. sess'[thr[o].id] = Nil
    BY <1>1, <2>1 DEF MakerInv, Alone
  <2>5. thr[o].id \notin late' => Made(o)'
    <3> SUFFICES ASSUME thr[o].id \notin late' PROVE Made(o)'
      OBVIOUS
    <3>1. thr[o].id \notin late
      BY <1>3, <2>1 DEF Alone
    <3>2. dirs'[thr[o].id] = dirs[thr[o].id] /\ Made(o)
      BY <1>1, <2>1, <3>1 DEF MakerInv, Alone
    <3> QED
      BY <1>1, <3>2 DEF Made
  <2>3. ~Makes(t, thr[o].id)'
    BY <1>3, <2>1 DEF Alone
  <2>4. \A x \in Threads : Makes(x, thr[o].id)' => x = o
    BY <1>1, <2>1, <2>3 DEF MakerInv, Makes, Alone
  <2> QED
    BY <1>1, <2>1, <2>2, <2>4, <2>5 DEF MakerInv
<1>5. CloserInv(o)'
  <2>1. ASSUME NEW s \in Ids, \A x \in Threads : ~Makes(x, s), s \notin Fresh
        PROVE  /\ \A x \in Threads : ~Makes(x, s)'
               /\ sess'[s] \in {sess[s], Nil}
    BY <1>2, <2>1 DEF Alone
  <2>2. ASSUME NEW s \in thr[o].todo, thr[o].pc \in {"expire", "pop", "unmount"}
        PROVE  /\ sess'[s] = Nil \/ Expired(s)'
               /\ \A x \in Threads : ~Makes(x, s)'
    <3>1. s \in Ids /\ s \notin Fresh
      BY <1>1, <1>3 DEF Thread
    <3> QED
      BY <1>1, <2>1, <2>2, <3>1 DEF CloserInv, Expired
  <2>3. ASSUME thr[o].pc \in {"pop", "unmount"}
        PROVE  /\ thr[o].id \in Ids /\ \A x \in Threads : ~Makes(x, thr[o].id)'
               /\ thr[o].pc = "unmount" => sess'[thr[o].id] = Nil
    BY <1>1, <1>3, <2>1, <2>3 DEF CloserInv
  <2> QED
    BY <1>1, <2>2, <2>3 DEF CloserInv
<1> QED
  BY <1>4, <1>5

LEMMA AloneUsable ==
  ASSUME UsableInv, NEW t \in Threads, Alone(t), MakerInv(t)', CloserInv(t)',
         SessionUsable'
  PROVE  UsableInv'
<1>1. FlrTypes'
  BY DEF Alone, FlrTypes
<1>2. \A o \in Threads : MakerInv(o)' /\ CloserInv(o)'
  BY OthersUsable
<1>3. \A o \in Threads : thr'[o].pc \notin {"idle"} => thr'[o].user \in Users
  BY DEF Alone, UsableInv
<1> QED
  BY <1>1, <1>2, <1>3 DEF UsableInv

(* Steps that change no session and no directory. *)
LEMMA QuietUsable ==
  ASSUME UsableInv, NEW t \in Threads, UNCHANGED <<sess, dirs, late>>,
         thr' \in [Threads -> Thread], \A o \in Threads \ {t} : thr'[o] = thr[o],
         thr'[t].pc \notin Opening,
         thr'[t].pc # "idle" => thr'[t].user \in Users,
         CloserInv(t)'
  PROVE  UsableInv'
<1>1. Alone(t)
  BY DEF Alone, Makes, UsableInv, FlrTypes
<1>2. MakerInv(t)' /\ SessionUsable'
  BY DEF MakerInv, SessionUsable, UsableInv, Expired
<1> QED
  BY <1>1, <1>2, AloneUsable

LEMMA RestingTyped == Resting \in Thread /\ Resting.pc = "idle"
  BY DEF Resting, Thread, Pcs, Kinds

LEMMA RequestUsable ==
  ASSUME UsableInv, NEW t \in Threads, NEW kind \in {"open", "browse"},
         NEW user \in Users, Request(t, kind, user)
  PROVE  UsableInv'
<1> DEFINE new == [pc |-> "expire", kind |-> kind, user |-> user, id |-> Nil,
                   todo |-> {s \in Ids : Expired(s)}]
<1>1. new \in Thread
  BY DEF Thread, Pcs, Kinds
<1>2. /\ thr' \in [Threads -> Thread] /\ thr'[t] = new
      /\ \A o \in Threads \ {t} : thr'[o] = thr[o]
      /\ UNCHANGED <<sess, dirs, late>>
  BY <1>1 DEF Request, UsableInv, FlrTypes
<1>3. \A s \in Ids : Expired(s) =>
        \A o \in Threads : ~Makes(o, s) /\ (o # t => ~Makes(o, s)')
  BY <1>2 DEF UsableInv, MakerInv, Makes, Expired
<1>4. CloserInv(t)'
  BY <1>2, <1>3 DEF CloserInv, Makes, Opening, Expired
<1> QED
  BY <1>2, <1>4, QuietUsable DEF Opening

LEMMA CloseUsable ==
  ASSUME UsableInv, NEW t \in Threads, NEW s \in Ids, Close(t, s)
  PROVE  UsableInv'
<1> DEFINE new == [pc |-> "pop", kind |-> "close", user |-> sess[s].owner,
                   id |-> s, todo |-> {}]
<1>1. new \in Thread /\ sess[s] # Nil /\ new.user \in Users
  BY DEF Close, Thread, Pcs, Kinds, UsableInv, FlrTypes, Session
<1>2. /\ thr' \in [Threads -> Thread] /\ thr'[t] = new
      /\ \A o \in Threads \ {t} : thr'[o] = thr[o]
      /\ UNCHANGED <<sess, dirs, late>>
  BY <1>1 DEF Close, UsableInv, FlrTypes
<1>3. CloserInv(t)'
  BY <1>1, <1>2 DEF UsableInv, MakerInv, CloserInv, Makes, Opening
<1> QED
  BY <1>1, <1>2, <1>3, QuietUsable DEF Opening

(* A removed directory is of no session, and of none that another thread   *)
(* makes in time. The request goes on or has failed.                       *)
LEMMA RemoveUsable ==
  ASSUME UsableInv, NEW t \in Threads, NEW s \in Ids, NEW on \in Thread,
         Remove(t, s, on), UNCHANGED <<sess, late>>, sess[s] = Nil,
         s \in late \/ \A o \in Threads \ {t} : ~Makes(o, s),
         on.pc \notin Opening, on.pc # "idle" => on.user \in Users,
         thr'[t] = on => CloserInv(t)'
  PROVE  UsableInv'
<1>1. /\ DOMAIN dirs' = Ids
      /\ \A x \in Ids \ {s} : dirs'[x] = dirs[x]
      /\ dirs'[s] = Nil \/ dirs'[s] \in Dir
  <2>1. dirs[s] = Nil \/ dirs[s] \in Dir
    BY DEF UsableInv, FlrTypes
  <2>2. CASE dirs' = [dirs EXCEPT ![s] = Nil]
    BY <2>2 DEF UsableInv, FlrTypes
  <2>3. ASSUME dirs[s] # Nil, NEW left \in SUBSET dirs[s].mounts,
               NEW age \in {0, dirs[s].age},
               dirs' = [dirs EXCEPT ![s] = [age |-> age, mounts |-> left]]
        PROVE  /\ DOMAIN dirs' = Ids /\ \A x \in Ids \ {s} : dirs'[x] = dirs[x]
               /\ dirs'[s] = Nil \/ dirs'[s] \in Dir
    <3>1. [age |-> age, mounts |-> left] \in Dir
      BY <2>1, <2>3, FlrAssumption DEF Dir
    <3> QED
      BY <2>3, <3>1 DEF UsableInv, FlrTypes
  <2>4. ASSUME dirs[s] # Nil, NEW left \in SUBSET dirs[s].mounts,
               dirs' = [dirs EXCEPT ![s].mounts = left]
        PROVE  /\ DOMAIN dirs' = Ids /\ \A x \in Ids \ {s} : dirs'[x] = dirs[x]
               /\ dirs'[s] = Nil \/ dirs'[s] \in Dir
    <3>1. [dirs[s] EXCEPT !.mounts = left] \in Dir
      BY <2>1, <2>4 DEF Dir
    <3> QED
      BY <2>4, <3>1 DEF UsableInv, FlrTypes
  <2> QED
    BY <2>2, <2>3, <2>4 DEF Remove
<1>2. thr' = [thr EXCEPT ![t] = on] \/ thr' = [thr EXCEPT ![t] = Resting]
  BY DEF Remove, Returns
<1>3. /\ thr' \in [Threads -> Thread]
      /\ \A o \in Threads \ {t} : thr'[o] = thr[o]
      /\ thr'[t] = on \/ thr'[t].pc = "idle"
  BY <1>2, RestingTyped DEF UsableInv, FlrTypes
<1>4. Alone(t)
  BY <1>1, <1>3 DEF Alone, Makes, Opening, UsableInv, FlrTypes
<1>5. MakerInv(t)' /\ SessionUsable'
  BY <1>1, <1>3 DEF MakerInv, Opening, SessionUsable, UsableInv, Expired
<1>6. CloserInv(t)'
  BY <1>3 DEF CloserInv
<1> QED
  BY <1>4, <1>5, <1>6, AloneUsable

LEMMA CloseExpiredUsable ==
  ASSUME UsableInv, NEW t \in Threads, NEW s \in Ids, CloseExpired(t, s)
  PROVE  UsableInv'
<1>1. /\ thr[t] \in Thread /\ thr[t].pc = "expire" /\ s \in thr[t].todo
      /\ CloserInv(t) /\ thr[t].user \in Users /\ UNCHANGED <<sess, late>>
  BY DEF CloseExpired, At, UsableInv, FlrTypes
<1>2. CASE /\ thr' = [thr EXCEPT ![t].pc = "pop", ![t].id = s]
           /\ UNCHANGED dirs
  <2>1. /\ thr' \in [Threads -> Thread]
        /\ \A o \in Threads \ {t} : thr'[o] = thr[o]
        /\ thr'[t].pc = "pop" /\ thr'[t].id = s /\ thr'[t].todo = thr[t].todo
        /\ thr'[t].user = thr[t].user
    BY <1>2 DEF UsableInv, FlrTypes, Thread, Pcs
  <2>2. CloserInv(t)'
    BY <1>1, <2>1 DEF CloserInv, Makes, Opening, Expired
  <2> QED
    BY <1>1, <1>2, <2>1, <2>2, QuietUsable DEF Opening
<1>3. CASE sess[s] = Nil /\ Remove(t, s, [thr[t] EXCEPT !.todo = @ \ {s}])
  <2> DEFINE on == [thr[t] EXCEPT !.todo = @ \ {s}]
  <2>1. /\ on \in Thread /\ on.pc = "expire" /\ on.id = thr[t].id
        /\ on.todo = thr[t].todo \ {s} /\ on.user = thr[t].user
    BY <1>1 DEF Thread
  <2> HIDE DEF on
  <2>2. \A o \in Threads \ {t} : thr'[o] = thr[o]
    BY <1>3 DEF Remove, Returns, UsableInv, FlrTypes
  <2>3. thr'[t] = on => CloserInv(t)'
    BY <1>1, <2>1, <2>2 DEF CloserInv, Makes, Opening, Expired
  <2>4. \A o \in Threads \ {t} : ~Makes(o, s)
    BY <1>1 DEF CloserInv
  <2> QED
    BY <1>1, <1>3, <2>1, <2>3, <2>4, RemoveUsable DEF Opening, on
<1> QED
  BY <1>2, <1>3 DEF CloseExpired

LEMMA PopUsable ==
  ASSUME UsableInv, NEW t \in Threads, Pop(t)
  PROVE  UsableInv'
<1>1. /\ thr[t] \in Thread /\ thr[t].pc = "pop" /\ thr[t].id \in Ids
      /\ CloserInv(t) /\ thr[t].user \in Users /\ UNCHANGED <<dirs, late>>
  BY DEF Pop, At, UsableInv, FlrTypes, CloserInv
<1>2. CASE Returns(t) /\ UNCHANGED sess
  <2>1. /\ thr' \in [Threads -> Thread] /\ thr'[t].pc = "idle"
        /\ \A o \in Threads \ {t} : thr'[o] = thr[o]
    BY <1>2, RestingTyped DEF Returns, UsableInv, FlrTypes
  <2> QED
    BY <1>1, <1>2, <2>1, QuietUsable DEF Opening, CloserInv
<1>3. CASE /\ thr' = [thr EXCEPT ![t].pc = "unmount"]
           /\ sess' = [sess EXCEPT ![thr[t].id] = Nil]
  <2>1. /\ thr' \in [Threads -> Thread]
        /\ \A o \in Threads \ {t} : thr'[o] = thr[o]
        /\ thr'[t].pc = "unmount" /\ thr'[t].id = thr[t].id
        /\ thr'[t].todo = thr[t].todo /\ thr'[t].user = thr[t].user
    BY <1>1, <1>3 DEF UsableInv, FlrTypes, Thread, Pcs
  <2>2. /\ DOMAIN sess' = Ids /\ sess'[thr[t].id] = Nil
        /\ \A x \in Ids : sess'[x] = sess[x] \/ sess'[x] = Nil
    BY <1>1, <1>3 DEF UsableInv, FlrTypes
  <2>3. Alone(t)
    BY <1>1, <2>1, <2>2 DEF Alone, Makes, Opening, UsableInv, FlrTypes
  <2>4. MakerInv(t)' /\ SessionUsable'
    BY <1>1, <2>1, <2>2
    DEF MakerInv, Opening, SessionUsable, UsableInv, Expired
  <2>5. CloserInv(t)'
    BY <1>1, <2>1, <2>2 DEF CloserInv, Makes, Opening, Expired, Thread
  <2> QED
    BY <2>3, <2>4, <2>5, AloneUsable
<1> QED
  BY <1>2, <1>3 DEF Pop

LEMMA UnmountUsable ==
  ASSUME UsableInv, NEW t \in Threads, Unmount(t)
  PROVE  UsableInv'
<1>1. /\ thr[t] \in Thread /\ thr[t].pc = "unmount" /\ thr[t].id \in Ids
      /\ CloserInv(t) /\ thr[t].user \in Users /\ UNCHANGED <<sess, late>>
      /\ sess[thr[t].id] = Nil
      /\ \A o \in Threads \ {t} : ~Makes(o, thr[t].id)
  BY DEF Unmount, At, UsableInv, FlrTypes, CloserInv
<1>2. CASE Remove(t, thr[t].id, Resting)
  <2>1. thr'[t] = Resting => CloserInv(t)'
    BY RestingTyped DEF CloserInv
  <2> QED
    BY <1>1, <1>2, <2>1, RestingTyped, RemoveUsable DEF Opening
<1>3. CASE Remove(t, thr[t].id, [thr[t] EXCEPT !.pc = "expire", !.id = Nil,
                                               !.todo = @ \ {thr[t].id}])
  <2> DEFINE on == [thr[t] EXCEPT !.pc = "expire", !.id = Nil,
                                  !.todo = @ \ {thr[t].id}]
  <2>1. /\ on \in Thread /\ on.pc = "expire" /\ on.user = thr[t].user
        /\ on.todo = thr[t].todo \ {thr[t].id}
    BY <1>1 DEF Thread, Pcs
  <2> HIDE DEF on
  <2>2. \A o \in Threads \ {t} : thr'[o] = thr[o]
    BY <1>3 DEF Remove, Returns, UsableInv, FlrTypes
  <2>3. thr'[t] = on => CloserInv(t)'
    BY <1>1, <2>1, <2>2 DEF CloserInv, Makes, Opening, Expired
  <2> QED
    BY <1>1, <1>3, <2>1, <2>3, RemoveUsable DEF Opening, on
<1> QED
  BY <1>2, <1>3 DEF Unmount

LEMMA SweepUsable ==
  ASSUME UsableInv, NEW t \in Threads, NEW s \in Ids, Sweep(t, s)
  PROVE  UsableInv'
<1> DEFINE on == [thr[t] EXCEPT !.todo = @ \ {s}]
<1>1. /\ thr[t].pc = "sweep" /\ thr[t].user \in Users /\ thr[t] \in Thread
      /\ UNCHANGED <<sess, late>>
  BY DEF Sweep, At, UsableInv, FlrTypes
<1>2. on \in Thread /\ on.pc = "sweep" /\ on.user = thr[t].user
  BY <1>1 DEF Thread
<1>3. CASE thr' = [thr EXCEPT ![t] = on] /\ UNCHANGED dirs
  <2> HIDE DEF on
  <2>1. /\ thr' \in [Threads -> Thread] /\ thr'[t] = on
        /\ \A o \in Threads \ {t} : thr'[o] = thr[o]
    BY <1>2, <1>3 DEF UsableInv, FlrTypes
  <2>2. CloserInv(t)'
    BY <1>2, <2>1 DEF CloserInv
  <2> QED
    BY <1>1, <1>2, <1>3, <2>1, <2>2, QuietUsable DEF Opening
<1>4. CASE dirs[s] # Nil /\ Orphan(s) /\ Remove(t, s, on)
  <2> HIDE DEF on
  <2>1. sess[s] = Nil /\ dirs[s].age > Ttl /\ dirs[s].age \in Nat
    BY <1>4, FlrAssumption DEF Orphan, UsableInv, FlrTypes, Dir
  <2>2. s \in late \/ \A o \in Threads : ~Makes(o, s)
    BY <2>1, FlrAssumption DEF UsableInv, MakerInv, Makes, Made
  <2>3. thr'[t] = on => CloserInv(t)'
    BY <1>2 DEF CloserInv
  <2> QED
    BY <1>1, <1>2, <1>4, <2>1, <2>2, <2>3, RemoveUsable DEF Opening
<1> QED
  BY <1>3, <1>4 DEF Sweep

LEMMA WalkUsable ==
  ASSUME UsableInv, NEW t \in Threads, ListDirs(t) \/ Swept(t) \/ Browse(t)
  PROVE  UsableInv'
<1>1. /\ thr' \in [Threads -> Thread]
      /\ \A o \in Threads \ {t} : thr'[o] = thr[o]
      /\ thr'[t].pc \in {"sweep", "serve", "idle"}
      /\ thr'[t].pc # "idle" => thr'[t].user \in Users
      /\ UNCHANGED <<sess, dirs, late>>
  BY RestingTyped
  DEF ListDirs, Swept, Browse, Returns, At, UsableInv, FlrTypes, Thread, Pcs
<1> QED
  BY <1>1, QuietUsable DEF Opening, CloserInv

LEMMA OpenUsable ==
  ASSUME UsableInv, NEW t \in Threads, Open(t)
  PROVE  UsableInv'
<1>1. thr[t].pc = "serve" /\ thr[t] \in Thread /\ thr[t].user \in Users /\ UNCHANGED sess
  BY DEF Open, At, UsableInv, FlrTypes
<1>2. CASE Returns(t) /\ UNCHANGED <<dirs, late>>
  <2>1. /\ thr' \in [Threads -> Thread] /\ thr'[t].pc = "idle"
        /\ \A o \in Threads \ {t} : thr'[o] = thr[o]
    BY <1>2, RestingTyped DEF Returns, UsableInv, FlrTypes
  <2> QED
    BY <1>1, <1>2, <2>1, QuietUsable DEF Opening, CloserInv
<1>3. ASSUME NEW s \in Fresh,
             dirs' = [dirs EXCEPT ![s] = [age |-> 0, mounts |-> {}]],
             thr' = [thr EXCEPT ![t].pc = "restic", ![t].id = s],
             late' = late \ {s}
      PROVE  UsableInv'
  <2>1. s \in Ids /\ sess[s] = Nil /\ dirs[s] = Nil /\ \A o \in Threads : thr[o].id # s
    BY DEF Fresh
  <2>2. /\ thr' \in [Threads -> Thread]
        /\ \A o \in Threads \ {t} : thr'[o] = thr[o]
        /\ thr'[t].pc = "restic" /\ thr'[t].id = s /\ thr'[t].user = thr[t].user
    BY <1>1, <1>3, <2>1 DEF UsableInv, FlrTypes, Thread, Pcs
  <2>3. [age |-> 0, mounts |-> {}] \in Dir
    BY FlrAssumption DEF Dir
  <2>4. /\ DOMAIN dirs' = Ids /\ dirs'[s] \in Dir /\ dirs'[s].age = 0
        /\ \A x \in Ids \ {s} : dirs'[x] = dirs[x]
    BY <1>3, <2>1, <2>3 DEF UsableInv, FlrTypes
  <2>5. Alone(t)
    BY <1>1, <1>3, <2>1, <2>2, <2>4 DEF Alone, Makes, UsableInv, FlrTypes
  <2>6. MakerInv(t)'
    BY <1>1, <2>1, <2>2, <2>4, FlrAssumption, NilAssumption
    DEF MakerInv, Makes, Made
  <2>7. CloserInv(t)' /\ SessionUsable'
    BY <1>1, <1>3, <2>1, <2>2, <2>4 DEF CloserInv, SessionUsable, UsableInv, Expired
  <2> QED
    BY <2>5, <2>6, <2>7, AloneUsable
<1> QED
  BY <1>2, <1>3 DEF Open

LEMMA MountUsable ==
  ASSUME UsableInv, NEW t \in Threads, _start_restic_mount(t) \/ _mount_guest(t)
  PROVE  UsableInv'
<1> DEFINE s == thr[t].id
<1>1. /\ thr[t].pc \in {"restic", "guest"} /\ thr[t] \in Thread /\ s \in Ids
      /\ thr[t].user \in Users /\ MakerInv(t) /\ UNCHANGED <<sess, late>>
  BY DEF _start_restic_mount, _mount_guest, Mount, At, UsableInv, FlrTypes,
     MakerInv, Opening
<1>2. (dirs[s] = Nil \/ dirs[s] \in Dir) /\ sess[s] = Nil /\ Makes(t, s)
  BY <1>1 DEF UsableInv, FlrTypes, MakerInv, Makes, Opening
<1>3. PICK next \in {"guest", "register"} :
        /\ next = (IF thr[t].pc = "restic" THEN "guest" ELSE "register")
        /\ \/ /\ dirs[s] # Nil
              /\ dirs' = [dirs EXCEPT ![s].mounts = @ \cup {thr[t].pc}]
              /\ thr' = [thr EXCEPT ![t].pc = next]
           \/ UNCHANGED dirs /\ thr' = [thr EXCEPT ![t].pc = "abort"]
  BY DEF _start_restic_mount, _mount_guest, Mount, At
<1>4. /\ thr' \in [Threads -> Thread]
      /\ \A o \in Threads \ {t} : thr'[o] = thr[o]
      /\ thr'[t].id = s /\ thr'[t].user = thr[t].user
      /\ thr'[t].pc \in {next, "abort"}
  BY <1>1, <1>3 DEF UsableInv, FlrTypes, Thread, Pcs
<1>5. /\ DOMAIN dirs' = Ids
      /\ dirs'[s] = Nil \/ dirs'[s] \in Dir
      /\ dirs[s] # Nil => dirs'[s] # Nil /\ dirs'[s].age = dirs[s].age
      /\ \A x \in Ids \ {s} : dirs'[x] = dirs[x]
      /\ thr'[t].pc = next => dirs'[s].mounts = dirs[s].mounts \cup {thr[t].pc}
  <2>1. CASE UNCHANGED dirs /\ thr' = [thr EXCEPT ![t].pc = "abort"]
    BY <1>1, <1>2, <2>1 DEF UsableInv, FlrTypes
  <2>2. CASE /\ dirs[s] # Nil
             /\ dirs' = [dirs EXCEPT ![s].mounts = @ \cup {thr[t].pc}]
    <3>1. [dirs[s] EXCEPT !.mounts = @ \cup {thr[t].pc}] \in Dir
      BY <1>1, <1>2, <2>2 DEF Dir
    <3>2. /\ DOMAIN dirs' = Ids /\ \A x \in Ids \ {s} : dirs'[x] = dirs[x]
          /\ dirs'[s] = [dirs[s] EXCEPT !.mounts = @ \cup {thr[t].pc}]
      BY <1>1, <2>2 DEF UsableInv, FlrTypes
    <3>3. /\ dirs'[s].age = dirs[s].age
          /\ dirs'[s].mounts = dirs[s].mounts \cup {thr[t].pc}
      BY <1>2, <2>2, <3>2 DEF Dir
    <3> QED
      BY <3>1, <3>2, <3>3, NilAssumption
  <2> QED
    BY <1>3, <2>1, <2>2
<1>6. Alone(t)
  BY <1>1, <1>2, <1>4, <1>5
  DEF Alone, MakerInv, Makes, Opening, UsableInv, FlrTypes
<1>7. MakerInv(t)'
  <2>1. thr'[t].id \in Ids /\ thr'[t].user \in Users /\ sess'[thr'[t].id] = Nil
    BY <1>1, <1>2, <1>4
  <2>2. s \notin late => /\ dirs[s] # Nil /\ dirs[s].age <= Ttl
                         /\ thr[t].pc = "guest" => "restic" \in dirs[s].mounts
    BY <1>1 DEF MakerInv, Made, Opening
  <2>3. \A o \in Threads : Makes(o, thr[t].id)' => o = t
    BY <1>1, <1>4 DEF Makes, MakerInv, Opening
  <2>4. s \notin late' => Made(t)'
    BY <1>1, <1>3, <1>4, <1>5, <2>2 DEF Made
  <2> QED
    BY <1>4, <2>1, <2>3, <2>4 DEF MakerInv
<1>8. CloserInv(t)' /\ SessionUsable'
  BY <1>1, <1>2, <1>3, <1>4, <1>5
  DEF CloserInv, SessionUsable, UsableInv, Expired
<1> QED
  BY <1>6, <1>7, <1>8, AloneUsable

LEMMA RegisterUsable ==
  ASSUME UsableInv, NEW t \in Threads, Register(t)
  PROVE  UsableInv'
<1> DEFINE s == thr[t].id
           new == [owner |-> thr[t].user, left |-> Ttl]
<1>1. /\ thr[t].pc = "register" /\ s \in Ids /\ Makes(t, s)
      /\ thr[t].user \in Users /\ MakerInv(t) /\ UNCHANGED <<dirs, late>>
  BY DEF Register, At, UsableInv, MakerInv, Makes, Opening
<1>2. s \notin late => dirs[s] # Nil /\ dirs[s].mounts = {"restic", "guest"}
  BY <1>1 DEF UsableInv, FlrTypes, MakerInv, Made, Opening, Dir
<1>3. /\ thr' \in [Threads -> Thread] /\ thr'[t].pc = "idle"
      /\ \A o \in Threads \ {t} : thr'[o] = thr[o]
  BY RestingTyped DEF Register, Returns, UsableInv, FlrTypes
<1>4. new \in Session
  BY <1>1, FlrAssumption DEF Session
<1>5. /\ DOMAIN sess' = Ids /\ sess'[s] = new
      /\ \A x \in Ids \ {s} : sess'[x] = sess[x]
  BY <1>1 DEF Register, UsableInv, FlrTypes
<1> HIDE DEF new
<1>6. Alone(t)
  BY <1>1, <1>3, <1>4, <1>5 DEF Alone, Makes, Opening, UsableInv, FlrTypes
<1>7. MakerInv(t)' /\ CloserInv(t)'
  BY <1>3 DEF MakerInv, CloserInv, Opening
<1>8. SessionUsable'
  BY <1>1, <1>2, <1>5 DEF SessionUsable, UsableInv, Expired
<1> QED
  BY <1>6, <1>7, <1>8, AloneUsable

LEMMA AbortUsable ==
  ASSUME UsableInv, NEW t \in Threads, Abort(t)
  PROVE  UsableInv'
<1>1. /\ thr[t].pc = "abort" /\ thr[t].id \in Ids /\ sess[thr[t].id] = Nil
      /\ \A o \in Threads \ {t} : ~Makes(o, thr[t].id)
      /\ UNCHANGED <<sess, late>> /\ Remove(t, thr[t].id, Resting)
  BY DEF Abort, At, UsableInv, MakerInv, Opening
<1>2. thr'[t] = Resting => CloserInv(t)'
  BY RestingTyped DEF CloserInv
<1> QED
  BY <1>1, <1>2, RestingTyped, RemoveUsable DEF Opening

LEMMA EndUsable ==
  ASSUME UsableInv, Crash \/ Stop
  PROVE  UsableInv'
<1>1. /\ sess' = [s \in Ids |-> Nil] /\ thr' = [t \in Threads |-> Resting]
      /\ DOMAIN dirs' = Ids /\ \A s \in Ids : dirs'[s] = Nil \/ dirs'[s] \in Dir
  BY DEF Crash, Stop, UsableInv, FlrTypes
<1>2. FlrTypes'
  BY <1>1, RestingTyped DEF FlrTypes
<1>3. \A t \in Threads : MakerInv(t)' /\ CloserInv(t)' /\ thr'[t].pc = "idle"
  BY <1>1, RestingTyped DEF MakerInv, CloserInv, Opening
<1> QED
  BY <1>1, <1>2, <1>3 DEF UsableInv, SessionUsable

LEMMA TickUsable ==
  ASSUME UsableInv, Tick
  PROVE  UsableInv'
<1>1. ASSUME NEW s \in Ids
      PROVE  /\ sess[s] = Nil \/ Expired(s) => sess'[s] = sess[s]
             /\ sess[s] # Nil /\ ~Expired(s) => sess'[s] \in Session
             /\ sess'[s] = Nil \/ sess'[s] \in Session
  <2>1. sess'[s] = IF sess[s] = Nil \/ Expired(s) THEN sess[s]
                   ELSE [sess[s] EXCEPT !.left = @ - 1]
    BY DEF Tick
  <2>2. sess[s] = Nil \/ sess[s] \in Session
    BY DEF UsableInv, FlrTypes
  <2>3. ASSUME NEW x \in Session, x.left # 0
        PROVE  [x EXCEPT !.left = @ - 1] \in Session
    BY <2>3, FlrAssumption DEF Session
  <2> QED
    BY <2>1, <2>2, <2>3 DEF Expired
<1>2. ASSUME NEW s \in Ids
      PROVE  /\ dirs[s] = Nil => dirs'[s] = Nil
             /\ dirs[s] # Nil => /\ dirs'[s] \in Dir
                                 /\ dirs'[s].mounts = dirs[s].mounts
                                 /\ dirs'[s].age <= dirs[s].age + 1
                                 /\ dirs'[s].age \in Nat /\ dirs[s].age \in Nat
  BY FlrAssumption DEF Tick, UsableInv, FlrTypes, Dir
<1>3. /\ DOMAIN sess' = Ids /\ DOMAIN dirs' = Ids /\ thr' = thr
      /\ late' = late \cup Overdue
  BY DEF Tick
<1>4. FlrTypes'
  BY <1>1, <1>2, <1>3 DEF UsableInv, FlrTypes
<1>5. ASSUME NEW t \in Threads PROVE MakerInv(t)'
  <2> SUFFICES ASSUME thr[t].pc \in Opening PROVE MakerInv(t)'
    BY <1>3 DEF MakerInv
  <2>1. MakerInv(t) /\ thr[t].id \in Ids
    BY DEF UsableInv, MakerInv
  <2>2. ASSUME thr[t].id \notin late' PROVE Made(t)'
    <3>1. Made(t) /\ dirs[thr[t].id] # Nil /\ dirs[thr[t].id].age < Ttl
      BY <1>2, <1>3, <2>1, <2>2, FlrAssumption DEF MakerInv, Made, Overdue
    <3>2. /\ dirs'[thr[t].id] # Nil /\ dirs'[thr[t].id].age <= Ttl
          /\ dirs'[thr[t].id].mounts = dirs[thr[t].id].mounts
      BY <1>2, <2>1, <3>1, FlrAssumption, NilAssumption
    <3> QED
      BY <1>3, <3>1, <3>2 DEF Made
  <2> QED
    BY <1>1, <1>3, <2>1, <2>2 DEF MakerInv, Makes
<1>6. ASSUME NEW t \in Threads PROVE CloserInv(t)'
  BY <1>1, <1>3 DEF UsableInv, FlrTypes, Thread, CloserInv, Makes, Expired
<1>7. SessionUsable'
  BY <1>1, <1>2, <1>3, NilAssumption DEF UsableInv, SessionUsable, Expired
<1> QED
  BY <1>3, <1>4, <1>5, <1>6, <1>7 DEF UsableInv

LEMMA NextUsable == UsableInv /\ [Next]_vars => UsableInv'
<1> SUFFICES ASSUME UsableInv, [Next]_vars PROVE UsableInv'
  OBVIOUS
<1>1. CASE UNCHANGED vars
  BY <1>1
  DEF vars, UsableInv, FlrTypes, MakerInv, Made, CloserInv, SessionUsable,
      Expired, Makes
<1>2. CASE Next
  BY <1>2, RequestUsable, CloseUsable, CloseExpiredUsable, PopUsable,
     UnmountUsable,
     SweepUsable, WalkUsable, OpenUsable, MountUsable, RegisterUsable, AbortUsable,
     EndUsable, TickUsable, Zenon DEF Next, Step
<1> QED
  BY <1>1, <1>2

LEMMA UsableCorrect == Spec => []UsableInv
  BY InitUsable, NextUsable, PTL DEF Spec

(* A session that has not expired and did not take longer to open than it  *)
(* was to live can be browsed, for any number of threads, users and        *)
(* sessions, any time to live and opens of any duration: neither the sweep *)
(* nor the end of another session takes its mounts (cleanup_expired,       *)
(* close_session).                                                         *)
THEOREM SessionCorrect == Spec => []SessionUsable
<1>1. UsableInv => SessionUsable
  BY DEF UsableInv
<1> QED
  BY <1>1, UsableCorrect, PTL

-----------------------------------------------------------------------------
(* The limit. Open checks it and Register, minutes later, adds the         *)
(* session: between the two a user whose opens do not overlap has one      *)
(* maker, and room for one session more.                                   *)
Opens(t, u) == thr[t].pc \in Opening /\ thr[t].user = u

LimitInv ==
    \A u \in Users \ racing :
      /\ IsFiniteSet(Owned(u)) /\ Cardinality(Owned(u)) <= Limit
      /\ \A t \in Threads : Opens(t, u) =>
           /\ Cardinality(Owned(u)) < Limit
           /\ \A o \in Threads : Opens(o, u) => o = t

LEMMA NoSessions ==
  ASSUME \A s \in Ids : sess[s] = Nil, NEW u \in Users
  PROVE  IsFiniteSet(Owned(u)) /\ Cardinality(Owned(u)) = 0
<1>1. Owned(u) = {}
  BY DEF Owned
<1> QED
  BY <1>1, FS_EmptySet

LEMMA InitLimit == Init => LimitInv
<1> SUFFICES ASSUME Init, NEW u \in Users
             PROVE  /\ IsFiniteSet(Owned(u)) /\ Cardinality(Owned(u)) <= Limit
                    /\ \A t \in Threads : ~Opens(t, u)
  BY DEF LimitInv
<1>1. IsFiniteSet(Owned(u)) /\ Cardinality(Owned(u)) = 0
  BY NoSessions DEF Init
<1>2. \A t \in Threads : ~Opens(t, u)
  BY DEF Init, Opens, Opening, Resting
<1> QED
  BY <1>1, <1>2, FlrAssumption

(* A step that registers and opens nothing. *)
LEMMA FewerLimit ==
  ASSUME LimitInv, racing' = racing,
         \A u \in Users : Owned(u)' \subseteq Owned(u),
         \A t \in Threads, u \in Users : Opens(t, u)' => Opens(t, u)
  PROVE  LimitInv'
<1> SUFFICES ASSUME NEW u \in Users \ racing
             PROVE  /\ IsFiniteSet(Owned(u)') /\ Cardinality(Owned(u)') <= Limit
                    /\ \A t \in Threads : Opens(t, u)' =>
                         /\ Cardinality(Owned(u)') < Limit
                         /\ \A o \in Threads : Opens(o, u)' => o = t
  BY DEF LimitInv
<1>1. /\ IsFiniteSet(Owned(u)) /\ Cardinality(Owned(u)) <= Limit
      /\ \A t \in Threads : Opens(t, u) =>
           /\ Cardinality(Owned(u)) < Limit
           /\ \A o \in Threads : Opens(o, u) => o = t
  BY DEF LimitInv
<1>2. /\ IsFiniteSet(Owned(u)') /\ Cardinality(Owned(u)') <= Cardinality(Owned(u))
      /\ Cardinality(Owned(u)') \in Nat /\ Cardinality(Owned(u)) \in Nat
  BY <1>1, FS_Subset, FS_CardinalityType
<1> QED
  BY <1>1, <1>2, FlrAssumption

(* Steps of a thread that makes no session, and ends that of one. *)
LEMMA StepLimit ==
  ASSUME UsableInv, LimitInv, NEW t \in Threads,
         \/ \E kind \in {"open", "browse"}, user \in Users : Request(t, kind, user)
         \/ \E s \in Ids : Close(t, s) \/ CloseExpired(t, s) \/ Sweep(t, s)
         \/ Pop(t) \/ Unmount(t) \/ ListDirs(t) \/ Swept(t) \/ Browse(t)
         \/ _start_restic_mount(t) \/ _mount_guest(t) \/ Abort(t)
  PROVE  LimitInv'
<1>0. thr[t] \in Thread /\ thr \in [Threads -> Thread]
  BY DEF UsableInv, FlrTypes
<1>1. racing' = racing
  BY DEF Request, Close, CloseExpired, Sweep, Pop, Unmount, ListDirs, Swept,
     Browse, _start_restic_mount, _mount_guest, Mount, Abort
<1>2. \A s \in Ids : sess'[s] = sess[s] \/ sess'[s] = Nil
  BY DEF Request, Close, CloseExpired, Sweep, Pop, Unmount, ListDirs, Swept,
     Browse, _start_restic_mount, _mount_guest, Mount, Abort, UsableInv,
     FlrTypes
<1>3. \A o \in Threads \ {t} : thr'[o] = thr[o]
  BY <1>0
  DEF Request, Close, CloseExpired, Sweep, Pop, Unmount, ListDirs, Swept,
      Browse, _start_restic_mount, _mount_guest, Mount, Abort, Returns, Remove
<1>4. \A u \in Users : Opens(t, u)' => Opens(t, u)
  <2>1. CASE _start_restic_mount(t) \/ _mount_guest(t)
    BY <1>0, <2>1
    DEF _start_restic_mount, _mount_guest, Mount, At, Opens, Opening, Thread
  <2>2. CASE \/ \E kind \in {"open", "browse"}, user \in Users : Request(t, kind, user)
             \/ \E s \in Ids : Close(t, s) \/ CloseExpired(t, s) \/ Sweep(t, s)
             \/ Pop(t) \/ Unmount(t) \/ ListDirs(t) \/ Swept(t) \/ Browse(t) \/ Abort(t)
    <3>1. ASSUME NEW s \in Ids, NEW on, Remove(t, s, on), on.pc \notin Opening
          PROVE  thr'[t].pc \notin Opening
      BY <1>0, <3>1, RestingTyped DEF Remove, Returns, Opening
    <3>2. ASSUME Unmount(t) \/ Abort(t) PROVE thr'[t].pc \notin Opening
      <4>1. thr[t].id \in Ids
        <5>1. MakerInv(t) /\ CloserInv(t) /\ thr[t].pc \in {"unmount", "abort"}
          BY <3>2 DEF Unmount, Abort, At, UsableInv
        <5> QED
          BY <5>1 DEF MakerInv, CloserInv, Opening
      <4>2. [thr[t] EXCEPT !.pc = "expire", !.id = Nil,
                           !.todo = @ \ {thr[t].id}].pc = "expire"
        BY <1>0 DEF Thread
      <4>3. \/ Remove(t, thr[t].id, Resting)
            \/ Remove(t, thr[t].id, [thr[t] EXCEPT !.pc = "expire", !.id = Nil,
                                         !.todo = @ \ {thr[t].id}])
        BY <3>2 DEF Unmount, Abort
      <4> QED
        BY <3>1, <4>1, <4>2, <4>3, RestingTyped DEF Opening
    <3>3. ASSUME NEW s \in Ids, CloseExpired(t, s) \/ Sweep(t, s)
          PROVE  thr'[t].pc \notin Opening
      <4> DEFINE on == [thr[t] EXCEPT !.todo = @ \ {s}]
      <4>1. on.pc = thr[t].pc /\ on.pc \notin Opening
        BY <1>0, <3>3 DEF CloseExpired, Sweep, At, Thread, Opening
      <4>2. \/ Remove(t, s, on) \/ thr' = [thr EXCEPT ![t] = on]
            \/ thr' = [thr EXCEPT ![t].pc = "pop", ![t].id = s]
        BY <3>3 DEF CloseExpired, Sweep
      <4>3. CASE thr' = [thr EXCEPT ![t].pc = "pop", ![t].id = s]
        BY <1>0, <4>3 DEF Thread, Opening
      <4> HIDE DEF on
      <4> QED
        BY <1>0, <3>1, <4>1, <4>2, <4>3
    <3>4. ASSUME \/ \E kind \in {"open", "browse"}, user \in Users :
                      Request(t, kind, user)
                 \/ \E s \in Ids : Close(t, s)
                 \/ Pop(t) \/ ListDirs(t) \/ Swept(t) \/ Browse(t)
          PROVE  thr'[t].pc \notin Opening
      <4>1. CASE \/ \E kind \in {"open", "browse"}, user \in Users :
                      Request(t, kind, user)
                 \/ \E s \in Ids : Close(t, s)
        BY <1>0, <4>1 DEF Request, Close, Opening
      <4>2. CASE Pop(t) \/ ListDirs(t) \/ Swept(t) \/ Browse(t)
        BY <1>0, <4>2, RestingTyped
        DEF Pop, ListDirs, Swept, Browse, Returns, At, Opening, Thread
      <4> QED
        BY <3>4, <4>1, <4>2
    <3> QED
      BY <2>2, <3>2, <3>3, <3>4 DEF Opens
  <2> QED
    BY <2>1, <2>2
<1>5. \A u \in Users : Owned(u)' \subseteq Owned(u)
  BY <1>2 DEF Owned
<1>6. \A o \in Threads, u \in Users : Opens(o, u)' => Opens(o, u)
  BY <1>3, <1>4 DEF Opens
<1> QED
  BY <1>1, <1>5, <1>6, FewerLimit

LEMMA OpenLimit ==
  ASSUME UsableInv, LimitInv, NEW t \in Threads, Open(t)
  PROVE  LimitInv'
<1>0. thr[t] \in Thread /\ thr \in [Threads -> Thread] /\ thr[t].pc = "serve"
      /\ sess' = sess
  BY DEF Open, At, UsableInv, FlrTypes
<1>1. CASE Returns(t) /\ UNCHANGED racing
  <2>1. \A u \in Users : Owned(u)' \subseteq Owned(u)
    BY <1>0 DEF Owned
  <2>2. \A o \in Threads, u \in Users : Opens(o, u)' => Opens(o, u)
    BY <1>0, <1>1 DEF Opens, Returns, Resting, Opening
  <2> QED
    BY <1>1, <2>1, <2>2, FewerLimit
<1>2. ASSUME ~LimitReached(thr[t].user), NEW s \in Ids,
             thr' = [thr EXCEPT ![t].pc = "restic", ![t].id = s],
             racing' = racing \cup
               {u \in {thr[t].user} : \E o \in Threads \ {t} :
                  thr[o].pc \in Opening /\ thr[o].user = u}
      PROVE  LimitInv'
  <2> SUFFICES ASSUME NEW u \in Users \ racing'
               PROVE  /\ IsFiniteSet(Owned(u)') /\ Cardinality(Owned(u)') <= Limit
                      /\ \A x \in Threads : Opens(x, u)' =>
                           /\ Cardinality(Owned(u)') < Limit
                           /\ \A o \in Threads : Opens(o, u)' => o = x
    BY DEF LimitInv
  <2>1. u \in Users \ racing /\ Owned(u)' = Owned(u)
    BY <1>0, <1>2 DEF Owned
  <2>2. /\ IsFiniteSet(Owned(u)) /\ Cardinality(Owned(u)) <= Limit
        /\ \A x \in Threads : Opens(x, u) =>
             /\ Cardinality(Owned(u)) < Limit
             /\ \A o \in Threads : Opens(o, u) => o = x
    BY <2>1 DEF LimitInv
  <2>3. /\ \A o \in Threads \ {t} : Opens(o, u)' <=> Opens(o, u)
        /\ Opens(t, u)' => thr[t].user = u
    BY <1>0, <1>2 DEF Opens, Thread
  <2>4. CASE thr[t].user = u
    <3>1. \A o \in Threads \ {t} : ~Opens(o, u)
      BY <1>2, <2>4 DEF Opens
    <3>2. Cardinality(Owned(u)) < Limit
      BY <1>2, <2>2, <2>4, FS_CardinalityType, FlrAssumption DEF LimitReached
    <3> QED
      BY <2>1, <2>2, <2>3, <3>1, <3>2
  <2>5. CASE thr[t].user # u
    BY <2>1, <2>2, <2>3, <2>5
  <2> QED
    BY <2>4, <2>5
<1> QED
  BY <1>1, <1>2 DEF Open, Fresh

LEMMA RegisterLimit ==
  ASSUME UsableInv, LimitInv, NEW t \in Threads, Register(t)
  PROVE  LimitInv'
<1> DEFINE s == thr[t].id
<1>1. /\ thr[t].pc = "register" /\ s \in Ids /\ thr[t].user \in Users
      /\ sess[s] = Nil /\ racing' = racing /\ thr \in [Threads -> Thread]
  BY DEF Register, At, UsableInv, FlrTypes, MakerInv, Opening
<1>2. /\ \A x \in Ids \ {s} : sess'[x] = sess[x]
      /\ sess'[s] = [owner |-> thr[t].user, left |-> Ttl]
  BY <1>1 DEF Register, UsableInv, FlrTypes
<1>3. /\ \A o \in Threads \ {t} : thr'[o] = thr[o]
      /\ thr'[t].pc = "idle"
  BY <1>1, RestingTyped DEF Register, Returns
<1> SUFFICES ASSUME NEW u \in Users \ racing
             PROVE  /\ IsFiniteSet(Owned(u)') /\ Cardinality(Owned(u)') <= Limit
                    /\ \A x \in Threads : Opens(x, u)' =>
                         /\ Cardinality(Owned(u)') < Limit
                         /\ \A o \in Threads : Opens(o, u)' => o = x
  BY <1>1 DEF LimitInv
<1>4. /\ IsFiniteSet(Owned(u)) /\ Cardinality(Owned(u)) <= Limit
      /\ \A x \in Threads : Opens(x, u) =>
           /\ Cardinality(Owned(u)) < Limit
           /\ \A o \in Threads : Opens(o, u) => o = x
  BY DEF LimitInv
<1>5. \A o \in Threads : Opens(o, u)' => Opens(o, u) /\ o # t
  BY <1>3 DEF Opens, Opening
<1>6. CASE thr[t].user = u
  <2>1. Opens(t, u)
    BY <1>1, <1>6 DEF Opens, Opening
  <2>2. Owned(u)' = Owned(u) \cup {s} /\ s \notin Owned(u)
    BY <1>1, <1>2, <1>6, FlrAssumption, NilAssumption DEF Owned, Session
  <2>3. /\ IsFiniteSet(Owned(u)') /\ Cardinality(Owned(u)') = Cardinality(Owned(u)) + 1
        /\ Cardinality(Owned(u)) \in Nat
    BY <1>4, <2>2, FS_AddElement, FS_CardinalityType
  <2>4. \A o \in Threads : ~Opens(o, u)'
    BY <1>4, <1>5, <2>1
  <2> QED
    BY <1>4, <2>1, <2>3, <2>4, FlrAssumption
<1>7. CASE thr[t].user # u
  <2>1. Owned(u)' = Owned(u)
    BY <1>1, <1>2, <1>7 DEF Owned
  <2> QED
    BY <1>4, <1>5, <2>1
<1> QED
  BY <1>6, <1>7

LEMMA EnvironmentLimit ==
  ASSUME UsableInv, LimitInv, Crash \/ Stop \/ Tick
  PROVE  LimitInv'
<1>1. racing' = racing
  BY DEF Crash, Stop, Tick
<1>2. CASE Crash \/ Stop
  <2>1. \A u \in Users : Owned(u)' \subseteq Owned(u)
    BY <1>2 DEF Crash, Stop, Owned
  <2>2. \A t \in Threads, u \in Users : ~Opens(t, u)'
    BY <1>2, RestingTyped DEF Crash, Stop, Opens, Opening
  <2> QED
    BY <1>1, <2>1, <2>2, FewerLimit
<1>3. CASE Tick
  <2>1. ASSUME NEW s \in Ids, sess'[s] # Nil
        PROVE  sess[s] # Nil /\ sess'[s].owner = sess[s].owner
    BY <1>3, <2>1 DEF Tick, UsableInv, FlrTypes, Session
  <2>2. \A u \in Users : Owned(u)' \subseteq Owned(u)
    BY <2>1 DEF Owned
  <2>3. \A t \in Threads, u \in Users : Opens(t, u)' => Opens(t, u)
    BY <1>3 DEF Tick, Opens
  <2> QED
    BY <1>1, <2>2, <2>3, FewerLimit
<1> QED
  BY <1>2, <1>3

LEMMA NextLimit == UsableInv /\ LimitInv /\ [Next]_vars => LimitInv'
<1> SUFFICES ASSUME UsableInv, LimitInv, [Next]_vars PROVE LimitInv'
  OBVIOUS
<1>1. CASE UNCHANGED vars
  <2>1. /\ racing' = racing
        /\ \A u \in Users : Owned(u)' \subseteq Owned(u)
        /\ \A t \in Threads, u \in Users : Opens(t, u)' => Opens(t, u)
    BY <1>1 DEF vars, Owned, Opens
  <2> QED
    BY <2>1, FewerLimit
<1>2. CASE Next
  BY <1>2, StepLimit, OpenLimit, RegisterLimit, EnvironmentLimit, Zenon
  DEF Next, Step
<1> QED
  BY <1>1, <1>2

(* A user whose opens never overlapped has at most Limit sessions, for any *)
(* number of threads and users (open_session).                             *)
THEOREM LimitCorrect == Spec => []LimitKept
<1>1. Init => UsableInv /\ LimitInv
  BY InitUsable, InitLimit
<1>2. UsableInv /\ LimitInv /\ [Next]_vars => (UsableInv /\ LimitInv)'
  BY NextUsable, NextLimit
<1>3. LimitInv => LimitKept
  BY DEF LimitInv, LimitKept
<1> QED
  BY <1>1, <1>2, <1>3, PTL DEF Spec
=============================================================================
