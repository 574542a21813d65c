---------------------------- MODULE AgentLoopProofs ----------------------------
(***************************************************************************)
(* Proofs about AgentLoop for any clones and workers, any number of        *)
(* attempts, requeues and commits, and any number of faults.               *)
(*                                                                         *)
(* A commit is made once, so it names the clone that made it for good: the *)
(* commits one clone knows are never those of another (NamesApart).  That, *)
(* the pid file as long as it names the worker that works (KnownWorker),   *)
(* the order in which a tick runs (a tick that touches the file has no     *)
(* worker beside it: TickIsAlone) and what a deletion has looked at before *)
(* (TakesTheUnfenced, TakesTheAbandoned) make the lease of a publisher and *)
(* of a working worker safe.  In a clone whose pid file has missed a       *)
(* worker (cut) the second and the third of them fail, and nothing is said *)
(* of its workers; that such a clone spoils no other one is part of what   *)
(* is proved.                                                              *)
(***************************************************************************)
EXTENDS AgentLoop, TLAPS

WorkerPc == {"gone", "work", "verify", "fence", "publish", "failed", "fatal", "release", "lingers"}
TickPc == {"idle", "closed", "remote", "recover", "frontier", "release", "drop", "compare",
           "take", "requeue", "claim", "push", "contend", "recheck", "start"}
Goal == {"none", "sweep", "closed", "lingering", "recover", "expired", "reclaim", "giveUp"}

LeaseType == [sha : Nat, by : Clones \union {None}, fence : BOOLEAN, stale : BOOLEAN]
WorkerType == [pc : WorkerPc, tries : Nat]
HeartType == [read : Nat, sha : Nat, misses : Nat]
TickType == [pc : TickPc, goal : Goal, sha : Nat, tries : Nat]

TypeOK ==
  /\ lease \in LeaseType
  /\ last \in Nat
  /\ file \in [Clones -> Nat]
  /\ silent \in [Clones -> BOOLEAN]
  /\ pid \in [Clones -> Workers \union {None}]
  /\ worker \in [Workers -> WorkerType]
  /\ heart \in [Workers -> HeartType]
  /\ tick \in [Clones -> TickType]
  /\ cut \subseteq Clones
  /\ open \in BOOLEAN /\ requeues \in Nat /\ faults \in Nat

\* The part of a tick that runs is one that its goal has.
GoalFits ==
  \A c \in Clones :
    /\ tick[c].pc = "release" => tick[c].goal \in {"sweep", "recover", "closed", "giveUp"}
    /\ tick[c].pc = "drop" => tick[c].goal \in {"sweep", "recover"}
    /\ tick[c].pc \in {"compare", "take"} =>
         tick[c].goal \in {"sweep", "recover", "lingering", "expired", "reclaim"}

\* No commit is newer than the newest one made.
CommitsAreMade ==
  /\ lease.sha <= last
  /\ \A c \in Clones : file[c] <= last /\ tick[c].sha <= last
  /\ \A w \in Workers : heart[w].read <= last /\ heart[w].sha <= last

\* Clone c knows commit s for its own.
Knows(c, s) ==
  \/ s = file[c]
  \/ \E w \in Workers : Home[w] = c /\ (s = heart[w].read \/ s = heart[w].sha)
  \/ s = lease.sha /\ lease.by = c
  \/ tick[c].pc = "push" /\ s = tick[c].sha

\* A commit is known as its own by one clone only; a lease has a maker.
NamesApart ==
  /\ \A c, d \in Clones : \A s \in 1..last : Knows(c, s) /\ Knows(d, s) => c = d
  /\ lease.sha # 0 <=> lease.by # None

\* A worker that works is the one its clone's pid file names.
KnownWorker ==
  \A w \in Workers : Works(w) /\ Home[w] \notin cut => pid[Home[w]] = w

\* Only a worker that works has a heartbeat, and it has a file.
WorkerHasFile ==
  \A w \in Workers :
    /\ ~Works(w) => heart[w].read = 0 /\ heart[w].sha = 0
    /\ Works(w) /\ Home[w] \notin cut => file[Home[w]] # 0

\* No worker of the clone works, as far as anything is known of it.
Alone(c) == c \in cut \/ \A w \in Workers : Home[w] = c => ~Works(w)

\* While a tick removes a file, or makes a worker, the clone has no worker.
TickIsAlone ==
  \A c \in Clones :
    /\ tick[c].pc \in {"release", "drop", "push", "recheck", "start"} => Alone(c)
    /\ tick[c].pc \in {"compare", "take"} /\ tick[c].goal # "lingering" => Alone(c)
    /\ tick[c].pc \in {"push", "recheck", "start"} => c \in cut \/ file[c] # 0

\* The commit of a claim that is not yet pushed is nowhere else.
PushIsFresh ==
  \A c \in Clones :
    tick[c].pc = "push" =>
      /\ tick[c].sha # 0 /\ lease.sha # tick[c].sha
      /\ \A d \in Clones \ {c} : tick[d].sha # tick[c].sha

\* A renewal that was accepted is not yet in the file, and the file's commit is
\* no longer the remote's.
RenewedIsNewer ==
  \A w \in Workers :
    heart[w].sha # 0 /\ Home[w] \notin cut => lease.sha # file[Home[w]]

\* What is about to be deleted was no fence when it was looked at.
TakesTheUnfenced ==
  \A c \in Clones :
    tick[c].pc = "take" => tick[c].sha # 0 /\ (tick[c].sha = lease.sha => ~lease.fence)

\* What is about to be compared or deleted was stale, or the issue is closed.
TakesTheAbandoned ==
  \A c \in Clones :
    tick[c].pc \in {"compare", "take"} =>
      IF tick[c].goal = "lingering" THEN ~open
      ELSE tick[c].sha # 0 /\ (tick[c].sha = lease.sha => lease.stale)

\* A publisher holds its lease, its heartbeat is silent, and a beat that began
\* before has nothing left that could succeed.
PublisherIsSafe ==
  \A w \in Workers :
    worker[w].pc = "publish" /\ Home[w] \notin cut =>
      /\ lease.fence /\ lease.by = Home[w] /\ lease.sha = file[Home[w]]
      /\ silent[Home[w]] /\ heart[w].read # lease.sha

IInv ==
  /\ TypeOK /\ GoalFits /\ CommitsAreMade /\ NamesApart /\ KnownWorker /\ WorkerHasFile
  /\ TickIsAlone /\ PushIsFresh /\ RenewedIsNewer /\ TakesTheUnfenced /\ TakesTheAbandoned
  /\ PublisherIsSafe

-----------------------------------------------------------------------------
(* What a step may do, by the actor that takes it.                         *)

\* The variables of one clone or worker change, and keep their type.
OnlyFile(c) == file' \in [Clones -> Nat] /\ \A d \in Clones \ {c} : file'[d] = file[d]
OnlySilent(c) == silent' \in [Clones -> BOOLEAN] /\ \A d \in Clones \ {c} : silent'[d] = silent[d]
OnlyPid(c) ==
  pid' \in [Clones -> Workers \union {None}] /\ \A d \in Clones \ {c} : pid'[d] = pid[d]
OnlyWorker(w) ==
  worker' \in [Workers -> WorkerType] /\ \A v \in Workers \ {w} : worker'[v] = worker[v]
OnlyHeart(w) ==
  heart' \in [Workers -> HeartType] /\ \A v \in Workers \ {w} : heart'[v] = heart[v]
OnlyTick(c) == tick' \in [Clones -> TickType] /\ \A d \in Clones \ {c} : tick'[d] = tick[d]

\* The remote pair is new, or gone.
Becomes(s, c, fence) ==
  /\ lease' \in LeaseType
  /\ lease'.sha = s /\ lease'.by = c /\ lease'.fence = fence /\ ~lease'.stale

Counted == requeues' \in Nat /\ faults' \in Nat

\* The heartbeat is left alone, or ends with the worker.
HeartFollows(w) ==
  /\ OnlyHeart(w)
  /\ heart'[w].read \in {0, heart[w].read} /\ heart'[w].sha \in {0, heart[w].sha}
  /\ worker'[w].pc \in {"gone", "lingers"} => heart'[w].read = 0 /\ heart'[w].sha = 0

\* A worker ends; if the pid file named another one, its clone is cut.
Ends(w) == worker'[w].pc = "gone" /\ (pid[Home[w]] \in {None, w} \/ Home[w] \in cut')

\* The files beside the claim change with the worker's end, but for the marker,
\* which may also be made.
FilesFollow(w) ==
  /\ OnlyPid(Home[w]) /\ OnlySilent(Home[w])
  /\ cut \subseteq cut' /\ cut' \subseteq Clones
  /\ pid'[Home[w]] = pid[Home[w]] \/ Ends(w)
  /\ silent[Home[w]] => silent'[Home[w]] \/ Ends(w)

\* The remote pair stays, or is deleted by a clone whose worker or tick, at pc,
\* releases its own claim or takes another.
Deletes(c, pc) ==
  \/ lease' = lease
  \/ /\ Becomes(0, None, FALSE) /\ lease.sha # 0
     /\ \/ pc = "release" /\ lease.sha = file[c]
        \/ pc = "take" /\ tick[c].sha = lease.sha

\* Time or a person.
Outside ==
  /\ lease' \in LeaseType
  /\ lease'.sha = lease.sha /\ lease'.by = lease.by /\ lease'.fence = lease.fence
  /\ lease.stale => lease'.stale
  /\ open' \in BOOLEAN /\ (open' => open) /\ Counted
  /\ UNCHANGED <<last, file, silent, pid, worker, heart, tick, cut>>

\* A beat begins, is missed or is refused.
HeartGoes(w) ==
  /\ Works(w) /\ OnlyHeart(w)
  /\ heart'[w].read = 0 \/ (heart'[w].read = file[Home[w]] /\ ~silent[Home[w]])
  /\ heart'[w].sha \in {0, heart[w].sha}
  /\ Counted
  /\ UNCHANGED <<lease, last, file, silent, pid, worker, tick, cut, open>>

\* A beat reaches the remote, and its answer the worker or not.
Renews(w) ==
  /\ Works(w) /\ heart[w].read # 0 /\ lease.sha = heart[w].read
  /\ Becomes(last + 1, Home[w], FALSE) /\ last' = last + 1
  /\ OnlyHeart(w) /\ heart'[w].read = 0 /\ heart'[w].sha \in {0, heart[w].sha, last + 1}
  /\ Counted
  /\ UNCHANGED <<file, silent, pid, worker, tick, cut, open>>

Remembers(w) ==
  /\ Works(w) /\ heart[w].sha # 0
  /\ OnlyFile(Home[w]) /\ file'[Home[w]] = heart[w].sha
  /\ OnlyHeart(w) /\ heart'[w].read = 0 /\ heart'[w].sha = 0
  /\ Counted
  /\ UNCHANGED <<lease, last, silent, pid, worker, tick, cut, open>>

\* The worker goes on, or ends; only when it has done its work it removes the file.
WorkerGoes(w) ==
  /\ OnlyWorker(w) /\ worker'[w].pc # "publish"
  /\ Works(w) \/ worker'[w].pc = "gone"
  /\ HeartFollows(w) /\ FilesFollow(w) /\ Deletes(Home[w], worker[w].pc)
  /\ \/ file' = file
     \/ /\ Works(w) /\ worker'[w].pc \in {"gone", "lingers"}
        /\ OnlyFile(Home[w]) /\ file'[Home[w]] = 0
  /\ Counted
  /\ UNCHANGED <<last, tick, open>>

Fences(w) ==
  /\ worker[w].pc = "fence" /\ file[Home[w]] # 0 /\ lease.sha = file[Home[w]]
  /\ Becomes(last + 1, Home[w], TRUE) /\ last' = last + 1
  /\ OnlyWorker(w) /\ HeartFollows(w) /\ FilesFollow(w)
  /\ \/ /\ OnlyFile(Home[w]) /\ file'[Home[w]] = last + 1
        /\ worker'[w].pc = "publish" /\ silent'[Home[w]]
     \/ file' = file /\ worker'[w].pc # "publish"
  /\ Counted
  /\ UNCHANGED <<tick, open>>

\* Where a tick may go without a claim of its own to push.
Quiet == {"idle", "closed", "remote", "recover", "frontier", "requeue", "claim", "contend"}

TickMay(c) ==
  LET new == tick'[c] IN
  \/ new.pc \in Quiet /\ new.sha \in {0, tick[c].sha}
  \/ /\ new.pc = "release" /\ new.goal \in {"sweep", "recover", "closed", "giveUp"}
     /\ new.sha \in {0, tick[c].sha} /\ Alone(c)
  \/ /\ new.pc = "drop" /\ new.goal \in {"sweep", "recover"} /\ new.sha = 0 /\ Alone(c)
  \/ new.pc = "compare" /\ new.goal = "lingering" /\ new.sha = 0 /\ ~open
  \/ /\ new.pc = "compare" /\ new.goal \in {"sweep", "recover", "expired", "reclaim"}
     /\ new.sha = lease.sha /\ lease.sha # 0 /\ lease.stale /\ Alone(c)
  \/ /\ new.pc = "take" /\ tick[c].pc = "compare" /\ new.goal = tick[c].goal
     /\ new.sha = lease.sha /\ lease.sha # 0 /\ ~lease.fence
     /\ tick[c].sha \in {0, lease.sha}
  \/ new.pc = "start" /\ new.sha = 0 /\ tick[c].pc = "recheck"

\* The tick goes on; only a clone without a worker loses its file or its marker.
TickGoes(c) ==
  /\ OnlyTick(c) /\ TickMay(c) /\ Deletes(c, tick[c].pc)
  /\ lease' # lease => tick'[c].pc \notin {"compare", "take", "start"}
  /\ \/ file' = file
     \/ OnlyFile(c) /\ file'[c] = 0 /\ Alone(c) /\ tick'[c].pc \in Quiet
  /\ OnlySilent(c) /\ (silent'[c] = silent[c] \/ Alone(c))
  /\ Counted
  /\ UNCHANGED <<last, pid, worker, heart, cut, open>>

Claims(c) ==
  /\ file[c] = 0 /\ OnlyFile(c) /\ file'[c] = last + 1 /\ last' = last + 1
  /\ OnlyTick(c) /\ tick'[c].pc = "push" /\ tick'[c].sha = last + 1
  /\ Counted
  /\ UNCHANGED <<lease, silent, pid, worker, heart, cut, open>>

Pushes(c) ==
  /\ tick[c].pc = "push" /\ lease.sha = 0 /\ Becomes(tick[c].sha, c, FALSE)
  /\ OnlyTick(c) /\ tick'[c].sha = 0
  /\ \/ file' = file /\ tick'[c].pc = "recheck"
     \/ OnlyFile(c) /\ file'[c] = 0 /\ tick'[c].pc = "contend"
  /\ Counted
  /\ UNCHANGED <<last, silent, pid, worker, heart, cut, open>>

\* A worker starts, and the pid file names it or its clone is cut.
Starts(c, w) ==
  /\ tick[c].pc = "start" /\ Home[w] = c /\ ~Works(w)
  /\ OnlyWorker(w) /\ worker'[w].pc = "work"
  /\ OnlyTick(c) /\ tick'[c].pc = "idle" /\ tick'[c].sha = 0
  /\ OnlyPid(c) /\ OnlySilent(c) /\ cut \subseteq cut' /\ cut' \subseteq Clones
  /\ pid'[c] = w \/ c \in cut'
  /\ Counted
  /\ UNCHANGED <<lease, last, file, heart, open>>

StepOfWorker(w) == HeartGoes(w) \/ Renews(w) \/ Remembers(w) \/ WorkerGoes(w) \/ Fences(w)

StepOfTick(c) ==
  TickGoes(c) \/ Claims(c) \/ Pushes(c) \/ \E w \in Workers : Starts(c, w)

-----------------------------------------------------------------------------
(* Each part of the invariant is kept by every such step.                  *)

\* The fields that the invariant speaks of have these types.
LEMMA Fields ==
  ASSUME TypeOK
  PROVE  /\ lease.sha \in Nat /\ lease.by \in Clones \union {None}
         /\ lease.fence \in BOOLEAN /\ lease.stale \in BOOLEAN /\ last \in Nat
         /\ \A c \in Clones :
              /\ file[c] \in Nat /\ silent[c] \in BOOLEAN /\ pid[c] \in Workers \union {None}
              /\ tick[c].pc \in TickPc /\ tick[c].goal \in Goal /\ tick[c].sha \in Nat
         /\ \A w \in Workers :
              /\ Home[w] \in Clones /\ w # None
              /\ heart[w].read \in Nat /\ heart[w].sha \in Nat /\ worker[w].pc \in WorkerPc
  BY ConstantsAssumption DEF TypeOK, LeaseType, WorkerType, HeartType, TickType

\* NamesApart, one commit at a time: what a clone knows is in no file or
\* heartbeat of another, and the remote pair is its own if it knows its commit.
LEMMA Apart ==
  ASSUME TypeOK, CommitsAreMade, NamesApart, NEW c \in Clones, NEW s \in Nat \ {0},
         s <= last, Knows(c, s)
  PROVE  /\ \A d \in Clones \ {c} : ~Knows(d, s)
         /\ s = lease.sha => lease.by = c
<1>1. s \in 1..last
  BY Fields
<1>2. ASSUME s = lease.sha
      PROVE  lease.by = c
  <2>1. PICK d \in Clones : d = lease.by
    BY <1>2, Fields DEF NamesApart
  <2>2. Knows(d, s)
    BY <1>2, <2>1 DEF Knows
  <2>3. QED  BY <1>1, <2>1, <2>2 DEF NamesApart
<1>3. QED  BY <1>1, <1>2 DEF NamesApart

\* A clone that is not cut has one worker that works.
LEMMA OneWorks ==
  ASSUME KnownWorker, NEW v \in Workers, NEW w \in Workers, Works(v), Works(w),
         Home[v] = Home[w], Home[w] \notin cut
  PROVE  v = w
  BY DEF KnownWorker

LEMMA FitsOutside ==
  ASSUME IInv, Outside
  PROVE  GoalFits'
  BY Fields DEF Outside, GoalFits, Works, Alone, IInv

LEMMA FitsWorkerStep ==
  ASSUME IInv, NEW w \in Workers, StepOfWorker(w)
  PROVE  GoalFits'
<1>1. CASE HeartGoes(w)
  BY <1>1, Fields DEF HeartGoes, Works, OnlyHeart, IInv, GoalFits
<1>2. CASE Renews(w)
  BY <1>2, Fields DEF Renews, Works, Becomes, OnlyHeart, IInv, GoalFits
<1>3. CASE Remembers(w)
  BY <1>3, Fields DEF Remembers, Works, OnlyFile, OnlyHeart, IInv, GoalFits
<1>4. CASE WorkerGoes(w)
  BY <1>4, Fields
  DEF WorkerGoes, Works, OnlyWorker, HeartFollows, OnlyHeart, FilesFollow, OnlyPid,
      OnlySilent, Ends, Deletes, Becomes, OnlyFile, WorkerPc, IInv, GoalFits
<1>5. CASE Fences(w)
  BY <1>5, Fields
  DEF Fences, Works, Becomes, OnlyWorker, HeartFollows, OnlyHeart, FilesFollow, OnlyPid,
      OnlySilent, Ends, OnlyFile, IInv, GoalFits
<1>6. QED  BY <1>1, <1>2, <1>3, <1>4, <1>5 DEF StepOfWorker

LEMMA FitsTickStep ==
  ASSUME IInv, NEW c \in Clones, StepOfTick(c)
  PROVE  GoalFits'
<1>1. CASE TickGoes(c)
  BY <1>1, Fields
  DEF TickGoes, OnlyTick, TickMay, Quiet, Alone, Deletes, Becomes, OnlyFile, OnlySilent,
      Works, IInv, GoalFits
<1>2. CASE Claims(c)
  BY <1>2, Fields DEF Claims, OnlyFile, OnlyTick, Alone, Works, IInv, GoalFits
<1>3. CASE Pushes(c)
  BY <1>3, Fields DEF Pushes, Becomes, OnlyTick, OnlyFile, Alone, Works, IInv, GoalFits
<1>4. ASSUME NEW w \in Workers, Starts(c, w)
      PROVE  GoalFits'
  BY <1>4, Fields
  DEF Starts, Works, Alone, OnlyWorker, OnlyTick, OnlyPid, OnlySilent, IInv, GoalFits
<1>5. QED  BY <1>1, <1>2, <1>3, <1>4 DEF StepOfTick

LEMMA MadeOutside ==
  ASSUME IInv, Outside
  PROVE  CommitsAreMade'
  BY Fields DEF Outside, CommitsAreMade, Works, Alone, IInv

LEMMA MadeWorkerStep ==
  ASSUME IInv, NEW w \in Workers, StepOfWorker(w)
  PROVE  CommitsAreMade'
<1>1. CASE HeartGoes(w)
  BY <1>1, Fields DEF HeartGoes, Works, OnlyHeart, IInv, CommitsAreMade
<1>2. CASE Renews(w)
  BY <1>2, Fields DEF Renews, Works, Becomes, OnlyHeart, IInv, CommitsAreMade
<1>3. CASE Remembers(w)
  BY <1>3, Fields DEF Remembers, Works, OnlyFile, OnlyHeart, IInv, CommitsAreMade
<1>4. CASE WorkerGoes(w)
  BY <1>4, Fields
  DEF WorkerGoes, Works, OnlyWorker, HeartFollows, OnlyHeart, FilesFollow, OnlyPid,
      OnlySilent, Ends, Deletes, Becomes, OnlyFile, WorkerPc, IInv, CommitsAreMade
<1>5. CASE Fences(w)
  BY <1>5, Fields
  DEF Fences, Works, Becomes, OnlyWorker, HeartFollows, OnlyHeart, FilesFollow, OnlyPid,
      OnlySilent, Ends, OnlyFile, IInv, CommitsAreMade
<1>6. QED  BY <1>1, <1>2, <1>3, <1>4, <1>5 DEF StepOfWorker

LEMMA MadeTickStep ==
  ASSUME IInv, NEW c \in Clones, StepOfTick(c)
  PROVE  CommitsAreMade'
<1>1. CASE TickGoes(c)
  BY <1>1, Fields
  DEF TickGoes, OnlyTick, TickMay, Quiet, Alone, Deletes, Becomes, OnlyFile, OnlySilent,
      Works, IInv, CommitsAreMade
<1>2. CASE Claims(c)
  BY <1>2, Fields DEF Claims, OnlyFile, OnlyTick, Alone, Works, IInv, CommitsAreMade
<1>3. CASE Pushes(c)
  BY <1>3, Fields DEF Pushes, Becomes, OnlyTick, OnlyFile, Alone, Works, IInv, CommitsAreMade
<1>4. ASSUME NEW w \in Workers, Starts(c, w)
      PROVE  CommitsAreMade'
  BY <1>4, Fields
  DEF Starts, Works, Alone, OnlyWorker, OnlyTick, OnlyPid, OnlySilent, IInv, CommitsAreMade
<1>5. QED  BY <1>1, <1>2, <1>3, <1>4 DEF StepOfTick

LEMMA KnownOutside ==
  ASSUME IInv, Outside
  PROVE  KnownWorker'
  BY Fields DEF Outside, KnownWorker, Works, Alone, IInv, TickIsAlone

LEMMA KnownWorkerStep ==
  ASSUME IInv, NEW w \in Workers, StepOfWorker(w)
  PROVE  KnownWorker'
<1>1. CASE HeartGoes(w)
  BY <1>1, Fields DEF HeartGoes, Works, OnlyHeart, IInv, KnownWorker, TickIsAlone
<1>2. CASE Renews(w)
  BY <1>2, Fields DEF Renews, Works, Becomes, OnlyHeart, IInv, KnownWorker, TickIsAlone
<1>3. CASE Remembers(w)
  BY <1>3, Fields DEF Remembers, Works, OnlyFile, OnlyHeart, IInv, KnownWorker, TickIsAlone
<1>4. CASE WorkerGoes(w)
  BY <1>4, Fields
  DEF WorkerGoes, Works, OnlyWorker, HeartFollows, OnlyHeart, FilesFollow, OnlyPid,
      OnlySilent, Ends, Deletes, Becomes, OnlyFile, WorkerPc, IInv, KnownWorker, TickIsAlone
<1>5. CASE Fences(w)
  BY <1>5, Fields
  DEF Fences, Works, Becomes, OnlyWorker, HeartFollows, OnlyHeart, FilesFollow, OnlyPid,
      OnlySilent, Ends, OnlyFile, IInv, KnownWorker, TickIsAlone
<1>6. QED  BY <1>1, <1>2, <1>3, <1>4, <1>5 DEF StepOfWorker

LEMMA KnownTickStep ==
  ASSUME IInv, NEW c \in Clones, StepOfTick(c)
  PROVE  KnownWorker'
<1>1. CASE TickGoes(c)
  BY <1>1, Fields
  DEF TickGoes, OnlyTick, TickMay, Quiet, Alone, Deletes, Becomes, OnlyFile, OnlySilent,
      Works, IInv, KnownWorker, TickIsAlone
<1>2. CASE Claims(c)
  BY <1>2, Fields DEF Claims, OnlyFile, OnlyTick, Alone, Works, IInv, KnownWorker, TickIsAlone
<1>3. CASE Pushes(c)
  BY <1>3, Fields
  DEF Pushes, Becomes, OnlyTick, OnlyFile, Alone, Works, IInv, KnownWorker, TickIsAlone
<1>4. ASSUME NEW w \in Workers, Starts(c, w)
      PROVE  KnownWorker'
  BY <1>4, Fields
  DEF Starts, Works, Alone, OnlyWorker, OnlyTick, OnlyPid, OnlySilent, IInv, KnownWorker,
      TickIsAlone
<1>5. QED  BY <1>1, <1>2, <1>3, <1>4 DEF StepOfTick

LEMMA HasFileOutside ==
  ASSUME IInv, Outside
  PROVE  WorkerHasFile'
  BY Fields DEF Outside, WorkerHasFile, Works, Alone, IInv, KnownWorker, TickIsAlone

LEMMA HasFileWorkerStep ==
  ASSUME IInv, NEW w \in Workers, StepOfWorker(w)
  PROVE  WorkerHasFile'
<1>1. CASE HeartGoes(w)
  BY <1>1, Fields DEF HeartGoes, Works, OnlyHeart, IInv, WorkerHasFile, KnownWorker, TickIsAlone
<1>2. CASE Renews(w)
  BY <1>2, Fields
  DEF Renews, Works, Becomes, OnlyHeart, IInv, WorkerHasFile, KnownWorker, TickIsAlone
<1>3. CASE Remembers(w)
  BY <1>3, Fields
  DEF Remembers, Works, OnlyFile, OnlyHeart, IInv, WorkerHasFile, KnownWorker, TickIsAlone
<1>4. CASE WorkerGoes(w)
  BY <1>4, Fields
  DEF WorkerGoes, Works, OnlyWorker, HeartFollows, OnlyHeart, FilesFollow, OnlyPid,
      OnlySilent, Ends, Deletes, Becomes, OnlyFile, WorkerPc, IInv, WorkerHasFile,
      KnownWorker, TickIsAlone
<1>5. CASE Fences(w)
  BY <1>5, Fields
  DEF Fences, Works, Becomes, OnlyWorker, HeartFollows, OnlyHeart, FilesFollow, OnlyPid,
      OnlySilent, Ends, OnlyFile, IInv, WorkerHasFile, KnownWorker, TickIsAlone
<1>6. QED  BY <1>1, <1>2, <1>3, <1>4, <1>5 DEF StepOfWorker

LEMMA HasFileTickStep ==
  ASSUME IInv, NEW c \in Clones, StepOfTick(c)
  PROVE  WorkerHasFile'
<1>1. CASE TickGoes(c)
  BY <1>1, Fields
  DEF TickGoes, OnlyTick, TickMay, Quiet, Alone, Deletes, Becomes, OnlyFile, OnlySilent,
      Works, IInv, WorkerHasFile, KnownWorker, TickIsAlone
<1>2. CASE Claims(c)
  BY <1>2, Fields
  DEF Claims, OnlyFile, OnlyTick, Alone, Works, IInv, WorkerHasFile, KnownWorker, TickIsAlone
<1>3. CASE Pushes(c)
  BY <1>3, Fields
  DEF Pushes, Becomes, OnlyTick, OnlyFile, Alone, Works, IInv, WorkerHasFile, KnownWorker,
      TickIsAlone
<1>4. ASSUME NEW w \in Workers, Starts(c, w)
      PROVE  WorkerHasFile'
  BY <1>4, Fields
  DEF Starts, Works, Alone, OnlyWorker, OnlyTick, OnlyPid, OnlySilent, IInv, WorkerHasFile,
      KnownWorker, TickIsAlone
<1>5. QED  BY <1>1, <1>2, <1>3, <1>4 DEF StepOfTick

LEMMA AloneOutside ==
  ASSUME IInv, Outside
  PROVE  TickIsAlone'
  BY Fields DEF Outside, TickIsAlone, Works, Alone, IInv, WorkerHasFile, KnownWorker

LEMMA AloneWorkerStep ==
  ASSUME IInv, NEW w \in Workers, StepOfWorker(w)
  PROVE  TickIsAlone'
<1>1. CASE HeartGoes(w)
  BY <1>1, Fields DEF HeartGoes, Works, Alone, OnlyHeart, IInv, TickIsAlone, WorkerHasFile, KnownWorker
<1>2. CASE Renews(w)
  BY <1>2, Fields
  DEF Renews, Works, Alone, Becomes, OnlyHeart, IInv, TickIsAlone, WorkerHasFile, KnownWorker
<1>3. CASE Remembers(w)
  BY <1>3, Fields
  DEF Remembers, Works, Alone, OnlyFile, OnlyHeart, IInv, TickIsAlone, WorkerHasFile, KnownWorker
<1>4. CASE WorkerGoes(w)
  BY <1>4, Fields
  DEF WorkerGoes, Works, Alone, OnlyWorker, HeartFollows, OnlyHeart, FilesFollow, OnlyPid,
      OnlySilent, Ends, Deletes, Becomes, OnlyFile, WorkerPc, IInv, TickIsAlone,
      WorkerHasFile, KnownWorker
<1>5. CASE Fences(w)
  BY <1>5, Fields
  DEF Fences, Works, Alone, Becomes, OnlyWorker, HeartFollows, OnlyHeart, FilesFollow, OnlyPid,
      OnlySilent, Ends, OnlyFile, IInv, TickIsAlone, WorkerHasFile, KnownWorker
<1>6. QED  BY <1>1, <1>2, <1>3, <1>4, <1>5 DEF StepOfWorker

LEMMA AloneTickStep ==
  ASSUME IInv, NEW c \in Clones, StepOfTick(c)
  PROVE  TickIsAlone'
<1>1. CASE TickGoes(c)
  BY <1>1, Fields
  DEF TickGoes, OnlyTick, TickMay, Quiet, Alone, Deletes, Becomes, OnlyFile, OnlySilent,
      Works, IInv, TickIsAlone, WorkerHasFile, KnownWorker
<1>2. CASE Claims(c)
  BY <1>2, Fields
  DEF Claims, OnlyFile, OnlyTick, Alone, Works, IInv, TickIsAlone, WorkerHasFile, KnownWorker
<1>3. CASE Pushes(c)
  BY <1>3, Fields
  DEF Pushes, Becomes, OnlyTick, OnlyFile, Alone, Works, IInv, TickIsAlone, WorkerHasFile,
      KnownWorker
<1>4. ASSUME NEW w \in Workers, Starts(c, w)
      PROVE  TickIsAlone'
  BY <1>4, Fields
  DEF Starts, Works, Alone, OnlyWorker, OnlyTick, OnlyPid, OnlySilent, IInv, TickIsAlone,
      WorkerHasFile, KnownWorker
<1>5. QED  BY <1>1, <1>2, <1>3, <1>4 DEF StepOfTick

LEMMA FreshOutside ==
  ASSUME IInv, Outside
  PROVE  PushIsFresh'
  BY Fields DEF Outside, PushIsFresh, Works, Alone, IInv, CommitsAreMade

LEMMA FreshWorkerStep ==
  ASSUME IInv, NEW w \in Workers, StepOfWorker(w)
  PROVE  PushIsFresh'
<1>1. CASE HeartGoes(w)
  BY <1>1, Fields DEF HeartGoes, Works, OnlyHeart, IInv, PushIsFresh, CommitsAreMade
<1>2. CASE Renews(w)
  BY <1>2, Fields DEF Renews, Works, Becomes, OnlyHeart, IInv, PushIsFresh, CommitsAreMade
<1>3. CASE Remembers(w)
  BY <1>3, Fields DEF Remembers, Works, OnlyFile, OnlyHeart, IInv, PushIsFresh, CommitsAreMade
<1>4. CASE WorkerGoes(w)
  BY <1>4, Fields
  DEF WorkerGoes, Works, OnlyWorker, HeartFollows, OnlyHeart, FilesFollow, OnlyPid,
      OnlySilent, Ends, Deletes, Becomes, OnlyFile, WorkerPc, IInv, PushIsFresh,
      CommitsAreMade
<1>5. CASE Fences(w)
  BY <1>5, Fields
  DEF Fences, Works, Becomes, OnlyWorker, HeartFollows, OnlyHeart, FilesFollow, OnlyPid,
      OnlySilent, Ends, OnlyFile, IInv, PushIsFresh, CommitsAreMade
<1>6. QED  BY <1>1, <1>2, <1>3, <1>4, <1>5 DEF StepOfWorker

LEMMA FreshTickStep ==
  ASSUME IInv, NEW c \in Clones, StepOfTick(c)
  PROVE  PushIsFresh'
<1>1. CASE TickGoes(c)
  BY <1>1, Fields
  DEF TickGoes, OnlyTick, TickMay, Quiet, Alone, Deletes, Becomes, OnlyFile, OnlySilent,
      Works, IInv, PushIsFresh, CommitsAreMade
<1>2. CASE Claims(c)
  BY <1>2, Fields
  DEF Claims, OnlyFile, OnlyTick, Alone, Works, IInv, PushIsFresh, CommitsAreMade
<1>3. CASE Pushes(c)
  BY <1>3, Fields
  DEF Pushes, Becomes, OnlyTick, OnlyFile, Alone, Works, IInv, PushIsFresh, CommitsAreMade
<1>4. ASSUME NEW w \in Workers, Starts(c, w)
      PROVE  PushIsFresh'
  BY <1>4, Fields
  DEF Starts, Works, Alone, OnlyWorker, OnlyTick, OnlyPid, OnlySilent, IInv, PushIsFresh,
      CommitsAreMade
<1>5. QED  BY <1>1, <1>2, <1>3, <1>4 DEF StepOfTick

LEMMA NewerOutside ==
  ASSUME IInv, Outside
  PROVE  RenewedIsNewer'
  BY Fields
  DEF Outside, RenewedIsNewer, Works, Alone, IInv, WorkerHasFile, KnownWorker, TickIsAlone,
      CommitsAreMade

LEMMA NewerWorkerStep ==
  ASSUME IInv, NEW w \in Workers, StepOfWorker(w)
  PROVE  RenewedIsNewer'
<1>1. CASE HeartGoes(w)
  BY <1>1, Fields
  DEF HeartGoes, Works, OnlyHeart, IInv, RenewedIsNewer, WorkerHasFile, KnownWorker,
      TickIsAlone, CommitsAreMade
<1>2. CASE Renews(w)
  BY <1>2, Fields
  DEF Renews, Works, Becomes, OnlyHeart, IInv, RenewedIsNewer, WorkerHasFile, KnownWorker,
      TickIsAlone, CommitsAreMade
<1>3. CASE Remembers(w)
  BY <1>3, Fields
  DEF Remembers, Works, OnlyFile, OnlyHeart, IInv, RenewedIsNewer, WorkerHasFile, KnownWorker,
      TickIsAlone, CommitsAreMade
<1>4. CASE WorkerGoes(w)
  BY <1>4, Fields
  DEF WorkerGoes, Works, OnlyWorker, HeartFollows, OnlyHeart, FilesFollow, OnlyPid,
      OnlySilent, Ends, Deletes, Becomes, OnlyFile, WorkerPc, IInv, RenewedIsNewer,
      WorkerHasFile, KnownWorker, TickIsAlone, CommitsAreMade
<1>5. CASE Fences(w)
  BY <1>5, Fields
  DEF Fences, Works, Becomes, OnlyWorker, HeartFollows, OnlyHeart, FilesFollow, OnlyPid,
      OnlySilent, Ends, OnlyFile, IInv, RenewedIsNewer, WorkerHasFile, KnownWorker,
      TickIsAlone, CommitsAreMade
<1>6. QED  BY <1>1, <1>2, <1>3, <1>4, <1>5 DEF StepOfWorker

LEMMA NewerTickStep ==
  ASSUME IInv, NEW c \in Clones, StepOfTick(c)
  PROVE  RenewedIsNewer'
<1>1. CASE TickGoes(c)
  BY <1>1, Fields
  DEF TickGoes, OnlyTick, TickMay, Quiet, Alone, Deletes, Becomes, OnlyFile, OnlySilent,
      Works, IInv, RenewedIsNewer, WorkerHasFile, KnownWorker, TickIsAlone, CommitsAreMade
<1>2. CASE Claims(c)
  BY <1>2, Fields
  DEF Claims, OnlyFile, OnlyTick, Alone, Works, IInv, RenewedIsNewer, WorkerHasFile,
      KnownWorker, TickIsAlone, CommitsAreMade
<1>3. CASE Pushes(c)
  <2> SUFFICES ASSUME NEW v \in Workers, heart[v].sha # 0, Home[v] \notin cut
               PROVE  lease'.sha # file'[Home[v]]
    BY <1>3 DEF Pushes, RenewedIsNewer
  <2>1. TypeOK /\ CommitsAreMade /\ NamesApart
    BY DEF IInv
  <2>2. Home[v] \in Clones \ {c}
    BY <1>3, <2>1, Fields DEF Pushes, IInv, WorkerHasFile, TickIsAlone, Alone
  <2>3. tick[c].sha \in Nat \ {0} /\ tick[c].sha <= last /\ Knows(c, tick[c].sha)
    BY <1>3, <2>1, Fields DEF Pushes, IInv, PushIsFresh, CommitsAreMade, Knows
  <2>4. tick[c].sha # file[Home[v]]
    BY <2>1, <2>2, <2>3, Apart DEF Knows
  <2>5. QED  BY <1>3, <2>2, <2>4 DEF Pushes, Becomes, OnlyFile
<1>4. ASSUME NEW w \in Workers, Starts(c, w)
      PROVE  RenewedIsNewer'
  BY <1>4, Fields
  DEF Starts, Works, Alone, OnlyWorker, OnlyTick, OnlyPid, OnlySilent, IInv, RenewedIsNewer,
      WorkerHasFile, KnownWorker, TickIsAlone, CommitsAreMade
<1>5. QED  BY <1>1, <1>2, <1>3, <1>4 DEF StepOfTick

LEMMA UnfencedOutside ==
  ASSUME IInv, Outside
  PROVE  TakesTheUnfenced'
  BY Fields DEF Outside, TakesTheUnfenced, Works, Alone, IInv, CommitsAreMade

LEMMA UnfencedWorkerStep ==
  ASSUME IInv, NEW w \in Workers, StepOfWorker(w)
  PROVE  TakesTheUnfenced'
<1>1. CASE HeartGoes(w)
  BY <1>1, Fields DEF HeartGoes, Works, OnlyHeart, IInv, TakesTheUnfenced, CommitsAreMade
<1>2. CASE Renews(w)
  BY <1>2, Fields DEF Renews, Works, Becomes, OnlyHeart, IInv, TakesTheUnfenced, CommitsAreMade
<1>3. CASE Remembers(w)
  BY <1>3, Fields
  DEF Remembers, Works, OnlyFile, OnlyHeart, IInv, TakesTheUnfenced, CommitsAreMade
<1>4. CASE WorkerGoes(w)
  BY <1>4, Fields
  DEF WorkerGoes, Works, OnlyWorker, HeartFollows, OnlyHeart, FilesFollow, OnlyPid,
      OnlySilent, Ends, Deletes, Becomes, OnlyFile, WorkerPc, IInv, TakesTheUnfenced,
      CommitsAreMade
<1>5. CASE Fences(w)
  BY <1>5, Fields
  DEF Fences, Works, Becomes, OnlyWorker, HeartFollows, OnlyHeart, FilesFollow, OnlyPid,
      OnlySilent, Ends, OnlyFile, IInv, TakesTheUnfenced, CommitsAreMade
<1>6. QED  BY <1>1, <1>2, <1>3, <1>4, <1>5 DEF StepOfWorker

LEMMA UnfencedTickStep ==
  ASSUME IInv, NEW c \in Clones, StepOfTick(c)
  PROVE  TakesTheUnfenced'
<1>1. CASE TickGoes(c)
  BY <1>1, Fields
  DEF TickGoes, OnlyTick, TickMay, Quiet, Alone, Deletes, Becomes, OnlyFile, OnlySilent,
      Works, IInv, TakesTheUnfenced, CommitsAreMade
<1>2. CASE Claims(c)
  BY <1>2, Fields
  DEF Claims, OnlyFile, OnlyTick, Alone, Works, IInv, TakesTheUnfenced, CommitsAreMade
<1>3. CASE Pushes(c)
  BY <1>3, Fields
  DEF Pushes, Becomes, OnlyTick, OnlyFile, Alone, Works, IInv, TakesTheUnfenced,
      CommitsAreMade
<1>4. ASSUME NEW w \in Workers, Starts(c, w)
      PROVE  TakesTheUnfenced'
  BY <1>4, Fields
  DEF Starts, Works, Alone, OnlyWorker, OnlyTick, OnlyPid, OnlySilent, IInv, TakesTheUnfenced,
      CommitsAreMade
<1>5. QED  BY <1>1, <1>2, <1>3, <1>4 DEF StepOfTick

LEMMA AbandonedOutside ==
  ASSUME IInv, Outside
  PROVE  TakesTheAbandoned'
  BY Fields DEF Outside, TakesTheAbandoned, Works, Alone, IInv, CommitsAreMade, PushIsFresh

LEMMA AbandonedWorkerStep ==
  ASSUME IInv, NEW w \in Workers, StepOfWorker(w)
  PROVE  TakesTheAbandoned'
<1>1. CASE HeartGoes(w)
  BY <1>1, Fields
  DEF HeartGoes, Works, OnlyHeart, IInv, TakesTheAbandoned, CommitsAreMade, PushIsFresh
<1>2. CASE Renews(w)
  BY <1>2, Fields
  DEF Renews, Works, Becomes, OnlyHeart, IInv, TakesTheAbandoned, CommitsAreMade, PushIsFresh
<1>3. CASE Remembers(w)
  BY <1>3, Fields
  DEF Remembers, Works, OnlyFile, OnlyHeart, IInv, TakesTheAbandoned, CommitsAreMade,
      PushIsFresh
<1>4. CASE WorkerGoes(w)
  BY <1>4, Fields
  DEF WorkerGoes, Works, OnlyWorker, HeartFollows, OnlyHeart, FilesFollow, OnlyPid,
      OnlySilent, Ends, Deletes, Becomes, OnlyFile, WorkerPc, IInv, TakesTheAbandoned,
      CommitsAreMade, PushIsFresh
<1>5. CASE Fences(w)
  BY <1>5, Fields
  DEF Fences, Works, Becomes, OnlyWorker, HeartFollows, OnlyHeart, FilesFollow, OnlyPid,
      OnlySilent, Ends, OnlyFile, IInv, TakesTheAbandoned, CommitsAreMade, PushIsFresh
<1>6. QED  BY <1>1, <1>2, <1>3, <1>4, <1>5 DEF StepOfWorker

LEMMA AbandonedTickStep ==
  ASSUME IInv, NEW c \in Clones, StepOfTick(c)
  PROVE  TakesTheAbandoned'
<1>1. CASE TickGoes(c)
  BY <1>1, Fields
  DEF TickGoes, OnlyTick, TickMay, Quiet, Alone, Deletes, Becomes, OnlyFile, OnlySilent,
      Works, IInv, TakesTheAbandoned, CommitsAreMade, PushIsFresh
<1>2. CASE Claims(c)
  BY <1>2, Fields
  DEF Claims, OnlyFile, OnlyTick, Alone, Works, IInv, TakesTheAbandoned, CommitsAreMade,
      PushIsFresh
<1>3. CASE Pushes(c)
  BY <1>3, Fields
  DEF Pushes, Becomes, OnlyTick, OnlyFile, Alone, Works, IInv, TakesTheAbandoned,
      CommitsAreMade, PushIsFresh
<1>4. ASSUME NEW w \in Workers, Starts(c, w)
      PROVE  TakesTheAbandoned'
  BY <1>4, Fields
  DEF Starts, Works, Alone, OnlyWorker, OnlyTick, OnlyPid, OnlySilent, IInv,
      TakesTheAbandoned, CommitsAreMade, PushIsFresh
<1>5. QED  BY <1>1, <1>2, <1>3, <1>4 DEF StepOfTick

\* The remote's commit is no other clone's while a worker publishes.
LEMMA OfPublisher ==
  ASSUME IInv, NEW v \in Workers, worker[v].pc = "publish", Home[v] \notin cut,
         NEW c \in Clones, Knows(c, lease.sha)
  PROVE  c = Home[v]
<1>1. TypeOK /\ CommitsAreMade /\ NamesApart
  BY DEF IInv
<1>2. lease.by = Home[v] /\ lease.sha = file[Home[v]]
  BY DEF IInv, PublisherIsSafe
<1>3. file[Home[v]] # 0
  BY DEF IInv, WorkerHasFile, Works
<1>4. lease.sha \in Nat \ {0} /\ lease.sha <= last
  BY <1>1, <1>2, <1>3, Fields DEF CommitsAreMade
<1>5. QED  BY <1>1, <1>2, <1>4, Apart

LEMMA PublisherOutside ==
  ASSUME IInv, Outside
  PROVE  PublisherIsSafe'
  BY Fields
  DEF Outside, PublisherIsSafe, Works, Alone, IInv, WorkerHasFile, KnownWorker, TickIsAlone,
      CommitsAreMade, RenewedIsNewer, TakesTheUnfenced

LEMMA PublisherWorkerStep ==
  ASSUME IInv, NEW w \in Workers, StepOfWorker(w)
  PROVE  PublisherIsSafe'
<1>1. CASE HeartGoes(w)
  BY <1>1, Fields
  DEF HeartGoes, Works, OnlyHeart, IInv, PublisherIsSafe, WorkerHasFile, KnownWorker,
      TickIsAlone, CommitsAreMade, RenewedIsNewer, TakesTheUnfenced
<1>2. CASE Renews(w)
  <2> SUFFICES ASSUME NEW v \in Workers, worker[v].pc = "publish", Home[v] \notin cut
               PROVE  FALSE
    BY <1>2 DEF Renews, PublisherIsSafe
  <2>1. Knows(Home[w], lease.sha)
    BY <1>2 DEF Renews, Knows
  <2>2. Home[w] = Home[v]
    BY <2>1, OfPublisher, Fields DEF IInv
  <2>3. v = w
    BY <1>2, <2>2, OneWorks DEF IInv, Renews, Works
  <2>4. QED  BY <1>2, <2>3 DEF IInv, PublisherIsSafe, Renews
<1>3. CASE Remembers(w)
  BY <1>3, Fields
  DEF Remembers, Works, OnlyFile, OnlyHeart, IInv, PublisherIsSafe, WorkerHasFile,
      KnownWorker, TickIsAlone, CommitsAreMade, RenewedIsNewer, TakesTheUnfenced
<1>4. CASE WorkerGoes(w)
  <2> SUFFICES ASSUME NEW v \in Workers, worker'[v].pc = "publish", Home[v] \notin cut'
               PROVE  /\ lease'.fence /\ lease'.by = Home[v] /\ lease'.sha = file'[Home[v]]
                      /\ silent'[Home[v]] /\ heart'[v].read # lease'.sha
    BY DEF PublisherIsSafe
  <2>1. v # w /\ worker[v].pc = "publish" /\ Home[v] \notin cut /\ Works(v)
    BY <1>4 DEF WorkerGoes, OnlyWorker, FilesFollow, Works
  <2>2. Home[w] # Home[v] \/ ~Works(w)
    BY <2>1, OneWorks DEF IInv
  <2>3. lease' = lease
    <3>1. ASSUME worker[w].pc = "release" /\ lease.sha = file[Home[w]]
          PROVE  FALSE
      <4>1. Home[w] = Home[v]
        BY <2>1, <3>1, OfPublisher, Fields DEF IInv, Knows
      <4>2. QED  BY <2>2, <3>1, <4>1 DEF Works
    <3>2. QED  BY <1>4, <3>1, Fields DEF WorkerGoes, Deletes, IInv, WorkerPc
  <2>4. file'[Home[v]] = file[Home[v]]
    BY <1>4, <2>2, Fields DEF WorkerGoes, OnlyFile, IInv
  <2>5. silent[Home[v]] => silent'[Home[v]]
    <3>1. pid[Home[v]] = v /\ v # None
      BY <2>1, Fields DEF IInv, KnownWorker
    <3>2. QED  BY <1>4, <2>1, <3>1, Fields DEF WorkerGoes, FilesFollow, OnlySilent, Ends, IInv
  <2>6. heart'[v] = heart[v]
    BY <1>4, <2>1 DEF WorkerGoes, HeartFollows, OnlyHeart
  <2>7. QED  BY <2>1, <2>3, <2>4, <2>5, <2>6 DEF IInv, PublisherIsSafe
<1>5. CASE Fences(w)
  <2> SUFFICES ASSUME NEW v \in Workers, worker'[v].pc = "publish", Home[v] \notin cut'
               PROVE  /\ lease'.fence /\ lease'.by = Home[v] /\ lease'.sha = file'[Home[v]]
                      /\ silent'[Home[v]] /\ heart'[v].read # lease'.sha
    BY DEF PublisherIsSafe
  <2>1. CASE v = w
    <3>1. heart[w].read \in Nat /\ heart[w].read <= last /\ last \in Nat
      BY Fields DEF IInv, CommitsAreMade
    <3>2. heart'[w].read # last + 1
      BY <1>5, <3>1 DEF Fences, HeartFollows
    <3>3. QED  BY <1>5, <2>1, <3>2 DEF Fences, Becomes
  <2>2. CASE v # w
    <3>1. worker[v].pc = "publish" /\ Home[v] \notin cut /\ Works(v) /\ Works(w)
      BY <1>5, <2>2 DEF Fences, OnlyWorker, FilesFollow, Works
    <3>2. Home[w] = Home[v]
      BY <1>5, <3>1, OfPublisher, Fields DEF Fences, IInv, Knows
    <3>3. QED  BY <2>2, <3>1, <3>2, OneWorks DEF IInv
  <2>3. QED  BY <2>1, <2>2
<1>6. QED  BY <1>1, <1>2, <1>3, <1>4, <1>5 DEF StepOfWorker

LEMMA PublisherTickStep ==
  ASSUME IInv, NEW c \in Clones, StepOfTick(c)
  PROVE  PublisherIsSafe'
<1>1. CASE TickGoes(c)
  <2> SUFFICES ASSUME NEW v \in Workers, worker[v].pc = "publish", Home[v] \notin cut
               PROVE  /\ lease'.fence /\ lease'.by = Home[v] /\ lease'.sha = file'[Home[v]]
                      /\ silent'[Home[v]] /\ heart'[v].read # lease'.sha
    BY <1>1 DEF TickGoes, PublisherIsSafe
  <2>1. Alone(c) => c # Home[v]
    BY DEF Alone, Works
  <2>2. lease' = lease
    <3>1. ASSUME tick[c].pc = "release" /\ lease.sha = file[c]
          PROVE  FALSE
      <4>1. c = Home[v]
        BY <3>1, OfPublisher DEF Knows
      <4>2. QED  BY <2>1, <3>1, <4>1 DEF IInv, TickIsAlone
    <3>2. ASSUME tick[c].pc = "take" /\ tick[c].sha = lease.sha
          PROVE  FALSE
      BY <3>2 DEF IInv, TakesTheUnfenced, PublisherIsSafe
    <3>3. QED  BY <1>1, <3>1, <3>2 DEF TickGoes, Deletes
  <2>3. file'[Home[v]] = file[Home[v]] /\ silent'[Home[v]] = silent[Home[v]]
    BY <1>1, <2>1, Fields DEF TickGoes, OnlyFile, OnlySilent, IInv
  <2>4. QED  BY <1>1, <2>2, <2>3 DEF TickGoes, IInv, PublisherIsSafe
<1>2. CASE Claims(c)
  BY <1>2, Fields
  DEF Claims, OnlyFile, OnlyTick, Alone, Works, IInv, PublisherIsSafe, WorkerHasFile,
      KnownWorker, TickIsAlone, CommitsAreMade, RenewedIsNewer, TakesTheUnfenced
<1>3. CASE Pushes(c)
  BY <1>3, Fields
  DEF Pushes, Becomes, OnlyTick, OnlyFile, Alone, Works, IInv, PublisherIsSafe, WorkerHasFile,
      KnownWorker, TickIsAlone, CommitsAreMade, RenewedIsNewer, TakesTheUnfenced
<1>4. ASSUME NEW w \in Workers, Starts(c, w)
      PROVE  PublisherIsSafe'
  BY <1>4, Fields
  DEF Starts, Works, Alone, OnlyWorker, OnlyTick, OnlyPid, OnlySilent, IInv, PublisherIsSafe,
      WorkerHasFile, KnownWorker, TickIsAlone, CommitsAreMade, RenewedIsNewer,
      TakesTheUnfenced
<1>5. QED  BY <1>1, <1>2, <1>3, <1>4 DEF StepOfTick

LEMMA ApartOutside ==
  ASSUME IInv, Outside
  PROVE  NamesApart'
  BY Fields DEF Outside, NamesApart, Works, Alone, IInv, Knows, CommitsAreMade

LEMMA ApartWorkerStep ==
  ASSUME IInv, NEW w \in Workers, StepOfWorker(w)
  PROVE  NamesApart'
<1>1. CASE HeartGoes(w)
  BY <1>1, Fields DEF HeartGoes, Works, OnlyHeart, IInv, NamesApart, Knows, CommitsAreMade
<1>2. CASE Renews(w)
  BY <1>2, Fields DEF Renews, Works, Becomes, OnlyHeart, IInv, NamesApart, Knows, CommitsAreMade
<1>3. CASE Remembers(w)
  BY <1>3, Fields
  DEF Remembers, Works, OnlyFile, OnlyHeart, IInv, NamesApart, Knows, CommitsAreMade
<1>4. CASE WorkerGoes(w)
  BY <1>4, Fields
  DEF WorkerGoes, Works, OnlyWorker, HeartFollows, OnlyHeart, FilesFollow, OnlyPid,
      OnlySilent, Ends, Deletes, Becomes, OnlyFile, WorkerPc, IInv, NamesApart, Knows,
      CommitsAreMade
<1>5. CASE Fences(w)
  BY <1>5, Fields
  DEF Fences, Works, Becomes, OnlyWorker, HeartFollows, OnlyHeart, FilesFollow, OnlyPid,
      OnlySilent, Ends, OnlyFile, IInv, NamesApart, Knows, CommitsAreMade
<1>6. QED  BY <1>1, <1>2, <1>3, <1>4, <1>5 DEF StepOfWorker

LEMMA ApartTickStep ==
  ASSUME IInv, NEW c \in Clones, StepOfTick(c)
  PROVE  NamesApart'
<1>1. CASE TickGoes(c)
  BY <1>1, Fields
  DEF TickGoes, OnlyTick, TickMay, Quiet, Alone, Deletes, Becomes, OnlyFile, OnlySilent,
      Works, IInv, NamesApart, Knows, CommitsAreMade
<1>2. CASE Claims(c)
  BY <1>2, Fields
  DEF Claims, OnlyFile, OnlyTick, Alone, Works, IInv, NamesApart, Knows, CommitsAreMade
<1>3. CASE Pushes(c)
  BY <1>3, Fields, ConstantsAssumption
  DEF Pushes, Becomes, OnlyTick, OnlyFile, IInv, NamesApart, Knows, PushIsFresh
<1>4. ASSUME NEW w \in Workers, Starts(c, w)
      PROVE  NamesApart'
  BY <1>4, Fields
  DEF Starts, Works, Alone, OnlyWorker, OnlyTick, OnlyPid, OnlySilent, IInv, NamesApart,
      Knows, CommitsAreMade
<1>5. QED  BY <1>1, <1>2, <1>3, <1>4 DEF StepOfTick

LEMMA TypeOutside ==
  ASSUME IInv, Outside
  PROVE  TypeOK'
  BY Fields DEF Outside, TypeOK, Works, Alone, IInv, Counted

LEMMA TypeWorkerStep ==
  ASSUME IInv, NEW w \in Workers, StepOfWorker(w)
  PROVE  TypeOK'
<1>1. CASE HeartGoes(w)
  BY <1>1, Fields DEF HeartGoes, Works, OnlyHeart, IInv, TypeOK, Counted
<1>2. CASE Renews(w)
  BY <1>2, Fields DEF Renews, Works, Becomes, OnlyHeart, IInv, TypeOK, Counted
<1>3. CASE Remembers(w)
  BY <1>3, Fields DEF Remembers, Works, OnlyFile, OnlyHeart, IInv, TypeOK, Counted
<1>4. CASE WorkerGoes(w)
  BY <1>4, Fields
  DEF WorkerGoes, Works, OnlyWorker, HeartFollows, OnlyHeart, FilesFollow, OnlyPid,
      OnlySilent, Ends, Deletes, Becomes, OnlyFile, WorkerPc, IInv, TypeOK, Counted
<1>5. CASE Fences(w)
  BY <1>5, Fields
  DEF Fences, Works, Becomes, OnlyWorker, HeartFollows, OnlyHeart, FilesFollow, OnlyPid,
      OnlySilent, Ends, OnlyFile, IInv, TypeOK, Counted
<1>6. QED  BY <1>1, <1>2, <1>3, <1>4, <1>5 DEF StepOfWorker

LEMMA TypeTickStep ==
  ASSUME IInv, NEW c \in Clones, StepOfTick(c)
  PROVE  TypeOK'
<1>1. CASE TickGoes(c)
  BY <1>1, Fields
  DEF TickGoes, OnlyTick, TickMay, Quiet, Alone, Deletes, Becomes, OnlyFile, OnlySilent,
      Works, IInv, TypeOK, Counted
<1>2. CASE Claims(c)
  BY <1>2, Fields DEF Claims, OnlyFile, OnlyTick, Alone, Works, IInv, TypeOK, Counted
<1>3. CASE Pushes(c)
  BY <1>3, Fields DEF Pushes, Becomes, OnlyTick, OnlyFile, Alone, Works, IInv, TypeOK, Counted
<1>4. ASSUME NEW w \in Workers, Starts(c, w)
      PROVE  TypeOK'
  BY <1>4, Fields
  DEF Starts, Works, Alone, OnlyWorker, OnlyTick, OnlyPid, OnlySilent, IInv, TypeOK, Counted
<1>5. QED  BY <1>1, <1>2, <1>3, <1>4 DEF StepOfTick

-----------------------------------------------------------------------------
(* What the helpers of the actions do to the clone or worker they are given. *)

LEMMA PushResult ==
  ASSUME TypeOK, NEW expected, NEW new, NEW accepted \in BOOLEAN, Push(expected, new, accepted)
  PROVE  /\ faults' \in Nat
         /\ lease' = lease \/ (lease.sha = expected /\ lease' = new)
         /\ accepted => lease.sha = expected /\ lease' = new
  BY DEF Push, Fault, TypeOK

LEMMA LeaseResult ==
  ASSUME NEW s \in Nat, NEW c \in Clones, NEW fence \in BOOLEAN
  PROVE  /\ lease' = Lease(s, c, fence) => Becomes(s, c, fence)
         /\ lease' = NoLease => Becomes(0, None, FALSE)
<1>1. Lease(s, c, fence) \in LeaseType
  BY DEF Lease, LeaseType
<1>2. NoLease \in LeaseType
  BY DEF NoLease, LeaseType
<1>3. ASSUME lease' = Lease(s, c, fence)
      PROVE  Becomes(s, c, fence)
  BY <1>1, <1>3 DEF Lease, Becomes
<1>4. ASSUME lease' = NoLease
      PROVE  Becomes(0, None, FALSE)
  BY <1>2, <1>4 DEF NoLease, Becomes
<1>5. QED  BY <1>3, <1>4

LEMMA GotoResult ==
  ASSUME TypeOK, NEW w \in Workers, NEW pc \in WorkerPc, Goto(w, pc)
  PROVE  OnlyWorker(w) /\ worker'[w].pc = pc
<1>1. [Gone EXCEPT !.pc = pc] \in WorkerType
  BY DEF Gone, WorkerType
<1>2. QED  BY <1>1 DEF Goto, Gone, OnlyWorker, TypeOK

LEMMA RetryResult ==
  ASSUME TypeOK, NEW w \in Workers, NEW pc \in WorkerPc, NEW onwards \in WorkerPc,
         Retry(w, pc, onwards)
  PROVE  /\ OnlyWorker(w) /\ worker'[w].pc \in {pc, onwards}
         /\ worker[w].pc = pc /\ onwards # pc => worker'[w] # worker[w]
<1>1. CASE worker[w].tries + 1 < Attempts[pc]
  <2>1. worker' = [worker EXCEPT ![w] = [worker[w] EXCEPT !.pc = pc, !.tries = worker[w].tries + 1]]
    BY <1>1 DEF Retry, TypeOK
  <2>2. worker[w] \in WorkerType /\ worker[w].tries \in Nat /\ worker[w].tries + 1 \in Nat
    BY DEF TypeOK, WorkerType
  <2>3. [worker[w] EXCEPT !.pc = pc, !.tries = worker[w].tries + 1] \in WorkerType
    BY <2>2 DEF WorkerType
  <2>4. [worker[w] EXCEPT !.pc = pc, !.tries = worker[w].tries + 1].pc = pc
        /\ [worker[w] EXCEPT !.pc = pc, !.tries = worker[w].tries + 1].tries = worker[w].tries + 1
    BY <2>2 DEF WorkerType
  <2>5. OnlyWorker(w) /\ worker'[w].pc = pc /\ worker'[w].tries = worker[w].tries + 1
    BY <2>1, <2>3, <2>4 DEF OnlyWorker, TypeOK
  <2>6. QED  BY <2>2, <2>5
<1>2. CASE ~(worker[w].tries + 1 < Attempts[pc])
  BY <1>2, GotoResult DEF Retry
<1>3. QED  BY <1>1, <1>2

LEMMA VanishResult ==
  ASSUME TypeOK, NEW w \in Workers, Vanish(w)
  PROVE  OnlyWorker(w) /\ worker'[w].pc = "gone" /\ HeartFollows(w)
<1>1. Still \in HeartType
  BY DEF Still, HeartType
<1>2. OnlyWorker(w) /\ worker'[w].pc = "gone"
  BY GotoResult DEF Vanish, WorkerPc
<1>3. heart' = [heart EXCEPT ![w] = Still]
  BY DEF Vanish
<1>4. QED  BY <1>1, <1>2, <1>3 DEF Still, HeartFollows, OnlyHeart, TypeOK

\* The files of a step that does not touch them, or makes the marker.
LEMMA FilesKept ==
  ASSUME TypeOK, NEW w \in Workers, UNCHANGED <<pid, cut>>,
         silent' = silent \/ silent' = [silent EXCEPT ![Home[w]] = TRUE]
  PROVE  FilesFollow(w)
  BY Fields DEF FilesFollow, OnlyPid, OnlySilent, TypeOK

LEMMA EndResult ==
  ASSUME TypeOK, NEW w \in Workers, End(w)
  PROVE  OnlyWorker(w) /\ worker'[w].pc = "gone" /\ HeartFollows(w) /\ FilesFollow(w)
<1>1. OnlyWorker(w) /\ worker'[w].pc = "gone" /\ HeartFollows(w)
  BY VanishResult DEF End
<1>2. /\ pid' = [pid EXCEPT ![Home[w]] = None] /\ silent' = [silent EXCEPT ![Home[w]] = FALSE]
      /\ cut' = IF pid[Home[w]] \in {None, w} THEN cut ELSE cut \union {Home[w]}
  BY DEF End
<1>3. Ends(w)
  BY <1>1, <1>2 DEF Ends
<1>4. QED  BY <1>1, <1>2, <1>3, Fields DEF FilesFollow, OnlyPid, OnlySilent, TypeOK

LEMMA DropsResult ==
  ASSUME TypeOK, NEW w \in Workers, Drops(w),
         silent' = silent \/ silent' = [silent EXCEPT ![Home[w]] = TRUE]
  PROVE  OnlyWorker(w) /\ worker'[w].pc = "gone" /\ HeartFollows(w) /\ FilesFollow(w)
<1>1. OnlyWorker(w) /\ worker'[w].pc = "gone" /\ HeartFollows(w)
  BY VanishResult DEF Drops
<1>2. CASE pid[Home[w]] = w
  <2>1. pid' = [pid EXCEPT ![Home[w]] = None] /\ cut' = cut
    BY <1>2 DEF Drops, TypeOK
  <2>2. Ends(w)
    BY <1>1, <1>2 DEF Ends
  <2>3. QED  BY <1>1, <2>1, <2>2, Fields DEF FilesFollow, OnlyPid, OnlySilent, TypeOK
<1>3. CASE pid[Home[w]] # w
  <2>1. pid' = pid /\ cut' = cut
    BY <1>3 DEF Drops, TypeOK
  <2>2. QED  BY <1>1, <2>1, FilesKept
<1>4. QED  BY <1>2, <1>3

LEMMA NoFileResult ==
  ASSUME TypeOK, NEW c \in Clones, NoFile(c)
  PROVE  OnlyFile(c) /\ file'[c] = 0
  BY DEF NoFile, OnlyFile, TypeOK

LEMMA AimResult ==
  ASSUME TypeOK, NEW c \in Clones, NEW pc \in TickPc, NEW goal \in Goal, NEW s \in Nat,
         Aim(c, pc, goal, s)
  PROVE  OnlyTick(c) /\ tick'[c].pc = pc /\ tick'[c].goal = goal /\ tick'[c].sha = s
<1>1. [Idle EXCEPT !.pc = pc, !.goal = goal, !.sha = s] \in TickType
  BY DEF Idle, TickType
<1>2. QED  BY <1>1 DEF Aim, Idle, OnlyTick, TypeOK

LEMMA GoResult ==
  ASSUME TypeOK, NEW c \in Clones, NEW pc \in TickPc, Go(c, pc)
  PROVE  OnlyTick(c) /\ tick'[c].pc = pc /\ tick'[c].sha = 0
<1>1. [Idle EXCEPT !.pc = pc] \in TickType
  BY DEF Idle, TickType, Goal
<1>2. QED  BY <1>1 DEF Go, Idle, OnlyTick, TypeOK

LEMMA RefusedResult ==
  ASSUME TypeOK, NEW c \in Clones, Refused(c)
  PROVE  OnlyTick(c) /\ tick'[c].pc = "contend" /\ tick'[c].sha = 0
<1>1. tick[c] \in TickType
  BY DEF TypeOK
<1>2. [tick[c] EXCEPT !.pc = "contend", !.sha = 0] \in TickType
  BY <1>1 DEF TickType, TickPc
<1>3. tick' = [tick EXCEPT ![c] = [tick[c] EXCEPT !.pc = "contend", !.sha = 0]]
  BY DEF Refused, TypeOK
<1>4. QED  BY <1>1, <1>2, <1>3 DEF OnlyTick, TickType, TypeOK

\* The marker is removed only by a tick that recovers or cleans up.
LEMMA TidiedResult ==
  ASSUME TypeOK, NEW c \in Clones, Tidied(c)
  PROVE  /\ OnlySilent(c)
         /\ silent'[c] = silent[c] \/ tick[c].goal \in {"recover", "closed"}
<1>1. silent[c] \in BOOLEAN
  BY DEF TypeOK
<1>2. PICK b \in BOOLEAN :
        silent' = [silent EXCEPT ![c] = b] /\ (b = silent[c] \/ tick[c].goal \in {"recover", "closed"})
  BY <1>1 DEF Tidied, TypeOK
<1>3. QED  BY <1>2 DEF OnlySilent, TypeOK

\* A worker's step that leaves its heartbeat alone.
LEMMA HeartKept ==
  ASSUME TypeOK, NEW w \in Workers, UNCHANGED heart, worker'[w].pc \notin {"gone", "lingers"}
  PROVE  HeartFollows(w)
  BY DEF HeartFollows, OnlyHeart, TypeOK

\* pidFileAlive tells a clone without a worker that works, as long as it is not cut.
LEMMA NotAlive ==
  ASSUME IInv, NEW c \in Clones, ~Alive(c)
  PROVE  Alone(c)
<1>1. SUFFICES ASSUME c \notin cut, NEW w \in Workers, Home[w] = c, Works(w)
               PROVE  FALSE
  BY DEF Alone
<1>2. pid[c] = w /\ w # None
  BY <1>1, Fields DEF IInv, KnownWorker
<1>3. QED  BY <1>2 DEF Alive

-----------------------------------------------------------------------------
(* Every action is such a step.                                            *)

LEMMA OutsideSteps ==
  ASSUME TypeOK, Age \/ Close
  PROVE  Outside
<1>1. CASE Age
  <2>1. [lease EXCEPT !.stale = TRUE] \in LeaseType
    BY DEF TypeOK, LeaseType
  <2>2. QED  BY <1>1, <2>1 DEF Age, Outside, Counted, issue, clone, TypeOK, LeaseType
<1>2. CASE Close
  <2>1. lease' = lease /\ lease \in LeaseType /\ open' = FALSE /\ requeues' = requeues
        /\ faults' = faults + 1 /\ UNCHANGED <<last, file, silent, pid, worker, heart, tick, cut>>
    BY <1>2 DEF Close, Fault, clone, TypeOK
  <2>2. Counted
    BY <2>1 DEF Counted, TypeOK
  <2>3. QED  BY <2>1, <2>2 DEF Outside
<1>3. QED  BY <1>1, <1>2

LEMMA BeatGoes ==
  ASSUME TypeOK, NEW w \in Workers, Beat(w)
  PROVE  HeartGoes(w)
<1>0. /\ Works(w) /\ ~silent[Home[w]] /\ ~Beating(w)
      /\ UNCHANGED <<lease, last, file, silent, pid, worker, tick, cut, open>> /\ Counted
  BY DEF Beat, clone, issue, Counted, TypeOK
<1>1. heart[w] \in HeartType /\ file[Home[w]] \in Nat
  BY Fields DEF TypeOK
<1>2. heart[w].read = 0
  BY <1>0, <1>1 DEF Beating, HeartType
<1>3. [heart[w] EXCEPT !.misses = heart[w].misses + 1] \in HeartType
      /\ [heart[w] EXCEPT !.read = file[Home[w]]] \in HeartType
  BY <1>1 DEF HeartType
<1>4. CASE file[Home[w]] = 0
  <2>1. heart' = [heart EXCEPT ![w] = [heart[w] EXCEPT !.misses = heart[w].misses + 1]]
    BY <1>4 DEF Beat
  <2>2. QED  BY <1>0, <1>1, <1>2, <1>3, <2>1 DEF HeartGoes, OnlyHeart, TypeOK, HeartType
<1>5. CASE file[Home[w]] # 0
  <2>1. heart' = [heart EXCEPT ![w] = [heart[w] EXCEPT !.read = file[Home[w]]]]
    BY <1>5 DEF Beat
  <2>2. QED  BY <1>0, <1>1, <1>3, <2>1 DEF HeartGoes, OnlyHeart, TypeOK, HeartType
<1>6. QED  BY <1>4, <1>5

LEMMA RememberGoes ==
  ASSUME IInv, NEW w \in Workers, Remember(w)
  PROVE  Remembers(w)
<1>0. TypeOK /\ Works(w) /\ heart[w].sha # 0
  BY DEF IInv, WorkerHasFile, Remember
<1>1. Still \in HeartType /\ heart[w].sha \in Nat /\ Home[w] \in Clones
  BY <1>0, Fields DEF Still, HeartType
<1>2. OnlyHeart(w) /\ heart'[w].read = 0 /\ heart'[w].sha = 0
  BY <1>0, <1>1 DEF Remember, OnlyHeart, Still, TypeOK
<1>3. OnlyFile(Home[w]) /\ file'[Home[w]] = heart[w].sha
  BY <1>0, <1>1 DEF Remember, OnlyFile, TypeOK
<1>4. QED  BY <1>0, <1>2, <1>3 DEF Remember, Remembers, Counted, issue, TypeOK

LEMMA RenewGoes ==
  ASSUME IInv, NEW w \in Workers, Renew(w)
  PROVE  HeartGoes(w) \/ Renews(w)
<1>0. TypeOK /\ Works(w)
  BY DEF IInv, WorkerHasFile, Renew
<1>1. /\ heart[w] \in HeartType /\ heart[w].misses + 1 \in Nat /\ Home[w] \in Clones
      /\ last + 1 \in Nat /\ lease.sha <= last /\ lease.sha \in Nat
  BY <1>0, Fields DEF IInv, CommitsAreMade, TypeOK, HeartType
<1>2. PICK accepted \in BOOLEAN :
        /\ Push(heart[w].read, Lease(last + 1, Home[w], FALSE), accepted)
        /\ IF ~accepted /\ worker[w].pc = "work"
           THEN heart' = [heart EXCEPT ![w].read = 0, ![w].misses = @ + 1]
           ELSE heart' = [heart EXCEPT ![w] = [Still EXCEPT !.sha = IF accepted THEN last + 1 ELSE 0]]
        /\ last' = IF lease' = lease THEN last ELSE last + 1
  BY DEF Renew
<1>3. /\ faults' \in Nat
      /\ lease' = lease \/ (lease.sha = heart[w].read /\ lease' = Lease(last + 1, Home[w], FALSE))
      /\ accepted => lease.sha = heart[w].read /\ lease' = Lease(last + 1, Home[w], FALSE)
  BY <1>0, <1>2, PushResult
<1>4. /\ OnlyHeart(w) /\ heart'[w].read = 0
      /\ heart'[w].sha \in {0, heart[w].sha} \/ (accepted /\ heart'[w].sha = last + 1)
  <2>1. CASE ~accepted /\ worker[w].pc = "work"
    <3>1. [heart[w] EXCEPT !.read = 0, !.misses = heart[w].misses + 1] \in HeartType
      BY <1>1 DEF HeartType
    <3>2. heart' = [heart EXCEPT ![w] = [heart[w] EXCEPT !.read = 0, !.misses = heart[w].misses + 1]]
      BY <1>2, <2>1
    <3>3. QED  BY <1>0, <1>1, <3>1, <3>2 DEF OnlyHeart, TypeOK, HeartType
  <2>2. CASE ~(~accepted /\ worker[w].pc = "work")
    <3> DEFINE new == [Still EXCEPT !.sha = IF accepted THEN last + 1 ELSE 0]
    <3>1. new \in HeartType /\ new.read = 0 /\ new.sha = (IF accepted THEN last + 1 ELSE 0)
      BY <1>1 DEF Still, HeartType
    <3>2. heart' = [heart EXCEPT ![w] = new]
      BY <1>2, <2>2
    <3> HIDE DEF new
    <3>3. QED  BY <1>0, <3>1, <3>2 DEF OnlyHeart, TypeOK
  <2>3. QED  BY <2>1, <2>2
<1>5. /\ heart[w].read # 0 /\ Counted
      /\ UNCHANGED <<file, silent, pid, worker, tick, cut, open>>
  BY <1>0, <1>3 DEF Renew, Counted, issue, clone, TypeOK
<1>6. CASE lease' = lease
  <2>1. ~accepted
    <3>1. ASSUME lease' = Lease(last + 1, Home[w], FALSE)
          PROVE  lease'.sha = last + 1
      BY <3>1 DEF Lease
    <3>2. lease'.sha # last + 1
      BY <1>1, <1>6, Fields, <1>0
    <3>3. QED  BY <1>3, <3>1, <3>2
  <2>2. QED  BY <1>0, <1>2, <1>4, <1>5, <1>6, <2>1 DEF HeartGoes
<1>7. CASE lease' # lease
  BY <1>0, <1>1, <1>2, <1>3, <1>4, <1>5, <1>7, LeaseResult DEF Renews
<1>8. QED  BY <1>6, <1>7

\* A worker that goes on, its claim and its files as they are.
LEMMA WorkerOnly ==
  ASSUME TypeOK, NEW w \in Workers, Works(w), OnlyWorker(w),
         worker'[w].pc \notin {"publish", "gone", "lingers"}, Counted,
         UNCHANGED <<lease, last, clone, heart, tick, cut, open>>
  PROVE  WorkerGoes(w)
<1>1. HeartFollows(w) /\ FilesFollow(w)
  BY HeartKept, FilesKept DEF clone
<1>2. QED  BY <1>1 DEF WorkerGoes, Deletes, clone

LEMMA WorkGoes ==
  ASSUME TypeOK, NEW w \in Workers, Work(w)
  PROVE  WorkerGoes(w)
<1>1. PICK pc \in {"verify", "failed", "fatal", "release"} : Goto(w, pc)
  BY DEF Work
<1>2. OnlyWorker(w) /\ worker'[w].pc = pc
  BY <1>1, GotoResult DEF WorkerPc
<1>3. heart' = [heart EXCEPT ![w] = [heart[w] EXCEPT !.misses = 0]] /\ heart[w] \in HeartType
  BY DEF Work, TypeOK
<1>4. [heart[w] EXCEPT !.misses = 0] \in HeartType
  BY <1>3 DEF HeartType
<1>5. HeartFollows(w)
  BY <1>1, <1>2, <1>3, <1>4 DEF HeartFollows, OnlyHeart, TypeOK, HeartType
<1>6. FilesFollow(w)
  BY FilesKept DEF Work, clone
<1>7. QED  BY <1>1, <1>2, <1>5, <1>6 DEF Work, WorkerGoes, Deletes, Works, Counted, issue, clone, TypeOK

LEMMA VerifyGoes ==
  ASSUME TypeOK, NEW w \in Workers, Verify(w)
  PROVE  WorkerGoes(w)
<1>1. Goto(w, "fence") \/ Goto(w, "failed") \/ Retry(w, "verify", "failed")
  BY DEF Verify
<1>2. OnlyWorker(w) /\ worker'[w].pc \in {"fence", "failed", "verify"}
  BY <1>1, GotoResult, RetryResult DEF WorkerPc
<1>3. Counted
  BY DEF Verify, Fault, Counted, issue, TypeOK
<1>4. QED  BY <1>2, <1>3, WorkerOnly DEF Verify, Works, issue

LEMMA PublishGoes ==
  ASSUME TypeOK, NEW w \in Workers, Publish(w)
  PROVE  WorkerGoes(w)
<1>1. PICK pc \in {"failed", "release"} : Goto(w, pc)
  BY DEF Publish
<1>2. OnlyWorker(w) /\ worker'[w].pc = pc
  BY <1>1, GotoResult DEF WorkerPc
<1>3. QED  BY <1>1, <1>2, WorkerOnly DEF Publish, Works, Counted, TypeOK

LEMMA FailureGoes ==
  ASSUME TypeOK, NEW w \in Workers, HandleFailure(w)
  PROVE  WorkerGoes(w)
<1>1. OnlyWorker(w) /\ worker'[w].pc = "release"
  BY GotoResult DEF HandleFailure, WorkerPc
<1>2. Counted
  BY DEF HandleFailure, Requeued, Block, Fault, Counted, TypeOK
<1>3. QED  BY <1>1, <1>2, WorkerOnly DEF HandleFailure, Works

LEMMA LingerGoes ==
  ASSUME TypeOK, NEW w \in Workers, Linger(w)
  PROVE  WorkerGoes(w)
<1>1. OnlyWorker(w) /\ worker'[w].pc = "gone" /\ HeartFollows(w) /\ FilesFollow(w)
  BY EndResult DEF Linger
<1>2. QED  BY <1>1 DEF Linger, WorkerGoes, Deletes, Counted, issue, TypeOK

LEMMA DieGoes ==
  ASSUME TypeOK, NEW w \in Workers, Die(w)
  PROVE  WorkerGoes(w)
<1>1. OnlyWorker(w) /\ worker'[w].pc = "gone" /\ HeartFollows(w) /\ FilesFollow(w)
  BY DropsResult DEF Die
<1>2. QED  BY <1>1 DEF Die, Fault, WorkerGoes, Deletes, Counted, issue, TypeOK

LEMMA FenceGoes ==
  ASSUME IInv, NEW w \in Workers, Fence(w)
  PROVE  /\ WorkerGoes(w) \/ Fences(w)
         /\ worker'[w] # worker[w]
<1> DEFINE c == Home[w]
<1>0. /\ TypeOK /\ Works(w) /\ worker[w].pc = "fence" /\ c \in Clones
      /\ last + 1 \in Nat /\ lease.sha <= last /\ lease.sha \in Nat /\ file[c] \in Nat
  BY Fields DEF IInv, CommitsAreMade, Fence, Works
<1>1. UNCHANGED <<tick, open, requeues>> /\ silent' = [silent EXCEPT ![c] = TRUE]
  BY DEF Fence, issue
<1>2. CASE /\ file[c] # 0 /\ file[c] = lease.sha /\ last < MaxCommits
           /\ lease' = FenceCommit(last + 1, c) /\ last' = last + 1
           /\ file' = [file EXCEPT ![c] = last + 1] /\ Goto(w, "publish")
           /\ UNCHANGED <<heart, pid, cut, faults>>
  <2>1. Becomes(last + 1, c, TRUE)
    BY <1>0, <1>2, LeaseResult DEF FenceCommit
  <2>2. OnlyWorker(w) /\ worker'[w].pc = "publish"
    BY <1>0, <1>2, GotoResult DEF WorkerPc
  <2>3. OnlyFile(c) /\ file'[c] = last + 1 /\ silent'[c]
    BY <1>0, <1>1, <1>2 DEF OnlyFile, TypeOK
  <2>4. Counted /\ HeartFollows(w) /\ FilesFollow(w)
    BY <1>0, <1>1, <1>2, <2>2, HeartKept, FilesKept DEF Counted, TypeOK
  <2>5. QED  BY <1>0, <1>1, <1>2, <2>1, <2>2, <2>3, <2>4 DEF Fences
<1>3. CASE /\ file[c] # 0 /\ file[c] = lease.sha /\ last < MaxCommits
           /\ lease' = FenceCommit(last + 1, c) /\ last' = last + 1
           /\ Fault /\ Drops(w) /\ UNCHANGED file
  <2>1. Becomes(last + 1, c, TRUE)
    BY <1>0, <1>3, LeaseResult DEF FenceCommit
  <2>2. OnlyWorker(w) /\ worker'[w].pc = "gone" /\ HeartFollows(w) /\ FilesFollow(w)
    BY <1>0, <1>1, <1>3, DropsResult
  <2>3. Counted
    BY <1>0, <1>1, <1>3 DEF Counted, Fault, TypeOK
  <2>4. QED  BY <1>0, <1>1, <1>3, <2>1, <2>2, <2>3 DEF Fences
<1>4. CASE /\ IF file[c] = 0 \/ last = MaxCommits THEN UNCHANGED <<lease, faults>>
              ELSE Push(file[c], FenceCommit(last + 1, c), FALSE)
           /\ last' = IF lease' = lease THEN last ELSE last + 1
           /\ Retry(w, "fence", "failed")
           /\ UNCHANGED <<file, heart, pid, cut>>
  <2>1. /\ faults' \in Nat
        /\ lease' = lease \/ (/\ lease.sha = file[c] /\ file[c] # 0
                              /\ lease' = FenceCommit(last + 1, c))
    BY <1>0, <1>4, PushResult DEF TypeOK
  <2>2. /\ OnlyWorker(w) /\ worker'[w].pc \in {"fence", "failed"}
        /\ worker'[w] # worker[w]
    BY <1>0, <1>4, RetryResult DEF WorkerPc
  <2>3. Counted /\ HeartFollows(w) /\ FilesFollow(w)
    BY <1>0, <1>1, <1>4, <2>1, <2>2, HeartKept, FilesKept DEF Counted, TypeOK
  <2>4. CASE lease' = lease
    BY <1>0, <1>1, <1>4, <2>2, <2>3, <2>4 DEF WorkerGoes, Deletes
  <2>5. CASE lease' # lease
    <3>1. Becomes(last + 1, c, TRUE)
      BY <1>0, <2>1, <2>5, LeaseResult DEF FenceCommit
    <3>2. QED  BY <1>0, <1>1, <1>4, <2>1, <2>2, <2>3, <2>5, <3>1 DEF Fences
  <2>6. QED  BY <2>2, <2>4, <2>5
<1>5. QED  BY <1>2, <1>3, <1>4 DEF Fence

\* After its work a worker ends or lingers.
LEMMA LeavesResult ==
  ASSUME TypeOK, NEW w \in Workers, Leaves(w)
  PROVE  /\ OnlyWorker(w) /\ worker'[w].pc \in {"gone", "lingers"}
         /\ HeartFollows(w) /\ FilesFollow(w) /\ faults' \in Nat
<1>1. CASE End(w) /\ UNCHANGED faults
  BY <1>1, EndResult DEF TypeOK
<1>2. CASE /\ Fault /\ ~Beating(w) /\ Goto(w, "lingers")
           /\ UNCHANGED <<heart, pid, silent, cut>>
  <2>1. OnlyWorker(w) /\ worker'[w].pc = "lingers"
    BY <1>2, GotoResult DEF WorkerPc
  <2>2. heart[w].read = 0 /\ heart[w].sha = 0
    BY <1>2 DEF Beating
  <2>3. HeartFollows(w) /\ FilesFollow(w)
    BY <1>2, <2>2, FilesKept DEF HeartFollows, OnlyHeart, TypeOK
  <2>4. faults' \in Nat
    BY <1>2 DEF Fault, TypeOK
  <2>5. QED  BY <2>1, <2>3, <2>4
<1>3. QED  BY <1>1, <1>2 DEF Leaves

LEMMA ReleaseGoes ==
  ASSUME TypeOK, NEW w \in Workers, Release(w)
  PROVE  WorkerGoes(w) /\ worker'[w] # worker[w]
<1> DEFINE c == Home[w]
<1>0. /\ worker[w].pc = "release" /\ Works(w) /\ UNCHANGED <<last, tick, open, requeues>>
      /\ c \in Clones /\ file[c] \in Nat /\ requeues \in Nat
  BY Fields DEF Release, Works, issue, TypeOK
<1>1. CASE file[c] = 0 /\ Leaves(w) /\ UNCHANGED <<lease, file>>
  <2>1. /\ OnlyWorker(w) /\ worker'[w].pc \in {"gone", "lingers"}
        /\ HeartFollows(w) /\ FilesFollow(w) /\ faults' \in Nat
    BY <1>1, LeavesResult
  <2>2. QED  BY <1>0, <1>1, <2>1 DEF WorkerGoes, Deletes, Counted
<1>2. CASE /\ file[c] # 0 /\ file[c] = lease.sha /\ lease' = NoLease
           /\ \/ file' = [file EXCEPT ![c] = 0] /\ Leaves(w)
              \/ Fault /\ Drops(w) /\ UNCHANGED <<file, silent>>
  <2>1. Deletes(c, "release")
    BY <1>0, <1>2, LeaseResult DEF Deletes
  <2>2. /\ OnlyWorker(w) /\ worker'[w].pc \in {"gone", "lingers"}
        /\ HeartFollows(w) /\ FilesFollow(w) /\ faults' \in Nat
    <3>1. CASE Leaves(w)
      BY <3>1, LeavesResult
    <3>2. CASE Fault /\ Drops(w) /\ UNCHANGED silent
      BY <3>2, DropsResult DEF Fault, TypeOK
    <3>3. QED  BY <1>2, <3>1, <3>2
  <2>3. file' = file \/ (OnlyFile(c) /\ file'[c] = 0)
    BY <1>0, <1>2, NoFileResult DEF NoFile
  <2>4. QED  BY <1>0, <2>1, <2>2, <2>3 DEF WorkerGoes, Counted
<1>3. CASE /\ file[c] # 0 /\ UNCHANGED file
           /\ Push(file[c], NoLease, FALSE) \/ (UNCHANGED lease /\ Leaves(w))
           /\ \/ Retry(w, "release", "release") /\ worker[w].tries + 1 < Attempts["release"]
                 /\ UNCHANGED <<heart, pid, silent, cut>>
              \/ End(w)
              \/ Leaves(w)
  <2>1. faults' \in Nat /\ (lease' = lease \/ (lease.sha = file[c] /\ lease' = NoLease))
    BY <1>3, PushResult, LeavesResult
  <2>2. Deletes(c, "release")
    BY <1>0, <1>3, <2>1, LeaseResult DEF Deletes
  <2>3. Counted
    BY <1>0, <2>1 DEF Counted
  <2>4. /\ OnlyWorker(w) /\ worker'[w].pc \in {"release", "gone", "lingers"}
        /\ HeartFollows(w) /\ FilesFollow(w) /\ worker'[w] # worker[w]
    <3>1. CASE /\ Retry(w, "release", "release") /\ worker[w].tries + 1 < Attempts["release"]
               /\ UNCHANGED <<heart, pid, silent, cut>>
      <4>1. OnlyWorker(w) /\ worker'[w].pc = "release"
        BY <3>1, RetryResult DEF WorkerPc
      <4>2. worker[w] \in WorkerType /\ worker[w].tries \in Nat
        BY DEF TypeOK, WorkerType
      <4>3. worker' = [worker EXCEPT ![w] =
                         [worker[w] EXCEPT !.pc = "release", !.tries = worker[w].tries + 1]]
        BY <3>1 DEF Retry, TypeOK
      <4>4. worker'[w].tries = worker[w].tries + 1
        BY <4>2, <4>3 DEF TypeOK, WorkerType
      <4>5. QED  BY <3>1, <4>1, <4>2, <4>4, HeartKept, FilesKept
    <3>2. CASE End(w)
      BY <1>0, <3>2, EndResult
    <3>3. CASE Leaves(w)
      BY <1>0, <3>3, LeavesResult
    <3>4. QED  BY <1>3, <3>1, <3>2, <3>3
  <2>5. QED  BY <1>0, <1>3, <2>2, <2>3, <2>4 DEF WorkerGoes
<1>4. QED  BY <1>1, <1>2, <1>3 DEF Release

\* A part of a tick that changes neither claims, files nor workers.
LEMMA TickOnly ==
  ASSUME TypeOK, NEW c \in Clones, OnlyTick(c), TickMay(c), Counted,
         UNCHANGED <<lease, last, clone, worker, heart, cut, open>>
  PROVE  TickGoes(c)
  BY DEF TickGoes, Deletes, OnlySilent, clone, TypeOK

\* What the tick does first in a phase that has work.
Enters(c, phase) ==
  CASE phase = "idle" -> Aim(c, "release", "sweep", 0)
    [] phase = "closed" -> Aim(c, "release", "closed", 0)
    [] phase = "remote" -> Aim(c, "compare", "lingering", 0)
    [] phase = "recover" /\ file[c] # 0 -> Aim(c, "release", "recover", 0)
    [] phase = "recover" /\ file[c] = 0 /\ lease.sha = 0 -> Aim(c, "requeue", "expired", 0)
    [] phase = "recover" /\ file[c] = 0 /\ lease.sha # 0 -> Aim(c, "compare", "expired", lease.sha)
    [] phase = "frontier" -> Aim(c, "claim", "none", 0)

LEMMA PhaseGoes ==
  ASSUME IInv, NEW c \in Clones, Phase(c)
  PROVE  TickGoes(c)
<1>0. /\ UNCHANGED <<lease, last, clone, worker, heart, cut, open>> /\ Counted
      /\ TypeOK /\ lease.sha \in Nat
  BY DEF IInv, Phase, Counted, issue, TypeOK, LeaseType
<1>1. PICK i \in DOMAIN Phases :
        \/ \E j \in i..Len(Phases) : HasWork(c, Phases[j]) /\ Enters(c, Phases[j])
        \/ tick' = [tick EXCEPT ![c] = Idle]
  BY DEF Phase, Enters
<1>2. CASE tick' = [tick EXCEPT ![c] = Idle]
  <2>1. Idle \in TickType
    BY DEF Idle, TickType, TickPc, Goal
  <2>2. OnlyTick(c) /\ tick'[c].pc = "idle" /\ tick'[c].sha = 0
    BY <1>0, <1>2, <2>1 DEF OnlyTick, TypeOK, Idle
  <2>3. QED  BY <1>0, <2>2, TickOnly DEF TickMay, Quiet
<1>3. ASSUME NEW phase \in {"idle", "closed", "remote", "recover", "frontier"},
             HasWork(c, phase), Enters(c, phase)
      PROVE  TickGoes(c)
  <2>1. CASE phase = "idle"
    <3>1. Aim(c, "release", "sweep", 0) /\ Alone(c)
      BY <1>3, <2>1, NotAlive DEF HasWork, Enters
    <3>2. OnlyTick(c) /\ tick'[c].pc = "release" /\ tick'[c].goal = "sweep" /\ tick'[c].sha = 0
      BY <1>0, <3>1, AimResult DEF TickPc, Goal
    <3>3. QED  BY <1>0, <3>1, <3>2, TickOnly DEF TickMay
  <2>2. CASE phase = "closed"
    <3>1. Aim(c, "release", "closed", 0) /\ Alone(c)
      BY <1>3, <2>2, NotAlive DEF HasWork, Enters
    <3>2. OnlyTick(c) /\ tick'[c].pc = "release" /\ tick'[c].goal = "closed" /\ tick'[c].sha = 0
      BY <1>0, <3>1, AimResult DEF TickPc, Goal
    <3>3. QED  BY <1>0, <3>1, <3>2, TickOnly DEF TickMay
  <2>3. CASE phase = "remote"
    <3>1. Aim(c, "compare", "lingering", 0) /\ ~open
      BY <1>3, <2>3 DEF HasWork, Enters
    <3>2. OnlyTick(c) /\ tick'[c].pc = "compare" /\ tick'[c].goal = "lingering" /\ tick'[c].sha = 0
      BY <1>0, <3>1, AimResult DEF TickPc, Goal
    <3>3. QED  BY <1>0, <3>1, <3>2, TickOnly DEF TickMay
  <2>4. CASE phase = "recover" /\ file[c] # 0
    <3>1. Aim(c, "release", "recover", 0) /\ Alone(c)
      BY <1>3, <2>4, NotAlive DEF HasWork, Enters
    <3>2. OnlyTick(c) /\ tick'[c].pc = "release" /\ tick'[c].goal = "recover" /\ tick'[c].sha = 0
      BY <1>0, <3>1, AimResult DEF TickPc, Goal
    <3>3. QED  BY <1>0, <3>1, <3>2, TickOnly DEF TickMay
  <2>5. CASE phase = "recover" /\ file[c] = 0 /\ lease.sha = 0
    <3>1. Aim(c, "requeue", "expired", 0)
      BY <1>3, <2>5 DEF Enters
    <3>2. OnlyTick(c) /\ tick'[c].pc = "requeue" /\ tick'[c].sha = 0
      BY <1>0, <3>1, AimResult DEF TickPc, Goal
    <3>3. QED  BY <1>0, <3>2, TickOnly DEF TickMay, Quiet
  <2>6. CASE phase = "recover" /\ file[c] = 0 /\ lease.sha # 0
    <3>1. Aim(c, "compare", "expired", lease.sha) /\ Alone(c) /\ lease.stale
      BY <1>3, <2>6, NotAlive DEF HasWork, Abandoned, Enters
    <3>2. /\ OnlyTick(c) /\ tick'[c].pc = "compare" /\ tick'[c].goal = "expired"
          /\ tick'[c].sha = lease.sha
      BY <1>0, <3>1, AimResult DEF TickPc, Goal
    <3>3. QED  BY <1>0, <2>6, <3>1, <3>2, TickOnly DEF TickMay
  <2>7. CASE phase = "frontier"
    <3>1. Aim(c, "claim", "none", 0)
      BY <1>3, <2>7 DEF Enters
    <3>2. OnlyTick(c) /\ tick'[c].pc = "claim" /\ tick'[c].sha = 0
      BY <1>0, <3>1, AimResult DEF TickPc, Goal
    <3>3. QED  BY <1>0, <3>2, TickOnly DEF TickMay, Quiet
  <2>8. QED  BY <1>3, <2>1, <2>2, <2>3, <2>4, <2>5, <2>6, <2>7
<1>4. CASE \E j \in i..Len(Phases) : HasWork(c, Phases[j]) /\ Enters(c, Phases[j])
  <2>1. PICK j \in i..Len(Phases) : HasWork(c, Phases[j]) /\ Enters(c, Phases[j])
    BY <1>4
  <2>2. Phases[j] \in {"idle", "closed", "remote", "recover", "frontier"}
    <3>1. j \in {1, 2, 3, 4, 5}
      BY <1>1 DEF Phases
    <3>2. QED  BY <3>1 DEF Phases
  <2>3. QED  BY <1>3, <2>1, <2>2
<1>5. QED  BY <1>1, <1>2, <1>4

\* Where a tick goes on is a phase, a requeue or its end.
LEMMA GoesOn ==
  /\ Quiet \subseteq TickPc
  /\ \A g \in {"sweep", "recover", "closed", "giveUp"} : Free[g] \in Quiet
  /\ \A g \in {"sweep", "recover", "lingering", "expired", "reclaim"} :
       Held[g] \in Quiet /\ Thrown[g] \in Quiet
  /\ \A g \in {"sweep", "recover", "lingering", "expired"} : Taken[g] \in Quiet
  BY DEF Quiet, TickPc, Free, Held, Thrown, Taken

\* A tick that goes on to a phase, with the claim deleted or not and, in a clone
\* without a worker, with its file and its marker or without them.
LEMMA TickOn ==
  ASSUME TypeOK, NEW c \in Clones, NEW pc \in Quiet, Go(c, pc), Deletes(c, tick[c].pc),
         file' = file \/ (NoFile(c) /\ Alone(c)),
         OnlySilent(c), silent'[c] = silent[c] \/ Alone(c),
         Counted, UNCHANGED <<last, pid, worker, heart, cut, open>>
  PROVE  TickGoes(c)
<1>1. OnlyTick(c) /\ tick'[c].pc = pc /\ tick'[c].sha = 0
  BY GoResult, GoesOn
<1>2. file' = file \/ (OnlyFile(c) /\ file'[c] = 0 /\ Alone(c))
  BY NoFileResult
<1>3. pc \notin {"compare", "take", "start"}
  BY DEF Quiet
<1>4. QED  BY <1>1, <1>2, <1>3 DEF TickGoes, TickMay

LEMMA RequeueGoes ==
  ASSUME TypeOK, NEW c \in Clones, RequeueDead(c)
  PROVE  TickGoes(c)
<1>1. PICK pc \in {"frontier", "idle"} : Go(c, pc)
  BY DEF RequeueDead
<1>2. /\ Counted /\ UNCHANGED <<lease, last, file, pid, worker, heart, cut, open>>
      /\ OnlySilent(c) /\ silent'[c] = silent[c]
  BY DEF RequeueDead, Requeued, Fault, Counted, OnlySilent, clone, TypeOK
<1>3. pc \in Quiet
  BY DEF Quiet
<1>4. QED  BY <1>1, <1>2, <1>3, TickOn DEF Deletes

LEMMA ReleaseOwnGoes ==
  ASSUME IInv, NEW c \in Clones, ReleaseOwn(c)
  PROVE  TickGoes(c)
<1>0. /\ TypeOK /\ tick[c].pc = "release" /\ Alone(c)
      /\ UNCHANGED <<last, pid, worker, heart, cut, open>>
      /\ tick[c].goal \in {"sweep", "recover", "closed", "giveUp"} /\ requeues' = requeues
      /\ tick[c] \in TickType /\ "idle" \in Quiet /\ "remote" \in Quiet
      /\ OnlySilent(c)
  BY TidiedResult DEF IInv, GoalFits, TickIsAlone, ReleaseOwn, issue, TypeOK, Quiet
<1>1. CASE file[c] = 0 /\ Go(c, Free[tick[c].goal]) /\ UNCHANGED <<lease, file, faults>>
  BY <1>0, <1>1, TickOn, GoesOn DEF Deletes, Counted, TypeOK
<1>2. CASE /\ file[c] # 0 /\ file[c] = lease.sha /\ lease' = NoLease
           /\ \/ NoFile(c) /\ Go(c, Free[tick[c].goal]) /\ UNCHANGED faults
              \/ Fault /\ Go(c, "idle") /\ UNCHANGED file
  <2>1. Deletes(c, tick[c].pc)
    BY <1>0, <1>2, LeaseResult DEF Deletes
  <2>2. Counted
    BY <1>0, <1>2 DEF Fault, Counted, TypeOK
  <2>3. PICK pc \in Quiet : Go(c, pc) /\ (file' = file \/ NoFile(c))
    BY <1>0, <1>2, GoesOn
  <2>4. QED  BY <1>0, <2>1, <2>2, <2>3, TickOn
<1>3. CASE /\ file[c] # 0 /\ Push(file[c], NoLease, FALSE)
           /\ IF tick[c].tries + 1 < Attempts["release"]
              THEN tick' = [tick EXCEPT ![c].tries = @ + 1] /\ UNCHANGED file
              ELSE \/ tick[c].goal = "closed" /\ NoFile(c) /\ Go(c, "remote")
                   \/ tick[c].goal = "giveUp" /\ UNCHANGED file /\ Go(c, "idle")
                   \/ /\ tick[c].goal \in {"sweep", "recover"} /\ UNCHANGED file
                      /\ Aim(c, "drop", tick[c].goal, 0)
  <2>1. faults' \in Nat /\ (lease' = lease \/ (lease.sha = file[c] /\ lease' = NoLease))
    BY <1>0, <1>3, PushResult
  <2>2. Deletes(c, tick[c].pc)
    BY <1>0, <1>3, <2>1, LeaseResult DEF Deletes
  <2>3. Counted
    BY <1>0, <2>1 DEF Counted, TypeOK
  <2>4. CASE tick[c].tries + 1 < Attempts["release"]
    <3>1. tick' = [tick EXCEPT ![c] = [tick[c] EXCEPT !.tries = tick[c].tries + 1]] /\ file' = file
      BY <1>3, <2>4
    <3>2. tick[c].tries + 1 \in Nat
      BY <1>0 DEF TickType
    <3>3. [tick[c] EXCEPT !.tries = tick[c].tries + 1] \in TickType
      BY <1>0, <3>2 DEF TickType
    <3>4. /\ OnlyTick(c) /\ tick'[c].pc = tick[c].pc /\ tick'[c].goal = tick[c].goal
          /\ tick'[c].sha = tick[c].sha
      BY <1>0, <3>1, <3>3 DEF OnlyTick, TypeOK, TickType
    <3>5. QED  BY <1>0, <2>2, <2>3, <3>1, <3>4 DEF TickGoes, TickMay
  <2>5. CASE tick[c].goal \in {"sweep", "recover"} /\ UNCHANGED file /\ Aim(c, "drop", tick[c].goal, 0)
    <3>1. /\ OnlyTick(c) /\ tick'[c].pc = "drop" /\ tick'[c].goal = tick[c].goal
          /\ tick'[c].sha = 0
      BY <1>0, <2>5, AimResult DEF TickPc, Goal
    <3>2. QED  BY <1>0, <2>2, <2>3, <2>5, <3>1 DEF TickGoes, TickMay
  <2>6. CASE (NoFile(c) /\ Go(c, "remote")) \/ (UNCHANGED file /\ Go(c, "idle"))
    BY <1>0, <2>2, <2>3, <2>6, TickOn
  <2>7. QED  BY <1>3, <2>4, <2>5, <2>6
<1>4. QED  BY <1>1, <1>2, <1>3 DEF ReleaseOwn

LEMMA DropGoes ==
  ASSUME IInv, NEW c \in Clones, Drop(c)
  PROVE  TickGoes(c)
<1>0. /\ TypeOK /\ tick[c].pc = "drop" /\ Alone(c) /\ OnlySilent(c)
      /\ UNCHANGED <<lease, last, pid, worker, heart, cut, open>> /\ Counted
      /\ tick[c].goal \in {"sweep", "recover"} /\ lease.sha \in Nat
  BY TidiedResult DEF IInv, GoalFits, TickIsAlone, Drop, issue, TypeOK, Counted, LeaseType
<1>1. CASE file[c] = 0 \/ lease.sha = 0
  BY <1>0, <1>1, TickOn, GoesOn DEF Drop, Deletes
<1>2. CASE file[c] # 0 /\ lease.sha # 0 /\ lease.stale
  <2>1. Aim(c, "compare", tick[c].goal, lease.sha) /\ file' = file
    BY <1>2 DEF Drop
  <2>2. /\ OnlyTick(c) /\ tick'[c].pc = "compare" /\ tick'[c].goal = tick[c].goal
        /\ tick'[c].sha = lease.sha
    BY <1>0, <2>1, AimResult DEF TickPc, Goal
  <2>3. QED  BY <1>0, <1>2, <2>1, <2>2 DEF TickGoes, TickMay, Deletes
<1>3. CASE file[c] # 0 /\ lease.sha # 0 /\ ~lease.stale
  <2>1. Go(c, Held[tick[c].goal]) /\ file' = file
    BY <1>3 DEF Drop
  <2>2. QED  BY <1>0, <2>1, TickOn, GoesOn DEF Deletes
<1>4. QED  BY <1>1, <1>2, <1>3

\* The claim is gone: on a dead worker's behalf the file goes as well.
LEMMA GainedResult ==
  ASSUME TypeOK, NEW c \in Clones, Gained(c),
         tick[c].goal \in {"sweep", "recover", "lingering", "expired", "reclaim"}
  PROVE  /\ OnlyTick(c) /\ tick'[c].pc \in Quiet /\ tick'[c].sha = 0
         /\ file' = file \/ (NoFile(c) /\ tick[c].goal # "lingering")
<1>1. CASE tick[c].goal = "reclaim"
  <2>1. [Idle EXCEPT !.pc = "claim", !.tries = 1] \in TickType
    BY DEF Idle, TickType, TickPc, Goal
  <2>2. NoFile(c) /\ tick' = [tick EXCEPT ![c] = [Idle EXCEPT !.pc = "claim", !.tries = 1]]
    BY <1>1 DEF Gained
  <2>3. QED  BY <1>1, <2>1, <2>2 DEF Idle, OnlyTick, TypeOK, Quiet
<1>2. CASE tick[c].goal # "reclaim"
  <2>1. Go(c, Taken[tick[c].goal]) /\ Taken[tick[c].goal] \in Quiet
    BY <1>2, GoesOn DEF Gained
  <2>2. OnlyTick(c) /\ tick'[c].pc \in Quiet /\ tick'[c].sha = 0
    BY <2>1, GoResult, GoesOn
  <2>3. file' = file \/ (NoFile(c) /\ tick[c].goal # "lingering")
    BY <1>2 DEF Gained
  <2>4. QED  BY <2>2, <2>3
<1>3. QED  BY <1>1, <1>2

LEMMA CompareGoes ==
  ASSUME IInv, NEW c \in Clones, Compare(c)
  PROVE  TickGoes(c)
<1>0. /\ TypeOK /\ tick[c].pc = "compare" /\ (tick[c].goal # "lingering" => Alone(c))
      /\ UNCHANGED <<lease, last, pid, worker, heart, cut, open>> /\ Counted
      /\ tick[c].goal \in {"sweep", "recover", "lingering", "expired", "reclaim"}
      /\ lease.sha \in Nat /\ tick[c] \in TickType
  BY DEF IInv, GoalFits, TickIsAlone, Compare, issue, TypeOK, Counted, LeaseType, Fault
<1>a. OnlySilent(c) /\ (silent'[c] = silent[c] \/ Alone(c))
  BY <1>0, TidiedResult DEF Compare
<1>1. CASE Gained(c)
  <2>1. file' = file \/ (OnlyFile(c) /\ file'[c] = 0 /\ Alone(c))
    BY <1>0, <1>1, GainedResult, NoFileResult
  <2>2. QED  BY <1>0, <1>a, <1>1, <2>1, GainedResult DEF TickGoes, TickMay, Deletes
<1>2. CASE /\ UNCHANGED file
           /\ Go(c, Held[tick[c].goal]) \/ Go(c, Thrown[tick[c].goal])
  BY <1>0, <1>a, <1>2, TickOn, GoesOn DEF Deletes
<1>3. CASE /\ lease.sha # 0 /\ tick[c].sha \in {0, lease.sha} /\ ~lease.fence
           /\ tick' = [tick EXCEPT ![c].pc = "take", ![c].sha = lease.sha] /\ UNCHANGED file
  <2>1. tick' = [tick EXCEPT ![c] = [tick[c] EXCEPT !.pc = "take", !.sha = lease.sha]]
    BY <1>3
  <2>2. [tick[c] EXCEPT !.pc = "take", !.sha = lease.sha] \in TickType
    BY <1>0 DEF TickType, TickPc
  <2>3. /\ OnlyTick(c) /\ tick'[c].pc = "take" /\ tick'[c].goal = tick[c].goal
        /\ tick'[c].sha = lease.sha
    BY <1>0, <2>1, <2>2 DEF OnlyTick, TypeOK, TickType
  <2>4. QED  BY <1>0, <1>a, <1>3, <2>3 DEF TickGoes, TickMay, Deletes
<1>4. QED  BY <1>1, <1>2, <1>3 DEF Compare

LEMMA TakeGoes ==
  ASSUME IInv, NEW c \in Clones, Take(c)
  PROVE  TickGoes(c)
<1>0. /\ TypeOK /\ tick[c].pc = "take" /\ (tick[c].goal # "lingering" => Alone(c))
      /\ UNCHANGED <<last, pid, worker, heart, cut, open, requeues>>
      /\ tick[c].goal \in {"sweep", "recover", "lingering", "expired", "reclaim"}
      /\ tick[c].sha # 0
  BY DEF IInv, GoalFits, TickIsAlone, TakesTheUnfenced, Take, issue
<1>1. /\ faults' \in Nat
      /\ lease' = lease \/ (lease.sha = tick[c].sha /\ lease' = NoLease)
  BY <1>0, PushResult DEF Take, Expected
<1>2. Deletes(c, tick[c].pc) /\ Counted
  BY <1>0, <1>1, LeaseResult DEF Deletes, Counted, TypeOK
<1>3. /\ OnlyTick(c) /\ tick'[c].pc \in Quiet /\ tick'[c].sha = 0
      /\ file' = file \/ (OnlyFile(c) /\ file'[c] = 0 /\ Alone(c))
      /\ OnlySilent(c) /\ (silent'[c] = silent[c] \/ Alone(c))
  BY <1>0, GainedResult, NoFileResult, TidiedResult DEF Take
<1>4. tick'[c].pc \notin {"compare", "take", "start"}
  BY <1>3 DEF Quiet
<1>5. QED  BY <1>0, <1>2, <1>3, <1>4 DEF TickGoes, TickMay

LEMMA ClaimGoes ==
  ASSUME TypeOK, NEW c \in Clones, Claim(c)
  PROVE  Claims(c) \/ TickGoes(c)
<1>0. /\ UNCHANGED <<lease, silent, pid, worker, heart, cut, open>> /\ Counted
      /\ last + 1 \in Nat /\ tick[c] \in TickType
  BY DEF Claim, issue, TypeOK, Counted
<1>1. CASE file[c] = 0 /\ last < MaxCommits
  <2>1. /\ last' = last + 1 /\ file' = [file EXCEPT ![c] = last + 1]
        /\ tick' = [tick EXCEPT ![c] = [tick[c] EXCEPT !.pc = "push", !.sha = last + 1]]
    BY <1>1 DEF Claim, TypeOK
  <2>2. [tick[c] EXCEPT !.pc = "push", !.sha = last + 1] \in TickType
    BY <1>0 DEF TickType, TickPc
  <2>3. OnlyTick(c) /\ tick'[c].pc = "push" /\ tick'[c].sha = last + 1
    BY <1>0, <2>1, <2>2 DEF OnlyTick, TickType, TypeOK
  <2>4. QED  BY <1>0, <1>1, <2>1, <2>3 DEF Claims, OnlyFile, TypeOK
<1>2. CASE ~(file[c] = 0 /\ last < MaxCommits)
  <2>1. Refused(c) /\ UNCHANGED <<last, file>>
    BY <1>2 DEF Claim
  <2>2. OnlyTick(c) /\ tick'[c].pc = "contend" /\ tick'[c].sha = 0
    BY <2>1, RefusedResult
  <2>3. QED  BY <1>0, <2>1, <2>2, TickOnly DEF TickMay, Quiet, clone
<1>3. QED  BY <1>1, <1>2

LEMMA ClaimPushGoes ==
  ASSUME IInv, NEW c \in Clones, ClaimPush(c)
  PROVE  Pushes(c) \/ TickGoes(c)
<1> DEFINE s == tick[c].sha
<1>0. /\ TypeOK /\ tick[c].pc = "push" /\ Alone(c) /\ s \in Nat
      /\ UNCHANGED <<last, silent, pid, worker, heart, cut, open, requeues>>
  BY Fields DEF IInv, TickIsAlone, ClaimPush, issue
<1>1. PICK accepted \in BOOLEAN :
        /\ Push(0, Lease(s, c, FALSE), accepted)
        /\ (IF accepted THEN Go(c, "recheck") ELSE Refused(c))
        /\ IF accepted THEN UNCHANGED file ELSE NoFile(c)
  BY DEF ClaimPush
<1>2. /\ faults' \in Nat
      /\ lease' = lease \/ (lease.sha = 0 /\ lease' = Lease(s, c, FALSE))
      /\ accepted => lease.sha = 0 /\ lease' = Lease(s, c, FALSE)
  BY <1>0, <1>1, PushResult
<1>3. Counted
  BY <1>0, <1>2 DEF Counted, TypeOK
<1>4. CASE accepted
  <2>1. OnlyTick(c) /\ tick'[c].pc = "recheck" /\ tick'[c].sha = 0 /\ file' = file
    BY <1>0, <1>1, <1>4, GoResult DEF TickPc
  <2>2. Becomes(s, c, FALSE) /\ lease.sha = 0
    BY <1>0, <1>2, <1>4, LeaseResult
  <2>3. QED  BY <1>0, <1>3, <2>1, <2>2 DEF Pushes
<1>5. CASE ~accepted
  <2>1. /\ OnlyTick(c) /\ tick'[c].pc = "contend" /\ tick'[c].sha = 0
        /\ OnlyFile(c) /\ file'[c] = 0
    BY <1>0, <1>1, <1>5, RefusedResult, NoFileResult
  <2>2. CASE lease' = lease
    BY <1>0, <1>3, <2>1, <2>2 DEF TickGoes, TickMay, Deletes, Quiet, OnlySilent, TypeOK
  <2>3. CASE lease.sha = 0 /\ lease' = Lease(s, c, FALSE)
    <3>1. Becomes(s, c, FALSE)
      BY <1>0, <2>3, LeaseResult
    <3>2. QED  BY <1>0, <1>3, <2>1, <2>3, <3>1 DEF Pushes
  <2>4. QED  BY <1>2, <2>2, <2>3
<1>6. QED  BY <1>4, <1>5

LEMMA ContendGoes ==
  ASSUME IInv, NEW c \in Clones, Contend(c)
  PROVE  TickGoes(c)
<1>0. /\ UNCHANGED <<lease, last, pid, worker, heart, cut, open>> /\ Counted
      /\ TypeOK /\ lease.sha \in Nat /\ tick[c] \in TickType /\ "idle" \in Quiet
      /\ silent' = silent /\ OnlySilent(c)
  BY DEF IInv, Contend, issue, TypeOK, Counted, Quiet, LeaseType, OnlySilent
<1>1. CASE Go(c, "idle") /\ UNCHANGED file
  BY <1>0, <1>1, TickOn DEF Deletes
<1>2. CASE /\ ~Alive(c) /\ NoFile(c)
           /\ tick' = [tick EXCEPT ![c].pc = "claim", ![c].tries = 1]
  <2>1. tick' = [tick EXCEPT ![c] = [tick[c] EXCEPT !.pc = "claim", !.tries = 1]]
    BY <1>2
  <2>2. [tick[c] EXCEPT !.pc = "claim", !.tries = 1] \in TickType
    BY <1>0 DEF TickType, TickPc
  <2>3. OnlyTick(c) /\ tick'[c].pc = "claim" /\ tick'[c].sha = tick[c].sha
    BY <1>0, <2>1, <2>2 DEF OnlyTick, TypeOK, TickType
  <2>4. OnlyFile(c) /\ file'[c] = 0 /\ Alone(c)
    BY <1>0, <1>2, NoFileResult, NotAlive
  <2>5. QED  BY <1>0, <1>2, <2>3, <2>4 DEF TickGoes, TickMay, Quiet, Deletes
<1>3. CASE /\ ~Alive(c) /\ lease.sha # 0 /\ lease.stale /\ UNCHANGED file
           /\ Aim(c, "compare", "reclaim", lease.sha)
  <2>1. /\ OnlyTick(c) /\ tick'[c].pc = "compare" /\ tick'[c].goal = "reclaim"
        /\ tick'[c].sha = lease.sha /\ Alone(c)
    BY <1>0, <1>3, AimResult, NotAlive DEF TickPc, Goal
  <2>2. QED  BY <1>0, <1>3, <2>1, TickOnly DEF TickMay, clone
<1>4. QED  BY <1>1, <1>2, <1>3 DEF Contend

LEMMA RecheckGoes ==
  ASSUME IInv, NEW c \in Clones, Recheck(c)
  PROVE  TickGoes(c)
<1>0. /\ TypeOK /\ tick[c].pc = "recheck" /\ Alone(c) /\ Counted
      /\ UNCHANGED <<lease, last, clone, worker, heart, cut, open>>
  BY DEF IInv, TickIsAlone, Recheck, Fault, Counted, issue, TypeOK
<1>1. CASE Go(c, "start")
  <2>1. OnlyTick(c) /\ tick'[c].pc = "start" /\ tick'[c].sha = 0
    BY <1>0, <1>1, GoResult DEF TickPc
  <2>2. QED  BY <1>0, <2>1, TickOnly DEF TickMay
<1>2. CASE Aim(c, "release", "giveUp", 0)
  <2>1. OnlyTick(c) /\ tick'[c].pc = "release" /\ tick'[c].goal = "giveUp" /\ tick'[c].sha = 0
    BY <1>0, <1>2, AimResult DEF TickPc, Goal
  <2>2. QED  BY <1>0, <2>1, TickOnly DEF TickMay
<1>3. QED  BY <1>1, <1>2 DEF Recheck

LEMMA StartGoes ==
  ASSUME IInv, NEW c \in Clones, Start(c)
  PROVE  (\E w \in Workers : Starts(c, w)) \/ TickGoes(c)
<1>0. /\ TypeOK /\ tick[c].pc = "start" /\ Alone(c) /\ Counted /\ cut \subseteq Clones
      /\ UNCHANGED <<lease, last, file, heart, open>>
  BY DEF IInv, TickIsAlone, Start, Fault, Counted, TypeOK
<1>1. ASSUME Go(c, "idle"), silent' = [silent EXCEPT ![c] = FALSE],
             NEW w \in Spare(c), Goto(w, "work"),
             \/ pid' = [pid EXCEPT ![c] = w] /\ UNCHANGED cut
             \/ cut' = cut \union {c} /\ UNCHANGED pid
      PROVE  \E v \in Workers : Starts(c, v)
  <2>1. w \in Workers /\ Home[w] = c /\ ~Works(w)
    BY DEF Spare, Works
  <2>2. OnlyWorker(w) /\ worker'[w].pc = "work"
    BY <1>0, <1>1, <2>1, GotoResult DEF WorkerPc
  <2>3. OnlyTick(c) /\ tick'[c].pc = "idle" /\ tick'[c].sha = 0
    BY <1>0, <1>1, GoResult DEF TickPc
  <2>4. OnlyPid(c) /\ OnlySilent(c)
    BY <1>0, <1>1, <2>1 DEF OnlyPid, OnlySilent, TypeOK
  <2>5. cut \subseteq cut' /\ cut' \subseteq Clones /\ (pid'[c] = w \/ c \in cut')
    BY <1>0, <1>1, <2>1 DEF TypeOK
  <2>6. Starts(c, w)
    BY <1>0, <2>1, <2>2, <2>3, <2>4, <2>5 DEF Starts
  <2>7. QED  BY <2>1, <2>6
<1>2. CASE Go(c, "idle") /\ UNCHANGED <<silent, worker, pid, cut>>
  <2>1. OnlyTick(c) /\ tick'[c].pc = "idle" /\ tick'[c].sha = 0
    BY <1>0, <1>2, GoResult DEF TickPc
  <2>2. QED  BY <1>0, <1>2, <2>1, TickOnly DEF TickMay, Quiet, clone
<1>3. CASE Aim(c, "release", "giveUp", 0) /\ UNCHANGED <<silent, worker, pid, cut>>
  <2>1. OnlyTick(c) /\ tick'[c].pc = "release" /\ tick'[c].goal = "giveUp" /\ tick'[c].sha = 0
    BY <1>0, <1>3, AimResult DEF TickPc, Goal
  <2>2. QED  BY <1>0, <1>3, <2>1, TickOnly DEF TickMay, clone
<1>4. CASE /\ Go(c, "idle") /\ silent' = [silent EXCEPT ![c] = FALSE]
           /\ LET w == CHOOSE v \in Spare(c) : TRUE IN
                /\ Goto(w, "work")
                /\ \/ pid' = [pid EXCEPT ![c] = w] /\ UNCHANGED <<cut, faults>>
                   \/ Spare(c) # {w} /\ Fault /\ cut' = cut \union {c} /\ UNCHANGED pid
  <2>1. PICK w : w = CHOOSE v \in Spare(c) : TRUE
    OBVIOUS
  <2>2. Spare(c) # {}
    BY DEF Start
  <2>3. w \in Spare(c)
    BY <2>1, <2>2
  <2>4. /\ Goto(w, "work")
        /\ \/ pid' = [pid EXCEPT ![c] = w] /\ UNCHANGED cut
           \/ cut' = cut \union {c} /\ UNCHANGED pid
    BY <1>4, <2>1
  <2>5. QED  BY <1>1, <1>4, <2>3, <2>4
<1>5. QED  BY <1>2, <1>3, <1>4 DEF Start

LEMMA RestartGoes ==
  ASSUME TypeOK, NEW c \in Clones, Restart(c)
  PROVE  TickGoes(c)
<1>1. Counted /\ UNCHANGED <<lease, last, clone, worker, heart, cut, open>>
  BY DEF Restart, Fault, Counted, issue, TypeOK
<1>2. Idle \in TickType
  BY DEF Idle, TickType, TickPc, Goal
<1>3. OnlyTick(c) /\ tick'[c].pc = "idle" /\ tick'[c].sha = 0
  BY <1>2 DEF Restart, OnlyTick, TypeOK, Idle
<1>4. QED  BY <1>1, <1>3, TickOnly DEF TickMay, Quiet

LEMMA EveryStep ==
  ASSUME IInv, Next
  PROVE  \/ Outside
         \/ \E w \in Workers : StepOfWorker(w)
         \/ \E c \in Clones : StepOfTick(c)
<1>0. TypeOK
  BY DEF IInv
<1>1. CASE Age \/ Close
  BY <1>0, <1>1, OutsideSteps
<1>2. ASSUME NEW w \in Workers, HeartStep(w)
      PROVE  StepOfWorker(w)
  BY <1>0, <1>2, BeatGoes, RenewGoes, RememberGoes DEF HeartStep, StepOfWorker
<1>3. ASSUME NEW w \in Workers, WorkerStep(w) \/ Die(w)
      PROVE  StepOfWorker(w)
  BY <1>0, <1>3, WorkGoes, VerifyGoes, FenceGoes, PublishGoes, FailureGoes, ReleaseGoes,
     LingerGoes, DieGoes DEF WorkerStep, StepOfWorker
<1>4. ASSUME NEW c \in Clones, TickStep(c) \/ Restart(c)
      PROVE  StepOfTick(c)
  BY <1>0, <1>4, PhaseGoes, RequeueGoes, ReleaseOwnGoes, DropGoes, CompareGoes, TakeGoes,
     ClaimGoes, ClaimPushGoes, ContendGoes, RecheckGoes, StartGoes, RestartGoes
     DEF TickStep, StepOfTick
<1>5. QED  BY <1>1, <1>2, <1>3, <1>4 DEF Next

-----------------------------------------------------------------------------
(* The theorems.                                                           *)

LEMMA InitIInv == Init => IInv
<1> SUFFICES ASSUME Init
             PROVE  IInv
  OBVIOUS
<1>1. TypeOK
  BY DEF Init, TypeOK, NoLease, LeaseType, Gone, WorkerType, WorkerPc, Still, HeartType, Idle,
         TickType, TickPc, Goal
<1>2. /\ lease.sha = 0 /\ lease.by = None /\ last = 0 /\ cut = {}
      /\ \A c \in Clones : file[c] = 0 /\ tick[c].pc = "idle" /\ tick[c].sha = 0
      /\ \A w \in Workers :
           /\ worker[w].pc = "gone" /\ heart[w].read = 0 /\ heart[w].sha = 0
           /\ Home[w] \in Clones
  BY ConstantsAssumption DEF Init, NoLease, Gone, Still, Idle
<1>3. QED
  BY <1>1, <1>2 DEF IInv, GoalFits, CommitsAreMade, NamesApart, KnownWorker, WorkerHasFile,
       TickIsAlone, PushIsFresh, RenewedIsNewer, TakesTheUnfenced, TakesTheAbandoned,
       PublisherIsSafe, Works

LEMMA StepIInv == IInv /\ [Next]_vars => IInv'
<1> SUFFICES ASSUME IInv, [Next]_vars
             PROVE  IInv'
  OBVIOUS
<1>1. CASE Outside
  BY <1>1, TypeOutside, FitsOutside, MadeOutside, ApartOutside, KnownOutside, HasFileOutside,
     AloneOutside, FreshOutside, NewerOutside, UnfencedOutside, AbandonedOutside,
     PublisherOutside DEF IInv
<1>2. ASSUME NEW w \in Workers, StepOfWorker(w)
      PROVE  IInv'
  BY <1>2, TypeWorkerStep, FitsWorkerStep, MadeWorkerStep, ApartWorkerStep, KnownWorkerStep,
     HasFileWorkerStep, AloneWorkerStep, FreshWorkerStep, NewerWorkerStep, UnfencedWorkerStep,
     AbandonedWorkerStep, PublisherWorkerStep DEF IInv
<1>3. ASSUME NEW c \in Clones, StepOfTick(c)
      PROVE  IInv'
  BY <1>3, TypeTickStep, FitsTickStep, MadeTickStep, ApartTickStep, KnownTickStep,
     HasFileTickStep, AloneTickStep, FreshTickStep, NewerTickStep, UnfencedTickStep,
     AbandonedTickStep, PublisherTickStep DEF IInv
<1>4. CASE UNCHANGED vars
  BY <1>4 DEF vars, issue, clone, IInv, TypeOK, GoalFits, CommitsAreMade, NamesApart, Knows,
       KnownWorker, WorkerHasFile, TickIsAlone, Alone, Works, PushIsFresh, RenewedIsNewer,
       TakesTheUnfenced, TakesTheAbandoned, PublisherIsSafe
<1>5. QED  BY <1>1, <1>2, <1>3, <1>4, EveryStep

\* Every variable keeps its type, whatever dies or is lost on the way.
THEOREM TypeCorrect == Spec => []TypeOK
<1>1. IInv => TypeOK
  BY DEF IInv
<1>2. QED  BY <1>1, InitIInv, StepIInv, PTL DEF Spec

\* The inductive invariant: among its parts, that the commits of two clones are
\* never the same (claim.ts pushes what it made itself), and that a tick that
\* touches the file of a clone has no worker beside it unless a worker was
\* started there that issue-N.pid does not name (dispatch.ts:463).
THEOREM AlwaysIInv == Spec => []IInv
<1>1. QED  BY InitIInv, StepIInv, PTL DEF Spec

\* A worker that publishes holds the fence it made (fenceClaim, worker.ts),
\* whatever other clones take for stale, lose or repeat, unless its own clone has
\* had a worker that its pid file did not name.
THEOREM PublisherKeepsLease == Spec => []PublisherHoldsLease
<1>1. IInv => PublisherHoldsLease
  BY DEF IInv, PublisherIsSafe, PublisherHoldsLease
<1>2. QED  BY <1>1, AlwaysIInv, PTL

OnePublisher ==
  \A v, w \in Workers :
    /\ worker[v].pc = "publish" /\ Home[v] \notin cut
    /\ worker[w].pc = "publish" /\ Home[w] \notin cut
    => v = w

\* No two workers publish at once, in one clone or in two (docs/agents/agent-loop.md:
\* a worker that lost its lease cannot publish), but for those of a clone that has
\* had a worker that its pid file did not name.
THEOREM PublishersExclude == Spec => []OnePublisher
<1>1. ASSUME IInv, NEW v \in Workers, NEW w \in Workers,
             worker[v].pc = "publish", Home[v] \notin cut,
             worker[w].pc = "publish", Home[w] \notin cut
      PROVE  v = w
  <2>1. Home[v] = lease.by /\ Home[w] = lease.by
    BY <1>1 DEF IInv, PublisherIsSafe
  <2>2. Works(v) /\ Works(w) /\ KnownWorker
    BY <1>1 DEF IInv, Works
  <2>3. QED  BY <1>1, <2>1, <2>2, OneWorks
<1>2. IInv => OnePublisher
  BY <1>1 DEF OnePublisher
<1>3. QED  BY <1>2, AlwaysIInv, PTL

\* A working worker's claim that is neither stale nor of a closed issue is not
\* touched by the worker of another clone, nor by a second one of its own.
LEMMA NotTakenByWorker ==
  ASSUME IInv, NEW w \in Workers, Works(w), Home[w] \notin cut, lease.by = Home[w],
         lease'.sha # lease.sha, NEW v \in Workers, StepOfWorker(v)
  PROVE  v = w
<1>0. TypeOK /\ CommitsAreMade /\ NamesApart /\ KnownWorker
  BY DEF IInv
<1>1. CASE HeartGoes(v) \/ Remembers(v)
  BY <1>1 DEF HeartGoes, Remembers
<1>2. CASE Renews(v)
  <2>1. lease.sha = heart[v].read /\ lease.sha # 0 /\ lease.sha <= last /\ Works(v)
    BY <1>0, <1>2 DEF Renews, CommitsAreMade
  <2>2. Knows(Home[v], lease.sha)
    BY <2>1 DEF Knows
  <2>3. Home[v] = Home[w]
    BY <1>0, <2>1, <2>2, Apart, Fields
  <2>4. QED  BY <1>0, <2>1, <2>3, OneWorks
<1>3. CASE WorkerGoes(v) \/ Fences(v)
  <2>1. lease.sha = file[Home[v]] /\ lease.sha # 0 /\ lease.sha <= last /\ Works(v)
    BY <1>0, <1>3, Fields
    DEF WorkerGoes, Fences, Deletes, CommitsAreMade, Works, WorkerPc
  <2>2. Knows(Home[v], lease.sha)
    BY <2>1 DEF Knows
  <2>3. Home[v] = Home[w]
    BY <1>0, <2>1, <2>2, Apart, Fields
  <2>4. QED  BY <1>0, <2>1, <2>3, OneWorks
<1>4. QED  BY <1>1, <1>2, <1>3 DEF StepOfWorker

\* Nor by a tick of any clone.
LEMMA NotTakenByTick ==
  ASSUME IInv, NEW w \in Workers, Works(w), Home[w] \notin cut, lease.by = Home[w],
         ~lease.stale, open, lease'.sha # lease.sha, NEW c \in Clones, StepOfTick(c)
  PROVE  FALSE
<1>0. TypeOK /\ CommitsAreMade /\ NamesApart
  BY DEF IInv
<1>1. CASE Claims(c) \/ \E v \in Workers : Starts(c, v)
  BY <1>1 DEF Claims, Starts
<1>2. CASE Pushes(c)
  <2>1. Home[w] # None
    BY <1>0, Fields, ConstantsAssumption
  <2>2. QED  BY <1>0, <1>2, <2>1 DEF Pushes, NamesApart
<1>3. CASE TickGoes(c)
  <2>1. Deletes(c, tick[c].pc) /\ lease' # lease
    BY <1>3 DEF TickGoes
  <2>2. CASE tick[c].pc = "release" /\ lease.sha = file[c] /\ lease.sha # 0
    <3>1. Knows(c, lease.sha) /\ lease.sha <= last
      BY <1>0, <2>2 DEF Knows, CommitsAreMade
    <3>2. c = Home[w]
      BY <1>0, <2>2, <3>1, Apart, Fields
    <3>3. QED  BY <2>2, <3>2 DEF IInv, TickIsAlone, Alone
  <2>3. CASE tick[c].pc = "take" /\ tick[c].sha = lease.sha
    BY <2>3 DEF IInv, TakesTheAbandoned
  <2>4. QED  BY <2>1, <2>2, <2>3 DEF Deletes
<1>4. QED  BY <1>1, <1>2, <1>3 DEF StepOfTick

\* A working worker loses its claim to others only when it was not renewed in time
\* or the issue is closed (releaseRemoteClaim names the commit it looked at), or
\* when a worker of its clone was never named by the pid file (dispatch.ts:463).
THEOREM LivingKeepsClaim == Spec => TakenOnlyWhenStale
<1> DEFINE Kept ==
      \A w \in Workers :
        (/\ Works(w) /\ Home[w] \notin cut /\ lease.by = Home[w]
         /\ ~lease.stale /\ open /\ lease'.sha # lease.sha) =>
          worker'[w] # worker[w] \/ heart'[w] # heart[w]
<1>1. ASSUME IInv, [Next]_vars
      PROVE  Kept
  <2> SUFFICES ASSUME NEW w \in Workers, Works(w), Home[w] \notin cut, lease.by = Home[w],
                      ~lease.stale, open, lease'.sha # lease.sha
               PROVE  worker'[w] # worker[w] \/ heart'[w] # heart[w]
    OBVIOUS
  <2>0. TypeOK
    BY <1>1 DEF IInv
  <2>1. CASE Age \/ Close
    BY <2>0, <2>1, OutsideSteps DEF Outside
  <2>2. ASSUME NEW v \in Workers, HeartStep(v)
        PROVE  heart'[w] # heart[w]
    <3>1. Renews(v)
      BY <1>1, <2>2, RenewGoes DEF HeartStep, Beat, Remember, HeartGoes
    <3>2. v = w
      BY <1>1, <3>1, NotTakenByWorker DEF StepOfWorker
    <3>3. QED  BY <3>1, <3>2 DEF Renews
  <2>3. ASSUME NEW v \in Workers, WorkerStep(v) \/ Die(v)
        PROVE  worker'[w] # worker[w]
    <3>1. Fence(v) \/ Release(v)
      BY <2>3 DEF WorkerStep, Die, Work, Verify, Publish, HandleFailure, Linger
    <3>2. (WorkerGoes(v) \/ Fences(v)) /\ worker'[v] # worker[v]
      BY <1>1, <2>0, <3>1, FenceGoes, ReleaseGoes
    <3>3. v = w
      BY <1>1, <3>2, NotTakenByWorker DEF StepOfWorker
    <3>4. QED  BY <3>2, <3>3
  <2>4. ASSUME NEW c \in Clones, TickStep(c) \/ Restart(c)
        PROVE  FALSE
    <3>1. StepOfTick(c)
      BY <1>1, <2>0, <2>4, PhaseGoes, RequeueGoes, ReleaseOwnGoes, DropGoes, CompareGoes,
         TakeGoes, ClaimGoes, ClaimPushGoes, ContendGoes, RecheckGoes, StartGoes, RestartGoes
         DEF TickStep, StepOfTick
    <3>2. QED  BY <1>1, <3>1, NotTakenByTick
  <2>5. CASE UNCHANGED vars
    BY <2>5 DEF vars
  <2>6. QED  BY <1>1, <2>1, <2>2, <2>3, <2>4, <2>5 DEF Next
<1>2. []IInv /\ [][Next]_vars => [][Kept]_vars
  BY <1>1, PTL
<1>3. QED  BY <1>2, AlwaysIInv DEF Spec, TakenOnlyWhenStale
=============================================================================
