------------------------------- MODULE AgentLoop -------------------------------
(***************************************************************************)
(* The leases under which the agent loop works on an issue                 *)
(* (scripts/agent/claim.ts, dispatch.ts and worker.ts).                    *)
(*                                                                         *)
(* Clones of the repository share nothing but the git remote and the       *)
(* labels of the issue.  The daemon of a clone runs ticks: a tick cleans   *)
(* up after dead workers, then claims the issue and starts a worker for    *)
(* it.  A tick knows a worker by the file that holds its process id, which *)
(* is written after the worker was started and removed by whichever worker *)
(* ends.  A claim is a pair of remote refs, always pushed together and with *)
(* the commit they must still hold; the clone remembers that commit in a   *)
(* file.  A worker renews its claim from a timer, replaces it by a fence   *)
(* before it publishes, and deletes it at its end.  A claim that was not   *)
(* renewed for AGENT_CLAIM_STALE_SECONDS may be deleted by any clone.      *)
(*                                                                         *)
(* Abstracted: one issue (a slot held by another one is a refusal), what   *)
(* the worker does before it publishes, the repair of published work, the  *)
(* age of a claim (it is stale or not yet) and the worktree (a closed      *)
(* issue has one here when the clone has a file for it).  Taken as one     *)
(* step: reads that follow one another with no write between; a read and   *)
(* the push that names what was read, which is refused when something came *)
(* in between; a push that went through and the change of the file after   *)
(* it, unless the process dies there; the start of a worker and the file   *)
(* with its process id, which only ticks read, unless the daemon dies or   *)
(* cannot write there; the end of a worker and the removal of that file,   *)
(* unless the worker lingers there; the edit of the labels and the comment *)
(* that counts a requeue.                                                  *)
(***************************************************************************)
EXTENDS Naturals, Sequences

CONSTANTS
  Clones,
  Running,      \* the clones that are known to keep running
  Workers,      \* bound: the worker processes that may live at once
  Home,         \* the clone of each
  Attempts,     \* how often: AGENT_CLAIM_HEARTBEAT_MAX_MISSES, AGENT_CLAIM_VERIFY_ATTEMPTS,
                \* AGENT_FENCE_ATTEMPTS, and the 3 tries of releaseClaim
  MaxRequeues,  \* AGENT_REQUEUE_MAX
  MaxCommits,   \* bound: claims, renewals and fences pushed in one behaviour
  MaxFaults,    \* bound: lost or refused calls, deaths, delays and closings in one behaviour
  None

ASSUME ConstantsAssumption ==
  /\ Running \subseteq Clones /\ Running # {}
  /\ Attempts \in [{"beat", "verify", "fence", "release"} -> Nat \ {0}]
  /\ MaxRequeues \in Nat
  /\ MaxCommits \in Nat /\ MaxFaults \in Nat
  /\ Home \in [Workers -> Clones] /\ None \notin Clones \union Workers

VARIABLES
  lease,      \* the remote pair of refs: its commit, who made it, what for
  last,       \* the newest commit made
  file,       \* per clone: the commit in issue-N.claim, 0 for no file
  silent,     \* per clone: issue-N.publishing is there, which silences heartbeats
  pid,        \* per clone: the worker in issue-N.pid, None without one that lives
  worker,     \* the worker processes
  heart,      \* the heartbeat of each
  tick,       \* per clone: what the daemon is doing
  cut,        \* history: clones in which a worker lived that issue-N.pid did not name
  labels,     \* the labels of the issue
  open,       \* the issue is open
  requeues,   \* agent-requeue comments on it
  faults      \* faults so far

issue == <<labels, open, requeues>>
clone == <<file, silent, pid>>
vars == <<lease, last, clone, worker, heart, tick, cut, issue, faults>>

NoLease == [sha |-> 0, by |-> None, fence |-> FALSE, stale |-> FALSE]
Lease(sha, c, fence) == [sha |-> sha, by |-> c, fence |-> fence, stale |-> FALSE]

Gone == [pc |-> "gone", tries |-> 0]
Still == [read |-> 0, sha |-> 0, misses |-> 0]
Idle == [pc |-> "idle", goal |-> "none", sha |-> 0, tries |-> 0]

Init ==
  /\ lease = NoLease /\ last = 0
  /\ file = [c \in Clones |-> 0] /\ silent = [c \in Clones |-> FALSE]
  /\ pid = [c \in Clones |-> None]
  /\ worker = [w \in Workers |-> Gone] /\ heart = [w \in Workers |-> Still]
  /\ tick = [c \in Clones |-> Idle] /\ cut = {}
  /\ labels = {"ready", "queued"} /\ open = TRUE /\ requeues = 0
  /\ faults = 0

-----------------------------------------------------------------------------
(* The remote. *)

Fault == faults < MaxFaults /\ faults' = faults + 1

\* pushAtomic: both refs move from the commit expected or neither does.  The
\* caller learns that the push went through, or no more than that it may not have.
Push(expected, new, accepted) ==
  \/ /\ accepted /\ lease.sha = expected /\ lease' = new
     /\ UNCHANGED faults
  \/ /\ ~accepted /\ lease.sha # expected
     /\ UNCHANGED <<lease, faults>>
  \/ /\ ~accepted /\ Fault
     /\ lease' = lease \/ (lease.sha = expected /\ lease' = new)

\* Time passes without a renewal.
Age ==
  /\ lease.sha # 0 /\ ~lease.stale
  /\ lease' = [lease EXCEPT !.stale = TRUE]
  /\ UNCHANGED <<last, clone, worker, heart, tick, cut, issue, faults>>

\* Somebody closes the issue: its work is merged or no longer wanted.
Close ==
  /\ open /\ open' = FALSE /\ Fault
  /\ UNCHANGED <<lease, last, clone, worker, heart, tick, cut, labels, requeues>>

\* A worker that lingers has nothing left to do but to remove its files.
Works(w) == worker[w].pc \notin {"gone", "lingers"}

\* pidFileAlive: what a tick knows of the workers of its clone.
Alive(c) == pid[c] # None

-----------------------------------------------------------------------------
(* The heartbeat of a worker: it runs beside the worker's own steps. *)

Beating(w) == heart[w].read # 0 \/ heart[w].sha # 0

\* A beat begins unless a fence or the end of the worker has, and reads the
\* file; without a file it is a miss.
Beat(w) ==
  /\ Works(w) /\ worker[w].pc # "release" /\ ~silent[Home[w]]
  /\ ~Beating(w) /\ heart[w].misses < Attempts["beat"] /\ last < MaxCommits
  /\ IF file[Home[w]] = 0 THEN heart' = [heart EXCEPT ![w].misses = @ + 1]
     ELSE heart' = [heart EXCEPT ![w].read = file[Home[w]]]
  /\ UNCHANGED <<lease, last, clone, worker, tick, cut, issue, faults>>

\* The refs must still hold the commit that was read, or the beat is a miss;
\* meanwhile the worker may have begun to fence or to release.
Renew(w) ==
  /\ heart[w].read # 0 /\ last < MaxCommits
  /\ \E accepted \in BOOLEAN :
       /\ Push(heart[w].read, Lease(last + 1, Home[w], FALSE), accepted)
       /\ IF ~accepted /\ worker[w].pc = "work"
          THEN heart' = [heart EXCEPT ![w].read = 0, ![w].misses = @ + 1]
          ELSE heart' = [heart EXCEPT ![w] = [Still EXCEPT !.sha = IF accepted THEN last + 1 ELSE 0]]
       /\ last' = IF lease' = lease THEN last ELSE last + 1
  /\ UNCHANGED <<clone, worker, tick, cut, issue>>

\* The file follows the push: a death in between leaves the older commit in it.
Remember(w) ==
  /\ heart[w].sha # 0
  /\ file' = [file EXCEPT ![Home[w]] = heart[w].sha]
  /\ heart' = [heart EXCEPT ![w] = Still]
  /\ UNCHANGED <<lease, last, silent, pid, worker, tick, cut, issue, faults>>

-----------------------------------------------------------------------------
(* The worker. *)

Goto(w, pc) == worker' = [worker EXCEPT ![w] = [Gone EXCEPT !.pc = pc]]

Vanish(w) == Goto(w, "gone") /\ heart' = [heart EXCEPT ![w] = Still]

\* The end of a worker removes issue-N.pid and the marker, whosever they are.
End(w) ==
  LET c == Home[w] IN
  /\ Vanish(w)
  /\ pid' = [pid EXCEPT ![c] = None] /\ silent' = [silent EXCEPT ![c] = FALSE]
  /\ cut' = IF pid[c] \in {None, w} THEN cut ELSE cut \union {c}

\* A death leaves them, but issue-N.pid names no living worker any more.
Drops(w) ==
  /\ Vanish(w)
  /\ pid' = [pid EXCEPT ![Home[w]] = IF @ = w THEN None ELSE @]
  /\ UNCHANGED cut

\* One more attempt of pc, or onwards when there have been enough.
Retry(w, pc, onwards) ==
  IF worker[w].tries + 1 < Attempts[pc]
  THEN worker' = [worker EXCEPT ![w].pc = pc, ![w].tries = @ + 1]
  ELSE Goto(w, onwards)

\* runPipeline up to its commit: a worker whose heartbeat gave up fails; another
\* one may fail, be refused by a check or end on an error nobody handles.
Work(w) ==
  /\ worker[w].pc = "work"
  /\ IF heart[w].misses = Attempts["beat"] THEN Goto(w, "failed")
     ELSE \E pc \in {"verify", "failed", "fatal", "release"} : Goto(w, pc)
  /\ heart' = [heart EXCEPT ![w].misses = 0]
  /\ UNCHANGED <<lease, last, clone, tick, cut, issue, faults>>

\* claimOwned: only refs that were read and differ count as a loss; when nothing
\* can be read for long enough the worker goes on.
Verify(w) ==
  LET c == Home[w] IN
  /\ worker[w].pc = "verify"
  /\ \/ file[c] # 0 /\ file[c] = lease.sha /\ Goto(w, "fence") /\ UNCHANGED faults
     \/ file[c] # 0 /\ Fault /\ Goto(w, "fence")
     \/ file[c] # lease.sha /\ Retry(w, "verify", "failed") /\ UNCHANGED faults
     \/ file[c] = 0 /\ Goto(w, "failed") /\ UNCHANGED faults
  /\ UNCHANGED <<lease, last, clone, heart, tick, cut, issue>>

\* Faulty variant: the commit of a fence reads like that of a claim.
FenceLikeClaim(sha, c) == Lease(sha, c, FALSE)

FenceCommit(sha, c) == Lease(sha, c, TRUE)

\* fenceClaim writes the marker that silences the heartbeat, then replaces the
\* commit of the file; a death after the push leaves the older commit in it.
Fence(w) ==
  LET c == Home[w] IN
  /\ worker[w].pc = "fence"
  /\ silent' = [silent EXCEPT ![c] = TRUE]
  /\ \/ /\ file[c] # 0 /\ file[c] = lease.sha /\ last < MaxCommits
        /\ lease' = FenceCommit(last + 1, c) /\ last' = last + 1
        /\ \/ /\ file' = [file EXCEPT ![c] = last + 1] /\ Goto(w, "publish")
              /\ UNCHANGED <<heart, pid, cut, faults>>
           \/ Fault /\ Drops(w) /\ UNCHANGED file
     \/ /\ IF file[c] = 0 \/ last = MaxCommits THEN UNCHANGED <<lease, faults>>
           ELSE Push(file[c], FenceCommit(last + 1, c), FALSE)
        /\ last' = IF lease' = lease THEN last ELSE last + 1
        /\ Retry(w, "fence", "failed")
        /\ UNCHANGED <<file, heart, pid, cut>>
  /\ UNCHANGED <<tick, issue>>

\* The branch is pushed, its pull request opened and labelled and the issue taken
\* out of the queue; or it fails on the way.
Publish(w) ==
  /\ worker[w].pc = "publish"
  /\ \/ Goto(w, "release") /\ labels' = labels \ {"running", "ready"}
     \/ \E pc \in {"failed", "release"} : Goto(w, pc) /\ UNCHANGED labels
  /\ UNCHANGED <<lease, last, clone, heart, tick, cut, open, requeues, faults>>

\* The issue goes back to the queue while the budget lasts, then to a person.
Requeued ==
  IF requeues < MaxRequeues
  THEN labels' = (labels \ {"running"}) \union {"queued"} /\ requeues' = requeues + 1
  ELSE labels' = (labels \ {"running", "queued"}) \union {"blocked"} /\ UNCHANGED requeues

Block == labels' = (labels \ {"running", "queued"}) \union {"blocked"} /\ UNCHANGED requeues

\* handleFailure: a closed issue is left as it is.
HandleFailure(w) ==
  /\ worker[w].pc \in {"failed", "fatal"}
  /\ \/ open /\ worker[w].pc = "failed" /\ Requeued /\ UNCHANGED faults
     \/ open /\ worker[w].pc = "fatal" /\ Block /\ UNCHANGED faults
     \/ ~open /\ UNCHANGED <<labels, requeues, faults>>
     \/ Fault /\ UNCHANGED <<labels, requeues>>
  /\ Goto(w, "release")
  /\ UNCHANGED <<lease, last, clone, heart, tick, cut, open>>

\* The workers a clone can still start; a worker outlives its issue-N.pid only
\* where another one can be started beside it.
Spare(c) == {w \in Workers : Home[w] = c /\ worker[w].pc = "gone"}

\* What is left after releaseClaim takes no time, or so long that the daemon may
\* start another worker meanwhile; by then the last beat is over.
Leaves(w) ==
  \/ End(w) /\ UNCHANGED faults
  \/ /\ Spare(Home[w]) # {} /\ Fault /\ ~Beating(w) /\ Goto(w, "lingers")
     /\ UNCHANGED <<heart, pid, silent, cut>>

\* releaseClaim at the end of runWorker: the file is read again for every try,
\* and is removed last.
Release(w) ==
  LET c == Home[w] IN
  /\ worker[w].pc = "release"
  /\ \/ /\ file[c] = 0 /\ Leaves(w)
        /\ UNCHANGED <<lease, file>>
     \/ /\ file[c] # 0 /\ file[c] = lease.sha /\ lease' = NoLease
        /\ \/ file' = [file EXCEPT ![c] = 0] /\ Leaves(w)
           \/ Fault /\ Drops(w) /\ UNCHANGED <<file, silent>>
     \/ /\ file[c] # 0 /\ UNCHANGED file
        /\ IF worker[w].tries + 1 < Attempts["release"]
           THEN /\ Push(file[c], NoLease, FALSE)
                /\ Retry(w, "release", "release") /\ UNCHANGED <<heart, pid, silent, cut>>
           ELSE \/ Push(file[c], NoLease, FALSE) /\ End(w)
                \/ file[c] # lease.sha /\ UNCHANGED lease /\ Leaves(w)
  /\ UNCHANGED <<last, tick, issue>>

Linger(w) ==
  /\ worker[w].pc = "lingers" /\ End(w)
  /\ UNCHANGED <<lease, last, file, tick, issue, faults>>

\* A worker is killed, as stuck or with its machine.
Die(w) ==
  /\ worker[w].pc # "gone" /\ Fault
  /\ Drops(w)
  /\ UNCHANGED <<lease, last, file, silent, tick, issue>>

-----------------------------------------------------------------------------
(* A tick of the daemon, dispatchTick, in the order of its phases. *)

\* The tick goes on with another phase, or with the next step of this one.
Go(c, pc) == tick' = [tick EXCEPT ![c] = [Idle EXCEPT !.pc = pc]]
Aim(c, pc, goal, sha) == tick' = [tick EXCEPT ![c] = [Idle EXCEPT !.pc = pc, !.goal = goal, !.sha = sha]]

NoFile(c) == file' = [file EXCEPT ![c] = 0]

\* Where a tick goes on when a part of it returns, by what the part was for.
Free == [sweep |-> "closed", recover |-> "requeue", closed |-> "remote", giveUp |-> "idle"]
Held == [sweep |-> "closed", recover |-> "frontier", lingering |-> "recover",
         expired |-> "frontier", reclaim |-> "idle"]
Taken == [sweep |-> "closed", recover |-> "requeue", lingering |-> "recover", expired |-> "requeue"]
\* An error in the first two is caught; any other one ends the tick.
Thrown == [sweep |-> "closed", lingering |-> "recover", recover |-> "idle",
           expired |-> "idle", reclaim |-> "idle"]

Eligible == open /\ {"queued", "ready"} \subseteq labels /\ "running" \notin labels

\* Faulty variant: an expired claim is left to the clone that made it.
AbandonedHere(c) == file[c] # 0 \/ lease.sha = 0

Abandoned(c) == file[c] # 0 \/ lease.sha = 0 \/ lease.stale

\* What each phase looks for: a file left by a dead worker of an issue that is
\* not running; the worktree of a closed issue; its claim, stale or not
\* (releaseClosedRemoteClaims); an issue running without a worker, whose claim
\* is this clone's, gone or stale; an issue to claim.
HasWork(c, phase) ==
  CASE phase = "idle" -> file[c] # 0 /\ ~Alive(c) /\ "running" \notin labels
    [] phase = "closed" -> file[c] # 0 /\ ~open /\ ~Alive(c)
    [] phase = "remote" -> lease.sha # 0 /\ ~open
    [] phase = "recover" -> open /\ "running" \in labels /\ ~Alive(c) /\ Abandoned(c)
    [] phase = "frontier" -> Eligible

Phases == <<"idle", "closed", "remote", "recover", "frontier">>

\* The tick enters the next phase that has work, or ends.
Phase(c) ==
  /\ \E i \in DOMAIN Phases :
       /\ tick[c].pc = Phases[i]
       /\ \/ \E j \in i..Len(Phases) :
               /\ HasWork(c, Phases[j]) /\ \A k \in i..(j - 1) : ~HasWork(c, Phases[k])
               /\ CASE Phases[j] = "idle" -> Aim(c, "release", "sweep", 0)
                    [] Phases[j] = "closed" -> Aim(c, "release", "closed", 0)
                    [] Phases[j] = "remote" -> Aim(c, "compare", "lingering", 0)
                    [] Phases[j] = "recover" /\ file[c] # 0 -> Aim(c, "release", "recover", 0)
                    [] Phases[j] = "recover" /\ file[c] = 0 /\ lease.sha = 0 ->
                         Aim(c, "requeue", "expired", 0)
                    [] Phases[j] = "recover" /\ file[c] = 0 /\ lease.sha # 0 ->
                         Aim(c, "compare", "expired", lease.sha)
                    [] Phases[j] = "frontier" -> Aim(c, "claim", "none", 0)
          \/ /\ \A j \in i..Len(Phases) : ~HasWork(c, Phases[j])
             /\ tick' = [tick EXCEPT ![c] = Idle]
  /\ UNCHANGED <<lease, last, clone, worker, heart, cut, issue, faults>>

\* requeueWithBudget; the issue is left to the next tick when GitHub refuses.
RequeueDead(c) ==
  /\ tick[c].pc = "requeue"
  /\ \/ Requeued /\ Go(c, "frontier") /\ UNCHANGED faults
     \/ Fault /\ Go(c, "idle") /\ UNCHANGED <<labels, requeues>>
  /\ UNCHANGED <<lease, last, clone, worker, heart, cut, open>>

-----------------------------------------------------------------------------
(* Parts of a tick: releaseClaim, forceReleaseDeadLocalClaim and            *)
(* releaseRemoteClaim.                                                      *)

\* A tick that has recovered an issue or cleaned up a closed one removes the marker.
Tidied(c) ==
  silent' = [silent EXCEPT ![c] =
               @ /\ ~(tick[c].goal \in {"recover", "closed"} /\ tick'[c].pc \in {"requeue", "remote"})]

\* An own claim is released, and its file removed; a closed issue loses its file
\* whether the release succeeds or not, a dead worker's is looked at again.
ReleaseOwn(c) ==
  /\ tick[c].pc = "release"
  /\ \/ /\ file[c] = 0 /\ Go(c, Free[tick[c].goal])
        /\ UNCHANGED <<lease, file, faults>>
     \/ /\ file[c] # 0 /\ file[c] = lease.sha /\ lease' = NoLease
        /\ \/ NoFile(c) /\ Go(c, Free[tick[c].goal]) /\ UNCHANGED faults
           \/ Fault /\ Go(c, "idle") /\ UNCHANGED file
     \/ /\ file[c] # 0 /\ Push(file[c], NoLease, FALSE)
        /\ IF tick[c].tries + 1 < Attempts["release"]
           THEN tick' = [tick EXCEPT ![c].tries = @ + 1] /\ UNCHANGED file
           ELSE \/ tick[c].goal = "closed" /\ NoFile(c) /\ Go(c, "remote")
                \/ tick[c].goal = "giveUp" /\ UNCHANGED file /\ Go(c, "idle")
                \/ /\ tick[c].goal \in {"sweep", "recover"} /\ UNCHANGED file
                   /\ Aim(c, "drop", tick[c].goal, 0)
  /\ Tidied(c)
  /\ UNCHANGED <<last, pid, worker, heart, cut, issue>>

\* The file differs from the remote: it is dropped if the claim is gone, and the
\* claim is taken if it is stale.
Drop(c) ==
  /\ tick[c].pc = "drop"
  /\ IF file[c] = 0 \/ lease.sha = 0
     THEN Go(c, Free[tick[c].goal]) /\ NoFile(c)
     ELSE /\ IF lease.sha # 0 /\ lease.stale
             THEN Aim(c, "compare", tick[c].goal, lease.sha) ELSE Go(c, Held[tick[c].goal])
          /\ UNCHANGED file
  /\ Tidied(c)
  /\ UNCHANGED <<lease, last, pid, worker, heart, cut, issue, faults>>

\* The claim is gone: the tick goes on, without the file of a worker long dead.
Gained(c) ==
  IF tick[c].goal = "reclaim"
  THEN NoFile(c) /\ tick' = [tick EXCEPT ![c] = [Idle EXCEPT !.pc = "claim", !.tries = 1]]
  ELSE /\ Go(c, Taken[tick[c].goal])
       /\ IF tick[c].goal \in {"sweep", "recover"} THEN NoFile(c) ELSE UNCHANGED file

\* The claim must be the one expected, if any is; its slot is read from the
\* message of its commit, which that of a fence does not have.
Compare(c) ==
  /\ tick[c].pc = "compare"
  /\ \/ lease.sha = 0 /\ Gained(c) /\ UNCHANGED faults
     \/ /\ lease.sha # 0 /\ tick[c].sha \notin {0, lease.sha}
        /\ Go(c, Held[tick[c].goal]) /\ UNCHANGED <<file, faults>>
     \/ /\ lease.sha # 0 /\ tick[c].sha \in {0, lease.sha} /\ lease.fence
        /\ Go(c, Thrown[tick[c].goal]) /\ UNCHANGED <<file, faults>>
     \/ /\ lease.sha # 0 /\ tick[c].sha \in {0, lease.sha} /\ ~lease.fence
        /\ tick' = [tick EXCEPT ![c].pc = "take", ![c].sha = lease.sha] /\ UNCHANGED <<file, faults>>
     \/ Fault /\ Go(c, Thrown[tick[c].goal]) /\ UNCHANGED file
  /\ Tidied(c)
  /\ UNCHANGED <<lease, last, pid, worker, heart, cut, issue>>

\* Faulty variant: the refs are deleted whatever they hold by now.
ExpectedAny(c) == lease.sha

Expected(c) == tick[c].sha

\* A refused push counts as taken as well: what it meant to delete has changed.
Take(c) ==
  /\ tick[c].pc = "take"
  /\ \E accepted \in BOOLEAN : Push(Expected(c), NoLease, accepted)
  /\ Gained(c)
  /\ Tidied(c)
  /\ UNCHANGED <<last, pid, worker, heart, cut, issue>>

-----------------------------------------------------------------------------
(* The claim. *)

Refused(c) == tick' = [tick EXCEPT ![c].pc = "contend", ![c].sha = 0]

\* claimIssue writes its file before it pushes.
Claim(c) ==
  /\ tick[c].pc = "claim"
  /\ IF file[c] = 0 /\ last < MaxCommits
     THEN /\ last' = last + 1 /\ file' = [file EXCEPT ![c] = last + 1]
          /\ tick' = [tick EXCEPT ![c].pc = "push", ![c].sha = last + 1]
     ELSE Refused(c) /\ UNCHANGED <<last, file>>
  /\ UNCHANGED <<lease, silent, pid, worker, heart, cut, issue, faults>>

\* The new refs must not exist; a full set of slots is one of the faults.  A
\* refused claim takes its file back.
ClaimPush(c) ==
  /\ tick[c].pc = "push"
  /\ \E accepted \in BOOLEAN :
       /\ Push(0, Lease(tick[c].sha, c, FALSE), accepted)
       /\ (IF accepted THEN Go(c, "recheck") ELSE Refused(c))
       /\ IF accepted THEN UNCHANGED file ELSE NoFile(c)
  /\ UNCHANGED <<last, silent, pid, worker, heart, cut, issue>>

\* A refused claim: an own worker that lives is waited for, a file without a
\* claim and a stale claim make room for a second try.
Contend(c) ==
  /\ tick[c].pc = "contend"
  /\ IF Alive(c) \/ tick[c].tries > 0 THEN Go(c, "idle") /\ UNCHANGED file
     ELSE \/ /\ file[c] # 0 /\ lease.sha = 0 /\ NoFile(c)
             /\ tick' = [tick EXCEPT ![c].pc = "claim", ![c].tries = 1]
          \/ /\ lease.sha # 0 /\ lease.stale /\ UNCHANGED file
             /\ Aim(c, "compare", "reclaim", lease.sha)
          \/ /\ file[c] = 0 \/ lease.sha # 0
             /\ ~lease.stale /\ Go(c, "idle") /\ UNCHANGED file
  /\ UNCHANGED <<lease, last, silent, pid, worker, heart, cut, issue, faults>>

\* The issue must still be eligible, and its worktree must be made.
Recheck(c) ==
  /\ tick[c].pc = "recheck"
  /\ \/ Eligible /\ Go(c, "start") /\ UNCHANGED faults
     \/ ~Eligible /\ Aim(c, "release", "giveUp", 0) /\ UNCHANGED faults
     \/ Fault /\ Aim(c, "release", "giveUp", 0)
  /\ UNCHANGED <<lease, last, clone, worker, heart, cut, issue>>

\* The labels are edited, the marker the last worker left is removed, the next
\* one starts and issue-N.pid is written, unless the daemon dies or cannot write
\* on the way (the comment at dispatch.ts:413 knows of a worker without a file).
Start(c) ==
  /\ tick[c].pc = "start" /\ Spare(c) # {}
  /\ \/ /\ labels' = (labels \ {"queued"}) \union {"running"} /\ Go(c, "idle")
        /\ \/ /\ silent' = [silent EXCEPT ![c] = FALSE]
              /\ LET w == CHOOSE v \in Spare(c) : TRUE IN
                   /\ Goto(w, "work")
                   /\ \/ pid' = [pid EXCEPT ![c] = w] /\ UNCHANGED <<cut, faults>>
                      \/ /\ Spare(c) # {w} /\ Fault
                         /\ cut' = cut \union {c} /\ UNCHANGED pid
           \/ Fault /\ UNCHANGED <<silent, worker, pid, cut>>
     \/ Fault /\ Aim(c, "release", "giveUp", 0) /\ UNCHANGED <<labels, silent, worker, pid, cut>>
  /\ UNCHANGED <<lease, last, file, heart, open, requeues>>

\* The daemon dies in the middle of a tick and is started again.
Restart(c) ==
  /\ tick[c].pc # "idle" /\ Fault
  /\ tick' = [tick EXCEPT ![c] = Idle]
  /\ UNCHANGED <<lease, last, clone, worker, heart, cut, issue>>

-----------------------------------------------------------------------------

HeartStep(w) == Beat(w) \/ Renew(w) \/ Remember(w)

WorkerStep(w) ==
  \/ Work(w) \/ Verify(w) \/ Fence(w) \/ Publish(w) \/ HandleFailure(w)
  \/ Release(w) \/ Linger(w)

TickStep(c) ==
  \/ Phase(c) \/ RequeueDead(c)
  \/ ReleaseOwn(c) \/ Drop(c) \/ Compare(c) \/ Take(c)
  \/ Claim(c) \/ ClaimPush(c) \/ Contend(c) \/ Recheck(c) \/ Start(c)

Next ==
  \/ Age \/ Close
  \/ \E w \in Workers : HeartStep(w) \/ WorkerStep(w) \/ Die(w)
  \/ \E c \in Clones : TickStep(c) \/ Restart(c)

Spec == Init /\ [][Next]_vars

\* Time passes, and the daemon and the workers of the running clones take their
\* next steps; the other clones may stop for good at any point.
FairSpec ==
  /\ Spec /\ WF_lease(Age)
  /\ \A c \in Running : WF_tick(TickStep(c))
  /\ \A w \in Workers : Home[w] \in Running => WF_worker(WorkerStep(w))

-----------------------------------------------------------------------------

\* A worker that has fenced its claim holds it until it has published, whatever
\* the other clones take for stale: no two publish (docs/agents/agent-loop.md:
\* a worker that lost its lease cannot publish).  In a clone where a worker lived
\* that issue-N.pid did not name nothing is promised: workers and ticks share one
\* claim file there.
PublisherHoldsLease ==
  \A w \in Workers :
    worker[w].pc = "publish" /\ Home[w] \notin cut =>
      lease.fence /\ lease.by = Home[w] /\ lease.sha = file[Home[w]]

\* The claim of a working worker is taken from it only when it is stale or the
\* issue is closed: a renewal that comes between the look at a stale claim and
\* its deletion saves it.  A worker without a pid file has no such protection
\* (dispatch.ts:463): a tick of its own clone takes it for dead.
TakenOnlyWhenStale ==
  [][\A w \in Workers :
       (/\ Works(w) /\ Home[w] \notin cut /\ lease.by = Home[w]
        /\ ~lease.stale /\ open /\ lease'.sha # lease.sha) =>
         worker'[w] # worker[w] \/ heart'[w] # heart[w]]_vars

Awaited == ~open \/ Eligible \/ "running" \in labels

\* A claim that is no fence does not stay for good on an issue that waits to be
\* worked on, is being worked on or is closed, whoever died or lost an answer
\* between its push and its file (claim.ts: forceReleaseDeadLocalClaim).
Recovered == []<>~(lease.sha # 0 /\ ~lease.fence /\ Awaited)
=============================================================================
