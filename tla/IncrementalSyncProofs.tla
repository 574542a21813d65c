------------------------- MODULE IncrementalSyncProofs -------------------------
(* Proofs about IncrementalSync: for any tickets, page size, number of  *)
(* transactions, and any durations the overlap covers.                  *)
EXTENDS IncrementalSync, FiniteSetTheorems, TLAPS

Cursor == [primary : Nat, id : Nat, first : BOOLEAN]

Sweep == [on : BOOLEAN, began : Nat, since : Nat, last : Cursor]

Types ==
  /\ stamp \in [Tickets -> Nat]
  /\ open \subseteq [ticket : Tickets, stamp : Nat \ {0}]
  /\ stale \subseteq Tickets
  /\ sweep \in Sweep
  /\ seen \in Nat /\ now \in Nat \ {0}

\* What the clock says of the changes, the sweep and what it has seen.
InTime ==
  /\ \A w \in open : w.stamp <= now /\ now <= w.stamp + Longest
  /\ sweep.on => sweep.began <= now /\ now <= sweep.began + Sweeping
  /\ \A t \in Tickets : stamp[t] <= now
  /\ seen <= now

\* The sweep will still come to it.
Ahead(t) == stamp[t] >= sweep.since /\ Beyond(t, sweep.last)

\* Why no change is lost: it is due, and the sweep, if there is one, will
\* either come to it or began no longer than a transaction after its stamp.
Kept(t) ==
  /\ stamp[t] # Never
  /\ Due(t)
  /\ sweep.on => Ahead(t) \/ stamp[t] + Longest >= sweep.began

Consistent == Types /\ InTime /\ \A t \in stale : Kept(t)

LEMMA Initially == Init => Consistent
BY DEF Init, Consistent, Types, InTime, NoSweep, Start, Sweep, Cursor, Never

LEMMA WriteStep ==
  ASSUME Consistent, NEW t \in Tickets, WriteTicket(t)
  PROVE  Consistent'
<1> USE DEF Consistent
<1>1. [ticket |-> t, stamp |-> now] \in [ticket : Tickets, stamp : Nat \ {0}] BY DEF Types
<1>2. Types' BY <1>1 DEF WriteTicket, Types
<1>3. InTime' BY SyncAssumption DEF WriteTicket, InTime, Types
<1>4. \A u \in stale : Kept(u)' BY DEF WriteTicket, Kept, Due, Ahead, Beyond
<1> QED BY <1>2, <1>3, <1>4 DEF WriteTicket

LEMMA CommitStep ==
  ASSUME Consistent, NEW w \in open, Commit(w)
  PROVE  Consistent'
<1> USE DEF Consistent
<1>1. w.ticket \in Tickets /\ w.stamp \in Nat \ {0} /\ now \in Nat BY DEF Types
<1>2. /\ stamp'[w.ticket] = w.stamp
      /\ \A t \in Tickets : t # w.ticket => stamp'[t] = stamp[t]
      /\ stamp' \in [Tickets -> Nat]
  BY <1>1 DEF Commit, Types
<1>3. Types' BY <1>1, <1>2 DEF Commit, Types
<1>4. InTime' BY <1>1, <1>2 DEF Commit, InTime
<1>5. Kept(w.ticket)'
  <2>1. w.stamp + Longest >= now BY <1>1, SyncAssumption DEF InTime
  <2>2. w.stamp + Overlap >= seen BY <1>1, <2>1, SyncAssumption DEF InTime, Types
  <2>3. sweep.on => w.stamp + Longest >= sweep.began
    BY <1>1, <2>1, SyncAssumption DEF InTime, Types, Sweep
  <2> QED BY <1>1, <1>2, <2>2, <2>3 DEF Commit, Kept, Due, Never
<1>6. \A t \in stale : t # w.ticket => Kept(t)'
  BY <1>2 DEF Commit, Kept, Due, Ahead, Beyond, Types
<1> QED BY <1>3, <1>4, <1>5, <1>6 DEF Commit

LEMMA BeginSweepStep ==
  ASSUME Consistent, BeginSweep
  PROVE  Consistent'
<1> USE DEF Consistent
<1> DEFINE since == IF seen >= Overlap THEN seen - Overlap ELSE 0
<1>1. since \in Nat BY SyncAssumption DEF Types
<1>2. sweep' = [on |-> TRUE, began |-> now, last |-> Start, since |-> since] BY DEF BeginSweep
<1>3. Start \in Cursor /\ Start.first BY DEF Start, Cursor
<1>4. /\ sweep' \in Sweep /\ sweep'.on /\ sweep'.began = now
      /\ sweep'.since = since /\ sweep'.last = Start
  BY <1>1, <1>2, <1>3 DEF Types, Sweep
<1>5. Types' BY <1>4 DEF BeginSweep, Types
<1>6. InTime' BY <1>4, SyncAssumption DEF BeginSweep, InTime, Types
<1>7. ASSUME NEW t \in stale PROVE Kept(t)'
  <2>1. stamp[t] \in Nat /\ Due(t) /\ stamp[t] # Never BY DEF Types, Kept
  <2>2. stamp[t] >= since BY <2>1, SyncAssumption DEF Due, Types
  <2> QED BY <2>1, <2>2, <1>3, <1>4 DEF BeginSweep, Kept, Due, Ahead, Beyond
<1> QED BY <1>5, <1>6, <1>7 DEF BeginSweep

\* The sweep ends, and what it has seen is as late as now at most.
LEMMA EndsStep ==
  ASSUME Consistent, sweep' = NoSweep, UNCHANGED <<stamp, open, now>>,
         stale' \subseteq stale, seen' \in Nat, seen' <= now, \A t \in stale' : Due(t)'
  PROVE  Consistent'
<1> USE DEF Consistent
<1>1. NoSweep \in Sweep /\ ~NoSweep.on BY DEF NoSweep, Start, Sweep, Cursor
<1>2. Types' BY <1>1 DEF Types
<1>3. InTime' BY <1>1 DEF InTime
<1>4. \A t \in stale' : Kept(t)' BY <1>1 DEF Kept
<1> QED BY <1>2, <1>3, <1>4

\* What is changed behind the sweep is due after it.
LEMMA LateIsDue ==
  ASSUME Consistent, sweep.on, NEW t \in Tickets, stamp[t] + Longest >= sweep.began,
         NEW s \in Nat, s <= now
  PROVE  stamp[t] + Overlap >= s
BY SyncAssumption DEF Consistent, InTime, Types, Sweep

LEMMA ReadPageStep ==
  ASSUME Consistent, ReadPage
  PROVE  Consistent'
<1> USE DEF Consistent
<1>1. sweep.on /\ UNCHANGED <<stamp, open, now>> BY DEF ReadPage
<1>2. PICK page \in SUBSET Tickets :
        /\ IsPage(page) /\ stale' = stale \ page
        /\ IF page = {} THEN sweep' = NoSweep /\ UNCHANGED seen
           ELSE \E z \in page :
                  /\ \A t \in page : ~Before(z, t)
                  /\ seen' = IF stamp[z] > seen THEN stamp[z] ELSE seen
                  /\ sweep' = IF page = Rest THEN NoSweep
                              ELSE [sweep EXCEPT !.last =
                                     [primary |-> stamp[z], id |-> z, first |-> FALSE]]
  BY DEF ReadPage
<1>3. page \subseteq Rest /\ \A t \in page, u \in Rest \ page : Before(t, u)
  BY <1>2 DEF IsPage
<1>4. \A t \in stale : t \in Tickets /\ stamp[t] \in Nat /\ stamp[t] # Never
  BY DEF Types, Kept
<1>5. \A t \in stale : t \in Rest \/ stamp[t] + Longest >= sweep.began
  BY <1>1, <1>4 DEF Kept, Ahead, Rest, There
<1>6. CASE page = {}
  <2>1. \A t \in stale' : Due(t)' BY <1>1, <1>2, <1>6 DEF Kept, Due
  <2> QED BY <1>1, <1>2, <1>6, <2>1, EndsStep DEF Types, InTime
<1>7. CASE page # {}
  <2>1. PICK z \in page :
          /\ seen' = IF stamp[z] > seen THEN stamp[z] ELSE seen
          /\ sweep' = IF page = Rest THEN NoSweep
                      ELSE [sweep EXCEPT !.last =
                             [primary |-> stamp[z], id |-> z, first |-> FALSE]]
    BY <1>2, <1>7
  <2>2. z \in Tickets /\ z \in Nat /\ stamp[z] \in Nat /\ stamp[z] <= now
    BY <1>2, <2>1, SyncAssumption DEF Types, InTime
  <2>3. seen' \in Nat /\ seen' <= now BY <2>1, <2>2 DEF Types, InTime
  <2>4. ASSUME NEW t \in stale' PROVE Due(t)'
    <3>1. t \in stale /\ t \notin page BY <1>2
    <3>2. CASE t \in Rest
      <4>1. Before(z, t) BY <1>3, <3>1, <3>2
      <4>2. stamp[t] >= stamp[z] BY <1>4, <2>2, <3>1, <4>1 DEF Before
      <4> QED BY <1>1, <1>4, <2>1, <2>2, <3>1, <4>2, SyncAssumption DEF Kept, Due, Types
    <3>3. CASE stamp[t] + Longest >= sweep.began
      BY <1>1, <1>4, <2>3, <3>1, <3>3, LateIsDue DEF Due
    <3> QED BY <1>5, <3>1, <3>2, <3>3
  <2>5. CASE page = Rest BY <1>1, <1>2, <2>1, <2>3, <2>4, <2>5, EndsStep
  <2>6. CASE page # Rest
    <3> DEFINE last == [primary |-> stamp[z], id |-> z, first |-> FALSE]
    <3>1. last \in Cursor /\ last.primary = stamp[z] /\ last.id = z /\ ~last.first
      BY <2>2 DEF Cursor
    <3>2. sweep' = [sweep EXCEPT !.last = last] BY <2>1, <2>6
    <3> HIDE DEF last
    <3>3. /\ sweep' \in Sweep /\ sweep'.on /\ sweep'.began = sweep.began
          /\ sweep'.since = sweep.since /\ sweep'.last = last
      BY <1>1, <3>1, <3>2 DEF Types, Sweep
    <3>4. Types' BY <1>1, <1>2, <2>3, <3>3 DEF Types
    <3>5. InTime' BY <1>1, <2>3, <3>3 DEF InTime
    <3>6. ASSUME NEW t \in stale' PROVE Kept(t)'
      <4>1. t \in stale /\ t \notin page BY <1>2
      <4>2. CASE t \in Rest
        <5>1. Before(z, t) BY <1>3, <4>1, <4>2
        <5>2. stamp[t] > stamp[z] \/ (stamp[t] = stamp[z] /\ t > z)
          BY <1>4, <2>2, <4>1, <5>1, SyncAssumption DEF Before
        <5>3. Ahead(t)' BY <1>1, <3>1, <3>3, <4>2, <5>2 DEF Ahead, Beyond, Rest
        <5> QED BY <1>1, <1>4, <2>4, <4>1, <5>3 DEF Kept
      <4>3. CASE stamp[t] + Longest >= sweep.began
        BY <1>1, <1>4, <2>4, <3>3, <4>1, <4>3 DEF Kept
      <4> QED BY <1>5, <4>1, <4>2, <4>3
    <3> QED BY <3>4, <3>5, <3>6
  <2> QED BY <2>5, <2>6
<1> QED BY <1>6, <1>7

LEMMA PassTimeStep ==
  ASSUME Consistent, PassTime
  PROVE  Consistent'
<1> USE DEF Consistent
<1>1. now' = now + 1 /\ UNCHANGED <<stamp, open, stale, sweep, seen>> BY DEF PassTime
<1>2. Types' BY <1>1 DEF Types
<1>3. InTime' BY <1>1, SyncAssumption DEF PassTime, InTime, Types, Sweep
<1>4. \A t \in stale : Kept(t)' BY <1>1 DEF Kept, Due, Ahead, Beyond
<1> QED BY <1>1, <1>2, <1>3, <1>4

\* A step that changes none of the variables of the invariant but `open`.
LEMMA QuietStep ==
  ASSUME Consistent, open' \subseteq open, UNCHANGED <<stamp, stale, sweep, seen, now>>
  PROVE  Consistent'
BY DEF Consistent, Types, InTime, Kept, Due, Ahead, Beyond

\* The invariant of the sync (open-api-ticket.service.ts).
THEOREM AlwaysConsistent == Spec => []Consistent
<1>1. Consistent /\ [Next]_vars => Consistent'
  <2> SUFFICES ASSUME Consistent, [Next]_vars PROVE Consistent' OBVIOUS
  <2>1. ASSUME NEW t \in Tickets, WriteTicket(t) PROVE Consistent' BY <2>1, WriteStep
  <2>2. ASSUME NEW t \in Tickets, Amend(t) \/ Complete(t) PROVE Consistent'
    BY <2>2, QuietStep DEF Amend, Complete, LeaveStamp
  <2>3. ASSUME NEW w \in open, Commit(w) PROVE Consistent' BY <2>3, CommitStep
  <2>4. ASSUME NEW w \in open, RollBack(w) PROVE Consistent' BY <2>4, QuietStep DEF RollBack
  <2>5. CASE BeginSweep BY <2>5, BeginSweepStep
  <2>6. CASE ReadPage BY <2>6, ReadPageStep
  <2>7. CASE BreakOff
    <3>1. \A t \in stale' : Due(t)' BY <2>7 DEF BreakOff, Consistent, Kept, Due
    <3> QED BY <2>7, <3>1, EndsStep DEF BreakOff, Consistent, Types, InTime
  <2>8. CASE PassTime BY <2>8, PassTimeStep
  <2>9. CASE UNCHANGED vars BY <2>9, QuietStep DEF vars
  <2> QED BY <2>1, <2>2, <2>3, <2>4, <2>5, <2>6, <2>7, <2>8, <2>9 DEF Next
<1> QED BY <1>1, Initially, PTL DEF Spec

\* No stamped change is ever lost, if the overlap covers the longest
\* transaction and the sweep (OPEN_API_INCREMENTAL_CAVEATS).
THEOREM NoChangeIsLost == Spec => []NothingIsLost
<1>1. Consistent => NothingIsLost BY DEF Consistent, Kept, NothingIsLost
<1> QED BY <1>1, AlwaysConsistent, PTL
=============================================================================
