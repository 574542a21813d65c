------------------------------ MODULE RateLimiter ------------------------------
(***************************************************************************)
(* The token buckets of the open API                                       *)
(* (apps/api/src/services/api-rate-limit.service.ts, ApiRateLimiter).      *)
(*                                                                         *)
(* A limiter is a value here, its methods are operators on it.  A token is *)
(* refilled in Share ticks of the clock; levels are counted in ticks, so   *)
(* that a token is Share of them and fractions of a token are exact.       *)
(***************************************************************************)
EXTENDS Naturals

CONSTANTS
  Capacity,   \* tokens of a full bucket (20)
  Share,      \* ticks of the clock in which a token is refilled
  SweepEvery  \* operations between two sweeps (128)

ASSUME LimiterAssumption ==
  /\ Capacity \in Nat \ {0} /\ Share \in Nat \ {0} /\ SweepEvery \in Nat \ {0}

Full == Capacity * Share

\* refilledTokens
Refilled(b, now) ==
  IF b.tokens + (now - b.at) < Full THEN b.tokens + (now - b.at) ELSE Full

\* A bucket that is not there is full.
Level(l, k, now) ==
  IF k \in DOMAIN l.buckets THEN Refilled(l.buckets[k], now) ELSE Full

New == [buckets |-> [k \in {} |-> 0], ops |-> 0]

Without(l, ks) == [l EXCEPT !.buckets = [k \in DOMAIN l.buckets \ ks |-> l.buckets[k]]]

With(l, k, level, now) ==
  [l EXCEPT !.buckets = [j \in DOMAIN l.buckets \union {k} |->
     IF j = k THEN [tokens |-> level, at |-> now] ELSE l.buckets[j]]]

\* Faulty variant: every bucket is swept, full or not.
StaleEver(l, now) == {k \in DOMAIN l.buckets : l.buckets[k].at <= now}

Stale(l, now) == {k \in DOMAIN l.buckets : Refilled(l.buckets[k], now) >= Full}

\* tick: every so many operations a sweep.
Ticked(l, now) ==
  IF l.ops + 1 >= SweepEvery
  THEN [Without(l, Stale(l, now)) EXCEPT !.ops = 0]
  ELSE [l EXCEPT !.ops = @ + 1]

Allows(l, k, now) == Level(Ticked(l, now), k, now) >= Share

Consume(l, k, now) ==
  LET t == Ticked(l, now)
      n == Level(t, k, now)
  IN With(t, k, IF n >= Share THEN n - Share ELSE n, now)

\* refund: a bucket that is gone was full, and one that is full goes.
Refund(l, k, now) ==
  LET t == Ticked(l, now)
      n == Level(t, k, now) + Share
  IN IF k \notin DOMAIN t.buckets THEN t
     ELSE IF n >= Full THEN Without(t, {k}) ELSE With(t, k, n, now)
=============================================================================
