-------------------------------- MODULE OpenApi --------------------------------
(***************************************************************************)
(* Calls of the open API (apps/api/src/routes/open-api/app.ts), composed   *)
(* of the keys (ApiKeys) and two limiters (RateLimiter): the gate counts   *)
(* failed authentication by the address a call comes from, the other one   *)
(* the calls of each key.                                                  *)
(*                                                                         *)
(* A call is taken up, and charged, in one synchronous piece of the event  *)
(* loop; it then waits for the database, and other calls run meanwhile.    *)
(* Abstracted: routes, the access log, the failures counted for the log    *)
(* only, and the owner of a key, of whom any outcome may be found; a key   *)
(* is read when its check ends.  The clock does not go back.               *)
(***************************************************************************)
EXTENDS ApiKeys, RateLimiter

CONSTANTS
  Addresses,  \* where calls come from
  Calls,      \* calls in flight at once
  MaxTime,    \* bound: ticks of the clock
  MaxCalls,   \* bound: calls of one behaviour
  MaxAsked    \* bound: requests of the desk

ASSUME CallsAssumption == IsFiniteSet(Calls)

VARIABLES
  gate,     \* failedAuthLimiter
  limiter,  \* rateLimiter
  call,     \* what each call waits for
  now,      \* the clock
  failed,   \* per address: calls that failed authentication
  passed,   \* per key: calls let through
  taken,    \* calls taken up so far
  asked     \* requests of the desk so far

apiVars == <<gate, limiter, call, now, failed, passed, taken>>
vars == <<keyVars, apiVars, asked>>

Free == [pc |-> "free", from |-> "", key |-> ""]

Init ==
  /\ KeysInit
  /\ gate = New /\ limiter = New
  /\ call = [c \in Calls |-> Free]
  /\ now = 0 /\ taken = 0 /\ asked = 0
  /\ failed = [a \in Addresses |-> 0]
  /\ passed = [k \in Keys |-> 0]

-----------------------------------------------------------------------------

Answer(c) == call' = [call EXCEPT ![c] = Free]

\* bearerAuth up to its await: the gate is charged before the token is read.
TakeUp(c, a, k) ==
  /\ call[c].pc = "free" /\ taken < MaxCalls
  /\ taken' = taken + 1
  /\ gate' = Consume(gate, a, now)
  /\ IF Allows(gate, a, now)
     THEN call' = [call EXCEPT ![c] = [pc |-> "check", from |-> a, key |-> k]]
     ELSE UNCHANGED call
  /\ UNCHANGED <<limiter, now, failed, passed>>

\* The same without a token: an answer at once.
TakeUpBare(a) ==
  /\ taken < MaxCalls
  /\ taken' = taken + 1
  /\ gate' = Consume(gate, a, now)
  /\ failed' = IF Allows(gate, a, now) THEN [failed EXCEPT ![a] = @ + 1] ELSE failed
  /\ UNCHANGED <<limiter, call, now, passed>>

\* validateApiKey: what it may say of a key, or that the database failed.
Outcomes(k) ==
  IF key[k].status = "active"
  THEN {"ok", "expired", "user_disabled", "external_role", "error"}
  ELSE {"invalid", "error"}

\* Faulty variant: only a call that is let through gets its token back.
GivesBackWhenOk(outcome) == outcome = "ok"

GivesBack(outcome) == outcome \in {"ok", "external_role", "error"}

\* bearerAuth after its await.
Check(c) ==
  /\ call[c].pc = "check"
  /\ \E outcome \in Outcomes(call[c].key) :
       /\ gate' = IF GivesBack(outcome) THEN Refund(gate, call[c].from, now) ELSE gate
       /\ failed' = IF outcome \in {"invalid", "expired", "user_disabled"}
                    THEN [failed EXCEPT ![call[c].from] = @ + 1] ELSE failed
       /\ IF outcome = "ok"
          THEN call' = [call EXCEPT ![c].pc = "limit"]
          ELSE Answer(c)
  /\ UNCHANGED <<limiter, now, passed, taken>>

\* rateLimitByKey
Limit(c) ==
  /\ call[c].pc = "limit"
  /\ limiter' = Consume(limiter, call[c].key, now)
  /\ passed' = IF Allows(limiter, call[c].key, now)
               THEN [passed EXCEPT ![call[c].key] = @ + 1] ELSE passed
  /\ Answer(c)
  /\ UNCHANGED <<gate, now, failed, taken>>

PassTime ==
  /\ now < MaxTime
  /\ now' = now + 1
  /\ UNCHANGED <<gate, limiter, call, failed, passed, taken>>

ApiStep ==
  \/ \E c \in Calls : \/ \E a \in Addresses, k \in Keys : TakeUp(c, a, k)
                      \/ Check(c) \/ Limit(c)
  \/ \E a \in Addresses : TakeUpBare(a)
  \/ PassTime

\* A request of the desk; the bound counts those that begin.
DeskStep ==
  /\ KeysNext
  /\ LET begins == \E q \in Requests : request[q].pc = "idle" /\ request'[q].pc # "idle"
     IN /\ begins => asked < MaxAsked
        /\ asked' = IF begins THEN asked + 1 ELSE asked

Next ==
  \/ DeskStep /\ UNCHANGED apiVars
  \/ ApiStep /\ UNCHANGED <<keyVars, asked>>

Spec == Init /\ [][Next]_vars

-----------------------------------------------------------------------------
(* Properties. *)

\* Calls charged and not yet answered.
Pending(a) == {c \in Calls : call[c].pc = "check" /\ call[c].from = a}

\* Failed authentication alone drains the gate: an address is refused for no
\* more than its failures and the calls being checked (bearerAuth: "only
\* failed authentication takes from the bucket").
OnlyFailuresDrain ==
  \A a \in Addresses :
    Level(gate, a, now) + Share * (failed[a] + Cardinality(Pending(a))) >= Full

\* No address fails, and no key is let through, more often than its bucket
\* and what was refilled since allow: not by calls that are checked at the
\* same time, not by what is given back, and not by a sweep.
LimitsHold ==
  /\ \A a \in Addresses :
       Level(gate, a, now) + Share * (failed[a] + Cardinality(Pending(a))) <= Full + now
  /\ \A k \in Keys : Level(limiter, k, now) + Share * passed[k] <= Full + now
=============================================================================
