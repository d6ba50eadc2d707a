--------------------------- MODULE CircuitBreaker ---------------------------
(***************************************************************************)
(* The circuit breaker of one (provider, model), routing/circuit_breaker.py. *)
(*                                                                         *)
(* Every gateway instance shares one Redis hash.  A request is a process   *)
(* that asks the breaker (allows), makes its upstream attempt and records  *)
(* the outcome; every Redis command is an await, hence a step of its own.  *)
(* _write is HSET followed by EXPIRE: one step, with the torn outcome (the *)
(* HSET landed, the EXPIRE did not) among its failures.                    *)
(*                                                                         *)
(* Time is counted in ticks.  The hash stores the instant opened_at; the   *)
(* code only ever uses now - opened_at and compares it with a cooldown no  *)
(* larger than CooldownMax, so the model keeps that age, saturating there. *)
(* The failure count is only ever compared with zero and with the          *)
(* threshold, so it saturates at FailureThreshold.  Locals that are dead   *)
(* (the error once its cooldown is chosen) are reset.                      *)
(***************************************************************************)
EXTENDS Integers, FiniteSets

CONSTANTS
    Requests,          \* concurrent request slots, over all instances
    FailureThreshold,  \* FAILURE_THRESHOLD
    CooldownInitial,   \* COOLDOWN_INITIAL_S, in ticks
    CooldownMax,       \* COOLDOWN_MAX_S, in ticks
    BreakerTtl,        \* keys.BREAKER_TTL_S, in ticks
    Hints,             \* retry_after_s values a RateLimited may carry
    MaxFaults          \* how many Redis errors and lost requests may happen

ASSUME BreakerAssumption ==
    /\ FailureThreshold \in Nat \ {0}
    /\ CooldownInitial \in Nat \ {0}
    /\ CooldownMax \in Nat /\ CooldownInitial <= CooldownMax
    /\ BreakerTtl \in Nat /\ CooldownMax < BreakerTtl
    /\ Hints \subseteq Nat
    /\ MaxFaults \in Nat

VARIABLES
    hash,      \* cb:{provider}:{model}
    elapsed,   \* now - hash.opened_at, saturating at CooldownMax
    ttl,       \* ticks until Redis drops the hash, or NoTtl
    command,   \* command[r]: the Redis command request r issues next
    dec,       \* dec[r]: r's BreakerDecision, and what it read on the way
    upstream,  \* whether the provider answers every call
    faults     \* faults still to come

hashVars == <<hash, elapsed, ttl>>
breakerVars == <<hash, elapsed, ttl, command, dec, upstream, faults>>

-----------------------------------------------------------------------------
NoTtl == -1
NoHolder == "none"
NoCooldown == 0  \* a missing cooldown_s reads as 0.0, which "or" replaces
NoRetryAfter == -1

States == {"closed", "open", "half_open"}

Asking == {"allows", "claim", "mark", "lease", "steal"}
Recording == {"close", "reset", "unclaim", "read_cooldown", "count", "open"}
Commands == Asking \cup {"attempt"} \cup Recording

(* What record_failure looks at in a breaker_eligible error: whether it is a *)
(* RateLimited, and the retry_after_s only a RateLimited may carry.          *)
Error == [limited : {TRUE}, hint : Hints \cup {NoRetryAfter}]
             \cup [limited : {FALSE}, hint : {NoRetryAfter}]

Unavailable == [limited |-> FALSE, hint |-> NoRetryAfter]

Hash == [state : States, failures : 0..FailureThreshold,
         cooldown : {NoCooldown} \cup CooldownInitial..CooldownMax,
         holder : Requests \cup {NoHolder}]

Decision == [probe : BOOLEAN, degraded : BOOLEAN, failures : 0..FailureThreshold,
             cooldown : CooldownInitial..CooldownMax, error : Error]

(* _read_state: an absent hash is a breaker that has never failed.           *)
EmptyHash == [state |-> "closed", failures |-> 0, cooldown |-> NoCooldown,
              holder |-> NoHolder]

(* The part of a BreakerDecision that recording the outcome looks at, with   *)
(* the local cooldown_s and the error being recorded.                        *)
NoDecision == [probe |-> FALSE, degraded |-> FALSE, failures |-> 0,
               cooldown |-> CooldownInitial, error |-> Unavailable]

Clamp(x, lo, hi) == IF x < lo THEN lo ELSE IF x > hi THEN hi ELSE x

(* The "or self._cooldown_initial_s" of every reader.                        *)
CooldownOf(h) == IF h.cooldown = NoCooldown THEN CooldownInitial ELSE h.cooldown


(* COOLDOWN_FACTOR is 2.                                                     *)
NextCooldown(previous, hint) ==
    IF hint # NoRetryAfter THEN Clamp(hint, CooldownInitial, CooldownMax)
    ELSE IF previous = NoCooldown THEN CooldownInitial
    ELSE Clamp(previous * 2, 0, CooldownMax)

(* Slip: one failure too many.                                               *)
TripsAboveThreshold(failures, error) ==
    error.limited \/ failures > FailureThreshold

Trips(failures, error) == error.limited \/ failures >= FailureThreshold

(* The hash after each HSET, HSETNX, HINCRBY and HDEL the breaker issues.    *)
Claimed(r) == [hash EXCEPT !.holder = r]
HalfOpened == [hash EXCEPT !.state = "half_open"]
Stolen(r) == [hash EXCEPT !.state = "half_open", !.holder = r]
Closed == [hash EXCEPT !.state = "closed", !.failures = 0,
                       !.cooldown = CooldownInitial]
StreakReset == [hash EXCEPT !.failures = 0]
Counted == [hash EXCEPT !.failures = Clamp(@ + 1, 0, FailureThreshold)]
Opened(r) == [hash EXCEPT !.state = "open", !.cooldown = dec[r].cooldown,
                          !.failures = dec[r].failures]
Unclaimed == [hash EXCEPT !.holder = NoHolder]

BreakerInit ==
    /\ hash = EmptyHash
    /\ elapsed = CooldownMax
    /\ ttl = NoTtl
    /\ command = [r \in Requests |-> "allows"]
    /\ dec = [r \in Requests |-> NoDecision]
    /\ upstream = "up"
    /\ faults = MaxFaults

Goto(r, label) == command' = [command EXCEPT ![r] = label]
Decide(r, d) == dec' = [dec EXCEPT ![r] = d]
Finish(r) == Goto(r, "allows") /\ Decide(r, NoDecision)

(* Slip: the TTL refresh forgotten.                                          *)
WriteWithoutExpire(h, age) == hash' = h /\ elapsed' = age /\ UNCHANGED ttl

(* _write: HSET, then EXPIRE.                                                *)
Write(h, age) == hash' = h /\ elapsed' = age /\ ttl' = BreakerTtl

-----------------------------------------------------------------------------
(* allows: HGETALL, then the decision from what it returned.                 *)

AllowClosed(r) ==
    /\ command[r] = "allows" /\ hash.state = "closed"
    /\ Goto(r, "attempt")
    /\ Decide(r, [NoDecision EXCEPT !.failures = hash.failures])
    /\ UNCHANGED <<hashVars, upstream, faults>>

(* Skipped: nothing was claimed and nothing will be recorded.                *)
Refuse(r) ==
    /\ command[r] = "allows" /\ hash.state # "closed"
    /\ elapsed < CooldownOf(hash)
    /\ Finish(r)
    /\ UNCHANGED <<hashVars, upstream, faults>>

CooldownElapsed(r) ==
    /\ command[r] = "allows" /\ hash.state # "closed"
    /\ elapsed >= CooldownOf(hash)
    /\ Goto(r, "claim")
    /\ Decide(r, [NoDecision EXCEPT !.failures = hash.failures,
                                    !.cooldown = CooldownOf(hash)])
    /\ UNCHANGED <<hashVars, upstream, faults>>

(* _claim_probe: HSETNX probe_holder.  When the hash has expired since the   *)
(* first read this creates it anew, without a TTL.                           *)
Claim(r) ==
    /\ command[r] = "claim"
    /\ \/ hash.holder = NoHolder /\ hash' = Claimed(r) /\ Goto(r, "mark")
       \/ hash.holder # NoHolder /\ UNCHANGED hash /\ Goto(r, "lease")
    /\ UNCHANGED <<elapsed, ttl, dec, upstream, faults>>

Mark(r) ==
    /\ command[r] = "mark"
    /\ Write(HalfOpened, 0)
    /\ Goto(r, "attempt") /\ Decide(r, [dec[r] EXCEPT !.probe = TRUE])
    /\ UNCHANGED <<upstream, faults>>

(* Someone holds the probe: HGETALL again, and judge their lease by the      *)
(* opened_at found now and the cooldown_s read before the claim.             *)
LeaseAlive(r) ==
    /\ command[r] = "lease" /\ elapsed < dec[r].cooldown
    /\ Finish(r)
    /\ UNCHANGED <<hashVars, upstream, faults>>


LeaseStale(r) ==
    /\ command[r] = "lease" /\ elapsed >= dec[r].cooldown
    /\ Goto(r, "steal")
    /\ UNCHANGED <<hashVars, dec, upstream, faults>>

Steal(r) ==
    /\ command[r] = "steal"
    /\ Write(Stolen(r), 0)
    /\ Goto(r, "attempt") /\ Decide(r, [dec[r] EXCEPT !.probe = TRUE])
    /\ UNCHANGED <<upstream, faults>>

-----------------------------------------------------------------------------
(* The upstream attempt, and the first line of record_success and            *)
(* record_failure: what, if anything, there is to record.                    *)

(* Slip: a successful probe treated as any other success.                    *)
SucceedForgettingProbe(r) ==
    /\ command[r] = "attempt"
    /\ LET d == dec[r] IN
       \/ (d.degraded \/ d.failures = 0) /\ Finish(r)
       \/ ~d.degraded /\ d.failures # 0 /\ Goto(r, "reset") /\ UNCHANGED dec
    /\ UNCHANGED <<hashVars, upstream, faults>>

Succeed(r) ==
    /\ command[r] = "attempt"
    /\ LET d == dec[r] IN
       \/ (d.degraded \/ (~d.probe /\ d.failures = 0)) /\ Finish(r)
       \/ ~d.degraded /\ d.probe /\ Goto(r, "close") /\ UNCHANGED dec
       \/ ~d.degraded /\ ~d.probe /\ d.failures # 0
             /\ Goto(r, "reset") /\ UNCHANGED dec
    /\ UNCHANGED <<hashVars, upstream, faults>>

FailEligible(r) ==
    /\ command[r] = "attempt" /\ upstream = "down"
    /\ \/ dec[r].degraded /\ Finish(r)
       \/ /\ ~dec[r].degraded
          /\ Goto(r, IF dec[r].probe THEN "read_cooldown" ELSE "count")
          /\ \E e \in Error : Decide(r, [dec[r] EXCEPT !.error = e])
    /\ UNCHANGED <<hashVars, upstream, faults>>

(* EmptyResponse, BadRequest and the like are not breaker_eligible: nothing  *)
(* is recorded, and a probe stays claimed until its lease runs out.          *)
FailIneligible(r) ==
    /\ command[r] = "attempt" /\ upstream = "down"
    /\ Finish(r)
    /\ UNCHANGED <<hashVars, upstream, faults>>

-----------------------------------------------------------------------------
(* record_success                                                            *)

CloseProbe(r) ==
    /\ command[r] = "close"
    /\ Write(Closed, elapsed)
    /\ Goto(r, "unclaim") /\ Decide(r, NoDecision)
    /\ UNCHANGED <<upstream, faults>>

ResetStreak(r) ==
    /\ command[r] = "reset"
    /\ Write(StreakReset, elapsed)
    /\ Finish(r)
    /\ UNCHANGED <<upstream, faults>>

(* HDEL probe_holder, whoever the holder is by now.                          *)
Unclaim(r) ==
    /\ command[r] = "unclaim"
    /\ hash' = Unclaimed
    /\ Finish(r)
    /\ UNCHANGED <<elapsed, ttl, upstream, faults>>

-----------------------------------------------------------------------------
(* record_failure                                                            *)

ReadCooldown(r) ==
    /\ command[r] = "read_cooldown"
    /\ Goto(r, "open")
    /\ Decide(r, [dec[r] EXCEPT
          !.cooldown = NextCooldown(hash.cooldown, dec[r].error.hint),
          !.error = Unavailable])
    /\ UNCHANGED <<hashVars, upstream, faults>>

(* HINCRBY and EXPIRE, then the threshold test on the value it returned.     *)
Count(r) ==
    /\ command[r] = "count"
    /\ Write(Counted, elapsed)
    /\ \/ /\ Trips(Counted.failures, dec[r].error)
          /\ Goto(r, "open")
          /\ Decide(r, [dec[r] EXCEPT
                !.failures = Counted.failures,
                !.cooldown = NextCooldown(NoCooldown, dec[r].error.hint),
                !.error = Unavailable])
       \/ ~Trips(Counted.failures, dec[r].error) /\ Finish(r)
    /\ UNCHANGED <<upstream, faults>>

Open(r) ==
    /\ command[r] = "open"
    /\ Write(Opened(r), 0)
    /\ Goto(r, IF dec[r].probe THEN "unclaim" ELSE "allows")
    /\ Decide(r, NoDecision)
    /\ UNCHANGED <<upstream, faults>>

-----------------------------------------------------------------------------
(* Failures.  While asking, an exception fails open: the attempt goes ahead  *)
(* on a degraded decision that records nothing.  While recording, it is      *)
(* swallowed and the rest of the recording is skipped.                       *)

Swallow(r) ==
    \/ command[r] \in Asking /\ Goto(r, "attempt")
          /\ Decide(r, [NoDecision EXCEPT !.degraded = TRUE])
    \/ command[r] \in Recording /\ Finish(r)

RedisError(r) ==
    /\ faults > 0 /\ faults' = faults - 1
    /\ Swallow(r)
    /\ UNCHANGED <<hashVars, upstream>>

(* A command took effect but its answer was lost (SOCKET_TIMEOUT_S), so the  *)
(* EXPIRE of a _write and everything after it is skipped.                    *)
TornWrite(r) ==
    /\ faults > 0 /\ faults' = faults - 1
    /\ \/ command[r] = "claim" /\ hash.holder = NoHolder
             /\ hash' = Claimed(r) /\ UNCHANGED elapsed
       \/ command[r] = "mark" /\ hash' = HalfOpened /\ elapsed' = 0
       \/ command[r] = "steal" /\ hash' = Stolen(r) /\ elapsed' = 0
       \/ command[r] = "close" /\ hash' = Closed /\ UNCHANGED elapsed
       \/ command[r] = "reset" /\ hash' = StreakReset /\ UNCHANGED elapsed
       \/ command[r] = "count" /\ hash' = Counted /\ UNCHANGED elapsed
       \/ command[r] = "open" /\ hash' = Opened(r) /\ elapsed' = 0
    /\ Swallow(r)
    /\ UNCHANGED <<ttl, upstream>>

(* The caller is cancelled or its process dies, or the router moves on       *)
(* without recording (a quota skip, a render error after allows).            *)
Lose(r) ==
    /\ faults > 0 /\ faults' = faults - 1
    /\ command[r] # "allows"
    /\ Finish(r)
    /\ UNCHANGED <<hashVars, upstream>>

-----------------------------------------------------------------------------
(* Environment: time, and the provider's health.                             *)

Tick ==
    /\ elapsed' = IF ttl = 1 \/ elapsed = CooldownMax THEN CooldownMax
                  ELSE elapsed + 1
    /\ ttl' = CASE ttl = NoTtl -> NoTtl [] ttl = 1 -> NoTtl [] OTHER -> ttl - 1
    /\ hash' = IF ttl = 1 THEN EmptyHash ELSE hash
    /\ UNCHANGED <<command, dec, upstream, faults>>

Outage ==
    /\ upstream = "up" /\ upstream' = "down"
    /\ UNCHANGED <<hashVars, command, dec, faults>>

Repair ==
    /\ upstream = "down" /\ upstream' = "up"
    /\ UNCHANGED <<hashVars, command, dec, faults>>

Ask(r) ==
    \/ AllowClosed(r) \/ Refuse(r) \/ CooldownElapsed(r)
    \/ Claim(r) \/ Mark(r) \/ LeaseAlive(r) \/ LeaseStale(r) \/ Steal(r)

Attempt(r) == Succeed(r) \/ FailEligible(r) \/ FailIneligible(r)

RecordOutcome(r) ==
    \/ CloseProbe(r) \/ ResetStreak(r) \/ Unclaim(r)
    \/ ReadCooldown(r) \/ Count(r) \/ Open(r)

Fault(r) == RedisError(r) \/ TornWrite(r) \/ Lose(r)

BreakerNext ==
    \/ \E r \in Requests : Ask(r) \/ Attempt(r) \/ RecordOutcome(r) \/ Fault(r)
    \/ Tick \/ Outage \/ Repair

BreakerSpec == BreakerInit /\ [][BreakerNext]_breakerVars

(* Requests keep arriving and every coroutine is scheduled; the wall clock   *)
(* advances.  Nothing obliges the provider to recover, or a fault to happen. *)
BreakerFairness ==
    /\ WF_breakerVars(Tick)
    /\ \A r \in Requests : WF_breakerVars(Ask(r) \/ Attempt(r) \/ RecordOutcome(r))

BreakerFairSpec == BreakerSpec /\ BreakerFairness

-----------------------------------------------------------------------------
(* The stored cooldown stays within [CooldownInitial, CooldownMax] whatever  *)
(* ladder steps and retry_after_s hints interleave (_next_cooldown); every   *)
(* other field has the shape _read_state and _read_int expect.               *)
BreakerTypeOK ==
    /\ hash \in Hash
    /\ elapsed \in 0..CooldownMax
    /\ ttl \in {NoTtl} \cup 1..BreakerTtl
    /\ command \in [Requests -> Commands]
    /\ dec \in [Requests -> Decision]
    /\ upstream \in {"up", "down"}
    /\ faults \in 0..MaxFaults

NoFaultYet == faults = MaxFaults

(* The hash never expires in the middle of a cooldown or of a probe's lease, *)
(* which would silently close the breaker: as long as no command has been    *)
(* lost, whichever request wrote opened_at also renewed the TTL (_write).    *)
TtlOutlivesCooldown ==
    NoFaultYet /\ hash.state # "closed" /\ elapsed < CooldownOf(hash)
        => ttl > CooldownOf(hash) - elapsed

(* A streak that reached the threshold is never left sitting in a closed     *)
(* breaker: the request whose HINCRBY returned it is about to open it, and   *)
(* no concurrent success, close or reset leaves the count behind             *)
(* (record_failure's use of the value HINCRBY returned).                     *)
TripIsPending ==
    NoFaultYet /\ hash.state = "closed" /\ hash.failures >= FailureThreshold
        => \E r \in Requests : command[r] = "open" /\ ~dec[r].probe

Probing(r) == command[r] = "attempt" /\ dec[r].probe

(* An open breaker is probed again, even when the holder of the last probe   *)
(* died, was skipped on quota or failed with an ineligible error: the lease  *)
(* of _claim_probe runs out and is taken over.                               *)
ReprobedEventually ==
    hash.state # "closed" ~> hash.state = "closed" \/ \E r \in Requests : Probing(r)

(* Once the provider answers every call again, the breaker keeps returning   *)
(* to closed, whatever stale probes and late recordings are still under way. *)
RecoversEventually == <>[](upstream = "up") => []<>(hash.state = "closed")

(* The hash the breaker decides by is sound: its cooldown stays within its   *)
(* bounds, its fields readable, and it never expires under a cooldown or a   *)
(* lease still running, whatever ladder steps, hints, probes and takeovers   *)
(* interleave (_next_cooldown, _write).                                      *)
StateIsSound == BreakerTypeOK /\ TtlOutlivesCooldown

(* An open breaker comes back: it is probed again whoever held the last      *)
(* probe, and closes again once the provider answers (_claim_probe).         *)
ComesBack == ReprobedEventually /\ RecoversEventually

=============================================================================
