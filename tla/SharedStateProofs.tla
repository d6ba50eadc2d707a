------------------------- MODULE SharedStateProofs -------------------------
(***************************************************************************)
(* Theorems about what every gateway instance shares in Redis when it      *)
(* routes: the circuit breaker's hash, for any number of requests, any     *)
(* threshold, cooldowns and TTL and any number of faults; and the quota    *)
(* counters, for any set of concurrent attempts, any published limits,     *)
(* headroom, split and cap, with or without hints.                         *)
(***************************************************************************)
EXTENDS CircuitBreaker, QuotaTracker, TLAPS

-----------------------------------------------------------------------------
(* CircuitBreaker                                                            *)

(* What a cooldown computation returns: _next_cooldown never leaves the      *)
(* range between the initial cooldown and the ceiling.                       *)
LEMMA NextCooldownInRange ==
    ASSUME NEW previous \in {NoCooldown} \cup CooldownInitial..CooldownMax,
           NEW asked \in Hints \cup {NoRetryAfter}
    PROVE  NextCooldown(previous, asked) \in CooldownInitial..CooldownMax
  BY BreakerAssumption DEF NextCooldown, Clamp, NoCooldown, NoRetryAfter

(* Errors carry a hint or none.                                              *)
LEMMA ErrorHint == \A e \in Error : e.hint \in Hints \cup {NoRetryAfter}
  BY DEF Error

(* The values written from nothing are well formed.                          *)
LEMMA FreshValues ==
    /\ EmptyHash \in Hash
    /\ Unavailable \in Error
    /\ NoDecision \in Decision
    /\ [NoDecision EXCEPT !.degraded = TRUE] \in Decision
<1>1. EmptyHash \in Hash
  BY BreakerAssumption DEF EmptyHash, Hash, States
<1>2. Unavailable \in Error
  BY DEF Unavailable, Error
<1>3. NoDecision \in Decision
  BY BreakerAssumption, <1>2 DEF NoDecision, Decision
<1>4. [NoDecision EXCEPT !.degraded = TRUE] \in Decision
  BY <1>3 DEF Decision
<1> QED BY <1>1, <1>2, <1>3, <1>4

(* Every command leaves a well-formed hash.                                  *)
LEMMA HashClosed ==
    ASSUME hash \in Hash, NEW r \in Requests, dec[r] \in Decision
    PROVE  /\ Claimed(r) \in Hash /\ HalfOpened \in Hash /\ Stolen(r) \in Hash
           /\ Closed \in Hash /\ StreakReset \in Hash /\ Counted \in Hash
           /\ Opened(r) \in Hash /\ Unclaimed \in Hash
           /\ CooldownOf(hash) \in CooldownInitial..CooldownMax
           /\ hash.failures \in 0..FailureThreshold
           /\ hash.cooldown \in {NoCooldown} \cup CooldownInitial..CooldownMax
           /\ Counted.failures \in 0..FailureThreshold
<1> USE BreakerAssumption DEF Hash
<1>1. Claimed(r) \in Hash BY DEF Claimed
<1>2. HalfOpened \in Hash BY DEF HalfOpened, States
<1>3. Stolen(r) \in Hash BY DEF Stolen, States
<1>4. Closed \in Hash
  <2>1. CooldownInitial \in CooldownInitial..CooldownMax /\ 0 \in 0..FailureThreshold
    OBVIOUS
  <2> QED BY <2>1 DEF Closed, States
<1>5. StreakReset \in Hash BY DEF StreakReset
<1>6. Counted \in Hash
  <2>1. Clamp(hash.failures + 1, 0, FailureThreshold) \in 0..FailureThreshold
    BY DEF Clamp
  <2> QED BY <2>1 DEF Counted
<1>7. Opened(r) \in Hash BY DEF Opened, States, Decision
<1>8. Unclaimed \in Hash BY DEF Unclaimed
<1>9. CooldownOf(hash) \in CooldownInitial..CooldownMax BY DEF CooldownOf
<1> QED BY <1>1, <1>2, <1>3, <1>4, <1>5, <1>6, <1>7, <1>8, <1>9

(* Every update of a decision leaves a well-formed one.                      *)
LEMMA DecisionClosed ==
    ASSUME NEW d \in Decision, NEW n \in 0..FailureThreshold,
           NEW c \in CooldownInitial..CooldownMax, NEW e \in Error
    PROVE  /\ [d EXCEPT !.failures = n] \in Decision
           /\ [d EXCEPT !.failures = n, !.cooldown = c] \in Decision
           /\ [d EXCEPT !.error = e] \in Decision
           /\ [d EXCEPT !.cooldown = c, !.error = e] \in Decision
           /\ [d EXCEPT !.failures = n, !.cooldown = c, !.error = e] \in Decision
  BY DEF Decision

LEMMA DecisionFields ==
    ASSUME NEW d \in Decision
    PROVE  /\ [d EXCEPT !.probe = TRUE] \in Decision
           /\ d.error \in Error
           /\ d.cooldown \in CooldownInitial..CooldownMax
  BY DEF Decision

(* Type correctness is inductive as it stands: the reads and writes of       *)
(* routing/circuit_breaker.py keep the hash and every decision well formed.  *)
LEMMA BreakerTypeInductive == BreakerTypeOK /\ [BreakerNext]_breakerVars => BreakerTypeOK'
<1> SUFFICES ASSUME BreakerTypeOK, [BreakerNext]_breakerVars PROVE BreakerTypeOK'
  OBVIOUS
<1> USE BreakerAssumption, FreshValues
    DEF BreakerTypeOK, hashVars, Goto, Decide, Finish, Write, Commands, Asking, Recording
<1>1. ASSUME NEW r \in Requests, Ask(r) PROVE BreakerTypeOK'
  <2> USE HashClosed
  <2>0. [dec[r] EXCEPT !.probe = TRUE] \in Decision
    BY DecisionFields
  <2>1. CASE AllowClosed(r) BY <2>1, DecisionClosed DEF AllowClosed
  <2>2. CASE Refuse(r) BY <2>2 DEF Refuse
  <2>3. CASE CooldownElapsed(r) BY <2>3, DecisionClosed DEF CooldownElapsed
  <2>4. CASE Claim(r) BY <2>4 DEF Claim
  <2>5. CASE Mark(r) BY <2>0, <2>5 DEF Mark
  <2>6. CASE LeaseAlive(r) BY <2>6 DEF LeaseAlive
  <2>7. CASE LeaseStale(r) BY <2>7 DEF LeaseStale
  <2>8. CASE Steal(r) BY <2>0, <2>8 DEF Steal
  <2> QED BY <1>1, <2>1, <2>2, <2>3, <2>4, <2>5, <2>6, <2>7, <2>8 DEF Ask
<1>2. ASSUME NEW r \in Requests, Attempt(r) PROVE BreakerTypeOK'
  <2>1. CASE Succeed(r) BY <2>1 DEF Succeed
  <2>2. CASE FailEligible(r)
    <3>1. \A e \in Error : [dec[r] EXCEPT !.error = e] \in Decision
      BY DEF Decision
    <3> QED BY <2>2, <3>1 DEF FailEligible
  <2>3. CASE FailIneligible(r) BY <2>3 DEF FailIneligible
  <2> QED BY <1>2, <2>1, <2>2, <2>3 DEF Attempt
<1>3. ASSUME NEW r \in Requests, RecordOutcome(r) PROVE BreakerTypeOK'
  <2> USE HashClosed
  <2>0. /\ NextCooldown(hash.cooldown, dec[r].error.hint) \in CooldownInitial..CooldownMax
        /\ NextCooldown(NoCooldown, dec[r].error.hint) \in CooldownInitial..CooldownMax
    BY NextCooldownInRange, ErrorHint, DecisionFields
  <2>1. CASE CloseProbe(r) BY <2>1 DEF CloseProbe
  <2>2. CASE ResetStreak(r) BY <2>2 DEF ResetStreak
  <2>3. CASE Unclaim(r) BY <2>3 DEF Unclaim
  <2>4. CASE ReadCooldown(r) BY <2>0, <2>4, DecisionClosed DEF ReadCooldown
  <2>5. CASE Count(r) 
    <3>1. [dec[r] EXCEPT !.failures = Counted.failures,
                         !.cooldown = NextCooldown(NoCooldown, dec[r].error.hint),
                         !.error = Unavailable] \in Decision
      BY <2>0, DecisionClosed
    <3> QED BY <2>5, <3>1 DEF Count
  <2>6. CASE Open(r) BY <2>6 DEF Open
  <2> QED BY <1>3, <2>1, <2>2, <2>3, <2>4, <2>5, <2>6 DEF RecordOutcome
<1>4. ASSUME NEW r \in Requests, Fault(r) PROVE BreakerTypeOK'
  <2>0. Swallow(r) => command' \in [Requests -> Commands] /\ dec' \in [Requests -> Decision]
    BY DEF Swallow
  <2>1. CASE RedisError(r) BY <2>0, <2>1 DEF RedisError
  <2>2. CASE TornWrite(r) BY <2>0, <2>2, HashClosed DEF TornWrite
  <2>3. CASE Lose(r) BY <2>3 DEF Lose
  <2> QED BY <1>4, <2>1, <2>2, <2>3 DEF Fault
<1>5. CASE Tick BY <1>5 DEF Tick, NoTtl
<1>6. CASE Outage BY <1>6 DEF Outage
<1>7. CASE Repair BY <1>7 DEF Repair
<1>8. CASE UNCHANGED breakerVars BY <1>8 DEF breakerVars
<1> QED BY <1>1, <1>2, <1>3, <1>4, <1>5, <1>6, <1>7, <1>8 DEF BreakerNext

(* The stored cooldown is always between the initial one and the ceiling,    *)
(* and the hash and the decisions are always well formed.                    *)
THEOREM BreakerTypeCorrect == BreakerSpec => []BreakerTypeOK
<1>1. BreakerInit => BreakerTypeOK
  BY BreakerAssumption, FreshValues DEF BreakerInit, BreakerTypeOK, Commands, Asking
<1> QED BY <1>1, BreakerTypeInductive, PTL DEF BreakerSpec

-----------------------------------------------------------------------------
LEMMA TtlInductive ==
    BreakerTypeOK /\ TtlOutlivesCooldown /\ [BreakerNext]_breakerVars => TtlOutlivesCooldown'
<1> SUFFICES ASSUME BreakerTypeOK, TtlOutlivesCooldown, [BreakerNext]_breakerVars
             PROVE  TtlOutlivesCooldown'
  OBVIOUS
<1> USE BreakerAssumption DEF TtlOutlivesCooldown, NoFaultYet, hashVars, Write
<1>t. /\ BreakerTypeOK' /\ CooldownOf(hash) \in CooldownInitial..CooldownMax
      /\ CooldownOf(hash)' \in CooldownInitial..CooldownMax
  <2>1. BreakerTypeOK' BY BreakerTypeInductive
  <2> QED BY <2>1 DEF BreakerTypeOK, Hash, CooldownOf
<1>0. ASSUME NEW r \in Requests, hash' \in {hash, Claimed(r), Unclaimed},
             UNCHANGED <<elapsed, ttl, faults>>
      PROVE  TtlOutlivesCooldown'
  <2>1. hash'.state = hash.state /\ hash'.cooldown = hash.cooldown
    BY <1>0 DEF Claimed, Unclaimed, BreakerTypeOK, Hash
  <2> QED BY <1>0, <2>1 DEF CooldownOf
(* Whoever writes the hash and its TTL leaves more than any cooldown.        *)
<1>w. ASSUME ttl' = BreakerTtl, elapsed' \in 0..CooldownMax PROVE TtlOutlivesCooldown'
  <2>1. BreakerTtl > CooldownOf(hash)' - elapsed'
    BY <1>w, <1>t
  <2> QED BY <1>w, <2>1
<1>1. ASSUME NEW r \in Requests, Ask(r) PROVE TtlOutlivesCooldown'
  <2>1. CASE Mark(r) \/ Steal(r) BY <2>1, <1>w DEF Mark, Steal
  <2>2. CASE AllowClosed(r) \/ Refuse(r) \/ CooldownElapsed(r) \/ LeaseAlive(r)
               \/ LeaseStale(r)
    BY <2>2, <1>0 DEF AllowClosed, Refuse, CooldownElapsed, LeaseAlive, LeaseStale
  <2>3. CASE Claim(r) BY <2>3, <1>0 DEF Claim
  <2> QED BY <1>1, <2>1, <2>2, <2>3 DEF Ask
<1>2. ASSUME NEW r \in Requests, Attempt(r) PROVE TtlOutlivesCooldown'
  <2>1. UNCHANGED hashVars /\ UNCHANGED faults
    BY <1>2 DEF Attempt, Succeed, FailEligible, FailIneligible
  <2> QED BY <2>1, <1>0
<1>3. ASSUME NEW r \in Requests, RecordOutcome(r) PROVE TtlOutlivesCooldown'
  <2>1. CASE CloseProbe(r) \/ ResetStreak(r) \/ Count(r) \/ Open(r)
    BY <2>1, <1>w DEF CloseProbe, ResetStreak, Count, Open, BreakerTypeOK
  <2>2. CASE ReadCooldown(r) \/ Unclaim(r)
    BY <2>2, <1>0 DEF ReadCooldown, Unclaim
  <2> QED BY <1>3, <2>1, <2>2 DEF RecordOutcome
<1>4. ASSUME NEW r \in Requests, Fault(r) PROVE TtlOutlivesCooldown'
  BY <1>4 DEF Fault, RedisError, TornWrite, Lose, BreakerTypeOK
<1>5. CASE Tick
  <2>1. CASE ttl = 1 \/ hash.state = "closed"
    <3>1. hash'.state = "closed"
      BY <1>5, <2>1 DEF Tick, EmptyHash
    <3> QED BY <3>1
  <2>2. CASE ttl # 1 /\ hash.state # "closed"
    <3>1. hash' = hash /\ faults' = faults
      BY <1>5, <2>2 DEF Tick
    <3>2. elapsed' < CooldownOf(hash) => elapsed < CooldownOf(hash) /\ elapsed' = elapsed + 1
      BY <1>5, <1>t, <2>2 DEF Tick, BreakerTypeOK
    <3>3. ttl # NoTtl => ttl' = ttl - 1
      BY <1>5, <2>2 DEF Tick
    <3>4. CooldownOf(hash)' = CooldownOf(hash)
      BY <3>1 DEF CooldownOf
    <3>5. SUFFICES ASSUME faults = MaxFaults, elapsed' < CooldownOf(hash)
                   PROVE  ttl' > CooldownOf(hash) - elapsed'
      BY <3>1, <3>4
    <3>6. ttl > CooldownOf(hash) - elapsed
      BY <2>2, <3>2, <3>5
    <3> QED BY <3>2, <3>3, <3>5, <3>6, <1>t DEF BreakerTypeOK, NoTtl
  <2> QED BY <2>1, <2>2
<1>6. CASE Outage \/ Repair BY <1>6 DEF Outage, Repair
<1>7. CASE UNCHANGED breakerVars BY <1>7 DEF breakerVars
<1> QED BY <1>1, <1>2, <1>3, <1>4, <1>5, <1>6, <1>7 DEF BreakerNext

(* Without faults the hash outlives every cooldown and every probe's lease.  *)
THEOREM TtlCorrect == BreakerSpec => []TtlOutlivesCooldown
<1>1. BreakerInit => TtlOutlivesCooldown
  BY DEF BreakerInit, TtlOutlivesCooldown, EmptyHash
<1> QED BY <1>1, BreakerTypeCorrect, TtlInductive, PTL DEF BreakerSpec

-----------------------------------------------------------------------------
(* TripIsPending needs to know that whoever counts a failure is no probe.    *)
TripInv ==
    /\ \A r \in Requests : command[r] = "count" => ~dec[r].probe
    /\ TripIsPending

LEMMA TripInductive == BreakerTypeOK /\ TripInv /\ [BreakerNext]_breakerVars => TripInv'
<1> SUFFICES ASSUME BreakerTypeOK, TripInv, [BreakerNext]_breakerVars PROVE TripInv'
  OBVIOUS
<1> USE BreakerAssumption DEF NoFaultYet, hashVars, Goto, Decide, Finish, Write
<1>t. /\ command \in [Requests -> Commands] /\ dec \in [Requests -> Decision]
      /\ hash \in Hash
  BY DEF BreakerTypeOK
<1> DEFINE
      Alone(r) == \A s \in Requests \ {r} : command'[s] = command[s] /\ dec'[s] = dec[s]
      CountsAsNonProbe(r) == command'[r] = "count" => ~dec'[r].probe
      Harmless == \/ hash'.state # "closed" \/ hash'.failures = 0
                  \/ faults' # MaxFaults
                  \/ /\ hash'.state = hash.state /\ hash'.failures = hash.failures
                     /\ faults' = faults
(* A step of r that was not about to open leaves every pending trip pending. *)
<1>a. ASSUME NEW r \in Requests, Alone(r), CountsAsNonProbe(r), Harmless,
             command[r] # "open" \/ hash'.state # "closed" \/ faults' # MaxFaults
      PROVE  TripInv'
  <2>1. \A s \in Requests : command'[s] = "count" => ~dec'[s].probe
    BY <1>a DEF TripInv
  <2>2. TripIsPending'
    BY <1>a DEF TripInv, TripIsPending
  <2> QED BY <2>1, <2>2 DEF TripInv
<1>h. ASSUME NEW r \in Requests
      PROVE  /\ HalfOpened.state = "half_open" /\ Stolen(r).state = "half_open"
             /\ Closed.failures = 0 /\ StreakReset.failures = 0
             /\ Opened(r).state = "open" /\ EmptyHash.failures = 0
             /\ Claimed(r).state = hash.state /\ Claimed(r).failures = hash.failures
             /\ Unclaimed.state = hash.state /\ Unclaimed.failures = hash.failures
             /\ Counted.state = hash.state
  BY <1>t DEF HalfOpened, Stolen, Closed, StreakReset, Opened, EmptyHash, Claimed,
              Unclaimed, Counted, Hash
<1>1. ASSUME NEW r \in Requests, Ask(r) PROVE TripInv'
  <2>1. Alone(r) /\ command[r] # "open" /\ command'[r] # "count" /\ faults' = faults
    BY <1>1, <1>t DEF Ask, AllowClosed, Refuse, CooldownElapsed, Claim, Mark,
                      LeaseAlive, LeaseStale, Steal
  <2>2. Harmless
    BY <1>1, <1>h DEF Ask, AllowClosed, Refuse, CooldownElapsed, Claim, Mark,
                      LeaseAlive, LeaseStale, Steal
  <2> QED BY <2>1, <2>2, <1>a
<1>2. ASSUME NEW r \in Requests, Attempt(r) PROVE TripInv'
  <2>1. Alone(r) /\ command[r] # "open" /\ Harmless
    BY <1>2, <1>t DEF Attempt, Succeed, FailEligible, FailIneligible
  <2>2. CountsAsNonProbe(r)
    <3>1. CASE Succeed(r) \/ FailIneligible(r)
      BY <3>1, <1>t DEF Succeed, FailIneligible
    <3>2. CASE FailEligible(r)
      <4>1. CASE dec[r].degraded BY <3>2, <4>1, <1>t DEF FailEligible
      <4>2. CASE ~dec[r].degraded
        <5>1. PICK e \in Error : dec' = [dec EXCEPT ![r] = [dec[r] EXCEPT !.error = e]]
          BY <3>2, <4>2 DEF FailEligible
        <5>2. dec'[r].probe = dec[r].probe
          BY <5>1, <1>t DEF Decision
        <5>3. command'[r] = IF dec[r].probe THEN "read_cooldown" ELSE "count"
          BY <3>2, <4>2, <1>t DEF FailEligible
        <5> QED BY <5>2, <5>3
      <4> QED BY <4>1, <4>2
    <3> QED BY <1>2, <3>1, <3>2 DEF Attempt
  <2> QED BY <2>1, <2>2, <1>a
<1>3. ASSUME NEW r \in Requests, RecordOutcome(r) PROVE TripInv'
  <2>1. Alone(r) /\ command'[r] # "count" /\ faults' = faults
    BY <1>3, <1>t DEF RecordOutcome, CloseProbe, ResetStreak, Unclaim, ReadCooldown, Count, Open
  <2>2. CASE CloseProbe(r) \/ ResetStreak(r) \/ Unclaim(r) \/ ReadCooldown(r) \/ Open(r)
    <3>1. Harmless /\ (command[r] # "open" \/ hash'.state # "closed")
      BY <2>2, <1>h DEF CloseProbe, ResetStreak, Unclaim, ReadCooldown, Open
    <3> QED BY <2>1, <3>1, <1>a
  <2>3. CASE Count(r)
    <3>1. CASE Trips(Counted.failures, dec[r].error)
      <4>1. command'[r] = "open" /\ dec'[r].probe = dec[r].probe
        BY <2>3, <3>1, <1>t DEF Count, Decision
      <4>2. ~dec[r].probe
        BY <2>3 DEF Count, TripInv
      <4> QED BY <2>1, <4>1, <4>2 DEF TripInv, TripIsPending
    <3>2. CASE ~Trips(Counted.failures, dec[r].error)
      <4>1. hash' = Counted /\ Counted.failures \in 0..FailureThreshold
        BY <2>3, <1>t, HashClosed DEF Count
      <4>2. ~(hash'.failures >= FailureThreshold)
        BY <3>2, <4>1 DEF Trips
      <4> QED BY <2>1, <4>2 DEF TripInv, TripIsPending
    <3> QED BY <3>1, <3>2
  <2> QED BY <1>3, <2>2, <2>3 DEF RecordOutcome
<1>4. ASSUME NEW r \in Requests, Fault(r) PROVE TripInv'
  <2>1. Alone(r) /\ command'[r] # "count"
    BY <1>4, <1>t DEF Fault, RedisError, TornWrite, Lose, Swallow
  <2>2. faults' # MaxFaults
    BY <1>4 DEF Fault, RedisError, TornWrite, Lose, BreakerTypeOK
  <2> QED BY <2>1, <2>2, <1>a
<1>5. CASE Tick
  BY <1>5, <1>t DEF Tick, TripInv, TripIsPending, EmptyHash
<1>6. CASE Outage \/ Repair BY <1>6 DEF Outage, Repair, TripInv, TripIsPending
<1>7. CASE UNCHANGED breakerVars BY <1>7 DEF breakerVars, TripInv, TripIsPending
<1> QED BY <1>1, <1>2, <1>3, <1>4, <1>5, <1>6, <1>7 DEF BreakerNext

(* Without faults, a streak at the threshold always has its opener.          *)
THEOREM TripCorrect == BreakerSpec => []TripIsPending
<1>1. BreakerInit => TripInv
  BY BreakerAssumption DEF BreakerInit, TripInv, TripIsPending, EmptyHash
<1>2. TripInv => TripIsPending
  BY DEF TripInv
<1> QED BY <1>1, <1>2, BreakerTypeCorrect, TripInductive, PTL DEF BreakerSpec

(* The hash the breaker decides by is sound for any number of requests: no   *)
(* hint or ladder step takes the cooldown out of its bounds, and until a     *)
(* command is lost no cooldown or lease outlives the key that holds it       *)
(* (_next_cooldown, _write).                                                 *)
THEOREM StateCorrect == BreakerSpec => []StateIsSound
<1>1. BreakerTypeOK /\ TtlOutlivesCooldown => StateIsSound
  BY DEF StateIsSound
<1> QED BY <1>1, BreakerTypeCorrect, TtlCorrect, PTL

-----------------------------------------------------------------------------
(* QuotaTracker                                                              *)

(* Limits are natural numbers, and the answer lane's is the smaller one.     *)
LEMMA LimitFacts ==
    ASSUME NEW p \in Nat
    PROVE  /\ EffectiveLimit(p) \in Nat /\ LaneLimit(p) \in Nat /\ FullLimit(p) \in Nat
           /\ EffectiveLimit(p) <= FullLimit(p)
<1> DEFINE x == p * (100 - HeadroomPct)
           y == x * (100 - ReservedPct)
           z == ((p * ReservedPct) \div 100) * (100 - HeadroomPct)
<1>1. x \in Nat
  BY ConstantsAssumption
<1>2. y \in Nat /\ y <= 100 * x
  <2>1. 100 - ReservedPct \in 0..100
    BY ConstantsAssumption
  <2> HIDE DEF x
  <2> QED BY <1>1, <2>1
<1>3. z \in Nat
  <2>1. (p * ReservedPct) \in Nat
    BY ConstantsAssumption
  <2>2. (p * ReservedPct) \div 100 \in Nat
    BY <2>1
  <2> QED BY <2>2, ConstantsAssumption
<1>4. AtLeastOne(y \div 10000) \in Nat /\ AtLeastOne(x \div 100) \in Nat
      /\ AtLeastOne(z \div 100) \in Nat
      /\ AtLeastOne(y \div 10000) <= AtLeastOne(x \div 100)
  <2> HIDE DEF x, y, z
  <2> QED BY <1>1, <1>2, <1>3 DEF AtLeastOne
<1> QED BY <1>4 DEF EffectiveLimit, LaneLimit, FullLimit

(* Every lane's limit on a request key is at most the key's ceiling.         *)
LEMMA CeilingFacts ==
    /\ \A k \in RequestKeys : Ceiling(k) \in Nat
    /\ \A l \in Lanes : \A k \in Grants(l) : k \in Keys /\ Limit(l, k) \in Nat
    /\ \A l \in Lanes : \A k \in Grants(l) \cap RequestKeys : Limit(l, k) <= Ceiling(k)
<1>0. /\ \A w \in DOMAIN Published : w \in {"rpm", "tpm", "rpd"} /\ Published[w] \in Nat
      /\ Cap \in Nat
  BY ConstantsAssumption
<1>1. ASSUME NEW l \in Lanes, NEW k \in Grants(l)
      PROVE  /\ k \in DOMAIN Published
                  \/ k = "alloc" \/ (k = "lane" /\ "rpd" \in DOMAIN Published)
             /\ l = "perception" => k # "alloc" /\ k # "rpd"
             /\ k \in Keys
  BY <1>0 DEF Lanes, Grants, Keys
<1>2. ASSUME NEW l \in Lanes, NEW k \in Grants(l)
      PROVE  Limit(l, k) \in Nat /\ Ceiling(k) \in Nat /\ Limit(l, k) <= Ceiling(k)
  <2>1. CASE k = "alloc"
    <3>1. Limit(l, k) = Cap BY <2>1 DEF Limit
    <3>2. Ceiling(k) = Cap BY <2>1 DEF Ceiling
    <3> QED BY <1>0, <3>1, <3>2
  <2>2. CASE k = "lane" /\ "rpd" \in DOMAIN Published
    <3>1. LaneLimit(Published["rpd"]) \in Nat BY <1>0, <2>2, LimitFacts
    <3>2. Limit(l, k) = LaneLimit(Published["rpd"])
      BY <2>2 DEF Limit
    <3>3. Ceiling(k) = LaneLimit(Published["rpd"])
      BY <2>2 DEF Ceiling
    <3> QED BY <3>1, <3>2, <3>3
  <2>3. CASE k \in DOMAIN Published
    <3>1. k # "alloc" /\ k # "lane" BY <1>0, <2>3
    <3>2. /\ EffectiveLimit(Published[k]) \in Nat /\ FullLimit(Published[k]) \in Nat
          /\ EffectiveLimit(Published[k]) <= FullLimit(Published[k])
      BY <1>0, <2>3, LimitFacts
    <3>3. CASE k = "rpd"
      BY <1>1, <3>1, <3>2, <3>3 DEF Limit, Ceiling
    <3>4. CASE k # "rpd"
      BY <3>1, <3>2, <3>4 DEF Limit, Ceiling
    <3> QED BY <3>3, <3>4
  <2> QED BY <1>1, <2>1, <2>2, <2>3
<1> QED BY <1>1, <1>2 DEF RequestKeys

-----------------------------------------------------------------------------
(* Counters stay natural numbers.                                            *)
LEMMA UsedNat == TypeOK => \A k \in Keys : Used(k) \in Nat
  BY DEF TypeOK, Used, Absent

LEMMA DeltaInt ==
    ASSUME TypeOK, NEW s \in Slots, NEW t \in Tokens
    PROVE  /\ CommitDelta(s, t) \in [Keys -> Int]
           /\ ReleaseDelta(s) \in [Keys -> Int]
<1>1. res[s].tokens \in Int /\ t \in Int
  BY ConstantsAssumption DEF TypeOK, Tokens
<1> QED BY <1>1 DEF CommitDelta, ReleaseDelta, Cost

(* The reckoning stays well formed, and forgets no drift but with a window.  *)
LEMMA ReckonFacts ==
    ASSUME TypeOK, NEW s \in Slots, NEW real \in [Keys -> Int],
           NEW causes \in [Keys -> SUBSET Causes], Reckon(s, real, causes)
    PROVE  /\ spend' \in [Keys -> Int]
           /\ drift' \in [Keys -> SUBSET Causes]
           /\ \A k \in Keys :
                 /\ drift[k] \subseteq drift'[k]
                 /\ causes[k] \subseteq drift'[k]
                 /\ drift'[k] = {} /\ k \in inWindow[s] => spend'[k] = spend[k] + real[k]
                 /\ drift'[k] = {} /\ k \notin inWindow[s] => spend'[k] = spend[k]
<1>1. drift' \in [Keys -> SUBSET Causes]
  BY DEF Reckon, TypeOK
<1>2. spend' \in [Keys -> Int]
  BY DEF Reckon, TypeOK
<1>3. ASSUME NEW k \in Keys
      PROVE  /\ drift[k] \subseteq drift'[k]
             /\ causes[k] \subseteq drift'[k]
             /\ drift'[k] = {} /\ k \in inWindow[s] => spend'[k] = spend[k] + real[k]
             /\ drift'[k] = {} /\ k \notin inWindow[s] => spend'[k] = spend[k]
  <2>1. drift'[k] = drift[k] \cup causes[k]
    BY DEF Reckon
  <2>2. spend'[k] = IF drift'[k] # {} THEN 0
                    ELSE IF k \in inWindow[s] THEN spend[k] + real[k] ELSE spend[k]
    BY DEF Reckon
  <2> QED BY <2>1, <2>2
<1> QED BY <1>1, <1>2, <1>3

(* What Settle, Uncorrected and HintSet say of why a key drifts.             *)
SettleCauses(s, told, real) ==
    [k \in Keys |-> {c \in {"untold"} : k \in inWindow[s] /\ real[k] > told[k]}
        \cup {c \in {"straddle"} : k \notin inWindow[s] /\ told[k] < 0 /\ counter[k] > 0}]

UncorrectedCauses(s, actual, cause) ==
    [k \in Keys |-> {c \in {cause} : k \in inWindow[s] /\ CommitDelta(s, actual)[k] > 0}]

HintCauses(s) ==
    [k \in Keys |-> {c \in {"hint"} : /\ k = hint[s].key
                                    /\ \/ hint[s].used < Used(k)
                                       \/ hint[s].keepTtl /\ counter[k] = Absent}]

LEMMA SettleFacts ==
    ASSUME TypeOK, NEW s \in Slots, NEW told \in [Keys -> Int],
           NEW real \in [Keys -> Int], Settle(s, told, real)
    PROVE  /\ counter' \in [Keys -> Nat \cup {Absent}]
           /\ hasTtl' \in [Keys -> BOOLEAN]
           /\ spend' \in [Keys -> Int]
           /\ drift' \in [Keys -> SUBSET Causes]
           /\ \A k \in Keys :
                 /\ drift[k] \subseteq drift'[k]
                 /\ drift'[k] = {} /\ k \in inWindow[s] =>
                       spend'[k] = spend[k] + real[k] /\ real[k] <= told[k]
                 /\ drift'[k] = {} /\ k \notin inWindow[s] =>
                       spend'[k] = spend[k] /\ (told[k] >= 0 \/ counter[k] <= 0)
<1>1. \A k \in Keys : Settled(k, told[k]) \in Nat \cup {Absent}
  BY DEF TypeOK, Settled, Used, Absent, AtLeastZero
<1>2. counter' \in [Keys -> Nat \cup {Absent}] /\ hasTtl' \in [Keys -> BOOLEAN]
  BY <1>1 DEF TypeOK, Settle
<1>3. SettleCauses(s, told, real) \in [Keys -> SUBSET Causes]
      /\ Reckon(s, real, SettleCauses(s, told, real))
  BY DEF SettleCauses, Settle, Causes
<1>4. PICK causes \in [Keys -> SUBSET Causes] :
          causes = SettleCauses(s, told, real) /\ Reckon(s, real, causes)
  BY <1>3
<1>5. spend' \in [Keys -> Int] /\ drift' \in [Keys -> SUBSET Causes]
  BY <1>4, ReckonFacts
<1>6. ASSUME NEW k \in Keys
      PROVE  /\ drift[k] \subseteq drift'[k]
             /\ drift'[k] = {} /\ k \in inWindow[s] =>
                   spend'[k] = spend[k] + real[k] /\ real[k] <= told[k]
             /\ drift'[k] = {} /\ k \notin inWindow[s] =>
                   spend'[k] = spend[k] /\ (told[k] >= 0 \/ counter[k] <= 0)
  <2>1. /\ drift[k] \subseteq drift'[k] /\ causes[k] \subseteq drift'[k]
        /\ drift'[k] = {} /\ k \in inWindow[s] => spend'[k] = spend[k] + real[k]
        /\ drift'[k] = {} /\ k \notin inWindow[s] => spend'[k] = spend[k]
    BY <1>4, ReckonFacts
  <2>2. told[k] \in Int /\ real[k] \in Int /\ counter[k] \in Nat \cup {Absent}
    BY DEF TypeOK
  <2>3. /\ k \in inWindow[s] /\ real[k] > told[k] => "untold" \in causes[k]
        /\ k \notin inWindow[s] /\ told[k] < 0 /\ counter[k] > 0 =>
              "straddle" \in causes[k]
    BY <1>4 DEF SettleCauses
  <2> QED BY <2>1, <2>2, <2>3 DEF Absent
<1> QED BY <1>2, <1>5, <1>6

LEMMA UncorrectedFacts ==
    ASSUME TypeOK, NEW s \in Slots, NEW t \in Tokens,
           NEW cause \in {"late", "lost", "cancelled"},
           NEW l \in {"idle", "hint"}, Uncorrected(s, t, cause, l)
    PROVE  /\ spend' \in [Keys -> Int]
           /\ drift' \in [Keys -> SUBSET Causes]
           /\ \A k \in Keys :
                 /\ drift[k] \subseteq drift'[k]
                 /\ drift'[k] = {} => spend'[k] <= spend[k]
<1>1. PICK real \in [Keys -> Int] : real = CommitDelta(s, t)
  BY DeltaInt
<1>2. UncorrectedCauses(s, t, cause) \in [Keys -> SUBSET Causes]
      /\ Reckon(s, real, UncorrectedCauses(s, t, cause))
  BY <1>1 DEF UncorrectedCauses, Uncorrected, Causes
<1>3. PICK causes \in [Keys -> SUBSET Causes] :
          causes = UncorrectedCauses(s, t, cause) /\ Reckon(s, real, causes)
  BY <1>2
<1>4. spend' \in [Keys -> Int] /\ drift' \in [Keys -> SUBSET Causes]
  BY <1>3, ReckonFacts
<1>5. ASSUME NEW k \in Keys
      PROVE  /\ drift[k] \subseteq drift'[k]
             /\ drift'[k] = {} => spend'[k] <= spend[k]
  <2>1. /\ drift[k] \subseteq drift'[k] /\ causes[k] \subseteq drift'[k]
        /\ drift'[k] = {} /\ k \in inWindow[s] => spend'[k] = spend[k] + real[k]
        /\ drift'[k] = {} /\ k \notin inWindow[s] => spend'[k] = spend[k]
    BY <1>3, ReckonFacts
  <2>2. spend[k] \in Int /\ real[k] \in Int
    BY DEF TypeOK
  <2>3. k \in inWindow[s] /\ real[k] > 0 => cause \in causes[k]
    BY <1>1, <1>3 DEF UncorrectedCauses
  <2> QED BY <2>1, <2>2, <2>3
<1> QED BY <1>4, <1>5

LEMMA HintSetFacts ==
    ASSUME TypeOK, NEW s \in Slots, HintSet(s)
    PROVE  /\ spend' \in [Keys -> Int]
           /\ drift' \in [Keys -> SUBSET Causes]
           /\ \A k \in Keys :
                 /\ drift[k] \subseteq drift'[k]
                 /\ drift'[k] = {} => spend'[k] = spend[k]
                 /\ k = hint[s].key =>
                       /\ drift'[k] = {} => ~(hint[s].used < Used(k))
                       /\ hint[s].keepTtl /\ counter[k] = Absent => "hint" \in drift'[k]
<1>0. [k \in Keys |-> 0] \in [Keys -> Int]
  OBVIOUS
<1>1. PICK real \in [Keys -> Int] : real = [k \in Keys |-> 0]
  BY <1>0
<1>2. HintCauses(s) \in [Keys -> SUBSET Causes] /\ Reckon(s, real, HintCauses(s))
  BY <1>1 DEF HintCauses, HintSet, Causes
<1>3. PICK causes \in [Keys -> SUBSET Causes] :
          causes = HintCauses(s) /\ Reckon(s, real, causes)
  BY <1>2
<1>4. spend' \in [Keys -> Int] /\ drift' \in [Keys -> SUBSET Causes]
  BY <1>3, ReckonFacts
<1>5. ASSUME NEW k \in Keys
      PROVE  /\ drift[k] \subseteq drift'[k]
             /\ drift'[k] = {} => spend'[k] = spend[k]
             /\ k = hint[s].key =>
                   /\ drift'[k] = {} => ~(hint[s].used < Used(k))
                   /\ hint[s].keepTtl /\ counter[k] = Absent => "hint" \in drift'[k]
  <2>1. /\ drift[k] \subseteq drift'[k] /\ causes[k] \subseteq drift'[k]
        /\ drift'[k] = {} /\ k \in inWindow[s] => spend'[k] = spend[k] + real[k]
        /\ drift'[k] = {} /\ k \notin inWindow[s] => spend'[k] = spend[k]
    BY <1>3, ReckonFacts
  <2>2. spend[k] \in Int /\ real[k] = 0
    BY <1>1 DEF TypeOK
  <2>3. k = hint[s].key =>
          /\ hint[s].used < Used(k) => "hint" \in causes[k]
          /\ hint[s].keepTtl /\ counter[k] = Absent => "hint" \in causes[k]
    BY <1>3 DEF HintCauses
  <2>4. drift'[k] = {} => spend'[k] = spend[k]
    BY <2>1, <2>2
  <2> QED BY <2>1, <2>3, <2>4
<1> QED BY <1>4, <1>5

LEMMA TypeInductive == TypeOK /\ [Next]_vars => TypeOK'
<1> SUFFICES ASSUME TypeOK, [Next]_vars PROVE TypeOK'
  OBVIOUS
<1> USE ConstantsAssumption
<1>n. /\ NoReservation \in [lane : Lanes, tokens : Tokens, live : BOOLEAN]
      /\ NoHint \in [key : Keys, used : Nat, keepTtl : BOOLEAN]
  BY DEF NoReservation, NoHint, Lanes, Tokens, Keys
<1>f. ASSUME NEW s \in Slots, NEW l \in {"idle", "attempt", "hint", "ttl", "set"},
             Forget(s, l)
      PROVE  /\ pc' \in [Slots -> {"idle", "attempt", "hint", "ttl", "set"}]
             /\ res' \in [Slots -> [lane : Lanes, tokens : Tokens, live : BOOLEAN]]
             /\ inWindow' \in [Slots -> SUBSET Keys]
  BY <1>f, <1>n DEF TypeOK, Forget
<1>t. ASSUME NEW s \in Slots, NEW l \in Lanes, NEW t \in Tokens, Take(s, l, t)
      PROVE  counter' \in [Keys -> Nat \cup {Absent}] /\ hasTtl' \in [Keys -> BOOLEAN]
  <2>1. \A k \in Keys : Used(k) + Cost(k, t) \in Nat
    BY UsedNat DEF Cost, Tokens
  <2>2. counter' \in [Keys -> Nat \cup {Absent}]
    BY <1>t, <2>1 DEF Take, Charged, TypeOK
  <2>3. hasTtl' \in [Keys -> BOOLEAN]
    BY <1>t DEF Take, TypeOK
  <2> QED BY <2>2, <2>3
<1>1. ASSUME NEW s \in Slots, NEW l \in Lanes, NEW t \in Tokens \ {0},
             Reserve(s, l, t) \/ ReserveUnanswered(s, l, t)
      PROVE  TypeOK'
  <2>1. Grants(l) \subseteq Keys
    BY CeilingFacts
  <2>2. Cost("tpm", t) \in Int /\ \A k \in Keys : Cost(k, t) \in Int
    BY DEF Cost, Tokens
  <2>3. CASE Reserve(s, l, t)
    BY <1>t, <2>1, <2>2, <2>3 DEF Reserve, TypeOK
  <2>4. CASE ReserveUnanswered(s, l, t)
    BY <1>t, <2>4 DEF ReserveUnanswered, TypeOK
  <2> QED BY <1>1, <2>3, <2>4
<1>2. ASSUME NEW s \in Slots, NEW told \in Tokens, NEW t \in Tokens, Commit(s, told, t)
      PROVE  TypeOK'
  <2>1. CommitDelta(s, told) \in [Keys -> Int] /\ CommitDelta(s, t) \in [Keys -> Int]
    BY DeltaInt
  <2>2. /\ counter' \in [Keys -> Nat \cup {Absent}] /\ hasTtl' \in [Keys -> BOOLEAN]
        /\ spend' \in [Keys -> Int] /\ drift' \in [Keys -> SUBSET Causes]
    BY <1>2, <2>1, SettleFacts DEF Commit
  <2> QED BY <1>2, <1>f, <2>2 DEF Commit, TypeOK, AfterCommit
<1>3. ASSUME NEW s \in Slots, NEW t \in Tokens, NEW cause \in {"late", "lost", "cancelled"},
             NEW l \in {"idle", "hint"}, Uncorrected(s, t, cause, l)
      PROVE  TypeOK'
  <2>1. spend' \in [Keys -> Int] /\ drift' \in [Keys -> SUBSET Causes]
    BY <1>3, UncorrectedFacts
  <2>2. /\ pc' \in [Slots -> {"idle", "attempt", "hint", "ttl", "set"}]
        /\ res' \in [Slots -> [lane : Lanes, tokens : Tokens, live : BOOLEAN]]
        /\ inWindow' \in [Slots -> SUBSET Keys]
    BY <1>3, <1>f DEF Uncorrected
  <2> QED BY <1>3, <2>1, <2>2 DEF Uncorrected, TypeOK
<1>4. ASSUME NEW s \in Slots, Release(s) PROVE TypeOK'
  <2>1. ReleaseDelta(s) \in [Keys -> Int]
    BY DeltaInt DEF Tokens
  <2>2. /\ counter' \in [Keys -> Nat \cup {Absent}] /\ hasTtl' \in [Keys -> BOOLEAN]
        /\ spend' \in [Keys -> Int] /\ drift' \in [Keys -> SUBSET Causes]
    BY <1>4, <2>1, SettleFacts DEF Release
  <2> QED BY <1>4, <1>f, <2>2 DEF Release, TypeOK
<1>5. AfterCommit \in {"idle", "hint"}
  BY DEF AfterCommit
<1>6. ASSUME NEW s \in Slots, NEW k \in DOMAIN Published, NEW n \in Tokens,
             HintGet(s, k, n)
      PROVE  TypeOK'
  <2>1. HintedUse(k, n) \in Nat /\ k \in Keys
    BY LimitFacts DEF HintedUse, Tokens, Keys
  <2> DEFINE next == IF Converging(k) THEN "set" ELSE "ttl"
  <2>a. next \in {"set", "ttl"}
    OBVIOUS
  <2>b. pc' = [pc EXCEPT ![s] = "idle"] \/ pc' = [pc EXCEPT ![s] = next]
    BY <1>6 DEF HintGet
  <2> HIDE DEF next
  <2>2. pc' \in [Slots -> {"idle", "attempt", "hint", "ttl", "set"}]
    BY <2>a, <2>b DEF TypeOK
  <2> DEFINE h == [key |-> k, used |-> HintedUse(k, n), keepTtl |-> FALSE]
  <2>c. h \in [key : Keys, used : Nat, keepTtl : BOOLEAN]
    BY <2>1
  <2>d. hint' = hint \/ hint' = [hint EXCEPT ![s] = h]
    BY <1>6 DEF HintGet
  <2> HIDE DEF h
  <2>3. hint' \in [Slots -> [key : Keys, used : Nat, keepTtl : BOOLEAN]]
    BY <2>c, <2>d DEF TypeOK
  <2> QED BY <1>6, <2>2, <2>3 DEF HintGet, history, TypeOK
<1>7. ASSUME NEW s \in Slots, HintTtl(s) PROVE TypeOK'
  <2> DEFINE b == counter[hint[s].key] # Absent /\ hasTtl[hint[s].key]
  <2>1. b \in BOOLEAN
    BY DEF TypeOK
  <2>2. hint' = [hint EXCEPT ![s].keepTtl = b]
    BY <1>7 DEF HintTtl
  <2> HIDE DEF b
  <2>3. hint' \in [Slots -> [key : Keys, used : Nat, keepTtl : BOOLEAN]]
    <3>1. PICK h \in [key : Keys, used : Nat, keepTtl : BOOLEAN] : h = hint[s]
      BY DEF TypeOK
    <3>2. [h EXCEPT !.keepTtl = b] \in [key : Keys, used : Nat, keepTtl : BOOLEAN]
      BY <2>1
    <3>3. hint' = [hint EXCEPT ![s] = [h EXCEPT !.keepTtl = b]]
      BY <2>2, <3>1
    <3> QED BY <3>2, <3>3 DEF TypeOK
  <2> QED BY <1>7, <2>3 DEF HintTtl, history, TypeOK
<1>8. ASSUME NEW s \in Slots, HintSet(s) PROVE TypeOK'
  <2>1. hint[s].key \in Keys /\ hint[s].used \in Nat /\ hint[s].keepTtl \in BOOLEAN
    BY DEF TypeOK
  <2>2. hasTtl' \in [Keys -> BOOLEAN]
    BY <1>8, <2>1 DEF HintSet, TypeOK
  <2>3. spend' \in [Keys -> Int] /\ drift' \in [Keys -> SUBSET Causes]
    BY <1>8, HintSetFacts
  <2> QED BY <1>8, <1>n, <2>1, <2>2, <2>3 DEF HintSet, TypeOK
<1>9. ASSUME NEW s \in Slots, NoHintApplied(s) PROVE TypeOK'
  BY <1>9, <1>n DEF NoHintApplied, history, TypeOK
<1>10. ASSUME NEW s \in Slots, ReservationExpires(s) PROVE TypeOK'
  BY <1>10, ZenonT(30) DEF ReservationExpires, history, TypeOK
<1>11. ASSUME NEW k \in Keys, WindowEnds(k) PROVE TypeOK'
  BY <1>11 DEF WindowEnds, TypeOK, Absent
<1>12. CASE UNCHANGED vars BY <1>12 DEF vars, TypeOK
<1>13. ASSUME NEW s \in Slots, Step(s) PROVE TypeOK'
  BY <1>13, <1>1, <1>2, <1>3, <1>4, <1>5, <1>6, <1>7, <1>8, <1>9, <1>10
     DEF Step, CommitExpired, CommitLost, Cancel
<1> QED BY <1>11, <1>12, <1>13 DEF Next, Refused

(* Counters never go negative and reservations stay well formed.             *)
THEOREM TypeCorrect == Spec => []TypeOK
<1>1. Init => TypeOK
  BY ConstantsAssumption
     DEF Init, TypeOK, NoReservation, NoHint, Lanes, Tokens, Keys, Absent
<1> QED BY <1>1, TypeInductive, PTL DEF Spec

-----------------------------------------------------------------------------
(* A settlement moves a counter at least as far as the history says.         *)
LEMMA SettleCounts ==
    ASSUME TypeOK, CountsWhatIsSpent, NEW s \in Slots, NEW told \in [Keys -> Int],
           NEW real \in [Keys -> Int], Settle(s, told, real)
    PROVE  CountsWhatIsSpent'
<1> SUFFICES ASSUME NEW k \in Keys, drift'[k] = {}
             PROVE  Used(k)' >= spend'[k]
  BY DEF CountsWhatIsSpent
<1>1. /\ counter[k] \in Nat \cup {Absent} /\ spend[k] \in Int
      /\ told[k] \in Int /\ real[k] \in Int /\ Absent = -1
  BY DEF TypeOK, Absent
<1>2. counter'[k] = Settled(k, told[k])
  BY DEF Settle
<1>3. /\ drift[k] = {}
      /\ spend'[k] = IF k \in inWindow[s] THEN spend[k] + real[k] ELSE spend[k]
      /\ k \in inWindow[s] => real[k] <= told[k]
      /\ k \notin inWindow[s] => told[k] >= 0 \/ counter[k] <= 0
  BY SettleFacts
<1>4. Used(k) >= spend[k]
  BY <1>3 DEF CountsWhatIsSpent
<1>5. CASE k \in inWindow[s]
  <2>1. spend'[k] <= spend[k] + told[k]
    BY <1>1, <1>3, <1>5
  <2> QED BY <1>1, <1>2, <1>4, <2>1, <1>3, <1>5 DEF Used, Settled, AtLeastZero
<1>6. CASE k \notin inWindow[s]
  BY <1>1, <1>2, <1>3, <1>4, <1>6 DEF Used, Settled, AtLeastZero
<1> QED BY <1>5, <1>6

LEMMA CountsInductive == TypeOK /\ CountsWhatIsSpent /\ [Next]_vars => CountsWhatIsSpent'
<1> SUFFICES ASSUME TypeOK, CountsWhatIsSpent, [Next]_vars PROVE CountsWhatIsSpent'
  OBVIOUS
<1> USE ConstantsAssumption
<1>u. \A k \in Keys : Used(k) \in Nat /\ spend[k] \in Int
  BY UsedNat DEF TypeOK
<1>s. ASSUME UNCHANGED <<counter, spend, drift>> PROVE CountsWhatIsSpent'
  BY <1>s DEF CountsWhatIsSpent, Used
<1>1. ASSUME NEW s \in Slots, NEW l \in Lanes, NEW t \in Tokens \ {0},
             Reserve(s, l, t) \/ ReserveUnanswered(s, l, t)
      PROVE  CountsWhatIsSpent'
  <2> SUFFICES ASSUME NEW k \in Keys, drift'[k] = {} PROVE Used(k)' >= spend'[k]
    BY DEF CountsWhatIsSpent
  <2>1. Cost(k, t) \in Nat
    BY DEF Cost, Tokens
  <2>2. drift[k] = {} /\ Used(k) >= spend[k]
    BY <1>1 DEF Reserve, ReserveUnanswered, CountsWhatIsSpent
  <2>3. counter'[k] = IF k \in Grants(l) THEN Used(k) + Cost(k, t) ELSE counter[k]
    BY <1>1 DEF Reserve, ReserveUnanswered, Take, Charged
  <2>4. Used(k)' = IF k \in Grants(l) THEN Used(k) + Cost(k, t) ELSE Used(k)
    BY <1>u, <2>1, <2>3 DEF Used, Absent
  <2>5. \/ spend'[k] = spend[k]
        \/ k \in Grants(l) /\ spend'[k] = spend[k] + Cost(k, t)
    BY <1>1 DEF Reserve, ReserveUnanswered
  <2> QED BY <1>u, <2>1, <2>2, <2>4, <2>5
<1>2. ASSUME NEW s \in Slots, NEW told \in Tokens, NEW t \in Tokens, Commit(s, told, t)
      PROVE  CountsWhatIsSpent'
  BY <1>2, SettleCounts, DeltaInt DEF Commit
<1>3. ASSUME NEW s \in Slots, NEW t \in Tokens, NEW cause \in {"late", "lost", "cancelled"},
             NEW l \in {"idle", "hint"}, Uncorrected(s, t, cause, l)
      PROVE  CountsWhatIsSpent'
  <2> SUFFICES ASSUME NEW k \in Keys, drift'[k] = {} PROVE Used(k)' >= spend'[k]
    BY DEF CountsWhatIsSpent
  <2>1. drift[k] = {} /\ spend'[k] <= spend[k]
    BY <1>3, UncorrectedFacts
  <2>2. Used(k)' = Used(k) /\ Used(k) >= spend[k]
    BY <1>3, <2>1 DEF Uncorrected, Used, CountsWhatIsSpent
  <2>3. spend'[k] \in Int
    BY <1>3, UncorrectedFacts
  <2> QED BY <1>u, <2>1, <2>2, <2>3
<1>4. ASSUME NEW s \in Slots, Release(s) PROVE CountsWhatIsSpent'
  <2>1. 0 \in Tokens BY DEF Tokens
  <2> QED BY <1>4, <2>1, SettleCounts, DeltaInt DEF Release
<1>5. AfterCommit \in {"idle", "hint"}
  BY DEF AfterCommit
<1>8. ASSUME NEW s \in Slots, HintSet(s) PROVE CountsWhatIsSpent'
  <2> SUFFICES ASSUME NEW k \in Keys, drift'[k] = {} PROVE Used(k)' >= spend'[k]
    BY DEF CountsWhatIsSpent
  <2>1. hint[s].key \in Keys /\ hint[s].used \in Nat
    BY DEF TypeOK
  <2>2. counter'[k] = IF k = hint[s].key THEN hint[s].used ELSE counter[k]
    BY <1>8 DEF HintSet, TypeOK
  <2>3. /\ drift[k] = {} /\ spend'[k] = spend[k]
        /\ ~(k = hint[s].key /\ hint[s].used < Used(k))
    BY <1>8, HintSetFacts
  <2>4. Used(k) >= spend[k]
    BY <2>3 DEF CountsWhatIsSpent
  <2>5. Used(k)' >= Used(k)
    BY <1>u, <2>1, <2>2, <2>3 DEF Used, Absent
  <2>6. Used(k)' \in Nat
    BY <2>1, <2>2 DEF Used, Absent, TypeOK
  <2> QED BY <1>u, <2>3, <2>4, <2>5, <2>6
<1>11. ASSUME NEW e \in Keys, WindowEnds(e) PROVE CountsWhatIsSpent'
  BY <1>11 DEF WindowEnds, CountsWhatIsSpent, TypeOK, Used, Absent
<1>13. ASSUME NEW s \in Slots, Step(s) PROVE CountsWhatIsSpent'
  BY <1>13, <1>1, <1>2, <1>3, <1>4, <1>5, <1>8, <1>s
     DEF Step, CommitExpired, CommitLost, Cancel, HintGet, HintTtl, NoHintApplied,
         ReservationExpires, history
<1> QED BY <1>11, <1>13, <1>s DEF Next, Refused, vars

(* No window counts less than its attempts cost, for any number of attempts  *)
(* interleaving reserve.lua, commit.lua, release.lua, expiry and hints,      *)
(* unless it was refunded across its end, settled late, never or with less   *)
(* than was charged, or overwritten by a hint: the causes that drift names.  *)
THEOREM CountsCorrect == Spec => []CountsWhatIsSpent
<1>1. Init => CountsWhatIsSpent
  BY DEF Init, CountsWhatIsSpent, Used, Absent
<1> QED BY <1>1, TypeCorrect, CountsInductive, PTL DEF Spec

-----------------------------------------------------------------------------
(* A request counter itself, refunds and hints included, stays under its     *)
(* ceiling; a hint on its way to SET asks for no more than that.             *)
HintBound(s) ==
    pc[s] \in {"ttl", "set"} =>
        /\ hint[s].key \in DOMAIN Published
        /\ hint[s].key \in RequestKeys => hint[s].used <= Ceiling(hint[s].key)

RequestBound ==
    /\ \A k \in RequestKeys : Used(k) <= Ceiling(k)
    /\ \A s \in Slots : HintBound(s)

LEMMA RequestKeysFacts ==
    /\ RequestKeys \subseteq Keys
    /\ \A k \in RequestKeys : ~CostIsTokens(k) /\ Ceiling(k) \in Nat
    /\ \A l \in Lanes : \A k \in Grants(l) : ~CostIsTokens(k) => k \in RequestKeys
    /\ \A k \in RequestKeys \cap DOMAIN Published :
          Published[k] \in Nat /\ EffectiveLimit(Published[k]) <= Ceiling(k)
<1>1. /\ RequestKeys \subseteq Keys
      /\ \A l \in Lanes : \A k \in Grants(l) : ~CostIsTokens(k) => k \in RequestKeys
  BY CeilingFacts DEF RequestKeys
<1>2. \A k \in RequestKeys : ~CostIsTokens(k) /\ Ceiling(k) \in Nat
  BY CeilingFacts DEF RequestKeys
<1>3. ASSUME NEW k \in RequestKeys \cap DOMAIN Published
      PROVE  Published[k] \in Nat /\ EffectiveLimit(Published[k]) <= Ceiling(k)
  <2>1. Published[k] \in Nat /\ k # "lane" /\ k # "alloc"
    BY ConstantsAssumption
  <2>2. Ceiling(k) \in {EffectiveLimit(Published[k]), FullLimit(Published[k])}
    BY <2>1 DEF Ceiling
  <2> QED BY <2>1, <2>2, LimitFacts
<1> QED BY <1>1, <1>2, <1>3

(* A settlement that adds nothing to a request key leaves it under its bound.*)
LEMMA SettleBound ==
    ASSUME TypeOK, RequestBound, NEW s \in Slots, NEW told \in [Keys -> Int],
           NEW real, \A k \in RequestKeys : told[k] <= 0, Settle(s, told, real)
    PROVE  \A k \in RequestKeys : Used(k)' <= Ceiling(k)
<1> SUFFICES ASSUME NEW k \in RequestKeys PROVE Used(k)' <= Ceiling(k)
  OBVIOUS
<1>1. k \in Keys /\ Ceiling(k) \in Nat
  BY RequestKeysFacts
<1>2. /\ counter[k] \in Nat \cup {Absent} /\ told[k] \in Int /\ told[k] <= 0
      /\ counter'[k] = Settled(k, told[k]) /\ Used(k) <= Ceiling(k)
  BY <1>1 DEF TypeOK, Settle, RequestBound
<1> QED BY <1>1, <1>2 DEF Settled, Used, AtLeastZero, Absent

LEMMA BoundInductive == TypeOK /\ RequestBound /\ [Next]_vars => RequestBound'
<1> SUFFICES ASSUME TypeOK, RequestBound, [Next]_vars PROVE RequestBound'
  OBVIOUS
<1> USE ConstantsAssumption
<1>u. \A k \in RequestKeys : k \in Keys /\ Used(k) \in Nat /\ Ceiling(k) \in Nat
                              /\ Used(k) <= Ceiling(k)
  BY UsedNat, RequestKeysFacts DEF RequestBound
<1>c. ASSUME UNCHANGED counter PROVE \A k \in RequestKeys : Used(k)' <= Ceiling(k)
  BY <1>c DEF RequestBound, Used
<1>h. ASSUME NEW s \in Slots, NEW l \in {"idle", "attempt", "hint"},
             pc' = [pc EXCEPT ![s] = l],
             hint' = hint \/ hint' = [hint EXCEPT ![s] = NoHint]
      PROVE  \A q \in Slots : HintBound(q)'
  <2> SUFFICES ASSUME NEW q \in Slots PROVE HintBound(q)'
    OBVIOUS
  <2>1. CASE q = s
    BY <1>h, <2>1 DEF HintBound, TypeOK
  <2>2. CASE q # s
    BY <1>h, <2>2 DEF HintBound, TypeOK, RequestBound
  <2> QED BY <2>1, <2>2
<1>i. ASSUME UNCHANGED <<pc, hint>> PROVE \A q \in Slots : HintBound(q)'
  BY <1>i DEF RequestBound, HintBound
<1>a. AfterCommit \in {"idle", "hint"}
  BY DEF AfterCommit
<1>1. ASSUME NEW s \in Slots, NEW l \in Lanes, NEW t \in Tokens \ {0},
             Reserve(s, l, t) \/ ReserveUnanswered(s, l, t)
      PROVE  RequestBound'
  <2>1. ASSUME NEW k \in RequestKeys PROVE Used(k)' <= Ceiling(k)
    <3>1. Take(s, l, t)
      BY <1>1 DEF Reserve, ReserveUnanswered
    <3>2. counter'[k] = IF k \in Grants(l) THEN Used(k) + Cost(k, t) ELSE counter[k]
      BY <1>u, <3>1 DEF Take, Charged
    <3>3. CASE k \in Grants(l)
      <4>1. Used(k) + Cost(k, t) <= Limit(l, k)
        BY <3>1, <3>3 DEF Take, Affordable
      <4>2. Limit(l, k) \in Nat /\ Limit(l, k) <= Ceiling(k)
        BY <3>3, CeilingFacts
      <4>3. Cost(k, t) = 1
        BY RequestKeysFacts DEF Cost
      <4> HIDE DEF Limit
      <4> QED BY <1>u, <3>2, <3>3, <4>1, <4>2, <4>3 DEF Used, Absent
    <3>4. CASE k \notin Grants(l)
      BY <1>u, <3>2, <3>4 DEF Used
    <3> QED BY <3>3, <3>4
  <2>2. \A q \in Slots : HintBound(q)'
    BY <1>1, <1>h, <1>i DEF Reserve, ReserveUnanswered
  <2> QED BY <2>1, <2>2 DEF RequestBound
<1>2. ASSUME NEW s \in Slots, NEW told \in Tokens, NEW t \in Tokens, Commit(s, told, t)
      PROVE  RequestBound'
  <2>1. \A k \in RequestKeys : CommitDelta(s, told)[k] = 0
    BY <1>u, RequestKeysFacts DEF CommitDelta
  <2>2. /\ CommitDelta(s, told) \in [Keys -> Int]
        /\ Settle(s, CommitDelta(s, told), CommitDelta(s, t))
    BY <1>2, DeltaInt DEF Commit
  <2>3. \A k \in RequestKeys : Used(k)' <= Ceiling(k)
    BY <2>1, <2>2, SettleBound
  <2>4. \A q \in Slots : HintBound(q)'
    BY <1>2, <1>h, <1>a DEF Commit, Forget
  <2> QED BY <2>3, <2>4 DEF RequestBound
<1>3. ASSUME NEW s \in Slots, NEW t \in Tokens, NEW cause \in {"late", "lost", "cancelled"},
             NEW l \in {"idle", "hint"}, Uncorrected(s, t, cause, l)
      PROVE  RequestBound'
  <2>1. \A q \in Slots : HintBound(q)'
    BY <1>3, <1>h DEF Uncorrected, Forget
  <2> QED BY <1>3, <1>c, <2>1 DEF Uncorrected, RequestBound
<1>4. ASSUME NEW s \in Slots, Release(s) PROVE RequestBound'
  <2>1. \A k \in RequestKeys : ReleaseDelta(s)[k] <= 0
    BY <1>u, RequestKeysFacts DEF ReleaseDelta, Cost
  <2>0. 0 \in Tokens
    BY DEF Tokens
  <2>2. ReleaseDelta(s) \in [Keys -> Int] /\ Settle(s, ReleaseDelta(s), ReleaseDelta(s))
    BY <1>4, <2>0, DeltaInt DEF Release
  <2>3. \A k \in RequestKeys : Used(k)' <= Ceiling(k)
    BY <2>1, <2>2, SettleBound
  <2>4. \A q \in Slots : HintBound(q)'
    BY <1>4, <1>h DEF Release, Forget
  <2> QED BY <2>3, <2>4 DEF RequestBound
<1>5. ASSUME NEW s \in Slots, NoHintApplied(s) PROVE RequestBound'
  <2>1. \A q \in Slots : HintBound(q)'
    BY <1>5, <1>h DEF NoHintApplied
  <2> QED BY <1>5, <1>c, <2>1 DEF NoHintApplied, RequestBound
<1>6. ASSUME NEW s \in Slots, NEW k \in DOMAIN Published, NEW n \in Tokens,
             HintGet(s, k, n)
      PROVE  RequestBound'
  <2>1. k \in RequestKeys => HintedUse(k, n) <= Ceiling(k)
    <3> SUFFICES ASSUME k \in RequestKeys PROVE HintedUse(k, n) <= Ceiling(k)
      OBVIOUS
    <3>1. /\ EffectiveLimit(Published[k]) \in Nat /\ Ceiling(k) \in Nat
          /\ EffectiveLimit(Published[k]) <= Ceiling(k)
      BY LimitFacts, RequestKeysFacts
    <3> QED BY <3>1 DEF HintedUse, Tokens
  <2>2. ASSUME NEW q \in Slots PROVE HintBound(q)'
    <3>1. CASE q # s
      BY <1>6, <3>1 DEF HintGet, HintBound, RequestBound, TypeOK
    <3>2. CASE q = s
      <4>1. \/ pc'[s] = "idle"
            \/ hint'[s] = [key |-> k, used |-> HintedUse(k, n), keepTtl |-> FALSE]
        BY <1>6 DEF HintGet, TypeOK
      <4> QED BY <3>2, <4>1, <2>1 DEF HintBound
    <3> QED BY <3>1, <3>2
  <2> QED BY <1>6, <1>c, <2>2 DEF HintGet, RequestBound
<1>7. ASSUME NEW s \in Slots, HintTtl(s) PROVE RequestBound'
  <2>1. ASSUME NEW q \in Slots PROVE HintBound(q)'
    <3>1. hint'[q].key = hint[q].key /\ hint'[q].used = hint[q].used
      BY <1>7 DEF HintTtl, TypeOK
    <3>2. pc'[q] \in {"ttl", "set"} => pc[q] \in {"ttl", "set"}
      BY <1>7 DEF HintTtl, TypeOK
    <3> QED BY <3>1, <3>2 DEF HintBound, RequestBound
  <2> QED BY <1>7, <1>c, <2>1 DEF HintTtl, RequestBound
<1>8. ASSUME NEW s \in Slots, HintSet(s) PROVE RequestBound'
  <2>1. \A q \in Slots : HintBound(q)'
    BY <1>8, <1>h DEF HintSet
  <2>2. ASSUME NEW k \in RequestKeys PROVE Used(k)' <= Ceiling(k)
    <3>1. counter'[k] = IF k = hint[s].key THEN hint[s].used ELSE counter[k]
      BY <1>8, <1>u DEF HintSet, TypeOK
    <3>2. k = hint[s].key => hint[s].used <= Ceiling(k)
      BY <1>8 DEF HintSet, RequestBound, HintBound
    <3> QED BY <1>u, <3>1, <3>2 DEF Used
  <2> QED BY <2>1, <2>2 DEF RequestBound
<1>10. ASSUME NEW s \in Slots, ReservationExpires(s) PROVE RequestBound'
  BY <1>10, <1>c, <1>i DEF ReservationExpires, RequestBound
<1>11. ASSUME NEW e \in Keys, WindowEnds(e) PROVE RequestBound'
  <2>1. ASSUME NEW k \in RequestKeys PROVE Used(k)' <= Ceiling(k)
    BY <1>11, <1>u DEF WindowEnds, TypeOK, Used, Absent
  <2> QED BY <1>11, <1>i, <2>1 DEF WindowEnds, RequestBound
<1>13. ASSUME NEW s \in Slots, Step(s) PROVE RequestBound'
  BY <1>13, <1>a, <1>1, <1>2, <1>3, <1>4, <1>5, <1>6, <1>7, <1>8, <1>10
     DEF Step, CommitExpired, CommitLost, Cancel
<1> QED BY <1>11, <1>13, <1>c, <1>i DEF Next, Refused, vars, RequestBound

(* However many callers race through reserve.lua, the requests granted in a  *)
(* window stay within the largest limit any lane has on it: RequestBound     *)
(* bounds the counter, CountsWhatIsSpent bounds the requests by the counter. *)
THEOREM GrantsCorrect == Spec => []GrantsWithinLimit
<1>1. Init => RequestBound
  <2> SUFFICES ASSUME Init PROVE RequestBound
    OBVIOUS
  <2>1. ASSUME NEW k \in RequestKeys PROVE Used(k) <= Ceiling(k)
    BY RequestKeysFacts DEF Init, Used
  <2> QED BY <2>1 DEF Init, RequestBound, HintBound
<1>2. TypeOK /\ RequestBound /\ CountsWhatIsSpent => GrantsWithinLimit
  <2> SUFFICES ASSUME TypeOK, RequestBound, CountsWhatIsSpent,
                      NEW k \in RequestKeys, drift[k] = {}
               PROVE  spend[k] <= Ceiling(k)
    BY DEF GrantsWithinLimit
  <2>1. k \in Keys /\ Ceiling(k) \in Nat /\ Used(k) \in Nat /\ spend[k] \in Int
    BY RequestKeysFacts, UsedNat DEF TypeOK
  <2>2. Used(k) >= spend[k] /\ Used(k) <= Ceiling(k)
    BY <2>1 DEF CountsWhatIsSpent, RequestBound
  <2> QED BY <2>1, <2>2
<1> QED BY <1>1, <1>2, TypeCorrect, CountsCorrect, BoundInductive, PTL DEF Spec

-----------------------------------------------------------------------------
(* What is counted expires: each script that creates or raises a counter     *)
(* gives it a TTL, and only a hint kept over an ended window does not.       *)
LEMMA ExpireInductive == TypeOK /\ CountersExpire /\ [Next]_vars => CountersExpire'
<1> SUFFICES ASSUME TypeOK, CountersExpire, [Next]_vars PROVE CountersExpire'
  OBVIOUS
<1> USE ConstantsAssumption
<1>s. ASSUME UNCHANGED <<counter, hasTtl, drift>> PROVE CountersExpire'
  BY <1>s DEF CountersExpire
<1>t. ASSUME NEW s \in Slots, NEW l \in Lanes, NEW t \in Tokens, Take(s, l, t),
             UNCHANGED drift
      PROVE  CountersExpire'
  BY <1>t DEF Take, Charged, CountersExpire
<1>d. ASSUME NEW s \in Slots, NEW told \in [Keys -> Int], NEW real \in [Keys -> Int],
             Settle(s, told, real)
      PROVE  CountersExpire'
  <2> SUFFICES ASSUME NEW k \in Keys, counter'[k] # Absent
               PROVE  hasTtl'[k] \/ "hint" \in drift'[k]
    BY DEF CountersExpire
  <2>1. /\ counter'[k] = Settled(k, told[k])
        /\ hasTtl'[k] = (hasTtl[k] \/ told[k] > 0)
    BY <1>d DEF Settle
  <2>2. drift[k] \subseteq drift'[k]
    BY <1>d, SettleFacts
  <2>3. told[k] > 0 \/ counter[k] # Absent
    BY <2>1 DEF Settled
  <2> QED BY <2>1, <2>2, <2>3 DEF CountersExpire
<1>1. ASSUME NEW s \in Slots, NEW l \in Lanes, NEW t \in Tokens \ {0},
             Reserve(s, l, t) \/ ReserveUnanswered(s, l, t)
      PROVE  CountersExpire'
  BY <1>1, <1>t DEF Reserve, ReserveUnanswered
<1>2. ASSUME NEW s \in Slots, NEW told \in Tokens, NEW t \in Tokens, Commit(s, told, t)
      PROVE  CountersExpire'
  BY <1>2, <1>d, DeltaInt DEF Commit
<1>3. ASSUME NEW s \in Slots, NEW t \in Tokens, NEW cause \in {"late", "lost", "cancelled"},
             NEW l \in {"idle", "hint"}, Uncorrected(s, t, cause, l)
      PROVE  CountersExpire'
  <2>1. \A k \in Keys : drift[k] \subseteq drift'[k]
    BY <1>3, UncorrectedFacts
  <2> QED BY <1>3, <2>1 DEF Uncorrected, CountersExpire
<1>4. ASSUME NEW s \in Slots, Release(s) PROVE CountersExpire'
  <2>1. 0 \in Tokens BY DEF Tokens
  <2> QED BY <1>4, <2>1, <1>d, DeltaInt DEF Release
<1>5. AfterCommit \in {"idle", "hint"}
  BY DEF AfterCommit
<1>8. ASSUME NEW s \in Slots, HintSet(s) PROVE CountersExpire'
  <2> SUFFICES ASSUME NEW k \in Keys, counter'[k] # Absent
               PROVE  hasTtl'[k] \/ "hint" \in drift'[k]
    BY DEF CountersExpire
  <2> DEFINE g == hint[s].key
  <2>1. g \in Keys /\ hint[s].keepTtl \in BOOLEAN
    BY DEF TypeOK
  <2>2. CASE k # g
    <3>1. counter'[k] = counter[k] /\ hasTtl'[k] = hasTtl[k]
      BY <1>8, <2>2 DEF HintSet, TypeOK
    <3>2. drift[k] \subseteq drift'[k]
      BY <1>8, HintSetFacts
    <3> QED BY <3>1, <3>2 DEF CountersExpire
  <2>3. CASE k = g
    <3>1. hasTtl'[k] = (hasTtl[k] \/ ~hint[s].keepTtl)
      BY <1>8, <2>3 DEF HintSet, TypeOK
    <3>2. /\ drift[k] \subseteq drift'[k]
          /\ hint[s].keepTtl /\ counter[k] = Absent => "hint" \in drift'[k]
      BY <1>8, <2>3, HintSetFacts
    <3> QED BY <3>1, <3>2 DEF CountersExpire
  <2> QED BY <2>2, <2>3
<1>11. ASSUME NEW e \in Keys, WindowEnds(e) PROVE CountersExpire'
  BY <1>11 DEF WindowEnds, CountersExpire, TypeOK
<1>13. ASSUME NEW s \in Slots, Step(s) PROVE CountersExpire'
  BY <1>13, <1>1, <1>2, <1>3, <1>4, <1>5, <1>8, <1>s
     DEF Step, CommitExpired, CommitLost, Cancel, HintGet, HintTtl, NoHintApplied,
         ReservationExpires, history
<1> QED BY <1>11, <1>13, <1>s DEF Next, Refused, vars

(* Under any interleaving a counter is a natural number and, but for a hint  *)
(* kept over an ended window, one that exists expires: no used-up window     *)
(* refuses for good (reserve.lua, commit.lua, release.lua, apply_hint).      *)
THEOREM CountersCorrect == Spec => []CountersAreSound
<1>1. Init => CountersExpire
  BY DEF Init, CountersExpire
<1>2. TypeOK /\ CountersExpire => CountersAreSound
  BY DEF CountersAreSound
<1> QED BY <1>1, <1>2, TypeCorrect, ExpireInductive, PTL DEF Spec

-----------------------------------------------------------------------------
LEMMA ProductSwap ==
    \A x, y, z \in Int : x * y * z = x * z * y
  OBVIOUS

(* The answer lane's daily budget and perception's add up to no more than    *)
(* the published limit, once there is something to split.                    *)
LEMMA SplitFacts ==
    ASSUME NEW p \in Nat, p >= 2, ReservedPct \in 1..99
    PROVE  EffectiveLimit(p) + LaneLimit(p) <= p
<1> DEFINE h == 100 - HeadroomPct
           a == p * (100 - ReservedPct)
           b == p * ReservedPct
           c == b \div 100
<1>1. h \in 0..100
  BY ConstantsAssumption
<1>2. a \in Nat /\ b \in Nat /\ a + b = 100 * p
  OBVIOUS
<1>3. a <= 99 * p /\ b <= 99 * p
  OBVIOUS
<1>4. c \in Nat /\ 100 * c <= b
  <2> HIDE DEF b
  <2> QED BY <1>2
<1>5. p * h * (100 - ReservedPct) = a * h
  <2> DEFINE r == 100 - ReservedPct
  <2>1. p \in Int /\ h \in Int /\ r \in Int
    BY <1>1
  <2> HIDE DEF h, r
  <2>2. p * h * r = p * r * h
    BY <2>1, ProductSwap, Zenon
  <2> QED BY <2>2 DEF r
<1>6. a * h \in Nat /\ a * h <= 100 * a
  <2> HIDE DEF a, h
  <2> QED BY <1>1, <1>2
<1>7. c * h \in Nat /\ c * h <= 100 * c
  <2> HIDE DEF c, h
  <2> QED BY <1>1, <1>4
<1>8. /\ EffectiveLimit(p) = AtLeastOne((a * h) \div 10000)
      /\ LaneLimit(p) = AtLeastOne((c * h) \div 100)
  BY <1>5 DEF EffectiveLimit, LaneLimit
<1> DEFINE m == a * h
           n == c * h
<1>9. AtLeastOne(m \div 10000) + AtLeastOne(n \div 100) <= p
  <2>1. m \in Nat /\ n \in Nat /\ m <= 100 * a /\ n <= 100 * c
    BY <1>6, <1>7
  <2> HIDE DEF m, n, a, b, c, h
  <2>2. /\ m \div 10000 \in Nat /\ 10000 * (m \div 10000) <= m
        /\ n \div 100 \in Nat /\ 100 * (n \div 100) <= n
    BY <2>1
  <2> DEFINE u == m \div 10000
             v == n \div 100
  <2>3. u \in Nat /\ v \in Nat /\ 100 * u <= a /\ 100 * v <= b
    BY <1>2, <1>4, <2>1, <2>2
  <2> HIDE DEF u, v
  <2>4. u + v <= p /\ u <= p - 1 /\ v <= p - 1
    BY <1>2, <1>3, <2>3
  <2>5. AtLeastOne(u) + AtLeastOne(v) <= p
    BY <2>3, <2>4 DEF AtLeastOne
  <2> QED BY <2>5 DEF u, v
<1> QED BY <1>8, <1>9

(* The fence of D8: whatever answers and readings race through reserve.lua,  *)
(* with the provider's hints in between, the two lanes together never use    *)
(* more of a day than the provider published (_effective_limit,              *)
(* perception_budget).                                                       *)
THEOREM LanesCorrect == Spec => []LanesShareTheDay
<1>1. TypeOK /\ GrantsWithinLimit => LanesShareTheDay
  <2> SUFFICES ASSUME TypeOK, GrantsWithinLimit,
                      "rpd" \in DOMAIN Published, Published["rpd"] >= 2,
                      ReservedPct \in 1..99, drift["rpd"] = {}, drift["lane"] = {}
               PROVE  spend["rpd"] + spend["lane"] <= Published["rpd"]
    BY DEF LanesShareTheDay
  <2> DEFINE p == Published["rpd"]
  <2>1. p \in Nat
    BY ConstantsAssumption
  <2>2. "rpd" \in RequestKeys /\ "lane" \in RequestKeys
    BY DEF RequestKeys, Grants, Lanes, CostIsTokens
  <2>3. spend["rpd"] <= EffectiveLimit(p) /\ spend["lane"] <= LaneLimit(p)
    BY <2>2 DEF GrantsWithinLimit, Ceiling
  <2>4. spend["rpd"] \in Int /\ spend["lane"] \in Int
    BY DEF TypeOK, Keys
  <2>5. /\ EffectiveLimit(p) \in Nat /\ LaneLimit(p) \in Nat
        /\ EffectiveLimit(p) + LaneLimit(p) <= p
    BY <2>1, LimitFacts, SplitFacts
  <2> QED BY <2>1, <2>3, <2>4, <2>5
<1> QED BY <1>1, TypeCorrect, GrantsCorrect, PTL

=============================================================================
