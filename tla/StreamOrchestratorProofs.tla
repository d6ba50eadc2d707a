---------------------- MODULE StreamOrchestratorProofs ----------------------
(***************************************************************************)
(* First the failover loop of module Router on its own, for every chain,   *)
(* cap and retry budget and for both loops: its types, the cap on round    *)
(* trips, the yield of ADR-015, the class flags of the errors, and the     *)
(* agreement of its books.  Then the streamed turn around it: the router   *)
(* inside it is that router, the wire keeps the contract of module         *)
(* StreamContract, screen and database agree, and a failed turn offers     *)
(* what the reader lost.                                                   *)
(***************************************************************************)
EXTENDS StreamOrchestrator, FiniteSetTheorems, SequenceTheorems, TLAPS

-----------------------------------------------------------------------------
(* The router on its own.                                                    *)

(* Inside the while loop there is a candidate.                               *)
InChain == pc \in {"try", "flight", "decide"} => pos <= chain

Types == RouterTypeOK /\ InChain

LEMMA RecordTyped ==
    ASSUME NEW p \in Positions, NEW e \in Errors \cup {NoError}, NEW sent \in BOOLEAN,
           NEW text \in BOOLEAN,
           NEW kind \in {"ok", "error", "skipped_breaker", "skipped_quota"}
    PROVE  Record(p, kind, e, sent, text) \in Records
BY DEF Record, Records

(* A record appended to the trail leaves a trail.                            *)
LEMMA TrailTyped ==
    ASSUME NEW t \in Seq(Records), NEW r \in Records
    PROVE  Append(t, r) \in Seq(Records)
OBVIOUS

LEMMA YieldTyped ==
    ASSUME RouterTypeOK, attempts' \in Nat, NEW kind \in {"started", "delta", "aborted", "completed"},
           pos \in Positions, Yield(kind)
    PROVE  out' \in Events
<1>1. pos \in 0..MaxChain
  BY RouterAssumption DEF Positions
<1> QED BY <1>1, RouterAssumption DEF Yield, Event, Events, NoEvent

LEMMA NoEventTyped == NoEvent \in Events
<1>1. 0 \in 0..MaxChain
  BY RouterAssumption
<1> QED BY <1>1 DEF NoEvent, Events

(* The except clause: what every failure leaves behind.                      *)
LEMMA FailsTyped ==
    ASSUME Types, pos <= chain, NEW e \in Errors, NEW limit \in BOOLEAN,
           NEW sent \in BOOLEAN, said' \in 0..MaxDeltas, Fails(e, limit, sent)
    PROVE  Types'
<1>1. pos \in Positions /\ pos \in 0..MaxChain /\ said \in Nat
  BY RouterAssumption DEF Types, RouterTypeOK, Positions
<1>2. (sent /\ said > 0) \in BOOLEAN
  OBVIOUS
<1>3. trail' \in Seq(Records)
  BY <1>1, <1>2, RecordTyped, TrailTyped DEF Types, RouterTypeOK, Fails
<1>4. attempts' \in Nat
  BY DEF Types, RouterTypeOK, Fails
<1>5. out' \in Events
  BY <1>1, <1>4, YieldTyped DEF Types, Fails
<1>6. last' \in [error : Errors \cup {NoError}, cand : 0..MaxChain, limit : BOOLEAN]
  BY <1>1 DEF Fails, LastError
<1>7. invalid' \subseteq Private
  BY DEF Types, RouterTypeOK, Fails
<1>8. held' \in BOOLEAN
  BY DEF Fails, Settle
<1> QED
  BY <1>3, <1>4, <1>5, <1>6, <1>7, <1>8 DEF Fails, Types, RouterTypeOK, InChain, Over

LEMMA TypesInductive == Types /\ [RouterNext]_routerVars => Types'
<1> SUFFICES ASSUME Types, [RouterNext]_routerVars PROVE Types'
  OBVIOUS
<1>p. pos <= chain => pos \in Positions /\ pos \in 0..MaxChain
  BY RouterAssumption DEF Types, RouterTypeOK, Positions
<1>1. CASE SkipOpen
  <2>1. trail' \in Seq(Records)
    BY <1>1, <1>p, RecordTyped, TrailTyped DEF SkipOpen, MoreToTry, Types, RouterTypeOK
  <2>2. pos' \in 1..(chain + 1)
    BY <1>1, RouterAssumption DEF SkipOpen, MoreToTry, Types, RouterTypeOK, Positions
  <2> QED BY <1>1, <2>1, <2>2 DEF SkipOpen, Running, Types, RouterTypeOK, InChain
<1>2. CASE Admit
  <2>1. retries' \in 0..MaxRetries /\ pos <= chain
    BY <1>2, RouterAssumption DEF Admit, MoreToTry
  <2> QED BY <1>2, <2>1 DEF Admit, Types, RouterTypeOK, InChain
<1>3. CASE Exhausted
  BY <1>3 DEF Exhausted, SkipError, Errors, Types, RouterTypeOK, InChain, Over
<1>4. CASE SkipQuota
  <2>1. trail' \in Seq(Records)
    BY <1>4, <1>p, RecordTyped, TrailTyped DEF SkipQuota, Running, Types, RouterTypeOK, InChain
  <2>2. pos' \in 1..(chain + 1)
    BY <1>4, RouterAssumption DEF SkipQuota, Running, Types, RouterTypeOK, InChain, Positions
  <2> QED BY <1>4, <2>1, <2>2 DEF SkipQuota, Types, RouterTypeOK, InChain
<1>5. CASE Send
  <2>1. attempts' \in Nat /\ pos \in Positions
    BY <1>5, <1>p DEF Send, Running, Types, RouterTypeOK, InChain
  <2>2. out' \in Events
    BY <1>5, <2>1, YieldTyped DEF Send, Types
  <2> QED BY <1>5, <2>1, <2>2, RouterAssumption
          DEF Send, Running, Types, RouterTypeOK, InChain
<1>6. CASE Speak
  <2>1. attempts' \in Nat /\ pos \in Positions
    BY <1>6, <1>p DEF Speak, Running, Types, RouterTypeOK, InChain
  <2>2. out' \in Events
    BY <1>6, <2>1, YieldTyped DEF Speak, Types
  <2>3. said' \in 0..MaxDeltas
    BY <1>6, RouterAssumption DEF Speak, Types, RouterTypeOK
  <2> QED BY <1>6, <2>1, <2>2, <2>3 DEF Speak, Types, RouterTypeOK, InChain
<1>7. CASE RenderFails
  <2>1. pos <= chain /\ said' \in 0..MaxDeltas
    BY <1>7, RouterAssumption DEF RenderFails, Running, Types, InChain
  <2>2. "context_too_long" \in Errors
    BY DEF Errors
  <2>3. Fails("context_too_long", TRUE, FALSE)
    BY <1>7 DEF RenderFails
  <2> QED BY <2>1, <2>2, <2>3, FailsTyped
<1>8. ASSUME NEW e \in Failures, NEW limit \in BOOLEAN, CallFails(e, limit) PROVE Types'
  <2>1. e \in Errors
    BY RouterAssumption DEF Errors
  <2>2. pos <= chain /\ said' \in 0..MaxDeltas
    BY <1>8 DEF CallFails, Running, Types, RouterTypeOK, InChain
  <2> QED BY <1>8, <2>1, <2>2, FailsTyped DEF CallFails
<1>9. CASE Succeeds
  <2>1. attempts' \in Nat /\ pos \in Positions /\ pos \in 0..MaxChain
    BY <1>9, <1>p DEF Succeeds, Running, Types, RouterTypeOK, InChain
  <2>2. out' \in Events
    BY <1>9, <2>1, YieldTyped DEF Succeeds, Types
  <2>r. Record(pos, "ok", NoError, TRUE, said > 0) \in Records
    <3>1. (said > 0) \in BOOLEAN
      OBVIOUS
    <3> QED BY <2>1, <3>1, RecordTyped
  <2>3. trail' \in Seq(Records)
    BY <1>9, <2>r, TrailTyped DEF Succeeds, Types, RouterTypeOK
  <2> QED BY <1>9, <2>1, <2>2, <2>3
          DEF Succeeds, Settle, Types, RouterTypeOK, InChain, Over
<1>10. CASE Refit
  BY <1>10 DEF Refit, Running, Types, RouterTypeOK, InChain
<1>11. CASE Retry
  <2>1. retries' \in 0..MaxRetries
    BY <1>11, RouterAssumption DEF Retry, MayRetry, Types, RouterTypeOK
  <2> QED BY <1>11, <2>1 DEF Retry, Running, Types, RouterTypeOK, InChain
<1>12. CASE FailOver
  <2>1. pos' \in 1..(chain + 1)
    BY <1>12, RouterAssumption DEF FailOver, Running, Types, RouterTypeOK, InChain, Positions
  <2> QED BY <1>12, <2>1 DEF FailOver, Types, RouterTypeOK, InChain
<1>13. CASE Abort
  <2>1. pos \in 0..MaxChain
    BY <1>13, <1>p DEF Abort, Running, Types, InChain
  <2> QED BY <1>13, <2>1 DEF Abort, Types, RouterTypeOK, InChain, Over
<1>14. CASE Consume
  BY <1>14, NoEventTyped DEF Consume, Types, RouterTypeOK, InChain
<1>15. CASE Close
  BY <1>15, NoEventTyped DEF Close, Types, RouterTypeOK, InChain, Over
<1>16. CASE UNCHANGED routerVars
  BY <1>16 DEF routerVars, Types, RouterTypeOK, InChain
<1> QED
  BY <1>1, <1>2, <1>3, <1>4, <1>5, <1>6, <1>7, <1>8, <1>9, <1>10, <1>11, <1>12,
     <1>13, <1>14, <1>15, <1>16 DEF RouterNext, RouterStep, Finished

LEMMA TypesInitially == RouterInit => Types
<1> SUFFICES ASSUME RouterInit PROVE Types
  OBVIOUS
<1>1. /\ pos \in 1..(chain + 1) /\ retries \in 0..MaxRetries /\ said \in 0..MaxDeltas
      /\ 0 \in 0..MaxChain /\ attempts \in Nat
  BY RouterAssumption DEF RouterInit, Positions
<1>2. trail \in Seq(Records)
  BY DEF RouterInit
<1> QED BY <1>1, <1>2, NoEventTyped DEF RouterInit, Types, RouterTypeOK, InChain

LEMMA TypesAlways == RouterSpec => []Types
BY TypesInitially, TypesInductive, PTL DEF RouterSpec

(* The loop's counters stay in range, its records stay records: neither the  *)
(* retry budget nor the chain is ever overrun.                               *)
THEOREM RouterTypeCorrect == RouterSpec => []RouterTypeOK
<1>1. Types => RouterTypeOK
  BY DEF Types
<1> QED BY <1>1, TypesAlways, PTL

-----------------------------------------------------------------------------
(* The budget at each point of the loop: a candidate is admitted below the   *)
(* cap, and only the retries of the last candidate go past it.               *)
Extra == IF pos = chain THEN retries ELSE 0

WithinBudget ==
    /\ (pc = "candidate" /\ pos <= chain) => attempts <= MaxAttempts
    /\ pc = "try" => attempts + 1 <= MaxAttempts + Extra
    /\ pc \in {"flight", "decide"} => attempts <= MaxAttempts + Extra
    /\ OnlyTheLastRetryGoesOver

LEMMA BudgetInductive ==
    Types /\ WithinBudget /\ [RouterNext]_routerVars => WithinBudget'
<1> SUFFICES ASSUME Types, WithinBudget, [RouterNext]_routerVars PROVE WithinBudget'
  OBVIOUS
<1>t. /\ pos \in Nat /\ chain \in Nat /\ attempts \in Nat /\ retries \in Nat
      /\ retries <= MaxRetries /\ MaxAttempts \in Nat /\ MaxRetries \in Nat
      /\ pc \in {"try", "flight", "decide"} => pos <= chain
  BY RouterAssumption DEF Types, RouterTypeOK, InChain, Positions
<1> USE <1>t DEF WithinBudget, OnlyTheLastRetryGoesOver, Extra
<1>1. CASE SkipOpen
  BY <1>1 DEF SkipOpen, Running, MoreToTry
<1>2. CASE Admit
  BY <1>2 DEF Admit, Running, MoreToTry
<1>3. CASE Exhausted
  BY <1>3 DEF Exhausted
<1>4. CASE SkipQuota
  BY <1>4 DEF SkipQuota, Running
<1>5. CASE Send
  BY <1>5 DEF Send, Running
<1>6. CASE Speak
  BY <1>6 DEF Speak, Running
<1>7. CASE RenderFails
  BY <1>7 DEF RenderFails, Fails, Running
<1>8. ASSUME NEW e \in Failures, NEW limit \in BOOLEAN, CallFails(e, limit)
      PROVE  WithinBudget'
  BY <1>8 DEF CallFails, Fails, Running
<1>9. CASE Succeeds
  BY <1>9 DEF Succeeds
<1>10. CASE Refit
  BY <1>10 DEF Refit, MayRefit
<1>11. CASE Retry
  BY <1>11 DEF Retry, Running, MayRetry, RetryWouldStarveFailover
<1>12. CASE FailOver
  BY <1>12 DEF FailOver, Running
<1>13. CASE Abort
  BY <1>13 DEF Abort
<1>14. CASE Consume
  BY <1>14 DEF Consume
<1>15. CASE Close
  BY <1>15 DEF Close
<1>16. CASE UNCHANGED routerVars
  BY <1>16 DEF routerVars
<1> QED
  BY <1>1, <1>2, <1>3, <1>4, <1>5, <1>6, <1>7, <1>8, <1>9, <1>10, <1>11, <1>12,
     <1>13, <1>14, <1>15, <1>16 DEF RouterNext, RouterStep, Finished

(* While a candidate is left to ask, one message never costs more than       *)
(* MAX_ATTEMPTS round trips, and the last candidate adds its retries and no  *)
(* more, whatever the mix of skips, re-fits, retries and failovers.          *)
THEOREM CapCorrect == RouterSpec => []OnlyTheLastRetryGoesOver
<1>1. RouterInit => WithinBudget
  BY RouterAssumption
     DEF RouterInit, WithinBudget, OnlyTheLastRetryGoesOver, Extra, Positions
<1>2. WithinBudget => OnlyTheLastRetryGoesOver
  BY DEF WithinBudget
<1> QED BY <1>1, <1>2, TypesAlways, BudgetInductive, PTL DEF RouterSpec

-----------------------------------------------------------------------------
(* What a retry knows before it is sent.                                     *)
YieldKept ==
    /\ (pc = "try" /\ retries > 0 /\ ~refit /\ pos < chain)
            => attempts < MaxAttempts - 1
    /\ RetryYieldsTheLastAttempt

LEMMA YieldInductive ==
    Types /\ YieldKept /\ [RouterNext]_routerVars => YieldKept'
<1> SUFFICES ASSUME Types, YieldKept, [RouterNext]_routerVars PROVE YieldKept'
  OBVIOUS
<1>t. /\ pos \in Nat /\ chain \in Nat /\ attempts \in Nat /\ retries \in Nat
      /\ MaxAttempts \in Nat /\ MaxRetries \in Nat
  BY RouterAssumption DEF Types, RouterTypeOK, Positions
<1> USE <1>t DEF YieldKept, RetryYieldsTheLastAttempt
<1>1. CASE SkipOpen \/ Exhausted \/ SkipQuota
  BY <1>1 DEF SkipOpen, Exhausted, SkipQuota, Running
<1>2. CASE Admit
  BY <1>2 DEF Admit
<1>3. CASE Send
  BY <1>3 DEF Send, Running
<1>4. CASE Speak \/ Succeeds \/ Abort
  BY <1>4 DEF Speak, Succeeds, Abort, Running
<1>5. CASE RenderFails
  BY <1>5 DEF RenderFails, Fails
<1>6. ASSUME NEW e \in Failures, NEW limit \in BOOLEAN, CallFails(e, limit)
      PROVE  YieldKept'
  BY <1>6 DEF CallFails, Fails
<1>7. CASE Refit
  BY <1>7 DEF Refit
<1>8. CASE Retry
  BY <1>8 DEF Retry, Running, MayRetry, RetryWouldStarveFailover
<1>9. CASE FailOver
  BY <1>9 DEF FailOver
<1>10. CASE Consume \/ Close
  BY <1>10 DEF Consume, Close
<1>11. CASE UNCHANGED routerVars
  BY <1>11 DEF routerVars
<1> QED
  BY <1>1, <1>2, <1>3, <1>4, <1>5, <1>6, <1>7, <1>8, <1>9, <1>10, <1>11
     DEF RouterNext, RouterStep, Finished

(* ADR-015: while a candidate is left that has not been asked, no retry      *)
(* takes the last attempt from it, for every chain and every cap.            *)
THEOREM YieldCorrect == RouterSpec => []RetryYieldsTheLastAttempt
<1>1. RouterInit => YieldKept
  BY DEF RouterInit, YieldKept, RetryYieldsTheLastAttempt
<1>2. YieldKept => RetryYieldsTheLastAttempt
  BY DEF YieldKept
<1> QED BY <1>1, <1>2, TypesAlways, YieldInductive, PTL DEF RouterSpec

-----------------------------------------------------------------------------
LEMMA SettledInductive ==
    SettledAfterTheCall /\ [RouterNext]_routerVars => SettledAfterTheCall'
<1> SUFFICES ASSUME SettledAfterTheCall, [RouterNext]_routerVars
             PROVE  SettledAfterTheCall'
  OBVIOUS
<1> USE DEF SettledAfterTheCall, Running
<1>1. CASE SkipOpen \/ Admit \/ Exhausted \/ SkipQuota \/ Send \/ Speak
  BY <1>1 DEF SkipOpen, Admit, Exhausted, SkipQuota, Send, Speak
<1>2. CASE RenderFails
  BY <1>2 DEF RenderFails, Fails, Settle
<1>3. ASSUME NEW e \in Failures, NEW limit \in BOOLEAN, CallFails(e, limit)
      PROVE  SettledAfterTheCall'
  BY <1>3 DEF CallFails, Fails, Settle
<1>4. CASE Succeeds \/ Refit \/ Retry \/ FailOver \/ Abort
  BY <1>4 DEF Succeeds, Settle, Refit, Retry, FailOver, Abort
<1>5. CASE Consume \/ Close
  BY <1>5 DEF Consume, Close
<1>6. CASE UNCHANGED routerVars
  BY <1>6 DEF routerVars
<1> QED
  BY <1>1, <1>2, <1>3, <1>4, <1>5, <1>6 DEF RouterNext, RouterStep, Finished

(* Every reservation the loop takes is committed or released before the loop *)
(* does anything else; only a stream closed under it leaves one behind.      *)
THEOREM SettledCorrect == RouterSpec => []SettledAfterTheCall
<1>1. RouterInit => SettledAfterTheCall
  BY DEF RouterInit, SettledAfterTheCall
<1> QED BY <1>1, SettledInductive, PTL DEF RouterSpec

(* For any chain, any MAX_ATTEMPTS and any retry bound, no retry takes the   *)
(* attempt a failover needs, and only a last candidate's retries leave the   *)
(* budget (_retry_would_starve_failover).                                    *)
THEOREM BudgetCorrect == RouterSpec => []FailoverIsNotStarved
<1>1. RouterTypeOK /\ OnlyTheLastRetryGoesOver /\ RetryYieldsTheLastAttempt => FailoverIsNotStarved
  BY DEF FailoverIsNotStarved
<1> QED BY <1>1, RouterTypeCorrect, CapCorrect, YieldCorrect, PTL

-----------------------------------------------------------------------------
(* The trail grows at its end: what was recorded stays.                      *)
LEMMA TrailGrows ==
    ASSUME NEW t \in Seq(Records), NEW r \in Records
    PROVE  /\ Len(t) \in Nat /\ Len(t) + 1 \notin DOMAIN t
           /\ DOMAIN t = 1..Len(t) /\ DOMAIN Append(t, r) = DOMAIN t \cup {Len(t) + 1}
           /\ Len(Append(t, r)) = Len(t) + 1
           /\ Append(t, r)[Len(t) + 1] = r
           /\ \A i \in DOMAIN t : Append(t, r)[i] = t[i] /\ i < Len(t) + 1
OBVIOUS

LEMMA TrailCands ==
    ASSUME NEW t \in Seq(Records)
    PROVE  \A i \in DOMAIN t : t[i] \in Records /\ t[i].cand \in Int
<1>1. \A i \in DOMAIN t : t[i] \in Records
  OBVIOUS
<1>2. \A r \in Records : r.cand \in Int
  BY RouterAssumption DEF Records, Positions
<1> QED BY <1>1, <1>2

Error(i) == trail[i].kind = "error"
MayMoveOn(i) == trail[i].error \in FailoverEligible \/ trail[i].error = "context_too_long"
MayAskAgain(i) == trail[i].error \in RetryableSameProvider /\ ~trail[i].said

(* What the trail looks like at each point of the loop: records are of       *)
(* candidates up to the one at hand, of earlier ones while there is none,    *)
(* and every failure but the one being decided on allowed what came next.    *)
Earned ==
    /\ \A i \in DOMAIN trail : trail[i].cand <= pos
    /\ pc = "candidate" => \A i \in DOMAIN trail : trail[i].cand < pos
    /\ \A i \in DOMAIN trail : Error(i) /\ trail[i].cand < pos => MayMoveOn(i)
    /\ pc \in {"try", "flight"} =>
          \A i \in DOMAIN trail : Error(i) /\ trail[i].cand = pos => MayAskAgain(i)
    /\ pc = "decide" =>
          /\ \A i \in DOMAIN trail :
                i < Len(trail) /\ Error(i) /\ trail[i].cand = pos => MayAskAgain(i)
          /\ Len(trail) \in DOMAIN trail /\ Error(Len(trail))
          /\ trail[Len(trail)].cand = pos /\ trail[Len(trail)].error = last.error
          /\ trail[Len(trail)].said => said > 0
    /\ RetriesAreEarned

(* A record of the candidate at hand, appended where the loop may append.    *)
LEMMA EarnedAppend ==
    ASSUME Types, Earned, pc \in {"candidate", "try", "flight"},
           NEW r \in Records, r.cand = pos, trail' = Append(trail, r)
    PROVE  /\ RetriesAreEarned'
           /\ \A i \in DOMAIN trail' : trail'[i].cand <= pos
           /\ \A i \in DOMAIN trail' : Error(i)' /\ trail'[i].cand < pos => MayMoveOn(i)'
           /\ \A i \in DOMAIN trail' :
                 i < Len(trail') /\ Error(i)' /\ trail'[i].cand = pos => MayAskAgain(i)'
           /\ Len(trail') \in DOMAIN trail' /\ trail'[Len(trail')] = r
<1> DEFINE n == Len(trail) + 1
<1>1. /\ DOMAIN trail' = DOMAIN trail \cup {n} /\ n \notin DOMAIN trail /\ n \in Nat
      /\ Len(trail') = n /\ trail'[n] = r
      /\ \A i \in DOMAIN trail : trail'[i] = trail[i] /\ i < n /\ i \in Nat
  BY TrailGrows DEF Types, RouterTypeOK
<1>p. pos \in Int /\ \A i \in DOMAIN trail : trail[i].cand \in Int
  BY RouterAssumption, TrailCands DEF Types, RouterTypeOK
<1> HIDE DEF n
<1>2. \A i \in DOMAIN trail : Error(i)' = Error(i) /\ MayMoveOn(i)' = MayMoveOn(i)
                              /\ MayAskAgain(i)' = MayAskAgain(i)
  BY <1>1 DEF Error, MayMoveOn, MayAskAgain
<1>3. \A i \in DOMAIN trail : Error(i) /\ trail[i].cand = pos => MayAskAgain(i)
  BY <1>p DEF Earned
<1>4. \A i \in DOMAIN trail : Error(i) /\ trail[i].cand # pos => MayMoveOn(i)
  BY <1>p DEF Earned
<1>5. FlagsRespected'
  <2> SUFFICES ASSUME NEW i \in DOMAIN trail', NEW j \in DOMAIN trail',
                      i < j, trail'[i].kind = "error"
               PROVE  /\ trail'[j].cand # trail'[i].cand =>
                            trail'[i].error \in FailoverEligible
                               \/ trail'[i].error = "context_too_long"
                      /\ trail'[j].cand = trail'[i].cand =>
                            trail'[i].error \in RetryableSameProvider
    BY DEF FlagsRespected
  <2>1. i \in DOMAIN trail
    BY <1>1
  <2>2. CASE j \in DOMAIN trail
    BY <1>1, <2>1, <2>2 DEF Earned, RetriesAreEarned, FlagsRespected
  <2>3. CASE j = n
    BY <1>1, <1>3, <1>4, <2>1, <2>3 DEF Error, MayMoveOn, MayAskAgain
  <2> QED BY <1>1, <2>2, <2>3
<1>6. RestartMovesOn'
  <2> SUFFICES ASSUME NEW i \in DOMAIN trail', NEW j \in DOMAIN trail',
                      i < j, trail'[i].kind = "error", trail'[i].said
               PROVE  trail'[j].cand # trail'[i].cand
    BY DEF RestartMovesOn
  <2>1. i \in DOMAIN trail
    BY <1>1
  <2>2. CASE j \in DOMAIN trail
    BY <1>1, <2>1, <2>2 DEF Earned, RetriesAreEarned, RestartMovesOn
  <2>3. CASE j = n
    BY <1>1, <1>3, <2>1, <2>3 DEF Error, MayAskAgain
  <2> QED BY <1>1, <2>2, <2>3
<1>7. \A i \in DOMAIN trail' : trail'[i].cand <= pos
  BY <1>1, <1>p DEF Earned
<1>8. \A i \in DOMAIN trail' : Error(i)' /\ trail'[i].cand < pos => MayMoveOn(i)'
  BY <1>1, <1>2, <1>4, <1>p
<1>9. \A i \in DOMAIN trail' :
         i < Len(trail') /\ Error(i)' /\ trail'[i].cand = pos => MayAskAgain(i)'
  BY <1>1, <1>2, <1>3
<1> QED BY <1>1, <1>5, <1>6, <1>7, <1>8, <1>9 DEF RetriesAreEarned

LEMMA EarnedKept ==
    ASSUME Types, Earned, UNCHANGED trail
    PROVE  /\ RetriesAreEarned'
           /\ \A i \in DOMAIN trail : /\ Error(i)' = Error(i) /\ MayMoveOn(i)' = MayMoveOn(i)
                                      /\ MayAskAgain(i)' = MayAskAgain(i)
                                      /\ trail[i].cand \in Int
           /\ pos \in Int
<1>1. pos \in Int /\ \A i \in DOMAIN trail : trail[i].cand \in Int
  BY RouterAssumption, TrailCands DEF Types, RouterTypeOK
<1>2. RetriesAreEarned'
  BY DEF Earned, RetriesAreEarned, FlagsRespected, RestartMovesOn
<1>3. \A i \in DOMAIN trail : /\ Error(i)' = Error(i) /\ MayMoveOn(i)' = MayMoveOn(i)
                              /\ MayAskAgain(i)' = MayAskAgain(i)
  BY DEF Error, MayMoveOn, MayAskAgain
<1> QED BY <1>1, <1>2, <1>3

LEMMA EarnedFails ==
    ASSUME Types, Earned, pos <= chain, pc \in {"try", "flight"}, NEW e \in Errors,
           NEW limit \in BOOLEAN, NEW sent \in BOOLEAN, Fails(e, limit, sent),
           sent => said' = said
    PROVE  Earned'
<1> DEFINE r == Record(pos, "error", e, sent, sent /\ said > 0)
<1>1. /\ r \in Records /\ r.cand = pos /\ r.kind = "error" /\ r.error = e
      /\ r.said => sent /\ said > 0
  <2>1. pos \in Positions /\ (sent /\ said > 0) \in BOOLEAN
    BY RouterAssumption DEF Types, RouterTypeOK, Positions
  <2>2. r \in Records
    BY <2>1, RecordTyped
  <2> QED BY <2>2 DEF Record
<1>2. trail' = Append(trail, r) /\ pos' = pos /\ pc' = "decide" /\ last'.error = e
  BY DEF Fails, LastError
<1> HIDE DEF r
<1>3. /\ RetriesAreEarned'
      /\ \A i \in DOMAIN trail' : trail'[i].cand <= pos
      /\ \A i \in DOMAIN trail' : Error(i)' /\ trail'[i].cand < pos => MayMoveOn(i)'
      /\ \A i \in DOMAIN trail' :
            i < Len(trail') /\ Error(i)' /\ trail'[i].cand = pos => MayAskAgain(i)'
      /\ Len(trail') \in DOMAIN trail' /\ trail'[Len(trail')] = r
  BY <1>1, <1>2, EarnedAppend
<1>4. Error(Len(trail))'
  BY <1>1, <1>3 DEF Error
<1>5. trail'[Len(trail')].said => said' > 0
  BY <1>1, <1>3
<1> QED BY <1>1, <1>2, <1>3, <1>4, <1>5 DEF Earned

LEMMA EarnedInductive == Types /\ Earned /\ [RouterNext]_routerVars => Earned'
<1> SUFFICES ASSUME Types, Earned, [RouterNext]_routerVars PROVE Earned'
  OBVIOUS
<1>p. pos \in Int /\ (pos <= chain => pos \in Positions)
  BY RouterAssumption DEF Types, RouterTypeOK, Positions
<1>s. ASSUME UNCHANGED <<trail, pos, said, last>>, pc' = pc \/ pc' \in Over PROVE Earned'
  <2>1. /\ RetriesAreEarned'
        /\ \A i \in DOMAIN trail : Error(i)' = Error(i) /\ MayMoveOn(i)' = MayMoveOn(i)
                                   /\ MayAskAgain(i)' = MayAskAgain(i)
    BY <1>s, EarnedKept
  <2> QED BY <1>s, <2>1 DEF Earned, Over, Error, MayMoveOn, MayAskAgain
<1>1. CASE SkipOpen
  <2> DEFINE r == Record(pos, "skipped_breaker", NoError, FALSE, FALSE)
  <2>1. r \in Records /\ r.cand = pos /\ r.kind # "error"
    BY <1>1, <1>p, RecordTyped DEF SkipOpen, MoreToTry, Record
  <2>2. trail' = Append(trail, r) /\ pos' = pos + 1 /\ pc' = "candidate" /\ pc = "candidate"
    BY <1>1 DEF SkipOpen, Running
  <2> HIDE DEF r
  <2>3. /\ RetriesAreEarned'
        /\ \A i \in DOMAIN trail' : trail'[i].cand <= pos /\ trail'[i].cand \in Int
        /\ \A i \in DOMAIN trail' : Error(i)' /\ trail'[i].cand < pos => MayMoveOn(i)'
    <3>1. trail' \in Seq(Records)
      BY <2>1, <2>2, TrailTyped DEF Types, RouterTypeOK
    <3>2. \A i \in DOMAIN trail' : trail'[i].cand \in Int
      BY <3>1, TrailCands
    <3> QED BY <2>1, <2>2, <3>2, EarnedAppend
  <2>4. \A i \in DOMAIN trail' : trail'[i].cand = pos => ~Error(i)'
    <3>1. /\ DOMAIN trail' = DOMAIN trail \cup {Len(trail) + 1} /\ trail'[Len(trail) + 1] = r
          /\ \A i \in DOMAIN trail : trail'[i] = trail[i]
      BY <2>1, <2>2, TrailGrows DEF Types, RouterTypeOK
    <3>2. \A i \in DOMAIN trail : trail[i].cand # pos
      BY <2>2, <1>p, TrailCands DEF Earned, Types, RouterTypeOK
    <3> QED BY <2>1, <3>1, <3>2 DEF Error
  <2> QED BY <1>p, <2>2, <2>3, <2>4 DEF Earned
<1>2. CASE Admit
  <2>1. UNCHANGED <<trail, pos>> /\ pc = "candidate" /\ pc' = "try"
    BY <1>2 DEF Admit, Running
  <2> QED BY <2>1, EarnedKept DEF Earned
<1>3. CASE Exhausted
  BY <1>3, <1>s DEF Exhausted, Over
<1>4. CASE SkipQuota
  <2> DEFINE r == Record(pos, "skipped_quota", NoError, FALSE, FALSE)
  <2>1. r \in Records /\ r.cand = pos /\ r.kind # "error"
    BY <1>4, <1>p, RecordTyped DEF SkipQuota, Running, Types, InChain, Record
  <2>2. trail' = Append(trail, r) /\ pos' = pos + 1 /\ pc' = "candidate" /\ pc = "try"
    BY <1>4 DEF SkipQuota, Running
  <2> HIDE DEF r
  <2>3. /\ RetriesAreEarned'
        /\ \A i \in DOMAIN trail' : trail'[i].cand <= pos /\ trail'[i].cand \in Int
        /\ \A i \in DOMAIN trail' : Error(i)' /\ trail'[i].cand < pos => MayMoveOn(i)'
        /\ \A i \in DOMAIN trail' :
              i < Len(trail') /\ Error(i)' /\ trail'[i].cand = pos => MayAskAgain(i)'
    <3>1. trail' \in Seq(Records)
      BY <2>1, <2>2, TrailTyped DEF Types, RouterTypeOK
    <3>2. \A i \in DOMAIN trail' : trail'[i].cand \in Int
      BY <3>1, TrailCands
    <3> QED BY <2>1, <2>2, <3>2, EarnedAppend
  <2>4. \A i \in DOMAIN trail' : i < Len(trail') \/ ~Error(i)'
    BY <2>1, <2>2, TrailGrows DEF Types, RouterTypeOK, Error
  <2>5. \A i \in DOMAIN trail' : MayAskAgain(i)' => MayMoveOn(i)'
    BY DEF MayAskAgain, MayMoveOn, RetryableSameProvider, FailoverEligible
  <2> QED BY <1>p, <2>2, <2>3, <2>4, <2>5 DEF Earned
<1>5. CASE Send
  <2>1. UNCHANGED <<trail, pos>> /\ pc = "try" /\ pc' = "flight"
    BY <1>5 DEF Send, Running
  <2> QED BY <2>1, EarnedKept DEF Earned
<1>6. CASE Speak
  <2>1. UNCHANGED <<trail, pos>> /\ pc = "flight" /\ pc' = "flight"
    BY <1>6 DEF Speak, Running
  <2> QED BY <2>1, EarnedKept DEF Earned
<1>7. CASE RenderFails
  <2>1. pos <= chain /\ pc = "try" /\ "context_too_long" \in Errors
    BY <1>7 DEF RenderFails, Running, Types, InChain, Errors
  <2>2. Fails("context_too_long", TRUE, FALSE)
    BY <1>7 DEF RenderFails
  <2> QED BY <2>1, <2>2, EarnedFails
<1>8. ASSUME NEW e \in Failures, NEW limit \in BOOLEAN, CallFails(e, limit) PROVE Earned'
  <2>1. e \in Errors /\ pos <= chain /\ pc = "flight" /\ said' = said /\ Fails(e, limit, TRUE)
    BY <1>8, RouterAssumption DEF CallFails, Running, Types, InChain, Errors
  <2> QED BY <2>1, EarnedFails
<1>9. CASE Succeeds
  <2> DEFINE r == Record(pos, "ok", NoError, TRUE, said > 0)
  <2>0. pos \in Positions /\ (said > 0) \in BOOLEAN
    BY <1>9, <1>p DEF Succeeds, Running, Types, InChain
  <2>1. r \in Records
    BY <2>0, RecordTyped
  <2>2. r.cand = pos
    BY DEF Record
  <2>3. trail' = Append(trail, r) /\ pos' = pos /\ pc' = "served" /\ pc = "flight"
    BY <1>9 DEF Succeeds, Running
  <2> HIDE DEF r
  <2> QED BY <2>1, <2>2, <2>3, EarnedAppend DEF Earned
<1>d. ASSUME Running("decide"), UNCHANGED <<trail, pos>>, pc' = "try", MayAskAgain(Len(trail))
      PROVE  Earned'
  <2>1. \A i \in DOMAIN trail : Error(i) /\ trail[i].cand = pos => MayAskAgain(i)
    <3>1. \A i \in DOMAIN trail : i < Len(trail) \/ i = Len(trail)
      BY DEF Types, RouterTypeOK
    <3> QED BY <1>d, <3>1 DEF Running, Earned
  <2> QED BY <1>d, <2>1, EarnedKept DEF Earned
<1>10. CASE Refit \/ Retry
  <2>1. /\ Running("decide") /\ UNCHANGED <<trail, pos>> /\ pc' = "try"
        /\ last.error \in RetryableSameProvider /\ said = 0
    BY <1>10 DEF Refit, Retry, MayRefit, MayRetry, RetryableSameProvider
  <2>2. MayAskAgain(Len(trail))
    BY <2>1 DEF MayAskAgain, Running, Earned
  <2> QED BY <2>1, <2>2, <1>d
<1>12. CASE FailOver
  <2>1. UNCHANGED trail /\ pc = "decide" /\ pos' = pos + 1 /\ pc' = "candidate"
        /\ last.error \in FailoverEligible
    BY <1>12 DEF FailOver, Running
  <2>2. \A i \in DOMAIN trail : i < Len(trail) \/ i = Len(trail)
    BY DEF Types, RouterTypeOK
  <2>3. \A i \in DOMAIN trail : MayAskAgain(i) => MayMoveOn(i)
    BY DEF MayAskAgain, MayMoveOn, RetryableSameProvider, FailoverEligible
  <2>4. MayMoveOn(Len(trail))
    BY <2>1 DEF Earned, MayMoveOn
  <2>5. \A i \in DOMAIN trail : Error(i) /\ trail[i].cand = pos => MayMoveOn(i)
    BY <2>1, <2>2, <2>3, <2>4 DEF Earned
  <2>6. \A i \in DOMAIN trail : trail[i].cand < pos' /\ (trail[i].cand < pos \/ trail[i].cand = pos)
    BY <2>1, EarnedKept DEF Earned
  <2>7. \A i \in DOMAIN trail : Error(i) => MayMoveOn(i)
    BY <2>5, <2>6 DEF Earned
  <2> QED BY <1>p, <2>1, <2>6, <2>7, EarnedKept DEF Earned
<1>13. CASE Abort
  BY <1>13, <1>s DEF Abort, Over
<1>14. CASE Consume
  BY <1>14, <1>s DEF Consume
<1>15. CASE Close
  BY <1>15, <1>s DEF Close, Over
<1>16. CASE UNCHANGED routerVars
  BY <1>16, <1>s DEF routerVars
<1> QED
  BY <1>1, <1>2, <1>3, <1>4, <1>5, <1>6, <1>7, <1>8, <1>9, <1>10, <1>12,
     <1>13, <1>14, <1>15, <1>16 DEF RouterNext, RouterStep, Finished

(* For any chain and any mix of failures: a question is taken to another     *)
(* candidate, or to the same one again, only after an error whose class      *)
(* allows it, and never back to a candidate that had begun to answer.        *)
THEOREM EarnedCorrect == RouterSpec => []RetriesAreEarned
<1>1. RouterInit => Earned
  BY DEF RouterInit, Earned, RetriesAreEarned, FlagsRespected, RestartMovesOn
<1>2. Earned => RetriesAreEarned
  BY DEF Earned
<1> QED BY <1>1, <1>2, TypesAlways, EarnedInductive, PTL DEF RouterSpec

-----------------------------------------------------------------------------
SentIn(t) == {i \in DOMAIN t : t[i].sent}

LEMMA SentFinite ==
    ASSUME NEW t \in Seq(Records)
    PROVE  IsFiniteSet(SentIn(t)) /\ Cardinality(SentIn(t)) \in Nat
<1>1. IsFiniteSet(1..Len(t)) /\ SentIn(t) \subseteq 1..Len(t)
  BY FS_Interval DEF SentIn
<1> QED BY <1>1, FS_Subset, FS_CardinalityType

LEMMA SentCounted ==
    ASSUME NEW t \in Seq(Records), NEW r \in Records
    PROVE  Cardinality(SentIn(Append(t, r))) =
               Cardinality(SentIn(t)) + (IF r.sent THEN 1 ELSE 0)
<1> DEFINE n == Len(t) + 1
<1>1. /\ DOMAIN Append(t, r) = DOMAIN t \cup {n} /\ n \notin DOMAIN t
      /\ Append(t, r)[n] = r /\ \A i \in DOMAIN t : Append(t, r)[i] = t[i]
  BY TrailGrows
<1>2. IsFiniteSet(SentIn(t)) /\ Cardinality(SentIn(t)) \in Nat
  BY SentFinite
<1> HIDE DEF n
<1>3. CASE r.sent
  <2>1. SentIn(Append(t, r)) = SentIn(t) \cup {n} /\ n \notin SentIn(t)
    BY <1>1, <1>3 DEF SentIn
  <2> QED BY <1>2, <1>3, <2>1, FS_AddElement
<1>4. CASE ~r.sent
  <2>1. SentIn(Append(t, r)) = SentIn(t)
    BY <1>1, <1>4 DEF SentIn
  <2> QED BY <1>2, <1>4, <2>1
<1> QED BY <1>2, <1>3, <1>4

(* The records and the counter of round trips, step by step.                 *)
LEMMA TripsInductive ==
    Types /\ AttemptsAreRoundTrips /\ [RouterNext]_routerVars => AttemptsAreRoundTrips'
<1> SUFFICES ASSUME Types, AttemptsAreRoundTrips, [RouterNext]_routerVars
             PROVE  AttemptsAreRoundTrips'
  OBVIOUS
<1>t. trail \in Seq(Records) /\ attempts \in Nat /\ Cardinality(SentIn(trail)) \in Nat
      /\ (pos <= chain => pos \in Positions)
  BY RouterAssumption, SentFinite DEF Types, RouterTypeOK, Positions
<1>a. pc # "gone" => attempts = Cardinality(SentIn(trail)) + (IF pc = "flight" THEN 1 ELSE 0)
  BY DEF AttemptsAreRoundTrips, SentIn
<1>b. ASSUME pc' # "gone" =>
                attempts' = Cardinality(SentIn(trail')) + (IF pc' = "flight" THEN 1 ELSE 0)
      PROVE  AttemptsAreRoundTrips'
  BY <1>b DEF AttemptsAreRoundTrips, SentIn
<1>u. ASSUME UNCHANGED <<trail, attempts>>, pc # "flight", pc # "gone", pc' # "flight"
      PROVE  AttemptsAreRoundTrips'
  BY <1>u, <1>a, <1>b
<1>r. ASSUME NEW r \in Records, trail' = Append(trail, r), attempts' = attempts,
             pc # "gone", pc' # "flight", r.sent <=> pc = "flight"
      PROVE  AttemptsAreRoundTrips'
  BY <1>r, <1>t, <1>a, <1>b, SentCounted
<1>1. CASE SkipOpen
  <2>1. Record(pos, "skipped_breaker", NoError, FALSE, FALSE) \in Records
    BY <1>1, <1>t, RecordTyped DEF SkipOpen, MoreToTry
  <2> QED BY <1>1, <1>r, <2>1 DEF SkipOpen, Running, Record
<1>2. CASE Admit \/ Exhausted \/ Refit \/ Retry \/ FailOver \/ Abort
  BY <1>2, <1>u DEF Admit, Exhausted, Refit, Retry, FailOver, Abort, Running
<1>4. CASE SkipQuota
  <2>1. Record(pos, "skipped_quota", NoError, FALSE, FALSE) \in Records
    BY <1>4, <1>t, RecordTyped DEF SkipQuota, Running, Types, InChain
  <2> QED BY <1>4, <1>r, <2>1 DEF SkipQuota, Running, Record
<1>5. CASE Send
  <2>1. /\ trail' = trail /\ attempts' = attempts + 1 /\ pc = "try" /\ pc' = "flight"
        /\ Cardinality(SentIn(trail)) = attempts
    BY <1>5, <1>a, <1>t DEF Send, Running
  <2> QED BY <1>b, <1>t, <2>1
<1>6. CASE Speak
  BY <1>6, <1>a, <1>b DEF Speak, Running
<1>7. ASSUME NEW e \in Errors, NEW limit \in BOOLEAN, NEW sent \in BOOLEAN,
             pos <= chain, Fails(e, limit, sent), pc # "gone", sent <=> pc = "flight"
      PROVE  AttemptsAreRoundTrips'
  <2> DEFINE r == Record(pos, "error", e, sent, sent /\ said > 0)
  <2>0. pos \in Positions /\ (sent /\ said > 0) \in BOOLEAN
    BY <1>7, <1>t
  <2>1. r \in Records
    BY <2>0, RecordTyped
  <2>2. r.sent = sent
    BY DEF Record
  <2>3. trail' = Append(trail, r) /\ attempts' = attempts /\ pc' = "decide"
    BY <1>7 DEF Fails
  <2> HIDE DEF r
  <2> QED BY <1>7, <1>r, <2>1, <2>2, <2>3
<1>8. CASE RenderFails
  <2>1. pos <= chain /\ pc = "try" /\ "context_too_long" \in Errors
    BY <1>8 DEF RenderFails, Running, Types, InChain, Errors
  <2>2. Fails("context_too_long", TRUE, FALSE)
    BY <1>8 DEF RenderFails
  <2> QED BY <2>1, <2>2, <1>7
<1>9. ASSUME NEW e \in Failures, NEW limit \in BOOLEAN, CallFails(e, limit)
      PROVE  AttemptsAreRoundTrips'
  <2>1. e \in Errors /\ pos <= chain /\ pc = "flight" /\ Fails(e, limit, TRUE)
    BY <1>9, RouterAssumption DEF CallFails, Running, Types, InChain, Errors
  <2> QED BY <2>1, <1>7
<1>10. CASE Succeeds
  <2> DEFINE r == Record(pos, "ok", NoError, TRUE, said > 0)
  <2>0. pos \in Positions /\ (said > 0) \in BOOLEAN
    BY <1>10, <1>t DEF Succeeds, Running, Types, InChain
  <2>1. r \in Records
    BY <2>0, RecordTyped
  <2>2. r.sent = TRUE
    BY DEF Record
  <2>3. trail' = Append(trail, r) /\ attempts' = attempts /\ pc' = "served" /\ pc = "flight"
    BY <1>10 DEF Succeeds, Running
  <2> HIDE DEF r
  <2> QED BY <1>r, <2>1, <2>2, <2>3
<1>11. CASE Consume \/ UNCHANGED routerVars
  BY <1>11, <1>a, <1>b DEF Consume, routerVars
<1>12. CASE Close
  BY <1>12, <1>b DEF Close
<1> QED
  BY <1>1, <1>2, <1>4, <1>5, <1>6, <1>8, <1>9, <1>10, <1>11, <1>12
     DEF RouterNext, RouterStep, Finished

-----------------------------------------------------------------------------
(* last_error and last_spec are those of the last failure on the trail, and  *)
(* nothing when there is none; the candidate being decided on is last_spec.  *)
LastFailure(i) ==
    /\ Error(i) /\ \A j \in DOMAIN trail : Error(j) => j <= i
    /\ last.error = trail[i].error /\ last.cand = trail[i].cand

Told ==
    /\ \A i \in DOMAIN trail : Error(i) => trail[i].error \in Errors
    /\ (\A i \in DOMAIN trail : ~Error(i)) => last.error = NoError /\ last.cand = 0
    /\ (\E i \in DOMAIN trail : Error(i)) => \E i \in DOMAIN trail : LastFailure(i)
    /\ pc = "decide" => last.cand = pos
    /\ AskedIsReported /\ ErrorIsHonest

(* A record that is not a failure leaves last_error the last one.            *)
LEMMA ToldAppend ==
    ASSUME Types, Told, NEW r \in Records, r.kind # "error",
           trail' = Append(trail, r), last' = last
    PROVE  /\ \A i \in DOMAIN trail' : Error(i)' => trail'[i].error \in Errors
           /\ (\A i \in DOMAIN trail' : ~Error(i)') => last'.error = NoError /\ last'.cand = 0
           /\ (\E i \in DOMAIN trail' : Error(i)') => \E i \in DOMAIN trail' : LastFailure(i)'
<1> DEFINE n == Len(trail) + 1
<1>1. /\ DOMAIN trail' = DOMAIN trail \cup {n} /\ trail'[n] = r
      /\ \A i \in DOMAIN trail : trail'[i] = trail[i]
  BY TrailGrows DEF Types, RouterTypeOK
<1> HIDE DEF n
<1>2. /\ \A i \in DOMAIN trail : Error(i)' = Error(i)
      /\ \A i \in DOMAIN trail' : Error(i)' => i \in DOMAIN trail
  BY <1>1 DEF Error
<1>3. ASSUME NEW i \in DOMAIN trail, LastFailure(i) PROVE LastFailure(i)'
  BY <1>1, <1>2, <1>3 DEF LastFailure
<1>4. \A i \in DOMAIN trail' : Error(i)' => trail'[i].error \in Errors
  BY <1>1, <1>2 DEF Told
<1>5. (\A i \in DOMAIN trail' : ~Error(i)') => last'.error = NoError /\ last'.cand = 0
  BY <1>1, <1>2 DEF Told
<1>6. (\E i \in DOMAIN trail' : Error(i)') => \E i \in DOMAIN trail' : LastFailure(i)'
  BY <1>1, <1>2, <1>3 DEF Told
<1> QED BY <1>4, <1>5, <1>6

LEMMA AskedAppend ==
    ASSUME Types, NEW r \in Records, trail' = Append(trail, r), NEW p \in Positions
    PROVE  /\ Asked(p)' <=> Asked(p) \/ (r.cand = p /\ r.sent)
           /\ SkippedOnQuota(p)' <=> SkippedOnQuota(p) \/ (r.cand = p /\ r.kind = "skipped_quota")
<1>1. /\ DOMAIN trail' = DOMAIN trail \cup {Len(trail) + 1} /\ trail'[Len(trail) + 1] = r
      /\ \A i \in DOMAIN trail : trail'[i] = trail[i]
  BY TrailGrows DEF Types, RouterTypeOK
<1> QED BY <1>1 DEF Asked, SkippedOnQuota

(* Nobody at or beyond the place of the loop has been asked.                 *)
LEMMA AskedSoFar ==
    ASSUME Types, Earned, NEW p \in Positions, Asked(p)
    PROVE  p <= pos /\ (pc = "candidate" => p < pos)
BY DEF Asked, Earned

LEMMA ToldFails ==
    ASSUME Types, Told, Earned, pos <= chain, pc \in {"try", "flight"}, NEW e \in Errors,
           NEW limit \in BOOLEAN, NEW sent \in BOOLEAN, Fails(e, limit, sent)
    PROVE  Told'
<1> DEFINE r == Record(pos, "error", e, sent, sent /\ said > 0)
<1>0. PICK n : n = Len(trail) + 1
  OBVIOUS
<1>1. r \in Records
  <2>1. pos \in Positions /\ (sent /\ said > 0) \in BOOLEAN
    BY RouterAssumption DEF Types, RouterTypeOK, Positions
  <2> QED BY <2>1, RecordTyped
<1>2. r.cand = pos /\ r.kind = "error" /\ r.error = e
  BY DEF Record
<1>3. /\ trail' = Append(trail, r) /\ pos' = pos /\ pc' = "decide" /\ reports' = reports
      /\ last'.error = e /\ last'.cand = pos
  BY DEF Fails, LastError
<1> HIDE DEF r
<1>4. /\ DOMAIN trail' = DOMAIN trail \cup {n} /\ trail'[n] = r
      /\ \A i \in DOMAIN trail : trail'[i] = trail[i] /\ i <= n
      /\ n \in Nat
  BY <1>0, <1>1, <1>3, TrailGrows DEF Types, RouterTypeOK
<1>5. LastFailure(n)'
  BY <1>2, <1>3, <1>4 DEF LastFailure, Error
<1>6. \A i \in DOMAIN trail' : Error(i)' => trail'[i].error \in Errors
  BY <1>2, <1>4 DEF Told, Error
<1>7. AskedIsReported'
  <2> SUFFICES ASSUME NEW p \in Positions, Asked(p)', p < pos
               PROVE  reports[p] # "none" \/ SkippedOnQuota(p)'
    BY <1>3 DEF AskedIsReported
  <2>1. pos \in Int /\ p \in Int
    BY RouterAssumption DEF Types, RouterTypeOK, Positions
  <2>2. Asked(p)
    BY <1>1, <1>2, <1>3, <2>1, AskedAppend
  <2>3. SkippedOnQuota(p) => SkippedOnQuota(p)'
    BY <1>1, <1>3, AskedAppend
  <2> QED BY <2>2, <2>3 DEF Told, AskedIsReported
<1>8. ErrorIsHonest'
  BY <1>3 DEF ErrorIsHonest
<1>9. Error(n)' /\ n \in DOMAIN trail'
  BY <1>4, <1>5 DEF LastFailure
<1> QED BY <1>3, <1>5, <1>6, <1>7, <1>8, <1>9 DEF Told

LEMMA ToldInductive == Types /\ Earned /\ Told /\ [RouterNext]_routerVars => Told'
<1> SUFFICES ASSUME Types, Earned, Told, [RouterNext]_routerVars PROVE Told'
  OBVIOUS
<1>p. /\ pos \in Int /\ (pos <= chain => pos \in Positions)
      /\ reports \in [Positions -> {"none", "success", "failure"}]
  BY RouterAssumption DEF Types, RouterTypeOK, Positions
<1>q. \A p \in Positions : p \in Int
  BY RouterAssumption DEF Positions
<1>k. ASSUME UNCHANGED <<trail, last>>
      PROVE  /\ \A i \in DOMAIN trail' : Error(i)' => trail'[i].error \in Errors
             /\ (\A i \in DOMAIN trail' : ~Error(i)') => last'.error = NoError /\ last'.cand = 0
             /\ (\E i \in DOMAIN trail' : Error(i)') => \E i \in DOMAIN trail' : LastFailure(i)'
             /\ \A p \in Positions : Asked(p)' = Asked(p) /\ SkippedOnQuota(p)' = SkippedOnQuota(p)
             /\ SkipError' = SkipError
  BY <1>k DEF Told, Error, LastFailure, Asked, SkippedOnQuota, SkipError
<1>s. ASSUME UNCHANGED <<trail, last, pos, reports, outcome>>,
             pc' = pc \/ (pc' \notin {"served", "failed"} /\ pc' # "decide")
      PROVE  Told'
  <2>1. AskedIsReported'
    BY <1>s, <1>k DEF Told, AskedIsReported
  <2>2. ErrorIsHonest'
    BY <1>s, <1>k DEF Told, ErrorIsHonest
  <2>3. pc' = "decide" => last'.cand = pos'
    BY <1>s DEF Told
  <2> QED BY <1>s, <1>k, <2>1, <2>2, <2>3 DEF Told
<1>1. CASE SkipOpen
  <2> DEFINE r == Record(pos, "skipped_breaker", NoError, FALSE, FALSE)
  <2>1. r \in Records
    BY <1>1, <1>p, RecordTyped DEF SkipOpen, MoreToTry
  <2>2. r.cand = pos /\ r.kind = "skipped_breaker" /\ r.sent = FALSE
    BY DEF Record
  <2>3. trail' = Append(trail, r) /\ pos' = pos + 1 /\ pc' = "candidate" /\ pc = "candidate"
        /\ last' = last /\ reports' = reports
    BY <1>1 DEF SkipOpen, Running
  <2> HIDE DEF r
  <2>4. AskedIsReported'
    <3> SUFFICES ASSUME NEW p \in Positions, Asked(p)'
                 PROVE  reports[p] # "none" \/ SkippedOnQuota(p)'
      BY <2>3 DEF AskedIsReported
    <3>1. Asked(p) /\ (SkippedOnQuota(p) => SkippedOnQuota(p)')
      BY <2>1, <2>2, <2>3, AskedAppend
    <3>2. p < pos
      BY <2>3, <3>1, AskedSoFar
    <3> QED BY <3>1, <3>2 DEF Told, AskedIsReported
  <2> QED BY <2>1, <2>2, <2>3, <2>4, ToldAppend DEF Told, ErrorIsHonest
<1>2. CASE Admit
  BY <1>2, <1>s DEF Admit
<1>3. CASE Exhausted
  <2>1. /\ pc = "candidate" /\ pc' = "failed" /\ UNCHANGED <<trail, last, pos, reports>>
        /\ outcome'.cand = last.cand
        /\ outcome'.error = IF last.error = NoError THEN SkipError ELSE last.error
    BY <1>3 DEF Exhausted, Running
  <2>2. AskedIsReported'
    <3> SUFFICES ASSUME NEW p \in Positions, Asked(p)'
                 PROVE  reports[p] # "none" \/ SkippedOnQuota(p)'
      BY <2>1 DEF AskedIsReported
    <3>1. Asked(p) /\ SkippedOnQuota(p)' = SkippedOnQuota(p)
      BY <2>1, <1>k
    <3>2. p < pos
      BY <2>1, <3>1, AskedSoFar
    <3> QED BY <3>1, <3>2 DEF Told, AskedIsReported
  <2>3. ErrorIsHonest'
    <3>1. CASE \A i \in DOMAIN trail : ~Error(i)
      <4>1. outcome'.cand = 0 /\ outcome'.error = SkipError'
        BY <2>1, <3>1, <1>k DEF Told
      <4>2. {i \in DOMAIN trail' : trail'[i].kind = "error"} = {}
        BY <2>1, <3>1 DEF Error
      <4> QED BY <4>1, <4>2 DEF ErrorIsHonest
    <3>2. CASE \E i \in DOMAIN trail : Error(i)
      <4>1. PICK i \in DOMAIN trail : LastFailure(i)
        BY <3>2 DEF Told
      <4>2. last.error # NoError
        BY <4>1 DEF LastFailure, Told, Errors, NoError
      <4>3. outcome'.error = trail'[i].error /\ outcome'.cand = trail'[i].cand
        BY <2>1, <4>1, <4>2 DEF LastFailure
      <4>4. /\ i \in {j \in DOMAIN trail' : trail'[j].kind = "error"}
            /\ \A j \in {m \in DOMAIN trail' : trail'[m].kind = "error"} : j <= i
        BY <2>1, <4>1 DEF LastFailure, Error
      <4> QED BY <4>3, <4>4 DEF ErrorIsHonest
    <3> QED BY <3>1, <3>2
  <2> QED BY <2>1, <2>2, <2>3, <1>k DEF Told
<1>4. CASE SkipQuota
  <2> DEFINE r == Record(pos, "skipped_quota", NoError, FALSE, FALSE)
  <2>1. r \in Records
    BY <1>4, <1>p, RecordTyped DEF SkipQuota, Running, Types, InChain
  <2>2. r.cand = pos /\ r.kind = "skipped_quota" /\ r.sent = FALSE
    BY DEF Record
  <2>3. trail' = Append(trail, r) /\ pos' = pos + 1 /\ pc' = "candidate"
        /\ last' = last /\ reports' = reports
    BY <1>4 DEF SkipQuota
  <2> HIDE DEF r
  <2>4. AskedIsReported'
    <3> SUFFICES ASSUME NEW p \in Positions, Asked(p)'
                 PROVE  reports[p] # "none" \/ SkippedOnQuota(p)'
      BY <2>3 DEF AskedIsReported
    <3>1. Asked(p) /\ (SkippedOnQuota(p) \/ p = pos => SkippedOnQuota(p)')
      BY <2>1, <2>2, <2>3, AskedAppend
    <3>2. p < pos \/ p = pos
      BY <1>p, <1>q, <3>1, AskedSoFar
    <3> QED BY <3>1, <3>2 DEF Told, AskedIsReported
  <2> QED BY <2>1, <2>2, <2>3, <2>4, ToldAppend DEF Told, ErrorIsHonest
<1>5. CASE Send \/ Speak \/ Refit \/ Retry
  BY <1>5, <1>s DEF Send, Speak, Refit, Retry, Running
<1>7. CASE RenderFails
  <2>1. pos <= chain /\ pc = "try" /\ "context_too_long" \in Errors
    BY <1>7 DEF RenderFails, Running, Types, InChain, Errors
  <2>2. Fails("context_too_long", TRUE, FALSE)
    BY <1>7 DEF RenderFails
  <2> QED BY <2>1, <2>2, ToldFails
<1>8. ASSUME NEW e \in Failures, NEW limit \in BOOLEAN, CallFails(e, limit) PROVE Told'
  <2>1. e \in Errors /\ pos <= chain /\ pc = "flight" /\ Fails(e, limit, TRUE)
    BY <1>8, RouterAssumption DEF CallFails, Running, Types, InChain, Errors
  <2> QED BY <2>1, ToldFails
<1>9. CASE Succeeds
  <2> DEFINE r == Record(pos, "ok", NoError, TRUE, said > 0)
  <2>0. pos \in Positions /\ (said > 0) \in BOOLEAN
    BY <1>9, <1>p DEF Succeeds, Running, Types, InChain
  <2>1. r \in Records
    BY <2>0, RecordTyped
  <2>2. r.cand = pos /\ r.kind = "ok"
    BY DEF Record
  <2>3. /\ trail' = Append(trail, r) /\ pos' = pos /\ pc' = "served" /\ last' = last
        /\ reports' = [reports EXCEPT ![pos] = "success"]
    BY <1>9 DEF Succeeds
  <2> HIDE DEF r
  <2>4. AskedIsReported'
    <3> SUFFICES ASSUME NEW p \in Positions, Asked(p)'
                 PROVE  reports'[p] # "none" \/ SkippedOnQuota(p)'
      BY DEF AskedIsReported
    <3>1. CASE p = pos
      BY <1>p, <2>3, <3>1
    <3>2. CASE p # pos
      <4>1. Asked(p) /\ (SkippedOnQuota(p) => SkippedOnQuota(p)') /\ reports'[p] = reports[p]
        BY <1>p, <2>1, <2>2, <2>3, <3>2, AskedAppend
      <4>2. p < pos
        BY <1>p, <1>q, <3>2, <4>1, AskedSoFar
      <4> QED BY <4>1, <4>2 DEF Told, AskedIsReported
    <3> QED BY <3>1, <3>2
  <2> QED BY <2>1, <2>2, <2>3, <2>4, ToldAppend DEF Told, ErrorIsHonest
<1>f. ASSUME UNCHANGED trail, reports' = [reports EXCEPT ![pos] = "failure"], pos <= chain,
             UNCHANGED last
      PROVE  AskedIsReported'
  <2> SUFFICES ASSUME NEW p \in Positions, Asked(p)'
               PROVE  reports'[p] # "none" \/ SkippedOnQuota(p)'
    BY DEF AskedIsReported
  <2>1. Asked(p) /\ SkippedOnQuota(p)' = SkippedOnQuota(p)
    BY <1>f, <1>k
  <2>2. CASE p = pos
    BY <1>f, <1>p, <2>2
  <2>3. CASE p # pos
    <3>1. p < pos /\ reports'[p] = reports[p]
      BY <1>f, <1>p, <1>q, <2>1, <2>3, AskedSoFar
    <3> QED BY <2>1, <3>1 DEF Told, AskedIsReported
  <2> QED BY <2>2, <2>3
<1>12. CASE FailOver
  <2>1. /\ UNCHANGED <<trail, last>> /\ pc' = "candidate" /\ pos <= chain
        /\ reports' = [reports EXCEPT ![pos] = "failure"]
    BY <1>12 DEF FailOver, Running, Types, InChain
  <2> QED BY <2>1, <1>f, <1>k DEF Told, ErrorIsHonest
<1>13. CASE Abort
  <2>1. /\ UNCHANGED <<trail, last>> /\ pc = "decide" /\ pc' = "failed" /\ pos <= chain
        /\ reports' = [reports EXCEPT ![pos] = "failure"]
        /\ outcome'.error = last.error /\ outcome'.cand = pos
    BY <1>13 DEF Abort, Running, Types, InChain
  <2>2. PICK i \in DOMAIN trail : LastFailure(i)
    BY <2>1 DEF Told, Earned
  <2>3. outcome'.error = trail'[i].error /\ outcome'.cand = trail'[i].cand
    BY <2>1, <2>2 DEF LastFailure, Told
  <2>4. /\ i \in {j \in DOMAIN trail' : trail'[j].kind = "error"}
        /\ \A j \in {m \in DOMAIN trail' : trail'[m].kind = "error"} : j <= i
    BY <2>1, <2>2 DEF LastFailure, Error
  <2>5. ErrorIsHonest'
    BY <2>3, <2>4 DEF ErrorIsHonest
  <2> QED BY <2>1, <2>5, <1>f, <1>k DEF Told
<1>14. CASE Consume \/ UNCHANGED routerVars
  BY <1>14, <1>s DEF Consume, routerVars
<1>15. CASE Close
  BY <1>15, <1>s DEF Close
<1> QED
  BY <1>1, <1>2, <1>3, <1>4, <1>5, <1>7, <1>8, <1>9, <1>12, <1>13, <1>14, <1>15
     DEF RouterNext, RouterStep, Finished

(* The books of every turn agree with what happened, for any chain and any   *)
(* mix of skips, failures, retries and re-fits: attempts are round trips,    *)
(* the breaker heard of every candidate that was asked, reservations are     *)
(* settled, and the client's error is the last failure or the kind of skip.  *)
THEOREM BooksCorrect == RouterSpec => []BooksAgree
<1>1. RouterInit => AttemptsAreRoundTrips
  <2>1. {i \in DOMAIN <<>> : <<>>[i].sent} = {}
    OBVIOUS
  <2> QED BY <2>1, FS_EmptySet DEF RouterInit, AttemptsAreRoundTrips
<1>2. RouterInit => Earned /\ Told
  BY DEF RouterInit, Earned, RetriesAreEarned, FlagsRespected, RestartMovesOn, Told,
         AskedIsReported, ErrorIsHonest, Asked, NoError
<1>3. AttemptsAreRoundTrips /\ Told /\ SettledAfterTheCall => BooksAgree
  BY DEF Told, BooksAgree
<1> QED
  BY <1>1, <1>2, <1>3, TypesAlways, EarnedInductive, TripsInductive, ToldInductive,
     SettledCorrect, PTL DEF RouterSpec

-----------------------------------------------------------------------------
(* The turn: its inductive invariant.                                        *)

StreamTypes == Types /\ mode = "stream"

(* k deltas of one attempt of one candidate.                                 *)
TextOf(k, a, c) == [i \in 1..k |-> [attempt |-> a, cand |-> c]]

(* All of a text is one attempt's.                                           *)
OneVoice(text) == \A i, j \in DOMAIN text : text[i] = text[j]

(* The events out stands for are those of the attempt at hand.               *)
EventFollows ==
    /\ out.kind = "started" => pc = "flight" /\ said = 0
    /\ out.kind = "delta" => pc = "flight" /\ said > 0
    /\ out.kind = "aborted" => pc = "decide"
    /\ out.kind = "completed" => pc = "served"
    /\ out # NoEvent => out.kind # "none" /\ out.attempt = attempts /\ out.cand = pos
                        /\ stage = "wait"
    /\ pc = "flight" => attempts > 0
    /\ pc = "served" => said > 0 /\ outcome.cand = pos /\ pos <= chain

(* The deltas of the attempt at hand that _apply has folded into the turn.   *)
Folded ==
    IF out.kind = "delta" THEN said - 1
    ELSE IF pc \in {"flight", "served"} \/ out.kind = "aborted" THEN said ELSE 0

(* The candidate whose text a restart is to withdraw is not asked again.     *)
LeftBehind ==
    \/ turn.restart < pos
    \/ turn.restart = pos /\ said > 0 /\ pc \in {"decide", "failed"}

(* turn against the router: the buffer is what the attempt at hand has       *)
(* delivered, and a restart is owed to a candidate that was left behind.     *)
TurnFollows ==
    /\ turn.buffer = TextOf(Folded, attempts, pos)
    /\ OneVoice(turn.longest)
    /\ (pc = "flight" /\ out.kind # "started") => turn.spec = pos
    /\ turn.committed => turn.spec # 0
    /\ turn.buffer # <<>> => turn.committed
    /\ (turn.committed /\ turn.buffer = <<>>) <=> turn.restart # 0
    /\ turn.restart # 0 => LeftBehind

(* How a turn that is done came to be so.                                    *)
DoneFollows ==
    /\ turn.done => out = NoEvent /\ stage # "wait" /\ turn.committed
                    /\ pc = (IF turn.status = "ok" THEN "served" ELSE "failed")
    /\ (turn.done /\ turn.status = "ok") => turn.spec = pos
    /\ turn.status = "failed" => turn.done
    /\ stage = "persist" => turn.done

MetaFrame == [kind |-> "meta", cand |-> turn.spec, text |-> <<>>]
RestartFrame == [kind |-> "restart", cand |-> turn.spec, text |-> <<>>]
DoneFrame == [kind |-> "done", cand |-> turn.spec, text |-> <<>>]
DeltaFrame == [kind |-> "delta", cand |-> turn.spec,
               text |-> [attempt |-> attempts, cand |-> pos]]

(* The frames that may wait to be sent, and what the turn is then.           *)
FramesFollow ==
    \/ stage # "send" /\ frames = <<>>
    \/ stage = "send" /\ turn.done /\ frames = <<DoneFrame>>
    \/ /\ stage = "send" /\ ~turn.done /\ pc = "flight" /\ out = NoEvent /\ said > 0
       /\ turn.spec = pos
       /\ frames \in {<<DeltaFrame>>, <<MetaFrame, DeltaFrame>>, <<RestartFrame, DeltaFrame>>}

(* The screen against the turn, the frames on their way counted in.          *)
Spoken == client.phase = "speaking" /\ client.screen # <<>>

ScreenIsEmpty ==
    client.phase = "silent" /\ client.screen = <<>> /\ client.by = 0 /\ client.cleared = 0

ScreenIsTheBuffer ==
    Spoken /\ client.screen = turn.buffer /\ client.by = pos

ScreenIsTheLost ==
    /\ Spoken /\ client.by = turn.restart
    /\ Len(client.screen) <= Len(turn.longest)

RestartFits == client.cleared + 2 <= attempts /\ client.cleared + 2 <= MaxAttempts

ScreenFollows ==
    IF frames = <<>> \/ turn.done
    THEN IF ~turn.committed THEN ScreenIsEmpty
         ELSE IF turn.restart = 0 THEN ScreenIsTheBuffer ELSE ScreenIsTheLost
    ELSE CASE frames[1].kind = "meta" -> ScreenIsEmpty /\ turn.buffer = <<DeltaFrame.text>>
           [] frames[1].kind = "restart" ->
                  /\ Spoken /\ client.by < pos /\ turn.buffer = <<DeltaFrame.text>>
                  /\ RestartFits
           [] frames[1].kind = "delta" ->
                  /\ client.phase = "speaking" /\ client.by = pos
                  /\ turn.buffer = Append(client.screen, DeltaFrame.text)
                  /\ client.screen = TextOf(said - 1, attempts, pos)

(* The restarts against the attempts: each one follows an attempt that       *)
(* spoke, and a candidate is admitted only below MAX_ATTEMPTS.               *)
RestartsFollow ==
    /\ turn.committed => client.cleared + 1 <= attempts
    /\ (turn.restart # 0 /\ pc = "flight") => client.cleared + 2 <= attempts
    /\ (turn.restart # 0 /\ turn.restart < pos /\ pc \in {"try", "flight", "decide"})
           => client.cleared + 2 <= MaxAttempts

(* done, as the browser holds it.                                            *)
DoneIsTold ==
    IF stage = "persist"
    THEN client.done = [status |-> turn.status, cand |-> turn.spec,
                        partial |-> PartialContent]
    ELSE client.done = NotDone

(* While the orchestrator runs: its own state, and what the reader has.      *)
TurnInStep == EventFollows /\ TurnFollows /\ DoneFollows /\ FramesFollow
ReaderInStep == ScreenFollows /\ RestartsFollow /\ DoneIsTold

(* What stays true when the orchestrator has returned.                       *)
OkIsWhole ==
    (client.done.status = "ok" /\ (client.phase = "ok" \/ (Waiting /\ ~away))) =>
        /\ client.phase \in {"speaking", "ok"} /\ client.screen # <<>>
        /\ client.screen = turn.buffer /\ client.by = turn.spec
        /\ client.done.cand = turn.spec /\ turn.done /\ turn.status = "ok"
        /\ stored.kind # "none" => stored = Stored

FailedIsOffered ==
    (client.done.status = "failed" /\ Waiting /\ ~away) =>
        /\ OneVoice(client.done.partial)
        /\ Len(client.screen) >= MinPartial
               => Len(client.done.partial) >= Len(client.screen)

Ended ==
    /\ client.phase = "ok" => client.done.status = "ok" /\ stage = "closed"
    /\ client.phase = "refused" => stage = "closed" /\ ~client.bytes
    /\ ~turn.committed => ~client.bytes
    /\ stored.kind # "none" => stage = "closed"
    /\ stage = "closed" => frames = <<>>
    /\ OkIsWhole /\ FailedIsOffered /\ StoredIsTheServedAttempt

StreamInv ==
    /\ OrchTypeOK
    /\ stage # "closed" => TurnInStep
    /\ (stage # "closed" /\ ~away) => ReaderInStep
    /\ Ended

-----------------------------------------------------------------------------
(* Texts.                                                                    *)

LEMMA TextFacts ==
    ASSUME NEW k \in Nat, NEW a, NEW c
    PROVE  /\ TextOf(k, a, c) \in Seq({[attempt |-> a, cand |-> c]})
           /\ Len(TextOf(k, a, c)) = k /\ DOMAIN TextOf(k, a, c) = 1..k
           /\ \A i \in 1..k : TextOf(k, a, c)[i] = [attempt |-> a, cand |-> c]
           /\ OneVoice(TextOf(k, a, c))
           /\ TextOf(k, a, c) = <<>> <=> k = 0
<1>1. /\ TextOf(k, a, c) \in [1..k -> {[attempt |-> a, cand |-> c]}]
      /\ DOMAIN TextOf(k, a, c) = 1..k
      /\ \A i \in 1..k : TextOf(k, a, c)[i] = [attempt |-> a, cand |-> c]
  BY DEF TextOf
<1>2. TextOf(k, a, c) \in Seq({[attempt |-> a, cand |-> c]}) /\ Len(TextOf(k, a, c)) = k
  BY <1>1, SeqDef, LenProperties
<1>3. OneVoice(TextOf(k, a, c))
  BY <1>1 DEF OneVoice
<1>4. TextOf(k, a, c) = <<>> <=> k = 0
  BY <1>2, EmptySeq
<1> QED BY <1>1, <1>2, <1>3, <1>4

(* The piece that a delta adds.                                              *)
LEMMA TextGrows ==
    ASSUME NEW k \in Nat, NEW a, NEW c
    PROVE  Append(TextOf(k, a, c), [attempt |-> a, cand |-> c]) = TextOf(k + 1, a, c)
<1>0. ASSUME NEW m \in Nat
      PROVE  /\ TextOf(m, a, c) \in Seq({[attempt |-> a, cand |-> c]})
             /\ Len(TextOf(m, a, c)) = m
             /\ \A i \in 1..m : TextOf(m, a, c)[i] = [attempt |-> a, cand |-> c]
  <2>1. TextOf(m, a, c) \in Seq({[attempt |-> a, cand |-> c]})
    BY TextFacts
  <2>2. Len(TextOf(m, a, c)) = m
    BY TextFacts
  <2>3. \A i \in 1..m : TextOf(m, a, c)[i] = [attempt |-> a, cand |-> c]
    BY DEF TextOf
  <2> QED BY <2>1, <2>2, <2>3
<1>1. PICK p : p = [attempt |-> a, cand |-> c]
  OBVIOUS
<1>2. PICK t : t = TextOf(k, a, c)
  OBVIOUS
<1>3. PICK r : r = TextOf(k + 1, a, c)
  OBVIOUS
<1>4. t \in Seq({p}) /\ Len(t) = k /\ \A i \in 1..k : t[i] = p
  BY <1>0, <1>1, <1>2, Zenon
<1>5. r \in Seq({p}) /\ Len(r) = k + 1 /\ \A i \in 1..(k + 1) : r[i] = p
  <2>1. PICK m \in Nat : m = k + 1
    OBVIOUS
  <2>2. /\ TextOf(m, a, c) \in Seq({[attempt |-> a, cand |-> c]})
        /\ Len(TextOf(m, a, c)) = m
        /\ \A i \in 1..m : TextOf(m, a, c)[i] = [attempt |-> a, cand |-> c]
    BY <2>1, <1>0, Zenon
  <2> QED BY <1>1, <1>3, <2>1, <2>2, Zenon
<1>6. PICK s : s = Append(t, p)
  OBVIOUS
<1>7. s \in Seq({p}) /\ Len(s) = k + 1
  BY <1>4, <1>6, AppendProperties
<1>8. \A i \in 1..(k + 1) : s[i] = p
  BY <1>4, <1>6, AppendProperties
<1>9. s = r
  <2>1. \A i \in 1..Len(s) : s[i] = r[i]
    BY <1>5, <1>7, <1>8
  <2> QED BY <1>5, <1>7, <2>1, SeqEqual
<1> QED BY <1>1, <1>2, <1>3, <1>6, <1>9

LEMMA FunctionIsSeq ==
    ASSUME NEW S, NEW k \in Nat, NEW f \in [1..k -> S]
    PROVE  f \in Seq(S)
BY SeqDef

LEMMA TextTyped ==
    ASSUME NEW k \in Nat, NEW a \in Nat, NEW c \in Positions
    PROVE  TextOf(k, a, c) \in Texts
<1>1. [attempt |-> a, cand |-> c] \in [attempt : Nat, cand : Positions]
  OBVIOUS
<1>2. TextOf(k, a, c) \in [1..k -> [attempt : Nat, cand : Positions]]
  BY <1>1 DEF TextOf
<1> QED BY <1>2, FunctionIsSeq DEF Texts

(* The frames of one event.                                                  *)
LEMMA FrameFacts ==
    ASSUME NEW f, NEW g
    PROVE  /\ <<f>> # <<>> /\ <<f, g>> # <<>> /\ <<f>> # <<f, g>>
           /\ Head(<<f>>) = f /\ Tail(<<f>>) = <<>> /\ Len(<<f>>) = 1 /\ <<f>>[1] = f
           /\ Head(<<f, g>>) = f /\ Tail(<<f, g>>) = <<g>> /\ Len(<<f, g>>) = 2
           /\ <<f, g>>[1] = f
           /\ Append(<<>>, f) = <<f>> /\ Append(<<f>>, g) = <<f, g>>
<1>1. /\ <<f>> # <<>> /\ <<f, g>> # <<>> /\ <<f>> # <<f, g>>
      /\ Len(<<f>>) = 1 /\ <<f>>[1] = f /\ Len(<<f, g>>) = 2 /\ <<f, g>>[1] = f
  OBVIOUS
<1>2. Head(<<f>>) = f /\ Head(<<f, g>>) = f
  OBVIOUS
<1>3. Tail(<<f>>) = <<>>
  OBVIOUS
<1>4. Tail(<<f, g>>) = <<g>>
  <2>1. PICK t : t = Tail(<<f, g>>)
    OBVIOUS
  <2>2. t \in Seq({f, g}) /\ Len(t) = 1 /\ t[1] = g
    BY <2>1
  <2>3. <<g>> \in Seq({f, g}) /\ Len(<<g>>) = 1 /\ <<g>>[1] = g
    OBVIOUS
  <2>4. \A i \in 1..1 : t[i] = <<g>>[i]
    BY <2>2, <2>3
  <2> QED BY <2>1, <2>2, <2>3, <2>4, SeqEqual
<1>5. Append(<<>>, f) = <<f>>
  OBVIOUS
<1>6. Append(<<f>>, g) = <<f, g>>
  <2>1. PICK t : t = Append(<<f>>, g)
    OBVIOUS
  <2>2. t \in Seq({f, g}) /\ Len(t) = 2 /\ t[1] = f /\ t[2] = g
    BY <2>1
  <2>3. <<f, g>> \in Seq({f, g}) /\ Len(<<f, g>>) = 2 /\ <<f, g>>[1] = f /\ <<f, g>>[2] = g
    OBVIOUS
  <2>4. \A i \in 1..2 : t[i] = <<f, g>>[i]
    BY <2>2, <2>3
  <2> QED BY <2>1, <2>2, <2>3, <2>4, SeqEqual
<1> QED BY <1>1, <1>2, <1>3, <1>4, <1>5, <1>6

-----------------------------------------------------------------------------
(* The router inside.  To route_stream, the orchestrator is a consumer that  *)
(* takes its events and closes it when the client has gone.                  *)
LEMMA RouterStepInside ==
    ASSUME mode = "stream", [Next]_vars
    PROVE  [RouterNext]_routerVars
<1>1. CASE Drive
  BY <1>1 DEF Drive, RouterNext
<1>2. CASE Apply
  BY <1>2 DEF Apply, RouterNext, Consume
<1>3. CASE NoticeGone
  <2>1. CASE pc \in Over
    <3>1. out # NoEvent => Consume
      BY <1>3, <2>1 DEF NoticeGone, Consume
    <3>2. out = NoEvent => UNCHANGED routerVars
      BY <1>3, <2>1 DEF NoticeGone, routerVars
    <3> QED BY <3>1, <3>2 DEF RouterNext
  <2>2. CASE pc \notin Over
    BY <1>3, <2>2 DEF NoticeGone, Close, RouterNext
  <2> QED BY <2>1, <2>2
<1>4. CASE SendFrame \/ Raise \/ FailInBand \/ Persist \/ PersistFails \/ Heartbeat
  BY <1>4 DEF SendFrame, Raise, FailInBand, Persist, PersistFails, Heartbeat
<1>5. CASE BodyEnds \/ Stop \/ ConnectionDies \/ Done \/ UNCHANGED vars
  BY <1>5 DEF BodyEnds, Stop, ConnectionDies, Done, vars
<1> QED BY <1>1, <1>2, <1>3, <1>4, <1>5 DEF Next, Orchestrate

(* No step turns route_stream into route.                                    *)
LEMMA RouterKeepsMode == [RouterNext]_routerVars => mode' = mode
BY DEF RouterNext, RouterStep, SkipOpen, Admit, Exhausted, SkipQuota, Send, Speak,
       RenderFails, Succeeds, CallFails, Fails, Refit, Retry, FailOver, Abort, Consume,
       Close, Finished, routerVars

LEMMA StreamTypesInductive == StreamTypes /\ [Next]_vars => StreamTypes'
BY RouterStepInside, TypesInductive, RouterKeepsMode DEF StreamTypes

(* The loop that stream_completion drives, cancels and consumes takes no     *)
(* step that module Router does not describe, so that all that is proved of  *)
(* the router alone holds inside a streamed turn.                            *)
THEOREM RouterInside == Spec => RouterSpec
<1>1. Init => RouterInit /\ StreamTypes
  BY TypesInitially DEF Init, StreamTypes
<1>2. StreamTypes /\ [Next]_vars => StreamTypes' /\ [RouterNext]_routerVars
  BY RouterStepInside, StreamTypesInductive DEF StreamTypes
<1> QED BY <1>1, <1>2, PTL DEF Spec, RouterSpec

(* The budget, the error classes and the books of module Router, of every    *)
(* streamed turn, whenever its reader leaves.                                *)
THEOREM RouterHoldsInside == Spec => [](FailoverIsNotStarved /\ RetriesAreEarned /\ BooksAgree)
BY RouterInside, BudgetCorrect, EarnedCorrect, BooksCorrect, PTL

-----------------------------------------------------------------------------
(* The inductive step, action by action.                                     *)

LEMMA Base ==
    ASSUME StreamTypes
    PROVE  /\ mode = "stream" /\ pos \in Nat /\ pos > 0 /\ chain \in Nat /\ attempts \in Nat
           /\ said \in Nat /\ MaxAttempts \in Nat /\ MaxAttempts > 0 /\ MaxRetries \in Nat
           /\ MaxChain \in Nat /\ MinPartial \in Nat
           /\ pc \in {"candidate", "try", "flight", "decide", "served", "failed", "gone"}
           /\ pos <= chain => pos \in Positions
           /\ pc \in {"try", "flight", "decide"} => pos \in Positions /\ pos <= chain
           /\ \A p \in Positions : p \in 0..MaxChain /\ p # 0
           /\ out.kind \in {"none", "started", "delta", "aborted", "completed"}
           /\ outcome.cand \in 0..MaxChain
<1>1. mode = "stream"
  BY DEF StreamTypes
<1>2. /\ pos \in Nat /\ pos > 0 /\ chain \in Nat /\ attempts \in Nat
      /\ said \in Nat /\ MaxAttempts \in Nat /\ MaxAttempts > 0 /\ MaxRetries \in Nat
      /\ MaxChain \in Nat /\ MinPartial \in Nat
      /\ pos <= chain => pos \in Positions
      /\ \A p \in Positions : p \in 0..MaxChain /\ p # 0
  BY RouterAssumption, MinPartialAssumption DEF StreamTypes, Types, RouterTypeOK, Positions
<1>3. pc \in {"candidate", "try", "flight", "decide", "served", "failed", "gone"}
  BY DEF StreamTypes, Types, RouterTypeOK, Over
<1>4. pc \in {"try", "flight", "decide"} => pos \in Positions /\ pos <= chain
  BY <1>2 DEF StreamTypes, Types, InChain
<1>5. out.kind \in {"none", "started", "delta", "aborted", "completed"}
  BY DEF StreamTypes, Types, RouterTypeOK, Events
<1>6. outcome.cand \in 0..MaxChain
  BY DEF StreamTypes, Types, RouterTypeOK
<1> QED BY <1>1, <1>2, <1>3, <1>4, <1>5, <1>6

(* The deltas folded are no more than those said.                            *)
LEMMA FoldedFacts ==
    ASSUME StreamTypes, EventFollows
    PROVE  Folded \in Nat /\ Folded <= said
BY Base DEF EventFollows, Folded

(* What a step of the router does to the attempt at hand.                    *)
Moves ==
    /\ out = NoEvent /\ pos' \in {pos, pos + 1}
    /\ \/ /\ pc \in {"candidate", "try", "decide"}        \* between attempts
          /\ pc' \in {"candidate", "try", "failed"} /\ out' = NoEvent
          /\ attempts' = attempts
          /\ (pc = "decide" /\ said > 0 /\ pos' = pos) => pc' = "failed"
          /\ said' = said
          /\ pc = "candidate" /\ pc' # pc => pos' = pos
          /\ pc' = "try" => pos' = pos
          /\ (pc = "candidate" /\ pc' = "try") => attempts < MaxAttempts
       \/ /\ pc = "try" /\ pc' = "flight" /\ out'.kind = "started" /\ said' = 0   \* Send
          /\ attempts' = attempts + 1 /\ pos' = pos
       \/ /\ pc = "try" /\ pc' = "decide" /\ out'.kind = "aborted" /\ said' = 0   \* RenderFails
          /\ attempts' = attempts /\ pos' = pos
       \/ /\ pc = "flight" /\ pos' = pos /\ attempts' = attempts                 \* the call
          /\ \/ pc' = "flight" /\ said' = said + 1 /\ out'.kind = "delta"
             \/ pc' = "decide" /\ said' = said /\ out'.kind = "aborted"
             \/ pc' = "served" /\ said' = said /\ said > 0 /\ out'.kind = "completed"
                   /\ outcome'.cand = pos
    /\ out' # NoEvent => out'.attempt = attempts' /\ out'.cand = pos'

LEMMA RouterMoves == ASSUME StreamTypes, RouterStep PROVE Moves
<1> USE Base DEF Running, Moves
<1>1. CASE SkipOpen \/ Admit \/ Exhausted
  BY <1>1 DEF SkipOpen, Admit, Exhausted, MoreToTry
<1>2. CASE SkipQuota
  BY <1>2 DEF SkipQuota
<1>3. CASE Send
  BY <1>3 DEF Send, Yield, Event
<1>4. CASE Speak
  BY <1>4 DEF Speak, Yield, Event
<1>5. CASE RenderFails
  BY <1>5 DEF RenderFails, Fails, Yield, Event
<1>6. CASE Succeeds
  BY <1>6 DEF Succeeds, Yield, Event
<1>7. ASSUME NEW e \in Failures, NEW limit \in BOOLEAN, CallFails(e, limit) PROVE Moves
  BY <1>7 DEF CallFails, Fails, Yield, Event
<1>8. CASE Refit \/ Retry
  BY <1>8 DEF Refit, Retry, MayRefit, MayRetry
<1>9. CASE FailOver \/ Abort
  BY <1>9 DEF FailOver, Abort
<1> QED BY <1>1, <1>2, <1>3, <1>4, <1>5, <1>6, <1>7, <1>8, <1>9 DEF RouterStep

LEMMA RouterStepKeepsChain == RouterStep => chain' = chain
BY DEF RouterStep, SkipOpen, Admit, Exhausted, SkipQuota, Send, Speak, RenderFails, Succeeds,
       CallFails, Fails, Refit, Retry, FailOver, Abort

LEMMA DriveKeeps == ASSUME StreamTypes, StreamInv, Drive, StreamTypes' PROVE StreamInv'
<1>0. /\ TurnInStep /\ stage = "wait" /\ stage' = "wait" /\ Moves
      /\ UNCHANGED <<turn, frames, client, away, stored>>
  BY RouterMoves DEF StreamInv, Drive, orchVars
<1>1. OrchTypeOK'
  BY <1>0 DEF StreamInv, OrchTypeOK
<1>2. EventFollows'
  <2>1. chain' = chain
    BY RouterStepKeepsChain DEF Drive
  <2> QED BY <1>0, <2>1, Base DEF TurnInStep, EventFollows, Moves, NoEvent
<1>3. /\ Folded \in Nat /\ Folded' \in Nat
      /\ Folded' = Folded /\ (Folded = 0 \/ (attempts' = attempts /\ pos' = pos))
  BY <1>0, <1>2, Base DEF TurnInStep, EventFollows, Moves, Folded, NoEvent
<1>4. TurnFollows'
  <2>1. TextOf(Folded', attempts', pos') = TextOf(Folded, attempts, pos)
    <3>1. CASE Folded = 0
      <4>1. TextOf(0, attempts, pos) = <<>> /\ TextOf(0, attempts', pos') = <<>>
        BY TextFacts
      <4> QED BY <1>3, <3>1, <4>1
    <3>2. CASE attempts' = attempts /\ pos' = pos
      BY <1>3, <3>2
    <3> QED BY <1>3, <3>1, <3>2
  <2>2. (pc' = "flight" /\ out'.kind # "started") => turn'.spec = pos'
    BY <1>0 DEF TurnInStep, TurnFollows, Moves, NoEvent
  <2>3. turn.restart # 0 => LeftBehind'
    <3>1. turn.restart \in Nat
      BY Base DEF StreamInv, OrchTypeOK
    <3> QED BY <1>0, <3>1, Base DEF TurnInStep, TurnFollows, Moves, LeftBehind
  <2> QED BY <1>0, <2>1, <2>2, <2>3 DEF TurnInStep, TurnFollows
<1>5. DoneFollows'
  BY <1>0 DEF TurnInStep, DoneFollows
<1>6. FramesFollow'
  BY <1>0 DEF TurnInStep, FramesFollow
<1>7. ASSUME ~away PROVE ReaderInStep'
  <2>0. ReaderInStep /\ frames = <<>>
    BY <1>0, <1>7 DEF StreamInv, TurnInStep, FramesFollow
  <2>1. ScreenFollows'
    <3>1. (turn.committed /\ turn.restart = 0) => pos' = pos
      <4>1. (turn.committed /\ turn.restart = 0) => Folded # 0
        <5>1. TextOf(0, attempts, pos) = <<>>
          BY TextFacts
        <5> QED BY <1>0, <5>1 DEF TurnInStep, TurnFollows
      <4> QED BY <1>3, <4>1
    <3> QED BY <1>0, <2>0, <3>1 DEF ReaderInStep, ScreenFollows, ScreenIsEmpty,
                ScreenIsTheBuffer, ScreenIsTheLost, Spoken
  <2>2. RestartsFollow'
    <3>1. client.cleared \in Nat /\ turn.restart \in Nat
      BY Base DEF StreamInv, OrchTypeOK
    <3>2. (turn.restart # 0 /\ turn.restart >= pos)
              => turn.restart = pos /\ said > 0 /\ pc \in {"decide", "failed"}
      BY <1>0, <3>1, Base DEF TurnInStep, TurnFollows, LeftBehind
    <3>3. turn.restart # 0 => turn.committed
      BY <1>0 DEF TurnInStep, TurnFollows
    <3>4. attempts' \in Nat /\ attempts' >= attempts
      BY <1>0, Base DEF Moves
    <3>5. (turn.restart # 0 /\ pc' = "flight") => client.cleared + 2 <= attempts'
      BY <1>0, <2>0, <3>1, <3>3, Base, SMTT(30) DEF ReaderInStep, RestartsFollow, Moves
    <3>6. (turn.restart # 0 /\ turn.restart < pos' /\ pc' \in {"try", "flight", "decide"})
             => client.cleared + 2 <= MaxAttempts
      BY <1>0, <2>0, <3>1, <3>2, <3>3, Base, SMTT(30) DEF ReaderInStep, RestartsFollow, Moves
    <3>7. turn.committed => client.cleared + 1 <= attempts'
      BY <2>0, <3>1, <3>4, Base DEF ReaderInStep, RestartsFollow
    <3> QED BY <1>0, <3>5, <3>6, <3>7 DEF RestartsFollow
  <2>3. DoneIsTold'
    BY <1>0, <2>0 DEF ReaderInStep, DoneIsTold
  <2> QED BY <2>1, <2>2, <2>3 DEF ReaderInStep
<1>8. Ended'
  BY <1>0 DEF StreamInv, Ended, OkIsWhole, FailedIsOffered, StoredIsTheServedAttempt,
              OneVoice, Waiting, Stored
<1> QED BY <1>0, <1>1, <1>2, <1>4, <1>5, <1>6, <1>7, <1>8 DEF StreamInv, TurnInStep

(* Until done has been sent, nothing has ended.                              *)
LEMMA NothingEnded ==
    ASSUME StreamInv, stage \in {"wait", "send"}, stage' # "closed",
           UNCHANGED <<client, away, stored>>, turn.committed => turn'.committed
    PROVE  Ended'
<1>1. client.phase # "ok" /\ client.phase # "refused" /\ stored.kind = "none"
      /\ (~turn.committed => ~client.bytes)
  BY DEF StreamInv, Ended
<1>2. ~away => client.done.status = "none"
  BY DEF StreamInv, ReaderInStep, DoneIsTold, NotDone
<1> QED BY <1>1, <1>2 DEF Ended, OkIsWhole, FailedIsOffered, StoredIsTheServedAttempt

LEMMA LongerFacts ==
    ASSUME NEW a \in Texts, NEW b \in Texts
    PROVE  /\ Longer(a, b) \in Texts /\ Longer(a, b) \in {a, b}
           /\ Len(Longer(a, b)) >= Len(a) /\ Len(Longer(a, b)) >= Len(b)
           /\ Len(Longer(a, b)) \in Nat /\ Len(a) \in Nat /\ Len(b) \in Nat
<1>1. Len(a) \in Nat /\ Len(b) \in Nat
  BY LenProperties DEF Texts
<1> QED BY <1>1 DEF Longer

(* Before an event is taken.                                                 *)
LEMMA EventPending ==
    ASSUME StreamTypes, StreamInv, stage = "wait", out # NoEvent
    PROVE  /\ TurnInStep /\ ~turn.done /\ frames = <<>> /\ pos \in Positions
           /\ turn.status = "ok" /\ out.attempt = attempts /\ out.cand = pos
           /\ Folded \in Nat /\ turn.buffer = TextOf(Folded, attempts, pos)
           /\ (turn.buffer = <<>> <=> Folded = 0)
           /\ turn.buffer \in Texts /\ turn.longest \in Texts
           /\ turn.restart \in Nat /\ turn.restart \in 0..MaxChain
           /\ OneVoice(turn.buffer) /\ OneVoice(turn.longest)
           /\ out.kind \in {"started", "delta", "aborted", "completed"}
           /\ \/ out.kind = "started" /\ pc = "flight" /\ said = 0
              \/ out.kind = "delta" /\ pc = "flight" /\ said > 0
              \/ out.kind = "aborted" /\ pc = "decide"
              \/ out.kind = "completed" /\ pc = "served" /\ said > 0
<1>1. TurnInStep
  BY DEF StreamInv
<1>2. ~turn.done /\ frames = <<>> /\ out.attempt = attempts /\ out.cand = pos
  BY <1>1 DEF TurnInStep, DoneFollows, FramesFollow, EventFollows
<1>3. turn.status = "ok" /\ turn.buffer \in Texts /\ turn.longest \in Texts
      /\ turn.restart \in Nat /\ turn.restart \in 0..MaxChain
  BY <1>1, <1>2, Base DEF StreamInv, OrchTypeOK, TurnInStep, DoneFollows
<1>4. out.kind # "none"
  BY <1>1 DEF TurnInStep, EventFollows
<1>5. /\ out.kind \in {"started", "delta", "aborted", "completed"}
      /\ \/ out.kind = "started" /\ pc = "flight" /\ said = 0
         \/ out.kind = "delta" /\ pc = "flight" /\ said > 0
         \/ out.kind = "aborted" /\ pc = "decide"
         \/ out.kind = "completed" /\ pc = "served" /\ said > 0
  BY <1>1, <1>4, Base DEF TurnInStep, EventFollows
<1>6. pos \in Positions
  BY <1>1, <1>5, Base DEF TurnInStep, EventFollows
<1>7. Folded \in Nat /\ turn.buffer = TextOf(Folded, attempts, pos)
  BY <1>1, FoldedFacts DEF TurnInStep, TurnFollows
<1>8. (turn.buffer = <<>> <=> Folded = 0)
  <2>1. TextOf(Folded, attempts, pos) = <<>> <=> Folded = 0
    BY <1>7, TextFacts
  <2> QED BY <1>7, <2>1
<1>9. OneVoice(turn.buffer) /\ OneVoice(turn.longest)
  <2>1. OneVoice(TextOf(Folded, attempts, pos))
    BY <1>7, TextFacts
  <2> QED BY <1>1, <1>7, <2>1 DEF TurnInStep, TurnFollows
<1> QED BY <1>1, <1>2, <1>3, <1>5, <1>6, <1>7, <1>8, <1>9

LEMMA ApplyKeeps == ASSUME StreamTypes, StreamInv, Apply PROVE StreamInv'
<1>0. /\ stage = "wait" /\ out # NoEvent /\ out' = NoEvent
      /\ UNCHANGED <<pc, pos, attempts, said, outcome, chain, client, away, stored>>
      /\ stage' = (IF frames' = <<>> THEN "wait" ELSE "send")
  BY DEF Apply
<1>1. /\ TurnInStep /\ ~turn.done /\ frames = <<>> /\ pos \in Positions
      /\ turn.status = "ok" /\ out.attempt = attempts /\ out.cand = pos
      /\ Folded \in Nat /\ turn.buffer = TextOf(Folded, attempts, pos)
      /\ (turn.buffer = <<>> <=> Folded = 0)
      /\ turn.buffer \in Texts /\ turn.longest \in Texts
      /\ turn.restart \in Nat /\ turn.restart \in 0..MaxChain
      /\ OneVoice(turn.buffer) /\ OneVoice(turn.longest)
  BY <1>0, EventPending
<1>2. EventFollows'
  BY <1>0, <1>1 DEF TurnInStep, EventFollows, NoEvent
<1>3. turn \in [buffer : Texts, longest : Texts, committed : BOOLEAN, done : BOOLEAN,
                 attempts : Nat, spec : 0..MaxChain, restart : 0..MaxChain,
                 status : {"ok", "failed"}]
  BY DEF StreamInv, OrchTypeOK
<1>4. pos \in 0..MaxChain /\ pos # 0 /\ pos \in Nat /\ attempts \in Nat /\ said \in Nat
  BY <1>1, Base
<1>5. ~away => ReaderInStep /\ client.done = NotDone
  BY <1>0 DEF StreamInv, ReaderInStep, DoneIsTold
<1>6. CASE out.kind = "started"
  <2>0. turn' = Begun(out) /\ frames' = <<>> /\ pc = "flight" /\ said = 0
    BY <1>0, <1>6, EventPending DEF Apply
  <2>1. /\ turn'.buffer = turn.buffer /\ turn'.longest = turn.longest
        /\ turn'.committed = turn.committed /\ turn'.done = turn.done
        /\ turn'.restart = turn.restart /\ turn'.status = turn.status
        /\ turn'.attempts = attempts /\ turn'.spec = pos
    BY <1>1, <1>3, <2>0 DEF Begun
  <2>2. OrchTypeOK'
    BY <1>0, <1>1, <1>3, <1>4, <2>0 DEF StreamInv, OrchTypeOK, Begun
  <2>3. TurnFollows'
    <3>1. Folded' = Folded
      BY <1>0, <1>6, <2>0 DEF Folded, NoEvent
    <3> QED BY <1>0, <1>1, <1>4, <2>0, <2>1, <3>1 DEF TurnInStep, TurnFollows, LeftBehind
  <2>4. DoneFollows' /\ FramesFollow'
    BY <1>0, <1>1, <2>0, <2>1 DEF DoneFollows, FramesFollow
  <2>5. ~away => ReaderInStep'
    BY <1>0, <1>1, <1>5, <2>0, <2>1 DEF ReaderInStep, ScreenFollows, ScreenIsEmpty,
       ScreenIsTheBuffer, ScreenIsTheLost, Spoken, RestartsFollow, DoneIsTold
  <2>6. Ended'
    BY <1>0, <2>0, <2>1, NothingEnded
  <2> QED BY <1>0, <1>2, <2>0, <2>2, <2>3, <2>4, <2>5, <2>6 DEF StreamInv, TurnInStep
<1>7. CASE out.kind = "aborted"
  <2>0. turn' = Aborted(out) /\ frames' = <<>> /\ pc = "decide" /\ Folded = said /\ Folded' = 0
    BY <1>0, <1>7, EventPending DEF Apply, Folded, NoEvent
  <2>1. /\ turn'.buffer = <<>> /\ turn'.longest = Longer(turn.buffer, turn.longest)
        /\ turn'.committed = turn.committed /\ turn'.done = turn.done
        /\ turn'.restart = (IF turn.buffer = <<>> THEN turn.restart ELSE pos)
        /\ turn'.status = turn.status /\ turn'.spec = turn.spec
    BY <1>1, <1>3, <2>0 DEF Aborted
  <2>l. /\ turn'.longest \in Texts /\ turn'.longest \in {turn.buffer, turn.longest}
        /\ Len(turn'.longest) >= Len(turn.buffer) /\ Len(turn'.longest) >= Len(turn.longest)
        /\ Len(turn'.longest) \in Nat /\ Len(turn.buffer) \in Nat /\ Len(turn.longest) \in Nat
    BY <1>1, <2>1, LongerFacts
  <2>2. OrchTypeOK'
    <3>1. <<>> \in Texts
      BY DEF Texts
    <3>2. turn' \in [buffer : Texts, longest : Texts, committed : BOOLEAN, done : BOOLEAN,
                 attempts : Nat, spec : 0..MaxChain, restart : 0..MaxChain,
                 status : {"ok", "failed"}]
      BY <1>1, <1>3, <1>4, <2>0, <2>1, <2>l, <3>1 DEF Aborted
    <3> QED BY <1>0, <2>0, <3>2 DEF StreamInv, OrchTypeOK
  <2>3. TurnFollows'
    <3>1. TextOf(0, attempts, pos) = <<>>
      BY TextFacts
    <3>2. OneVoice(turn'.longest)
      BY <1>1, <2>l
    <3>3. (turn'.committed /\ turn'.buffer = <<>>) <=> turn'.restart # 0
      BY <1>1, <1>4, <2>1 DEF TurnInStep, TurnFollows
    <3>4. turn'.restart # 0 => LeftBehind'
      BY <1>0, <1>1, <1>4, <2>0, <2>1 DEF TurnInStep, TurnFollows, LeftBehind
    <3> QED BY <1>0, <1>1, <2>0, <2>1, <3>1, <3>2, <3>3, <3>4 DEF TurnInStep, TurnFollows
  <2>4. DoneFollows' /\ FramesFollow'
    BY <1>0, <1>1, <2>0, <2>1 DEF DoneFollows, FramesFollow
  <2>5. ASSUME ~away PROVE ReaderInStep'
    <3>1. ScreenFollows'
      <4>1. CASE ~turn.committed
        BY <1>0, <1>1, <1>5, <2>0, <2>1, <2>5, <4>1 DEF ReaderInStep, ScreenFollows, ScreenIsEmpty
      <4>2. CASE turn.committed /\ turn.buffer = <<>>
        <5>1. turn.restart # 0 /\ ScreenIsTheLost
          BY <1>1, <1>5, <2>5, <4>2 DEF TurnInStep, TurnFollows, ReaderInStep, ScreenFollows
        <5>2. Len(client.screen) \in Nat
          BY LenProperties DEF StreamInv, OrchTypeOK, Texts
        <5>3. ScreenIsTheLost'
          BY <1>0, <2>1, <2>l, <4>2, <5>1, <5>2 DEF ScreenIsTheLost, Spoken
        <5> QED BY <2>0, <2>1, <4>2, <5>1, <5>3 DEF ScreenFollows
      <4>3. CASE turn.committed /\ turn.buffer # <<>>
        <5>1. turn.restart = 0 /\ ScreenIsTheBuffer
          BY <1>1, <1>5, <2>5, <4>3 DEF TurnInStep, TurnFollows, ReaderInStep, ScreenFollows
        <5>2. ScreenIsTheLost'
          BY <1>0, <2>1, <2>l, <4>3, <5>1 DEF ScreenIsTheLost, ScreenIsTheBuffer, Spoken
        <5> QED BY <1>4, <2>0, <2>1, <4>3, <5>2 DEF ScreenFollows
      <4> QED BY <4>1, <4>2, <4>3
    <3>2. RestartsFollow'
      <4>1. RestartsFollow
        BY <1>5, <2>5 DEF ReaderInStep
      <4> QED BY <1>0, <1>1, <1>4, <2>0, <2>1, <4>1 DEF RestartsFollow
    <3>3. DoneIsTold'
      BY <1>0, <1>5, <2>0, <2>5 DEF DoneIsTold, NotDone
    <3> QED BY <3>1, <3>2, <3>3 DEF ReaderInStep
  <2>6. Ended'
    BY <1>0, <2>0, <2>1, NothingEnded
  <2> QED BY <1>0, <1>2, <2>0, <2>2, <2>3, <2>4, <2>5, <2>6 DEF StreamInv, TurnInStep
<1>8. CASE out.kind = "completed"
  <2>0. turn' = Completed(out) /\ frames' = <<Frame("done", <<>>)>> /\ pc = "served" /\ said > 0
        /\ Folded = said /\ Folded' = said
    BY <1>0, <1>8, EventPending DEF Apply, Folded, NoEvent
  <2>1. /\ turn'.buffer = turn.buffer /\ turn'.longest = turn.longest
        /\ turn'.committed = turn.committed /\ turn'.done = TRUE
        /\ turn'.restart = turn.restart /\ turn'.status = "ok"
        /\ turn'.attempts = attempts /\ turn'.spec = pos
    BY <1>1, <1>3, <2>0 DEF Completed
  <2>c. turn.committed /\ turn.buffer # <<>> /\ turn.restart = 0
    BY <1>1, <1>4, <2>0 DEF TurnInStep, TurnFollows
  <2>f. frames' = <<DoneFrame'>> /\ frames' # <<>> /\ stage' = "send"
    BY <1>0, <2>0 DEF Frame, DoneFrame
  <2>2. OrchTypeOK'
    BY <1>0, <1>1, <1>3, <1>4, <2>0, <2>1, <2>f, ZenonT(30)
    DEF StreamInv, OrchTypeOK, Completed
  <2>3. TurnFollows'
    BY <1>0, <1>1, <1>4, <2>0, <2>1, <2>c DEF TurnInStep, TurnFollows, LeftBehind
  <2>4. DoneFollows'
    BY <1>0, <2>0, <2>1, <2>c, <2>f DEF DoneFollows
  <2>5. FramesFollow'
    BY <2>1, <2>f DEF FramesFollow
  <2>6. ASSUME ~away PROVE ReaderInStep'
    <3>1. ScreenIsTheBuffer
      BY <1>1, <1>5, <2>c, <2>6 DEF ReaderInStep, ScreenFollows
    <3>2. ScreenFollows'
      BY <1>0, <2>1, <2>c, <3>1 DEF ScreenFollows, ScreenIsTheBuffer, Spoken
    <3>3. RestartsFollow'
      BY <1>0, <1>5, <2>1, <2>c, <2>6 DEF ReaderInStep, RestartsFollow
    <3>4. DoneIsTold'
      BY <1>0, <1>5, <2>6, <2>f DEF DoneIsTold, NotDone
    <3> QED BY <3>2, <3>3, <3>4 DEF ReaderInStep
  <2>7. Ended'
    BY <1>0, <2>1, <2>f, NothingEnded
  <2> QED BY <1>0, <1>2, <2>2, <2>3, <2>4, <2>5, <2>6, <2>7, <2>f DEF StreamInv, TurnInStep
<1>9. CASE out.kind = "delta"
  <2> DEFINE p == [attempt |-> attempts, cand |-> pos]
  <2>0. /\ turn' = Said(out) /\ frames' = Append(LeadFrame, Frame("delta", Piece(out)))
        /\ pc = "flight" /\ said > 0 /\ Folded = said - 1 /\ Folded' = said /\ Piece(out) = p
    BY <1>0, <1>1, <1>9, EventPending DEF Apply, Folded, NoEvent, Piece
  <2>1. /\ turn'.buffer = Append(turn.buffer, p) /\ turn'.longest = turn.longest
        /\ turn'.committed = TRUE /\ turn'.done = FALSE
        /\ turn'.restart = 0 /\ turn'.status = turn.status
        /\ turn'.attempts = turn.attempts /\ turn'.spec = turn.spec
    BY <1>1, <1>3, <2>0 DEF Said
  <2>s. turn.spec = pos
    BY <1>1, <1>9, <2>0 DEF TurnInStep, TurnFollows
  <2>b. turn'.buffer = TextOf(said, attempts, pos) /\ turn'.buffer # <<>> /\ turn'.buffer \in Texts
    <3>1. Append(TextOf(Folded, attempts, pos), p) = TextOf(Folded + 1, attempts, pos)
      BY <1>1, TextGrows
    <3>2. Folded + 1 = said
      BY <1>4, <2>0
    <3>3. TextOf(said, attempts, pos) # <<>>
      <4>1. TextOf(said, attempts, pos) = <<>> <=> said = 0
        BY <1>4, TextFacts
      <4> QED BY <1>4, <2>0, <4>1
    <3>4. TextOf(said, attempts, pos) \in Texts
      BY <1>1, <1>4, TextTyped
    <3> QED BY <1>1, <2>1, <3>1, <3>2, <3>3, <3>4
  <2>d. Frame("delta", Piece(out)) = DeltaFrame'
    BY <1>0, <2>0 DEF Frame, DeltaFrame
  <2>f. /\ ~turn.committed => frames' = <<MetaFrame', DeltaFrame'>>
        /\ (turn.committed /\ turn.restart # 0) => frames' = <<RestartFrame', DeltaFrame'>>
        /\ (turn.committed /\ turn.restart = 0) => frames' = <<DeltaFrame'>>
    <3>1. /\ ~turn.committed => LeadFrame = <<MetaFrame'>>
          /\ (turn.committed /\ turn.restart # 0) => LeadFrame = <<RestartFrame'>>
          /\ (turn.committed /\ turn.restart = 0) => LeadFrame = <<>>
      BY DEF LeadFrame, Frame, MetaFrame, RestartFrame
    <3>2. PICK m, r, d : m = MetaFrame' /\ r = RestartFrame' /\ d = DeltaFrame'
      OBVIOUS
    <3>3. /\ Append(<<m>>, d) = <<m, d>> /\ Append(<<r>>, d) = <<r, d>>
          /\ Append(<<>>, d) = <<d>>
      BY FrameFacts, Zenon
    <3> QED BY <2>0, <2>d, <3>1, <3>2, <3>3, Zenon
  <2>g. frames' # <<>> /\ stage' = "send"
    BY <1>0, <2>f, FrameFacts
  <2>2. OrchTypeOK'
    <3>1. turn' \in [buffer : Texts, longest : Texts, committed : BOOLEAN, done : BOOLEAN,
                 attempts : Nat, spec : 0..MaxChain, restart : 0..MaxChain,
                 status : {"ok", "failed"}]
      <4>1. 0 \in 0..MaxChain
        BY Base
      <4> QED BY <1>1, <1>3, <2>0, <2>1, <2>b, <4>1 DEF Said
    <3> QED BY <1>0, <1>4, <2>1, <2>s, <2>g, <3>1 DEF StreamInv, OrchTypeOK
  <2>3. TurnFollows'
    BY <1>0, <1>1, <1>4, <2>0, <2>1, <2>b, <2>s DEF TurnInStep, TurnFollows
  <2>4. DoneFollows'
    BY <1>1, <2>1, <2>g DEF DoneFollows
  <2>5. FramesFollow'
    BY <1>0, <2>0, <2>1, <2>f, <2>g, <2>s DEF FramesFollow
  <2>6. ASSUME ~away PROVE ReaderInStep'
    <3>1. client.cleared \in Nat /\ RestartsFollow
      BY <1>5, <2>6 DEF StreamInv, OrchTypeOK, ReaderInStep
    <3>d. DeltaFrame'.text = p /\ DeltaFrame'.kind = "delta" /\ MetaFrame'.kind = "meta"
          /\ RestartFrame'.kind = "restart"
      BY <1>0 DEF DeltaFrame, MetaFrame, RestartFrame
    <3>2. ScreenFollows'
      <4>1. CASE ~turn.committed
        <5>1. turn.buffer = <<>> /\ ScreenIsEmpty
          BY <1>1, <1>5, <2>6, <4>1 DEF TurnInStep, TurnFollows, ReaderInStep, ScreenFollows
        <5>2. turn'.buffer = <<DeltaFrame'.text>>
          BY <2>1, <3>d, <5>1, FrameFacts
        <5>3. frames'[1].kind = "meta"
          BY <2>f, <3>d, <4>1, FrameFacts
        <5>4. ScreenIsEmpty'
          BY <1>0, <5>1 DEF ScreenIsEmpty
        <5> QED BY <2>1, <2>g, <5>2, <5>3, <5>4 DEF ScreenFollows
      <4>2. CASE turn.committed /\ turn.restart # 0
        <5>1. turn.buffer = <<>> /\ ScreenIsTheLost /\ turn.restart < pos
          BY <1>1, <1>5, <1>4, <2>0, <2>6, <4>2
             DEF TurnInStep, TurnFollows, LeftBehind, ReaderInStep, ScreenFollows
        <5>2. turn'.buffer = <<DeltaFrame'.text>>
          BY <2>1, <3>d, <5>1, FrameFacts
        <5>3. frames'[1].kind = "restart"
          BY <2>f, <3>d, <4>2, FrameFacts
        <5>4. RestartFits
          BY <2>0, <3>1, <4>2, <5>1 DEF RestartsFollow, RestartFits
        <5>5. RestartFits' /\ Spoken' /\ client'.by < pos'
          BY <1>0, <5>1, <5>4 DEF RestartFits, ScreenIsTheLost, Spoken
        <5> QED BY <2>1, <2>g, <5>2, <5>3, <5>5 DEF ScreenFollows
      <4>3. CASE turn.committed /\ turn.restart = 0
        <5>1. ScreenIsTheBuffer
          BY <1>1, <1>5, <2>6, <4>3 DEF ReaderInStep, ScreenFollows
        <5>2. turn'.buffer = Append(client.screen, DeltaFrame'.text)
          BY <2>1, <3>d, <5>1 DEF ScreenIsTheBuffer
        <5>3. frames'[1].kind = "delta"
          BY <2>f, <3>d, <4>3, FrameFacts
        <5>4. client.screen = TextOf(said - 1, attempts, pos)
          BY <1>1, <2>0, <5>1 DEF ScreenIsTheBuffer
        <5> QED BY <1>0, <2>1, <2>g, <5>1, <5>2, <5>3, <5>4
                DEF ScreenFollows, ScreenIsTheBuffer, Spoken
      <4> QED BY <4>1, <4>2, <4>3
    <3>3. RestartsFollow'
      <4>1. ~turn.committed => client.cleared = 0
        BY <1>1, <1>5, <2>6 DEF ReaderInStep, ScreenFollows, ScreenIsEmpty
      <4>2. attempts > 0
        BY <1>1, <2>0 DEF TurnInStep, EventFollows
      <4> QED BY <1>0, <1>4, <2>1, <3>1, <4>1, <4>2 DEF RestartsFollow
    <3>4. DoneIsTold'
      BY <1>0, <1>5, <2>6, <2>g DEF DoneIsTold, NotDone
    <3> QED BY <3>2, <3>3, <3>4 DEF ReaderInStep
  <2>7. Ended'
    BY <1>0, <2>1, <2>g, NothingEnded
  <2> QED BY <1>0, <1>2, <2>2, <2>3, <2>4, <2>5, <2>6, <2>7, <2>g DEF StreamInv, TurnInStep
<1> QED BY <1>0, <1>6, <1>7, <1>8, <1>9, EventPending

-----------------------------------------------------------------------------
(* Sending a frame: what it does to the screen, by its kind.                 *)
LEMMA SendKeeps == ASSUME StreamTypes, StreamInv, SendFrame PROVE StreamInv'
<1>0. /\ stage = "send" /\ TurnInStep /\ frames' = Tail(frames)
      /\ UNCHANGED <<pc, pos, attempts, said, outcome, chain, out, turn, away, stored>>
      /\ client' = (IF away THEN client ELSE Shown(Head(frames)))
      /\ stage' = (IF Len(frames) > 1 THEN "send" ELSE IF turn.done THEN "persist" ELSE "wait")
  BY DEF SendFrame, StreamInv, routerVars
<1>1. EventFollows'
  BY <1>0 DEF TurnInStep, EventFollows
<1>2. TurnFollows'
  BY <1>0 DEF TurnInStep, TurnFollows, LeftBehind, Folded
<1>3. turn.spec # 0 /\ turn.committed /\ turn.spec \in 0..MaxChain /\ stored.kind = "none"
      /\ client.phase # "ok" /\ client.phase # "refused"
  <2>1. frames # <<>>
    BY <1>0, FrameFacts DEF TurnInStep, FramesFollow
  <2>2. turn.committed
    <3>1. CASE turn.done
      BY <1>0, <3>1 DEF TurnInStep, DoneFollows
    <3>2. CASE ~turn.done
      <4>1. Folded = said /\ said > 0
        BY <1>0, <3>2 DEF TurnInStep, FramesFollow, Folded, NoEvent
      <4>2. TextOf(said, attempts, pos) = <<>> <=> said = 0
        BY Base, TextFacts, ZenonT(30)
      <4> QED BY <1>0, <4>1, <4>2, Base DEF TurnInStep, TurnFollows
    <3> QED BY <3>1, <3>2
  <2> QED BY <1>0, <2>1, <2>2 DEF StreamInv, OrchTypeOK, Ended
<1>c. client \in [phase : {"silent", "speaking", "ok", "failed", "refused", "unsaved"},
                  screen : Texts, by : 0..MaxChain, cleared : Nat, bytes : BOOLEAN,
                  done : [status : {"none", "ok", "failed"}, cand : 0..MaxChain,
                          partial : Texts]]
      /\ turn.longest \in Texts /\ turn.buffer \in Texts /\ turn.status \in {"ok", "failed"}
      /\ turn.restart \in Nat
  BY Base DEF StreamInv, OrchTypeOK
<1>5. ~away => ReaderInStep /\ client.done = NotDone
  BY <1>0 DEF StreamInv, ReaderInStep, DoneIsTold
<1>6. CASE turn.done
  <2>0. frames = <<DoneFrame>>
    BY <1>0, <1>6 DEF TurnInStep, FramesFollow
  <2>1. frames' = <<>> /\ stage' = "persist" /\ Head(frames) = DoneFrame
    BY <1>0, <1>6, <2>0, FrameFacts
  <2>2. ~away => client' = [client EXCEPT !.done = [status |-> turn.status, cand |-> turn.spec,
                                                     partial |-> PartialContent]]
    BY <1>0, <2>1 DEF Shown, DoneFrame
  <2>p. PartialContent \in Texts
    BY <1>c DEF PartialContent, Texts
  <2>3. ~away => /\ client'.phase = client.phase /\ client'.screen = client.screen
                 /\ client'.by = client.by /\ client'.cleared = client.cleared
                 /\ client'.bytes = client.bytes
                 /\ client'.done = [status |-> turn.status, cand |-> turn.spec,
                                     partial |-> PartialContent]
    BY <1>c, <2>2
  <2>4. OrchTypeOK'
    <3>1. client' \in [phase : {"silent", "speaking", "ok", "failed", "refused", "unsaved"},
                  screen : Texts, by : 0..MaxChain, cleared : Nat, bytes : BOOLEAN,
                  done : [status : {"none", "ok", "failed"}, cand : 0..MaxChain,
                          partial : Texts]]
      <4>1. [status |-> turn.status, cand |-> turn.spec, partial |-> PartialContent]
               \in [status : {"none", "ok", "failed"}, cand : 0..MaxChain, partial : Texts]
        BY <1>3, <1>c, <2>p
      <4> HIDE DEF PartialContent
      <4> QED BY <1>0, <1>c, <2>2, <4>1
    <3> QED BY <1>0, <2>1, <3>1 DEF StreamInv, OrchTypeOK
  <2>5. DoneFollows' /\ FramesFollow'
    BY <1>0, <1>6, <2>1 DEF TurnInStep, DoneFollows, FramesFollow
  <2>6. ASSUME ~away PROVE ReaderInStep'
    <3>1. ScreenFollows'
      BY <1>0, <1>3, <1>5, <1>6, <2>3, <2>6 DEF ReaderInStep, ScreenFollows, ScreenIsEmpty,
         ScreenIsTheBuffer, ScreenIsTheLost, Spoken
    <3>2. RestartsFollow'
      BY <1>0, <1>5, <2>3, <2>6 DEF ReaderInStep, RestartsFollow
    <3>3. DoneIsTold'
      BY <1>0, <2>1, <2>3, <2>6 DEF DoneIsTold, PartialContent
    <3> QED BY <3>1, <3>2, <3>3 DEF ReaderInStep
  <2>7. Ended'
    <3>1. CASE away
      BY <1>0, <1>3, <2>1, <3>1 DEF StreamInv, Ended, OkIsWhole, FailedIsOffered,
         StoredIsTheServedAttempt
    <3>2. CASE ~away
      <4>1. turn.restart = 0 => ScreenIsTheBuffer
        BY <1>3, <1>5, <1>6, <3>2 DEF ReaderInStep, ScreenFollows
      <4>2. turn.restart # 0 => ScreenIsTheLost
        BY <1>3, <1>5, <1>6, <3>2 DEF ReaderInStep, ScreenFollows
      <4>3. turn.status = "ok" => turn.restart = 0 /\ turn.spec = pos
        <5>1. turn.status = "ok" => Folded = said /\ said > 0 /\ turn.spec = pos
          BY <1>0, <1>6 DEF TurnInStep, DoneFollows, EventFollows, Folded, NoEvent
        <5>2. TextOf(said, attempts, pos) = <<>> <=> said = 0
          BY Base, TextFacts, ZenonT(30)
        <5> QED BY <1>0, <5>1, <5>2, Base DEF TurnInStep, TurnFollows
      <4>4. turn.status = "failed" => turn.restart # 0
        <5>1. turn.status = "failed" => Folded = 0
          BY <1>0, <1>6 DEF TurnInStep, DoneFollows, Folded, NoEvent
        <5>2. TextOf(0, attempts, pos) = <<>>
          BY TextFacts
        <5> QED BY <1>0, <1>3, <5>1, <5>2 DEF TurnInStep, TurnFollows
      <4>5. OkIsWhole'
        BY <1>0, <1>3, <1>6, <2>3, <3>2, <4>1, <4>3
           DEF OkIsWhole, ScreenIsTheBuffer, Spoken, Waiting
      <4>6. FailedIsOffered'
        <5> SUFFICES ASSUME turn.status = "failed"
                     PROVE  /\ OneVoice(PartialContent)
                            /\ Len(client.screen) >= MinPartial
                                 => Len(PartialContent) >= Len(client.screen)
          BY <2>3, <3>2 DEF FailedIsOffered
        <5>1. OneVoice(turn.longest) /\ Len(client.screen) <= Len(turn.longest)
          BY <1>0, <4>2, <4>4 DEF TurnInStep, TurnFollows, ScreenIsTheLost
        <5>2. OneVoice(<<>>)
          BY DEF OneVoice
        <5>3. Len(client.screen) \in Nat /\ Len(turn.longest) \in Nat
          BY <1>c, LenProperties DEF Texts
        <5> QED BY <5>1, <5>2, <5>3, Base DEF PartialContent
      <4> QED BY <1>0, <1>3, <2>1, <2>3, <3>2, <4>5, <4>6 DEF Ended, StoredIsTheServedAttempt
    <3> QED BY <3>1, <3>2
  <2> QED BY <1>0, <1>1, <1>2, <2>1, <2>4, <2>5, <2>6, <2>7 DEF StreamInv, TurnInStep
<1>7. CASE ~turn.done
  <2> DEFINE p == [attempt |-> attempts, cand |-> pos]
  <2>0. /\ pc = "flight" /\ out = NoEvent /\ said > 0 /\ turn.spec = pos
        /\ frames \in {<<DeltaFrame>>, <<MetaFrame, DeltaFrame>>, <<RestartFrame, DeltaFrame>>}
    BY <1>0, <1>7 DEF TurnInStep, FramesFollow
  <2>t. /\ pos \in Nat /\ pos \in Positions /\ said \in Nat /\ attempts \in Nat
        /\ p \in [attempt : Nat, cand : Positions]
    BY <2>0, Base
  <2>b. turn.buffer = TextOf(said, attempts, pos) /\ turn.buffer # <<>> /\ turn.restart = 0
    <3>1. Folded = said
      BY <2>0 DEF Folded, NoEvent
    <3>2. TextOf(said, attempts, pos) = <<>> <=> said = 0
      BY <2>t, TextFacts
    <3> QED BY <1>0, <2>0, <2>t, <3>1, <3>2 DEF TurnInStep, TurnFollows
  <2>k. /\ DeltaFrame.kind = "delta" /\ MetaFrame.kind = "meta" /\ RestartFrame.kind = "restart"
        /\ DeltaFrame.text = p /\ DeltaFrame' = DeltaFrame
        /\ MetaFrame.cand = pos /\ RestartFrame.cand = pos
    BY <1>0, <2>0 DEF DeltaFrame, MetaFrame, RestartFrame
  <2>1. \/ frames = <<DeltaFrame>> /\ frames' = <<>> /\ stage' = "wait"
        \/ frames # <<DeltaFrame>> /\ frames' = <<DeltaFrame>> /\ stage' = "send"
    <3>1. PICK m, r, d : m = MetaFrame /\ r = RestartFrame /\ d = DeltaFrame
      OBVIOUS
    <3>2. /\ Len(<<d>>) = 1 /\ Tail(<<d>>) = <<>> /\ Len(<<m, d>>) = 2 /\ Len(<<r, d>>) = 2
          /\ Tail(<<m, d>>) = <<d>> /\ Tail(<<r, d>>) = <<d>>
      BY FrameFacts
    <3>3. CASE frames = <<d>>
      BY <1>0, <1>7, <3>1, <3>2, <3>3
    <3>4. CASE frames = <<m, d>>
      BY <1>0, <1>7, <3>1, <3>2, <3>4
    <3>5. CASE frames = <<r, d>>
      BY <1>0, <1>7, <3>1, <3>2, <3>5
    <3> QED BY <2>0, <3>1, <3>3, <3>4, <3>5
  <2>n. frames # <<>> /\ <<DeltaFrame>> # <<>> /\ <<DeltaFrame>>[1] = DeltaFrame
    BY <2>0, FrameFacts
  <2>2. DoneFollows' /\ FramesFollow'
    BY <1>0, <1>7, <2>0, <2>1, <2>k DEF TurnInStep, DoneFollows, FramesFollow
  <2>e. ASSUME ~client'.bytes \/ turn.committed,
               client'.phase # "ok" /\ client'.phase # "refused",
               ~away => client'.done = NotDone
        PROVE  Ended'
    BY <1>0, <1>3, <2>1, <2>e DEF Ended, OkIsWhole, FailedIsOffered, StoredIsTheServedAttempt,
       NotDone
  <2>3. CASE away
    <3>1. OrchTypeOK'
      BY <1>0, <1>3, <2>1, <2>3 DEF StreamInv, OrchTypeOK
    <3>2. Ended'
      BY <1>0, <1>3, <2>3, <2>e
    <3> QED BY <1>0, <1>1, <1>2, <2>1, <2>2, <2>3, <3>1, <3>2 DEF StreamInv, TurnInStep
  <2>4. CASE ~away /\ frames = <<DeltaFrame>>
    <3>1. Head(frames) = DeltaFrame /\ frames[1] = DeltaFrame /\ frames' = <<>> /\ stage' = "wait"
      BY <2>1, <2>4, FrameFacts
    <3>2. client' = [client EXCEPT !.screen = Append(@, p)]
      BY <1>0, <2>4, <2>k, <3>1 DEF Shown
    <3>3. Append(client.screen, p) \in Texts
      BY <1>c, <2>t, AppendProperties DEF Texts
    <3>4. OrchTypeOK'
      BY <1>0, <1>c, <3>1, <3>2, <3>3, ZenonT(30) DEF StreamInv, OrchTypeOK
    <3>5. /\ client'.screen = Append(client.screen, p) /\ client'.phase = client.phase
          /\ client'.by = client.by /\ client'.cleared = client.cleared
          /\ client'.done = client.done /\ client'.bytes = client.bytes
      BY <1>c, <3>2
    <3>6. client.phase = "speaking" /\ client.by = pos /\ turn.buffer = Append(client.screen, p)
      BY <1>5, <1>7, <2>4, <2>k, <2>n, <3>1 DEF ReaderInStep, ScreenFollows
    <3>7. ScreenFollows'
      BY <1>0, <1>3, <2>b, <3>1, <3>5, <3>6 DEF ScreenFollows, ScreenIsTheBuffer, Spoken
    <3>8. RestartsFollow' /\ DoneIsTold'
      BY <1>0, <1>5, <2>4, <3>1, <3>5 DEF ReaderInStep, RestartsFollow, DoneIsTold, NotDone
    <3>9. Ended'
      BY <1>3, <1>5, <2>4, <2>e, <3>5
    <3> QED BY <1>0, <1>1, <1>2, <2>2, <3>1, <3>4, <3>7, <3>8, <3>9
            DEF StreamInv, TurnInStep, ReaderInStep
  <2>5. CASE ~away /\ frames = <<MetaFrame, DeltaFrame>>
    <3>1. /\ Head(frames) = MetaFrame /\ frames[1] = MetaFrame /\ frames' = <<DeltaFrame>>
          /\ stage' = "send"
      BY <2>1, <2>5, FrameFacts
    <3>2. client' = [client EXCEPT !.phase = "speaking", !.by = pos, !.bytes = TRUE]
      BY <1>0, <2>5, <2>k, <3>1 DEF Shown
    <3>3. OrchTypeOK'
      <4>1. pos \in 0..MaxChain /\ pos # 0
        BY <2>t, Base
      <4> QED BY <1>0, <1>c, <2>0, <3>1, <3>2, <4>1 DEF StreamInv, OrchTypeOK
    <3>4. /\ client'.screen = client.screen /\ client'.phase = "speaking"
          /\ client'.by = pos /\ client'.cleared = client.cleared
          /\ client'.done = client.done
      BY <1>c, <3>2
    <3>5. ScreenIsEmpty /\ turn.buffer = <<p>>
      BY <1>5, <1>7, <2>5, <2>k, <2>n, <3>1 DEF ReaderInStep, ScreenFollows
    <3>6. said = 1
      <4>1. Len(TextOf(said, attempts, pos)) = said
        BY <2>t, TextFacts
      <4>2. Len(<<p>>) = 1
        BY FrameFacts
      <4> QED BY <2>b, <3>5, <4>1, <4>2
    <3>7. TextOf(0, attempts, pos) = <<>> /\ Append(<<>>, p) = <<p>>
      <4>1. TextOf(0, attempts, pos) = <<>>
        BY TextFacts
      <4>2. Append(<<>>, p) = <<p>>
        BY FrameFacts
      <4> QED BY <4>1, <4>2
    <3>8. ScreenFollows'
      <4>1. turn'.buffer = Append(client'.screen, DeltaFrame'.text)
        BY <1>0, <2>k, <3>4, <3>5, <3>7 DEF ScreenIsEmpty
      <4>2. client'.screen = TextOf(said' - 1, attempts', pos')
        BY <1>0, <3>4, <3>5, <3>6, <3>7 DEF ScreenIsEmpty
      <4>3. frames'[1].kind = "delta"
        BY <2>k, <2>n, <3>1
      <4> QED BY <1>0, <1>7, <2>n, <3>1, <3>4, <4>1, <4>2, <4>3 DEF ScreenFollows
    <3>9. RestartsFollow' /\ DoneIsTold'
      BY <1>0, <1>5, <2>5, <3>1, <3>4 DEF ReaderInStep, RestartsFollow, DoneIsTold, NotDone
    <3>10. Ended'
      BY <1>3, <1>5, <2>5, <2>e, <3>4
    <3> QED BY <1>0, <1>1, <1>2, <2>2, <3>1, <3>3, <3>8, <3>9, <3>10
            DEF StreamInv, TurnInStep, ReaderInStep
  <2>6. CASE ~away /\ frames = <<RestartFrame, DeltaFrame>>
    <3>1. /\ Head(frames) = RestartFrame /\ frames[1] = RestartFrame /\ frames' = <<DeltaFrame>>
          /\ stage' = "send"
      BY <2>1, <2>6, FrameFacts
    <3>2. client' = [client EXCEPT !.screen = <<>>, !.by = pos, !.cleared = @ + 1]
      BY <1>0, <2>6, <2>k, <3>1 DEF Shown
    <3>3. OrchTypeOK'
      <4>1. pos \in 0..MaxChain /\ pos # 0 /\ <<>> \in Texts
        BY <2>t, Base DEF Texts
      <4>2. client' \in [phase : {"silent", "speaking", "ok", "failed", "refused", "unsaved"},
                  screen : Texts, by : 0..MaxChain, cleared : Nat, bytes : BOOLEAN,
                  done : [status : {"none", "ok", "failed"}, cand : 0..MaxChain,
                          partial : Texts]]
        <5>1. PICK n \in Nat : n = client.cleared + 1
          BY <1>c
        <5>2. client' = [client EXCEPT !.screen = <<>>, !.by = pos, !.cleared = n]
          BY <3>2, <5>1, Zenon
        <5>3. PICK e : e = <<>>
          OBVIOUS
        <5>4. client' = [client EXCEPT !.screen = e, !.by = pos, !.cleared = n] /\ e \in Texts
          BY <4>1, <5>2, <5>3
        <5> QED BY <1>c, <4>1, <5>1, <5>4
      <4> QED BY <1>0, <2>0, <3>1, <4>1, <4>2 DEF StreamInv, OrchTypeOK
    <3>4. /\ client'.screen = <<>> /\ client'.phase = client.phase
          /\ client'.by = pos /\ client'.cleared = client.cleared + 1
          /\ client'.done = client.done /\ client.cleared \in Nat
      BY <1>c, <3>2
    <3>5. Spoken /\ RestartFits /\ turn.buffer = <<p>>
      BY <1>5, <1>7, <2>6, <2>k, <2>n, <3>1 DEF ReaderInStep, ScreenFollows
    <3>6. said = 1
      <4>1. Len(TextOf(said, attempts, pos)) = said
        BY <2>t, TextFacts
      <4>2. Len(<<p>>) = 1
        BY FrameFacts
      <4> QED BY <2>b, <3>5, <4>1, <4>2
    <3>7. TextOf(0, attempts, pos) = <<>> /\ Append(<<>>, p) = <<p>>
      <4>1. TextOf(0, attempts, pos) = <<>>
        BY TextFacts
      <4>2. Append(<<>>, p) = <<p>>
        BY FrameFacts
      <4> QED BY <4>1, <4>2
    <3>8. ScreenFollows'
      <4>1. turn'.buffer = Append(client'.screen, DeltaFrame'.text)
        BY <1>0, <2>k, <3>4, <3>5, <3>7
      <4>2. client'.screen = TextOf(said' - 1, attempts', pos')
        BY <1>0, <3>4, <3>6, <3>7
      <4>3. frames'[1].kind = "delta"
        BY <2>k, <2>n, <3>1
      <4> QED BY <1>0, <1>7, <2>n, <3>1, <3>4, <3>5, <4>1, <4>2, <4>3 DEF ScreenFollows, Spoken
    <3>9. RestartsFollow'
      BY <1>0, <2>b, <2>t, <3>4, <3>5 DEF RestartsFollow, RestartFits
    <3>10. DoneIsTold'
      BY <1>5, <2>6, <3>1, <3>4 DEF DoneIsTold, NotDone
    <3>11. Ended'
      BY <1>3, <1>5, <2>6, <2>e, <3>4
    <3> QED BY <1>0, <1>1, <1>2, <2>2, <3>1, <3>3, <3>8, <3>9, <3>10, <3>11
            DEF StreamInv, TurnInStep, ReaderInStep
  <2> QED BY <2>0, <2>3, <2>4, <2>5, <2>6
<1> QED BY <1>6, <1>7

-----------------------------------------------------------------------------
(* The ends.                                                                 *)

LEMMA TurnKept ==
    ASSUME TurnInStep, UNCHANGED <<pc, pos, attempts, said, outcome, chain, out>>,
           UNCHANGED <<stage, turn, frames>>
    PROVE  TurnInStep'
<1>1. EventFollows'
  BY DEF TurnInStep, EventFollows
<1>2. TurnFollows'
  BY DEF TurnInStep, TurnFollows, LeftBehind, Folded
<1>3. DoneFollows'
  BY DEF TurnInStep, DoneFollows
<1>4. FramesFollow'
  BY DEF TurnInStep, FramesFollow, DoneFrame, DeltaFrame, MetaFrame, RestartFrame
<1> QED BY <1>1, <1>2, <1>3, <1>4 DEF TurnInStep

Clients == [phase : {"silent", "speaking", "ok", "failed", "refused", "unsaved"},
            screen : Texts, by : 0..MaxChain, cleared : Nat, bytes : BOOLEAN,
            done : [status : {"none", "ok", "failed"}, cand : 0..MaxChain, partial : Texts]]

LEMMA HeartbeatKeeps == ASSUME StreamTypes, StreamInv, Heartbeat PROVE StreamInv'
<1>0. /\ stage = "wait" /\ turn.committed /\ UNCHANGED <<stage, turn, frames, away, stored>>
      /\ UNCHANGED <<pc, pos, attempts, said, outcome, chain, out>>
      /\ client' = (IF away THEN client ELSE [client EXCEPT !.bytes = TRUE])
  BY DEF Heartbeat, MayBeat, routerVars
<1>1. client \in Clients /\ client.phase # "refused"
  BY <1>0 DEF StreamInv, OrchTypeOK, Clients, Ended
<1>2. /\ client' \in Clients /\ client'.screen = client.screen /\ client'.phase = client.phase
      /\ client'.by = client.by /\ client'.cleared = client.cleared /\ client'.done = client.done
  BY <1>0, <1>1 DEF Clients
<1>3. OrchTypeOK'
  BY <1>0, <1>2 DEF StreamInv, OrchTypeOK, Clients
<1>4. TurnInStep'
  BY <1>0, TurnKept DEF StreamInv
<1>5. ASSUME ~away PROVE ReaderInStep'
  <2>1. ReaderInStep /\ frames = <<>>
    BY <1>0, <1>5 DEF StreamInv, TurnInStep, FramesFollow
  <2>2. ScreenFollows'
    BY <1>0, <1>2, <2>1 DEF ReaderInStep, ScreenFollows, ScreenIsEmpty, ScreenIsTheBuffer,
       ScreenIsTheLost, Spoken
  <2>3. RestartsFollow' /\ DoneIsTold'
    BY <1>0, <1>2, <2>1 DEF ReaderInStep, RestartsFollow, DoneIsTold
  <2> QED BY <2>2, <2>3 DEF ReaderInStep
<1>6. Ended'
  BY <1>0, <1>1, <1>2 DEF StreamInv, Ended, OkIsWhole, FailedIsOffered, OneVoice,
     StoredIsTheServedAttempt, Waiting, Stored
<1> QED BY <1>0, <1>3, <1>4, <1>5, <1>6 DEF StreamInv

LEMMA RaiseKeeps == ASSUME StreamTypes, StreamInv, Raise PROVE StreamInv'
<1>0. /\ stage = "wait" /\ ~turn.committed /\ UNCHANGED <<turn, frames, away>> /\ stage' = "closed"
      /\ stored' = [kind |-> "failure", text |-> <<>>, cand |-> outcome.cand]
      /\ client' = (IF away THEN client ELSE [client EXCEPT !.phase = "refused"])
  BY DEF Raise
<1>1. /\ client \in Clients /\ client.phase # "refused" /\ client.phase # "ok" /\ ~client.bytes
      /\ frames = <<>>
  BY <1>0 DEF StreamInv, OrchTypeOK, Clients, Ended, TurnInStep, FramesFollow
<1>2. /\ client' \in Clients /\ client'.bytes = client.bytes /\ client'.done = client.done
      /\ client'.phase = (IF away THEN client.phase ELSE "refused")
  BY <1>0, <1>1 DEF Clients
<1>3. OrchTypeOK'
  <2>1. stored' \in [kind : {"none", "message", "failure"}, text : Texts, cand : 0..MaxChain]
    <3>1. <<>> \in Texts
      BY DEF Texts
    <3> QED BY <1>0, <3>1, Base
  <2> QED BY <1>0, <1>2, <2>1 DEF StreamInv, OrchTypeOK, Clients
<1>4. Ended'
  <2>1. stored'.kind = "failure"
    BY <1>0
  <2> QED BY <1>0, <1>1, <1>2, <2>1 DEF Ended, OkIsWhole, FailedIsOffered,
     StoredIsTheServedAttempt, Waiting
<1> QED BY <1>0, <1>3, <1>4 DEF StreamInv

LEMMA FailInBandKeeps == ASSUME StreamTypes, StreamInv, FailInBand PROVE StreamInv'
<1>0. /\ stage = "wait" /\ pc = "failed" /\ out = NoEvent /\ turn.committed
      /\ UNCHANGED <<pc, pos, attempts, said, outcome, chain, out, client, away, stored>>
      /\ frames' = <<Frame("done", <<>>)>> /\ stage' = "send" /\ TurnInStep
  BY DEF FailInBand, routerVars, StreamInv
<1>t. /\ turn.buffer \in Texts /\ turn.longest \in Texts /\ outcome.cand \in 0..MaxChain
      /\ attempts \in Nat
      /\ turn \in [buffer : Texts, longest : Texts, committed : BOOLEAN, done : BOOLEAN,
                 attempts : Nat, spec : 0..MaxChain, restart : 0..MaxChain,
                 status : {"ok", "failed"}]
  BY Base DEF StreamInv, OrchTypeOK
<1>1. turn.buffer = <<>> /\ turn.restart # 0 /\ Folded = 0 /\ Folded' = 0
  <2>1. Folded = 0 /\ Folded' = 0
    BY <1>0 DEF Folded, NoEvent
  <2>2. TextOf(0, attempts, pos) = <<>>
    BY TextFacts
  <2> QED BY <1>0, <2>1, <2>2 DEF TurnInStep, TurnFollows
<1>2. PICK l \in Texts : l = Longer(turn.buffer, turn.longest)
  BY <1>t, LongerFacts
<1>3. PICK c \in 0..MaxChain : c = (IF outcome.cand = 0 THEN turn.spec ELSE outcome.cand)
  BY <1>t
<1>4. turn' = [turn EXCEPT !.status = "failed", !.attempts = attempts, !.done = TRUE,
                           !.spec = c, !.longest = l]
  BY <1>t, <1>2, <1>3 DEF FailInBand
<1>5. /\ turn'.buffer = turn.buffer /\ turn'.longest = l /\ turn'.committed = turn.committed
      /\ turn'.done = TRUE /\ turn'.spec = c /\ turn'.restart = turn.restart
      /\ turn'.status = "failed" /\ turn'.attempts = attempts
  BY <1>t, <1>4
<1>6. c # 0
  BY <1>0, <1>3 DEF TurnInStep, TurnFollows
<1>7. OneVoice(l) /\ Len(l) >= Len(turn.longest) /\ Len(l) \in Nat /\ Len(turn.longest) \in Nat
  <2>1. OneVoice(<<>>)
    BY DEF OneVoice
  <2>2. l \in {turn.buffer, turn.longest} /\ Len(l) >= Len(turn.longest) /\ Len(l) \in Nat
        /\ Len(turn.longest) \in Nat
    BY <1>t, <1>2, LongerFacts
  <2> QED BY <1>0, <1>1, <2>1, <2>2 DEF TurnInStep, TurnFollows
<1>8. frames' = <<DoneFrame'>> /\ frames' # <<>>
  BY <1>0 DEF Frame, DoneFrame
<1>9. OrchTypeOK'
  <2>1. turn' \in [buffer : Texts, longest : Texts, committed : BOOLEAN, done : BOOLEAN,
                 attempts : Nat, spec : 0..MaxChain, restart : 0..MaxChain,
                 status : {"ok", "failed"}]
    BY <1>t, <1>2, <1>3, <1>4
  <2> QED BY <1>0, <1>5, <1>6, <2>1 DEF StreamInv, OrchTypeOK
<1>10. TurnInStep'
  <2>1. EventFollows'
    BY <1>0 DEF TurnInStep, EventFollows
  <2>2. TurnFollows'
    BY <1>0, <1>1, <1>5, <1>6, <1>7 DEF TurnInStep, TurnFollows, LeftBehind
  <2>3. DoneFollows' /\ FramesFollow'
    BY <1>0, <1>5, <1>8 DEF DoneFollows, FramesFollow
  <2> QED BY <2>1, <2>2, <2>3 DEF TurnInStep
<1>11. ASSUME ~away PROVE ReaderInStep'
  <2>1. ReaderInStep /\ frames = <<>>
    BY <1>0, <1>11 DEF StreamInv, TurnInStep, FramesFollow
  <2>2. ScreenIsTheLost'
    <3>1. ScreenIsTheLost
      BY <1>0, <1>1, <2>1 DEF ReaderInStep, ScreenFollows
    <3>2. Len(client.screen) \in Nat
      BY LenProperties DEF StreamInv, OrchTypeOK, Texts
    <3> QED BY <1>0, <1>5, <1>7, <3>1, <3>2 DEF ScreenIsTheLost, Spoken
  <2>3. ScreenFollows'
    BY <1>0, <1>1, <1>5, <2>2 DEF ScreenFollows
  <2>4. RestartsFollow' /\ DoneIsTold'
    BY <1>0, <1>5, <2>1 DEF ReaderInStep, RestartsFollow, DoneIsTold
  <2> QED BY <2>3, <2>4 DEF ReaderInStep
<1>12. Ended'
  BY <1>0, <1>5, NothingEnded
<1> QED BY <1>0, <1>9, <1>10, <1>11, <1>12 DEF StreamInv

LEMMA PersistKeeps == ASSUME StreamTypes, StreamInv, Persist \/ PersistFails PROVE StreamInv'
<1>0. /\ stage = "persist" /\ stage' = "closed" /\ UNCHANGED <<turn, frames, client, away>>
      /\ UNCHANGED <<pc, pos, attempts, said, outcome, chain, out>>
      /\ stored' \in {stored, Stored} /\ TurnInStep
  BY DEF Persist, PersistFails, routerVars, StreamInv
<1>1. stored.kind = "none" /\ frames = <<>> /\ turn.done
      /\ client.phase # "ok" /\ client.phase # "refused"
  BY <1>0 DEF StreamInv, Ended, TurnInStep, FramesFollow, DoneFollows
<1>2. OrchTypeOK'
  <2>1. turn.buffer \in Texts /\ turn.spec \in 0..MaxChain /\ <<>> \in Texts
    BY DEF StreamInv, OrchTypeOK, Texts
  <2>2. Stored \in [kind : {"none", "message", "failure"}, text : Texts, cand : 0..MaxChain]
    BY <2>1 DEF Stored
  <2> QED BY <1>0, <2>2 DEF StreamInv, OrchTypeOK
<1>3. StoredIsTheServedAttempt'
  <2> SUFFICES ASSUME stored' = Stored, stored'.kind = "message"
               PROVE  /\ pc = "served" /\ stored'.cand = outcome.cand
                      /\ stored'.text = TextOf(said, attempts, outcome.cand)
    BY <1>0, <1>1 DEF StoredIsTheServedAttempt, TextOf
  <2>1. turn.status = "ok" /\ stored'.text = turn.buffer /\ stored'.cand = turn.spec
    BY DEF Stored
  <2>2. pc = "served" /\ turn.spec = pos /\ outcome.cand = pos /\ Folded = said
    BY <1>0, <1>1, <2>1 DEF TurnInStep, DoneFollows, EventFollows, Folded, NoEvent
  <2> QED BY <1>0, <2>1, <2>2 DEF TurnInStep, TurnFollows
<1>4. OkIsWhole'
  <2>1. Stored' = Stored
    BY <1>0 DEF Stored
  <2> QED BY <1>0, <1>1, <2>1 DEF StreamInv, Ended, OkIsWhole, Waiting
<1>5. FailedIsOffered'
  BY <1>0 DEF StreamInv, Ended, FailedIsOffered, OneVoice, Waiting
<1> QED BY <1>0, <1>1, <1>2, <1>3, <1>4, <1>5 DEF StreamInv, Ended

LEMMA BodyEndsKeeps == ASSUME StreamTypes, StreamInv, BodyEnds PROVE StreamInv'
<1>0. /\ Waiting /\ ~away /\ stage = "closed"
      /\ UNCHANGED <<stage, turn, frames, away, stored>>
      /\ UNCHANGED <<pc, pos, attempts, said, outcome, chain, out>>
      /\ client' = IF client.done.status = "ok"
                   THEN [client EXCEPT !.phase = "ok", !.by = client.done.cand]
                   ELSE [client EXCEPT !.phase = "failed", !.by = client.done.cand,
                                       !.screen = <<>>]
  BY DEF BodyEnds, routerVars
<1>1. client \in Clients /\ client.done.cand \in 0..MaxChain /\ <<>> \in Texts
  BY DEF StreamInv, OrchTypeOK, Clients, Texts
<1>2. /\ client' \in Clients /\ client'.done = client.done /\ client'.bytes = client.bytes
      /\ client'.phase = (IF client.done.status = "ok" THEN "ok" ELSE "failed")
      /\ client'.by = client.done.cand
      /\ client.done.status = "ok" => client'.screen = client.screen
  BY <1>0, <1>1 DEF Clients
<1>3. OrchTypeOK'
  BY <1>0, <1>2 DEF StreamInv, OrchTypeOK, Clients
<1>4. OkIsWhole'
  BY <1>0, <1>2 DEF StreamInv, Ended, OkIsWhole, Stored
<1>5. Ended'
  BY <1>0, <1>2, <1>4 DEF StreamInv, Ended, FailedIsOffered, StoredIsTheServedAttempt, Waiting
<1> QED BY <1>0, <1>3, <1>5 DEF StreamInv

LEMMA LeavingKeeps == ASSUME StreamTypes, StreamInv, Stop \/ ConnectionDies PROVE StreamInv'
<1>0. /\ Waiting /\ ~away /\ away' = TRUE /\ UNCHANGED <<stage, turn, frames, stored>>
      /\ UNCHANGED <<pc, pos, attempts, said, outcome, chain, out>>
      /\ client' \in {[client EXCEPT !.phase = "unsaved"],
                      [client EXCEPT !.phase = "failed", !.screen = <<>>]}
  BY DEF Stop, ConnectionDies, routerVars
<1>1. client \in Clients /\ <<>> \in Texts
  BY DEF StreamInv, OrchTypeOK, Clients, Texts
<1>2. /\ client' \in Clients /\ client'.done = client.done /\ client'.bytes = client.bytes
      /\ client'.phase \in {"unsaved", "failed"}
  BY <1>0, <1>1 DEF Clients
<1>3. OrchTypeOK'
  BY <1>0, <1>2 DEF StreamInv, OrchTypeOK, Clients
<1>4. stage' # "closed" => TurnInStep'
  BY <1>0, TurnKept DEF StreamInv
<1>5. Ended'
  BY <1>0, <1>2 DEF StreamInv, Ended, OkIsWhole, FailedIsOffered, StoredIsTheServedAttempt, Waiting
<1> QED BY <1>0, <1>3, <1>4, <1>5 DEF StreamInv

LEMMA NoticeGoneKeeps == ASSUME StreamTypes, StreamInv, NoticeGone PROVE StreamInv'
<1>0. /\ away /\ stage # "closed" /\ stage' = "closed" /\ frames' = <<>>
      /\ UNCHANGED <<turn, client, away, stored>>
  BY DEF NoticeGone
<1>1. stored.kind = "none" /\ client.phase # "ok" /\ client.phase # "refused"
  BY <1>0 DEF StreamInv, Ended
<1>2. OrchTypeOK'
  BY <1>0 DEF StreamInv, OrchTypeOK
<1>3. Ended'
  BY <1>0, <1>1 DEF StreamInv, Ended, OkIsWhole, FailedIsOffered, StoredIsTheServedAttempt
<1> QED BY <1>0, <1>2, <1>3 DEF StreamInv

LEMMA StutterKeeps == ASSUME StreamInv, UNCHANGED vars PROVE StreamInv'
<1>0. /\ UNCHANGED <<stage, turn, frames, client, away, stored>>
      /\ UNCHANGED <<pc, pos, attempts, said, outcome, chain, out>>
  BY DEF vars, routerVars, orchVars
<1>1. stage' # "closed" => TurnInStep'
  BY <1>0, TurnKept DEF StreamInv
<1>2. (stage' # "closed" /\ ~away') => ReaderInStep'
  BY <1>0 DEF StreamInv, ReaderInStep, ScreenFollows, ScreenIsEmpty, ScreenIsTheBuffer,
     ScreenIsTheLost, Spoken, RestartFits, DeltaFrame, RestartsFollow, DoneIsTold, PartialContent
<1>3. OrchTypeOK'
  BY <1>0 DEF StreamInv, OrchTypeOK
<1>4. Ended'
  BY <1>0 DEF StreamInv, Ended, OkIsWhole, FailedIsOffered, OneVoice,
     StoredIsTheServedAttempt, Waiting, Stored
<1> QED BY <1>1, <1>2, <1>3, <1>4 DEF StreamInv

-----------------------------------------------------------------------------
(* The router's invariants and the stream's, together.                       *)
Inv == StreamTypes /\ WithinBudget /\ StreamInv

LEMMA InvInitially == Init => Inv
<1> SUFFICES ASSUME Init PROVE Inv
  OBVIOUS
<1>0. /\ RouterInit /\ stage = "wait" /\ frames = <<>> /\ away = FALSE /\ stored = NotStored
      /\ turn = [buffer |-> <<>>, longest |-> <<>>, committed |-> FALSE, done |-> FALSE,
                 attempts |-> 0, spec |-> 0, restart |-> 0, status |-> "ok"]
      /\ client = [phase |-> "silent", screen |-> <<>>, by |-> 0, cleared |-> 0,
                   bytes |-> FALSE, done |-> NotDone]
  BY DEF Init
<1>1. StreamTypes
  BY <1>0, TypesInitially DEF Init, StreamTypes
<1>2. WithinBudget
  BY <1>0, RouterAssumption
     DEF RouterInit, WithinBudget, OnlyTheLastRetryGoesOver, Extra, Positions
<1>3. pc = "candidate" /\ out = NoEvent
  BY <1>0 DEF RouterInit
<1>4. OrchTypeOK
  <2>1. <<>> \in Texts /\ 0 \in 0..MaxChain
    BY <1>1, Base DEF Texts
  <2> QED BY <1>0, <2>1 DEF OrchTypeOK, NotDone, NotStored
<1>5. TurnInStep
  <2>1. EventFollows
    BY <1>3 DEF EventFollows, NoEvent
  <2>2. TurnFollows
    <3>1. TextOf(0, attempts, pos) = <<>>
      BY TextFacts
    <3>2. Folded = 0
      BY <1>3 DEF Folded, NoEvent
    <3> QED BY <1>0, <1>3, <3>1, <3>2 DEF TurnFollows, OneVoice
  <2> QED BY <1>0, <2>1, <2>2 DEF TurnInStep, DoneFollows, FramesFollow
<1>6. ReaderInStep
  BY <1>0 DEF ReaderInStep, ScreenFollows, ScreenIsEmpty, RestartsFollow, DoneIsTold
<1>7. Ended
  BY <1>0 DEF Ended, OkIsWhole, FailedIsOffered, StoredIsTheServedAttempt, NotStored, NotDone
<1> QED BY <1>1, <1>2, <1>4, <1>5, <1>6, <1>7 DEF Inv, StreamInv

LEMMA InvInductive == Inv /\ [Next]_vars => Inv'
<1> SUFFICES ASSUME Inv, [Next]_vars PROVE Inv'
  OBVIOUS
<1>1. StreamTypes' /\ WithinBudget'
  BY RouterStepInside, StreamTypesInductive, BudgetInductive DEF Inv, StreamTypes
<1>2. StreamInv'
  <2> USE DEF Inv
  <2>1. CASE Drive
    BY <1>1, <2>1, DriveKeeps
  <2>2. CASE Apply
    BY <2>2, ApplyKeeps
  <2>3. CASE SendFrame
    BY <2>3, SendKeeps
  <2>4. CASE Raise
    BY <2>4, RaiseKeeps
  <2>5. CASE FailInBand
    BY <2>5, FailInBandKeeps
  <2>6. CASE Persist \/ PersistFails
    BY <2>6, PersistKeeps
  <2>7. CASE NoticeGone
    BY <2>7, NoticeGoneKeeps
  <2>8. CASE Heartbeat
    BY <2>8, HeartbeatKeeps
  <2>9. CASE BodyEnds
    BY <2>9, BodyEndsKeeps
  <2>10. CASE Stop \/ ConnectionDies
    BY <2>10, LeavingKeeps
  <2>11. CASE Done \/ UNCHANGED vars
    BY <2>11, StutterKeeps DEF Done
  <2> QED BY <2>1, <2>2, <2>3, <2>4, <2>5, <2>6, <2>7, <2>8, <2>9, <2>10, <2>11
          DEF Next, Orchestrate
<1> QED BY <1>1, <1>2 DEF Inv

LEMMA InvAlways == Spec => []Inv
BY InvInitially, InvInductive, PTL DEF Spec

(* Whatever the providers say and whenever the reader leaves, router, wire,  *)
(* screen and database agree (stream_completion, _apply, Collector.persist,  *)
(* useSendMessage): an error envelope only where no byte went out, the row   *)
(* that is stored is the attempt that was served, whole and alone, and it is *)
(* what the reader saw finish.                                               *)
THEOREM StreamConsistent == Spec => []StreamIsConsistent
<1>1. Inv => StreamIsConsistent
  <2> SUFFICES ASSUME Inv PROVE StreamIsConsistent
    OBVIOUS
  <2>1. OrchTypeOK /\ EnvelopeOrBytes /\ StoredIsTheServedAttempt
    BY DEF Inv, StreamInv, Ended, EnvelopeOrBytes
  <2>2. ScreenIsStored
    BY DEF Inv, StreamInv, Ended, OkIsWhole, ScreenIsStored, Stored
  <2> QED BY <2>1, <2>2 DEF StreamIsConsistent
<1> QED BY <1>1, InvAlways, PTL

-----------------------------------------------------------------------------
(* The step that settles a failed turn offers what the reader sees vanish:   *)
(* useSendMessage's onDone and the partial_content of _Turn.                 *)
THEOREM SalvageCorrect == Spec => SalvageCoversTheScreen
<1> DEFINE Covers == (Waiting /\ client'.phase = "failed" /\ client.done.status = "failed"
                        /\ ~away' /\ Len(client.screen) >= MinPartial) =>
                          /\ Len(client'.done.partial) >= Len(client.screen)
                          /\ \A i, j \in DOMAIN client'.done.partial :
                                client'.done.partial[i] = client'.done.partial[j]
<1>1. Inv /\ [Next]_vars => [Covers]_vars
  <2> SUFFICES ASSUME Inv, [Next]_vars, Waiting, client'.phase = "failed", ~away',
                      client.done.status = "failed", Len(client.screen) >= MinPartial
               PROVE  client'.done = client.done /\ ~away
    BY DEF Inv, StreamInv, Ended, FailedIsOffered, OneVoice
  <2>c. client \in Clients
    BY DEF Inv, StreamInv, OrchTypeOK, Clients
  <2>1. CASE BodyEnds
    BY <2>1, <2>c DEF BodyEnds, Clients
  <2>2. CASE Drive \/ Apply \/ FailInBand \/ Persist \/ PersistFails \/ NoticeGone \/ Done
             \/ UNCHANGED vars
    BY <2>2 DEF Drive, Apply, FailInBand, Persist, PersistFails, NoticeGone, Done, vars, orchVars,
       Waiting
  <2>3. CASE Stop \/ ConnectionDies
    BY <2>3 DEF Stop, ConnectionDies
  <2>4. CASE Raise \/ Heartbeat
    BY <2>4, <2>c DEF Raise, Heartbeat, Waiting, Clients
  <2>5. CASE SendFrame
    <3>1. away' = away /\ stage = "send" /\ client' = Shown(Head(frames)) /\ ~away
      BY <2>5 DEF SendFrame
    <3>2. client.done = NotDone
      BY <3>1 DEF Inv, StreamInv, ReaderInStep, DoneIsTold
    <3> QED BY <3>2 DEF NotDone
  <2> QED BY <2>1, <2>2, <2>3, <2>4, <2>5 DEF Next, Orchestrate
<1>2. Spec => [][Covers]_vars
  BY <1>1, InvAlways, PTL DEF Spec
<1> QED BY <1>2 DEF SalvageCoversTheScreen

-----------------------------------------------------------------------------
(* The refinement: each step of the orchestrator or of the browser is a step *)
(* of StreamContract on what the browser shows, or leaves that alone.        *)

(* One frame, while somebody reads.                                          *)
LEMMA SendRefines ==
    ASSUME Inv, SendFrame, ~away
    PROVE  Contract!ContractNext \/ UNCHANGED Contract!contractVars
<1>0. /\ stage = "send" /\ TurnInStep /\ ReaderInStep /\ client' = Shown(Head(frames))
      /\ client \in Clients
  BY DEF Inv, StreamInv, SendFrame, OrchTypeOK, Clients
<1>t. StreamTypes /\ OnlyTheLastRetryGoesOver
  BY DEF Inv, WithinBudget
<1>1. CASE turn.done
  <2>1. Head(frames) = DoneFrame
    BY <1>0, <1>1, FrameFacts DEF TurnInStep, FramesFollow
  <2>2. client' = [client EXCEPT !.done = [status |-> turn.status, cand |-> turn.spec,
                                           partial |-> PartialContent]]
    BY <1>0, <2>1 DEF Shown, DoneFrame
  <2>3. /\ client'.phase = client.phase /\ client'.screen = client.screen
        /\ client'.by = client.by /\ client'.cleared = client.cleared
    BY <1>0, <2>2 DEF Clients
  <2> QED BY <2>3 DEF Contract!contractVars
<1>2. CASE ~turn.done
  <2> DEFINE p == [attempt |-> attempts, cand |-> pos]
  <2>0. /\ pc = "flight" /\ out = NoEvent /\ said > 0 /\ turn.spec = pos
        /\ frames \in {<<DeltaFrame>>, <<MetaFrame, DeltaFrame>>, <<RestartFrame, DeltaFrame>>}
    BY <1>0, <1>2 DEF TurnInStep, FramesFollow
  <2>k. /\ DeltaFrame.kind = "delta" /\ MetaFrame.kind = "meta" /\ RestartFrame.kind = "restart"
        /\ DeltaFrame.text = p /\ MetaFrame.cand = pos /\ RestartFrame.cand = pos
    BY <2>0 DEF DeltaFrame, MetaFrame, RestartFrame
  <2>n. frames # <<>>
    BY <2>0, FrameFacts
  <2>p. pos \in Positions /\ pos \in Nat
    BY <1>t, <2>0, Base
  <2>3. CASE frames = <<DeltaFrame>>
    <3>1. Head(frames) = DeltaFrame /\ frames[1] = DeltaFrame
      BY <2>3, FrameFacts
    <3>2. client' = [client EXCEPT !.screen = Append(@, p)]
      BY <1>0, <2>k, <3>1 DEF Shown
    <3>3. /\ client'.screen = Append(client.screen, p) /\ client'.phase = client.phase
          /\ client'.by = client.by /\ client'.cleared = client.cleared
      BY <1>0, <3>2 DEF Clients
    <3>4. client.phase = "speaking" /\ client.by = pos
          /\ client.screen = TextOf(said - 1, attempts, pos)
      BY <1>0, <1>2, <2>k, <2>n, <3>1 DEF ReaderInStep, ScreenFollows
    <3>5. \A i \in DOMAIN client.screen : client.screen[i].attempt = attempts
      <4>1. PICK k \in Nat : k = said - 1
        BY <1>t, <2>0, Base
      <4>2. /\ DOMAIN TextOf(k, attempts, pos) = 1..k
            /\ \A i \in 1..k : TextOf(k, attempts, pos)[i] = p
        <5>1. DOMAIN TextOf(k, attempts, pos) = 1..k
          BY <4>1, TextFacts
        <5>2. \A i \in 1..k : TextOf(k, attempts, pos)[i] = p
          BY DEF TextOf
        <5> QED BY <5>1, <5>2
      <4> QED BY <3>4, <4>1, <4>2
    <3>6. attempts \in 1..(MaxAttempts + MaxRetries)
      <4>1. attempts > 0
        BY <1>0, <2>0 DEF TurnInStep, EventFollows
      <4>2. retries \in 0..MaxRetries
        BY <1>t DEF StreamTypes, Types, RouterTypeOK
      <4>3. attempts <= MaxAttempts + MaxRetries
        BY <1>t, <4>2, Base DEF OnlyTheLastRetryGoesOver
      <4> QED BY <1>t, <4>1, <4>3, Base
    <3>7. Contract!Says(attempts)
      BY <3>3, <3>4, <3>5 DEF Contract!Says
    <3> QED BY <3>6, <3>7 DEF Contract!ContractNext
  <2>4. CASE frames = <<MetaFrame, DeltaFrame>>
    <3>1. Head(frames) = MetaFrame /\ frames[1] = MetaFrame
      BY <2>4, FrameFacts
    <3>2. client' = [client EXCEPT !.phase = "speaking", !.by = pos, !.bytes = TRUE]
      BY <1>0, <2>k, <3>1 DEF Shown
    <3>3. /\ client'.screen = client.screen /\ client'.phase = "speaking"
          /\ client'.by = pos /\ client'.cleared = client.cleared
      BY <1>0, <3>2 DEF Clients
    <3>4. client.phase = "silent"
      BY <1>0, <1>2, <2>k, <2>n, <3>1 DEF ReaderInStep, ScreenFollows, ScreenIsEmpty
    <3>5. Contract!Opens(pos)
      BY <3>3, <3>4 DEF Contract!Opens
    <3> QED BY <2>p, <3>5 DEF Contract!ContractNext
  <2>5. CASE frames = <<RestartFrame, DeltaFrame>>
    <3>1. Head(frames) = RestartFrame /\ frames[1] = RestartFrame
      BY <2>5, FrameFacts
    <3>2. client' = [client EXCEPT !.screen = <<>>, !.by = pos, !.cleared = @ + 1]
      BY <1>0, <2>k, <3>1 DEF Shown
    <3>3. /\ client'.screen = <<>> /\ client'.phase = client.phase
          /\ client'.by = pos /\ client'.cleared = client.cleared + 1
          /\ client.cleared \in Nat /\ client.by \in 0..MaxChain
      BY <1>0, <3>2 DEF Clients
    <3>4. Spoken /\ client.by < pos /\ RestartFits
      BY <1>0, <1>2, <2>k, <2>n, <3>1 DEF ReaderInStep, ScreenFollows
    <3>5. client.by # pos /\ client.cleared < MaxAttempts - 1
      BY <1>t, <2>p, <3>3, <3>4, Base, SMTT(30) DEF RestartFits
    <3>6. Contract!Restarts(pos)
      BY <3>3, <3>4, <3>5 DEF Contract!Restarts, Spoken
    <3> QED BY <2>p, <3>6 DEF Contract!ContractNext
  <2> QED BY <2>0, <2>3, <2>4, <2>5
<1> QED BY <1>1, <1>2

LEMMA StepRefines ==
    ASSUME Inv, [Next]_vars
    PROVE  Contract!ContractNext \/ UNCHANGED Contract!contractVars
<1>c. client \in Clients
  BY DEF Inv, StreamInv, OrchTypeOK, Clients
<1>p. 0..MaxChain = Positions \cup {0}
  BY RouterAssumption DEF Positions
<1>1. CASE Drive \/ Apply \/ FailInBand \/ Persist \/ PersistFails \/ NoticeGone \/ Done
           \/ UNCHANGED vars
  <2>1. client' = client
    BY <1>1 DEF Drive, Apply, FailInBand, Persist, PersistFails, NoticeGone, Done, vars, orchVars
  <2> QED BY <2>1 DEF Contract!contractVars
<1>2. CASE SendFrame
  <2>1. CASE away
    BY <1>2, <2>1 DEF SendFrame, Contract!contractVars
  <2> QED BY <1>2, <2>1, SendRefines
<1>3. CASE Heartbeat
  BY <1>3, <1>c DEF Heartbeat, Contract!contractVars, Clients
<1>4. CASE Raise
  <2>1. CASE away
    BY <1>4, <2>1 DEF Raise, Contract!contractVars
  <2>2. CASE ~away
    <3>1. ReaderInStep /\ frames = <<>> /\ ~turn.committed
      BY <1>4, <2>2 DEF Raise, Inv, StreamInv, TurnInStep, FramesFollow
    <3>2. client.phase = "silent"
      BY <3>1 DEF ReaderInStep, ScreenFollows, ScreenIsEmpty
    <3>3. Contract!Refuses
      BY <1>4, <1>c, <2>2, <3>2 DEF Raise, Contract!Refuses, Clients
    <3> QED BY <3>3 DEF Contract!ContractNext
  <2> QED BY <2>1, <2>2
<1>5. CASE BodyEnds
  <2>1. CASE client.done.status = "ok"
    <3>1. /\ client.phase \in {"speaking", "ok"} /\ client.screen # <<>>
          /\ client.by = client.done.cand
      BY <1>5, <2>1 DEF BodyEnds, Inv, StreamInv, Ended, OkIsWhole
    <3>2. Contract!Finishes
      BY <1>5, <1>c, <2>1, <3>1 DEF BodyEnds, Waiting, Contract!Finishes, Clients
    <3> QED BY <3>2 DEF Contract!ContractNext
  <2>2. CASE client.done.status # "ok"
    <3>1. Contract!Fails(client.done.cand)
      BY <1>5, <1>c, <2>2 DEF BodyEnds, Waiting, Contract!Fails, Clients
    <3>2. client.done.cand \in Positions \cup {0}
      BY <1>c, <1>p DEF Clients
    <3> QED BY <3>1, <3>2 DEF Contract!ContractNext
  <2> QED BY <2>1, <2>2
<1>6. CASE Stop
  <2>1. Contract!Abandons
    BY <1>6, <1>c DEF Stop, Waiting, Contract!Abandons, Clients
  <2> QED BY <2>1 DEF Contract!ContractNext
<1>7. CASE ConnectionDies
  <2>1. Contract!Fails(client.by)
    BY <1>7, <1>c DEF ConnectionDies, Waiting, Contract!Fails, Clients
  <2>2. client.by \in Positions \cup {0}
    BY <1>c, <1>p DEF Clients
  <2> QED BY <2>1, <2>2 DEF Contract!ContractNext
<1> QED BY <1>1, <1>2, <1>3, <1>4, <1>5, <1>6, <1>7 DEF Next, Orchestrate

(* What stream_completion puts on the wire keeps the contract of             *)
(* streaming/sse.py, as the browser shows it, for every chain, cap and retry *)
(* budget: nothing before a candidate speaks, one attempt on screen at a     *)
(* time and by the candidate named, restarts that clear it and move to       *)
(* another candidate at most MAX_ATTEMPTS - 1 times, and done last.          *)
THEOREM ContractKept == Spec => KeepsTheContract
<1>1. Init => Contract!ContractInit
  BY DEF Init, Contract!ContractInit
<1>2. Inv /\ [Next]_vars => [Contract!ContractNext]_(Contract!contractVars)
  BY StepRefines
<1> QED BY <1>1, <1>2, InvAlways, PTL DEF Spec, KeepsTheContract, Contract!ContractSpec
=============================================================================
