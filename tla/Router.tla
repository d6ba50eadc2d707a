------------------------------- MODULE Router -------------------------------
(***************************************************************************)
(* The failover loop of routing/router.py for one request: route and       *)
(* route_stream, which share every decision and differ in what a failure   *)
(* may follow.  A candidate is its position in the chain that              *)
(* selection.candidates returned (it repeats no candidate).  What the      *)
(* breaker, the quota tracker and the provider answer is left open.        *)
(*                                                                         *)
(* route_stream is a generator: after a yield it does nothing until its    *)
(* consumer asks again, so every action waits for out to be taken.         *)
(***************************************************************************)
EXTENDS Integers, Sequences, FiniteSets

CONSTANTS
    Modes,        \* which loops to explore, of {"complete", "stream"}
    MaxChain,     \* longest candidate chain
    MaxAttempts,  \* MAX_ATTEMPTS
    MaxRetries,   \* MAX_SAME_PROVIDER_RETRIES
    MaxDeltas,    \* bound on the deltas of one streamed attempt
    Failures,     \* the normalized errors that calls end with
    Private,      \* candidates the caller holds a key of their own for
    QuotaOn       \* QUOTA_ENFORCEMENT

ASSUME RouterAssumption ==
    /\ Modes \subseteq {"complete", "stream"}
    /\ MaxChain \in Nat \ {0} /\ MaxAttempts \in Nat \ {0} /\ MaxRetries \in Nat
    /\ MaxDeltas \in Nat \ {0} /\ QuotaOn \in BOOLEAN
    /\ Private \subseteq 1..MaxChain
    /\ Failures \subseteq {"rate_limited", "unavailable", "auth_failed", "bad_request",
                        "context_too_long", "content_filtered", "empty_response"}

VARIABLES
    mode,      \* route or route_stream
    chain,     \* length of the candidate chain
    pc,        \* where the loop is
    pos,       \* the candidate at hand
    attempts,  \* requests that left the process
    refit,     \* refit_used, retries_used: reset at every candidate
    retries,
    said,      \* deltas the attempt at hand has delivered
    held,      \* a reservation is not settled yet
    last,      \* last_error and last_spec
    trail,     \* the AttemptRecords
    reports,   \* reports[p]: what the breaker was told of candidate p
    invalid,   \* candidates whose private key was marked invalid
    out,       \* the RouteStreamEvent just yielded, until it is taken
    outcome    \* RouterOutcome, or RoutingFailed's error and spec

routerVars == <<mode, chain, pc, pos, attempts, refit, retries, said, held,
                last, trail, reports, invalid, out, outcome>>

-----------------------------------------------------------------------------
(* The seven normalized errors and their class flags.                        *)
Errors == {"rate_limited", "unavailable", "auth_failed", "bad_request",
           "context_too_long", "content_filtered", "empty_response"}
RetryableSameProvider == {"unavailable", "context_too_long", "empty_response"}
FailoverEligible == {"rate_limited", "unavailable", "auth_failed", "empty_response"}

NoError == "none"
Positions == 1..MaxChain

(* sent and said are history: did a request leave, and did text come back?   *)
Record(p, kind, e, sent, text) ==
    [cand |-> p, kind |-> kind, error |-> e, sent |-> sent, said |-> text]
Records == [cand : Positions, error : Errors \cup {NoError}, sent : BOOLEAN,
            said : BOOLEAN,
            kind : {"ok", "error", "skipped_breaker", "skipped_quota"}]

NoEvent == [kind |-> "none", attempt |-> 0, cand |-> 0]
Event(kind) == [kind |-> kind, attempt |-> attempts', cand |-> pos]
Events == [kind : {"none", "started", "delta", "aborted", "completed"},
           attempt : Nat, cand : 0..MaxChain]
Yield(kind) == out' = IF mode = "stream" THEN Event(kind) ELSE NoEvent

Over == {"served", "failed", "gone"}
Running(label) == pc = label /\ out = NoEvent

RouterInit ==
    /\ mode \in Modes
    /\ chain \in Positions
    /\ pc = "candidate" /\ pos = 1
    /\ attempts = 0 /\ refit = FALSE /\ retries = 0 /\ said = 0 /\ held = FALSE
    /\ last = [error |-> NoError, cand |-> 0, limit |-> FALSE]
    /\ trail = <<>>
    /\ reports = [p \in Positions |-> "none"]
    /\ invalid = {}
    /\ out = NoEvent
    /\ outcome = [kind |-> "none", error |-> NoError, cand |-> 0]

-----------------------------------------------------------------------------
(* The for loop: attempts >= max_attempts breaks, then breaker.allows.       *)


MoreToTry == pos <= chain /\ attempts < MaxAttempts

SkipOpen ==
    /\ Running("candidate") /\ MoreToTry
    /\ trail' = Append(trail, Record(pos, "skipped_breaker", NoError, FALSE, FALSE))
    /\ pos' = pos + 1
    /\ UNCHANGED <<mode, chain, pc, attempts, refit, retries, said, held, last,
                   reports, invalid, out, outcome>>

Admit ==
    /\ Running("candidate") /\ MoreToTry
    /\ pc' = "try" /\ refit' = FALSE /\ retries' = 0
    /\ UNCHANGED <<mode, chain, pos, attempts, said, held, last, trail,
                   reports, invalid, out, outcome>>

(* Out of candidates or attempts: the last error, or _all_skipped.           *)
SkipError ==
    IF \E i \in DOMAIN trail : trail[i].kind = "skipped_quota"
    THEN "rate_limited" ELSE "unavailable"

(* Slip: running out of attempts leaves the loop without raising.            *)
ExhaustedAtTheEndOnly ==
    /\ Running("candidate") /\ pos > chain
    /\ pc' = "failed"
    /\ outcome' = [kind |-> "failed", cand |-> last.cand,
                   error |-> IF last.error = NoError THEN SkipError ELSE last.error]
    /\ UNCHANGED <<mode, chain, pos, attempts, refit, retries, said, held, last,
                   trail, reports, invalid, out>>

Exhausted ==
    /\ Running("candidate") /\ ~MoreToTry
    /\ pc' = "failed"
    /\ outcome' = [kind |-> "failed", cand |-> last.cand,
                   error |-> IF last.error = NoError THEN SkipError ELSE last.error]
    /\ UNCHANGED <<mode, chain, pos, attempts, refit, retries, said, held, last,
                   trail, reports, invalid, out>>

-----------------------------------------------------------------------------
(* The while loop: resolve the credential, render, reserve, call.            *)


(* A window said no: no round trip, no attempt, and no word to the breaker.  *)
SkipQuota ==
    /\ Running("try") /\ QuotaOn
    /\ trail' = Append(trail, Record(pos, "skipped_quota", NoError, FALSE, FALSE))
    /\ pc' = "candidate" /\ pos' = pos + 1
    /\ UNCHANGED <<mode, chain, attempts, refit, retries, said, held, last,
                   reports, invalid, out, outcome>>

Send ==
    /\ Running("try")
    /\ attempts' = attempts + 1
    /\ held' = QuotaOn /\ said' = 0
    /\ pc' = "flight"
    /\ Yield("started")
    /\ UNCHANGED <<mode, chain, pos, refit, retries, last, trail, reports,
                   invalid, outcome>>

Speak ==
    /\ Running("flight") /\ mode = "stream" /\ said < MaxDeltas
    /\ said' = said + 1
    /\ UNCHANGED attempts /\ Yield("delta")
    /\ UNCHANGED <<mode, chain, pc, pos, refit, retries, held, last, trail,
                   reports, invalid, outcome>>


LastError(e, limit) == last' = [error |-> e, cand |-> pos, limit |-> limit]


Settle == held' = FALSE

(* except ProviderError: settle, flag a refused private key, append to the   *)
(* trail, tell the consumer.  limit: a ContextTooLong that names its limit.  *)
Fails(e, limit, sent) ==
    /\ Settle
    /\ LastError(e, limit)
    /\ invalid' = IF e = "auth_failed" /\ pos \in Private
                  THEN invalid \cup {pos} ELSE invalid
    /\ trail' = Append(trail, Record(pos, "error", e, sent, sent /\ said > 0))
    /\ pc' = "decide"
    /\ UNCHANGED attempts /\ Yield("aborted")
    /\ UNCHANGED <<mode, chain, pos, refit, retries, reports, outcome>>

(* render: the history cannot be made to fit, and nothing left the process.  *)
RenderFails ==
    /\ Running("try")
    /\ said' = 0
    /\ Fails("context_too_long", TRUE, FALSE)

(* The provider's error, a first-token stall, or a stream without content.   *)
CallFails(e, limit) ==
    /\ Running("flight")
    /\ mode = "stream" /\ e = "empty_response" => said = 0
    /\ limit => e = "context_too_long"
    /\ UNCHANGED said
    /\ Fails(e, limit, TRUE)

Succeeds ==
    /\ Running("flight") /\ (mode = "stream" => said > 0)
    /\ Settle
    /\ reports' = [reports EXCEPT ![pos] = "success"]
    /\ trail' = Append(trail, Record(pos, "ok", NoError, TRUE, said > 0))
    /\ pc' = "served"
    /\ outcome' = [kind |-> "ok", error |-> NoError, cand |-> pos]
    /\ UNCHANGED attempts /\ Yield("completed")
    /\ UNCHANGED <<mode, chain, pos, refit, retries, said, last, invalid>>

-----------------------------------------------------------------------------
(* What to do about the failure: re-fit, retry, fail over or stop.           *)

MayRefit ==
    /\ last.error = "context_too_long" /\ last.limit
    /\ said = 0 /\ ~refit /\ attempts < MaxAttempts

(* Slip: the retry taken although the last attempt belongs to a candidate    *)
(* that has not failed yet.                                                  *)
NeverStarves == FALSE

RetryWouldStarveFailover == attempts >= MaxAttempts - 1 /\ chain - pos > 0

(* Slip: the rule that a candidate which died in mid-answer is not retried   *)
(* forgotten.                                                                *)
MayRetryMidAnswer ==
    /\ last.error \in RetryableSameProvider \ {"context_too_long"}
    /\ retries < MaxRetries /\ ~RetryWouldStarveFailover


MayRetry ==
    /\ last.error \in RetryableSameProvider \ {"context_too_long"}
    /\ said = 0
    /\ retries < MaxRetries /\ ~RetryWouldStarveFailover

Refit ==
    /\ Running("decide") /\ MayRefit
    /\ refit' = TRUE /\ pc' = "try"
    /\ UNCHANGED <<mode, chain, pos, attempts, retries, said, held, last, trail,
                   reports, invalid, out, outcome>>

Retry ==
    /\ Running("decide") /\ ~MayRefit /\ MayRetry
    /\ retries' = retries + 1 /\ pc' = "try"
    /\ UNCHANGED <<mode, chain, pos, attempts, refit, said, held, last, trail,
                   reports, invalid, out, outcome>>

(* Slip: the breaker not told of an attempt that fails over.                 *)
FailOverUnreported ==
    /\ Running("decide") /\ ~MayRefit /\ ~MayRetry
    /\ last.error \in FailoverEligible
    /\ pos' = pos + 1 /\ pc' = "candidate"
    /\ UNCHANGED <<mode, chain, attempts, refit, retries, said, held, last, trail,
                   invalid, out, outcome, reports>>

FailOver ==
    /\ Running("decide") /\ ~MayRefit /\ ~MayRetry
    /\ last.error \in FailoverEligible
    /\ reports' = [reports EXCEPT ![pos] = "failure"]
    /\ pos' = pos + 1 /\ pc' = "candidate"
    /\ UNCHANGED <<mode, chain, attempts, refit, retries, said, held, last, trail,
                   invalid, out, outcome>>

Abort ==
    /\ Running("decide") /\ ~MayRefit /\ ~MayRetry
    /\ last.error \notin FailoverEligible
    /\ reports' = [reports EXCEPT ![pos] = "failure"]
    /\ pc' = "failed"
    /\ outcome' = [kind |-> "failed", error |-> last.error, cand |-> pos]
    /\ UNCHANGED <<mode, chain, pos, attempts, refit, retries, said, held, last,
                   trail, invalid, out>>

(* The generator is closed or its task cancelled, at an await or a yield: no *)
(* except clause catches that, so nothing is settled and nobody is told.     *)
Close ==
    /\ mode = "stream" /\ pc \notin Over
    /\ pc' = "gone" /\ out' = NoEvent
    /\ UNCHANGED <<mode, chain, pos, attempts, refit, retries, said, held, last,
                   trail, reports, invalid, outcome>>

RouterStep ==
    \/ SkipOpen \/ Admit \/ Exhausted
    \/ SkipQuota \/ Send \/ Speak \/ RenderFails \/ Succeeds
    \/ \E e \in Failures, limit \in BOOLEAN : CallFails(e, limit)
    \/ Refit \/ Retry \/ FailOver \/ Abort

(* A consumer that only takes events.                                        *)
Consume ==
    /\ out # NoEvent
    /\ out' = NoEvent
    /\ UNCHANGED <<mode, chain, pc, pos, attempts, refit, retries, said, held,
                   last, trail, reports, invalid, outcome>>

Finished == pc \in Over /\ out = NoEvent /\ UNCHANGED routerVars

RouterNext == RouterStep \/ Consume \/ Close \/ Finished
RouterSpec == RouterInit /\ [][RouterNext]_routerVars


-----------------------------------------------------------------------------
RouterTypeOK ==
    /\ mode \in Modes /\ chain \in Positions
    /\ pc \in {"candidate", "try", "flight", "decide"} \cup Over
    /\ pos \in 1..(chain + 1)
    /\ attempts \in Nat /\ refit \in BOOLEAN /\ retries \in 0..MaxRetries
    /\ said \in 0..MaxDeltas /\ held \in BOOLEAN
    /\ last \in [error : Errors \cup {NoError}, cand : 0..MaxChain, limit : BOOLEAN]
    /\ trail \in Seq(Records)
    /\ reports \in [Positions -> {"none", "success", "failure"}]
    /\ invalid \subseteq Private
    /\ out \in Events
    /\ outcome \in [kind : {"none", "ok", "failed"}, error : Errors \cup {NoError},
                    cand : 0..MaxChain]

(* ADR-015: "one budget of three upstream calls per message", retries        *)
(* included; router.py says of RouterOutcome.attempts "at most MAX_ATTEMPTS".*)
(* _retry_would_starve_failover never withholds a retry from the last        *)
(* candidate of the chain, so the code exceeds it.                           *)
AttemptsAreCapped == attempts <= MaxAttempts

(* What the code does keep: only retries of the last candidate of the chain, *)
(* where no failover is left to starve, go past MAX_ATTEMPTS.                *)
OnlyTheLastRetryGoesOver ==
    attempts <= MaxAttempts + (IF pos >= chain THEN retries ELSE 0)

(* ADR-015's yield: while another candidate is left, a retry never spends    *)
(* the last attempt (only a re-fit may, which is not a retry).               *)
RetryYieldsTheLastAttempt ==
    (pc = "flight" /\ retries > 0 /\ ~refit /\ pos < chain) => attempts < MaxAttempts

(* A turn's attempts are the requests that left, neither skips nor render    *)
(* failures among them, whatever mix of retries, re-fits and failovers.      *)
AttemptsAreRoundTrips ==
    pc # "gone" =>
        attempts = Cardinality({i \in DOMAIN trail : trail[i].sent})
                     + (IF pc = "flight" THEN 1 ELSE 0)

(* The class flags over the whole trail: an error that is not                *)
(* failover-eligible is shown to no other candidate, and a candidate is      *)
(* asked again only after an error that is retryable on the same provider.   *)
FlagsRespected ==
    \A i, j \in DOMAIN trail :
        (i < j /\ trail[i].kind = "error") =>
            /\ trail[j].cand # trail[i].cand => trail[i].error \in FailoverEligible
                                               \/ trail[i].error = "context_too_long"
            /\ trail[j].cand = trail[i].cand => trail[i].error \in RetryableSameProvider

(* A candidate that delivered text and died is never asked again: a restart  *)
(* always moves to a new candidate.                                          *)
RestartMovesOn ==
    \A i, j \in DOMAIN trail :
        (i < j /\ trail[i].kind = "error" /\ trail[i].said)
            => trail[j].cand # trail[i].cand

SkippedOnQuota(p) ==
    \E i \in DOMAIN trail : trail[i].cand = p /\ trail[i].kind = "skipped_quota"
Asked(p) == \E i \in DOMAIN trail : trail[i].cand = p /\ trail[i].sent

(* The breaker hears of every candidate that was asked and left behind,      *)
(* unless the retry's reservation was refused in between.                    *)
AskedIsReported ==
    \A p \in Positions :
        (Asked(p) /\ (p < pos \/ pc \in {"served", "failed"}))
            => reports[p] # "none" \/ SkippedOnQuota(p)

(* The client is told of the last failure, or of the kind of skip: quota     *)
(* when any candidate was skipped on quota, an outage otherwise.             *)
ErrorIsHonest ==
    pc = "failed" =>
        LET failures == {i \in DOMAIN trail : trail[i].kind = "error"}
        IN  IF failures = {}
            THEN outcome.cand = 0 /\ outcome.error = SkipError
            ELSE \E i \in failures :
                    /\ \A j \in failures : j <= i
                    /\ outcome.error = trail[i].error /\ outcome.cand = trail[i].cand

(* Every reservation is settled once its call is over: only a stream that is *)
(* closed under it keeps one.                                                *)
SettledAfterTheCall == held => pc \in {"flight", "gone"}

(* A retry never takes the attempt that a failover would need, and a message *)
(* with a candidate left to ask never costs more than MAX_ATTEMPTS requests, *)
(* through every mix of skips, re-fits, retries and failovers                *)
(* (_retry_would_starve_failover).  The cap itself is AttemptsAreCapped.     *)
FailoverIsNotStarved ==
    RouterTypeOK /\ RetryYieldsTheLastAttempt /\ OnlyTheLastRetryGoesOver

(* A candidate is asked again, or the question taken to the next, only where *)
(* the error class allows it, and never to the candidate whose text is       *)
(* already on screen (Router._stream, errors.py's flags).                    *)
RetriesAreEarned == FlagsRespected /\ RestartMovesOn

(* When the turn is over its books agree with what happened: attempts are    *)
(* round trips, the breaker heard of every candidate asked, each reservation *)
(* is settled, and the client's error is the last one met.                   *)
BooksAgree ==
    AttemptsAreRoundTrips /\ AskedIsReported /\ ErrorIsHonest /\ SettledAfterTheCall

=============================================================================
