---------------------------- MODULE ChatEndpoint ----------------------------
(***************************************************************************)
(* Requests to POST /v1/chat/completions that carry one Idempotency-Key    *)
(* (or none): the claim of cache/idempotency.py, the turn served by        *)
(* api/v1/chat.py, the exact cache, and the rows written by the endpoint   *)
(* or, for a stream, by the collector after the endpoint has returned.     *)
(* Each await that another request or a failure can come between is a      *)
(* step.  An answer is named by the request whose provider call wrote it.  *)
(* Each request opens a conversation of its own, so that the history which *)
(* request_hash folds in is its question.                                  *)
(***************************************************************************)
EXTENDS Naturals, FiniteSets

CONSTANTS
    Requests,   \* the calls of the client, each sent once
    Questions,  \* what they ask: all that request_hash folds in
    Bodies,     \* what they carry: a question, and whether to stream the answer
    Cacheable,  \* the questions asked at temperature 0
    MaxFaults   \* lost Redis commands, failed transactions, dead processes

ASSUME BodiesAssumption ==
    Bodies # {} /\ Bodies \subseteq [q : Questions, stream : BOOLEAN]
ASSUME CacheableAssumption == Cacheable \subseteq Questions
ASSUME FaultsAssumption == MaxFaults \in Nat

VARIABLES
    env,       \* the envelope at idem:{user_id}:{idem_key}
    cache,     \* cache:exact:{sha256}, by question
    pc,        \* the place of each request
    body,      \* what each request asks, and whether as a stream
    ticket,    \* who holds a ClaimTicket
    got,       \* the answer each request has in hand
    row,       \* the assistant row each request committed
    dirty,     \* the answers that were degraded or truncated
    faults,    \* how many more things may go wrong
    ended,     \* how each request ended: answered, with an error, or cut off
    \* History: who went ahead without having set the key, whose ticket was
    \* dropped, and who stored a turn under the key since it last expired.
    orphans, dropped, turns

vars == <<env, cache, pc, body, ticket, got, row, dirty, faults, ended,
          orphans, dropped, turns>>

NoRequest == "none"
ASSUME RequestsAssumption == NoRequest \notin Requests
Answers == Requests \cup {NoRequest}
NoEnvelope == [state |-> "absent", fp |-> CHOOSE b \in Bodies : TRUE,
               owner |-> NoRequest, ans |-> NoRequest]

Serving == {"resolve", "read", "call", "row", "stream", "play", "append", "put",
            "complete", "commit", "fail", "release"}

Init ==
    /\ env = NoEnvelope
    /\ cache = [q \in Questions |-> NoRequest]
    /\ pc = [r \in Requests |-> "arrive"]
    /\ body \in [Requests -> Bodies]
    /\ ticket = [r \in Requests |-> FALSE]
    /\ got = [r \in Requests |-> NoRequest]
    /\ row = [r \in Requests |-> NoRequest]
    /\ dirty = {} /\ faults = MaxFaults
    /\ ended = [r \in Requests |-> "no"]
    /\ orphans = {} /\ dropped = {} /\ turns = {}

Goto(r, label) == pc' = [pc EXCEPT ![r] = label]
End(r, how) == Goto(r, "over") /\ ended' = [ended EXCEPT ![r] = how]
Hit(r) == got[r] # r              \* the answer in hand came from the cache
Live(r) == body[r].stream /\ ~Hit(r)
Fault == faults > 0 /\ faults' = faults - 1
(* The fingerprint is of the whole body.                                     *)
Fingerprint(r) == body[r]


Envelope(r, state) ==
    [state |-> state, fp |-> Fingerprint(r), owner |-> r,
     ans |-> IF state = "done" THEN got[r] ELSE NoRequest]

-----------------------------------------------------------------------------
(* The gate of create_chat_completion: SET NX, and on collision a GET.       *)

NoKey(r) ==
    /\ pc[r] = "arrive"
    /\ Goto(r, "resolve")
    /\ UNCHANGED <<env, cache, body, ticket, got, row, dirty, faults, ended,
                   orphans, dropped, turns>>

(* Slip: the claim a GET and then a SET, as the docstring warns.             *)
ClaimBlind(r) ==
    /\ pc[r] = "arrive" /\ env.state # "done"
    /\ env' = Envelope(r, "in_flight")
    /\ ticket' = [ticket EXCEPT ![r] = TRUE]
    /\ Goto(r, "resolve")
    /\ UNCHANGED <<cache, body, got, row, dirty, faults, ended, orphans, dropped, turns>>

Claim(r) ==
    /\ pc[r] = "arrive" /\ env.state = "absent"
    /\ env' = Envelope(r, "in_flight")
    /\ ticket' = [ticket EXCEPT ![r] = TRUE]
    /\ Goto(r, "resolve")
    /\ UNCHANGED <<cache, body, got, row, dirty, faults, ended, orphans, dropped, turns>>

Taken(r) ==
    /\ pc[r] = "arrive" /\ env.state # "absent"
    /\ Goto(r, "get")
    /\ UNCHANGED <<env, cache, body, ticket, got, row, dirty, faults, ended,
                   orphans, dropped, turns>>

(* The holder released or the key expired in between: claimed all the same.  *)
Vanished(r) ==
    /\ pc[r] = "get" /\ env.state = "absent"
    /\ ticket' = [ticket EXCEPT ![r] = TRUE] /\ orphans' = orphans \cup {r}
    /\ Goto(r, "resolve")
    /\ UNCHANGED <<env, cache, body, got, row, dirty, faults, ended, dropped, turns>>


Matches(r) == env.fp = Fingerprint(r)

(* 409: another request's key, or the same request still being served.       *)
Conflict(r) ==
    /\ pc[r] = "get" /\ env.state # "absent"
    /\ ~Matches(r) \/ env.state = "in_flight"
    /\ End(r, "refused")
    /\ UNCHANGED <<env, cache, body, ticket, got, row, dirty, faults,
                   orphans, dropped, turns>>

FindsDone(r) ==
    /\ pc[r] = "get" /\ env.state = "done" /\ Matches(r)
    /\ got' = [got EXCEPT ![r] = env.ans]
    /\ Goto(r, "replay")
    /\ UNCHANGED <<env, cache, body, ticket, row, dirty, faults, ended,
                   orphans, dropped, turns>>

(* Fail open: a Redis error or an envelope that cannot be parsed.  The SET   *)
(* may have taken effect though its answer was lost.                         *)
FailsOpen(r) ==
    /\ Fault
    /\ \/ pc[r] \in {"arrive", "get"} /\ UNCHANGED env /\ orphans' = orphans \cup {r}
       \/ pc[r] = "arrive" /\ env.state = "absent"
             /\ env' = Envelope(r, "in_flight") /\ UNCHANGED orphans
    /\ ticket' = [ticket EXCEPT ![r] = TRUE]
    /\ Goto(r, "resolve")
    /\ UNCHANGED <<cache, body, got, row, dirty, ended, dropped, turns>>

(* The SET takes effect, its answer is lost and the Redis client sends it    *)
(* again: the key is taken, by the very request that goes on to the GET.     *)
Resent(r) ==
    /\ pc[r] = "arrive" /\ env.state = "absent" /\ Fault
    /\ env' = Envelope(r, "in_flight") /\ dropped' = dropped \cup {r}
    /\ Goto(r, "get")
    /\ UNCHANGED <<cache, body, ticket, got, row, dirty, ended, orphans, turns>>

(* _serve_replay: only the requests row; as a stream or as a body.           *)
Replay(r) ==
    /\ pc[r] = "replay"
    /\ End(r, "answered")
    /\ UNCHANGED <<env, cache, body, ticket, got, row, dirty, faults,
                   orphans, dropped, turns>>

(* An envelope this version cannot turn back: served, but the key is left    *)
(* to its owner.                                                             *)
Unreplayable(r) ==
    /\ pc[r] = "replay" /\ Fault
    /\ got' = [got EXCEPT ![r] = NoRequest] /\ orphans' = orphans \cup {r}
    /\ Goto(r, "resolve")
    /\ UNCHANGED <<env, cache, body, ticket, row, dirty, ended, dropped, turns>>

-----------------------------------------------------------------------------
(* _serve_completion, up to the answer.                                      *)

(* The conversation and the files are the caller's: the inbound turn is      *)
(* committed.                                                                *)
Resolve(r) ==
    /\ pc[r] = "resolve"
    /\ Goto(r, "read")
    /\ UNCHANGED <<env, cache, body, ticket, got, row, dirty, faults, ended,
                   orphans, dropped, turns>>

(* A 404 or a 400 instead, RoutingFailed before the first byte, or a stream  *)
(* that ends before it because its reader has gone.                          *)
TurnFails(r) ==
    /\ pc[r] \in {"resolve", "call"}
    /\ Goto(r, "release")
    /\ UNCHANGED <<env, cache, body, ticket, got, row, dirty, faults, ended,
                   orphans, dropped, turns>>

ReadHit(r) ==
    /\ pc[r] = "read" /\ body[r].q \in Cacheable /\ cache[body[r].q] # NoRequest
    /\ got' = [got EXCEPT ![r] = cache[body[r].q]]
    /\ Goto(r, IF body[r].stream THEN "play" ELSE "row")
    /\ UNCHANGED <<env, cache, body, ticket, row, dirty, faults, ended,
                   orphans, dropped, turns>>

(* MISS, BYPASS, or a cache that does not answer.                            *)
ReadMiss(r) ==
    /\ pc[r] = "read"
    /\ IF body[r].q \in Cacheable /\ cache[body[r].q] # NoRequest
       THEN Fault ELSE UNCHANGED faults
    /\ Goto(r, "call")
    /\ UNCHANGED <<env, cache, body, ticket, got, row, dirty, ended,
                   orphans, dropped, turns>>

(* route returns; clean: neither degraded nor truncated.                     *)
Answered(r, clean) ==
    /\ pc[r] = "call" /\ ~body[r].stream
    /\ got' = [got EXCEPT ![r] = r]
    /\ dirty' = IF clean THEN dirty ELSE dirty \cup {r}
    /\ Goto(r, "row")
    /\ UNCHANGED <<env, cache, body, ticket, row, faults, ended, orphans, dropped, turns>>

(* The first frame is in hand: the endpoint returns the StreamingResponse.   *)
FirstFrame(r) ==
    /\ pc[r] = "call" /\ body[r].stream
    /\ Goto(r, "stream")
    /\ UNCHANGED <<env, cache, body, ticket, got, row, dirty, faults, ended,
                   orphans, dropped, turns>>

StreamDone(r, clean) ==
    /\ pc[r] = "stream"
    /\ got' = [got EXCEPT ![r] = r]
    /\ dirty' = IF clean THEN dirty ELSE dirty \cup {r}
    /\ Goto(r, "append")
    /\ UNCHANGED <<env, cache, body, ticket, row, faults, ended, orphans, dropped, turns>>

(* done says failed, in band: _persist_failure.                              *)
StreamFails(r) ==
    /\ pc[r] = "stream"
    /\ Goto(r, "fail")
    /\ UNCHANGED <<env, cache, body, ticket, got, row, dirty, faults, ended,
                   orphans, dropped, turns>>

(* stream_cached_completion has yielded its last frame.                      *)
Played(r) ==
    /\ pc[r] = "play"
    /\ Goto(r, "row")
    /\ UNCHANGED <<env, cache, body, ticket, got, row, dirty, faults, ended,
                   orphans, dropped, turns>>

-----------------------------------------------------------------------------
(* Persistence.  The endpoint and a cache hit commit, then cache, then       *)
(* complete the claim; the collector of a live stream does so inside its     *)
(* transaction, and commits last.                                            *)

(* Slip: a cache hit leaves no row of its own, as a replay does.             *)
StoreMissOnly(r) ==
    /\ row' = IF Hit(r) THEN row ELSE [row EXCEPT ![r] = got[r]]
    /\ turns' = IF ticket[r] THEN turns \cup {r} ELSE turns

Store(r) ==
    /\ row' = [row EXCEPT ![r] = got[r]]
    /\ turns' = IF ticket[r] THEN turns \cup {r} ELSE turns

StoreRow(r) ==
    /\ pc[r] = "row"
    /\ Store(r)
    /\ Goto(r, IF Hit(r) THEN "complete" ELSE "put")
    /\ UNCHANGED <<env, cache, body, ticket, got, dirty, faults, ended, orphans, dropped>>

Append(r) ==
    /\ pc[r] = "append"
    /\ Goto(r, "put")
    /\ UNCHANGED <<env, cache, body, ticket, got, row, dirty, faults, ended,
                   orphans, dropped, turns>>

(* Slip: a live stream cached without the second half of is_cacheable.       *)
MayCacheEarly(r) == body[r].q \in Cacheable /\ (Live(r) \/ r \notin dirty)

MayCache(r) == body[r].q \in Cacheable /\ r \notin dirty

(* cache.put, which shrugs a Redis error off.                                *)
Put(r) ==
    /\ pc[r] = "put"
    /\ \/ MayCache(r) /\ cache' = [cache EXCEPT ![body[r].q] = r] /\ UNCHANGED faults
       \/ ~MayCache(r) /\ UNCHANGED <<cache, faults>>
       \/ MayCache(r) /\ Fault /\ UNCHANGED cache
    /\ Goto(r, "complete")
    /\ UNCHANGED <<env, body, ticket, got, row, dirty, ended, orphans, dropped, turns>>

(* ticket.complete: an unconditional SET.                                    *)
Complete(r) ==
    /\ pc[r] = "complete"
    /\ env' = IF ticket[r] THEN Envelope(r, "done") ELSE env
    /\ IF Live(r) THEN Goto(r, "commit") /\ UNCHANGED ended ELSE End(r, "answered")
    /\ UNCHANGED <<cache, body, ticket, got, row, dirty, faults, orphans, dropped, turns>>

Commit(r) ==
    /\ pc[r] = "commit"
    /\ Store(r)
    /\ End(r, "answered")
    /\ UNCHANGED <<env, cache, body, ticket, got, dirty, faults, orphans, dropped>>

(* Slip: the collector releases a failed stream's key, the endpoint nothing. *)
ReleaseByCollectorOnly(r) ==
    /\ pc[r] \in {"fail", "release"}
    /\ env' = IF ticket[r] /\ pc[r] = "fail" THEN NoEnvelope ELSE env
    /\ End(r, "refused")
    /\ UNCHANGED <<cache, body, ticket, got, row, dirty, faults, orphans, dropped, turns>>

(* ticket.release: an unconditional DEL, by the endpoint or, for a failure   *)
(* in band, by the collector.                                                *)
Release(r) ==
    /\ pc[r] \in {"fail", "release"}
    /\ env' = IF ticket[r] THEN NoEnvelope ELSE env
    /\ End(r, "refused")
    /\ UNCHANGED <<cache, body, ticket, got, row, dirty, faults, orphans, dropped, turns>>

-----------------------------------------------------------------------------
(* What goes wrong.                                                          *)

Drop(r) == dropped' = IF ticket[r] THEN dropped \cup {r} ELSE dropped

(* complete or release does not reach Redis, and shrugs.                     *)
SettleFails(r) ==
    /\ pc[r] \in {"complete", "fail", "release"} /\ Fault /\ Drop(r)
    /\ IF pc[r] = "complete" /\ Live(r) THEN Goto(r, "commit") /\ UNCHANGED ended
       ELSE End(r, IF pc[r] = "complete" THEN "answered" ELSE "refused")
    /\ UNCHANGED <<env, cache, body, ticket, got, row, dirty, orphans, turns>>

(* The transaction fails: the endpoint raises and releases, the collector's  *)
(* caller logs and swallows.                                                 *)
StoreFails(r) ==
    /\ pc[r] \in {"row", "append", "commit", "fail"} /\ Fault
    /\ IF body[r].stream THEN End(r, "cut") /\ Drop(r)
       ELSE Goto(r, "release") /\ UNCHANGED <<ended, dropped>>
    /\ UNCHANGED <<env, cache, body, ticket, got, row, dirty, orphans, turns>>

(* The reader leaves: the body of the stream is cancelled where it stands,   *)
(* in the collector too, and neither completes nor releases.                 *)
ReaderLeaves(r) ==
    /\ \/ pc[r] \in {"stream", "play", "append", "commit", "fail"}
       \/ pc[r] \in {"row", "put", "complete"} /\ body[r].stream
    /\ End(r, "cut") /\ Drop(r)
    /\ UNCHANGED <<env, cache, body, ticket, got, row, dirty, faults, orphans, turns>>

Dies(r) ==
    /\ pc[r] \in Serving /\ Fault
    /\ End(r, "cut") /\ Drop(r)
    /\ UNCHANGED <<env, cache, body, ticket, got, row, dirty, orphans, turns>>

(* IDEMPOTENCY_TTL_S is a day: no request is under way when the key expires. *)
Expire ==
    /\ env.state # "absent" /\ \A r \in Requests : pc[r] \in {"arrive", "over"}
    /\ env' = NoEnvelope /\ turns' = {}
    /\ UNCHANGED <<cache, pc, body, ticket, got, row, dirty, faults, ended,
                   orphans, dropped>>

(* EXACT_CACHE_TTL_S.                                                        *)
CacheExpires(q) ==
    /\ cache[q] # NoRequest
    /\ cache' = [cache EXCEPT ![q] = NoRequest]
    /\ UNCHANGED <<env, pc, body, ticket, got, row, dirty, faults, ended,
                   orphans, dropped, turns>>

Step(r) ==
    \/ NoKey(r) \/ Claim(r) \/ Taken(r) \/ Vanished(r) \/ Conflict(r) \/ FindsDone(r)
    \/ FailsOpen(r) \/ Resent(r) \/ Replay(r) \/ Unreplayable(r)
    \/ Resolve(r) \/ TurnFails(r) \/ ReadHit(r) \/ ReadMiss(r)
    \/ \E clean \in BOOLEAN : Answered(r, clean) \/ StreamDone(r, clean)
    \/ FirstFrame(r) \/ StreamFails(r) \/ Played(r)
    \/ StoreRow(r) \/ Append(r) \/ Put(r) \/ Complete(r) \/ Commit(r) \/ Release(r)
    \/ SettleFails(r) \/ StoreFails(r) \/ ReaderLeaves(r) \/ Dies(r)

AllOver == (\A r \in Requests : pc[r] = "over") /\ UNCHANGED vars

Next == (\E r \in Requests : Step(r)) \/ Expire \/ (\E q \in Questions : CacheExpires(q))
        \/ AllOver

Spec == Init /\ [][Next]_vars

-----------------------------------------------------------------------------
TypeOK ==
    /\ env \in [state : {"absent", "in_flight", "done"}, fp : Bodies,
                owner : Answers, ans : Answers]
    /\ cache \in [Questions -> Answers]
    /\ pc \in [Requests -> Serving \cup {"arrive", "get", "replay", "over"}]
    /\ body \in [Requests -> Bodies]
    /\ ticket \in [Requests -> BOOLEAN]
    /\ got \in [Requests -> Answers] /\ row \in [Requests -> Answers]
    /\ dirty \subseteq Requests /\ faults \in 0..MaxFaults
    /\ ended \in [Requests -> {"no", "answered", "refused", "cut"}]
    /\ orphans \subseteq Requests /\ dropped \subseteq Requests /\ turns \subseteq Requests

Holds(r) == ticket[r] /\ pc[r] \in Serving

(* "Only SET NX issued first makes one provider call a property": as long as *)
(* nobody went ahead without having set the key, no two of its requests are  *)
(* served at once, and it holds one turn at most.                            *)
OneTurnPerKey ==
    orphans = {} =>
        /\ \A r, s \in Requests : Holds(r) /\ Holds(s) => r = s
        /\ \A r, s \in turns : r = s

(* A key is locked behind a request that is over only where its ticket was   *)
(* dropped: by a reader who left, a lost or resent command, a failed         *)
(* transaction, or a crash.                                                  *)
OnlyDroppedTicketsLock ==
    (env.state = "in_flight" /\ pc[env.owner] = "over") => env.owner \in dropped

(* Whoever gets an answer, from a provider, the cache or a replay, gets one  *)
(* that was written for its own question.                                    *)
AnswersItsQuestion ==
    \A r \in Requests : got[r] # NoRequest => body[got[r]].q = body[r].q

(* A replayable answer is in the transcript, or about to be: but for a       *)
(* stream that was cut between the claim's completion and the commit.        *)
ReplayableIsStored ==
    env.state = "done" =>
        \/ row[env.owner] = env.ans
        \/ pc[env.owner] = "commit"
        \/ ended[env.owner] = "cut"

(* Only whole answers are shared: no path caches a degraded or a truncated   *)
(* one, and so no hit serves one.                                            *)
CachedIsWhole ==
    \A q \in Questions : cache[q] # NoRequest =>
        q \in Cacheable /\ cache[q] \notin dirty /\ body[cache[q]].q = q

(* Whatever replays, cache hits and fresh turns interleave on one key, the   *)
(* answer a caller gets was written for its own question, and one that is    *)
(* shared is whole (api/v1/chat.py, cache/exact.py).                         *)
ServesTheRightAnswer == TypeOK /\ AnswersItsQuestion /\ CachedIsWhole

=============================================================================
