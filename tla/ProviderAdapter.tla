-------------------------- MODULE ProviderAdapter --------------------------
(***************************************************************************)
(* One call at a time through an adapter: HttpProviderAdapter._request and *)
(* _stream_events of providers/base.py under complete, stream and          *)
(* validate_key, together with the part of route and route_stream that     *)
(* drives them: the first-token budget, the wait for the consumer between  *)
(* deltas, and the drain of the quota hint.                                *)
(*                                                                         *)
(* The provider writes SSE lines when it likes, sends keepalives for ever, *)
(* closes or drops the connection between any two lines, even half way     *)
(* through a frame.  The event loop reads a line as soon as there is one,  *)
(* so time passes only while the wire is empty or while the consumer of    *)
(* the stream (a client that reads slowly) holds a delta.                  *)
(***************************************************************************)
EXTENDS ProviderReply, SequencesExt

CONSTANTS
    Calls,        \* of {"complete", "stream", "validate"}
    Frames,       \* Frames[p]: what provider p may put in a stream
    Bodies,       \* Bodies[p]: the bodies of its 200 answers
    Errors,       \* Errors[p]: its HTTP errors
    Announces,    \* providers whose responses carry rate-limit headers
    MaxFrames,    \* bound on the frames of one stream
    IdleTimeout,  \* DEFAULT_IDLE_TIMEOUT_S, in ticks
    FirstToken,   \* DEFAULT_FIRST_TOKEN_TIMEOUT_S, in ticks
    Estimate      \* estimate_tokens of the payload

DoneFrame == [done |-> TRUE]

ASSUME AdapterAssumption ==
    /\ Calls \subseteq {"complete", "stream", "validate"}
    /\ Announces \subseteq Providers \ {"gemini"}
    /\ MaxFrames \in Nat /\ IdleTimeout \in Nat \ {0} /\ FirstToken \in Nat \ {0}
    /\ Estimate \in Nat \ {0}
    /\ \A q \in Providers :
           /\ Frames[q] \subseteq Decoded \cup {DoneFrame} /\ Bodies[q] \subseteq Decoded
           /\ Errors[q] \subseteq {err \in HttpErrors : Plausible(err.wait)}

VARIABLES
    call,     \* the kind of request at hand
    p,        \* the provider called
    pc,       \* "idle", "calling", "reading", "held", "ended"
    hint,     \* _quota_hint_var where the router runs: "none", "mine", "stale"
    carried,  \* the response at hand had rate-limit headers
    applied,  \* what the drain after the call handed to apply_hint
    reply,    \* the HTTP error or the 200 body received, NoReply before
    outcome,  \* "none", "ok", an error class, "abandoned", or a key's verdict
    spent,    \* the Usage of the attempt
    wait,     \* retry_after_s of the error
    up,       \* the connection: "open", "closed", "cut"
    wire,     \* lines written and not yet read
    part,     \* the line the provider must write next to finish an event
    left,     \* frames it may still send
    written,  \* frames it has written in full
    buffer,   \* data_lines of _stream_events
    quiet,    \* ticks since deadline was last set
    silent,   \* ticks spent waiting since the provider last wrote a data line
    waited,   \* ticks since the first __anext__
    first,    \* ttft_ms is set
    read,     \* frames the adapter has decoded
    got       \* deltas handed to the consumer

netVars == <<up, wire, part, left, written>>
readVars == <<buffer, quiet, waited, first, read, got>>
callVars == <<call, p, reply, outcome, spent, wait>>
hintVars == <<hint, carried, applied>>
vars == <<pc, netVars, silent, readVars, callVars, hintVars>>

NoReply == [none |-> TRUE]
NoLine == [kind |-> "nothing"]
BlankLine == [kind |-> "blank"]
Noise == [kind |-> "noise"]     \* a comment, or a field other than data
DataLine(f, piece) == [kind |-> "data", frame |-> f, piece |-> piece]
FreeUsage == [in |-> 0, out |-> 0, estimated |-> TRUE]

Init ==
    /\ pc = "idle" /\ call \in Calls /\ p \in Providers
    /\ hint = "none" /\ carried = FALSE /\ applied = "none"
    /\ reply = NoReply /\ outcome = "none" /\ spent = FreeUsage /\ wait = NoWait
    /\ up = "closed" /\ wire = <<>> /\ part = NoLine /\ left = 0 /\ written = <<>>
    /\ buffer = <<>> /\ quiet = 0 /\ silent = 0 /\ waited = 0 /\ first = FALSE
    /\ read = <<>> /\ got = <<>>

---------------------------------------------------------------------------
(* A call starts and ends                                                  *)

(* The router's next attempt of the same request, on the same or on        *)
(* another provider; each starts with nothing of the last but the hint.    *)
(* route runs in the request's own context.  route_stream runs in a new    *)
(* task, with a copy of the orchestrator's context, for every event asked  *)
(* of it (orchestrator.py), so an attempt never inherits a hint.           *)
Fresh(kind, q) ==
    /\ call' = kind /\ p' = q /\ pc' = "calling"
    /\ carried' = FALSE /\ applied' = "none"
    /\ reply' = NoReply /\ outcome' = "none" /\ spent' = FreeUsage /\ wait' = NoWait
    /\ up' = "closed" /\ wire' = <<>> /\ part' = NoLine /\ written' = <<>> /\ left' = MaxFrames
    /\ buffer' = <<>> /\ quiet' = 0 /\ silent' = 0 /\ waited' = 0 /\ first' = FALSE
    /\ read' = <<>> /\ got' = <<>>

NextAttempt(q) ==
    /\ pc = "idle" /\ call # "validate"
    /\ Fresh(call, q)
    /\ hint' = IF call = "complete" /\ hint # "none" THEN "stale" ELSE "none"

NewRequest(kind, q) == pc = "idle" /\ Fresh(kind, q) /\ hint' = "none"

(* publish_hint: a response without headers leaves the variable alone.     *)
Publish ==
    \E headers \in BOOLEAN :
        /\ headers => p \in Announces
        /\ carried' = headers
        /\ hint' = IF headers THEN "mine" ELSE hint


(* take_hint.                                                              *)
TakeHint == hint' = "none"

(* The attempt is over: the router drains the hint (_reconcile_hint).  A   *)
(* key check has no router behind it.                                      *)
Settle ==
    /\ pc = "ended"
    /\ IF call = "validate" THEN UNCHANGED <<hint, applied>>
       ELSE applied' = hint /\ TakeHint
    /\ pc' = "idle"
    /\ UNCHANGED <<netVars, silent, readVars, callVars, carried>>

Ends(result) == outcome' = result /\ pc' = "ended"

(* A transport failure: no response, nothing published.                    *)
TransportFails ==
    /\ pc = "calling"
    /\ Ends("unavailable")
    /\ UNCHANGED <<netVars, silent, readVars, hintVars, call, p, reply, spent, wait>>

(* An HTTP error answers a completion or opens a stream.                   *)
RespondError(err) ==
    /\ pc = "calling" /\ call # "validate"
    /\ Publish /\ reply' = err
    /\ wait' = IF Classify(p, err) = "rate_limited" THEN RetryAfter(p, err) ELSE NoWait
    /\ Ends(Classify(p, err))
    /\ UNCHANGED <<netVars, silent, readVars, call, p, spent, applied>>

(* complete, on a 200.                                                     *)
Complete(e) ==
    /\ pc = "calling" /\ call = "complete"
    /\ Publish /\ reply' = e
    /\ Ends(ReadBody(p, e))
    /\ spent' = IF e.usage # NoUsage THEN Measured(p, e.usage)
                ELSE UsageEstimated(e, Estimate)
    /\ UNCHANGED <<netVars, silent, readVars, call, p, wait, applied>>

CheckKey ==
    /\ pc = "calling" /\ call = "validate"
    /\ Publish
    /\ \/ Ends("valid") /\ UNCHANGED reply
       \/ \E err \in Errors[p] : reply' = err /\ Ends(ValidateKey(p, err))
    /\ UNCHANGED <<netVars, silent, readVars, call, p, spent, wait, applied>>

---------------------------------------------------------------------------
(* The provider's side of a stream                                         *)

Connect ==
    /\ pc = "calling" /\ call = "stream"
    /\ Publish
    /\ up' = "open" /\ pc' = "reading"
    /\ UNCHANGED <<wire, part, left, written, silent, readVars, callVars, applied>>

Writes(line) ==
    /\ up = "open" /\ wire = <<>> /\ pc \in {"reading", "held"}
    /\ wire' = <<line>>
    /\ UNCHANGED <<pc, up, readVars, callVars, hintVars>>

(* A frame on one data line, or the first of its two.                      *)
WriteFrame(f, piece) ==
    /\ left > 0 /\ part = NoLine
    /\ Writes(DataLine(f, piece))
    /\ silent' = 0
    /\ left' = IF f = DoneFrame THEN 0 ELSE left - 1
    /\ part' = IF piece = "whole" THEN BlankLine ELSE DataLine(f, "tail")
    /\ written' = IF piece = "whole" THEN Append(written, f) ELSE written

(* What completes the event: the second data line, then the blank one.     *)
WriteRest ==
    /\ part # NoLine
    /\ Writes(part)
    /\ IF part = BlankLine
       THEN part' = NoLine /\ UNCHANGED <<silent, written>>
       ELSE part' = BlankLine /\ silent' = 0 /\ written' = Append(written, part.frame)
    /\ UNCHANGED left

KeepAlive == Writes(Noise) /\ UNCHANGED <<part, left, written, silent>>

Hangs(how) ==
    /\ up = "open" /\ up' = how
    /\ UNCHANGED <<pc, wire, part, left, written, silent, readVars, callVars, hintVars>>

---------------------------------------------------------------------------
(* The adapter's side                                                      *)

(* The payload an event's data lines join to: a frame, or no JSON at all.  *)
Assembles(lines, f) ==
    \/ lines = <<DataLine(f, "whole")>>
    \/ lines = <<DataLine(f, "head"), DataLine(f, "tail")>>
Garbage == [garbage |-> TRUE]
Payload(lines) ==
    IF Assembles(lines, Head(lines).frame) THEN Head(lines).frame ELSE Garbage

(* route_stream after the adapter's generator returned.                    *)
Finished ==
    /\ Ends(IF got = <<>> THEN "empty_response" ELSE "ok")
    /\ spent' = IF spent # FreeUsage THEN spent
                ELSE [in |-> Estimate, out |-> Len(got) \div AdapterCharsPerToken,
                      estimated |-> TRUE]
    /\ UNCHANGED <<read, got, first>>

(* A decoded frame goes through the adapter's stream and route_stream: an  *)
(* error ends the attempt, an empty delta is passed over, any other waits  *)
(* for the consumer.                                                       *)
Deliver(f) ==
    LET seen == IF f = Garbage THEN "unavailable" ELSE ReadFrame(p, f) IN
    /\ read' = IF f = Garbage THEN read ELSE Append(read, f)
    /\ \/ seen = "skip" /\ pc' = "reading" /\ UNCHANGED <<outcome, spent, got, first>>
       \/ /\ seen = "chunk" /\ first' = TRUE
          /\ spent' = IF f.usage # NoUsage THEN Measured(p, f.usage) ELSE spent
          /\ IF Delta(f) = "" THEN pc' = "reading" /\ got' = got
             ELSE pc' = "held" /\ got' = Append(got, Delta(f))
          /\ UNCHANGED outcome
       \/ seen \notin {"skip", "chunk"} /\ Ends(seen) /\ UNCHANGED <<spent, got, first>>

Reads(kind) ==
    /\ pc = "reading" /\ wire # <<>> /\ quiet < IdleTimeout
    /\ Head(wire).kind = kind
    /\ wire' = Tail(wire)
    /\ UNCHANGED <<up, part, left, written, silent, waited, call, p, reply, wait, hintVars>>

(* Slip: any line is taken for progress.                                   *)
ReadNoiseAsProgress ==
    Reads("noise") /\ quiet' = 0 /\ UNCHANGED <<pc, buffer, first, read, got, outcome, spent>>

(* Neither a comment nor another field moves the deadline.                 *)
ReadNoise == Reads("noise") /\ UNCHANGED <<pc, buffer, quiet, first, read, got, outcome, spent>>

ReadData ==
    /\ Reads("data")
    /\ buffer' = Append(buffer, Head(wire)) /\ quiet' = 0
    /\ UNCHANGED <<pc, first, read, got, outcome, spent>>

ReadBlank ==
    /\ Reads("blank")
    /\ buffer' = <<>> /\ UNCHANGED quiet
    /\ \/ buffer = <<>> /\ UNCHANGED <<pc, first, read, got, outcome, spent>>
       \/ buffer # <<>> /\ Payload(buffer) = DoneFrame /\ Finished
       \/ buffer # <<>> /\ Payload(buffer) # DoneFrame /\ Deliver(Payload(buffer))

(* Slip: what no blank line terminated is dropped.                         *)
ReadEndDropping ==
    /\ pc = "reading" /\ wire = <<>> /\ up = "closed"
    /\ buffer' = <<>> /\ Finished
    /\ UNCHANGED <<netVars, silent, quiet, waited, call, p, reply, wait, hintVars>>

(* The connection closed: a pending event is still surfaced, the next      *)
(* __anext__ finds the end.                                                *)
ReadEnd ==
    /\ pc = "reading" /\ wire = <<>> /\ up = "closed" /\ quiet < IdleTimeout
    /\ buffer' = <<>>
    /\ IF buffer = <<>> \/ Payload(buffer) = DoneFrame THEN Finished ELSE Deliver(Payload(buffer))
    /\ UNCHANGED <<netVars, silent, quiet, waited, call, p, reply, wait, hintVars>>

Fails(result) ==
    /\ Ends(result)
    /\ UNCHANGED <<netVars, silent, readVars, call, p, reply, spent, wait, hintVars>>

(* The connection was cut (httpx.HTTPError mid-stream).                    *)
ReadFault == pc = "reading" /\ wire = <<>> /\ up = "cut" /\ Fails("unavailable")

(* Slip: the deadline is looked at only when a line or the end arrives.    *)
IdleStallOnLine ==
    pc = "reading" /\ (wire # <<>> \/ up # "open") /\ quiet >= IdleTimeout /\ Fails("unavailable")

(* The idle deadline: looked at before a line is waited for, so also when  *)
(* a line is there.                                                        *)
IdleStall == pc = "reading" /\ quiet >= IdleTimeout /\ Fails("unavailable")

(* wait_for around the first __anext__.                                    *)
FirstTokenStall ==
    /\ call = "stream" /\ pc \in {"calling", "reading"} /\ ~first /\ waited >= FirstToken
    /\ Fails("unavailable")

(* The consumer asks for the next event: a new task, so a new context.     *)
AskNext ==
    /\ pc = "held" /\ pc' = "reading" /\ hint' = "none"
    /\ UNCHANGED <<netVars, silent, readVars, callVars, carried, applied>>

(* The consumer closes the stream (aclose): nothing is reconciled.         *)
Abandon ==
    /\ pc = "held" /\ pc' = "idle" /\ outcome' = "abandoned" /\ hint' = "none"
    /\ UNCHANGED <<netVars, silent, readVars, call, p, reply, spent, wait, carried, applied>>

---------------------------------------------------------------------------
(* Time, saturating at the bounds it is compared with                      *)

AtMost(n, bound) == IF n < bound THEN n ELSE bound

Tick ==
    /\ call = "stream"
    /\ \/ pc = "calling" \/ pc = "held"
       \/ pc = "reading" /\ wire = <<>> /\ up = "open" /\ quiet < IdleTimeout
    /\ ~(pc # "held" /\ ~first /\ waited >= FirstToken)
    /\ quiet' = IF pc = "calling" THEN quiet ELSE AtMost(quiet + 1, IdleTimeout)
    /\ silent' = IF pc = "reading" THEN AtMost(silent + 1, IdleTimeout + 1) ELSE silent
    /\ waited' = AtMost(waited + 1, FirstToken)
    /\ UNCHANGED <<pc, netVars, buffer, first, read, got, callVars, hintVars>>

Reader == ReadNoise \/ ReadData \/ ReadBlank \/ ReadEnd \/ ReadFault
Timeout == IdleStall \/ FirstTokenStall

Next ==
    \/ \E q \in Providers : NextAttempt(q) \/ \E kind \in Calls : NewRequest(kind, q)
    \/ Settle \/ TransportFails \/ CheckKey \/ Connect
    \/ \E err \in Errors[p] : RespondError(err)
    \/ \E e \in Bodies[p] : Complete(e)
    \/ \E f \in Frames[p], piece \in {"whole", "head"} : WriteFrame(f, piece)
    \/ WriteRest \/ KeepAlive \/ Hangs("closed") \/ Hangs("cut")
    \/ Reader \/ Timeout \/ AskNext \/ Abandon \/ Tick

Spec == Init /\ [][Next]_vars

(* The event loop runs what is ready, a call that is not answered meets    *)
(* httpx's own timeout, the consumer asks again or goes away, and time     *)
(* passes even between keepalives.  The provider owes nothing.             *)
Fairness ==
    /\ WF_vars(Settle) /\ WF_vars(Reader) /\ WF_vars(Timeout) /\ WF_vars(AskNext)
    /\ WF_vars(TransportFails)
    /\ SF_vars(Tick)
FairSpec == Spec /\ Fairness

---------------------------------------------------------------------------
(* Properties                                                              *)

ErrorClasses == {"rate_limited", "unavailable", "auth_failed", "bad_request",
                 "context_too_long", "content_filtered", "empty_response"}

(* Every variable has its type: parse_error and the readers of a body      *)
(* answer with one of the seven normalized classes whatever came back.     *)
AdapterTypeOK ==
    /\ call \in Calls /\ p \in Providers
    /\ pc \in {"idle", "calling", "reading", "held", "ended"}
    /\ hint \in {"none", "mine", "stale"} /\ applied \in {"none", "mine", "stale"}
    /\ outcome \in {"none", "ok", "abandoned", "valid", "invalid"} \cup ErrorClasses
    /\ up \in {"open", "closed", "cut"} /\ Len(wire) <= 1
    /\ quiet \in 0..IdleTimeout /\ waited \in 0..FirstToken /\ left \in 0..MaxFrames
    /\ wait \in Nat \cup {NoWait} /\ Len(buffer) <= 2

(* A refusal is terminal wherever the provider puts it: a block reason, a  *)
(* finish reason or a filter code in a 200 body or in any frame of a       *)
(* stream (after deltas too), and all of them behind an HTTP status.  It   *)
(* never becomes an error that fails over or an answer.  But for one:      *)
(* OpenRouter's moderation inside a 200, which _classify looks for only    *)
(* behind status 403, is "unavailable" and does fail over.                 *)
RefusalIsRead ==
    /\ (\E i \in 1..Len(read) : Refuses(p, read[i]) /\ ~Moderates(p, read[i]))
           => outcome = "content_filtered"
    /\ call = "complete" /\ outcome # "none" /\ reply # NoReply /\ "object" \in DOMAIN reply =>
           (Refuses(p, reply) /\ ~Moderates(p, reply) => outcome = "content_filtered")
    /\ call # "validate" /\ "status" \in DOMAIN reply =>
           (RefusesByStatus(p, reply) => outcome = "content_filtered")

(* A provider that asks the gateway to wait is heard as rate limited, and  *)
(* the wait is the one it asked for whichever unit it was announced in: a  *)
(* header, a Go duration, a protobuf duration in the body, a timestamp in  *)
(* milliseconds or seconds.                                                *)
WaitIsTheProviders ==
    call # "validate" /\ "status" \in DOMAIN reply =>
        /\ AsksToWait(p, reply) => outcome = "rate_limited"
        /\ wait # NoWait => outcome = "rate_limited" /\ wait = reply.wait.s

(* A stream that ends well delivered every frame the provider wrote, in    *)
(* order and whole, up to the [DONE] or the close that ended it; one that  *)
(* ends half way through a frame never ends well.                          *)
WholeOrError ==
    /\ IsPrefix(read, written)
    /\ outcome = "ok" /\ call = "stream" =>
           /\ written \in {read, Append(read, DoneFrame)} /\ DoneFrame \notin Range(read)
           /\ part.kind # "data"

(* A provider that stops generating is given up on after IdleTimeout, no   *)
(* matter how many keepalive comments it sends meanwhile.                  *)
SilenceIsBounded == silent <= IdleTimeout

(* An answer is charged what the provider billed for it, thinking tokens   *)
(* included: a stream by the last of its reports.  It is charged an        *)
(* estimate, marked as one, only when nothing was reported, and its prompt *)
(* is then never free.                                                     *)
Reports == {i \in DOMAIN read : read[i].object /\ read[i].usage # NoUsage}
ByLastReport ==
    \E i \in Reports : (\A j \in Reports : j <= i) /\ spent = Measured(p, read[i].usage)
ChargedAsBilled ==
    outcome = "ok" =>
        /\ spent.estimated => spent.in = Estimate
        /\ call = "complete" => spent.estimated = (reply.usage = NoUsage)
        /\ call = "complete" /\ ~spent.estimated =>
               spent.in + spent.out =
                   reply.usage.in + reply.usage.out + (IF p = "gemini" THEN reply.usage.thoughts ELSE 0)
        /\ call = "stream" => IF Reports = {} THEN spent.estimated ELSE ByLastReport

(* What the drain after an attempt hands to the quota tracker was          *)
(* published by that attempt's own response, never left over from the      *)
(* attempt before it on another provider.                                  *)
HintIsOwn == applied # "none" => applied = "mine" /\ carried

(* validate_key condemns a key only when the provider rejected it; every   *)
(* other failure is raised.                                                *)
KeyVerdictIsEarned ==
    call = "validate" /\ outcome = "invalid" => RejectsTheKey(p, reply)

(* Every call comes to an end, whatever the provider sends or keeps back.  *)
CallsEnd == []<>(pc \in {"ended", "idle"})

(* What an adapter makes of a reply is what the provider meant, in         *)
(* whichever place and unit it said it: a refusal is final but for         *)
(* OpenRouter's moderation inside a 200 (Moderates), a wait is             *)
(* honoured, an answer is charged as billed, a hint is the attempt's own,  *)
(* and a key is condemned only by a rejection (parse_error,                *)
(* parse_response, finish, validate_key).                                  *)
ReadsTheReply ==
    /\ AdapterTypeOK /\ RefusalIsRead /\ WaitIsTheProviders
    /\ ChargedAsBilled /\ HintIsOwn /\ KeyVerdictIsEarned

=============================================================================
