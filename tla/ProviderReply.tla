--------------------------- MODULE ProviderReply ---------------------------
(***************************************************************************)
(* What the three adapters (providers/groq.py, gemini.py, openrouter.py)   *)
(* make of one provider reply.  The body of a 200 and a decoded frame of a *)
(* stream have the same fields, as far as the adapters read them:          *)
(*   object    it parsed as a JSON object                                  *)
(*   block     promptFeedback.blockReason is set (Gemini)                  *)
(*   error     code of a top-level error object, "none" without one        *)
(*   flagged   error.metadata has reasons or flagged_input (OpenRouter)    *)
(*   choice    the first choice or candidate: "ok", "none" or "malformed"  *)
(*   finish    its finish reason ("refused" stands for content_filter and  *)
(*             for every member of Gemini's _BLOCK_FINISH_REASONS)         *)
(*   text      its text                                                    *)
(*   usage     the usage block: [in, out, thoughts], or NoUsage when it is *)
(*             absent or one of its two counts is not an integer           *)
(* An HTTP error has a status, an error code or Google status string, the  *)
(* prose of its message as far as the phrase lists tell it apart, flagged, *)
(* and a wait in one of the forms the providers announce one in.           *)
(***************************************************************************)
EXTENDS Integers, Sequences

CONSTANTS
    Kilo,         \* milliseconds in a second
    SEpochFloor,  \* _S_EPOCH_FLOOR
    MsEpochFloor, \* _MS_EPOCH_FLOOR
    Epoch         \* the unix time of the replies

(* Timestamps in seconds and in milliseconds fall on their own side of the *)
(* two floors.                                                             *)
ASSUME EpochAssumption ==
    /\ Kilo \in Nat \ {0} /\ SEpochFloor \in Nat /\ MsEpochFloor \in Nat /\ Epoch \in Nat
    /\ SEpochFloor < Epoch /\ Epoch < MsEpochFloor /\ MsEpochFloor < Epoch * Kilo

Providers == {"groq", "gemini", "openrouter"}
NoUsage == [in |-> -1, out |-> -1, thoughts |-> 0]
NoWait == -1
AdapterCharsPerToken == 4
Blank(text) == text \in {"", " "}

Usages == [in : Nat, out : Nat, thoughts : Nat] \cup {NoUsage}
Decoded == [object : BOOLEAN, block : BOOLEAN, error : STRING, flagged : BOOLEAN,
            choice : STRING, finish : STRING, text : STRING, usage : Usages]
HttpErrors == [status : Nat, code : STRING, prose : STRING, flagged : BOOLEAN,
               wait : [form : STRING, s : Nat]]

(* Waits are told from timestamps by their size: announced as so many      *)
(* seconds they are below the first floor, added to the clock they are     *)
(* still below the second (decades, and millennia).                        *)
Plausible(wait) == wait.s <= SEpochFloor /\ Epoch + wait.s <= MsEpochFloor

---------------------------------------------------------------------------
(* Waits                                                                   *)


(* OpenRouterAdapter._reset_seconds.                                       *)
ResetSeconds(value) ==
    LET delta == IF value > MsEpochFloor THEN value \div Kilo - Epoch
                 ELSE IF value > SEpochFloor THEN value - Epoch
                 ELSE value
    IN  IF delta < 0 THEN 0 ELSE delta

(* The number the reset header of a response carries.                      *)
ResetHeader(wait) ==
    CASE wait.form = "ms" -> (Epoch + wait.s) * Kilo
      [] wait.form = "s" -> Epoch + wait.s
      [] OTHER -> wait.s

(* _read_retry_after of each adapter: a numeric Retry-After first (a date  *)
(* is not parsed), then what the provider sends instead.  Groq: the reset  *)
(* headers, Go durations.                                                  *)
RetryAfterGroq(w) == IF w.form \in {"retry-after", "duration"} THEN w.s ELSE NoWait

(* Gemini: the RetryInfo of the error body, a protobuf duration.           *)
RetryAfterGemini(w) == IF w.form \in {"retry-after", "retryInfo"} THEN w.s ELSE NoWait

(* OpenRouter: the reset header, a timestamp.                              *)
RetryAfterOpenRouter(w) ==
    CASE w.form = "retry-after" -> w.s
      [] w.form \in {"ms", "s", "delta"} -> ResetSeconds(ResetHeader(w))
      [] OTHER -> NoWait

RetryAfter(p, err) ==
    CASE p = "groq" -> RetryAfterGroq(err.wait)
      [] p = "gemini" -> RetryAfterGemini(err.wait)
      [] p = "openrouter" -> RetryAfterOpenRouter(err.wait)

---------------------------------------------------------------------------
(* Failures                                                                *)

(* GroqAdapter._error_from_response: the code before the status.           *)
ClassifyGroq(err) ==
    IF err.code = "context" THEN "context_too_long"
    ELSE IF err.code = "rate" THEN "rate_limited"
    ELSE IF err.code = "filter" THEN "content_filtered"
    ELSE IF err.status \in {401, 403} THEN "auth_failed"
    ELSE IF err.status = 429 THEN "rate_limited"
    ELSE IF err.status = 413 THEN "context_too_long"
    ELSE IF err.status \in {400, 422} /\ err.prose = "context" THEN "context_too_long"
    ELSE IF err.status \in {400, 404, 422} THEN "bad_request"
    ELSE "unavailable"

(* GeminiAdapter._error_from_response: the prose before Google's status    *)
(* string, and that before the HTTP status.                                *)
ClassifyGemini(err) ==
    IF err.prose = "api key" THEN "auth_failed"
    ELSE IF err.prose = "context" THEN "context_too_long"
    ELSE IF err.code = "RESOURCE_EXHAUSTED" THEN "rate_limited"
    ELSE IF err.code \in {"UNAUTHENTICATED", "PERMISSION_DENIED", "FAILED_PRECONDITION"} THEN
        "auth_failed"
    ELSE IF err.code \in {"UNAVAILABLE", "INTERNAL", "DEADLINE_EXCEEDED", "ABORTED", "CANCELLED",
                         "UNKNOWN"} THEN "unavailable"
    ELSE IF err.code \in {"INVALID_ARGUMENT", "OUT_OF_RANGE", "NOT_FOUND", "UNIMPLEMENTED",
                         "ALREADY_EXISTS"} THEN "bad_request"
    ELSE IF err.status \in {401, 403} THEN "auth_failed"
    ELSE IF err.status = 429 THEN "rate_limited"
    ELSE IF err.status \in {400, 404, 422} THEN "bad_request"
    ELSE "unavailable"

(* OpenRouterAdapter._classify, for an HTTP error and for an error object  *)
(* in a 200 alike.                                                         *)
ClassifyOpenRouter(err) ==
    IF err.code \in {"402", "credit", "429", "rate"} THEN "rate_limited"
    ELSE IF err.code = "context" THEN "context_too_long"
    ELSE IF err.code = "filter" THEN "content_filtered"
    ELSE IF err.status = 402 THEN "rate_limited"
    ELSE IF err.status = 403 /\ err.flagged THEN "content_filtered"
    ELSE IF err.status \in {401, 403} THEN "auth_failed"
    ELSE IF err.status = 429 THEN "rate_limited"
    ELSE IF err.status \in {400, 422} /\ err.prose = "context" THEN "context_too_long"
    ELSE IF err.status \in {400, 404, 422} THEN "bad_request"
    ELSE "unavailable"

(* parse_error of a response.                                              *)
Classify(p, err) ==
    CASE p = "groq" -> ClassifyGroq(err)
      [] p = "gemini" -> ClassifyGemini(err)
      [] p = "openrouter" -> ClassifyOpenRouter(err)

(* An error object in a 200 goes through the same ladder, with status 200  *)
(* and no response to read headers from.                                   *)
InBody(e) ==
    [status |-> 200, code |-> e.error, prose |-> "none", flagged |-> e.flagged,
     wait |-> [form |-> "none", s |-> 0]]

---------------------------------------------------------------------------
(* Successes                                                               *)


(* GroqAdapter._read_choice.                                               *)
ReadChoiceGroq(e) ==
    IF e.choice # "ok" THEN "empty_response"
    ELSE IF e.finish = "refused" THEN "content_filtered"
    ELSE IF Blank(e.text) THEN "empty_response"
    ELSE "ok"

(* Slip: emptiness is tested before the block reason.                      *)
ReadCandidateEmptyFirst(e) ==
    IF e.choice # "ok" THEN "empty_response"
    ELSE IF e.block \/ e.finish = "refused" THEN "content_filtered"
    ELSE IF Blank(e.text) THEN "empty_response"
    ELSE "ok"

(* GeminiAdapter._read_candidate: a blocked prompt has no candidates.      *)
ReadCandidate(e) ==
    IF e.block THEN "content_filtered"
    ELSE IF e.choice # "ok" THEN "empty_response"
    ELSE IF e.finish = "refused" THEN "content_filtered"
    ELSE IF Blank(e.text) THEN "empty_response"
    ELSE "ok"

(* OpenRouterAdapter._read_choice: a 200 can carry an error.               *)
ReadChoiceOpenRouter(e) ==
    IF e.error # "none" THEN ClassifyOpenRouter(InBody(e))
    ELSE IF e.choice # "ok" THEN "empty_response"
    ELSE IF e.finish = "refused" THEN "content_filtered"
    ELSE IF Blank(e.text) THEN "empty_response"
    ELSE "ok"

(* complete, after its status check.                                       *)
ReadBody(p, e) ==
    IF ~e.object THEN "empty_response"
    ELSE IF p = "groq" THEN ReadChoiceGroq(e)
    ELSE IF p = "gemini" THEN ReadCandidate(e)
    ELSE ReadChoiceOpenRouter(e)

(* stream of each adapter, per decoded frame: an error, or "chunk".        *)
FrameGroq(e) ==
    IF e.choice = "ok" /\ e.finish = "refused" THEN "content_filtered" ELSE "chunk"

FrameGemini(e) ==
    IF e.block \/ (e.choice = "ok" /\ e.finish = "refused") THEN "content_filtered" ELSE "chunk"

FrameOpenRouter(e) ==
    IF e.error # "none" THEN ClassifyOpenRouter(InBody(e))
    ELSE IF e.choice = "ok" /\ e.finish = "refused" THEN "content_filtered"
    ELSE "chunk"

ReadFrame(p, e) ==
    IF ~e.object THEN "skip"
    ELSE IF p = "groq" THEN FrameGroq(e)
    ELSE IF p = "gemini" THEN FrameGemini(e)
    ELSE FrameOpenRouter(e)

(* _stream_chunk_from_event: a choice that is missing or malformed         *)
(* contributes no text.                                                    *)
Delta(e) == IF e.choice = "ok" THEN e.text ELSE ""

(* extract_usage and its streaming twins of Groq and OpenRouter.           *)
UsageReported(usage) == [in |-> usage.in, out |-> usage.out, estimated |-> FALSE]


(* Gemini's: thinking tokens are billed as output and reported apart.      *)
UsageGemini(usage) ==
    [in |-> usage.in, out |-> usage.out + usage.thoughts, estimated |-> FALSE]

Measured(p, usage) == IF p = "gemini" THEN UsageGemini(usage) ELSE UsageReported(usage)

(* extract_usage without a usage block, once complete has filled in the    *)
(* size of its own payload.                                                *)
UsageEstimated(e, promptTokens) ==
    [in |-> promptTokens, out |-> Len(e.text) \div AdapterCharsPerToken, estimated |-> TRUE]

---------------------------------------------------------------------------
(* validate_key of each adapter, on an error: only a rejection is a        *)
(* verdict, anything else is raised.                                       *)
KeyGroq(err) == IF err.status \in {401, 403} THEN "invalid" ELSE ClassifyGroq(err)


(* A dead Gemini key is a 400 that says so.                                *)
KeyGemini(err) ==
    IF err.status \in {401, 403} \/ err.prose = "api key" THEN "invalid" ELSE ClassifyGemini(err)

KeyOpenRouter(err) == IF err.status \in {401, 403} THEN "invalid" ELSE ClassifyOpenRouter(err)

ValidateKey(p, err) ==
    CASE p = "groq" -> KeyGroq(err)
      [] p = "gemini" -> KeyGemini(err)
      [] p = "openrouter" -> KeyOpenRouter(err)

---------------------------------------------------------------------------
(* What the providers mean, by their own documentation as the adapters'    *)
(* docstrings quote it: the reference the readings above are held to.      *)

(* A body or frame that declines to answer: by a block reason, a finish    *)
(* reason or a filter code,                                                *)
Declines(p, e) ==
    /\ e.object
    /\ \/ p = "gemini" /\ e.block
       \/ e.choice = "ok" /\ e.finish = "refused" /\ (p = "openrouter" => e.error = "none")
       \/ p = "openrouter" /\ e.error = "filter"

(* or by OpenRouter's moderation: code 403, with the reasons or the input  *)
(* it flagged in the metadata.                                             *)
Moderates(p, e) == e.object /\ p = "openrouter" /\ e.error = "403" /\ e.flagged

Refuses(p, e) == Declines(p, e) \/ Moderates(p, e)

(* An HTTP error that declines to answer, that asks to wait, that is about *)
(* the credential.                                                         *)
RefusesByStatus(p, err) ==
    \/ p \in {"groq", "openrouter"} /\ err.code = "filter"
    \/ p = "openrouter" /\ err.status = 403 /\ err.flagged
           /\ err.code \notin {"402", "credit", "429", "rate", "context"}
AsksToWait(p, err) ==
    \/ p = "groq" /\ err.code = "rate"
    \/ p = "gemini" /\ err.code = "RESOURCE_EXHAUSTED" /\ err.prose = "none"
    \/ p = "openrouter" /\ (err.code \in {"402", "credit", "429", "rate"})
RejectsTheKey(p, err) ==
    \/ err.status \in {401, 403}
    \/ p = "gemini" /\ err.prose = "api key"
=============================================================================
