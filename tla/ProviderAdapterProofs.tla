------------------------ MODULE ProviderAdapterProofs ------------------------
(***************************************************************************)
(* Theorems about ProviderAdapter, for any frames, bodies and errors the   *)
(* providers may send, any timeouts and any length of a stream.            *)
(***************************************************************************)
EXTENDS ProviderAdapter, SequenceTheorems, TLAPS

-----------------------------------------------------------------------------
(* The invariant of a stream                                                 *)

Streaming == pc \in {"reading", "held"}
Quietly == {<<>>, <<Noise>>}     \* nothing on the wire, or a keepalive

(* Where the event under way is: no event; written in full and not read; its *)
(* blank line to come, the event read or on its way (or surfaced already,    *)
(* the connection having closed); its second data line to come.              *)
BetweenEvents == buffer = <<>> /\ written = read /\ wire \in Quietly
Whole(f) ==
    /\ f \in Frames[p] /\ written = Append(read, f) /\ Assembles(buffer, f)
EventWritten == wire = <<BlankLine>> /\ \E f \in Frames[p] : Whole(f)
EventUnclosed ==
    \/ wire \in Quietly /\ \E f \in Frames[p] : Whole(f)
    \/ \E f \in Frames[p] :
          /\ written = Append(read, f)
          /\ \/ buffer = <<>> /\ wire = <<DataLine(f, "whole")>>
             \/ buffer = <<DataLine(f, "head")>> /\ wire = <<DataLine(f, "tail")>>
    \/ up = "closed" /\ buffer = <<>> /\ wire = <<>> /\ written = read
EventHalfWritten ==
    \E f \in Frames[p] :
        /\ part = DataLine(f, "tail") /\ written = read
        /\ \/ buffer = <<>> /\ wire = <<DataLine(f, "head")>>
           \/ buffer = <<DataLine(f, "head")>> /\ wire \in Quietly

(* What lies between the frames written and the frames decoded is at most    *)
(* the event under way.                                                      *)
EventInv ==
    Streaming =>
        \/ part = NoLine /\ (BetweenEvents \/ EventWritten)
        \/ part = BlankLine /\ EventUnclosed
        \/ EventHalfWritten

FramesInv ==
    /\ p \in Providers
    /\ read \in Seq(Decoded) /\ written \in Seq(Decoded \cup {DoneFrame})
    /\ pc = "calling" =>
           read = <<>> /\ written = <<>> /\ wire = <<>> /\ part = NoLine /\ buffer = <<>>
    /\ pc = "calling" \/ Streaming => outcome = "none"
    /\ Streaming => call = "stream"

WholeInv == FramesInv /\ EventInv /\ WholeOrError

(* A data line on the wire was written just now, so the silence is never     *)
(* longer than the wait that the idle deadline measures.                     *)
SilenceInv ==
    /\ quiet \in 0..IdleTimeout /\ silent \in Nat /\ silent <= quiet
    /\ wire # <<>> => wire = <<wire[1]>>
    /\ Streaming /\ wire # <<>> /\ wire[1].kind = "data" => silent = 0
    /\ pc = "calling" => wire = <<>>

(* What has a type and is not told by the others.                            *)
TypeInv ==
    /\ call \in Calls /\ pc \in {"idle", "calling", "reading", "held", "ended"}
    /\ outcome \in {"none", "ok", "abandoned", "valid", "invalid"} \cup ErrorClasses
    /\ up \in {"open", "closed", "cut"} /\ waited \in 0..FirstToken
    /\ left \in 0..MaxFrames /\ Len(buffer) <= 2

(* No hint outlives its attempt, but that of a key check, which no other     *)
(* attempt follows.                                                          *)
HintInv ==
    /\ hint \in {"none", "mine"} /\ applied \in {"none", "mine"}
    /\ "mine" \in {hint, applied} => carried = TRUE
    /\ pc = "calling" => hint = "none" /\ applied = "none"
    /\ pc = "idle" /\ call # "validate" => hint = "none"

(* What was received and what was made of it.                                *)
Answered ==
    /\ reply \in Decoded /\ call = "complete"
    /\ outcome = ReadBody(p, reply) /\ wait = NoWait
    /\ spent = IF reply.usage # NoUsage THEN Measured(p, reply.usage)
               ELSE UsageEstimated(reply, Estimate)
Failed ==
    /\ reply \in HttpErrors /\ Plausible(reply.wait)
    /\ IF call = "validate" THEN outcome = ValidateKey(p, reply) /\ wait = NoWait
       ELSE /\ outcome = Classify(p, reply)
            /\ wait = IF Classify(p, reply) = "rate_limited" THEN RetryAfter(p, reply) ELSE NoWait
ReplyInv ==
    \/ /\ reply = NoReply /\ wait = NoWait
       /\ outcome # "invalid" /\ (outcome = "ok" => call = "stream")
    \/ pc \in {"ended", "idle"} /\ (Answered \/ Failed)

(* What the frames of a stream reported is what it is charged so far, and    *)
(* none of them has refused while it goes on.                                *)
ChargedSoFar == IF Reports = {} THEN spent = FreeUsage ELSE ByLastReport
StreamCharged ==
    /\ spent.estimated => spent.in = Estimate
    /\ IF Reports = {} THEN spent.estimated ELSE ByLastReport
StreamInv ==
    /\ pc = "calling" => spent = FreeUsage
    /\ Streaming => ChargedSoFar /\ \A i \in 1..Len(read) : ~Declines(p, read[i])
    /\ (\E i \in 1..Len(read) : Declines(p, read[i])) => outcome = "content_filtered"
    /\ call = "stream" /\ outcome = "ok" => StreamCharged

-----------------------------------------------------------------------------
(* What the ladders of the adapters answer with                              *)

LEMMA ErrorsAreClassified ==
    ASSUME NEW q \in Providers, NEW err
    PROVE  /\ Classify(q, err) \in ErrorClasses
           /\ ValidateKey(q, err) \in {"invalid"} \cup ErrorClasses
           /\ ValidateKey(q, err) = "invalid" => RejectsTheKey(q, err)
<1>1. ClassifyGroq(err) \in ErrorClasses
  BY DEF ClassifyGroq, ErrorClasses
<1>2. ClassifyGemini(err) \in ErrorClasses
  BY DEF ClassifyGemini, ErrorClasses
<1>3. ClassifyOpenRouter(err) \in ErrorClasses
  BY DEF ClassifyOpenRouter, ErrorClasses
<1>4. "invalid" \notin ErrorClasses
  BY DEF ErrorClasses
<1>5. Classify(q, err) \in ErrorClasses
  BY <1>1, <1>2, <1>3 DEF Classify, Providers
<1>6. CASE q = "groq"
  BY <1>1, <1>4, <1>5, <1>6 DEF ValidateKey, KeyGroq, RejectsTheKey
<1>7. CASE q = "gemini"
  BY <1>2, <1>4, <1>5, <1>7 DEF ValidateKey, KeyGemini, RejectsTheKey
<1>8. CASE q = "openrouter"
  BY <1>3, <1>4, <1>5, <1>8 DEF ValidateKey, KeyOpenRouter, RejectsTheKey
<1> QED BY <1>6, <1>7, <1>8 DEF Providers

LEMMA RepliesAreRead ==
    ASSUME NEW q \in Providers, NEW e
    PROVE  /\ ReadBody(q, e) \in {"ok"} \cup ErrorClasses
           /\ ReadFrame(q, e) \in {"skip", "chunk"} \cup ErrorClasses
<1>1. ClassifyOpenRouter(InBody(e)) \in ErrorClasses
  BY DEF ClassifyOpenRouter, ErrorClasses
<1>2. /\ ReadChoiceGroq(e) \in {"ok"} \cup ErrorClasses
      /\ ReadCandidate(e) \in {"ok"} \cup ErrorClasses
      /\ ReadChoiceOpenRouter(e) \in {"ok"} \cup ErrorClasses
  BY <1>1 DEF ReadChoiceGroq, ReadCandidate, ReadChoiceOpenRouter, ErrorClasses
<1>3. /\ FrameGroq(e) \in {"chunk"} \cup ErrorClasses
      /\ FrameGemini(e) \in {"chunk"} \cup ErrorClasses
      /\ FrameOpenRouter(e) \in {"chunk"} \cup ErrorClasses
  BY <1>1 DEF FrameGroq, FrameGemini, FrameOpenRouter, ErrorClasses
<1>4. ReadBody(q, e) \in {"ok"} \cup ErrorClasses
  BY <1>2 DEF ReadBody, Providers, ErrorClasses
<1>5. ReadFrame(q, e) \in {"skip", "chunk"} \cup ErrorClasses
  BY <1>3 DEF ReadFrame, Providers
<1> QED BY <1>4, <1>5

(* A refusal other than OpenRouter's moderation is read as one wherever it   *)
(* stands.                                                                   *)
LEMMA RefusalsAreRead ==
    ASSUME NEW q \in Providers, NEW e \in Decoded, Declines(q, e)
    PROVE  ReadBody(q, e) = "content_filtered" /\ ReadFrame(q, e) = "content_filtered"
<1>0. e.object \in BOOLEAN /\ e.block \in BOOLEAN
  BY DEF Decoded
<1>1. e.object
  BY DEF Declines
<1>2. CASE q = "groq"
  <2>1. e.choice = "ok" /\ e.finish = "refused"
    BY <1>2 DEF Declines
  <2>2. ReadChoiceGroq(e) = "content_filtered" /\ FrameGroq(e) = "content_filtered"
    BY <2>1 DEF ReadChoiceGroq, FrameGroq
  <2> QED BY <1>1, <1>2, <2>2 DEF ReadBody, ReadFrame
<1>3. CASE q = "gemini"
  <2>1. e.block \/ (e.choice = "ok" /\ e.finish = "refused")
    BY <1>0, <1>3 DEF Declines
  <2>2. ReadCandidate(e) = "content_filtered" /\ FrameGemini(e) = "content_filtered"
    BY <1>0, <2>1 DEF ReadCandidate, FrameGemini
  <2> QED BY <1>1, <1>3, <2>2 DEF ReadBody, ReadFrame
<1>4. CASE q = "openrouter"
  <2>1. \/ e.error = "none" /\ e.choice = "ok" /\ e.finish = "refused"
        \/ e.error = "filter"
    BY <1>4 DEF Declines
  <2>2. e.error = "filter" => ClassifyOpenRouter(InBody(e)) = "content_filtered"
    <3>1. InBody(e).code = e.error
      BY DEF InBody
    <3> QED BY <3>1 DEF ClassifyOpenRouter
  <2>3. ReadChoiceOpenRouter(e) = "content_filtered" /\ FrameOpenRouter(e) = "content_filtered"
    BY <2>1, <2>2 DEF ReadChoiceOpenRouter, FrameOpenRouter
  <2> QED BY <1>1, <1>4, <2>3 DEF ReadBody, ReadFrame
<1> QED BY <1>2, <1>3, <1>4 DEF Providers

LEMMA RefusingStatusesAreRead ==
    ASSUME NEW q \in Providers, NEW err \in HttpErrors, RefusesByStatus(q, err)
    PROVE  Classify(q, err) = "content_filtered"
<1>1. CASE q = "groq"
  BY <1>1 DEF RefusesByStatus, Classify, ClassifyGroq
<1>2. CASE q = "openrouter"
  <2>1. ClassifyOpenRouter(err) = "content_filtered"
    BY <1>2 DEF RefusesByStatus, ClassifyOpenRouter, HttpErrors
  <2> QED BY <1>2, <2>1 DEF Classify
<1> QED BY <1>1, <1>2 DEF RefusesByStatus

(* A wait is read in the provider's unit.                                    *)
LEMMA WaitsAreRead ==
    ASSUME NEW q \in Providers, NEW err \in HttpErrors, Plausible(err.wait)
    PROVE  /\ AsksToWait(q, err) => Classify(q, err) = "rate_limited"
           /\ RetryAfter(q, err) \in {NoWait, err.wait.s}
           /\ err.wait.s \in Nat
<1>1. err.wait \in [form : STRING, s : Nat]
  BY DEF HttpErrors
<1>2. AsksToWait(q, err) => Classify(q, err) = "rate_limited"
  <2>1. q = "groq" /\ err.code = "rate" => ClassifyGroq(err) = "rate_limited"
    BY DEF ClassifyGroq
  <2>2. q = "gemini" /\ err.code = "RESOURCE_EXHAUSTED" /\ err.prose = "none"
            => ClassifyGemini(err) = "rate_limited"
    BY DEF ClassifyGemini
  <2>3. q = "openrouter" /\ err.code \in {"402", "credit", "429", "rate"}
            => ClassifyOpenRouter(err) = "rate_limited"
    BY DEF ClassifyOpenRouter
  <2> QED BY <2>1, <2>2, <2>3 DEF AsksToWait, Classify
<1>3. RetryAfterGroq(err.wait) \in {NoWait, err.wait.s}
  BY DEF RetryAfterGroq
<1>4. RetryAfterGemini(err.wait) \in {NoWait, err.wait.s}
  BY DEF RetryAfterGemini
<1>5. RetryAfterOpenRouter(err.wait) \in {NoWait, err.wait.s}
  <2> DEFINE w == err.wait
             value == ResetHeader(w)
  <2>1. w.s \in Nat /\ w.s <= SEpochFloor /\ Epoch + w.s <= MsEpochFloor
    BY <1>1 DEF Plausible
  <2>2. CASE w.form = "ms"
    <3>1. value = (Epoch + w.s) * Kilo
      BY <2>2 DEF ResetHeader
    <3>2. (Epoch + w.s) * Kilo >= Epoch * Kilo /\ (Epoch + w.s) * Kilo \in Nat
      BY <2>1, EpochAssumption
    <3>3. ((Epoch + w.s) * Kilo) \div Kilo = Epoch + w.s
      BY <2>1, EpochAssumption
    <3>4. value > MsEpochFloor
      BY <3>1, <3>2, EpochAssumption
    <3>5. ResetSeconds(value) = w.s
      <4>1. value \div Kilo - Epoch = w.s
        BY <2>1, <3>1, <3>3, EpochAssumption
      <4> HIDE DEF value
      <4> QED BY <2>1, <3>4, <4>1 DEF ResetSeconds
    <3> QED BY <2>2, <3>5 DEF RetryAfterOpenRouter
  <2>3. CASE w.form = "s"
    <3>1. value = Epoch + w.s
      BY <2>3 DEF ResetHeader
    <3>2. ResetSeconds(value) = w.s
      BY <2>1, <3>1, EpochAssumption DEF ResetSeconds
    <3> QED BY <2>3, <3>2 DEF RetryAfterOpenRouter
  <2>4. CASE w.form = "delta"
    <3>1. value = w.s
      BY <2>4 DEF ResetHeader
    <3>2. ResetSeconds(value) = w.s
      BY <2>1, <3>1, EpochAssumption DEF ResetSeconds
    <3> QED BY <2>4, <3>2 DEF RetryAfterOpenRouter
  <2>5. CASE w.form \notin {"ms", "s", "delta"}
    BY <2>5 DEF RetryAfterOpenRouter
  <2> QED BY <2>2, <2>3, <2>4, <2>5
<1> QED BY <1>1, <1>2, <1>3, <1>4, <1>5 DEF RetryAfter, Providers


-----------------------------------------------------------------------------
(* The idle deadline                                                         *)

LEMMA LineKinds ==
    ASSUME NEW f, NEW piece
    PROVE  /\ DataLine(f, piece).kind = "data" /\ DataLine(f, piece).piece = piece
           /\ DataLine(f, piece).frame = f
           /\ NoLine.kind = "nothing" /\ BlankLine.kind = "blank" /\ Noise.kind = "noise"
  BY DEF DataLine, NoLine, BlankLine, Noise

(* What a step may do to the wire while it leaves the clocks alone.          *)
LEMMA OneLine == \A line : Tail(<<line>>) = <<>> /\ Head(<<line>>) = line
  OBVIOUS

LEMMA SilenceKept ==
    ASSUME SilenceInv, UNCHANGED <<quiet, silent>>,
           wire' = wire \/ wire' = <<>>, pc' = "calling" => wire' = <<>>,
           pc' \in {"reading", "held"} => pc \in {"reading", "held"} \/ wire' = <<>>
    PROVE  SilenceInv'
<1>1. CASE wire' = <<>>
  BY <1>1 DEF SilenceInv
<1>2. CASE wire' = wire
  BY <1>2 DEF SilenceInv, Streaming
<1> QED BY <1>1, <1>2

LEMMA SilenceInductive == SilenceInv /\ [Next]_vars => SilenceInv'
<1> SUFFICES ASSUME SilenceInv, [Next]_vars PROVE SilenceInv'
  OBVIOUS
<1> USE AdapterAssumption DEF Streaming
(* A call starts afresh.                                                     *)
<1>f. ASSUME NEW kind, NEW q, Fresh(kind, q) PROVE SilenceInv'
  BY <1>f DEF Fresh, SilenceInv
<1>1. ASSUME NEW q \in Providers, NextAttempt(q) PROVE SilenceInv'
  BY <1>1, <1>f DEF NextAttempt
<1>2. ASSUME NEW kind \in Calls, NEW q \in Providers, NewRequest(kind, q) PROVE SilenceInv'
  BY <1>2, <1>f DEF NewRequest
<1>3. CASE Settle \/ TransportFails \/ CheckKey
  BY <1>3, SilenceKept DEF Settle, TransportFails, CheckKey, Ends, netVars, readVars
<1>4. ASSUME NEW err, RespondError(err) PROVE SilenceInv'
  BY <1>4, SilenceKept DEF RespondError, Ends, netVars, readVars
<1>5. ASSUME NEW e, Complete(e) PROVE SilenceInv'
  BY <1>5, SilenceKept DEF Complete, Ends, netVars, readVars
<1>6. CASE Connect
  BY <1>6, SilenceKept DEF Connect, SilenceInv, readVars
(* What the provider writes.                                                 *)
<1>w. ASSUME NEW line, Writes(line), silent' = silent,
             line.kind = "data" => silent = 0
      PROVE  SilenceInv'
  BY <1>w DEF Writes, SilenceInv, readVars
<1>z. ASSUME NEW line, Writes(line), silent' = 0
      PROVE  SilenceInv'
  BY <1>z DEF Writes, SilenceInv, readVars
<1>7. ASSUME NEW f, NEW piece, WriteFrame(f, piece) PROVE SilenceInv'
  BY <1>7, <1>z DEF WriteFrame
<1>8. CASE WriteRest
  <2>1. CASE part = BlankLine
    BY <1>8, <2>1, <1>w, LineKinds DEF WriteRest
  <2>2. CASE part # BlankLine
    BY <1>8, <2>2, <1>z DEF WriteRest
  <2> QED BY <2>1, <2>2
<1>9. CASE KeepAlive
  BY <1>9, <1>w, LineKinds DEF KeepAlive
<1>10. ASSUME NEW how, Hangs(how) PROVE SilenceInv'
  BY <1>10, SilenceKept DEF Hangs, readVars, SilenceInv
(* What the adapter reads.                                                   *)
<1>d. ASSUME NEW f, Deliver(f) PROVE pc' \in {"reading", "held", "ended"}
  BY <1>d DEF Deliver, Ends
<1>11. CASE ReadNoise
  <2>1. wire' = <<>> /\ UNCHANGED <<silent, quiet, pc>> /\ pc = "reading"
    <3>1. wire = <<wire[1]>> /\ wire' = Tail(wire)
      BY <1>11 DEF ReadNoise, Reads, SilenceInv
    <3>2. wire' = <<>>
      BY <3>1, OneLine
    <3> QED BY <1>11, <3>2 DEF ReadNoise, Reads
  <2> QED BY <2>1, SilenceKept
<1>12. CASE ReadData
  <2>1. silent = 0 /\ silent' = silent /\ quiet' = 0 /\ wire' = Tail(wire) /\ wire = <<wire[1]>>
    BY <1>12 DEF ReadData, Reads, SilenceInv
  <2>2. wire' = <<>> /\ pc' = pc
    BY <1>12, <2>1, OneLine DEF ReadData, Reads
  <2> QED BY <2>1, <2>2 DEF SilenceInv
<1>13. CASE ReadBlank
  <2>1. UNCHANGED <<quiet, silent>> /\ wire' = Tail(wire) /\ wire = <<wire[1]>> /\ pc = "reading"
    BY <1>13 DEF ReadBlank, Reads, SilenceInv
  <2>2. wire' = <<>>
    BY <2>1, OneLine
  <2>3. pc' \in {"reading", "held", "ended"}
    BY <1>13, <1>d, <2>1 DEF ReadBlank, Finished, Ends
  <2> QED BY <2>1, <2>2, <2>3, SilenceKept
<1>14. CASE ReadEnd
  <2>1. UNCHANGED <<quiet, silent, wire>> /\ pc = "reading"
    BY <1>14 DEF ReadEnd, netVars
  <2>2. pc' \in {"reading", "held", "ended"}
    BY <1>14, <1>d DEF ReadEnd, Finished, Ends
  <2> QED BY <2>1, <2>2, SilenceKept
<1>15. CASE ReadFault \/ IdleStall \/ FirstTokenStall
  BY <1>15, SilenceKept DEF ReadFault, IdleStall, FirstTokenStall, Fails, Ends, netVars, readVars
<1>16. CASE AskNext \/ Abandon
  BY <1>16, SilenceKept DEF AskNext, Abandon, netVars, readVars
<1>17. CASE Tick
  BY <1>17 DEF Tick, SilenceInv, AtMost, netVars
<1>18. CASE UNCHANGED vars
  BY <1>18, SilenceKept DEF vars, netVars, readVars, SilenceInv
<1> QED BY <1>1, <1>2, <1>3, <1>4, <1>5, <1>6, <1>7, <1>8, <1>9, <1>10, <1>11, <1>12, <1>13,
           <1>14, <1>15, <1>16, <1>17, <1>18 DEF Next, Reader, Timeout

LEMMA SilenceAlways == Spec => []SilenceInv
<1>1. Init => SilenceInv
  BY AdapterAssumption DEF Init, SilenceInv
<1> QED BY <1>1, SilenceInductive, PTL DEF Spec

(* A provider that falls silent is given up on when the idle timeout has     *)
(* passed, for any timeout and however many keepalive comments it sends      *)
(* (_stream_events).                                                         *)
THEOREM SilenceEnds == Spec => []SilenceIsBounded
<1>1. SilenceInv => SilenceIsBounded
  BY AdapterAssumption DEF SilenceInv, SilenceIsBounded
<1> QED BY <1>1, SilenceAlways, PTL

-----------------------------------------------------------------------------
(* Frames, whole and in order                                                *)

LEMMA NotDecoded == DoneFrame \notin Decoded /\ Garbage \notin Decoded /\ Garbage # DoneFrame
<1>1. DOMAIN DoneFrame = {"done"} /\ DOMAIN Garbage = {"garbage"}
  BY DEF DoneFrame, Garbage
<1>2. \A e \in Decoded : "object" \in DOMAIN e
  BY DEF Decoded
<1> QED BY <1>1, <1>2

LEMMA LinesDiffer ==
    /\ NoLine # BlankLine /\ Noise # BlankLine
    /\ \A f, piece : /\ DataLine(f, piece) # NoLine /\ DataLine(f, piece) # BlankLine
                     /\ DataLine(f, piece) # Noise
    /\ \A f, g : DataLine(f, "head") # DataLine(g, "whole")
  BY LineKinds

LEMMA AppendToOne == \A a, b : Append(<<a>>, b) = <<a, b>>
<1> SUFFICES ASSUME NEW a, NEW b PROVE Append(<<a>>, b) = <<a, b>>
  OBVIOUS
<1>1. <<a>> \in Seq({a, b}) /\ Len(<<a>>) = 1 /\ <<a>>[1] = a
  OBVIOUS
<1>2. /\ Append(<<a>>, b) \in Seq({a, b}) /\ Len(Append(<<a>>, b)) = 2
      /\ Append(<<a>>, b)[1] = a /\ Append(<<a>>, b)[2] = b
  BY <1>1
<1>3. <<a, b>> \in Seq({a, b}) /\ Len(<<a, b>>) = 2 /\ <<a, b>>[1] = a /\ <<a, b>>[2] = b
  OBVIOUS
<1>4. \A i \in 1..2 : Append(<<a>>, b)[i] = <<a, b>>[i]
  BY <1>2, <1>3
<1> QED BY <1>2, <1>3, <1>4, SeqEqual

(* The data lines of an event join to the frame it was written for, and half *)
(* an event to nothing.                                                      *)
LEMMA PayloadOf ==
    ASSUME NEW f, NEW lines
    PROVE  /\ Assembles(lines, f) => lines # <<>> /\ Payload(lines) = f
           /\ Payload(<<DataLine(f, "head")>>) = Garbage
           /\ Assembles(Append(<<>>, DataLine(f, "whole")), f)
           /\ Assembles(Append(<<DataLine(f, "head")>>, DataLine(f, "tail")), f)
           /\ Append(<<>>, DataLine(f, "head")) = <<DataLine(f, "head")>>
<1>1. ASSUME Assembles(lines, f) PROVE lines # <<>> /\ Payload(lines) = f
  <2>1. lines # <<>> /\ (Head(lines) = DataLine(f, "whole") \/ Head(lines) = DataLine(f, "head"))
    BY <1>1 DEF Assembles
  <2>2. Head(lines).frame = f
    BY <2>1, LineKinds
  <2> QED BY <1>1, <2>1, <2>2 DEF Payload
<1>2. Payload(<<DataLine(f, "head")>>) = Garbage
  <2> DEFINE half == <<DataLine(f, "head")>>
  <2>1. \A g : ~Assembles(half, g)
    <3>1. half[1] = DataLine(f, "head") /\ Len(half) = 1
      OBVIOUS
    <3>2. ASSUME NEW g, Assembles(half, g) PROVE FALSE
      <4>1. half # <<DataLine(g, "whole")>>
        BY <3>1, LinesDiffer
      <4>2. half # <<DataLine(g, "head"), DataLine(g, "tail")>>
        BY <3>1
      <4> QED BY <3>2, <4>1, <4>2 DEF Assembles
    <3> QED BY <3>2
  <2> QED BY <2>1 DEF Payload
<1>3. Append(<<>>, DataLine(f, "whole")) = <<DataLine(f, "whole")>>
  OBVIOUS
<1>4. Append(<<DataLine(f, "head")>>, DataLine(f, "tail"))
          = <<DataLine(f, "head"), DataLine(f, "tail")>>
  BY AppendToOne
<1> QED BY <1>1, <1>2, <1>3, <1>4 DEF Assembles

LEMMA PrefixOfAppend ==
    ASSUME NEW S, NEW s \in Seq(S), NEW x
    PROVE  IsPrefix(s, s) /\ IsPrefix(s, Append(s, x))
<1>1. IsPrefix(s, s)
  BY DEF IsPrefix
<1>2. IsPrefix(s, Append(s, x))
  <2>1. Append(s, x) \in Seq(S \cup {x}) /\ s \in Seq(S \cup {x})
        /\ Len(Append(s, x)) = Len(s) + 1 /\ Len(s) \in Nat
    OBVIOUS
  <2>2. \A i \in 1..Len(s) : Append(s, x)[i] = s[i]
    BY <2>1
  <2>3. SubSeq(Append(s, x), 1, Len(s)) = SubSeq(s, 1, Len(s))
    BY <2>1, <2>2
  <2> QED BY <2>1, <2>3 DEF IsPrefix
<1> QED BY <1>1, <1>2

(* An event that was surfaced: what the stream makes of its frame.           *)
LEMMA Surfaced ==
    ASSUME FramesInv, pc = "reading", NEW f \in Decoded, written = Append(read, f),
           Deliver(f), UNCHANGED <<written, call, p>>, buffer' = <<>>, wire' = <<>>
    PROVE  /\ FramesInv' /\ written' = read'
           /\ outcome' # "ok"
           /\ pc' \in {"reading", "held", "ended"}
<1>1. f # Garbage
  BY NotDecoded
<1>2. read' = Append(read, f)
  BY <1>1 DEF Deliver
<1>3. ReadFrame(p, f) \in {"skip", "chunk"} \cup ErrorClasses
  BY RepliesAreRead DEF FramesInv
<1>4. \/ pc' \in {"reading", "held"} /\ outcome' = "none"
      \/ pc' = "ended" /\ outcome' # "ok"
  BY <1>1, <1>3 DEF Deliver, Ends, ErrorClasses, FramesInv, Streaming
<1>5. read' \in Seq(Decoded)
  BY <1>2 DEF FramesInv
<1> QED BY <1>2, <1>4, <1>5 DEF FramesInv, Streaming

(* The stream ended well.                                                    *)
LEMMA FinishedWhole ==
    ASSUME FramesInv, written \in {read, Append(read, DoneFrame)}, part.kind # "data",
           Finished, UNCHANGED <<written, part, call, p>>
    PROVE  FramesInv' /\ EventInv' /\ WholeOrError'
<1>1. pc' = "ended" /\ read' = read
  BY DEF Finished, Ends
<1>2. DoneFrame \notin Range(read)
  BY NotDecoded DEF FramesInv, Range
<1>3. IsPrefix(read, written)
  BY PrefixOfAppend DEF FramesInv
<1>4. IsPrefix(read', written') /\ written' \in {read', Append(read', DoneFrame)}
      /\ DoneFrame \notin Range(read')
  BY <1>1, <1>2, <1>3
<1> QED BY <1>1, <1>4 DEF FramesInv, EventInv, WholeOrError, Streaming

(* A step that ends or gives up the stream, and not well.                    *)
LEMMA EndedWhole ==
    ASSUME WholeInv, pc' \notin {"calling", "reading", "held"},
           outcome' = "ok" => call' # "stream" \/ outcome = "ok",
           UNCHANGED <<read, written, part, call, p>>
    PROVE  WholeInv'
<1>1. FramesInv' /\ EventInv'
  BY DEF WholeInv, FramesInv, EventInv, Streaming
<1>2. WholeOrError'
  BY DEF WholeInv, WholeOrError
<1> QED BY <1>1, <1>2 DEF WholeInv

LEMMA WholeInductive == SilenceInv /\ WholeInv /\ [Next]_vars => WholeInv'
<1> SUFFICES ASSUME SilenceInv, WholeInv, [Next]_vars PROVE WholeInv'
  OBVIOUS
<1> USE AdapterAssumption DEF Streaming
<1>i. FramesInv /\ EventInv /\ WholeOrError
  BY DEF WholeInv
<1>p. /\ Frames[p] \subseteq Decoded \cup {DoneFrame}
      /\ IsPrefix(read, written) /\ \A f : IsPrefix(read, read) /\ IsPrefix(read, Append(read, f))
  BY <1>i, PrefixOfAppend DEF FramesInv, WholeOrError
<1>f. ASSUME NEW kind, NEW q \in Providers, Fresh(kind, q) PROVE WholeInv'
  <2>1. FramesInv' /\ EventInv'
    BY <1>f DEF Fresh, FramesInv, EventInv
  <2>2. IsPrefix(<<>>, <<>>)
    BY EmptySeq DEF IsPrefix
  <2>3. WholeOrError'
    BY <1>f, <2>2 DEF Fresh, WholeOrError
  <2> QED BY <2>1, <2>3 DEF WholeInv
(* While the stream goes on, what remains to show is where the event is.     *)
<1>g. ASSUME Streaming, pc' \in {"reading", "held"}, UNCHANGED <<outcome, call, p, read>>,
             written' \in Seq(Decoded \cup {DoneFrame}), IsPrefix(read', written'), EventInv'
      PROVE  WholeInv'
  <2>1. FramesInv'
    BY <1>g, <1>i DEF FramesInv
  <2>2. WholeOrError'
    BY <1>g, <1>i DEF FramesInv, WholeOrError
  <2> QED BY <1>g, <2>1, <2>2 DEF WholeInv
<1>1. ASSUME NEW q \in Providers, NextAttempt(q) PROVE WholeInv'
  BY <1>1, <1>f DEF NextAttempt
<1>2. ASSUME NEW kind \in Calls, NEW q \in Providers, NewRequest(kind, q) PROVE WholeInv'
  BY <1>2, <1>f DEF NewRequest
<1>3. CASE Settle \/ TransportFails \/ CheckKey
  BY <1>3, EndedWhole DEF Settle, TransportFails, CheckKey, Ends, netVars, readVars, callVars
<1>4. ASSUME NEW err \in Errors[p], RespondError(err) PROVE WholeInv'
  <2>1. Classify(p, err) \in ErrorClasses
    BY <1>i, ErrorsAreClassified DEF FramesInv
  <2> QED BY <1>4, <2>1, EndedWhole DEF RespondError, Ends, netVars, readVars, ErrorClasses
<1>5. ASSUME NEW e, Complete(e) PROVE WholeInv'
  BY <1>5, EndedWhole DEF Complete, Ends, netVars, readVars
<1>6. CASE Connect
  <2>1. pc = "calling" /\ call = "stream" /\ pc' = "reading"
        /\ UNCHANGED <<wire, part, written, read, buffer, outcome, call, p>>
    BY <1>6 DEF Connect, readVars, callVars
  <2>2. FramesInv' /\ WholeOrError'
    BY <1>i, <2>1 DEF FramesInv, WholeOrError
  <2>3. EventInv'
    BY <1>i, <2>1 DEF FramesInv, EventInv, BetweenEvents, Quietly
  <2> QED BY <2>2, <2>3 DEF WholeInv
(* What the provider writes, always after the line before it was read.       *)
<1>w. ASSUME NEW line, Writes(line)
      PROVE  /\ Streaming /\ pc' \in {"reading", "held"}
             /\ UNCHANGED <<outcome, call, p, read, buffer, up>>
             /\ up = "open" /\ wire = <<>> /\ wire' = <<line>>
             /\ \/ part = NoLine /\ BetweenEvents
                \/ part = BlankLine /\ \E f \in Frames[p] : Whole(f)
                \/ EventHalfWritten
  BY <1>w, <1>i DEF Writes, readVars, callVars, EventInv, EventWritten, EventUnclosed
<1>7. ASSUME NEW f \in Frames[p], NEW piece \in {"whole", "head"}, WriteFrame(f, piece)
      PROVE  WholeInv'
  <2>1. Writes(DataLine(f, piece)) /\ part = NoLine
    BY <1>7 DEF WriteFrame
  <2>2. BetweenEvents
    BY <1>w, <2>1, LinesDiffer DEF EventHalfWritten
  <2>3. CASE piece = "whole"
    <3>1. part' = BlankLine /\ written' = Append(read, f)
      BY <1>7, <2>2, <2>3 DEF WriteFrame, BetweenEvents
    <3>2. EventUnclosed'
      BY <1>w, <2>1, <2>2, <2>3, <3>1 DEF EventUnclosed, BetweenEvents
    <3>3. written' \in Seq(Decoded \cup {DoneFrame})
      BY <1>i, <1>p, <2>2, <3>1 DEF FramesInv, BetweenEvents
    <3>4. EventInv'
      BY <3>1, <3>2 DEF EventInv
    <3>5. IsPrefix(read', written')
      BY <1>p, <1>w, <2>1, <3>1
    <3> QED BY <1>g, <1>w, <2>1, <3>3, <3>4, <3>5
  <2>4. CASE piece = "head"
    <3>1. part' = DataLine(f, "tail") /\ written' = written
      BY <1>7, <2>4 DEF WriteFrame
    <3>2. EventHalfWritten'
      BY <1>w, <2>1, <2>2, <2>4, <3>1 DEF EventHalfWritten, BetweenEvents
    <3> QED BY <1>g, <1>i, <1>p, <1>w, <2>1, <3>1, <3>2 DEF FramesInv, EventInv
  <2> QED BY <2>3, <2>4
<1>8. CASE WriteRest
  <2>1. Writes(part) /\ part # NoLine
    BY <1>8 DEF WriteRest
  <2>2. CASE part = BlankLine
    <3>1. part' = NoLine /\ written' = written
      BY <1>8, <2>2 DEF WriteRest
    <3>2. PICK f \in Frames[p] : Whole(f)
      BY <1>w, <2>1, <2>2, LinesDiffer DEF EventHalfWritten
    <3>3. EventWritten'
      BY <1>w, <2>1, <2>2, <3>1, <3>2 DEF EventWritten, Whole
    <3> QED BY <1>g, <1>i, <1>p, <1>w, <2>1, <3>1, <3>3 DEF FramesInv, EventInv
  <2>3. CASE part # BlankLine
    <3>1. PICK f \in Frames[p] :
              /\ part = DataLine(f, "tail") /\ written = read
              /\ buffer = <<DataLine(f, "head")>>
      <4>1. EventHalfWritten
        BY <1>w, <2>1, <2>3
      <4> QED BY <1>w, <2>1, <4>1 DEF EventHalfWritten
    <3>2. part.frame = f
      BY <3>1, LineKinds
    <3>3. part' = BlankLine /\ written' = Append(read, f)
      BY <1>8, <2>3, <3>1, <3>2 DEF WriteRest
    <3>4. EventUnclosed'
      BY <1>w, <2>1, <3>1, <3>3 DEF EventUnclosed
    <3>5. written' \in Seq(Decoded \cup {DoneFrame})
      BY <1>i, <1>p, <3>3 DEF FramesInv
    <3>6. EventInv' /\ IsPrefix(read', written')
      BY <1>p, <1>w, <2>1, <3>3, <3>4 DEF EventInv
    <3> QED BY <1>g, <1>w, <2>1, <3>5, <3>6
  <2> QED BY <2>2, <2>3
<1>9. CASE KeepAlive
  <2>1. Writes(Noise) /\ part' = part /\ written' = written
    BY <1>9 DEF KeepAlive
  <2>2. wire' \in Quietly
    BY <1>w, <2>1 DEF Quietly
  <2>3. EventInv'
    <3>1. CASE part = NoLine /\ BetweenEvents
      BY <1>w, <2>1, <2>2, <3>1 DEF EventInv, BetweenEvents
    <3>2. CASE part = BlankLine /\ \E f \in Frames[p] : Whole(f)
      BY <1>w, <2>1, <2>2, <3>2 DEF EventInv, EventUnclosed, Whole
    <3>3. CASE EventHalfWritten
      BY <1>w, <2>1, <2>2, <3>3 DEF EventInv, EventHalfWritten
    <3> QED BY <1>w, <2>1, <3>1, <3>2, <3>3
  <2> QED BY <1>g, <1>i, <1>p, <1>w, <2>1, <2>3 DEF FramesInv
<1>10. ASSUME NEW how, Hangs(how) PROVE WholeInv'
  <2>1. up = "open" /\ UNCHANGED <<pc, wire, part, written, read, buffer, outcome, call, p>>
    BY <1>10 DEF Hangs, readVars, callVars
  <2>2. EventInv'
    BY <1>i, <2>1 DEF EventInv, BetweenEvents, EventWritten, EventUnclosed, EventHalfWritten, Whole
  <2> QED BY <1>i, <2>1, <2>2 DEF WholeInv, FramesInv, WholeOrError
(* What the adapter reads.                                                   *)
<1>l. ASSUME wire # <<>> PROVE wire = <<wire[1]>> /\ Tail(wire) = <<>> /\ Head(wire) = wire[1]
  <2>1. wire = <<wire[1]>>
    BY <1>l DEF SilenceInv
  <2> QED BY <2>1, OneLine
<1>11. CASE ReadNoise
  <2>1. /\ pc = "reading" /\ UNCHANGED <<pc, outcome, call, p, read, buffer, up, part, written>>
        /\ wire # <<>> /\ wire[1].kind = "noise" /\ wire' = <<>>
    BY <1>11, <1>l DEF ReadNoise, Reads
  <2>2. EventInv'
    <3>1. wire # <<BlankLine>> /\ \A f, piece : wire # <<DataLine(f, piece)>>
      BY <2>1, LineKinds
    <3> QED BY <1>i, <2>1, <3>1
            DEF EventInv, BetweenEvents, EventWritten, EventUnclosed, EventHalfWritten, Whole,
                Quietly
  <2> QED BY <1>g, <1>i, <1>p, <2>1, <2>2 DEF FramesInv
<1>12. CASE ReadData
  <2>1. /\ pc = "reading" /\ UNCHANGED <<pc, outcome, call, p, read, up, part, written>>
        /\ wire # <<>> /\ wire[1].kind = "data" /\ wire' = <<>>
        /\ buffer' = Append(buffer, wire[1])
    BY <1>12, <1>l DEF ReadData, Reads
  <2>2. EventInv'
    <3>1. wire # <<BlankLine>> /\ wire \notin Quietly
      BY <2>1, LineKinds DEF Quietly
    <3>2. CASE part = BlankLine
      <4>1. PICK f \in Frames[p] :
                /\ written = Append(read, f)
                /\ \/ buffer = <<>> /\ wire[1] = DataLine(f, "whole")
                   \/ buffer = <<DataLine(f, "head")>> /\ wire[1] = DataLine(f, "tail")
        BY <1>i, <2>1, <3>1, <3>2, LinesDiffer DEF EventInv, EventUnclosed, EventHalfWritten
      <4>2. Whole(f)'
        BY <2>1, <4>1, PayloadOf DEF Whole
      <4> QED BY <2>1, <3>2, <4>2 DEF EventInv, EventUnclosed, Quietly
    <3>3. CASE part # BlankLine
      <4>1. PICK f \in Frames[p] : /\ part = DataLine(f, "tail") /\ written = read
                                   /\ buffer = <<>> /\ wire[1] = DataLine(f, "head")
        BY <1>i, <2>1, <3>1, <3>3 DEF EventInv, BetweenEvents, EventWritten, EventHalfWritten
      <4>2. buffer' = <<DataLine(f, "head")>>
        BY <2>1, <4>1, PayloadOf
      <4> QED BY <2>1, <4>1, <4>2 DEF EventInv, EventHalfWritten, Quietly
    <3> QED BY <3>2, <3>3
  <2> QED BY <1>g, <1>i, <1>p, <2>1, <2>2 DEF FramesInv
(* An event that is whole is surfaced, or ends the stream.                   *)
<1>s. ASSUME NEW f \in Frames[p], Whole(f), pc = "reading", part.kind # "data",
             UNCHANGED <<written, part, call, p>>, buffer' = <<>>, wire' = <<>>,
             \/ Payload(buffer) = DoneFrame /\ Finished
             \/ Payload(buffer) # DoneFrame /\ Deliver(Payload(buffer)),
             written' = read' => EventInv'
      PROVE  WholeInv'
  <2>1. Payload(buffer) = f /\ written = Append(read, f)
    BY <1>s, PayloadOf DEF Whole
  <2>2. CASE f = DoneFrame
    BY <1>i, <1>s, <2>1, <2>2, FinishedWhole DEF WholeInv
  <2>3. CASE f # DoneFrame
    <3>1. f \in Decoded /\ Deliver(f)
      BY <1>p, <1>s, <2>1, <2>3
    <3>2. FramesInv' /\ written' = read' /\ outcome' # "ok"
      BY <1>i, <1>s, <2>1, <3>1, Surfaced
    <3>3. IsPrefix(read', written')
      BY <3>2, PrefixOfAppend DEF FramesInv
    <3> QED BY <1>s, <3>2, <3>3 DEF WholeInv, WholeOrError
  <2> QED BY <2>2, <2>3
<1>13. CASE ReadBlank
  <2>1. /\ pc = "reading" /\ UNCHANGED <<written, part, call, p, up>> /\ buffer' = <<>>
        /\ wire # <<>> /\ wire[1].kind = "blank" /\ wire' = <<>>
    BY <1>13, <1>l DEF ReadBlank, Reads
  <2>2. wire \notin Quietly /\ \A f, piece : wire # <<DataLine(f, piece)>>
    BY <2>1, LineKinds DEF Quietly
  <2>3. part = NoLine /\ \E f \in Frames[p] : Whole(f)
    BY <1>i, <2>1, <2>2
       DEF EventInv, BetweenEvents, EventWritten, EventUnclosed, EventHalfWritten
  <2>4. PICK f \in Frames[p] : Whole(f)
    BY <2>3
  <2>5. buffer # <<>>
    BY <2>4, PayloadOf DEF Whole
  <2>6. \/ Payload(buffer) = DoneFrame /\ Finished
        \/ Payload(buffer) # DoneFrame /\ Deliver(Payload(buffer))
    BY <1>13, <2>5 DEF ReadBlank
  <2>7. written' = read' => EventInv'
    BY <2>1, <2>3 DEF EventInv, BetweenEvents, Quietly
  <2> QED BY <1>s, <2>1, <2>3, <2>4, <2>6, <2>7, LineKinds
<1>14. CASE ReadEnd
  <2>1. /\ pc = "reading" /\ UNCHANGED <<written, part, call, p, up, wire>> /\ buffer' = <<>>
        /\ wire = <<>> /\ up = "closed"
        /\ \/ (buffer = <<>> \/ Payload(buffer) = DoneFrame) /\ Finished
           \/ buffer # <<>> /\ Payload(buffer) # DoneFrame /\ Deliver(Payload(buffer))
    BY <1>14 DEF ReadEnd, netVars
  <2>2. CASE part \in {NoLine, BlankLine} /\ buffer = <<>> /\ written = read
    <3>1. Finished /\ part.kind # "data"
      BY <2>1, <2>2, LineKinds
    <3> QED BY <1>i, <2>1, <2>2, <3>1, FinishedWhole DEF WholeInv
  <2>3. CASE part = BlankLine /\ \E f \in Frames[p] : Whole(f)
    <3>1. PICK f \in Frames[p] : Whole(f)
      BY <2>3
    <3>2. buffer # <<>>
      BY <3>1, PayloadOf DEF Whole
    <3>3. written' = read' => EventInv'
      BY <2>1, <2>3 DEF EventInv, EventUnclosed
    <3> QED BY <1>s, <2>1, <2>3, <3>1, <3>2, <3>3, LineKinds
  <2>4. CASE EventHalfWritten
    <3>1. PICK f \in Frames[p] : buffer = <<DataLine(f, "head")>>
      BY <2>1, <2>4 DEF EventHalfWritten
    <3>2. Payload(buffer) = Garbage /\ buffer # <<>>
      BY <3>1, PayloadOf
    <3>3. Deliver(Garbage)
      BY <2>1, <3>2, NotDecoded
    <3>4. read' = read /\ pc' = "ended" /\ outcome' # "ok"
      BY <3>3 DEF Deliver, Ends
    <3> QED BY <2>1, <3>4, EndedWhole
  <2> QED BY <1>i, <2>1, <2>2, <2>3, <2>4 DEF EventInv, BetweenEvents, EventWritten, EventUnclosed
<1>15. CASE ReadFault \/ IdleStall \/ FirstTokenStall
  BY <1>15, EndedWhole DEF ReadFault, IdleStall, FirstTokenStall, Fails, Ends, netVars, readVars
<1>16. CASE Abandon
  BY <1>16, EndedWhole DEF Abandon, netVars, readVars
<1>17. CASE AskNext \/ Tick
  <2>1. /\ UNCHANGED <<wire, part, written, read, buffer, outcome, call, p, up>>
        /\ \/ pc = "held" /\ pc' = "reading"
           \/ pc' = pc
    BY <1>17 DEF AskNext, Tick, netVars, readVars, callVars
  <2>2. EventInv'
    BY <1>i, <2>1 DEF EventInv, BetweenEvents, EventWritten, EventUnclosed, EventHalfWritten, Whole
  <2> QED BY <1>i, <2>1, <2>2 DEF WholeInv, FramesInv, WholeOrError
<1>18. CASE UNCHANGED vars
  <2>1. UNCHANGED <<pc, wire, part, written, read, buffer, outcome, call, p, up>>
    BY <1>18 DEF vars, netVars, readVars, callVars
  <2>2. EventInv'
    BY <1>i, <2>1 DEF EventInv, BetweenEvents, EventWritten, EventUnclosed, EventHalfWritten, Whole
  <2> QED BY <1>i, <2>1, <2>2 DEF WholeInv, FramesInv, WholeOrError
<1> QED BY <1>1, <1>2, <1>3, <1>4, <1>5, <1>6, <1>7, <1>8, <1>9, <1>10, <1>11, <1>12, <1>13,
           <1>14, <1>15, <1>16, <1>17, <1>18 DEF Next, Reader, Timeout

LEMMA WholeAlways == Spec => []WholeInv
<1>1. Init => WholeInv
  <2>1. IsPrefix(<<>>, <<>>)
    BY EmptySeq DEF IsPrefix
  <2>2. Init => FramesInv /\ EventInv
    BY EmptySeq DEF Init, FramesInv, EventInv, Streaming
  <2> QED BY <2>1, <2>2 DEF Init, WholeInv, WholeOrError
<1> QED BY <1>1, SilenceAlways, WholeInductive, PTL DEF Spec

(* A stream that ends well has delivered every frame the provider wrote, in  *)
(* order and whole, wherever the lines, the keepalives and the close of the  *)
(* connection fall (_stream_events, route_stream).                           *)
THEOREM StreamsAreWhole == Spec => []WholeOrError
<1>1. WholeInv => WholeOrError
  BY DEF WholeInv
<1> QED BY <1>1, WholeAlways, PTL

-----------------------------------------------------------------------------
(* Hints                                                                     *)

LEMMA HintInductive == HintInv /\ [Next]_vars => HintInv'
<1> SUFFICES ASSUME HintInv, [Next]_vars PROVE HintInv'
  OBVIOUS
<1>k. ASSUME UNCHANGED <<hint, applied, carried>>,
             pc' \notin {"calling", "idle"} \/ (pc' = pc /\ call' = call)
      PROVE  HintInv'
  BY <1>k DEF HintInv
<1>p. ASSUME pc = "calling", Publish, applied' = applied, pc' \notin {"calling", "idle"}
      PROVE  HintInv'
  BY <1>p DEF HintInv, Publish
<1>1. ASSUME NEW q, NextAttempt(q) PROVE HintInv'
  BY <1>1 DEF NextAttempt, Fresh, HintInv
<1>2. ASSUME NEW kind, NEW q, NewRequest(kind, q) PROVE HintInv'
  BY <1>2 DEF NewRequest, Fresh, HintInv
<1>3. CASE Settle
  BY <1>3 DEF Settle, TakeHint, HintInv, callVars
<1>4. CASE TransportFails
  BY <1>4, <1>k DEF TransportFails, Ends, hintVars
<1>5. ASSUME NEW err, RespondError(err) PROVE HintInv'
  BY <1>5, <1>p DEF RespondError, Ends
<1>6. ASSUME NEW e, Complete(e) PROVE HintInv'
  BY <1>6, <1>p DEF Complete, Ends
<1>7. CASE CheckKey
  BY <1>7, <1>p DEF CheckKey, Ends
<1>8. CASE Connect
  BY <1>8, <1>p DEF Connect
<1>9. ASSUME NEW line, Writes(line) PROVE HintInv'
  BY <1>9, <1>k DEF Writes, hintVars, callVars
<1>10. CASE (\E f \in Frames[p], piece \in {"whole", "head"} : WriteFrame(f, piece))
              \/ WriteRest \/ KeepAlive
  BY <1>9, <1>10 DEF WriteFrame, WriteRest, KeepAlive
<1>11. ASSUME NEW how, Hangs(how) PROVE HintInv'
  BY <1>11, <1>k DEF Hangs, hintVars, callVars
<1>d. ASSUME NEW f, Deliver(f) PROVE pc' \in {"reading", "held", "ended"}
  BY <1>d DEF Deliver, Ends
<1>12. CASE ReadNoise \/ ReadData \/ ReadBlank
  <2>1. UNCHANGED <<hint, applied, carried, call>>
    BY <1>12 DEF ReadNoise, ReadData, ReadBlank, Reads, hintVars
  <2>2. pc' \in {"reading", "held", "ended"}
    BY <1>12, <1>d DEF ReadNoise, ReadData, ReadBlank, Reads, Finished, Ends
  <2> QED BY <1>k, <2>1, <2>2
<1>13. CASE ReadEnd
  BY <1>13, <1>k, <1>d DEF ReadEnd, Finished, Ends, hintVars
<1>14. CASE ReadFault \/ IdleStall \/ FirstTokenStall
  BY <1>14, <1>k DEF ReadFault, IdleStall, FirstTokenStall, Fails, Ends, hintVars
<1>15. CASE AskNext \/ Abandon
  BY <1>15 DEF AskNext, Abandon, HintInv, callVars
<1>16. CASE Tick
  BY <1>16, <1>k DEF Tick, hintVars, callVars
<1>17. CASE UNCHANGED vars
  BY <1>17, <1>k DEF vars, hintVars, callVars
<1> QED BY <1>1, <1>2, <1>3, <1>4, <1>5, <1>6, <1>7, <1>8, <1>10, <1>11, <1>12, <1>13,
           <1>14, <1>15, <1>16, <1>17 DEF Next, Reader, Timeout

-----------------------------------------------------------------------------
(* Replies                                                                   *)

LEMMA ReplyInductive == FramesInv /\ ReplyInv /\ [Next]_vars => ReplyInv'
<1> SUFFICES ASSUME FramesInv, ReplyInv, [Next]_vars PROVE ReplyInv'
  OBVIOUS
<1> USE AdapterAssumption DEF Streaming
<1>a. p \in Providers
  BY DEF FramesInv
(* A step before or beside any reply.                                        *)
<1>n. ASSUME pc \in {"calling", "reading", "held"}, UNCHANGED <<reply, wait, call>>,
             outcome' # "invalid", outcome' = "ok" => call = "stream"
      PROVE  ReplyInv'
  BY <1>n DEF ReplyInv
<1>k. ASSUME UNCHANGED <<reply, wait, call, p, outcome, spent>>,
             pc \in {"ended", "idle"} => pc' \in {"ended", "idle"}
      PROVE  ReplyInv'
  BY <1>k DEF ReplyInv, Answered, Failed
<1>s. Streaming => call = "stream" /\ outcome = "none"
  BY DEF FramesInv
<1>c. pc = "calling" => reply = NoReply /\ wait = NoWait /\ outcome = "none"
  BY DEF FramesInv, ReplyInv
<1>1. ASSUME NEW q, NextAttempt(q) PROVE ReplyInv'
  BY <1>1 DEF NextAttempt, Fresh, ReplyInv
<1>2. ASSUME NEW kind, NEW q, NewRequest(kind, q) PROVE ReplyInv'
  BY <1>2 DEF NewRequest, Fresh, ReplyInv
<1>3. CASE Settle
  BY <1>3, <1>k DEF Settle, callVars
<1>4. CASE TransportFails
  BY <1>4, <1>n DEF TransportFails, Ends
<1>5. ASSUME NEW err \in Errors[p], RespondError(err) PROVE ReplyInv'
  <2>1. err \in HttpErrors /\ Plausible(err.wait)
    BY <1>a
  <2>2. /\ reply' = err /\ call' = call /\ call # "validate" /\ p' = p /\ pc' = "ended"
        /\ outcome' = Classify(p, err)
        /\ wait' = IF Classify(p, err) = "rate_limited" THEN RetryAfter(p, err) ELSE NoWait
    BY <1>5 DEF RespondError, Ends
  <2>3. Failed'
    BY <2>1, <2>2 DEF Failed
  <2> QED BY <2>2, <2>3 DEF ReplyInv
<1>6. ASSUME NEW e \in Bodies[p], Complete(e) PROVE ReplyInv'
  <2>1. e \in Decoded
    BY <1>a
  <2>2. Answered' /\ pc' = "ended"
    BY <1>6, <1>c, <2>1 DEF Complete, Ends, Answered
  <2> QED BY <2>2 DEF ReplyInv
<1>7. CASE CheckKey
  <2>1. CASE Ends("valid") /\ UNCHANGED reply
    BY <1>7, <1>n, <2>1 DEF CheckKey, Ends
  <2>2. ASSUME NEW err \in Errors[p], reply' = err, Ends(ValidateKey(p, err)) PROVE ReplyInv'
    <3>1. err \in HttpErrors /\ Plausible(err.wait)
      BY <1>a
    <3>2. Failed' /\ pc' = "ended"
      BY <1>7, <1>c, <2>2, <3>1 DEF CheckKey, Ends, Failed
    <3> QED BY <3>2 DEF ReplyInv
  <2> QED BY <1>7, <2>1, <2>2 DEF CheckKey
<1>8. CASE Connect
  BY <1>8, <1>k DEF Connect, callVars
<1>9. ASSUME NEW line, Writes(line) PROVE ReplyInv'
  BY <1>9, <1>k DEF Writes, callVars
<1>10. CASE (\E f \in Frames[p], piece \in {"whole", "head"} : WriteFrame(f, piece))
              \/ WriteRest \/ KeepAlive
  BY <1>9, <1>10 DEF WriteFrame, WriteRest, KeepAlive
<1>11. ASSUME NEW how, Hangs(how) PROVE ReplyInv'
  BY <1>11, <1>k DEF Hangs, callVars
<1>d. ASSUME NEW f, Deliver(f), pc = "reading" PROVE outcome' # "invalid" /\ outcome' # "ok"
  <2>1. ReadFrame(p, f) \in {"skip", "chunk"} \cup ErrorClasses
    BY <1>a, RepliesAreRead
  <2> QED BY <1>d, <1>s, <2>1 DEF Deliver, Ends, ErrorClasses
<1>12. CASE ReadNoise \/ ReadData
  BY <1>12, <1>n, <1>s DEF ReadNoise, ReadData, Reads
<1>13. CASE ReadBlank
  BY <1>13, <1>n, <1>d, <1>s DEF ReadBlank, Reads, Finished, Ends
<1>14. CASE ReadEnd
  BY <1>14, <1>n, <1>d, <1>s DEF ReadEnd, Finished, Ends
<1>15. CASE ReadFault \/ IdleStall \/ FirstTokenStall
  BY <1>15, <1>n DEF ReadFault, IdleStall, FirstTokenStall, Fails, Ends
<1>16. CASE AskNext
  BY <1>16, <1>k DEF AskNext, callVars
<1>17. CASE Abandon
  BY <1>17, <1>n DEF Abandon
<1>18. CASE Tick
  BY <1>18, <1>k DEF Tick, callVars
<1>19. CASE UNCHANGED vars
  BY <1>19, <1>k DEF vars, callVars
<1> QED BY <1>1, <1>2, <1>3, <1>4, <1>5, <1>6, <1>7, <1>8, <1>10, <1>11, <1>12, <1>13,
           <1>14, <1>15, <1>16, <1>17, <1>18, <1>19 DEF Next, Reader, Timeout

-----------------------------------------------------------------------------
(* The frames of a stream                                                    *)

(* What an event of a stream can join to.                                    *)
LEMMA PayloadKnown ==
    ASSUME WholeInv, Streaming, buffer # <<>>
    PROVE  Payload(buffer) \in Decoded \cup {DoneFrame, Garbage}
<1>1. Frames[p] \subseteq Decoded \cup {DoneFrame}
  BY AdapterAssumption DEF WholeInv, FramesInv
<1>2. \A f \in Frames[p] : Whole(f) => Payload(buffer) = f
  BY PayloadOf DEF Whole
<1>3. \A f \in Frames[p] : buffer = <<DataLine(f, "head")>> => Payload(buffer) = Garbage
  BY PayloadOf
<1> QED
  BY <1>1, <1>2, <1>3
     DEF WholeInv, EventInv, BetweenEvents, EventWritten, EventUnclosed, EventHalfWritten

(* What a usage report comes to.                                             *)
LEMMA MeasuredUsage ==
    ASSUME NEW e \in Decoded, NEW q
    PROVE  /\ ~Measured(q, e.usage).estimated /\ Measured(q, e.usage) # FreeUsage
           /\ e.usage # NoUsage =>
                  Measured(q, e.usage).in + Measured(q, e.usage).out =
                      e.usage.in + e.usage.out + (IF q = "gemini" THEN e.usage.thoughts ELSE 0)
<1>1. ~Measured(q, e.usage).estimated
  BY DEF Measured, UsageGemini, UsageReported
<1>2. FreeUsage.estimated
  BY DEF FreeUsage
<1>3. e.usage # NoUsage => e.usage \in [in : Nat, out : Nat, thoughts : Nat]
  BY DEF Decoded, Usages
<1>4. e.usage # NoUsage =>
          Measured(q, e.usage).in + Measured(q, e.usage).out =
              e.usage.in + e.usage.out + (IF q = "gemini" THEN e.usage.thoughts ELSE 0)
  BY <1>3 DEF Measured, UsageGemini, UsageReported
<1> QED BY <1>1, <1>2, <1>4

(* Only a frame that is an object is a chunk.                                *)
LEMMA ReadObjects ==
    ASSUME NEW q \in Providers, NEW e \in Decoded, ReadFrame(q, e) \in {"skip", "chunk"}
    PROVE  e.object = (ReadFrame(q, e) = "chunk")
<1>1. e.object \in BOOLEAN
  BY DEF Decoded
<1>2. /\ FrameGroq(e) # "skip" /\ FrameGemini(e) # "skip"
      /\ FrameOpenRouter(e) # "skip"
  BY DEF FrameGroq, FrameGemini, FrameOpenRouter, ClassifyOpenRouter
<1>3. CASE e.object
  BY <1>1, <1>2, <1>3 DEF ReadFrame
<1>4. CASE ~e.object
  BY <1>1, <1>4 DEF ReadFrame
<1> QED BY <1>3, <1>4

(* A delivered frame is read, judged and charged.                            *)
LEMMA DeliverCharges ==
    ASSUME FramesInv, StreamInv, pc = "reading", NEW f \in Decoded \cup {Garbage}, Deliver(f),
           UNCHANGED <<call, p>>
    PROVE  StreamInv'
<1>0. /\ p \in Providers /\ read \in Seq(Decoded) /\ outcome = "none" /\ Len(read) \in Nat
      /\ DOMAIN read = 1..Len(read)
      /\ ChargedSoFar /\ \A i \in 1..Len(read) : ~Declines(p, read[i])
  BY LenProperties DEF FramesInv, StreamInv, Streaming
<1>1. CASE f = Garbage
  <2>1. read' = read /\ pc' = "ended" /\ outcome' = "unavailable"
    BY <1>1 DEF Deliver, Ends
  <2> QED BY <1>0, <2>1 DEF StreamInv, Streaming
<1>2. CASE f # Garbage
  <2> DEFINE n == Len(read) + 1
  <2>1. f \in Decoded /\ read' = Append(read, f)
    BY <1>2 DEF Deliver
  <2>2. /\ Len(read') = n /\ DOMAIN read' = 1..n /\ read'[n] = f
        /\ \A i \in 1..Len(read) : read'[i] = read[i]
    BY <1>0, <2>1
  <2>3. (\A i \in 1..n : ~Declines(p, read'[i])) \/ Declines(p, f)
    BY <1>0, <2>2
  <2>4. Declines(p, f) => ReadFrame(p, f) = "content_filtered"
    BY <1>0, <2>1, RefusalsAreRead
  <2>5. f.object \in BOOLEAN
    BY <2>1 DEF Decoded
  <2>6. CASE ReadFrame(p, f) \notin {"skip", "chunk"}
    <3>1. pc' = "ended" /\ outcome' = ReadFrame(p, f) /\ outcome' # "ok"
      BY <1>0, <1>2, <2>6, RepliesAreRead DEF Deliver, Ends, ErrorClasses
    <3> QED BY <2>2, <2>3, <2>4, <3>1 DEF StreamInv, Streaming
  <2>7. CASE ReadFrame(p, f) \in {"skip", "chunk"}
    <3>1. pc' \in {"reading", "held"} /\ outcome' = "none"
      BY <1>0, <1>2, <2>7 DEF Deliver
    <3>2. \A i \in 1..n : ~Declines(p, read'[i])
      BY <2>3, <2>4, <2>7
    <3>3. f.object = (ReadFrame(p, f) = "chunk")
      BY <1>0, <2>1, <2>5, <2>7, ReadObjects
    <3>4. Reports' = IF f.object /\ f.usage # NoUsage THEN Reports \cup {n} ELSE Reports
      BY <1>0, <2>2 DEF Reports
    <3>5. CASE f.object /\ f.usage # NoUsage
      <4>1. spent' = Measured(p, f.usage)
        BY <1>2, <3>3, <3>5 DEF Deliver
      <4>2. n \in Reports' /\ \A j \in Reports' : j <= n
        BY <1>0, <3>4, <3>5 DEF Reports
      <4>3. ByLastReport'
        BY <2>2, <4>1, <4>2 DEF ByLastReport
      <4> QED BY <2>2, <3>1, <3>2, <4>2, <4>3 DEF StreamInv, ChargedSoFar, Streaming
    <3>6. CASE ~(f.object /\ f.usage # NoUsage)
      <4>1. spent' = spent /\ Reports' = Reports
        BY <1>2, <2>5, <2>7, <3>3, <3>4, <3>6 DEF Deliver
      <4>2. \A i \in Reports : read'[i] = read[i]
        BY <1>0, <2>2 DEF Reports
      <4>3. ChargedSoFar'
        BY <1>0, <4>1, <4>2 DEF ChargedSoFar, ByLastReport
      <4> QED BY <2>2, <3>1, <3>2, <4>3 DEF StreamInv, Streaming
    <3> QED BY <3>5, <3>6
  <2> QED BY <2>6, <2>7
<1> QED BY <1>1, <1>2

LEMMA StreamInductive == WholeInv /\ StreamInv /\ [Next]_vars => StreamInv'
<1> SUFFICES ASSUME WholeInv, StreamInv, [Next]_vars PROVE StreamInv'
  OBVIOUS
<1> USE DEF Streaming
<1>i. FramesInv
  BY DEF WholeInv
<1>k. ASSUME UNCHANGED <<read, spent, call, p, outcome>>,
             pc' = "calling" => pc = "calling",
             pc' \in {"reading", "held"} => pc \in {"reading", "held"}
      PROVE  StreamInv'
  BY <1>k DEF StreamInv, ChargedSoFar, StreamCharged, Reports, ByLastReport
(* A step that ends a stream or a call, and not as a stream that went well.  *)
<1>e. ASSUME pc \in {"calling", "reading", "held"}, pc' \in {"ended", "idle"},
             UNCHANGED <<read, call, p>>, outcome' = "ok" => call # "stream"
      PROVE  StreamInv'
  <2>1. \A i \in 1..Len(read) : ~Declines(p, read[i])
    BY <1>e, <1>i DEF FramesInv, StreamInv
  <2> QED BY <1>e, <2>1 DEF StreamInv
<1>c. pc = "calling" => read = <<>> /\ spent = FreeUsage
  BY <1>i DEF FramesInv, StreamInv
<1>f. ASSUME NEW kind, NEW q, Fresh(kind, q) PROVE StreamInv'
  BY <1>f DEF Fresh, StreamInv
<1>1. ASSUME NEW q, NextAttempt(q) PROVE StreamInv'
  BY <1>1, <1>f DEF NextAttempt
<1>2. ASSUME NEW kind, NEW q, NewRequest(kind, q) PROVE StreamInv'
  BY <1>2, <1>f DEF NewRequest
<1>3. CASE Settle
  BY <1>3, <1>k DEF Settle, readVars, callVars
<1>4. CASE TransportFails
  BY <1>4, <1>e DEF TransportFails, Ends, readVars
<1>5. ASSUME NEW err \in Errors[p], RespondError(err) PROVE StreamInv'
  <2>1. Classify(p, err) # "ok"
    BY <1>i, ErrorsAreClassified DEF FramesInv, ErrorClasses
  <2> QED BY <1>5, <1>e, <2>1 DEF RespondError, Ends, readVars
<1>6. ASSUME NEW e \in Bodies[p], Complete(e) PROVE StreamInv'
  BY <1>6, <1>e DEF Complete, Ends, readVars
<1>7. CASE CheckKey
  BY <1>7, <1>e DEF CheckKey, Ends, readVars
<1>8. CASE Connect
  <2>1. read' = <<>> /\ spent' = FreeUsage /\ pc' = "reading" /\ outcome' = "none"
    BY <1>8, <1>c, <1>i DEF Connect, readVars, callVars, FramesInv
  <2>2. Reports' = {}
    BY <2>1 DEF Reports
  <2> QED BY <2>1, <2>2 DEF StreamInv, ChargedSoFar
<1>9. ASSUME NEW line, Writes(line) PROVE StreamInv'
  BY <1>9, <1>k DEF Writes, readVars, callVars
<1>10. CASE (\E f \in Frames[p], piece \in {"whole", "head"} : WriteFrame(f, piece))
              \/ WriteRest \/ KeepAlive
  BY <1>9, <1>10 DEF WriteFrame, WriteRest, KeepAlive
<1>11. ASSUME NEW how, Hangs(how) PROVE StreamInv'
  BY <1>11, <1>k DEF Hangs, readVars, callVars
<1>d. ASSUME pc = "reading", Finished, UNCHANGED <<call, p>> PROVE StreamInv'
  <2>1. /\ read' = read /\ pc' = "ended" /\ outcome' \in {"ok", "empty_response"}
        /\ spent' = IF spent # FreeUsage THEN spent
                    ELSE [in |-> Estimate, out |-> Len(got) \div AdapterCharsPerToken,
                          estimated |-> TRUE]
    BY <1>d DEF Finished, Ends
  <2>2. ChargedSoFar /\ \A i \in 1..Len(read) : ~Declines(p, read[i])
    BY <1>d DEF StreamInv
  <2>3. Reports' = Reports
    BY <2>1 DEF Reports
  <2>4. CASE Reports = {}
    <3>1. spent'.estimated /\ spent'.in = Estimate
      BY <2>1, <2>2, <2>4 DEF ChargedSoFar
    <3> QED BY <1>d, <2>1, <2>2, <2>3, <2>4, <3>1 DEF StreamInv, StreamCharged
  <2>5. CASE Reports # {}
    <3>1. PICK i \in Reports : (\A j \in Reports : j <= i) /\ spent = Measured(p, read[i].usage)
      BY <2>2, <2>5 DEF ChargedSoFar, ByLastReport
    <3>2. read[i] \in Decoded
      BY <1>i, ElementOfSeq, LenProperties DEF Reports, FramesInv
    <3>3. ~spent.estimated /\ spent # FreeUsage
      BY <3>1, <3>2, MeasuredUsage
    <3>4. spent' = spent
      BY <2>1, <3>3
    <3>5. ByLastReport'
      BY <1>d, <2>1, <2>3, <3>1, <3>4 DEF ByLastReport
    <3> QED BY <1>d, <2>1, <2>2, <2>3, <2>5, <3>3, <3>4, <3>5 DEF StreamInv, StreamCharged
  <2> QED BY <2>4, <2>5
<1>12. CASE ReadNoise \/ ReadData
  BY <1>12, <1>k DEF ReadNoise, ReadData, Reads
<1>13. CASE ReadBlank
  <2>1. pc = "reading" /\ UNCHANGED <<call, p>>
    BY <1>13 DEF ReadBlank, Reads
  <2>2. CASE buffer = <<>>
    <3>1. UNCHANGED <<pc, read, outcome, spent>>
      BY <1>13, <2>2 DEF ReadBlank
    <3> QED BY <1>k, <2>1, <3>1
  <2>3. CASE buffer # <<>>
    <3>1. Payload(buffer) \in Decoded \cup {DoneFrame, Garbage}
      BY <2>1, <2>3, PayloadKnown
    <3> QED BY <1>13, <1>d, <1>i, <2>1, <2>3, <3>1, DeliverCharges DEF ReadBlank
  <2> QED BY <2>2, <2>3
<1>14. CASE ReadEnd
  <2>1. pc = "reading" /\ UNCHANGED <<call, p>>
    BY <1>14 DEF ReadEnd
  <2>2. buffer # <<>> => Payload(buffer) \in Decoded \cup {DoneFrame, Garbage}
    BY <2>1, PayloadKnown
  <2> QED BY <1>14, <1>d, <1>i, <2>1, <2>2, DeliverCharges DEF ReadEnd
<1>15. CASE ReadFault \/ IdleStall \/ FirstTokenStall
  BY <1>15, <1>e DEF ReadFault, IdleStall, FirstTokenStall, Fails, Ends, readVars
<1>16. CASE AskNext
  BY <1>16, <1>k DEF AskNext, readVars, callVars
<1>17. CASE Abandon
  BY <1>17, <1>e DEF Abandon, readVars
<1>18. CASE Tick
  BY <1>18, <1>k DEF Tick, callVars
<1>19. CASE UNCHANGED vars
  BY <1>19, <1>k DEF vars, readVars, callVars
<1> QED BY <1>1, <1>2, <1>3, <1>4, <1>5, <1>6, <1>7, <1>8, <1>10, <1>11, <1>12, <1>13,
           <1>14, <1>15, <1>16, <1>17, <1>18, <1>19 DEF Next, Reader, Timeout

-----------------------------------------------------------------------------
(* Types, and what the reply comes to                                        *)

(* The lines collected are those of one event.                               *)
LEMMA ShortBuffer ==
    EventInv /\ Streaming => Len(buffer) <= 2
<1> SUFFICES ASSUME EventInv, Streaming PROVE Len(buffer) <= 2
  OBVIOUS
<1>1. ASSUME NEW f, Assembles(buffer, f) PROVE Len(buffer) <= 2
  <2>1. \/ buffer = <<DataLine(f, "whole")>>
        \/ buffer = <<DataLine(f, "head"), DataLine(f, "tail")>>
    BY <1>1 DEF Assembles
  <2>2. Len(<<DataLine(f, "whole")>>) = 1
    OBVIOUS
  <2>3. Len(<<DataLine(f, "head"), DataLine(f, "tail")>>) = 2
    OBVIOUS
  <2>4. CASE buffer = <<DataLine(f, "whole")>>
    BY <2>2, <2>4
  <2>5. CASE buffer = <<DataLine(f, "head"), DataLine(f, "tail")>>
    BY <2>3, <2>5
  <2> QED BY <2>1, <2>4, <2>5
<1>2. ASSUME NEW f, buffer = <<DataLine(f, "head")>> PROVE Len(buffer) <= 2
  BY <1>2
<1>3. ASSUME buffer = <<>> PROVE Len(buffer) <= 2
  BY <1>3
<1>4. \/ buffer = <<>>
      \/ \E f \in Frames[p] : Assembles(buffer, f)
      \/ \E f \in Frames[p] : buffer = <<DataLine(f, "head")>>
  BY DEF EventInv, BetweenEvents, EventWritten, EventUnclosed, EventHalfWritten, Whole
<1> QED BY <1>1, <1>2, <1>3, <1>4

LEMMA TypeInductive ==
    TypeInv /\ WholeInv /\ WholeInv' /\ [Next]_vars => TypeInv'
<1> SUFFICES ASSUME TypeInv, WholeInv, WholeInv', [Next]_vars PROVE TypeInv'
  OBVIOUS
<1> USE AdapterAssumption DEF Streaming
<1>i. FramesInv
  BY DEF WholeInv
<1>a. p \in Providers
  BY <1>i DEF FramesInv
<1>b. \A f : Len(<<DataLine(f, "whole")>>) = 1 /\ Len(<<DataLine(f, "head")>>) = 1
             /\ Len(<<DataLine(f, "head"), DataLine(f, "tail")>>) = 2 /\ Len(<<>>) = 0
  OBVIOUS
<1>l. ASSUME Streaming' PROVE Len(buffer') <= 2
  <2>1. (EventInv /\ Streaming => Len(buffer) <= 2)'
    BY ShortBuffer, PTL
  <2> QED BY <1>l, <2>1 DEF WholeInv
<1>k. ASSUME UNCHANGED <<call, up, waited, left>>,
             pc' \in {"idle", "calling", "reading", "held", "ended"},
             outcome' \in {"none", "ok", "abandoned", "valid", "invalid"} \cup ErrorClasses,
             Len(buffer') <= 2
      PROVE  TypeInv'
  BY <1>k DEF TypeInv
<1>f. ASSUME NEW kind \in Calls, NEW q, Fresh(kind, q) PROVE TypeInv'
  BY <1>b, <1>f DEF Fresh, TypeInv
<1>1. ASSUME NEW q \in Providers, NextAttempt(q) PROVE TypeInv'
  BY <1>1, <1>f DEF NextAttempt, TypeInv
<1>2. ASSUME NEW kind \in Calls, NEW q \in Providers, NewRequest(kind, q) PROVE TypeInv'
  BY <1>2, <1>f DEF NewRequest
<1>3. CASE Settle \/ TransportFails
  BY <1>3, <1>k DEF Settle, TransportFails, Ends, netVars, readVars, callVars, TypeInv, ErrorClasses
<1>4. ASSUME NEW err \in Errors[p], RespondError(err) PROVE TypeInv'
  BY <1>4, <1>a, <1>k, ErrorsAreClassified DEF RespondError, Ends, netVars, readVars, TypeInv
<1>5. ASSUME NEW e \in Bodies[p], Complete(e) PROVE TypeInv'
  BY <1>5, <1>a, <1>k, RepliesAreRead DEF Complete, Ends, netVars, readVars, TypeInv
<1>6. CASE CheckKey
  BY <1>6, <1>a, <1>k, ErrorsAreClassified DEF CheckKey, Ends, netVars, readVars, TypeInv
<1>7. CASE Connect
  BY <1>7 DEF Connect, readVars, callVars, TypeInv
<1>8. ASSUME NEW line, Writes(line), left' \in 0..MaxFrames PROVE TypeInv'
  BY <1>8 DEF Writes, readVars, callVars, TypeInv
<1>9. CASE (\E f \in Frames[p], piece \in {"whole", "head"} : WriteFrame(f, piece))
             \/ WriteRest \/ KeepAlive
  BY <1>8, <1>9 DEF WriteFrame, WriteRest, KeepAlive, TypeInv
<1>10. ASSUME NEW how \in {"closed", "cut"}, Hangs(how) PROVE TypeInv'
  BY <1>10 DEF Hangs, readVars, callVars, TypeInv
<1>d. ASSUME pc = "reading", NEW f, Deliver(f)
      PROVE  /\ pc' \in {"reading", "held", "ended"}
             /\ outcome' \in {"none", "ok", "abandoned", "valid", "invalid"} \cup ErrorClasses
  <2>1. ReadFrame(p, f) \in {"skip", "chunk"} \cup ErrorClasses
    BY <1>a, RepliesAreRead
  <2>2. outcome = "none"
    BY <1>d, <1>i DEF FramesInv
  <2> QED BY <1>d, <2>1, <2>2 DEF Deliver, Ends, ErrorClasses
<1>s. Finished => /\ pc' = "ended"
                  /\ outcome' \in {"none", "ok", "abandoned", "valid", "invalid"} \cup ErrorClasses
  BY DEF Finished, Ends, ErrorClasses
<1>11. CASE ReadNoise \/ ReadData
  <2>1. UNCHANGED <<call, up, waited, left, pc, outcome>> /\ pc = "reading"
    BY <1>11 DEF ReadNoise, ReadData, Reads
  <2> QED BY <1>k, <1>l, <2>1 DEF TypeInv
<1>12. CASE ReadBlank
  <2>1. UNCHANGED <<call, up, waited, left>> /\ pc = "reading" /\ buffer' = <<>>
    BY <1>12 DEF ReadBlank, Reads
  <2>2. \/ UNCHANGED <<pc, outcome>> \/ Finished \/ \E f : Deliver(f)
    BY <1>12 DEF ReadBlank
  <2> QED BY <1>b, <1>d, <1>k, <1>s, <2>1, <2>2 DEF TypeInv
<1>13. CASE ReadEnd
  <2>1. UNCHANGED <<call, up, waited, left>> /\ pc = "reading" /\ buffer' = <<>>
    BY <1>13 DEF ReadEnd, netVars
  <2>2. Finished \/ \E f : Deliver(f)
    BY <1>13 DEF ReadEnd
  <2> QED BY <1>b, <1>d, <1>k, <1>s, <2>1, <2>2
<1>14. CASE ReadFault \/ IdleStall \/ FirstTokenStall
  BY <1>14, <1>k DEF ReadFault, IdleStall, FirstTokenStall, Fails, Ends, netVars, readVars,
     TypeInv, ErrorClasses
<1>15. CASE AskNext \/ Abandon
  BY <1>15, <1>k DEF AskNext, Abandon, netVars, readVars, callVars, TypeInv
<1>16. CASE Tick
  BY <1>16 DEF Tick, AtMost, netVars, callVars, TypeInv
<1>17. CASE UNCHANGED vars
  BY <1>17 DEF vars, netVars, readVars, callVars, TypeInv
<1> QED BY <1>1, <1>2, <1>3, <1>4, <1>5, <1>6, <1>7, <1>9, <1>10, <1>11, <1>12, <1>13,
           <1>14, <1>15, <1>16, <1>17 DEF Next, Reader, Timeout

(* The parts of ReadsTheReply, from what was received.                       *)
LEMMA ReplyRead ==
    ASSUME FramesInv, HintInv, ReplyInv, StreamInv
    PROVE  /\ wait \in Nat \cup {NoWait}
           /\ RefusalIsRead /\ WaitIsTheProviders /\ ChargedAsBilled
           /\ HintIsOwn /\ KeyVerdictIsEarned
<1>0. p \in Providers
  BY DEF FramesInv
<1>n. DOMAIN NoReply = {"none"}
  BY DEF NoReply
<1>d. \A e \in Decoded : "status" \notin DOMAIN e /\ "object" \in DOMAIN e /\ e # NoReply
  BY <1>n DEF Decoded
<1>e. \A err \in HttpErrors : "object" \notin DOMAIN err /\ err # NoReply
  BY <1>n DEF HttpErrors
<1>f. (\E i \in 1..Len(read) : Declines(p, read[i])) => outcome = "content_filtered"
  BY DEF StreamInv
<1>h. HintIsOwn
  BY DEF HintInv, HintIsOwn
<1>1. CASE /\ reply = NoReply /\ wait = NoWait
           /\ outcome # "invalid" /\ (outcome = "ok" => call = "stream")
  <2>1. RefusalIsRead /\ WaitIsTheProviders /\ KeyVerdictIsEarned
    BY <1>1, <1>f, <1>n DEF RefusalIsRead, Refuses, WaitIsTheProviders, KeyVerdictIsEarned
  <2>2. ChargedAsBilled
    BY <1>1 DEF ChargedAsBilled, StreamInv, StreamCharged
  <2> QED BY <1>1, <1>h, <2>1, <2>2
<1>2. CASE Answered
  <2>1. RefusalIsRead /\ WaitIsTheProviders /\ KeyVerdictIsEarned
    BY <1>0, <1>2, <1>d, <1>f, RefusalsAreRead
       DEF Answered, RefusalIsRead, Refuses, WaitIsTheProviders, KeyVerdictIsEarned
  <2>2. ChargedAsBilled
    <3>1. CASE reply.usage = NoUsage
      BY <1>2, <3>1 DEF Answered, UsageEstimated, ChargedAsBilled
    <3>2. CASE reply.usage # NoUsage
      <4>1. spent = Measured(p, reply.usage) /\ ~spent.estimated
        BY <1>2, <3>2, MeasuredUsage DEF Answered
      <4>2. spent.in + spent.out =
                reply.usage.in + reply.usage.out + (IF p = "gemini" THEN reply.usage.thoughts ELSE 0)
        BY <1>2, <3>2, <4>1, MeasuredUsage DEF Answered
      <4>3. spent.estimated = FALSE
        BY <4>1 DEF Measured, UsageGemini, UsageReported
      <4> QED BY <1>2, <3>2, <4>2, <4>3 DEF Answered, ChargedAsBilled
    <3> QED BY <3>1, <3>2
  <2> QED BY <1>2, <1>h, <2>1, <2>2 DEF Answered
<1>3. CASE Failed
  <2>1. /\ RetryAfter(p, reply) \in {NoWait, reply.wait.s} /\ reply.wait.s \in Nat
        /\ AsksToWait(p, reply) => Classify(p, reply) = "rate_limited"
    BY <1>0, <1>3, WaitsAreRead DEF Failed
  <2>2. /\ outcome \in {"invalid"} \cup ErrorClasses
        /\ call = "validate" => (outcome = "invalid" => RejectsTheKey(p, reply))
    BY <1>0, <1>3, ErrorsAreClassified DEF Failed
  <2>3. RefusalIsRead
    BY <1>0, <1>3, <1>e, <1>f, RefusingStatusesAreRead DEF Failed, RefusalIsRead, Refuses
  <2>4. WaitIsTheProviders /\ wait \in Nat \cup {NoWait}
    BY <1>3, <2>1 DEF Failed, WaitIsTheProviders
  <2>5. ChargedAsBilled /\ KeyVerdictIsEarned
    BY <2>2 DEF ChargedAsBilled, KeyVerdictIsEarned, ErrorClasses
  <2> QED BY <1>h, <2>3, <2>4, <2>5
<1> QED BY <1>1, <1>2, <1>3 DEF ReplyInv

(* What an adapter makes of a reply is what the provider meant, for any      *)
(* replies of the forms the adapters read and however a stream is cut up: a  *)
(* refusal is final wherever it stands, but for OpenRouter's moderation      *)
(* inside a 200, which Declines leaves out; a wait is the one asked for, an  *)
(* answer is charged as billed, a hint is the attempt's own, and a key is    *)
(* condemned only by a rejection (parse_error, parse_response, finish,       *)
(* validate_key).                                                            *)
THEOREM RepliesAreUnderstood == Spec => []ReadsTheReply
<1>1. Init => HintInv /\ ReplyInv /\ StreamInv /\ TypeInv
  BY AdapterAssumption, EmptySeq
     DEF Init, HintInv, ReplyInv, StreamInv, TypeInv, Streaming
<1>2. ASSUME SilenceInv, WholeInv, HintInv, ReplyInv, StreamInv, TypeInv PROVE ReadsTheReply
  <2>1. Len(wire) <= 1
    <3>1. Len(<<>>) = 0 /\ \A line : Len(<<line>>) = 1
      OBVIOUS
    <3> QED BY <1>2, <3>1 DEF SilenceInv
  <2>2. /\ wait \in Nat \cup {NoWait}
        /\ RefusalIsRead /\ WaitIsTheProviders /\ ChargedAsBilled
        /\ HintIsOwn /\ KeyVerdictIsEarned
    BY <1>2, ReplyRead DEF WholeInv
  <2>3. AdapterTypeOK
    BY <1>2, <2>1, <2>2 DEF AdapterTypeOK, SilenceInv, WholeInv, FramesInv, HintInv, TypeInv
  <2> QED BY <2>2, <2>3 DEF ReadsTheReply
<1>3. WholeInv => FramesInv
  BY DEF WholeInv
<1> QED BY <1>1, <1>2, <1>3, SilenceAlways, WholeAlways, HintInductive, ReplyInductive,
           StreamInductive, TypeInductive, PTL DEF Spec
=============================================================================
