------------------------- MODULE StreamOrchestrator -------------------------
(***************************************************************************)
(* One streamed turn end to end: route_stream (module Router) driven by    *)
(* stream_completion of streaming/orchestrator.py, primed by               *)
(* _stream_chat_completion, read by useSendMessage in the browser and      *)
(* handed to the collector.                                                *)
(*                                                                         *)
(* Text is one [attempt, cand] per delta, so that it shows who wrote it.   *)
(***************************************************************************)
EXTENDS Router

CONSTANT MinPartial   \* MIN_PARTIAL_CONTENT_CHARS, in deltas

ASSUME MinPartialAssumption == MinPartial \in Nat

VARIABLES
    stage,    \* what stream_completion is doing
    turn,     \* _Turn
    frames,   \* SSE frames still to be yielded
    client,   \* PendingTurn: what the browser shows
    away,     \* the client closed the connection
    stored    \* what the collector or the endpoint wrote

orchVars == <<stage, turn, frames, client, away, stored>>
vars == <<routerVars, orchVars>>

Piece(e) == [attempt |-> e.attempt, cand |-> e.cand]
Frame(kind, text) == [kind |-> kind, cand |-> turn'.spec, text |-> text]
NotDone == [status |-> "none", cand |-> 0, partial |-> <<>>]

NotStored == [kind |-> "none", text |-> <<>>, cand |-> 0]

Init ==
    /\ RouterInit
    /\ mode = "stream"       \* stream_completion drives route_stream, never route
    /\ stage = "wait"
    /\ turn = [buffer |-> <<>>, longest |-> <<>>, committed |-> FALSE, done |-> FALSE,
               attempts |-> 0, spec |-> 0, restart |-> 0, status |-> "ok"]
    /\ frames = <<>>
    /\ client = [phase |-> "silent", screen |-> <<>>, by |-> 0, cleared |-> 0,
                 bytes |-> FALSE, done |-> NotDone]
    /\ away = FALSE
    /\ stored = NotStored

(* The pending __anext__ runs only while the orchestrator waits for it.      *)
Drive == stage = "wait" /\ RouterStep /\ UNCHANGED orchVars

-----------------------------------------------------------------------------
(* _apply: fold one router event into the turn, and say what goes out.       *)

Longer(a, b) == IF Len(a) > Len(b) THEN a ELSE b


Begun(e) == [turn EXCEPT !.attempts = e.attempt, !.spec = e.cand]


(* Slip: a restart forgotten when the next attempt dies before its first     *)
(* token.                                                                    *)
AbortedForgettingRestart(e) ==
    [turn EXCEPT !.longest = Longer(turn.buffer, turn.longest),
                 !.restart = IF turn.buffer = <<>> THEN 0 ELSE e.cand,
                 !.buffer = <<>>]

Aborted(e) ==
    [turn EXCEPT !.longest = Longer(turn.buffer, turn.longest),
                 !.restart = IF turn.buffer = <<>> THEN @ ELSE e.cand,
                 !.buffer = <<>>]

Completed(e) ==
    [turn EXCEPT !.spec = e.cand, !.attempts = e.attempt, !.status = "ok", !.done = TRUE]

Said(e) ==
    [turn EXCEPT !.buffer = Append(@, [attempt |-> e.attempt, cand |-> e.cand]),
                 !.committed = TRUE, !.restart = 0]

(* meta before the first delta, restart before the first one of a successor. *)
LeadFrame ==
    IF ~turn.committed THEN <<Frame("meta", <<>>)>>
    ELSE IF turn.restart # 0 THEN <<Frame("restart", <<>>)>>
    ELSE <<>>

Apply ==
    /\ stage = "wait" /\ out # NoEvent
    /\ CASE out.kind = "started" -> turn' = Begun(out) /\ frames' = <<>>
         [] out.kind = "aborted" -> turn' = Aborted(out) /\ frames' = <<>>
         [] out.kind = "completed" ->
                turn' = Completed(out) /\ frames' = <<Frame("done", <<>>)>>
         [] out.kind = "delta" ->
                turn' = Said(out) /\ frames' = Append(LeadFrame, Frame("delta", Piece(out)))
    /\ stage' = IF frames' = <<>> THEN "wait" ELSE "send"
    /\ out' = NoEvent
    /\ UNCHANGED <<mode, chain, pc, pos, attempts, refit, retries, said, held, last,
                   trail, reports, invalid, outcome, client, away, stored>>

-----------------------------------------------------------------------------
(* The wire, and what the browser does with each event: onMeta, onDelta,     *)
(* onRestart and onDone.                                                     *)

(* Slip: the salvage offer taken from the last attempt alone.                *)
PartialContentOfLast == IF turn.status = "failed" THEN turn.buffer ELSE <<>>

(* partial_content: the furthest any attempt got, if it is worth offering.   *)
PartialContent ==
    IF turn.status = "failed" /\ Len(turn.longest) >= MinPartial THEN turn.longest ELSE <<>>

(* Slip: a delta like the one before it taken for a duplicate.               *)
ShownOnce(f) ==
    CASE f.kind = "meta" -> [client EXCEPT !.phase = "speaking", !.by = f.cand, !.bytes = TRUE]
      [] f.kind = "delta" -> IF client.screen # <<>> /\ client.screen[Len(client.screen)] = f.text
                             THEN client ELSE [client EXCEPT !.screen = Append(@, f.text)]
      [] f.kind = "restart" -> [client EXCEPT !.screen = <<>>, !.by = f.cand,
                                              !.cleared = @ + 1]
      [] f.kind = "done" ->
            [client EXCEPT !.done = [status |-> turn.status, cand |-> f.cand,
                                     partial |-> PartialContent]]

Shown(f) ==
    CASE f.kind = "meta" -> [client EXCEPT !.phase = "speaking", !.by = f.cand, !.bytes = TRUE]
      [] f.kind = "delta" -> [client EXCEPT !.screen = Append(@, f.text)]
      [] f.kind = "restart" -> [client EXCEPT !.screen = <<>>, !.by = f.cand,
                                              !.cleared = @ + 1]
      [] f.kind = "done" ->
            [client EXCEPT !.done = [status |-> turn.status, cand |-> f.cand,
                                     partial |-> PartialContent]]

SendFrame ==
    /\ stage = "send"
    /\ client' = IF away THEN client ELSE Shown(Head(frames))
    /\ frames' = Tail(frames)
    /\ stage' = IF Len(frames) > 1 THEN "send" ELSE IF turn.done THEN "persist" ELSE "wait"
    /\ UNCHANGED <<routerVars, turn, away, stored>>


MayBeat == turn.committed

(* A comment line: nothing to show, but a byte like any other.               *)
Heartbeat ==
    /\ stage = "wait" /\ out = NoEvent /\ pc \notin Over /\ MayBeat
    /\ client' = IF away THEN client ELSE [client EXCEPT !.bytes = TRUE]
    /\ UNCHANGED <<routerVars, stage, turn, frames, away, stored>>

-----------------------------------------------------------------------------
(* The ends of a turn.                                                       *)

(* RoutingFailed before the first byte: the endpoint writes the requests row *)
(* and answers with the error envelope.                                      *)
Raise ==
    /\ stage = "wait" /\ pc = "failed" /\ out = NoEvent /\ ~turn.committed
    /\ stage' = "closed"
    /\ stored' = [kind |-> "failure", text |-> <<>>, cand |-> outcome.cand]
    /\ client' = IF away THEN client ELSE [client EXCEPT !.phase = "refused"]
    /\ UNCHANGED <<routerVars, turn, frames, away>>

(* RoutingFailed after it: record_failure, and done says so in band.         *)
FailInBand ==
    /\ stage = "wait" /\ pc = "failed" /\ out = NoEvent /\ turn.committed
    /\ turn' = [turn EXCEPT !.status = "failed", !.attempts = attempts, !.done = TRUE,
                            !.spec = IF outcome.cand = 0 THEN @ ELSE outcome.cand,
                            !.longest = Longer(turn.buffer, @)]
    /\ frames' = <<Frame("done", <<>>)>>
    /\ stage' = "send"
    /\ UNCHANGED <<routerVars, client, away, stored>>

(* Collector.persist: the message, or only the requests row of a failure.    *)
Stored ==
    IF turn.status = "ok"
    THEN [kind |-> "message", text |-> turn.buffer, cand |-> turn.spec]
    ELSE [kind |-> "failure", text |-> <<>>, cand |-> turn.spec]

Persist ==
    /\ stage = "persist"
    /\ stored' = Stored
    /\ stage' = "closed"
    /\ UNCHANGED <<routerVars, turn, frames, client, away>>

(* The write failed; _persist logs and swallows that.                        *)
PersistFails ==
    /\ stage = "persist"
    /\ stage' = "closed"
    /\ UNCHANGED <<routerVars, turn, frames, client, away, stored>>

Waiting == client.phase \in {"silent", "speaking"}

(* The body has ended: the turn is settled from done, or given up.           *)
BodyEnds ==
    /\ Waiting /\ ~away /\ stage = "closed"
    /\ client' = IF client.done.status = "ok"
                 THEN [client EXCEPT !.phase = "ok", !.by = client.done.cand]
                 ELSE [client EXCEPT !.phase = "failed", !.by = client.done.cand,
                                     !.screen = <<>>]
    /\ UNCHANGED <<routerVars, stage, turn, frames, away, stored>>

(* stop: the reader keeps the text, marked unsaved.                          *)
Stop ==
    /\ Waiting /\ ~away
    /\ away' = TRUE
    /\ client' = [client EXCEPT !.phase = "unsaved"]
    /\ UNCHANGED <<routerVars, stage, turn, frames, stored>>

(* The connection dies before the body ends: a NetworkError, the text goes.  *)
ConnectionDies ==
    /\ Waiting /\ ~away
    /\ away' = TRUE
    /\ client' = [client EXCEPT !.phase = "failed", !.screen = <<>>]
    /\ UNCHANGED <<routerVars, stage, turn, frames, stored>>

(* _client_gone after a wait, or the cancellation of the body task at any    *)
(* await or yield: the router is closed, and nothing is persisted.           *)
NoticeGone ==
    /\ away /\ stage # "closed"
    /\ stage' = "closed" /\ frames' = <<>>
    /\ pc' = IF pc \in Over THEN pc ELSE "gone"
    /\ out' = NoEvent
    /\ UNCHANGED <<mode, chain, pos, attempts, refit, retries, said, held, last,
                   trail, reports, invalid, outcome, turn, client, away, stored>>

Done == stage = "closed" /\ ~Waiting /\ UNCHANGED vars

Orchestrate ==
    Drive \/ Apply \/ SendFrame \/ Raise \/ FailInBand \/ Persist \/ PersistFails
          \/ NoticeGone

Next == Orchestrate \/ Heartbeat \/ BodyEnds \/ Stop \/ ConnectionDies \/ Done

Spec == Init /\ [][Next]_vars

(* Provider calls end in an answer or a timeout, the event loop resumes      *)
(* whoever can run, and the browser reads to the end.                        *)
FairSpec == Spec /\ WF_vars(Orchestrate) /\ WF_vars(BodyEnds)

-----------------------------------------------------------------------------
Texts == Seq([attempt : Nat, cand : Positions])

(* The types, with _served's assertion: a frame always has a candidate to    *)
(* name.                                                                     *)
OrchTypeOK ==
    /\ stage \in {"wait", "send", "persist", "closed"}
    /\ turn \in [buffer : Texts, longest : Texts, committed : BOOLEAN, done : BOOLEAN,
                 attempts : Nat, spec : 0..MaxChain, restart : 0..MaxChain,
                 status : {"ok", "failed"}]
    /\ client \in [phase : {"silent", "speaking", "ok", "failed", "refused", "unsaved"},
                   screen : Texts, by : 0..MaxChain, cleared : Nat, bytes : BOOLEAN,
                   done : [status : {"none", "ok", "failed"}, cand : 0..MaxChain,
                           partial : Texts]]
    /\ frames # <<>> => turn.spec # 0
    /\ away \in BOOLEAN
    /\ stored \in [kind : {"none", "message", "failure"}, text : Texts, cand : 0..MaxChain]

(* What stream_completion puts on the wire, as useSendMessage shows it,      *)
(* keeps the contract of module StreamContract: one attempt on screen at a   *)
(* time, by the candidate named; restarts that clear it; done last.          *)
Contract ==
    INSTANCE StreamContract WITH
        phase <- client.phase, screen <- client.screen, by <- client.by,
        cleared <- client.cleared, Candidates <- Positions,
        Attempts <- 1..(MaxAttempts + MaxRetries), MaxRestarts <- MaxAttempts - 1
KeepsTheContract == Contract!ContractSpec

(* D13: the error envelope is given only where not one byte went out, a      *)
(* keepalive included.                                                       *)
EnvelopeOrBytes == client.phase = "refused" => ~client.bytes

(* A message row holds everything the attempt that was served delivered and  *)
(* nothing of the attempts before it, and names that attempt's candidate.    *)
StoredIsTheServedAttempt ==
    stored.kind = "message" =>
        /\ pc = "served" /\ stored.cand = outcome.cand
        /\ stored.text = [i \in 1..said |-> [attempt |-> attempts, cand |-> outcome.cand]]

(* What the reader saw finish is what a reload shows, if the row was written.*)
ScreenIsStored ==
    (client.phase = "ok" /\ stored.kind # "none") =>
        /\ stored.kind = "message"
        /\ stored.text = client.screen /\ stored.cand = client.by

(* A failed turn offers at least as much as the reader sees vanish, from one *)
(* attempt, unless it is too short to offer.                                 *)
SalvageCoversTheScreen ==
    [][(Waiting /\ client'.phase = "failed" /\ client.done.status = "failed"
          /\ ~away' /\ Len(client.screen) >= MinPartial) =>
            /\ Len(client'.done.partial) >= Len(client.screen)
            /\ \A i, j \in DOMAIN client'.done.partial :
                    client'.done.partial[i] = client'.done.partial[j]]_vars

(* Every turn ends, however its candidates fail and whenever the reader      *)
(* leaves, and the reader is told how.                                       *)
TurnEnds == <>[](stage = "closed" /\ ~Waiting)

(* Router, wire, screen and database agree: an error envelope only where no  *)
(* byte went out, and the row that is stored is the attempt that was served  *)
(* and what the reader saw finish (stream_completion, useSendMessage).       *)
StreamIsConsistent ==
    OrchTypeOK /\ EnvelopeOrBytes /\ StoredIsTheServedAttempt /\ ScreenIsStored

=============================================================================
