------------------------------- MODULE Render -------------------------------
(***************************************************************************)
(* A thread asked about again and again, and what reaches a model of it:   *)
(* render.render for the candidate the router tries, the re-fit when the   *)
(* model's window proves smaller (routing/router.py), the next candidate.  *)
(* Storage and interleavings of the thread are in Conversation.            *)
(***************************************************************************)
EXTENDS Fitting

CONSTANTS
    Specs,        \* the candidates: provider, what they read, their windows
    Uploads,      \* the files a question may bring
    Lengths,      \* how long an answer may be
    Limits,       \* windows a provider may turn out to have
    MaxMessages   \* bound on the thread's length

Models == [provider : {"gemini", "groq", "openrouter"}, reads : SUBSET STRING,
           maxFileBytes : Nat \cup {None}, window : Nat, maxOut : Nat,
           maxTokens : Nat \cup {None}]

ASSUME RenderAssumption ==
    /\ MaxMessages \in Nat /\ Limits \subseteq Nat /\ Lengths \subseteq Nat
    /\ Uploads \subseteq Seq(DOMAIN Documents)
    /\ Specs \subseteq Models

VARIABLES
    hist,    \* the stored history
    phase,   \* idle, asked, render, fit, sent or overflow
    spec,    \* the candidate, with the window it is fitted to
    limit,   \* the limit_tokens of the last ContextTooLong
    refit,   \* whether this candidate was re-fitted
    fitted,  \* the messages that are left, and how their documents are cut
    sent     \* the payload, and what is reserved for it

renderVars == <<hist, phase, spec, limit, refit, fitted, sent>>

NoSpec == [provider |-> "none", reads |-> {}, maxFileBytes |-> 0,
           window |-> 0, maxOut |-> 0, maxTokens |-> None]
NothingFitted == [messages |-> <<>>,
                  cut |-> [att |-> <<>>, exhausted |-> {}, cuts |-> 0, total |-> 0]]
NothingSent == [payload |-> [system |-> <<>>, contents |-> <<>>], estimated |-> 0]

RenderInit ==
    /\ hist = <<>> /\ phase = "idle" /\ spec = NoSpec
    /\ limit = None /\ refit = FALSE /\ fitted = NothingFitted /\ sent = NothingSent

-----------------------------------------------------------------------------
QuestionChars == 40
SystemChars == 60

Message(role, words, files) ==
    [seq |-> Len(hist), role |-> role, words |-> words, files |-> files, omitted |-> 0]

AsksWith(rows) ==
    /\ phase = "idle" /\ Len(hist) + Len(rows) <= MaxMessages
    /\ hist' = hist \o rows
    /\ phase' = "asked"
    /\ UNCHANGED <<spec, limit, refit, fitted, sent>>

Ask(files) == AsksWith(<<Message("user", QuestionChars, files)>>)

AskPrompted(files) ==
    /\ hist = <<>>
    /\ AsksWith(<<Message("system", SystemChars, <<>>),
                  [Message("user", QuestionChars, files) EXCEPT !.seq = 1]>>)

(* The answer to a question asked just before lands between this one's       *)
(* commit and its read of the history.                                       *)
OtherTurnAnswers(n) ==
    /\ phase = "asked" /\ Len(hist) \in 2..(MaxMessages - 1)
    /\ hist[Len(hist)].role = "user" /\ hist[Len(hist) - 1].role = "user"
    /\ hist' = Append(hist, Message("assistant", n, <<>>))
    /\ UNCHANGED <<phase, spec, limit, refit, fitted, sent>>

Clear == fitted' = NothingFitted /\ sent' = NothingSent

(* The router's next candidate, fitted to the window it is configured with.  *)
Try(s) ==
    /\ phase \in {"asked", "sent"}
    /\ phase' = "render" /\ spec' = s /\ limit' = None /\ refit' = FALSE
    /\ Clear
    /\ UNCHANGED hist

Budget == InputBudget(spec, spec.maxTokens)

(* Steps 1 to 4: resolve, materialize, budget, and fit up to the documents.  *)
Shorten ==
    LET att == Resolve(hist, spec)
        rest == Shortened(hist, att, Budget)
    IN  /\ phase = "render" /\ Budget > 0
        /\ fitted' = [messages |-> rest,
                      cut |-> [att |-> att, exhausted |-> {}, cuts |-> 0,
                               total |-> Total(rest, att)]]
        /\ phase' = "fit"
        /\ UNCHANGED <<hist, spec, limit, refit, sent>>

Cutting == phase = "fit" /\ fitted.cut.total > Budget

(* _truncate_documents, a turn of its loop.                                  *)
Truncate ==
    /\ Cutting /\ Truncatable(fitted.cut) # {}
    /\ fitted' = [fitted EXCEPT !.cut = CutOnce(fitted.messages, Budget, @)]
    /\ UNCHANGED <<hist, phase, spec, limit, refit, sent>>

(* Steps 5 and 6: adapt and report.                                          *)
RenderSends ==
    LET payload == BuildPayload(spec.provider, fitted.messages, fitted.cut.att)
    IN  /\ phase = "fit" /\ fitted.cut.total <= Budget
        /\ Renders(spec.provider, fitted.messages, fitted.cut.att)
        /\ sent' = [payload |-> payload,
                    estimated |-> EstimatedTokens(payload, fitted.cut.att)]
        /\ phase' = "sent"
        /\ UNCHANGED <<hist, spec, limit, refit, fitted>>

(* ContextTooLong of our own: the limit it carries is the budget, or the     *)
(* window when the output ceiling swallows it.                               *)
RenderOverflows ==
    /\ Cutting /\ Truncatable(fitted.cut) = {}
    /\ phase' = "overflow" /\ limit' = Budget
    /\ UNCHANGED <<hist, spec, refit, fitted, sent>>

NoRoom ==
    /\ phase = "render" /\ Budget <= 0
    /\ phase' = "overflow" /\ limit' = spec.window
    /\ UNCHANGED <<hist, spec, refit, fitted, sent>>

(* ContextTooLong of the provider, which may name its window.                *)
Rejected(n) ==
    /\ phase = "sent" /\ n < spec.window
    /\ phase' = "overflow" /\ limit' = n
    /\ Clear
    /\ UNCHANGED <<hist, spec, refit>>

(* Once per candidate, against the window the error named.                   *)
Refit ==
    /\ phase = "overflow" /\ ~refit /\ limit # None
    /\ spec' = [spec EXCEPT !.window = limit]
    /\ refit' = TRUE /\ phase' = "render" /\ limit' = None
    /\ Clear
    /\ UNCHANGED hist

Reset ==
    /\ phase' = "idle" /\ spec' = NoSpec /\ limit' = None /\ refit' = FALSE
    /\ Clear

Answered(n) ==
    /\ phase = "sent" /\ Len(hist) < MaxMessages
    /\ hist[Len(hist)].role # "assistant"
    /\ hist' = Append(hist, Message("assistant", n, <<>>))
    /\ Reset

(* RoutingFailed: the question stays unanswered.                             *)
GiveUp == phase \in {"sent", "overflow"} /\ Reset /\ UNCHANGED hist

NewThread == phase = "idle" /\ hist # <<>> /\ hist' = <<>> /\ Reset

Rendering == Shorten \/ NoRoom \/ Truncate \/ RenderSends \/ RenderOverflows

RenderNext ==
    \/ \E u \in Uploads : Ask(u) \/ AskPrompted(u)
    \/ \E n \in Lengths : OtherTurnAnswers(n) \/ Answered(n)
    \/ \E s \in Specs : Try(s)
    \/ \E n \in Limits \cup {None} : Rejected(n)
    \/ Rendering \/ Refit \/ GiveUp \/ NewThread

RenderSpec == RenderInit /\ [][RenderNext]_renderVars

(* The loop over the documents awaits nothing.                               *)
FairRenderSpec == RenderSpec /\ WF_renderVars(Truncate) /\ WF_renderVars(RenderOverflows)

-----------------------------------------------------------------------------
Missing(h, kept) == {i \in DOMAIN h : \A k \in DOMAIN kept : kept[k].seq # h[i].seq}
InlineCost(payload) ==
    LET bytes(entry) == SumOf([k \in DOMAIN entry.inline |->
                                   NativeTokenCost(Documents[entry.inline[k]])])
    IN  SumOf([i \in DOMAIN payload.contents |-> bytes(payload.contents[i])])
LastQuestion(h) == {i \in Users(h) : \A j \in Users(h) : j <= i}

(* The types; and the stored history is never marked or cut: shortening a    *)
(* prompt leaves what is stored as it was (render is pure, fit copies).      *)
RenderTypeOK ==
    /\ phase \in {"idle", "asked", "render", "fit", "sent", "overflow"}
    /\ refit \in BOOLEAN /\ limit \in Nat \cup {None}
    /\ \A i \in DOMAIN hist : hist[i].seq = i - 1 /\ hist[i].omitted = 0
    /\ \A k \in DOMAIN fitted.cut.att : fitted.cut.att[k].chars \in Nat
    /\ sent.estimated \in Nat

(* What goes out fits: the payload as its own adapter estimates it, with     *)
(* every file it carries, is within the window the model leaves for input,   *)
(* though fit measured something else (render.py steps 3 to 6).              *)
SentFits ==
    phase = "sent" => EstimateTokens(sent.payload) + InlineCost(sent.payload) <= Budget

(* Turns go whole and oldest first, no more of them than the window needs:   *)
(* the system prompt and the question stay, an answer never outlives the     *)
(* question before it, what is kept is younger than what is dropped, and one *)
(* turn less would not have fitted (_drop_oldest_turns).                     *)
TurnsGoWhole ==
    phase = "sent" =>
        LET gone == Missing(hist, fitted.messages)
            kept == DOMAIN hist \ gone
            newest == {i \in gone : \A j \in gone : j <= i}
            turn == newest \cup {i - 1 : i \in {j \in newest : hist[j].role = "assistant"}}
        IN  /\ \A i \in kept : hist[i].role = "assistant" =>
                   ~(i - 1 \in gone /\ hist[i - 1].role = "user")
            /\ \A i \in gone : hist[i].role # "system" /\ i \notin LastQuestion(hist)
            /\ \A i \in gone, j \in kept : j < i =>
                   hist[j].role = "system" \/ j \in LastQuestion(hist)
            /\ gone # {} => Total(Marked(hist, gone \ turn), Resolve(hist, spec)) > Budget

(* A history is refused only when nothing would do: the system prompt and    *)
(* the question alone, with every document cut to its floor, are too long    *)
(* (fit, _truncate_documents).                                               *)
RefusedOnlyWhenHopeless ==
    (phase = "overflow" /\ fitted # NothingFitted) =>
        LET keep == {i \in DOMAIN hist : i = 1 /\ hist[i].role = "system"}
                        \cup LastQuestion(hist)
            att == Resolve(hist, spec)
            floor == [k \in DOMAIN att |->
                         [att[k] EXCEPT !.chars = Smaller(@, MinDocumentChars + NoticeChars)]]
        IN  Total(Marked(hist, DOMAIN hist \ keep), floor) > Budget

(* The marker says how much is missing, to the message, also when a prompt   *)
(* that was shortened for one model is shortened again for another           *)
(* (_apply_marker: markers of dropped messages are carried forward).         *)
GapIsTold ==
    phase = "sent" =>
        /\ Omitted(fitted.messages) = Len(hist) - Len(fitted.messages)
        /\ \A s \in Specs :
              LET again == Shortened(fitted.messages, Resolve(fitted.messages, s),
                                     InputBudget(s, s.maxTokens))
              IN  Omitted(again) = Len(hist) - Len(again)

(* Documents are the last thing to give: none is cut while a turn could      *)
(* still go, and none that is cut goes under its floor or grows              *)
(* (_truncate_documents, MIN_DOCUMENT_CHARS).                                *)
DocumentsLast ==
    phase = "sent" =>
        LET att == Resolve(hist, spec) IN
        /\ fitted.cut.cuts > 0 => \A i \in DOMAIN fitted.messages :
               fitted.messages[i].role = "system" \/ i \in LastQuestion(fitted.messages)
        /\ \A k \in DOMAIN att : LET n == fitted.cut.att[k].chars IN
               n # att[k].chars =>
                   n < att[k].chars /\ n >= MinDocumentChars + NoticeChars

(* The loop over the documents ends, in a prompt that fits or a refusal: it  *)
(* never keeps picking one it cannot shorten (_truncate_documents).          *)
CuttingEnds == []<>~Cutting

(* A prompt is sent exactly when it can be: what goes out fits its model's   *)
(* window with all the files it carries, and a history is refused only when  *)
(* its smallest form is too long, on the first attempt and on a re-fit       *)
(* (render, fit).                                                            *)
FitsOrIsHopeless == RenderTypeOK /\ SentFits /\ RefusedOnlyWhenHopeless

(* What was left out is left out in order and told: whole turns, oldest      *)
(* first, no more than needed, documents last, and the marker's number is    *)
(* right (_drop_oldest_turns, _apply_marker, _truncate_documents).           *)
OmissionIsHonest == TurnsGoWhole /\ GapIsTold /\ DocumentsLast

=============================================================================
