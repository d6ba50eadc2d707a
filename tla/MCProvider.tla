---------------------------- MODULE MCProvider ----------------------------
(* What goes out to a provider (Render) and what comes back                  *)
(* (ProviderAdapter).  The two share no variable, so an instance follows one *)
(* of them, chosen at the start.                                             *)
EXTENDS ProviderAdapter, Render

VARIABLE followed

providerVars == <<vars, renderVars, followed>>

(* Where the prompt is followed, one call stands for all. *)
ProviderInit ==
    /\ Init /\ RenderInit
    /\ \/ followed = "reply"
       \/ followed = "prompt" /\ call = "stream" /\ p = "gemini"

ProviderNext ==
    \/ followed = "reply" /\ Next /\ UNCHANGED <<renderVars, followed>>
    \/ followed = "prompt" /\ RenderNext /\ UNCHANGED <<vars, followed>>

(* The fairness of the two modules, where each is followed. *)
Replying(A) == followed = "reply" /\ A
Prompting(A) == followed = "prompt" /\ A

ProviderFairness ==
    /\ WF_vars(Replying(Settle)) /\ WF_vars(Replying(Reader))
    /\ WF_vars(Replying(Timeout)) /\ WF_vars(Replying(AskNext))
    /\ WF_vars(Replying(TransportFails))
    /\ SF_vars(Replying(Tick))
    /\ WF_renderVars(Prompting(Truncate)) /\ WF_renderVars(Prompting(RenderOverflows))

ProviderSpec == ProviderInit /\ [][ProviderNext]_providerVars /\ ProviderFairness

-----------------------------------------------------------------------------
(* Prompts: a paper and a scan that one model reads as bytes and the others  *)
(* as text, notes that all read as text, and four models: one that reads     *)
(* files, one with room for a few turns, one with room for documents cut to  *)
(* their floor and one with none.                                            *)
Document(mime, bytes, chars) ==
    [mime |-> mime, bytes |-> bytes, pages |-> None, width |-> None,
     height |-> None, chars |-> chars]

SomeDocuments ==
    [paper |-> Document("pdf", 90000, 380), notes |-> Document("docx", 5000, 230),
     scan |-> [Document("image", 80000, 300) EXCEPT !.width = 500, !.height = 400]]
SomeUploads == {<<>>, <<"paper">>, <<"scan", "notes">>}

ReadsFiles == [provider |-> "gemini", reads |-> {"pdf", "image"}, maxFileBytes |-> 100000,
               window |-> 1400, maxOut |-> 90, maxTokens |-> 40]
Roomy == [provider |-> "groq", reads |-> {}, maxFileBytes |-> None,
          window |-> 260, maxOut |-> 20, maxTokens |-> None]
Small == [provider |-> "openrouter", reads |-> {}, maxFileBytes |-> None,
          window |-> 150, maxOut |-> 20, maxTokens |-> None]
Swallowed == [provider |-> "groq", reads |-> {}, maxFileBytes |-> None,
              window |-> 90, maxOut |-> 90, maxTokens |-> None]
SomeSpecs == {ReadsFiles, Roomy, Small, Swallowed}

-----------------------------------------------------------------------------
(* Replies that exercise each quirk the adapters were written for. *)
Plain == [object |-> TRUE, block |-> FALSE, error |-> "none", flagged |-> FALSE,
          choice |-> "ok", finish |-> "none", text |-> "a", usage |-> NoUsage]
Billed == [Plain EXCEPT !.finish = "stop", !.usage = [in |-> 2, out |-> 1, thoughts |-> 1]]
Filtered == [Plain EXCEPT !.text = "", !.finish = "refused"]
Blocked == [Plain EXCEPT !.block = TRUE, !.choice = "none", !.text = ""]
Announce == [Plain EXCEPT !.text = ""]
Odd == [Plain EXCEPT !.object = FALSE]
ErrorBody(code) == [Plain EXCEPT !.error = code, !.choice = "none", !.text = ""]
Moderated == [ErrorBody("403") EXCEPT !.flagged = TRUE]

MCFrames ==
    [q \in Providers |->
        {Plain, Billed, Filtered, DoneFrame} \cup
        CASE q = "groq" -> {Announce}
          [] q = "gemini" -> {Blocked}
          [] q = "openrouter" -> {ErrorBody("502"), Moderated, Odd}]
MCBodies ==
    [q \in Providers |->
        {Billed, Plain, Filtered, Odd, [Plain EXCEPT !.text = " "], [Plain EXCEPT !.choice = "malformed"]}
        \cup CASE q = "gemini" -> {Blocked}
               [] q = "openrouter" -> {ErrorBody("502"), ErrorBody("filter"), ErrorBody("429"), Moderated}
               [] OTHER -> {}]

Wait(form) == [form |-> form, s |-> 3]
Error(status, code, prose, flagged, form) ==
    [status |-> status, code |-> code, prose |-> prose, flagged |-> flagged, wait |-> Wait(form)]
MCErrors ==
    [q \in Providers |->
        {Error(503, "none", "none", FALSE, "none"), Error(401, "none", "none", FALSE, "none"),
         Error(404, "none", "none", FALSE, "none"), Error(429, "none", "none", FALSE, "date"),
         Error(400, "none", "none", FALSE, "none")}
        \cup CASE q = "groq" -> {Error(413, "rate", "none", FALSE, "duration"),
                                 Error(413, "none", "none", FALSE, "none"),
                                 Error(400, "context", "none", FALSE, "none"),
                                 Error(400, "filter", "none", FALSE, "none"),
                                 Error(422, "none", "context", FALSE, "none")}
               [] q = "gemini" -> {Error(400, "INVALID_ARGUMENT", "api key", FALSE, "none"),
                                   Error(400, "INVALID_ARGUMENT", "context", FALSE, "none"),
                                   Error(400, "FAILED_PRECONDITION", "none", FALSE, "none"),
                                   Error(429, "RESOURCE_EXHAUSTED", "none", FALSE, "retryInfo")}
               [] q = "openrouter" -> {Error(402, "402", "none", FALSE, "ms"),
                                       Error(429, "429", "none", FALSE, "s"),
                                       Error(429, "none", "none", FALSE, "delta"),
                                       Error(403, "403", "none", TRUE, "none")}]
=============================================================================
