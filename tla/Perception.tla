----------------------------- MODULE Perception -----------------------------
(***************************************************************************)
(* The life of one uploaded document: api/v1/files.py stores its bytes and *)
(* records who may name them, perception/lane.py decides for every         *)
(* candidate that answers a turn how the document reaches it, and          *)
(* perception/extractors.py has a model read it once for everybody, under  *)
(* a Redis lock, writing the reading to Postgres first and Redis second.   *)
(*                                                                         *)
(* Each user does one thing at a time: an upload, or a turn that is        *)
(* rendered once per candidate.  Users run concurrently, and may be served *)
(* by different processes; every await is a step of its own.  Breaker,     *)
(* quota and credentials are modules of their own: here they say yes or no.*)
(***************************************************************************)
EXTENDS Integers, Sequences, FiniteSets, Functions

CONSTANTS
    Users,
    Docs,          \* the documents to explore, see Documents
    Bodies,        \* the multipart bodies a document is sent in
    FileMaxBytes,  \* FILE_MAX_BYTES
    OcrMaxPages,   \* PERCEPTION_OCR_MAX_PAGES
    Caps,          \* max_file_bytes of the perception slot's candidates, in order
    NativeCaps,    \* max_file_bytes of the answering models that read documents
    Replies,       \* what a model asked to read may reply
    MaxPolls,      \* LOCK_WAIT_S / LOCK_POLL_S
    MaxTurns,      \* bound on the turns of one user
    MaxRenders,    \* bound on the renders of one turn
    MaxFaults      \* bound on the failures of stores and processes

ASSUME PerceptionAssumption ==
    /\ MaxPolls \in Nat /\ MaxTurns \in Nat /\ MaxRenders \in Nat \ {0}
    /\ MaxFaults \in Nat
    /\ FileMaxBytes \in Nat /\ OcrMaxPages \in Nat \ {0}
    /\ Caps \in Seq(Nat) /\ NativeCaps \subseteq Nat
    /\ "free" \notin Users /\ "orphan" \notin Users

VARIABLES
    doc,        \* the document, and what this host's OCR can do
    localOnly,  \* PERCEPTION_LOCAL_ONLY, a setting of the deployment
    object,     \* bytes of the object under the document's hash, 0 if absent
    owners,     \* users with a row in files
    row,        \* the row of file_extractions
    cached,     \* extract:{hash} in Redis
    lock,       \* lock:extract:{hash}: whose token it holds
    turn,       \* turn[u]: what u's request is doing
    faults,     \* failures so far
    reads,      \* history: readings a model has delivered
    excused     \* history: something the lock does not guard against happened

vars == <<doc, localOnly, object, owners, row, cached, lock, turn, faults,
          reads, excused>>
stores == <<object, owners, row, cached, lock>>
history == <<faults, reads, excused>>
settings == <<doc, localOnly>>

-----------------------------------------------------------------------------
(* Readings.                                                                 *)
NoReading == [tier |-> "none", confidence |-> "none"]
Reading(tier, confidence) == [tier |-> tier, confidence |-> confidence]
Readings == [tier : {"llm", "local"}, confidence : {"high", "medium", "low"}]

RequiredSections == {"summary", "structure", "figures", "verbatim"}
MinVerbatimChars == 200


(* A reply is the headings it carries and the length of its verbatim part.   *)
Grade(reply) ==
    IF RequiredSections \subseteq reply.sections /\ reply.verbatim >= MinVerbatimChars
    THEN "high" ELSE "medium"

TextLayerMinCharsPerPage == 40
MinOcrChars == 10

(* Tier 3: what PyMuPDF and Tesseract make of the document.  ocr[i] is how   *)
(* many characters Tesseract finds on page i; an image is one page.          *)
OcrChars(d) ==
    FoldFunctionOnSet(+, 0, d.ocr, {i \in 1..d.pages : i <= OcrMaxPages \/ d.mime = "image"})

LocalReading(d) ==
    CASE ~d.opens \/ d.pages = 0 -> NoReading
      [] d.opens /\ d.mime = "pdf" /\ d.pages > 0
            /\ d.layer >= TextLayerMinCharsPerPage * d.pages -> Reading("local", "medium")
      [] OTHER -> IF d.tesseract /\ OcrChars(d) >= MinOcrChars
                  THEN Reading("local", "low") ELSE NoReading

(* A spec that reads the document's type names its cap; NoNative reads none. *)
NoNative == -1
NativeWanted(d, cap) == cap # NoNative /\ d.bytes <= cap

-----------------------------------------------------------------------------
(* A multipart body is a sequence of parts; chunks are the lengths of the    *)
(* pieces a part arrives in.                                                 *)
NothingKept == [size |-> 0, named |-> FALSE, complete |-> FALSE, over |-> FALSE]

(* The first part named file is kept; a size past the cap abandons the body. *)
KeepPart(kept, part) ==
    IF part.name # "file" \/ kept.complete \/ kept.over THEN kept
    ELSE LET size == kept.size + FoldFunction(+, 0, part.chunks) IN
         [size |-> IF size > FileMaxBytes THEN 0 ELSE size, named |-> part.filename,
          complete |-> part.ended, over |-> size > FileMaxBytes]

ReadUpload(body) ==
    LET upTo[i \in 0..Len(body)] ==
            IF i = 0 THEN NothingKept ELSE KeepPart(upTo[i - 1], body[i])
    IN upTo[Len(body)]

(* 413, 400 for a missing or an empty file, 415 for an unknown type.         *)
Accepted(d, body) ==
    LET kept == ReadUpload(body) IN
    ~kept.over /\ kept.complete /\ kept.named /\ kept.size > 0
        /\ d.mime \in {"pdf", "image"}

(* The hash names the bytes that were read, so that a body accepted for a    *)
(* document carries that document, and no more than the cap is ever kept.    *)
ASSUME UploadAssumption ==
    \A d \in Docs, body \in Bodies :
        Accepted(d, body) =>
            d.bytes \in 1..FileMaxBytes /\ ReadUpload(body).size = d.bytes

-----------------------------------------------------------------------------
(* Attachments, as render receives them.                                     *)
NoAttachment == [mode |-> "none", tier |-> "none", reading |-> NoReading]
Native == [mode |-> "native", tier |-> "native", reading |-> NoReading]
Injected(reading, tier) == [mode |-> "injected", tier |-> tier, reading |-> reading]
Attachments == {Native} \cup
    [mode : {"injected"}, tier : {"cache", "llm", "local"}, reading : Readings]

Free == "free"        \* no key
Orphan == "orphan"    \* a token nobody will release

Uploading == {"exists", "put", "claim"}
Chain == {"get", "select", "write_back", "tier1", "tier2", "acquire", "wait",
          "walk", "call", "upsert", "publish", "unlock", "delete", "fallback", "tier3"}

IdleTurn == [pc |-> "idle", at |-> "none", size |-> 0, count |-> 0, renders |-> 0,
             want |-> FALSE, memo |-> [n \in BOOLEAN |-> NoAttachment],
             bytes |-> "unread", look |-> NoReading, got |-> NoReading,
             cand |-> 1, polls |-> 0, holds |-> FALSE]

Init ==
    /\ doc \in Docs
    /\ localOnly = FALSE
    /\ object = 0 /\ owners = {}
    /\ row = NoReading /\ cached = NoReading /\ lock = Free
    /\ turn = [u \in Users |-> IdleTurn]
    /\ faults = 0 /\ reads = 0 /\ excused = FALSE

At(u, label) == turn[u].pc = label

(* Between requests a user keeps nothing but the bound on their turns.       *)
Rest(u) == [IdleTurn EXCEPT !.count = turn[u].count]
GoTo(u, label) == turn' = [turn EXCEPT ![u].pc = label]

Fault == faults < MaxFaults /\ faults' = faults + 1

-----------------------------------------------------------------------------
(* POST /v1/files.                                                           *)

(* The body is read and the caller's own row looked up: a hash they already  *)
(* own needs nothing more.                                                   *)
Upload(u) ==
    /\ At(u, "idle") /\ u \notin owners
    /\ \E body \in Bodies :
        /\ Accepted(doc, body)
        /\ turn' = [turn EXCEPT ![u].pc = "exists", ![u].size = ReadUpload(body).size]
    /\ UNCHANGED <<settings, stores, history>>

CheckObject(u) ==
    /\ At(u, "exists")
    /\ GoTo(u, IF object = 0 THEN "put" ELSE "claim")
    /\ UNCHANGED <<settings, stores, history>>

PutObject(u) ==
    /\ At(u, "put")
    /\ object' = turn[u].size
    /\ GoTo(u, "claim")
    /\ UNCHANGED <<settings, owners, row, cached, lock, history>>

ClaimFile(u) ==
    /\ At(u, "claim")
    /\ owners' = owners \cup {u}
    /\ turn' = [turn EXCEPT ![u] = Rest(u)]
    /\ UNCHANGED <<settings, object, row, cached, lock, history>>


(* 503, or the process dies: a put may have been carried out all the same.   *)
UploadFails(u) ==
    /\ Fault
    /\ turn[u].pc \in Uploading
    /\ object' \in {object} \cup IF At(u, "put") THEN {turn[u].size} ELSE {}
    /\ turn' = [turn EXCEPT ![u] = Rest(u)]
    /\ UNCHANGED <<settings, owners, row, cached, lock, reads, excused>>

-----------------------------------------------------------------------------
(* A turn: _resolve_file_refs, then one render per candidate.                *)
Ask(u) ==
    /\ At(u, "idle") /\ u \in owners
    /\ turn[u].count < MaxTurns
    /\ turn' = [turn EXCEPT ![u].pc = "render", ![u].count = @ + 1]
    /\ UNCHANGED <<settings, stores, history>>

Look(u, at) == [turn EXCEPT ![u].pc = "get", ![u].at = at]

(* The demonstration flag skips tier 0 wholesale.                            *)
Tier0(u) == IF localOnly THEN [turn EXCEPT ![u].pc = "tier1"] ELSE Look(u, "tier0")


(* _resolve_one: the memo is keyed on native_wanted.                         *)
RenderWith(u, n) ==
    IF turn[u].memo[n] # NoAttachment
    THEN [turn EXCEPT ![u].pc = "served", ![u].want = n, ![u].renders = @ + 1]
    ELSE [Tier0(u) EXCEPT ![u].want = n, ![u].renders = @ + 1]

Render(u) ==
    /\ turn[u].pc \in {"render", "served"} /\ turn[u].renders < MaxRenders
    /\ \E cap \in NativeCaps \cup {NoNative} : turn' = RenderWith(u, NativeWanted(doc, cap))
    /\ UNCHANGED <<settings, stores, history>>

Finish(u) ==
    /\ At(u, "served")
    /\ turn' = [turn EXCEPT ![u] = Rest(u)]
    /\ UNCHANGED <<settings, stores, history>>

Serve(u, attachment) ==
    turn' = [turn EXCEPT ![u] =
        [@ EXCEPT !.pc = "served", !.memo[turn[u].want] = attachment,
                  !.look = NoReading, !.got = NoReading, !.bytes = "unread",
                  !.cand = 1, !.polls = 0, !.holds = FALSE, !.at = "none"]]

-----------------------------------------------------------------------------
(* load_cached: Redis, then Postgres, then the write-back.  at says which of *)
(* its three callers is waiting: tier 0, the wait for the lock's winner, or  *)
(* the look under the lock.                                                  *)
(* What a caller does with what it found, None included.                     *)
Found(u, reading) ==
    CASE turn[u].at = "tier0" ->
            IF reading.tier = "llm" THEN Serve(u, Injected(reading, "cache"))
            ELSE turn' = [turn EXCEPT ![u].pc = "tier1", ![u].look = reading,
                                      ![u].got = NoReading]
      [] turn[u].at = "wait" ->
            IF reading # NoReading
            THEN turn' = [turn EXCEPT ![u].pc = "unlock", ![u].got = reading]
            ELSE GoTo(u, "wait")
      [] turn[u].at = "locked" ->
            IF reading # NoReading
            THEN turn' = [turn EXCEPT ![u].pc = "unlock", ![u].got = reading]
            ELSE turn' = [turn EXCEPT ![u].pc = "walk", ![u].cand = 1]

(* Slip: the look under the lock is left out.                                *)
LookUnderLockSkipped(u) == [turn EXCEPT ![u].pc = "walk", ![u].cand = 1]

LookUnderLock(u) == Look(u, "locked")

GetCached(u) ==
    /\ At(u, "get")
    /\ IF cached # NoReading THEN Found(u, cached) ELSE GoTo(u, "select")
    /\ UNCHANGED <<settings, stores, history>>

(* A Redis error, or a value that does not parse, is a miss.                 *)
GetFails(u) ==
    /\ Fault
    /\ At(u, "get")
    /\ GoTo(u, "select")
    /\ UNCHANGED <<settings, stores, reads, excused>>

SelectRow(u) ==
    /\ At(u, "select")
    /\ IF row = NoReading THEN Found(u, NoReading)
       ELSE turn' = [turn EXCEPT ![u].pc = "write_back", ![u].got = row]
    /\ UNCHANGED <<settings, stores, history>>

(* The exception leaves load_cached: _guarded makes it a missing tier 0, or  *)
(* a tier 2 that has nothing to offer.                                       *)
SelectFails(u) ==
    /\ Fault
    /\ At(u, "select")
    /\ IF turn[u].at = "tier0" THEN Found(u, NoReading) ELSE GoTo(u, "unlock")
    /\ UNCHANGED <<settings, stores, reads, excused>>

WriteBack(u) ==
    /\ At(u, "write_back")
    /\ cached' = turn[u].got
    /\ Found(u, turn[u].got)
    /\ UNCHANGED <<settings, object, owners, row, lock, history>>

(* The reading is served even when Redis refuses it.                         *)
WriteBackFails(u) ==
    /\ Fault
    /\ At(u, "write_back")
    /\ Found(u, turn[u].got)
    /\ UNCHANGED <<settings, stores, reads, excused>>

-----------------------------------------------------------------------------
(* The bytes, fetched once per chain (_Lazy), and the tiers that want them.  *)
Bytes(u) ==
    IF turn[u].bytes # "unread" THEN turn[u].bytes
    ELSE IF object = 0 THEN "failed" ELSE "have"

WantsBytes(u) ==
    \/ At(u, "tier1") /\ turn[u].want
    \/ At(u, "tier2") /\ ~localOnly
    \/ At(u, "tier3")

FetchFails(u) ==
    /\ Fault
    /\ WantsBytes(u) /\ turn[u].bytes = "unread"
    /\ turn' = [turn EXCEPT ![u].bytes = "failed"]
    /\ UNCHANGED <<settings, stores, reads, excused>>

(* What a tier that could not serve leaves to the next.                      *)
NextTier(u, label) ==
    turn' = [turn EXCEPT ![u].pc = label,
                         ![u].bytes = IF WantsBytes(u) THEN Bytes(u) ELSE @]

Tier1(u) ==
    /\ At(u, "tier1")
    /\ IF turn[u].want /\ Bytes(u) = "have" THEN Serve(u, Native) ELSE NextTier(u, "tier2")
    /\ UNCHANGED <<settings, stores, history>>

Tier2(u) ==
    /\ At(u, "tier2")
    /\ NextTier(u, IF ~localOnly /\ Bytes(u) = "have" THEN "acquire" ELSE "fallback")
    /\ UNCHANGED <<settings, stores, history>>

-----------------------------------------------------------------------------
(* extract_with_llm: the lock, the look under it, the candidates.            *)
Acquire(u) ==
    /\ At(u, "acquire")
    /\ IF lock = Free
       THEN /\ lock' = u
            /\ turn' = [LookUnderLock(u) EXCEPT ![u].holds = TRUE]
       ELSE /\ turn' = [turn EXCEPT ![u].pc = "wait", ![u].polls = 0]
            /\ UNCHANGED lock
    /\ UNCHANGED <<settings, object, owners, row, cached, history>>

(* Redis out of reach disables the guard; the SET may have gone through.     *)
AcquireFails(u) ==
    /\ Fault
    /\ At(u, "acquire")
    /\ lock' \in {lock} \cup IF lock = Free THEN {Orphan} ELSE {}
    /\ turn' = LookUnderLock(u)
    /\ excused' = TRUE
    /\ UNCHANGED <<settings, object, owners, row, cached, reads>>

(* Slip: a poll does not use up the wait.                                    *)
PollForever(u) ==
    /\ At(u, "wait")
    /\ turn' = Look(u, "wait")
    /\ UNCHANGED <<settings, stores, history>>

(* _await_winner.                                                            *)
Poll(u) ==
    /\ At(u, "wait") /\ turn[u].polls < MaxPolls
    /\ turn' = [Look(u, "wait") EXCEPT ![u].polls = @ + 1]
    /\ UNCHANGED <<settings, stores, history>>

(* The winner never published: go ahead without the lock.                    *)
WaitExpires(u) ==
    /\ At(u, "wait") /\ turn[u].polls = MaxPolls
    /\ turn' = LookUnderLock(u)
    /\ excused' = TRUE
    /\ UNCHANGED <<settings, stores, faults, reads>>

(* _walk_candidates.                                                         *)
SkipCandidate(u) ==
    /\ At(u, "walk") /\ turn[u].cand <= Len(Caps)
    /\ turn' = [turn EXCEPT ![u].cand = @ + 1]
    /\ UNCHANGED <<settings, stores, history>>

Call(u) ==
    /\ At(u, "walk") /\ turn[u].cand <= Len(Caps)
    /\ doc.bytes <= Caps[turn[u].cand]
    /\ GoTo(u, "call")
    /\ UNCHANGED <<settings, stores, history>>

ChainExhausted(u) ==
    /\ At(u, "walk") /\ turn[u].cand > Len(Caps)
    /\ GoTo(u, "unlock")
    /\ UNCHANGED <<settings, stores, history>>

CallReads(u) ==
    /\ At(u, "call")
    /\ \E reply \in Replies :
        turn' = [turn EXCEPT ![u].pc = "upsert", ![u].at = "llm",
                             ![u].got = Reading("llm", Grade(reply))]
    /\ reads' = IF excused THEN reads ELSE reads + 1
    /\ UNCHANGED <<settings, stores, faults, excused>>

(* A failover-eligible error moves on; a refusal, or an exception that is no *)
(* ProviderError, ends the walk.                                             *)
CallFails(u) ==
    /\ At(u, "call")
    /\ turn' \in {[turn EXCEPT ![u].pc = "walk", ![u].cand = @ + 1],
                  [turn EXCEPT ![u].pc = "unlock"]}
    /\ UNCHANGED <<settings, stores, history>>

-----------------------------------------------------------------------------
(* persist, for tier 2 and tier 3 alike: the row, then Redis.                *)
AfterPersist(u, got) ==
    IF turn[u].at = "llm"
    THEN turn' = [turn EXCEPT ![u].pc = "unlock", ![u].got = got]
    ELSE IF got # NoReading THEN Serve(u, Injected(got, "local"))
         ELSE turn' = [turn EXCEPT ![u] = Rest(u)]      \* FileUnreadable

(* Slip: the last writer wins.                                               *)
UpgradedAlways(stored, reading) == reading

(* ON CONFLICT DO UPDATE ... WHERE tier = 'local'.                           *)
Upgraded(stored, reading) ==
    IF stored.tier = "llm" THEN stored ELSE reading

Upsert(u) ==
    /\ At(u, "upsert")
    /\ row' = Upgraded(row, turn[u].got)
    /\ GoTo(u, "publish")
    /\ UNCHANGED <<settings, object, owners, cached, lock, history>>

(* Slip: the reading is published although the row was not written.          *)
UpsertFailsPublishing(u) ==
    /\ Fault
    /\ At(u, "upsert")
    /\ GoTo(u, "publish")
    /\ excused' = TRUE
    /\ UNCHANGED <<settings, stores, reads>>

(* The exception loses the reading, committed or not: the tier has nothing.  *)
UpsertFails(u) ==
    /\ Fault
    /\ At(u, "upsert")
    /\ row' \in {row, Upgraded(row, turn[u].got)}
    /\ AfterPersist(u, NoReading)
    /\ excused' = TRUE
    /\ UNCHANGED <<settings, object, owners, cached, lock, reads>>

Publish(u) ==
    /\ At(u, "publish")
    /\ cached' = turn[u].got
    /\ AfterPersist(u, turn[u].got)
    /\ UNCHANGED <<settings, object, owners, row, lock, history>>

(* The row is committed: a Redis error is a log line.                        *)
PublishFails(u) ==
    /\ Fault
    /\ At(u, "publish")
    /\ AfterPersist(u, turn[u].got)
    /\ UNCHANGED <<settings, stores, reads, excused>>

-----------------------------------------------------------------------------
(* _Lock.release: GET, compare, DELETE; then the lane goes on with what      *)
(* tier 2 returned.                                                          *)
AfterTier2(u) ==
    IF turn[u].got # NoReading THEN Serve(u, Injected(turn[u].got, "llm"))
    ELSE turn' = [turn EXCEPT ![u] =
             [@ EXCEPT !.pc = "fallback", !.holds = FALSE, !.at = "none",
                       !.cand = 1, !.polls = 0]]

Unlock(u) ==
    /\ At(u, "unlock")
    /\ IF turn[u].holds /\ lock = u THEN GoTo(u, "delete") ELSE AfterTier2(u)
    /\ UNCHANGED <<settings, stores, history>>

DeleteLock(u) ==
    /\ At(u, "delete")
    /\ lock' = Free /\ excused' = (excused \/ lock \notin {u, Free})
    /\ AfterTier2(u)
    /\ UNCHANGED <<settings, object, owners, row, cached, faults, reads>>

UnlockFails(u) ==
    /\ Fault
    /\ turn[u].pc \in {"unlock", "delete"} /\ turn[u].holds
    /\ lock' = IF lock = u THEN Orphan ELSE lock
    /\ AfterTier2(u)
    /\ UNCHANGED <<settings, object, owners, row, cached, reads, excused>>

-----------------------------------------------------------------------------
(* The bottom of the chain: a stored local reading, then tier 3, then 422.   *)
Fallback(u) ==
    /\ At(u, "fallback")
    /\ IF turn[u].look # NoReading THEN Serve(u, Injected(turn[u].look, "cache"))
       ELSE GoTo(u, "tier3")
    /\ UNCHANGED <<settings, stores, history>>


StoresLocal == ~localOnly

Tier3(u) ==
    /\ At(u, "tier3") /\ Bytes(u) = "have" /\ LocalReading(doc) # NoReading
    /\ IF StoresLocal
       THEN turn' = [turn EXCEPT ![u].pc = "upsert", ![u].at = "local",
                                 ![u].got = LocalReading(doc)]
       ELSE Serve(u, Injected(LocalReading(doc), "local"))
    /\ UNCHANGED <<settings, stores, history>>

Unreadable(u) ==
    /\ At(u, "tier3") /\ (Bytes(u) = "have" => LocalReading(doc) = NoReading)
    /\ turn' = [turn EXCEPT ![u] = Rest(u)]
    /\ UNCHANGED <<settings, stores, history>>

-----------------------------------------------------------------------------
(* Cancellation runs the finally of the lock; the death of a process does    *)
(* not.  Either way the request is over.                                     *)
Dies(u) ==
    /\ Fault
    /\ turn[u].pc \in Chain \cup {"render", "served"}
    /\ turn' = [turn EXCEPT ![u] = Rest(u)]
    /\ lock' \in IF turn[u].holds /\ lock = u THEN {Free, Orphan} ELSE {lock}
    /\ excused' = (excused \/ At(u, "upsert"))
    /\ UNCHANGED <<settings, object, owners, row, cached, reads>>

(* EXTRACTION_LOCK_TTL_S is half of EXTRACTION_TIMEOUT_S.                    *)
LockExpires ==
    /\ Fault
    /\ lock # Free
    /\ lock' = Free /\ excused' = (excused \/ lock # Orphan)
    /\ UNCHANGED <<settings, object, owners, row, cached, turn, reads>>

CacheExpires ==
    /\ cached # NoReading
    /\ cached' = NoReading
    /\ UNCHANGED <<settings, object, owners, row, lock, turn, history>>

(* The demonstration flag is changed with a deployment.                      *)
Redeploy ==
    /\ \A u \in Users : At(u, "idle")
    /\ localOnly' = ~localOnly
    /\ UNCHANGED <<doc, stores, turn, history>>

Step(u) ==
    \/ CheckObject(u) \/ PutObject(u) \/ ClaimFile(u) \/ UploadFails(u)
    \/ Render(u) \/ Finish(u)
    \/ GetCached(u) \/ GetFails(u) \/ SelectRow(u) \/ SelectFails(u)
    \/ WriteBack(u) \/ WriteBackFails(u)
    \/ FetchFails(u) \/ Tier1(u) \/ Tier2(u)
    \/ Acquire(u) \/ AcquireFails(u) \/ Poll(u) \/ WaitExpires(u)
    \/ SkipCandidate(u) \/ Call(u) \/ ChainExhausted(u) \/ CallReads(u) \/ CallFails(u)
    \/ Upsert(u) \/ UpsertFails(u) \/ Publish(u) \/ PublishFails(u)
    \/ Unlock(u) \/ DeleteLock(u) \/ UnlockFails(u)
    \/ Fallback(u) \/ Tier3(u) \/ Unreadable(u)

Next ==
    \/ \E u \in Users : Upload(u) \/ Ask(u) \/ Step(u) \/ Dies(u)
    \/ LockExpires \/ CacheExpires \/ Redeploy

(* A request that is running takes its next step: an event loop schedules    *)
(* it, and every call it awaits has a timeout.                               *)
Spec == Init /\ [][Next]_vars /\ \A u \in Users : WF_vars(Step(u))

-----------------------------------------------------------------------------
Turns ==
    [pc : Uploading \cup Chain \cup {"idle", "render", "served"},
     at : {"none", "tier0", "wait", "locked", "llm", "local"},
     size : 0..FileMaxBytes, count : 0..MaxTurns, renders : 0..MaxRenders,
     want : BOOLEAN, memo : [BOOLEAN -> Attachments \cup {NoAttachment}],
     bytes : {"unread", "have", "failed"}, look : Readings \cup {NoReading},
     got : Readings \cup {NoReading}, cand : 1..(Len(Caps) + 1), polls : 0..MaxPolls,
     holds : BOOLEAN]

(* The state keeps its types, and a user waits or serves only what the code  *)
(* of perception/lane.py can hand to render.                                 *)
TypeOK ==
    /\ doc \in Docs /\ localOnly \in BOOLEAN
    /\ object \in 0..FileMaxBytes /\ owners \subseteq Users
    /\ row \in Readings \cup {NoReading} /\ cached \in Readings \cup {NoReading}
    /\ lock \in Users \cup {Free, Orphan}
    /\ turn \in [Users -> Turns]
    /\ faults \in 0..MaxFaults /\ reads \in Nat /\ excused \in BOOLEAN

(* Who may name the document can have it read: whatever fails between        *)
(* api/v1/files.py's put and its commit, a row in files means that the       *)
(* object, whole and within the cap, is in the store.                        *)
OwnedIsStored == owners # {} => object = doc.bytes

(* Redis never knows more than Postgres: persist writes the row first and a  *)
(* write-back copies one, so a reading served from the cache outlives it.    *)
CacheBehindRow ==
    /\ cached # NoReading => row # NoReading
    /\ cached.tier = "llm" => row.tier = "llm"

(* A stored reading by a model is final: no later OCR pass, and no second    *)
(* model, replaces the row (the guard of repo/extractions.py's upsert).      *)
NeverDowngraded == row.tier = "llm" => row' = row

(* One reading per hash, not per caller: as long as no lock expired under    *)
(* its holder, no wait ran out, and no reading was lost on its way to        *)
(* Postgres, all the users' turns together make a model read the document    *)
(* once.                                                                     *)
ReadOnce == ~excused => reads <= 1

(* A demonstration under PERCEPTION_LOCAL_ONLY leaves no reading behind for  *)
(* the other users who hold the same bytes.                                  *)
DemoLeavesNoTrace == localOnly => row' = row /\ cached' \in {cached, NoReading}

(* One turn, one reading per way of reading: what the memo holds for a       *)
(* candidate is what every later candidate of the turn is given.             *)
MemoIsKept ==
    \A u \in Users, n \in BOOLEAN :
        turn[u].memo[n] # NoAttachment /\ turn'[u].pc # "idle"
            => turn'[u].memo[n] = turn[u].memo[n]

(* A turn that waits for another's reading, or for a lock whose holder died, *)
(* still ends.                                                               *)
TurnsEnd == \A u \in Users : turn[u].pc # "idle" ~> At(u, "idle")

(* An attachment disclosed as read by a model during this turn was.          *)
LabelIsTheReader ==
    \A u \in Users, n \in BOOLEAN :
        turn[u].memo[n].tier = "llm" => turn[u].memo[n].reading.tier = "llm"

(* The three stores agree whatever fails between them: a name means a whole  *)
(* object, and Redis never knows more than Postgres.                         *)
StoresAgree == TypeOK /\ OwnedIsStored /\ CacheBehindRow

(* No step of anyone loses or worsens a reading already made: not the row's, *)
(* not the other users', not the turn's own.                                 *)
ReadingsAreKept == [][NeverDowngraded /\ DemoLeavesNoTrace /\ MemoIsKept]_vars

=============================================================================
