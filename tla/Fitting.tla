------------------------------ MODULE Fitting ------------------------------
(***************************************************************************)
(* memory/render.py and memory/fitting.py: how a stored history becomes a  *)
(* prompt for one model, and how the three adapters put it on the wire.    *)
(*                                                                         *)
(* Text is its length in characters.  A message is [role, words, files,    *)
(* omitted]: a text block, a file_ref block per file, and an omission      *)
(* marker in front when omitted > 0.  Attachments are a sequence, one per  *)
(* distinct file, in the order of the references.                          *)
(***************************************************************************)
EXTENDS Integers, Sequences, FiniteSetsExt, SequencesExt

CONSTANTS
    Documents,        \* file -> [mime, bytes, pages, width, height, chars]
    EnvelopeChars,    \* what document_envelope adds to a text
    PlaceholderChars  \* the length of a native attachment's placeholder

CharsPerToken == 4
PerMessageOverhead == 4
MinDocumentChars == 200
NoticeChars == 49        \* TRUNCATION_NOTICE
SafetyPct == 5           \* SAFETY_MARGIN
MarkerChars == 28        \* "[n earlier messages omitted]", n below ten
None == -1

ASSUME FittingAssumption ==
    /\ EnvelopeChars \in Nat /\ PlaceholderChars \in Nat
    /\ \A f \in DOMAIN Documents :
          /\ {Documents[f].chars, Documents[f].bytes} \subseteq Nat
          /\ {Documents[f].pages, Documents[f].width, Documents[f].height}
                 \subseteq Nat \cup {None}

Smaller(a, b) == IF a < b THEN a ELSE b
Larger(a, b) == IF a > b THEN a ELSE b
CeilDiv(a, b) == (a + b - 1) \div b

(* The sum of a sequence of numbers.                                         *)
SumOf(s) ==
    LET upto[n \in 0..Len(s)] == IF n = 0 THEN 0 ELSE upto[n - 1] + s[n]
    IN  upto[Len(s)]

(* The numbers of S up to n in their order, and the elements of a sequence   *)
(* at the positions in S.                                                    *)
Places(n, S) ==
    LET upto[m \in 0..n] ==
            IF m = 0 THEN <<>>
            ELSE IF m \in S THEN Append(upto[m - 1], m) ELSE upto[m - 1]
    IN  upto[n]

Pick(s, S) == LET at == Places(Len(s), S) IN [k \in DOMAIN at |-> s[at[k]]]

-----------------------------------------------------------------------------
(* What handing a file to a model as bytes costs: a tile's price per page of *)
(* a PDF or per crop of an image, guessed from the size when unmeasured.     *)

TokensPerTile == 258
UnmeasuredImageTiles == 4
UnmeasuredPdfBytesPerPage == 50000

TileEdge(w, h) == Smaller(768, Larger(256, (Smaller(w, h) * 2) \div 3))

ImageTiles(w, h) ==
    IF w <= 0 \/ h <= 0 THEN UnmeasuredImageTiles
    ELSE IF w <= 384 /\ h <= 384 THEN 1
    ELSE CeilDiv(w, TileEdge(w, h)) * CeilDiv(h, TileEdge(w, h))

PdfPages(d) ==
    Larger(1, IF d.pages = None THEN CeilDiv(d.bytes, UnmeasuredPdfBytesPerPage)
                                ELSE d.pages)

NativeTokenCost(d) ==
    TokensPerTile *
        (IF d.mime = "pdf" THEN PdfPages(d)
         ELSE IF None \in {d.width, d.height} THEN UnmeasuredImageTiles
         ELSE ImageTiles(d.width, d.height))

-----------------------------------------------------------------------------
(* Render step 1.  A model reads a file as bytes when it supports the kind   *)
(* and the file is not too big; otherwise the lane's text is injected.       *)

NativeWanted(f, spec) ==
    /\ Documents[f].mime \in spec.reads
    /\ spec.maxFileBytes = None \/ Documents[f].bytes <= spec.maxFileBytes

References(h) == FlattenSeq([i \in DOMAIN h |-> h[i].files])

Resolve(h, spec) ==
    LET refs == References(h)
        files == Pick(refs, {i \in DOMAIN refs : \A j \in 1..(i - 1) : refs[j] # refs[i]})
        one(f) == IF NativeWanted(f, spec)
                  THEN [file |-> f, mode |-> "native", chars |-> 0,
                        tokens |-> NativeTokenCost(Documents[f])]
                  ELSE [file |-> f, mode |-> "injected", tokens |-> 0,
                        chars |-> Documents[f].chars]
    IN  [k \in DOMAIN files |-> one(files[k])]

ByHash(att, f) == att[CHOOSE k \in DOMAIN att : att[k].file = f]

-----------------------------------------------------------------------------
(* Measuring: the text a message adds to the prompt, and what it costs.      *)

(* Blocks are joined by a blank line.                                        *)
Joined(parts) == SumOf(parts) + 2 * (Len(parts) - 1)

MarkerPart(m) == IF m.omitted > 0 THEN <<MarkerChars>> ELSE <<>>

Materialize(m, att) ==
    LET shown(f) == IF ByHash(att, f).mode = "injected"
                    THEN EnvelopeChars + ByHash(att, f).chars ELSE PlaceholderChars
    IN  Joined(MarkerPart(m) \o <<m.words>> \o [k \in DOMAIN m.files |-> shown(m.files[k])])

NativeTokens(att) ==
    SumOf([k \in DOMAIN att |-> IF att[k].mode = "native" THEN att[k].tokens ELSE 0])

(* Slip: a file's bytes weighed once for the thread, not on its messages.    *)
CostOfText(m, att) == Materialize(m, att) \div CharsPerToken + PerMessageOverhead

Cost(m, att) ==
    Materialize(m, att) \div CharsPerToken + PerMessageOverhead
        + NativeTokens([k \in DOMAIN m.files |-> ByHash(att, m.files[k])])

Total(h, att) == SumOf([i \in DOMAIN h |-> Cost(h[i], att)])

InputBudget(spec, maxTokens) ==
    spec.window
        - (IF maxTokens = None THEN spec.maxOut ELSE Smaller(maxTokens, spec.maxOut))
        - (spec.window * SafetyPct) \div 100

-----------------------------------------------------------------------------
(* Dropping whole turns, oldest first.                                       *)

Users(h) == {i \in DOMAIN h : h[i].role = "user"}

Pinned(h) ==
    {i \in DOMAIN h : i = 1 /\ h[i].role = "system"}
        \cup {i \in DOMAIN h : IF Users(h) = {} THEN i = Len(h)
                               ELSE i \in Users(h) /\ \A j \in Users(h) : j <= i}

Droppable(h) == DOMAIN h \ Pinned(h)

TakesItsAnswer(h, i) ==
    /\ i \in Droppable(h) /\ h[i].role = "user"
    /\ i + 1 \in Droppable(h) /\ h[i + 1].role = "assistant"

(* The first message of each droppable group.                                *)
Heads(h) == {i \in Droppable(h) : ~TakesItsAnswer(h, i - 1)}

(* What is gone once the group headed by g is dropped.                       *)
DroppedThrough(h, g) ==
    {i \in Droppable(h) : i <= g \/ (i = g + 1 /\ TakesItsAnswer(h, g))}

Rest(h, gone) == Pick(h, DOMAIN h \ gone)

(* What the markers of a history say is missing.                             *)
Omitted(h) == SumOf([i \in DOMAIN h |-> h[i].omitted])

(* Slip: the counts of markers on dropped messages are lost with them.       *)
MarkedForgetful(h, gone) ==
    LET rest == Rest(h, gone)
        target == IF rest[1].role = "system" /\ Len(rest) > 1 THEN 2 ELSE 1
    IN  IF gone = {} \/ rest = <<>> THEN rest
        ELSE [rest EXCEPT ![target].omitted = @ + Cardinality(gone)]

(* The survivors, with one marker on the first of them that is not the       *)
(* system message; the counts of markers on dropped messages are carried.    *)
Marked(h, gone) ==
    LET rest == Rest(h, gone)
        target == IF rest[1].role = "system" /\ Len(rest) > 1 THEN 2 ELSE 1
    IN  IF gone = {} \/ rest = <<>> THEN rest
        ELSE [rest EXCEPT ![target].omitted = @ + Cardinality(gone) + Omitted(Pick(h, gone))]

(* Group by group, until the rest fits or nothing is left to drop.           *)
DropOldestTurns(h, att, budget) ==
    LET enough == {g \in Heads(h) : Total(Marked(h, DroppedThrough(h, g)), att) <= budget}
    IN  IF enough = {} THEN Droppable(h)
        ELSE DroppedThrough(h, CHOOSE g \in enough : \A x \in enough : g <= x)

(* fit, up to the documents.                                                 *)
Shortened(h, att, budget) ==
    Marked(h, IF Total(h, att) <= budget THEN {} ELSE DropOldestTurns(h, att, budget))

-----------------------------------------------------------------------------
(* Cutting injected documents, the longest first, never under the floor.     *)

Truncatable(cut) ==
    {k \in DOMAIN cut.att : /\ k \notin cut.exhausted
                            /\ cut.att[k].mode = "injected"
                            /\ cut.att[k].chars > MinDocumentChars}

Longest(cut) ==
    CHOOSE k \in Truncatable(cut) : \A j \in Truncatable(cut) :
        \/ cut.att[j].chars < cut.att[k].chars
        \/ cut.att[j].chars = cut.att[k].chars /\ k <= j

(* Slip: the refusal not remembered.                                         *)
RefusedForgotten(cut, k) == cut

Refused(cut, k) == [cut EXCEPT !.exhausted = @ \cup {k}]

Keep(chars, excess) ==
    Larger(MinDocumentChars, chars - (excess * CharsPerToken + NoticeChars))

(* One turn of the loop over cut = [att, exhausted, cuts, total]: a cut that *)
(* would not shorten the text is refused, one at the floor is the last.      *)
CutOnce(h, budget, cut) ==
    LET k == Longest(cut)
        keep == Keep(cut.att[k].chars, cut.total - budget)
        att == [cut.att EXCEPT ![k].chars = keep + NoticeChars]
    IN  IF keep + NoticeChars >= cut.att[k].chars
        THEN Refused(cut, k)
        ELSE [att |-> att, cuts |-> cut.cuts + 1, total |-> Total(h, att),
              exhausted |-> cut.exhausted \cup
                                (IF keep = MinDocumentChars THEN {k} ELSE {})]

-----------------------------------------------------------------------------
(* build_payload.  The OpenAI shape (groq, openrouter) keeps every message   *)
(* in one list and cannot carry bytes; Gemini's hoists the system prompt and *)
(* puts bytes in parts of their own beside the text.                         *)

FilesRead(m, att, mode) ==
    Pick(m.files, {k \in DOMAIN m.files : ByHash(att, m.files[k]).mode = mode})

InjectedText(m, att) ==
    LET files == FilesRead(m, att, "injected")
    IN  Joined(MarkerPart(m) \o <<m.words>>
               \o [k \in DOMAIN files |-> EnvelopeChars + ByHash(att, files[k]).chars])

InlineFiles(m, att) == FilesRead(m, att, "native")

Renders(provider, h, att) ==
    provider = "gemini" \/ \A i \in DOMAIN h : InlineFiles(h[i], att) = <<>>

Entry(m, att) == [role |-> m.role, text |-> InjectedText(m, att), inline |-> <<>>]

BuildOpenAI(h, att) == [system |-> <<>>, contents |-> [i \in DOMAIN h |-> Entry(h[i], att)]]

BuildGemini(h, att) ==
    LET first == {i \in DOMAIN h : h[i].role = "system"}
        systems == Pick(h, first)
        turns == Pick(h, DOMAIN h \ first)
    IN  [system |-> IF systems = <<>> THEN <<>>
                    ELSE <<Joined([i \in DOMAIN systems |-> InjectedText(systems[i], att)])>>,
         contents |-> [i \in DOMAIN turns |->
                          [Entry(turns[i], att) EXCEPT !.inline = InlineFiles(turns[i], att)]]]

BuildPayload(provider, h, att) ==
    IF provider = "gemini" THEN BuildGemini(h, att) ELSE BuildOpenAI(h, att)

(* estimate_tokens: characters only; what is inline is not looked at.        *)
EstimateTokens(payload) ==
    LET tokens(text) == text \div CharsPerToken + PerMessageOverhead
    IN  Larger(1, SumOf([i \in DOMAIN payload.system |-> tokens(payload.system[i])])
                + SumOf([i \in DOMAIN payload.contents |-> tokens(payload.contents[i].text)]))

(* render step 6: what the router reserves for the attempt.                  *)
EstimatedTokens(payload, att) == EstimateTokens(payload) + NativeTokens(att)

=============================================================================
