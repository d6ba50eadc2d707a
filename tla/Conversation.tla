---------------------------- MODULE Conversation ----------------------------
(***************************************************************************)
(* One thread: its rows in Postgres (db/repo/conversations.py and          *)
(* messages.py, validated by memory/canonical.py), the turns that append   *)
(* to it (api/v1/chat.py), and the transcript a browser pages through      *)
(* (api/v1/conversations.py and useConversation of lib/hooks.ts).          *)
(*                                                                         *)
(* A transaction sees what is committed and what it wrote itself; SELECT   *)
(* ... FOR UPDATE of the conversation row is held to its end.  A message   *)
(* is its seq and its role and, for an answer, the seq of the question it  *)
(* was asked; what the prompt makes of the words is in Render.             *)
(***************************************************************************)
EXTENDS Integers, Sequences, FiniteSetsExt, SequencesExt

CONSTANTS
    Turns,      \* requests that may be under way at once
    Bodies,     \* what a client may send: the roles of its messages
    PageSize,   \* limit of a page
    MaxRows     \* bound on the thread's length

Nobody == "nobody"

ASSUME ConversationAssumption ==
    /\ Nobody \notin Turns
    /\ PageSize \in Nat \ {0} /\ MaxRows \in Nat
    /\ \A b \in Bodies :
          /\ b \in Seq({"system", "user"}) /\ b # <<>> /\ b[Len(b)] = "user"
          /\ \A i \in 2..Len(b) : b[i] = "user"

VARIABLES
    row,     \* the conversations row: unborn, creating, live or deleted
    log,     \* the committed rows of messages, as they were committed
    lock,    \* who holds the conversation row's lock
    pc,      \* the place of each turn
    body,    \* what it asks
    mine,    \* the rows it inserted and has not committed
    ask,     \* the seq of its question, once committed
    hist,    \* the history it read
    view     \* what the browser holds of the thread

vars == <<row, log, lock, pc, body, mine, ask, hist, view>>
turnVars == <<pc, body, mine, ask, hist>>

NoBody == <<>>
None == -1

(* ORDER BY seq: each row comes after those before it, and equals stay.      *)
Place(rows, k) ==
    Cardinality({j \in DOMAIN rows : rows[j].seq < rows[k].seq
                                     \/ (rows[j].seq = rows[k].seq /\ j <= k)})
Sorted(rows) ==
    SubSeq([i \in DOMAIN rows |-> rows[CHOOSE k \in DOMAIN rows : Place(rows, k) = i]],
           1, Len(rows))
Seqs(rows) == [i \in DOMAIN rows |-> rows[i].seq]

(* A thread's head in SWR's cache, the older pages loaded for it and the     *)
(* fetch of one more; another thread's fetch keeps this one's from starting. *)
(* slid is history: the head moved on from the page the older ones reach.    *)
NoView == [open |-> FALSE, head |-> <<>>, more |-> FALSE, cursor |-> None,
           loaded |-> FALSE, older |-> <<>>, olderMore |-> FALSE,
           olderCursor |-> None, asked |-> None, other |-> FALSE,
           slid |-> FALSE]

Init ==
    /\ row = "unborn" /\ log = <<>> /\ lock = Nobody
    /\ pc = [t \in Turns |-> "idle"]
    /\ body = [t \in Turns |-> NoBody]
    /\ mine = [t \in Turns |-> <<>>]
    /\ ask = [t \in Turns |-> None]
    /\ hist = [t \in Turns |-> <<>>]
    /\ view = NoView

-----------------------------------------------------------------------------
(* memory/canonical.py: what may follow the tail.                            *)

Row(seq, role, to) == [seq |-> seq, role |-> role, to |-> to]
NoRow == Row(None, "none", None)

ValidAppend(last, m) ==
    /\ m.seq = last.seq + 1
    /\ last # NoRow => m.role # "system"
    /\ ~(m.role = "assistant" /\ last.role = "assistant")

ValidMessage(m) == m.role = "system" => m.seq = 0

(* validate: the whole history, as the renderer asserts it.                  *)
Valid(h) ==
    \A i \in DOMAIN h :
        /\ ValidMessage(h[i])
        /\ ValidAppend(IF i = 1 THEN NoRow ELSE h[i - 1], h[i])

(* get_last, inside turn t's transaction.                                    *)
GetLast(t) ==
    LET rows == log \o mine[t]
    IN  IF rows = <<>> THEN NoRow
        ELSE rows[CHOOSE k \in DOMAIN rows :
                    \A j \in DOMAIN rows : rows[j].seq <= rows[k].seq]

NextSeq(t) == GetLast(t).seq + 1

-----------------------------------------------------------------------------
(* A turn's first transaction: resolve the conversation, append the inbound  *)
(* messages, touch, commit.                                                  *)

HasSystem(b) == \E i \in DOMAIN b : b[i] = "system"

(* Without a conversation_id a thread is created; nobody else knows its id   *)
(* before the commit.  Someone else's, or a deleted one, is a 404.           *)
Begin(t, b) ==
    /\ pc[t] = "idle"
    /\ row \in {"unborn", "live"}
    /\ row = "live" => ~HasSystem(b)          \* system_message_not_first
    /\ Len(log) + Len(b) < MaxRows
    /\ row' = IF row = "unborn" THEN "creating" ELSE row
    /\ pc' = [pc EXCEPT ![t] = "lock"]
    /\ body' = [body EXCEPT ![t] = b]
    /\ UNCHANGED <<log, lock, mine, ask, hist, view>>

Clear(t) ==
    /\ pc' = [pc EXCEPT ![t] = "idle"]
    /\ body' = [body EXCEPT ![t] = NoBody]
    /\ mine' = [mine EXCEPT ![t] = <<>>]
    /\ ask' = [ask EXCEPT ![t] = None]
    /\ hist' = [hist EXCEPT ![t] = <<>>]

(* Slip: a session that a failing request leaves open.                       *)
RollBackHolding(t) ==
    /\ Clear(t)
    /\ row' = IF row = "creating" THEN "unborn" ELSE row
    /\ UNCHANGED <<log, lock, view>>

(* The request is over and get_session closes its session, which rolls back  *)
(* what was not committed.                                                   *)
RollBack(t) ==
    /\ Clear(t)
    /\ lock' = IF lock = t THEN Nobody ELSE lock
    /\ row' = IF row = "creating" THEN "unborn" ELSE row
    /\ UNCHANGED <<log, view>>

(* Slip: the tail read without the lock.                                     *)
LockIgnoringHolders(t) ==
    /\ pc[t] \in {"lock", "alock"} /\ row # "deleted"
    /\ lock' = t
    /\ pc' = [pc EXCEPT ![t] = IF @ = "lock" THEN "insert" ELSE "ainsert"]
    /\ UNCHANGED <<row, log, body, mine, ask, hist, view>>

(* SELECT ... FOR UPDATE, scoped to the owner.                               *)
Lock(t) ==
    /\ pc[t] \in {"lock", "alock"} /\ lock = Nobody /\ row # "deleted"
    /\ lock' = t
    /\ pc' = [pc EXCEPT ![t] = IF @ = "lock" THEN "insert" ELSE "ainsert"]
    /\ UNCHANGED <<row, log, body, mine, ask, hist, view>>


(* The row went away meanwhile: NotFound.                                    *)
LockMisses(t) ==
    /\ pc[t] \in {"lock", "alock"} /\ lock = Nobody /\ row = "deleted"
    /\ RollBack(t)

(* Every inbound message, each validated against the one before.             *)
Insert(t) ==
    LET first == NextSeq(t)
        rows == [i \in DOMAIN body[t] |-> Row(first + i - 1, body[t][i], None)]
    IN  /\ pc[t] = "insert"
        /\ mine' = [mine EXCEPT ![t] = rows]
        /\ pc' = [pc EXCEPT ![t] = "commit"]
        /\ UNCHANGED <<row, log, lock, body, ask, hist, view>>

(* commit of the inbound turn: the lock goes with the transaction.           *)
Commit(t) ==
    /\ pc[t] = "commit"
    /\ log' = log \o mine[t]
    /\ mine' = [mine EXCEPT ![t] = <<>>]
    /\ ask' = [ask EXCEPT ![t] = mine[t][Len(mine[t])].seq]
    /\ row' = "live"
    /\ lock' = Nobody
    /\ pc' = [pc EXCEPT ![t] = "read"]
    /\ body' = [body EXCEPT ![t] = NoBody]
    /\ UNCHANGED <<hist, view>>

-----------------------------------------------------------------------------
(* The call.                                                                 *)


ReadHistory(t) ==
    /\ pc[t] = "read"
    /\ hist' = [hist EXCEPT ![t] = Sorted(log)]
    /\ pc' = [pc EXCEPT ![t] = "route"]
    /\ UNCHANGED <<row, log, lock, body, mine, ask, view>>

(* RoutingFailed: the failure is recorded, the question stays.               *)
GiveUp(t) ==
    /\ pc[t] = "route"
    /\ Clear(t)
    /\ UNCHANGED <<row, log, lock, view>>

(* route answers; the history it was given passed validate.                  *)
Answered(t) ==
    /\ pc[t] = "route" /\ Valid(hist[t])
    /\ pc' = [pc EXCEPT ![t] = "alock"]
    /\ hist' = [hist EXCEPT ![t] = <<>>]
    /\ UNCHANGED <<row, log, lock, body, mine, ask, view>>

-----------------------------------------------------------------------------
(* The second transaction: the answer's row.                                 *)

Answer(t) == Row(NextSeq(t), "assistant", ask[t])

InsertAnswer(t) ==
    /\ pc[t] = "ainsert" /\ ValidAppend(GetLast(t), Answer(t))
    /\ mine' = [mine EXCEPT ![t] = <<Answer(t)>>]
    /\ pc' = [pc EXCEPT ![t] = "acommit"]
    /\ UNCHANGED <<row, log, lock, body, ask, hist, view>>

(* InvariantViolation: another turn's answer is the tail.                    *)
RefuseAnswer(t) ==
    /\ pc[t] = "ainsert" /\ ~ValidAppend(GetLast(t), Answer(t))
    /\ RollBack(t)

CommitAnswer(t) ==
    /\ pc[t] = "acommit"
    /\ log' = log \o mine[t]
    /\ lock' = Nobody
    /\ Clear(t)
    /\ UNCHANGED <<row, view>>

(* The worker dies, or the request is cancelled.                             *)
Dies(t) == pc[t] # "idle" /\ RollBack(t)

-----------------------------------------------------------------------------
(* DELETE waits for the row's lock and cascades to the messages.             *)
Delete ==
    /\ row = "live" /\ lock = Nobody
    /\ row' = "deleted" /\ log' = <<>>
    /\ UNCHANGED <<lock, turnVars, view>>

-----------------------------------------------------------------------------
(* The browser.                                                              *)

(* The rows under the cursor, oldest first.                                  *)
Under(before) ==
    LET h == Sorted(log)
    IN  SubSeq(h, 1, Cardinality({i \in DOMAIN h : before = None \/ h[i].seq < before}))

(* Slip: the cursor taken from the sentinel row.                             *)
PageFromSentinel(before) ==
    LET rows == Under(before)
        page == SubSeq(rows, Max({1, Len(rows) - PageSize + 1}), Len(rows))
        more == Len(rows) > PageSize
    IN  [seqs |-> Seqs(page), more |-> more,
         cursor |-> IF more THEN rows[Len(rows) - PageSize].seq ELSE None]

(* list_page_for_conversation: the newest rows under the cursor, oldest      *)
(* first; one more than the limit is read to know whether there are more.    *)
Page(before) ==
    LET rows == Under(before)
        page == SubSeq(rows, Max({1, Len(rows) - PageSize + 1}), Len(rows))
        more == Len(rows) > PageSize
    IN  [seqs |-> Seqs(page), more |-> more, cursor |-> IF more THEN page[1].seq ELSE None]

(* The thread is shown, as SWR remembers it.                                 *)
Open ==
    /\ ~view.open /\ row = "live"
    /\ view' = [view EXCEPT !.open = TRUE]
    /\ UNCHANGED <<row, log, lock, turnVars>>

(* read_conversation: once the thread is shown, and again after every turn.  *)
(* It replaces the head and leaves the older pages, and their cursor, alone. *)
LoadHead ==
    LET page == Page(None) IN
    /\ view.open /\ row = "live"
    /\ view' = [view EXCEPT !.head = page.seqs, !.more = page.more,
                            !.cursor = page.cursor,
                            !.slid = @ \/ ((view.loaded \/ view.asked # None)
                                           /\ page.cursor # view.cursor)]
    /\ UNCHANGED <<row, log, lock, turnVars>>

HasMore == IF view.loaded THEN view.olderMore ELSE view.more
Cursor == IF view.loaded THEN view.olderCursor ELSE view.cursor

(* loadOlder: one fetch at a time of whatever thread (inFlightRef), with the *)
(* cursor of the last page or, before there is one, of the head.             *)
AskOlder ==
    /\ view.open /\ view.asked = None /\ ~view.other /\ HasMore /\ Cursor # None
    /\ view' = [view EXCEPT !.asked = Cursor]
    /\ UNCHANGED <<row, log, lock, turnVars>>

(* read_message_page answers, whichever thread is shown by then; a failed    *)
(* fetch changes nothing on the screen.                                      *)
OlderArrives ==
    /\ view.asked # None /\ row = "live"
    /\ view' = [view EXCEPT !.loaded = TRUE, !.older = Page(view.asked).seqs \o @,
                            !.olderMore = Page(view.asked).more,
                            !.olderCursor = Page(view.asked).cursor, !.asked = None]
    /\ UNCHANGED <<row, log, lock, turnVars>>

OlderFails ==
    /\ view.asked # None
    /\ view' = [view EXCEPT !.asked = None, !.slid = @ /\ view.loaded]
    /\ UNCHANGED <<row, log, lock, turnVars>>

(* Another thread is shown: the pages stay, kept against this one's id, and  *)
(* so does a fetch under way.                                                *)
Leave ==
    /\ view.open
    /\ view' = [view EXCEPT !.open = FALSE]
    /\ UNCHANGED <<row, log, lock, turnVars>>

(* It is scrolled back, too: its first page takes the place of these.        *)
AskElsewhere ==
    /\ ~view.open /\ view.asked = None /\ ~view.other
    /\ view' = [view EXCEPT !.other = TRUE]
    /\ UNCHANGED <<row, log, lock, turnVars>>

ElsewhereArrives ==
    /\ view.other
    /\ view' = [view EXCEPT !.other = FALSE, !.loaded = FALSE, !.older = <<>>,
                            !.olderMore = FALSE, !.olderCursor = None, !.slid = FALSE]
    /\ UNCHANGED <<row, log, lock, turnVars>>

ElsewhereFails ==
    /\ view.other
    /\ view' = [view EXCEPT !.other = FALSE]
    /\ UNCHANGED <<row, log, lock, turnVars>>

(* The view goes with its state, or the tab is loaded again.                 *)
Unmount ==
    /\ view # NoView
    /\ view' = [NoView EXCEPT !.head = view.head, !.more = view.more,
                              !.cursor = view.cursor]
    /\ UNCHANGED <<row, log, lock, turnVars>>

Reload == view # NoView /\ view' = NoView /\ UNCHANGED <<row, log, lock, turnVars>>

-----------------------------------------------------------------------------
Advance(t) ==
    \/ Lock(t) \/ LockMisses(t) \/ Insert(t) \/ Commit(t) \/ ReadHistory(t)
    \/ GiveUp(t) \/ Answered(t)
    \/ InsertAnswer(t) \/ RefuseAnswer(t) \/ CommitAnswer(t)

Browse ==
    \/ Open \/ LoadHead \/ AskOlder \/ OlderArrives \/ OlderFails
    \/ Leave \/ AskElsewhere \/ ElsewhereArrives \/ ElsewhereFails
    \/ Unmount \/ Reload

Next ==
    \/ \E t \in Turns : \/ \E b \in Bodies : Begin(t, b)
                        \/ Dies(t) \/ Advance(t)
    \/ Delete
    \/ Browse

Spec == Init /\ [][Next]_vars

(* Postgres grants a row's lock in the order it was asked for, calls end in  *)
(* an answer or an error, and the loop resumes whoever can run.              *)
FairSpec == Spec /\ \A t \in Turns : SF_vars(Advance(t))

-----------------------------------------------------------------------------
Steps == {"idle", "lock", "insert", "commit", "read", "route",
          "alock", "ainsert", "acommit"}

(* The types; a thread in the making belongs to a transaction that is open,  *)
(* and only an open transaction has rows of its own (_serve_completion).     *)
TypeOK ==
    /\ row \in {"unborn", "creating", "live", "deleted"}
    /\ lock \in Turns \cup {Nobody}
    /\ pc \in [Turns -> Steps]
    /\ row = "creating" => \E t \in Turns : pc[t] \in {"lock", "insert", "commit"}
    /\ \A t \in Turns : mine[t] # <<>> => pc[t] \in {"commit", "acommit"}
    /\ \A r \in Range(log) : r.role \in {"system", "user", "assistant"}

(* However the turns overlap, the committed rows number 0, 1, 2, ... without *)
(* a gap or a repeat, the system prompt is the first, no two answers follow  *)
(* each other, and an answer stands after the question it was asked          *)
(* (repo/messages.append, the invariants of memory/canonical.py).            *)
RowsAreInOrder ==
    LET h == Sorted(log) IN
    \A i \in DOMAIN h :
        /\ h[i].seq = i - 1
        /\ h[i].role = "system" => i = 1
        /\ h[i].role = "assistant" => /\ i > 1 /\ h[i - 1].role # "assistant"
                                      /\ h[i].to < h[i].seq
                                      /\ h[h[i].to + 1].role = "user"

(* Nothing of a deleted thread is left, and a turn that was under way when   *)
(* it went brings nothing back (repo/conversations.delete, append's 404).    *)
DeletedIsGone == row = "deleted" => log = <<>>

(* What a model is shown is history that was committed and is still there,   *)
(* and the turn's own question is in it (list_for_conversation after the     *)
(* commit of _serve_completion).                                             *)
PromptIsStored ==
    \A t \in Turns :
        (pc[t] = "route" /\ row = "live" /\ hist[t] # <<>>) =>
            /\ IsPrefix(hist[t], Sorted(log))
            /\ ask[t] < Len(hist[t])

Contiguous(q) == \A i \in 1..(Len(q) - 1) : q[i + 1] = q[i] + 1

(* The pages read while the thread grows: in the older ones and in the head  *)
(* there is no gap and no repeat, "no more" is said only at the beginning,   *)
(* the older ones end before the head begins, and they end right before it   *)
(* unless the head slid away from them (list_page_for_conversation,          *)
(* loadOlder and the revalidation of useConversation).                       *)
PagesJoin ==
    row = "live" =>
        /\ Contiguous(view.older) /\ Contiguous(view.head)
        /\ view.older # <<>> =>
               /\ view.older[1] = IF view.olderMore THEN view.olderCursor ELSE 0
               /\ view.head # <<>> /\ Last(view.older) < view.head[1]
               /\ ~view.slid => Last(view.older) + 1 = view.head[1]
        /\ (view.head # <<>> /\ ~view.more) => view.head[1] = 0

(* "The whole transcript on screen: every older page loaded, then the head": *)
(* what lies between two messages on the screen is on the screen too         *)
(* (messages of useConversation).                                            *)
Screen == Range(view.older) \cup Range(view.head)
TranscriptIsWhole ==
    row = "live" =>
        \A i \in Screen, k \in Screen : \A j \in i..k : j \in Screen

(* Every turn comes to an end: no transaction keeps the lock from the next.  *)
TurnsEnd == \A t \in Turns : pc[t] # "idle" ~> pc[t] = "idle"

(* The history stays valid under overlapping turns and a deletion in their   *)
(* midst: what is committed obeys canonical.py's invariants, and what was    *)
(* deleted does not come back (repo/messages.append,                         *)
(* repo/conversations.delete).                                               *)
HistoryIsValid == TypeOK /\ RowsAreInOrder /\ DeletedIsGone

(* Whoever reads while others write sees what is stored: the prompt of a     *)
(* model is committed history with its own question, and a reader's pages    *)
(* join, but for the head that slid.                                         *)
ReadersSeeTheStored == PromptIsStored /\ PagesJoin

=============================================================================
