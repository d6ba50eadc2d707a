------------------------- MODULE ConversationProofs -------------------------
(***************************************************************************)
(* What a thread keeps for any number of turns at once, any messages and   *)
(* any length: its rows are in order, a deletion stays, a model is shown   *)
(* what is stored, and the pages of a reader join.                         *)
(***************************************************************************)
EXTENDS Conversation, FiniteSetTheorems, SequenceTheorems, TLAPS

-----------------------------------------------------------------------------
(* The inductive invariant.                                                  *)

Roles == {"system", "user", "assistant"}
Rows == [seq : Int, role : Roles, to : Int]
Holding == {"insert", "commit", "ainsert", "acommit"}
Appending == {"lock", "insert", "commit"}
Asked == {"read", "route", "alock", "ainsert", "acommit"}

(* The rows are committed in order, so that reading them sorts nothing.      *)
InOrder(h, i) ==
    /\ h[i].seq = i - 1
    /\ h[i].role = "system" => i = 1
    /\ h[i].role = "assistant" => /\ i > 1 /\ h[i - 1].role # "assistant"
                                  /\ h[i].to \in 0..(i - 2)
                                  /\ h[h[i].to + 1].role = "user"
LogInOrder == \A i \in 1..Len(log) : InOrder(log, i)

(* Before its first commit a thread is its creator's alone, and it has rows  *)
(* only while it lives.                                                      *)
RowHolds ==
    /\ row = "unborn" => \A t \in Turns : pc[t] = "idle"
    /\ row = "creating" =>
           \E t \in Turns : /\ pc[t] \in Appending
                            /\ \A v \in Turns \ {t} : pc[v] = "idle"
    /\ row # "live" => log = <<>>

(* Who is between the lock and the commit holds it, and the row stays.       *)
LockHolds ==
    /\ \A t \in Turns : pc[t] \in Holding => lock = t
    /\ lock # Nobody => lock \in Turns /\ pc[lock] \in Holding /\ row # "deleted"

(* What a turn asks; only the creator may bring a system prompt.             *)
BodyHolds(t) ==
    pc[t] \in Appending => /\ body[t] \in Bodies
                           /\ HasSystem(body[t]) => row = "creating"

(* What a turn has inserted follows the tail, which nobody moves meanwhile.  *)
MineHolds(t) ==
    /\ pc[t] \notin {"commit", "acommit"} => mine[t] = <<>>
    /\ pc[t] = "commit" =>
           /\ Len(mine[t]) = Len(body[t])
           /\ \A i \in 1..Len(body[t]) :
                 mine[t][i] = Row(Len(log) + i - 1, body[t][i], None)
    /\ pc[t] = "acommit" =>
           /\ mine[t] = <<Row(Len(log), "assistant", ask[t])>>
           /\ log # <<>> /\ log[Len(log)].role # "assistant"

(* The question of a turn is where it was committed.                         *)
AskHolds(t) ==
    (pc[t] \in Asked /\ row = "live") =>
        ask[t] \in 0..(Len(log) - 1) /\ log[ask[t] + 1].role = "user"

(* The history a turn holds is how the log was, question and all.            *)
HistHolds(t) ==
    (pc[t] = "route" /\ row = "live" /\ hist[t] # <<>>) =>
        /\ Len(hist[t]) <= Len(log) /\ ask[t] < Len(hist[t])
        /\ \A i \in 1..Len(hist[t]) : hist[t][i] = log[i]

TurnInv(t) == BodyHolds(t) /\ MineHolds(t) /\ AskHolds(t) /\ HistHolds(t)

(* A cursor is the seq of a row that has others before it; a full page of    *)
(* rows follows the head's, so that a later head begins no earlier.          *)
Inside(n) == n \in 1..(Len(log) - 1)
HeadHolds ==
    /\ Contiguous(view.head)
    /\ (view.head # <<>> /\ ~view.more) => view.head[1] = 0
    /\ view.more => /\ Inside(view.cursor) /\ view.cursor + PageSize <= Len(log)
                    /\ view.head # <<>> /\ view.head[1] = view.cursor

(* The older pages end where the one after them began.                       *)
OlderHolds ==
    /\ Contiguous(view.older)
    /\ view.older # <<>> =>
           view.older[1] = IF view.olderMore THEN view.olderCursor ELSE 0
    /\ view.olderMore => Inside(view.olderCursor)
    /\ ~view.loaded => view.older = <<>> /\ ~view.olderMore
    /\ view.asked # None => Inside(view.asked)
    /\ (view.asked # None /\ view.loaded) =>
           view.olderMore /\ view.asked = view.olderCursor

(* The older pages, loaded or asked for, end before the head's first row,    *)
(* and right before it as long as the head has not slid.                     *)
Reaches(n) == view.more /\ n <= view.cursor /\ (~view.slid => n = view.cursor)
SeamHolds ==
    /\ view.loaded => view.older # <<>> /\ Reaches(Last(view.older) + 1)
    /\ (view.asked # None /\ ~view.loaded) => Reaches(view.asked)
    /\ view.slid => view.loaded \/ view.asked # None
    /\ view.other => view.asked = None

ViewHolds == row # "deleted" => HeadHolds /\ OlderHolds /\ SeamHolds

Views == [open : BOOLEAN, head : Seq(Int), more : BOOLEAN, cursor : Int,
          loaded : BOOLEAN, older : Seq(Int), olderMore : BOOLEAN,
          olderCursor : Int, asked : Int, other : BOOLEAN, slid : BOOLEAN]

Types ==
    /\ row \in {"unborn", "creating", "live", "deleted"}
    /\ log \in Seq(Rows)
    /\ lock \in Turns \cup {Nobody}
    /\ pc \in [Turns -> Steps]
    /\ body \in [Turns -> Seq({"system", "user"})]
    /\ mine \in [Turns -> Seq(Rows)]
    /\ ask \in [Turns -> Int]
    /\ hist \in [Turns -> Seq(Rows)]
    /\ view \in Views

Inv ==
    /\ Types /\ LogInOrder /\ RowHolds /\ LockHolds /\ ViewHolds
    /\ \A t \in Turns : TurnInv(t)


-----------------------------------------------------------------------------
(* Reading the thread.                                                       *)

InSeqOrder(h) == \A i \in 1..Len(h) : h[i].seq = i - 1

(* ORDER BY seq changes nothing of rows that are in order.                   *)
LEMMA SortedIs ==
    ASSUME NEW h \in Seq(Rows), InSeqOrder(h)
    PROVE  Sorted(h) = h
<1>1. Len(h) \in Nat /\ DOMAIN h = 1..Len(h) /\ h \in [1..Len(h) -> Rows]
  BY LenProperties
<1>2. ASSUME NEW k \in 1..Len(h) PROVE Place(h, k) = k
  <2>1. \A j \in 1..Len(h) :
           (h[j].seq < h[k].seq \/ (h[j].seq = h[k].seq /\ j <= k)) <=> j <= k
    BY <1>1 DEF InSeqOrder
  <2>2. {j \in DOMAIN h : h[j].seq < h[k].seq \/ (h[j].seq = h[k].seq /\ j <= k)} = 1..k
    BY <1>1, <2>1
  <2>3. Cardinality(1..k) = k BY <1>1, FS_Interval
  <2> QED BY <2>2, <2>3 DEF Place
<1>3. ASSUME NEW i \in 1..Len(h)
      PROVE  (CHOOSE k \in DOMAIN h : Place(h, k) = i) = i
  <2>1. \A k \in DOMAIN h : Place(h, k) = i <=> k = i BY <1>1, <1>2
  <2>2. i \in DOMAIN h BY <1>1
  <2>3. \A k \in DOMAIN h : Place(h, k) = i => k = i BY <2>1
  <2>4. Place(h, i) = i BY <2>1, <2>2
  <2> QED BY <2>2, <2>3, <2>4
<1>4. [i \in DOMAIN h |-> h[CHOOSE k \in DOMAIN h : Place(h, k) = i]] = h
  <2> DEFINE f == [i \in DOMAIN h |-> h[CHOOSE k \in DOMAIN h : Place(h, k) = i]]
  <2>1. \A i \in DOMAIN h : f[i] = h[i] BY <1>1, <1>3
  <2>2. DOMAIN f = DOMAIN h OBVIOUS
  <2>3. f = [i \in DOMAIN h |-> f[i]] OBVIOUS
  <2>4. h = [i \in DOMAIN h |-> h[i]] BY <1>1
  <2> QED BY <2>1, <2>3, <2>4
<1> QED BY <1>4, SubSeqFull DEF Sorted

LEMMA LogIsSorted ==
    ASSUME Types, LogInOrder
    PROVE  InSeqOrder(log) /\ Sorted(log) = log
BY SortedIs DEF Types, LogInOrder, InOrder, InSeqOrder

(* The tail, to a transaction that has inserted nothing yet.                 *)
LEMMA TailIs ==
    ASSUME Types, LogInOrder, NEW t \in Turns, mine[t] = <<>>
    PROVE  /\ GetLast(t) = IF log = <<>> THEN NoRow ELSE log[Len(log)]
           /\ NextSeq(t) = Len(log)
<1>1. log \o mine[t] = log BY ConcatEmptySeq DEF Types
<1>2. Len(log) \in Nat /\ DOMAIN log = 1..Len(log) /\ log \in [1..Len(log) -> Rows]
  BY LenProperties DEF Types
<1>3. CASE log = <<>>
  BY <1>1, <1>3 DEF GetLast, NextSeq, NoRow, Row, None
<1>4. CASE log # <<>>
  <2>1. Len(log) > 0 BY <1>2, <1>4, EmptySeq DEF Types
  <2>2. \A k \in DOMAIN log :
           (\A j \in DOMAIN log : log[j].seq <= log[k].seq) <=> k = Len(log)
    BY <1>2, <2>1 DEF LogInOrder, InOrder
  <2>3. Len(log) \in DOMAIN log BY <1>2, <2>1
  <2>4. (CHOOSE k \in DOMAIN log : \A j \in DOMAIN log : log[j].seq <= log[k].seq)
          = Len(log)
    BY <2>2, <2>3
  <2>5. GetLast(t) = log[Len(log)] BY <1>1, <1>4, <2>4 DEF GetLast
  <2>6. log[Len(log)].seq = Len(log) - 1 BY <1>2, <2>3 DEF LogInOrder, InOrder
  <2> QED BY <1>2, <1>4, <2>5, <2>6 DEF NextSeq
<1> QED BY <1>3, <1>4

(* A page of the n rows under a cursor: its seqs end at n - 1, and it leaves *)
(* rows out only if its own cursor says so.                                  *)
PageHolds(p, n) ==
    /\ p.seqs \in Seq(Int) /\ p.more \in BOOLEAN /\ p.cursor \in Int
    /\ Contiguous(p.seqs) /\ (n > 0 => p.seqs # <<>>)
    /\ p.seqs # <<>> =>
           /\ p.seqs[Len(p.seqs)] = n - 1
           /\ p.seqs[1] = IF p.more THEN p.cursor ELSE 0
    /\ p.more => p.cursor \in 1..(n - 1) /\ p.cursor = n - PageSize
    /\ n > PageSize => p.more

Covers(before, n) ==
    /\ n \in 0..Len(log)
    /\ before = n \/ (before = None /\ n = Len(log))

LEMMA UnderIs ==
    ASSUME Types, LogInOrder, NEW before, NEW n, Covers(before, n)
    PROVE  Under(before) \in Seq(Rows) /\ Len(Under(before)) = n
           /\ \A i \in 1..n : Under(before)[i].seq = i - 1
<1>1. Len(log) \in Nat /\ DOMAIN log = 1..Len(log) /\ log \in [1..Len(log) -> Rows]
  BY LenProperties DEF Types
<1>0. n \in 0..Len(log) BY DEF Covers
<1>2. {i \in DOMAIN log : before = None \/ log[i].seq < before} = 1..n
  <2>1. \A i \in 1..Len(log) : (before = None \/ log[i].seq < before) <=> i <= n
    <3>1. CASE before = None /\ n = Len(log) BY <1>1, <3>1
    <3>2. CASE before = n
      <4>1. before # None BY <1>0, <3>2 DEF None
      <4>2. \A i \in 1..Len(log) : log[i].seq < before <=> i <= n
        BY <1>0, <1>1, <3>2 DEF LogInOrder, InOrder
      <4> QED BY <4>1, <4>2
    <3> QED BY <3>1, <3>2 DEF Covers
  <2> QED BY <1>0, <1>1, <2>1
<1>3. Cardinality(1..n) = n BY <1>0, <1>1, FS_Interval
<1>4. Under(before) = SubSeq(log, 1, n) BY <1>2, <1>3, LogIsSorted DEF Under
<1>5. \A i \in 1..n : log[i] \in Rows BY <1>0, <1>1
<1>6. /\ Under(before) \in Seq(Rows) /\ Len(Under(before)) = n
      /\ \A i \in 1..n : Under(before)[i] = log[i]
  BY <1>0, <1>1, <1>4, <1>5, SubSeqProperties
<1> QED BY <1>0, <1>1, <1>6 DEF LogInOrder, InOrder


LEMMA MaxOfTwo ==
    ASSUME NEW a \in Int, NEW b \in Int
    PROVE  Max({a, b}) \in {a, b} /\ Max({a, b}) >= a /\ Max({a, b}) >= b
<1>1. \E x \in {a, b} : \A y \in {a, b} : x >= y
  <2>1. CASE a >= b BY <2>1
  <2>2. CASE b >= a BY <2>2
  <2> QED BY <2>1, <2>2
<1> QED BY <1>1 DEF Max

(* Where a page of k rows begins.                                            *)
LEMMA PageStart ==
    ASSUME NEW k \in Nat, NEW size \in Nat \ {0}
    PROVE  /\ Max({1, k - size + 1}) \in 1..(k + 1)
           /\ Max({1, k - size + 1}) = IF k > size THEN k - size + 1 ELSE 1
<1>1. PICK b \in Int : b = k - size + 1 OBVIOUS
<1>2. PICK m : m = Max({1, b}) OBVIOUS
<1>3. (m = 1 \/ m = b) /\ m >= 1 /\ m >= b BY <1>1, <1>2, MaxOfTwo
<1> QED BY <1>1, <1>2, <1>3

(* The seqs of the rows from lo on.                                          *)
LEMMA SeqsAre ==
    ASSUME NEW rows \in Seq(Rows), InSeqOrder(rows), NEW lo \in 1..(Len(rows) + 1),
           NEW page, page = SubSeq(rows, lo, Len(rows))
    PROVE  /\ Seqs(page) \in Seq(Int) /\ Len(Seqs(page)) = Len(rows) - lo + 1
           /\ \A i \in 1..(Len(rows) - lo + 1) :
                 Seqs(page)[i] = lo + i - 2 /\ page[i].seq = lo + i - 2
<1>1. PICK k \in Nat : k = Len(rows) BY LenProperties
<1>2. rows \in [1..k -> Rows] BY <1>1, LenProperties
<1>4. lo \in Nat \ {0} /\ lo <= k + 1 BY <1>1
<1>3. PICK m \in Nat : m = k - lo + 1
  <2>1. k - lo + 1 \in Nat BY <1>4
  <2> QED BY <2>1
<1>5. \A i \in lo..k : rows[i] \in Rows BY <1>2, <1>4
<1>6. /\ page \in Seq(Rows) /\ Len(page) = m
      /\ \A i \in 1..m : page[i] = rows[lo + i - 1]
  BY <1>1, <1>3, <1>4, <1>5, SubSeqProperties
<1>7. \A i \in 1..m : page[i].seq = lo + i - 2
  <2> SUFFICES ASSUME NEW i \in 1..m PROVE page[i].seq = lo + i - 2 OBVIOUS
  <2>1. PICK j \in Nat : j = lo + i - 1 BY <1>3, <1>4
  <2>2. j \in 1..Len(rows) BY <1>1, <1>3, <1>4, <2>1
  <2>3. rows[j].seq = j - 1 BY <2>2 DEF InSeqOrder
  <2>4. page[i] = rows[j] BY <1>6, <2>1
  <2> QED BY <1>3, <1>4, <2>1, <2>3, <2>4
<1>8. DOMAIN page = 1..m BY <1>6, LenProperties
<1>9. Seqs(page) = [i \in 1..m |-> lo + i - 2] BY <1>7, <1>8 DEF Seqs
<1>10. Seqs(page) \in [1..m -> Int] /\ \A i \in 1..m : Seqs(page)[i] = lo + i - 2
  BY <1>4, <1>9
<1>11. Seqs(page) \in Seq(Int) BY <1>10, SeqDef
<1>12. Len(Seqs(page)) = m BY <1>10, <1>11, LenProperties
<1> QED BY <1>1, <1>3, <1>7, <1>10, <1>11, <1>12

LEMMA PageIs ==
    ASSUME Types, LogInOrder, NEW before, NEW n, Covers(before, n)
    PROVE  PageHolds(Page(before), n)
<1>1. PICK k \in Nat : k = n
  BY LenProperties DEF Covers, Types
<1>2. PICK size \in Nat \ {0} : size = PageSize BY ConversationAssumption
<1>3. PICK l : l = Max({1, k - size + 1}) OBVIOUS
<1>4. l \in 1..(k + 1) /\ l = IF k > size THEN k - size + 1 ELSE 1
  BY <1>3, PageStart, Zenon
<1>5. PICK m \in Nat : m = k - l + 1 BY <1>4
<1>6. /\ l \in 1..(k + 1)
      /\ \A i \in 1..(m - 1) : /\ i \in 1..m /\ i + 1 \in 1..m
                               /\ l + (i + 1) - 2 = (l + i - 2) + 1
      /\ m > 0 => /\ l + m - 2 = k - 1 /\ l + 1 - 2 = l - 1
                  /\ 1 \in 1..m /\ m \in 1..m
      /\ k > size => m > 0 /\ l - 1 = k - size /\ k - size \in 1..(k - 1)
      /\ k > 0 => m > 0
      /\ ~(k > size) => l = 1
  BY <1>4, <1>5
<1>7. PICK rows \in Seq(Rows) : rows = Under(before) BY UnderIs
<1>8. Len(rows) = n /\ InSeqOrder(rows)
  BY <1>7, UnderIs, Zenon DEF InSeqOrder
<1>9. PICK page : page = SubSeq(rows, l, k) OBVIOUS
<1>10. Page(before) = [seqs |-> Seqs(page), more |-> (k > size),
                       cursor |-> IF k > size THEN page[1].seq ELSE None]
  BY <1>1, <1>2, <1>3, <1>7, <1>8, <1>9, Zenon DEF Page
<1>11. PICK s : s = Seqs(page) OBVIOUS
<1>12. /\ s \in Seq(Int) /\ Len(s) = m
       /\ \A i \in 1..m : s[i] = l + i - 2 /\ page[i].seq = l + i - 2
  <2>1. /\ l \in 1..(Len(rows) + 1) /\ page = SubSeq(rows, l, Len(rows))
        /\ m = Len(rows) - l + 1
    BY <1>1, <1>5, <1>6, <1>8, <1>9, Zenon
  <2>2. /\ s \in Seq(Int) /\ Len(s) = Len(rows) - l + 1
        /\ \A i \in 1..(Len(rows) - l + 1) : s[i] = l + i - 2 /\ page[i].seq = l + i - 2
    BY <1>8, <1>11, <2>1, SeqsAre, Zenon
  <2> QED BY <2>1, <2>2, Zenon
<1>13. Contiguous(s) BY <1>6, <1>12, Zenon DEF Contiguous
<1>14. s # <<>> <=> m > 0 BY <1>12, EmptySeq
<1>15. m > 0 => s[m] = k - 1 /\ s[1] = l - 1 /\ page[1].seq = l - 1
  BY <1>6, <1>12, Zenon
<1>16. k > size => m > 0 /\ page[1].seq = k - size BY <1>6, <1>15, Zenon
<1>17. PICK c \in Int : c = IF k > size THEN page[1].seq ELSE None
  BY <1>16 DEF None
<1>18. k > size => c = k - size BY <1>16, <1>17
<1>19. PageHolds([seqs |-> s, more |-> (k > size), cursor |-> c], k)
  <2>1. s # <<>> => s[Len(s)] = k - 1 BY <1>12, <1>14, <1>15, Zenon
  <2>2. s # <<>> => s[1] = IF k > size THEN c ELSE 0
    <3>1. ~(k > size) => l - 1 = 0 BY <1>6
    <3>2. k > size => l - 1 = c BY <1>6, <1>18, Zenon
    <3> QED BY <1>14, <1>15, <3>1, <3>2, Zenon
  <2>3. k > 0 => s # <<>> BY <1>6, <1>14, Zenon
  <2>4. k > size => c \in 1..(k - 1) /\ c = k - PageSize BY <1>2, <1>6, <1>18, Zenon
  <2>5. (k > size) \in BOOLEAN /\ (k > PageSize => k > size) BY <1>2
  <2> QED BY <1>12, <1>13, <2>1, <2>2, <2>3, <2>4, <2>5 DEF PageHolds
<1> QED BY <1>1, <1>10, <1>11, <1>17, <1>19


-----------------------------------------------------------------------------
(* What a step leaves alone.                                                 *)

(* The log as it was, with more rows after it.                               *)
Grows ==
    /\ Len(log) <= Len(log') /\ \A i \in 1..Len(log) : log'[i] = log[i]

(* A turn that the step is not of.                                           *)
LEMMA TurnStays ==
    ASSUME Types, Types', NEW v \in Turns, TurnInv(v),
           pc'[v] = pc[v], body'[v] = body[v], mine'[v] = mine[v],
           ask'[v] = ask[v], hist'[v] = hist[v],
           row' = "live" => Grows,
           pc[v] \in {"commit", "acommit"} => log' = log,
           pc[v] = "idle" \/ ((row = "creating" \/ row' = "live") => row' = row)
    PROVE  TurnInv(v)'
<1>1. BodyHolds(v)' BY DEF TurnInv, BodyHolds, Appending
<1>2. MineHolds(v)' BY DEF TurnInv, MineHolds
<1>3. Len(log) \in Nat /\ Len(log') \in Nat BY LenProperties DEF Types
<1>4. AskHolds(v)'
  <2> SUFFICES ASSUME pc'[v] \in Asked, row' = "live"
               PROVE  /\ ask'[v] \in 0..(Len(log') - 1)
                      /\ log'[ask'[v] + 1].role = "user"
    BY DEF AskHolds
  <2>1. row = "live" /\ pc[v] \in Asked BY DEF Asked
  <2>2. ask[v] \in 0..(Len(log) - 1) /\ log[ask[v] + 1].role = "user"
    BY <2>1 DEF TurnInv, AskHolds
  <2>3. PICK a \in Nat : a = ask[v] BY <2>2
  <2>4. a + 1 \in 1..Len(log) /\ a \in 0..(Len(log') - 1)
    BY <1>3, <2>2, <2>3 DEF Grows
  <2> QED BY <2>2, <2>3, <2>4 DEF Grows
<1>5. HistHolds(v)'
  <2> SUFFICES ASSUME pc'[v] = "route", row' = "live", hist'[v] # <<>>
               PROVE  /\ Len(hist[v]) <= Len(log') /\ ask[v] < Len(hist[v])
                      /\ \A i \in 1..Len(hist[v]) : hist[v][i] = log'[i]
    BY DEF HistHolds
  <2>0. pc[v] = "route" /\ row = "live" /\ hist[v] # <<>> /\ Grows OBVIOUS
  <2>1. PICK h : h = hist[v] OBVIOUS
  <2>2. /\ Len(h) <= Len(log) /\ ask[v] < Len(h)
        /\ \A i \in 1..Len(h) : h[i] = log[i]
    BY <2>0, <2>1 DEF TurnInv, HistHolds
  <2>3. Len(h) \in Nat BY <2>1, LenProperties DEF Types
  <2>4. Len(h) <= Len(log') BY <1>3, <2>0, <2>2, <2>3 DEF Grows
  <2>5. \A i \in 1..Len(h) : i \in 1..Len(log) BY <1>3, <2>2, <2>3
  <2>6. \A i \in 1..Len(h) : h[i] = log'[i] BY <2>0, <2>2, <2>5 DEF Grows
  <2> QED BY <2>1, <2>2, <2>4, <2>6
<1> QED BY <1>1, <1>2, <1>4, <1>5 DEF TurnInv

LEMMA LogGrows ==
    ASSUME Types, NEW s \in Seq(Rows)
    PROVE  /\ log \o s \in Seq(Rows) /\ Len(log \o s) = Len(log) + Len(s)
           /\ Len(log) <= Len(log \o s)
           /\ \A i \in 1..Len(log) : (log \o s)[i] = log[i]
           /\ \A i \in 1..Len(s) : (log \o s)[Len(log) + i] = s[i]
<1>1. PICK n \in Nat, k \in Nat : n = Len(log) /\ k = Len(s)
  BY LenProperties DEF Types
<1>2. /\ log \o s \in Seq(Rows) /\ Len(log \o s) = n + k
      /\ \A i \in 1..(n + k) : (log \o s)[i] = IF i <= n THEN log[i] ELSE s[i - n]
  BY <1>1, ConcatProperties DEF Types
<1>3. \A i \in 1..n : i \in 1..(n + k) /\ i <= n OBVIOUS
<1>4. \A i \in 1..k : n + i \in 1..(n + k) /\ ~(n + i <= n) /\ (n + i) - n = i OBVIOUS
<1>5. \A i \in 1..n : (log \o s)[i] = log[i] BY <1>2, <1>3
<1>6. \A i \in 1..k : (log \o s)[n + i] = s[i] BY <1>2, <1>4
<1>7. n <= n + k OBVIOUS
<1> QED BY <1>1, <1>2, <1>5, <1>6, <1>7

(* Rows that stay where they are stay in order.                              *)
LEMMA OldRowsStay ==
    ASSUME NEW h, NEW g, NEW n \in Nat, \A j \in 1..n : g[j] = h[j],
           NEW i \in 1..n, InOrder(h, i)
    PROVE  InOrder(g, i)
<1>1. g[i] = h[i] OBVIOUS
<1>2. CASE h[i].role = "assistant"
  <2>1. i > 1 /\ h[i].to \in 0..(i - 2) BY <1>2 DEF InOrder
  <2>2. PICK a \in 0..(i - 2) : a = h[i].to BY <2>1
  <2>3. a + 1 \in 1..n /\ i - 1 \in 1..n BY <2>1, <2>2
  <2>4. g[a + 1] = h[a + 1] /\ g[i - 1] = h[i - 1] BY <2>3
  <2>5. h[a + 1].role = "user" /\ h[i - 1].role # "assistant" /\ h[i].seq = i - 1
    BY <1>2, <2>2 DEF InOrder
  <2> QED BY <1>1, <1>2, <2>1, <2>2, <2>4, <2>5 DEF InOrder
<1>3. CASE h[i].role # "assistant" BY <1>1, <1>3 DEF InOrder
<1> QED BY <1>2, <1>3

(* A thread's end and its growth are nothing to the pages already read.      *)
LEMMA ViewStays ==
    ASSUME Types, Types', ViewHolds, view' = view, row' # "deleted" => Grows,
           row = "deleted" => row' = "deleted"
    PROVE  ViewHolds'
<1> SUFFICES ASSUME row' # "deleted" PROVE HeadHolds' /\ OlderHolds' /\ SeamHolds'
  BY DEF ViewHolds
<1>1. PICK n \in Nat, m \in Nat : n = Len(log) /\ m = Len(log') /\ n <= m
  BY LenProperties DEF Types, Grows
<1>2. \A k : Inside(k) => Inside(k)' BY <1>1 DEF Inside
<1>3. HeadHolds /\ OlderHolds /\ SeamHolds BY DEF ViewHolds
<1>4. HeadHolds'
  <2>1. view.cursor + PageSize <= n => view.cursor + PageSize <= m
    BY <1>1, ConversationAssumption DEF Types, Views
  <2> QED BY <1>1, <1>2, <1>3, <2>1, Zenon DEF HeadHolds, Contiguous
<1>5. OlderHolds' BY <1>2, <1>3, Zenon DEF OlderHolds, Contiguous
<1>6. SeamHolds' BY <1>3 DEF SeamHolds, Reaches
<1> QED BY <1>4, <1>5, <1>6

(* A turn that goes.                                                         *)
LEMMA ClearIs ==
    ASSUME Types, NEW t \in Turns, Clear(t)
    PROVE  /\ pc' \in [Turns -> Steps] /\ body' \in [Turns -> Seq({"system", "user"})]
           /\ mine' \in [Turns -> Seq(Rows)] /\ ask' \in [Turns -> Int]
           /\ hist' \in [Turns -> Seq(Rows)]
           /\ pc'[t] = "idle" /\ mine'[t] = <<>>
           /\ \A v \in Turns \ {t} :
                 /\ pc'[v] = pc[v] /\ body'[v] = body[v] /\ mine'[v] = mine[v]
                 /\ ask'[v] = ask[v] /\ hist'[v] = hist[v]
<1>1. /\ <<>> \in Seq({"system", "user"}) /\ <<>> \in Seq(Rows) /\ None \in Int
  BY EmptySeq DEF None
<1> QED BY <1>1 DEF Types, Clear, Steps, NoBody

LEMMA IdleHolds ==
    ASSUME NEW t \in Turns, pc'[t] = "idle", mine'[t] = <<>>
    PROVE  TurnInv(t)'
BY DEF TurnInv, BodyHolds, MineHolds, AskHolds, HistHolds, Appending, Asked


-----------------------------------------------------------------------------
(* The steps of a turn.                                                      *)

(* A turn's own places do not matter to the others', but for the lock.       *)
LEMMA BeginKeeps ==
    ASSUME Inv, NEW t \in Turns, NEW b \in Bodies, Begin(t, b)
    PROVE  Inv'
<1>1. b \in Seq({"system", "user"}) BY ConversationAssumption
<1>2. Types' BY <1>1 DEF Inv, Types, Begin, Steps
<1>3. /\ pc'[t] = "lock" /\ body'[t] = b /\ mine'[t] = <<>>
      /\ \A v \in Turns \ {t} : pc'[v] = pc[v] /\ body'[v] = body[v]
  BY DEF Begin, Inv, Types, TurnInv, MineHolds
<1>4. log' = log /\ lock' = lock /\ view' = view /\ Grows
  BY LenProperties DEF Begin, Grows, Inv, Types
<1>5. LogInOrder' BY <1>4 DEF Inv, LogInOrder
<1>6. RowHolds' BY <1>3, <1>4 DEF Begin, Inv, RowHolds, Appending
<1>7. LockHolds'
  BY <1>3, <1>4, ConversationAssumption DEF Begin, Inv, LockHolds, Holding
<1>8. ViewHolds' BY <1>2, <1>4, ViewStays DEF Begin, Inv
<1>9. TurnInv(t)'
  BY <1>3 DEF Begin, TurnInv, BodyHolds, MineHolds, AskHolds, HistHolds, Asked
<1>10. ASSUME NEW v \in Turns \ {t} PROVE TurnInv(v)'
  <2>1. pc[v] = "idle" \/ ((row = "creating" \/ row' = "live") => row' = row)
    BY DEF Begin
  <2> QED BY <1>2, <1>3, <1>4, <2>1, TurnStays DEF Begin, Inv
<1> QED BY <1>2, <1>5, <1>6, <1>7, <1>8, <1>9, <1>10 DEF Inv

(* A transaction rolled back, or a request that ends without one.            *)
LEMMA EndKeeps ==
    ASSUME Inv, NEW t \in Turns, pc[t] # "idle", Clear(t),
           log' = log, view' = view,
           lock' = IF lock = t THEN Nobody ELSE lock,
           row' = IF row = "creating" THEN "unborn" ELSE row
    PROVE  Inv'
<1>1. Types' BY ClearIs DEF Inv, Types
<1>2. Grows BY LenProperties DEF Grows, Inv, Types
<1>3. LogInOrder' BY DEF Inv, LogInOrder
<1>4. \A v \in Turns \ {t} : pc'[v] = pc[v] BY ClearIs DEF Inv
<1>5. pc'[t] = "idle" /\ mine'[t] = <<>> BY ClearIs DEF Inv
<1>6. RowHolds'
  <2>1. CASE row = "creating"
    <3>1. \A v \in Turns \ {t} : pc[v] = "idle"
      BY <2>1 DEF Inv, RowHolds
    <3> QED BY <1>4, <1>5, <2>1, <3>1 DEF Inv, RowHolds
  <2>2. CASE row # "creating" BY <2>2 DEF Inv, RowHolds
  <2> QED BY <2>1, <2>2
<1>7. LockHolds'
  <2>1. \A v \in Turns : pc'[v] \in Holding => v # t /\ lock = v
    BY <1>4, <1>5 DEF Inv, LockHolds, Holding
  <2>2. lock' # Nobody => lock' # t /\ lock' = lock
    BY ConversationAssumption
  <2> QED BY <1>4, <2>1, <2>2 DEF Inv, LockHolds
<1>8. ViewHolds' BY <1>1, <1>2, ViewStays DEF Inv
<1>9. ASSUME NEW v \in Turns \ {t} PROVE TurnInv(v)'
  <2>1. pc[v] = "idle" \/ ((row = "creating" \/ row' = "live") => row' = row)
    BY DEF Inv, RowHolds
  <2> QED BY <1>1, <1>2, <2>1, ClearIs, TurnStays DEF Inv
<1> QED BY <1>1, <1>3, <1>5, <1>6, <1>7, <1>8, <1>9, IdleHolds DEF Inv


Others(t) ==
    \A v \in Turns \ {t} :
        /\ pc'[v] = pc[v] /\ body'[v] = body[v] /\ mine'[v] = mine[v]
        /\ ask'[v] = ask[v] /\ hist'[v] = hist[v]

(* A step of one turn that commits nothing.                                  *)
LEMMA StepKeeps ==
    ASSUME Inv, Types', NEW t \in Turns, Others(t),
           row' = row, log' = log, view' = view,
           pc[t] # "idle", row = "creating" => pc'[t] \in Appending,
           \/ lock' = lock /\ (pc[t] \in Holding <=> pc'[t] \in Holding)
           \/ lock = Nobody /\ lock' = t /\ pc'[t] \in Holding /\ row # "deleted",
           TurnInv(t)'
    PROVE  Inv'
<1>1. Grows BY LenProperties DEF Grows, Inv, Types
<1>2. LogInOrder' BY DEF Inv, LogInOrder
<1>3. RowHolds'
  <2>1. row = "unborn" => FALSE BY DEF Inv, RowHolds
  <2>2. row = "creating" => \A v \in Turns \ {t} : pc[v] = "idle"
    BY DEF Inv, RowHolds
  <2>3. \A v \in Turns \ {t} : pc'[v] = pc[v] BY DEF Others
  <2> QED BY <2>1, <2>2, <2>3 DEF Inv, RowHolds
<1>4. LockHolds'
  <2>1. CASE lock' = lock /\ (pc[t] \in Holding <=> pc'[t] \in Holding)
    BY <2>1 DEF Inv, LockHolds, Others
  <2>2. CASE lock = Nobody /\ lock' = t /\ pc'[t] \in Holding /\ row # "deleted"
    <3>1. \A v \in Turns \ {t} : pc'[v] \notin Holding
      BY <2>2, ConversationAssumption DEF Inv, LockHolds, Others
    <3> QED BY <2>2, <3>1 DEF LockHolds
  <2> QED BY <2>1, <2>2
<1>5. ViewHolds' BY <1>1, ViewStays DEF Inv
<1>6. ASSUME NEW v \in Turns \ {t} PROVE TurnInv(v)'
  BY <1>1, TurnStays DEF Inv, Others
<1> QED BY <1>2, <1>3, <1>4, <1>5, <1>6 DEF Inv

LEMMA LockKeeps ==
    ASSUME Inv, NEW t \in Turns, Lock(t)
    PROVE  Inv'
<1>1. Types' BY DEF Inv, Types, Lock, Steps
<1>2. pc'[t] = (IF pc[t] = "lock" THEN "insert" ELSE "ainsert") BY DEF Lock, Inv, Types
<1>3. Others(t) BY DEF Lock, Inv, Types, Others
<1>4. row = "creating" => pc[t] = "lock"
  <2>1. row = "creating" => pc[t] \in Appending
    BY DEF Lock, Inv, RowHolds
  <2> QED BY <2>1 DEF Lock, Appending
<1>5. TurnInv(t)'
  BY <1>2 DEF Lock, Inv, TurnInv, BodyHolds, MineHolds, AskHolds, HistHolds,
              Appending, Asked
<1>6. pc'[t] \in Holding /\ (row = "creating" => pc'[t] \in Appending)
  BY <1>2, <1>4 DEF Holding, Appending
<1> QED BY <1>1, <1>3, <1>5, <1>6, StepKeeps DEF Lock

LEMMA InsertKeeps ==
    ASSUME Inv, NEW t \in Turns, Insert(t)
    PROVE  Inv'
<1>1. pc[t] = "insert" /\ mine[t] = <<>> BY DEF Insert, Inv, TurnInv, MineHolds
<1>2. NextSeq(t) = Len(log) /\ Len(log) \in Nat
  BY <1>1, TailIs, LenProperties DEF Inv, Types
<1>3. PICK b \in Seq({"system", "user"}) : b = body[t] BY DEF Inv, Types
<1>4. PICK n \in Nat : n = Len(b) BY LenProperties
<1>5. b \in [1..n -> {"system", "user"}] /\ DOMAIN b = 1..n BY <1>4, LenProperties
<1>6. PICK rows : rows = [i \in 1..n |-> Row(Len(log) + i - 1, b[i], None)] OBVIOUS
<1>7. mine' = [mine EXCEPT ![t] = rows]
  BY <1>2, <1>3, <1>5, <1>6 DEF Insert
<1>8. \A i \in 1..n : Row(Len(log) + i - 1, b[i], None) \in Rows
  BY <1>2, <1>5 DEF Row, Rows, Roles, None
<1>9. rows \in [1..n -> Rows] BY <1>6, <1>8
<1>10. rows \in Seq(Rows) BY <1>9, SeqDef
<1>11. Len(rows) = n BY <1>9, <1>10, <1>4, LenProperties
<1>12. Types' BY <1>7, <1>10 DEF Insert, Inv, Types, Steps
<1>13. mine'[t] = rows /\ pc'[t] = "commit" /\ Others(t)
  BY <1>7 DEF Insert, Inv, Types, Others
<1>14. BodyHolds(t)'
  BY <1>1, <1>13 DEF Insert, Inv, TurnInv, BodyHolds, Appending
<1>15. MineHolds(t)'
  BY <1>3, <1>4, <1>6, <1>11, <1>13 DEF Insert, MineHolds
<1>16. TurnInv(t)'
  BY <1>13, <1>14, <1>15 DEF TurnInv, AskHolds, HistHolds, Asked
<1>17. pc[t] \in Holding /\ pc'[t] \in Holding /\ pc'[t] \in Appending
  BY <1>1, <1>13 DEF Holding, Appending
<1> QED BY <1>1, <1>12, <1>13, <1>16, <1>17, StepKeeps DEF Insert

LEMMA ReadHistoryKeeps ==
    ASSUME Inv, NEW t \in Turns, ReadHistory(t)
    PROVE  Inv'
<1>1. hist' = [hist EXCEPT ![t] = log] BY LogIsSorted DEF ReadHistory, Inv
<1>2. Types' BY <1>1 DEF ReadHistory, Inv, Types, Steps
<1>3. /\ pc[t] = "read" /\ pc'[t] = "route" /\ hist'[t] = log /\ Others(t)
      /\ row' = row /\ log' = log /\ ask' = ask /\ mine' = mine /\ body' = body
      /\ view' = view /\ lock' = lock
  BY <1>1 DEF ReadHistory, Inv, Types, Others
<1>4. Len(log) \in Nat BY LenProperties DEF Inv, Types
<1>5. row = "live" => ask[t] \in 0..(Len(log) - 1) /\ log[ask[t] + 1].role = "user"
  BY <1>3 DEF Inv, TurnInv, AskHolds, Asked
<1>6. AskHolds(t)' BY <1>3, <1>5 DEF AskHolds
<1>7. HistHolds(t)' BY <1>3, <1>4, <1>5 DEF HistHolds
<1>8. MineHolds(t)' BY <1>3 DEF MineHolds, Inv, TurnInv
<1>9. BodyHolds(t)' BY <1>3 DEF BodyHolds, Appending
<1>10. row # "creating" BY <1>3 DEF Inv, RowHolds, Appending
<1>11. pc[t] \notin Holding /\ pc'[t] \notin Holding BY <1>3 DEF Holding
<1> QED BY <1>2, <1>3, <1>6, <1>7, <1>8, <1>9, <1>10, <1>11, StepKeeps DEF TurnInv


LEMMA AnsweredKeeps ==
    ASSUME Inv, NEW t \in Turns, Answered(t)
    PROVE  Inv'
<1>1. <<>> \in Seq(Rows) BY EmptySeq
<1>2. Types' BY <1>1 DEF Answered, Inv, Types, Steps
<1>3. pc[t] = "route" /\ pc'[t] = "alock" /\ Others(t)
  BY DEF Answered, Inv, Types, Others
<1>4. TurnInv(t)'
  BY <1>3 DEF Answered, Inv, TurnInv, BodyHolds, MineHolds, AskHolds, HistHolds,
              Appending, Asked
<1>5. row # "creating" BY <1>3 DEF Inv, RowHolds, Appending
<1>6. pc[t] \notin Holding /\ pc'[t] \notin Holding BY <1>3 DEF Holding
<1> QED BY <1>2, <1>3, <1>4, <1>5, <1>6, StepKeeps DEF Answered

(* Whoever holds the lock of the answer's transaction has a live thread.     *)
LEMMA AnswerIsLive ==
    ASSUME Inv, NEW t \in Turns, pc[t] \in {"ainsert", "acommit"}
    PROVE  /\ row = "live" /\ log # <<>> /\ Len(log) \in Nat \ {0} /\ lock = t
           /\ ask[t] \in 0..(Len(log) - 1) /\ log[ask[t] + 1].role = "user"
<1>1. lock = t /\ row # "deleted"
  BY ConversationAssumption DEF Inv, LockHolds, Holding
<1>2. row # "unborn" /\ row # "creating" BY DEF Inv, RowHolds, Appending
<1>3. row = "live" BY <1>1, <1>2 DEF Inv, Types
<1>4. ask[t] \in 0..(Len(log) - 1) /\ log[ask[t] + 1].role = "user"
  BY <1>3 DEF Inv, TurnInv, AskHolds, Asked
<1>5. Len(log) \in Nat BY LenProperties DEF Inv, Types
<1>6. Len(log) # 0 BY <1>4, <1>5
<1>7. log # <<>> BY <1>6, EmptySeq
<1> QED BY <1>1, <1>3, <1>4, <1>5, <1>6, <1>7

LEMMA InsertAnswerKeeps ==
    ASSUME Inv, NEW t \in Turns, InsertAnswer(t)
    PROVE  Inv'
<1>1. pc[t] = "ainsert" /\ mine[t] = <<>>
  BY DEF InsertAnswer, Inv, TurnInv, MineHolds
<1>2. /\ row = "live" /\ log # <<>> /\ Len(log) \in Nat \ {0} /\ lock = t
      /\ ask[t] \in Int
  BY <1>1, AnswerIsLive DEF Inv, Types
<1>3. GetLast(t) = log[Len(log)] /\ NextSeq(t) = Len(log)
  BY <1>1, <1>2, TailIs DEF Inv
<1>4. PICK r : r = Row(Len(log), "assistant", ask[t]) OBVIOUS
<1>5. Answer(t) = r BY <1>3, <1>4 DEF Answer
<1>6. r \in Rows /\ r.role = "assistant" BY <1>2, <1>4 DEF Row, Rows, Roles
<1>7. log[Len(log)].role # "assistant"
  BY <1>3, <1>5, <1>6 DEF InsertAnswer, ValidAppend
<1>8. mine' = [mine EXCEPT ![t] = <<r>>] BY <1>5 DEF InsertAnswer
<1>9. <<r>> \in Seq(Rows) BY <1>6
<1>10. Types' BY <1>8, <1>9 DEF InsertAnswer, Inv, Types, Steps
<1>11. pc'[t] = "acommit" /\ mine'[t] = <<r>> /\ Others(t)
  BY <1>8 DEF InsertAnswer, Inv, Types, Others
<1>12. MineHolds(t)' BY <1>2, <1>4, <1>7, <1>11 DEF InsertAnswer, MineHolds
<1>13. AskHolds(t)' BY <1>1 DEF InsertAnswer, Inv, TurnInv, AskHolds, Asked
<1>14. TurnInv(t)'
  BY <1>11, <1>12, <1>13 DEF TurnInv, BodyHolds, HistHolds, Appending
<1>15. pc[t] \in Holding /\ pc'[t] \in Holding BY <1>1, <1>11 DEF Holding
<1> QED BY <1>1, <1>2, <1>10, <1>11, <1>14, <1>15, StepKeeps DEF InsertAnswer

(* A commit: the log grows by what the turn inserted, and the lock is free.  *)
LEMMA CommitsKeep ==
    ASSUME Inv, NEW t \in Turns, pc[t] \in {"commit", "acommit"}, Types', Others(t),
           log' = log \o mine[t], row' = "live", lock' = Nobody, view' = view,
           pc'[t] \notin Holding, LogInOrder', TurnInv(t)'
    PROVE  Inv'
<1>1. lock = t BY DEF Inv, LockHolds, Holding
<1>2. Grows BY LogGrows DEF Grows, Inv, Types
<1>3. row # "deleted" BY <1>1, ConversationAssumption DEF Inv, LockHolds
<1>4. RowHolds' BY DEF RowHolds
<1>5. LockHolds'
  <2>1. \A v \in Turns \ {t} : pc'[v] \notin Holding
    BY <1>1 DEF Inv, LockHolds, Others
  <2> QED BY <2>1 DEF LockHolds
<1>6. ViewHolds' BY <1>2, <1>3, ViewStays DEF Inv
<1>7. ASSUME NEW v \in Turns \ {t} PROVE TurnInv(v)'
  <2>1. pc[v] \notin {"commit", "acommit"} BY <1>1 DEF Inv, LockHolds, Holding
  <2>2. pc[v] = "idle" \/ row = "live"
    BY <1>3 DEF Inv, Types, RowHolds
  <2> QED BY <1>2, <2>1, <2>2, TurnStays DEF Inv, Others
<1> QED BY <1>4, <1>5, <1>6, <1>7 DEF Inv

LEMMA CommitAnswerKeeps ==
    ASSUME Inv, NEW t \in Turns, CommitAnswer(t)
    PROVE  Inv'
<1>1. pc[t] = "acommit" /\ log' = log \o mine[t] BY DEF CommitAnswer
<1>2. /\ row = "live" /\ Len(log) \in Nat \ {0}
      /\ ask[t] \in 0..(Len(log) - 1) /\ log[ask[t] + 1].role = "user"
  BY <1>1, AnswerIsLive
<1>3. PICK r \in Rows : r = Row(Len(log), "assistant", ask[t])
  <2>1. ask[t] \in Int /\ Len(log) \in Int BY <1>2 DEF Inv, Types
  <2> QED BY <2>1 DEF Row, Rows, Roles
<1>4. mine[t] = <<r>> /\ log[Len(log)].role # "assistant"
  BY <1>1, <1>3 DEF Inv, TurnInv, MineHolds
<1>5. /\ log' \in Seq(Rows) /\ Len(log') = Len(log) + 1
      /\ \A i \in 1..Len(log) : log'[i] = log[i]
      /\ log'[Len(log) + 1] = r
  <2>1. PICK s \in Seq(Rows) : s = <<r>> /\ Len(s) = 1 /\ s[1] = r
    <3>1. <<r>> \in Seq(Rows) /\ Len(<<r>>) = 1 /\ <<r>>[1] = r OBVIOUS
    <3> QED BY <3>1, Zenon
  <2>2. log' = log \o s BY <1>1, <1>4, <2>1
  <2>3. 1 \in 1..1 OBVIOUS
  <2> QED BY <2>1, <2>2, <2>3, LogGrows, Zenon DEF Inv
<1>6. /\ Types' /\ pc'[t] = "idle" /\ mine'[t] = <<>> /\ Others(t)
  BY <1>5, ClearIs DEF CommitAnswer, Inv, Types, Others
<1>7. LogInOrder'
  <2>1. PICK n \in Nat \ {0} : n = Len(log) BY <1>2
  <2> SUFFICES ASSUME NEW i \in 1..(n + 1)
               PROVE  InOrder(log', i)
    BY <1>5, <2>1 DEF LogInOrder
  <2>2. CASE i \in 1..n
    BY <1>5, <2>1, <2>2, OldRowsStay, Zenon DEF Inv, LogInOrder
  <2>3. CASE i = n + 1
    <3>1. log'[i] = r /\ log'[i - 1] = log[n]
      <4>1. i - 1 = n /\ n \in 1..n BY <2>3
      <4> QED BY <1>5, <2>1, <2>3, <4>1
    <3>2. r.seq = n /\ r.role = "assistant" /\ r.to = ask[t] BY <1>3, <2>1 DEF Row
    <3>3. PICK a \in 0..(n - 1) : a = ask[t] BY <1>2, <2>1
    <3>4. a + 1 \in 1..n BY <3>3
    <3>5. log'[a + 1].role = "user" BY <1>2, <1>5, <2>1, <3>3, <3>4
    <3>6. i - 1 = n /\ i > 1 /\ i - 2 = n - 1 BY <2>3
    <3> QED BY <1>4, <2>1, <3>1, <3>2, <3>3, <3>5, <3>6 DEF InOrder
  <2> QED BY <2>2, <2>3
<1>8. TurnInv(t)' BY <1>6, IdleHolds
<1>9. pc'[t] \notin Holding BY <1>6 DEF Holding
<1> QED BY <1>1, <1>2, <1>6, <1>7, <1>8, <1>9, CommitsKeep DEF CommitAnswer


LEMMA CommitKeeps ==
    ASSUME Inv, NEW t \in Turns, Commit(t)
    PROVE  Inv'
<1>1. pc[t] = "commit" /\ log' = log \o mine[t] BY DEF Commit
<1>2. PICK n \in Nat : n = Len(log) BY LenProperties DEF Inv, Types
<1>3. PICK b \in Bodies : b = body[t] /\ (HasSystem(b) => row = "creating")
  BY <1>1 DEF Inv, TurnInv, BodyHolds, Appending
<1>4. /\ b \in Seq({"system", "user"}) /\ b # <<>> /\ b[Len(b)] = "user"
      /\ \A i \in 2..Len(b) : b[i] = "user"
  BY ConversationAssumption
<1>5. PICK m \in Nat \ {0} : m = Len(b) BY <1>4, EmptySeq
<1>6. b \in [1..m -> {"system", "user"}] /\ DOMAIN b = 1..m
  BY <1>4, <1>5, LenProperties
<1>7. PICK s \in Seq(Rows) : s = mine[t] BY DEF Inv, Types
<1>8. Len(s) = m /\ \A i \in 1..m : s[i] = Row(n + i - 1, b[i], None)
  BY <1>1, <1>2, <1>3, <1>5, <1>7 DEF Inv, TurnInv, MineHolds
<1>9. \A i \in 1..m : s[i].seq = n + i - 1 /\ s[i].role = b[i]
  BY <1>8 DEF Row
<1>10. /\ log' \in Seq(Rows) /\ Len(log') = n + m
       /\ \A i \in 1..n : log'[i] = log[i]
       /\ \A i \in 1..m : log'[n + i] = s[i]
  BY <1>1, <1>2, <1>7, <1>8, LogGrows, Zenon DEF Inv
<1>11. \A i \in 1..m : b[i] = "user" \/ (i = 1 /\ n = 0)
  <2> SUFFICES ASSUME NEW i \in 1..m, b[i] # "user" PROVE i = 1 /\ n = 0 OBVIOUS
  <2>1. b[i] = "system" BY <1>6
  <2>2. i = 1 BY <1>4, <1>5
  <2>3. HasSystem(b) BY <1>6, <2>1 DEF HasSystem
  <2>4. log = <<>> BY <1>3, <2>3 DEF Inv, RowHolds
  <2> QED BY <1>2, <2>2, <2>4, EmptySeq
<1>12. LogInOrder'
  <2> SUFFICES ASSUME NEW i \in 1..(n + m)
               PROVE  InOrder(log', i)
    BY <1>10 DEF LogInOrder
  <2>1. CASE i \in 1..n
    BY <1>2, <1>10, <2>1, OldRowsStay, Zenon DEF Inv, LogInOrder
  <2>2. CASE i \notin 1..n
    <3>1. PICK j \in 1..m : n + j = i /\ j = i - n BY <2>2
    <3>2. log'[i] = s[j] BY <1>10, <3>1
    <3>3. s[j].seq = n + j - 1 /\ s[j].role = b[j] BY <1>9
    <3>4. n + j - 1 = i - 1 /\ (j = 1 /\ n = 0 => i = 1) BY <3>1
    <3>5. b[j] \in {"system", "user"} /\ (b[j] # "user" => i = 1)
      BY <1>6, <1>11, <3>4
    <3> QED BY <3>2, <3>3, <3>4, <3>5 DEF InOrder
  <2> QED BY <2>1, <2>2
<1>13. /\ n + m - 1 \in 0..(n + m - 1) /\ n + m - 1 \in Int
       /\ m \in 1..m /\ n + m = (n + m - 1) + 1
  OBVIOUS
<1>14. ask' = [ask EXCEPT ![t] = n + m - 1]
  <2>1. s[m].seq = n + m - 1 BY <1>9, <1>13, Zenon
  <2> QED BY <1>7, <1>8, <2>1, Zenon DEF Commit
<1>15. <<>> \in Seq(Rows) /\ NoBody \in Seq({"system", "user"})
  BY EmptySeq DEF NoBody
<1>16. Types' BY <1>10, <1>13, <1>14, <1>15 DEF Commit, Inv, Types, Steps
<1>17. /\ pc'[t] = "read" /\ mine'[t] = <<>> /\ ask'[t] = n + m - 1 /\ Others(t)
  BY <1>14 DEF Commit, Inv, Types, Others
<1>18. log'[n + m].role = "user"
  <2>1. log'[n + m] = s[m] /\ s[m].role = b[m] BY <1>9, <1>10, <1>13, Zenon
  <2> QED BY <1>4, <1>5, <2>1
<1>19. AskHolds(t)' BY <1>10, <1>13, <1>17, <1>18 DEF AskHolds
<1>20. TurnInv(t)'
  BY <1>17, <1>19 DEF TurnInv, BodyHolds, MineHolds, HistHolds, Appending
<1>21. pc'[t] \notin Holding BY <1>17 DEF Holding
<1> QED BY <1>1, <1>12, <1>16, <1>17, <1>20, <1>21, CommitsKeep DEF Commit

-----------------------------------------------------------------------------
(* The steps of the owner and of the browser.                                *)

LEMMA DeleteKeeps ==
    ASSUME Inv, Delete
    PROVE  Inv'
<1>1. <<>> \in Seq(Rows) /\ Len(<<>>) = 0 BY EmptySeq
<1>2. Types' BY <1>1 DEF Delete, turnVars, Inv, Types
<1>3. LogInOrder' BY <1>1 DEF Delete, LogInOrder
<1>4. RowHolds' BY DEF Delete, RowHolds
<1>5. \A t \in Turns : pc[t] \notin Holding
  BY ConversationAssumption DEF Delete, Inv, LockHolds
<1>6. LockHolds' BY <1>5 DEF Delete, turnVars, LockHolds, Inv
<1>7. ViewHolds' BY DEF Delete, ViewHolds
<1>8. ASSUME NEW t \in Turns PROVE TurnInv(t)'
  <2>1. pc[t] \notin {"commit", "acommit"} BY <1>5 DEF Holding
  <2> QED BY <1>2, <2>1, TurnStays DEF Delete, turnVars, Inv
<1> QED BY <1>2, <1>3, <1>4, <1>6, <1>7, <1>8 DEF Inv

(* The browser changes nothing but what it shows.                            *)
LEMMA BrowserKeeps ==
    ASSUME Inv, UNCHANGED <<row, log, lock, turnVars>>, view' \in Views, ViewHolds'
    PROVE  Inv'
<1>1. Types' BY DEF turnVars, Inv, Types
<1>2. Grows BY LenProperties DEF Grows, Inv, Types
<1>3. LogInOrder' BY DEF Inv, LogInOrder
<1>4. RowHolds' BY DEF turnVars, Inv, RowHolds
<1>5. LockHolds' BY DEF turnVars, Inv, LockHolds
<1>6. ASSUME NEW t \in Turns PROVE TurnInv(t)'
  BY <1>1, <1>2, TurnStays DEF turnVars, Inv
<1> QED BY <1>1, <1>3, <1>4, <1>5, <1>6 DEF Inv


LEMMA LastIs ==
    ASSUME NEW q \in Seq(Int), q # <<>>
    PROVE  Last(q) = q[Len(q)] /\ Last(q) \in Int
<1>1. PICK n \in Nat : n = Len(q) BY LenProperties
<1>2. n \in 1..n BY <1>1, EmptySeq
<1>3. q[n] \in Int BY <1>1, <1>2, LenProperties
<1> QED BY <1>1, <1>3 DEF Last

(* What the browser shows changes and the thread does not.                   *)
LEMMA ViewKeeps ==
    ASSUME Inv, UNCHANGED <<row, log, lock, turnVars>>, view' \in Views,
           row # "deleted" => HeadHolds' /\ OlderHolds' /\ SeamHolds'
    PROVE  Inv'
BY BrowserKeeps DEF ViewHolds

(* What a step leaves alone of the view holds still.                         *)
SameHead ==
    view'.head = view.head /\ view'.more = view.more /\ view'.cursor = view.cursor
SameOlder ==
    /\ view'.loaded = view.loaded /\ view'.older = view.older
    /\ view'.olderMore = view.olderMore /\ view'.olderCursor = view.olderCursor

LEMMA HeadStays == ASSUME log' = log, SameHead, HeadHolds PROVE HeadHolds'
BY DEF SameHead, HeadHolds, Contiguous, Inside

LEMMA OlderStays ==
    ASSUME log' = log, SameOlder, view'.asked \in {view.asked, None}, OlderHolds
    PROVE  OlderHolds'
BY DEF SameOlder, OlderHolds, Contiguous, Inside

(* Nothing older is shown and none was asked for.                            *)
LEMMA NothingOlderHolds ==
    ASSUME view'.loaded = FALSE, view'.older = <<>>, view'.olderMore = FALSE,
           view'.asked = None, view'.slid = FALSE
    PROVE  OlderHolds' /\ SeamHolds'
<1>1. Len(<<>>) = 0 BY EmptySeq
<1> QED BY <1>1 DEF OlderHolds, SeamHolds, Contiguous

LEMMA LoadHeadKeeps == ASSUME Inv, LoadHead PROVE Inv'
<1>1. PICK n \in Nat : n = Len(log) BY LenProperties DEF Inv, Types
<1>2. PICK p : p = Page(None) OBVIOUS
<1>3. PageHolds(p, n)
  <2>1. Covers(None, n) BY <1>1 DEF Covers
  <2> QED BY <1>2, <2>1, PageIs DEF Inv
<1>4. PICK s \in BOOLEAN :
         s = (view.slid \/ ((view.loaded \/ view.asked # None) /\ p.cursor # view.cursor))
  OBVIOUS
<1>5. view' = [view EXCEPT !.head = p.seqs, !.more = p.more,
                           !.cursor = p.cursor, !.slid = s]
  BY <1>2, <1>4 DEF LoadHead, Inv, Types, Views
<1>6. view' \in Views BY <1>3, <1>5 DEF Inv, Types, Views, PageHolds
<1>7. /\ view'.head = p.seqs /\ view'.more = p.more /\ view'.cursor = p.cursor
      /\ view'.slid = s /\ view'.asked = view.asked /\ view'.other = view.other
      /\ SameOlder
  BY <1>5 DEF Inv, Types, Views, SameOlder
<1>8. HeadHolds /\ OlderHolds /\ SeamHolds BY DEF LoadHead, Inv, ViewHolds
<1>9. log' = log BY DEF LoadHead
<1>10. PICK size \in Nat \ {0} : size = PageSize BY ConversationAssumption
<1>11. HeadHolds'
  <2>1. /\ Contiguous(p.seqs) /\ (p.seqs # <<>> /\ ~p.more => p.seqs[1] = 0)
        /\ p.more => (p.seqs # <<>> => p.seqs[1] = p.cursor)
    BY <1>3 DEF PageHolds
  <2>2. p.more => /\ p.cursor \in 1..(n - 1) /\ p.cursor + size <= n
                  /\ n > 0
    BY <1>3, <1>10 DEF PageHolds
  <2>3. n > 0 => p.seqs # <<>> BY <1>3 DEF PageHolds
  <2> QED BY <1>1, <1>7, <1>9, <1>10, <2>1, <2>2, <2>3, Zenon
      DEF HeadHolds, Contiguous, Inside
<1>12. OlderHolds' BY <1>7, <1>8, <1>9, OlderStays
<1>13. ASSUME NEW e \in Int, view.loaded \/ view.asked # None, Reaches(e)
       PROVE  Reaches(e)'
  <2>1. view.more /\ e <= view.cursor /\ (~view.slid => e = view.cursor)
    BY <1>13 DEF Reaches
  <2>2. PICK c \in Int, d \in Int : c = view.cursor /\ d = p.cursor
    BY <1>3 DEF Inv, Types, Views, PageHolds
  <2>3. c >= 1 /\ c + size <= n
    BY <1>1, <1>8, <1>10, <2>1, <2>2 DEF HeadHolds, Inside
  <2>4. n > size BY <1>10, <2>3
  <2>5. p.more /\ d = n - size BY <1>3, <1>10, <2>2, <2>4 DEF PageHolds
  <2>6. c <= d BY <1>10, <2>3, <2>5
  <2>7. e <= d BY <2>1, <2>2, <2>6
  <2>8. ~s => ~view.slid /\ d = c BY <1>4, <1>13, <2>2
  <2> QED BY <1>7, <2>1, <2>2, <2>5, <2>7, <2>8 DEF Reaches
<1>14. SeamHolds'
  <2>1. ASSUME view.loaded
        PROVE  view.older # <<>> /\ Reaches(Last(view.older) + 1)'
    <3>1. view.older # <<>> /\ Reaches(Last(view.older) + 1)
      BY <1>8, <2>1 DEF SeamHolds
    <3>2. PICK e \in Int : e = Last(view.older) + 1
      BY <3>1, LastIs DEF Inv, Types, Views
    <3>3. Reaches(e) BY <3>1, <3>2
    <3>4. Reaches(e)' BY <1>13, <2>1, <3>3
    <3>5. e = Last(view'.older) + 1 BY <1>7, <3>2 DEF SameOlder
    <3> QED BY <3>1, <3>4, <3>5
  <2>2. ASSUME view.asked # None, ~view.loaded PROVE Reaches(view.asked)'
    <3>1. PICK e \in Int : e = view.asked BY DEF Inv, Types, Views
    <3>2. Reaches(e) BY <1>8, <2>2, <3>1 DEF SeamHolds
    <3>3. Reaches(e)' BY <1>13, <2>2, <3>2
    <3> QED BY <1>7, <3>1, <3>3
  <2>3. s => view.loaded \/ view.asked # None BY <1>4, <1>8 DEF SeamHolds
  <2> QED BY <1>7, <1>8, <2>1, <2>2, <2>3 DEF SeamHolds, SameOlder
<1> QED BY <1>6, <1>11, <1>12, <1>14, ViewKeeps DEF LoadHead

LEMMA AskOlderKeeps == ASSUME Inv, AskOlder PROVE Inv'
<1>1. view' = [view EXCEPT !.asked = Cursor] BY DEF AskOlder
<1>2. Cursor \in Int BY DEF Cursor, Inv, Types, Views
<1>3. view' \in Views BY <1>1, <1>2 DEF Inv, Types, Views
<1>4. /\ SameHead /\ SameOlder /\ view'.asked = Cursor
      /\ view'.other = view.other /\ view'.slid = view.slid
  BY <1>1 DEF Inv, Types, Views, SameHead, SameOlder
<1>5. row' = row /\ log' = log /\ ~view.other /\ view.asked = None BY DEF AskOlder
<1>6. view.loaded => view.olderMore /\ Cursor = view.olderCursor
  BY DEF AskOlder, HasMore, Cursor
<1>7. ~view.loaded => view.more /\ Cursor = view.cursor
  BY DEF AskOlder, HasMore, Cursor
<1>8. ASSUME HeadHolds, OlderHolds, SeamHolds
      PROVE  HeadHolds' /\ OlderHolds' /\ SeamHolds'
  <2>1. Inside(Cursor) BY <1>6, <1>7, <1>8 DEF HeadHolds, OlderHolds
  <2>2. HeadHolds' BY <1>4, <1>5, <1>8, HeadStays
  <2>3. OlderHolds'
    BY <1>4, <1>5, <1>6, <1>8, <2>1 DEF OlderHolds, SameOlder, Contiguous, Inside
  <2>4. ~view.loaded => ~view.slid BY <1>5, <1>8 DEF SeamHolds
  <2>5. Cursor <= Cursor BY <1>2
  <2>6. ~view.loaded => Reaches(Cursor) BY <1>7, <2>5 DEF Reaches
  <2>7. Cursor # None BY DEF AskOlder
  <2>8. SeamHolds'
    BY <1>4, <1>5, <1>8, <2>4, <2>6, <2>7
    DEF SeamHolds, Reaches, SameHead, SameOlder
  <2> QED BY <2>2, <2>3, <2>8
<1> QED BY <1>3, <1>8, ViewKeeps DEF AskOlder, Inv, ViewHolds

(* Older rows joined to the ones on screen.                                  *)
LEMMA JoinIs ==
    ASSUME NEW q \in Seq(Int), NEW o \in Seq(Int), q # <<>>,
           Contiguous(q), Contiguous(o),
           o # <<>> => o[1] = q[Len(q)] + 1
    PROVE  /\ q \o o \in Seq(Int) /\ Contiguous(q \o o) /\ (q \o o)[1] = q[1]
           /\ q \o o # <<>> /\ Last(q \o o) = Last(IF o = <<>> THEN q ELSE o)
<1>1. PICK n \in Nat, k \in Nat : n = Len(q) /\ k = Len(o) BY LenProperties
<1>2. n > 0 BY <1>1, EmptySeq
<1>0. PICK w : w = q \o o OBVIOUS
<1>3. /\ w \in Seq(Int) /\ Len(w) = n + k
      /\ \A i \in 1..(n + k) : w[i] = IF i <= n THEN q[i] ELSE o[i - n]
  BY <1>0, <1>1, ConcatProperties
<1>4. ASSUME NEW i \in 1..(n + k - 1) PROVE w[i + 1] = w[i] + 1
  <2>1. i \in 1..(n + k) /\ i + 1 \in 1..(n + k) OBVIOUS
  <2>2. CASE i + 1 <= n
    <3>1. i \in 1..(n - 1) /\ i <= n BY <2>2
    <3>2. q[i + 1] = q[i] + 1 BY <1>1, <3>1 DEF Contiguous
    <3> QED BY <1>3, <2>1, <2>2, <3>1, <3>2
  <2>3. CASE i = n
    <3>1. ~(i + 1 <= n) /\ i <= n /\ (i + 1) - n = 1 /\ k > 0 BY <2>3
    <3>2. o # <<>> BY <1>1, <3>1, EmptySeq
    <3> QED BY <1>1, <1>3, <2>1, <2>3, <3>1, <3>2
  <2>4. CASE i > n
    <3>1. PICK j \in 1..(k - 1) : i - n = j /\ (i + 1) - n = j + 1 BY <2>4
    <3>2. o[j + 1] = o[j] + 1 BY <1>1, <3>1 DEF Contiguous
    <3>3. ~(i <= n) /\ ~(i + 1 <= n) BY <2>4
    <3> QED BY <1>3, <2>1, <3>1, <3>2, <3>3
  <2>5. i + 1 <= n \/ i = n \/ i > n OBVIOUS
  <2> QED BY <2>2, <2>3, <2>4, <2>5, Zenon
<1>5. Contiguous(w)
  <2>1. Len(w) - 1 = n + k - 1 BY <1>3
  <2> QED BY <1>4, <2>1, Zenon DEF Contiguous
<1>6. 1 \in 1..(n + k) /\ 1 <= n BY <1>2
<1>7. w # <<>> BY <1>2, <1>3, EmptySeq
<1>8. Last(w) = Last(IF o = <<>> THEN q ELSE o)
  <2>1. n + k \in 1..(n + k) BY <1>2
  <2>2. Last(w) = w[n + k] BY <1>3 DEF Last
  <2>3. CASE o = <<>>
    <3>1. k = 0 BY <1>1, <2>3, EmptySeq
    <3>2. w[n + k] = q[n] BY <1>3, <2>1, <3>1
    <3> QED BY <1>1, <2>2, <2>3, <3>2 DEF Last
  <2>4. CASE o # <<>>
    <3>1. k > 0 BY <1>1, <2>4, EmptySeq
    <3>2. ~(n + k <= n) /\ (n + k) - n = k BY <3>1
    <3>3. w[n + k] = o[k] BY <1>3, <2>1, <3>2
    <3> QED BY <1>1, <2>2, <2>4, <3>3 DEF Last
  <2> QED BY <2>3, <2>4
<1> QED BY <1>0, <1>3, <1>5, <1>6, <1>7, <1>8

LEMMA OlderArrivesKeeps == ASSUME Inv, OlderArrives PROVE Inv'
<1>0. HeadHolds /\ OlderHolds /\ SeamHolds BY DEF OlderArrives, Inv, ViewHolds
<1>1. PICK n \in Nat \ {0} : n = view.asked /\ n \in 0..Len(log) /\ Inside(n)
  <2>1. Inside(view.asked) BY <1>0 DEF OlderArrives, OlderHolds
  <2>2. Len(log) \in Nat BY LenProperties DEF Inv, Types
  <2> QED BY <2>1, <2>2 DEF Inside
<1>2. PICK p : p = Page(view.asked) OBVIOUS
<1>3. PageHolds(p, n)
  <2>1. Covers(view.asked, n) BY <1>1 DEF Covers
  <2> QED BY <1>2, <2>1, PageIs DEF Inv
<1>4. PICK older : older = p.seqs \o view.older OBVIOUS
<1>5. view' = [view EXCEPT !.loaded = TRUE, !.older = older, !.olderMore = p.more,
                           !.olderCursor = p.cursor, !.asked = None]
  BY <1>2, <1>4 DEF OlderArrives, Inv, Types, Views
<1>6. p.seqs \in Seq(Int) /\ view.older \in Seq(Int)
  BY <1>3 DEF PageHolds, Inv, Types, Views
<1>7. /\ Contiguous(view.older) /\ Contiguous(p.seqs) /\ p.seqs # <<>>
      /\ p.seqs[Len(p.seqs)] = n - 1
      /\ p.seqs[1] = IF p.more THEN p.cursor ELSE 0
  BY <1>0, <1>3 DEF PageHolds, OlderHolds
<1>8. view.older # <<>> => view.loaded /\ view.older[1] = n
  BY <1>0, <1>1 DEF OlderArrives, OlderHolds
<1>9. view.older # <<>> => view.older[1] = p.seqs[Len(p.seqs)] + 1
  BY <1>7, <1>8
<1>10. /\ older \in Seq(Int) /\ Contiguous(older) /\ older[1] = p.seqs[1]
       /\ older # <<>> /\ Last(older) = Last(IF view.older = <<>> THEN p.seqs ELSE view.older)
  BY <1>4, <1>6, <1>7, <1>9, JoinIs
<1>11. view' \in Views
  <2>1. PICK m \in BOOLEAN, c \in Int, z \in Int : m = p.more /\ c = p.cursor /\ z = None
    BY <1>3 DEF PageHolds, None
  <2>2. view' = [view EXCEPT !.loaded = TRUE, !.older = older, !.olderMore = m,
                             !.olderCursor = c, !.asked = z]
    BY <1>5, <2>1
  <2> QED BY <1>10, <2>2 DEF Inv, Types, Views
<1>12. /\ SameHead /\ view'.loaded = TRUE /\ view'.older = older
       /\ view'.olderMore = p.more /\ view'.olderCursor = p.cursor
       /\ view'.asked = None /\ view'.other = view.other /\ view'.slid = view.slid
  BY <1>5 DEF Inv, Types, Views, SameHead
<1>13. p.more => Inside(p.cursor)
  <2>1. p.more => p.cursor \in 1..(n - 1) BY <1>3 DEF PageHolds
  <2>2. Len(log) \in Nat BY LenProperties DEF Inv, Types
  <2> QED BY <1>1, <2>1, <2>2 DEF Inside
<1>14. row' = row /\ log' = log BY DEF OlderArrives
<1>15. HeadHolds' BY <1>0, <1>12, <1>14, HeadStays
<1>16. OlderHolds'
  <2>1. /\ Contiguous(view'.older)
        /\ view'.older[1] = IF view'.olderMore THEN view'.olderCursor ELSE 0
        /\ view'.olderMore => Inside(view'.olderCursor)
    BY <1>7, <1>10, <1>12, <1>13, Zenon
  <2>2. \A m : Inside(m)' <=> Inside(m) BY <1>14 DEF Inside
  <2> QED BY <1>12, <2>1, <2>2 DEF OlderHolds, Contiguous
<1>17. Reaches(Last(older) + 1)
  <2>1. CASE view.older = <<>>
    <3>1. ~view.loaded BY <1>0, <2>1 DEF SeamHolds
    <3>2. Reaches(n) BY <1>0, <1>1, <3>1 DEF OlderArrives, SeamHolds
    <3>3. Last(older) = n - 1 BY <1>6, <1>7, <1>10, <2>1, LastIs
    <3>4. Last(older) + 1 = n BY <3>3
    <3> QED BY <3>2, <3>4
  <2>2. CASE view.older # <<>>
    BY <1>0, <1>8, <1>10, <2>2 DEF SeamHolds
  <2> QED BY <2>1, <2>2
<1>18. SeamHolds'
  <2>1. Reaches(Last(older) + 1)'
    BY <1>12, <1>17 DEF Reaches, SameHead
  <2> QED BY <1>10, <1>12, <2>1 DEF SeamHolds
<1> QED BY <1>11, <1>15, <1>16, <1>18, ViewKeeps DEF OlderArrives

LEMMA OlderFailsKeeps == ASSUME Inv, OlderFails PROVE Inv'
<1>1. PICK z \in Int, s \in BOOLEAN : z = None /\ s = (view.slid /\ view.loaded)
  BY DEF None, Inv, Types, Views
<1>2. view' = [view EXCEPT !.asked = z, !.slid = s]
  BY <1>1 DEF OlderFails, Inv, Types, Views
<1>3. view' \in Views BY <1>2 DEF Inv, Types, Views
<1>4. /\ SameHead /\ SameOlder /\ view'.asked = None /\ view'.slid = s
  BY <1>1, <1>2 DEF Inv, Types, Views, SameHead, SameOlder
<1>5. row' = row /\ log' = log BY DEF OlderFails
<1>6. ASSUME HeadHolds, OlderHolds, SeamHolds
      PROVE  HeadHolds' /\ OlderHolds' /\ SeamHolds'
  <2>1. HeadHolds' /\ OlderHolds' BY <1>4, <1>5, <1>6, HeadStays, OlderStays
  <2>2. SeamHolds'
    BY <1>1, <1>4, <1>6 DEF SeamHolds, Reaches, SameHead, SameOlder
  <2> QED BY <2>1, <2>2
<1> QED BY <1>3, <1>6, ViewKeeps DEF OlderFails, Inv, ViewHolds

(* Which thread is shown, and whether another's fetch is under way.          *)
LEMMA ShownKeeps ==
    ASSUME Inv, UNCHANGED <<row, log, lock, turnVars>>,
           NEW o \in BOOLEAN, NEW e \in BOOLEAN,
           view' = [view EXCEPT !.open = o, !.other = e],
           e = view.other \/ (e => view.asked = None)
    PROVE  Inv'
<1>1. view' \in Views BY DEF Inv, Types, Views
<1>2. /\ SameHead /\ SameOlder /\ view'.asked = view.asked
      /\ view'.slid = view.slid /\ view'.other = e
  BY DEF Inv, Types, Views, SameHead, SameOlder
<1>3. ASSUME HeadHolds, OlderHolds, SeamHolds
      PROVE  HeadHolds' /\ OlderHolds' /\ SeamHolds'
  <2>1. HeadHolds' /\ OlderHolds' BY <1>2, <1>3, HeadStays, OlderStays
  <2>2. SeamHolds' BY <1>2, <1>3 DEF SeamHolds, Reaches, SameHead, SameOlder
  <2> QED BY <2>1, <2>2
<1> QED BY <1>1, <1>3, ViewKeeps DEF Inv, ViewHolds

LEMMA ThreadsChangeKeeps ==
    ASSUME Inv, Open \/ Leave \/ AskElsewhere \/ ElsewhereFails
    PROVE  Inv'
<1>1. view.open \in BOOLEAN /\ view.other \in BOOLEAN BY DEF Inv, Types, Views
<1>2. CASE Open
  <2>1. view' = [view EXCEPT !.open = TRUE, !.other = view.other]
    BY <1>2 DEF Open, Inv, Types, Views
  <2> QED BY <1>1, <1>2, <2>1, ShownKeeps DEF Open
<1>3. CASE Leave
  <2>1. view' = [view EXCEPT !.open = FALSE, !.other = view.other]
    BY <1>3 DEF Leave, Inv, Types, Views
  <2> QED BY <1>1, <1>3, <2>1, ShownKeeps DEF Leave
<1>4. CASE AskElsewhere
  <2>1. view' = [view EXCEPT !.open = view.open, !.other = TRUE]
    BY <1>4 DEF AskElsewhere, Inv, Types, Views
  <2> QED BY <1>1, <1>4, <2>1, ShownKeeps DEF AskElsewhere
<1>5. CASE ElsewhereFails
  <2>1. view' = [view EXCEPT !.open = view.open, !.other = FALSE]
    BY <1>5 DEF ElsewhereFails, Inv, Types, Views
  <2> QED BY <1>1, <1>5, <2>1, ShownKeeps DEF ElsewhereFails
<1> QED BY <1>2, <1>3, <1>4, <1>5

LEMMA ElsewhereArrivesKeeps == ASSUME Inv, ElsewhereArrives PROVE Inv'
<1>1. PICK q \in Seq(Int) : q = <<>> BY EmptySeq
<1>2. PICK z \in Int : z = None BY DEF None
<1>3. view' = [view EXCEPT !.other = FALSE, !.loaded = FALSE, !.older = q,
                           !.olderMore = FALSE, !.olderCursor = z, !.slid = FALSE]
  BY <1>1, <1>2 DEF ElsewhereArrives
<1>4. view' \in Views BY <1>3 DEF Inv, Types, Views
<1>5. /\ SameHead /\ view'.loaded = FALSE /\ view'.older = <<>>
      /\ view'.olderMore = FALSE /\ view'.asked = view.asked /\ view'.slid = FALSE
  BY <1>1, <1>3 DEF Inv, Types, Views, SameHead
<1>6. ASSUME HeadHolds, OlderHolds, SeamHolds
      PROVE  HeadHolds' /\ OlderHolds' /\ SeamHolds'
  <2>1. view.asked = None BY <1>6 DEF ElsewhereArrives, SeamHolds
  <2>2. log' = log BY DEF ElsewhereArrives
  <2>3. HeadHolds' BY <1>5, <1>6, <2>2, HeadStays
  <2> QED BY <1>5, <2>1, <2>3, NothingOlderHolds
<1> QED BY <1>4, <1>6, ViewKeeps DEF ElsewhereArrives, Inv, ViewHolds

LEMMA NoViewHolds ==
    /\ NoView \in Views
    /\ view' = NoView => HeadHolds' /\ OlderHolds' /\ SeamHolds'
<1>1. <<>> \in Seq(Int) /\ Len(<<>>) = 0 /\ Contiguous(<<>>)
  BY EmptySeq DEF Contiguous
<1>2. NoView \in Views BY <1>1 DEF NoView, Views, None
<1>3. ASSUME view' = NoView PROVE HeadHolds' /\ OlderHolds' /\ SeamHolds'
  <2>1. HeadHolds' BY <1>1, <1>3 DEF NoView, HeadHolds
  <2>2. OlderHolds' /\ SeamHolds' BY <1>3, NothingOlderHolds DEF NoView
  <2> QED BY <2>1, <2>2
<1> QED BY <1>2, <1>3

LEMMA UnmountKeeps == ASSUME Inv, Unmount PROVE Inv'
<1>1. view' = [NoView EXCEPT !.head = view.head, !.more = view.more,
                             !.cursor = view.cursor]
  BY DEF Unmount
<1>2. view' \in Views BY <1>1, NoViewHolds DEF Inv, Types, Views
<1>3. /\ SameHead /\ view'.loaded = FALSE /\ view'.older = <<>>
      /\ view'.olderMore = FALSE /\ view'.asked = None /\ view'.slid = FALSE
  BY <1>1 DEF NoView, SameHead
<1>4. ASSUME HeadHolds PROVE HeadHolds' /\ OlderHolds' /\ SeamHolds'
  <2>1. HeadHolds' BY <1>3, <1>4, HeadStays DEF Unmount
  <2> QED BY <1>3, <2>1, NothingOlderHolds
<1> QED BY <1>2, <1>4, ViewKeeps DEF Unmount, Inv, ViewHolds

LEMMA ReloadKeeps == ASSUME Inv, Reload PROVE Inv'
BY NoViewHolds, ViewKeeps DEF Reload

-----------------------------------------------------------------------------
(* The invariant, and the theorems.                                          *)

LEMMA InvInitially == Init => Inv
<1> SUFFICES ASSUME Init PROVE Inv OBVIOUS
<1>1. /\ <<>> \in Seq(Rows) /\ Len(<<>>) = 0 /\ <<>> \in Seq({"system", "user"})
  BY EmptySeq
<1>2. NoView \in Views BY NoViewHolds
<1>3. Types BY <1>1, <1>2 DEF Init, Types, Steps, NoBody, None
<1>4. LogInOrder /\ RowHolds BY <1>1 DEF Init, LogInOrder, RowHolds
<1>5. LockHolds BY DEF Init, LockHolds, Holding
<1>6. ViewHolds
  BY <1>1
  DEF Init, NoView, ViewHolds, HeadHolds, OlderHolds, SeamHolds, Contiguous, None
<1>7. \A t \in Turns : TurnInv(t)
  BY DEF Init, TurnInv, BodyHolds, MineHolds, AskHolds, HistHolds, Appending, Asked
<1> QED BY <1>3, <1>4, <1>5, <1>6, <1>7 DEF Inv

LEMMA AdvanceKeeps == ASSUME Inv, NEW t \in Turns, Advance(t) PROVE Inv'
<1>1. CASE Lock(t) BY <1>1, LockKeeps
<1>2. CASE LockMisses(t)
  BY <1>2, EndKeeps DEF LockMisses, RollBack
<1>3. CASE Insert(t) BY <1>3, InsertKeeps
<1>4. CASE Commit(t) BY <1>4, CommitKeeps
<1>5. CASE ReadHistory(t) BY <1>5, ReadHistoryKeeps
<1>6. CASE GiveUp(t)
  <2>1. pc[t] = "route" BY <1>6 DEF GiveUp
  <2>2. lock # t BY <2>1, ConversationAssumption DEF Inv, LockHolds, Holding
  <2>3. row # "creating" BY <2>1 DEF Inv, RowHolds, Appending
  <2> QED BY <1>6, <2>1, <2>2, <2>3, EndKeeps DEF GiveUp
<1>7. CASE Answered(t) BY <1>7, AnsweredKeeps
<1>8. CASE InsertAnswer(t) BY <1>8, InsertAnswerKeeps
<1>9. CASE RefuseAnswer(t) BY <1>9, EndKeeps DEF RefuseAnswer, RollBack
<1>10. CASE CommitAnswer(t) BY <1>10, CommitAnswerKeeps
<1> QED
  BY <1>1, <1>2, <1>3, <1>4, <1>5, <1>6, <1>7, <1>8, <1>9, <1>10 DEF Advance

LEMMA InvInductive == Inv /\ [Next]_vars => Inv'
<1> SUFFICES ASSUME Inv, [Next]_vars PROVE Inv' OBVIOUS
<1>1. ASSUME NEW t \in Turns, NEW b \in Bodies, Begin(t, b) PROVE Inv'
  BY <1>1, BeginKeeps
<1>2. ASSUME NEW t \in Turns, Dies(t) PROVE Inv'
  BY <1>2, EndKeeps DEF Dies, RollBack
<1>3. ASSUME NEW t \in Turns, Advance(t) PROVE Inv'
  BY <1>3, AdvanceKeeps
<1>4. CASE Delete BY <1>4, DeleteKeeps
<1>5. CASE Browse
  BY <1>5, ThreadsChangeKeeps, LoadHeadKeeps, AskOlderKeeps, OlderArrivesKeeps,
     OlderFailsKeeps, ElsewhereArrivesKeeps, UnmountKeeps, ReloadKeeps
  DEF Browse
<1>6. CASE UNCHANGED vars
  <2>1. UNCHANGED <<row, log, lock, turnVars>> /\ view' = view
    BY <1>6 DEF vars, turnVars
  <2>2. view' \in Views BY <2>1 DEF Inv, Types
  <2>3. ViewHolds'
    BY <2>1
    DEF Inv, ViewHolds, HeadHolds, OlderHolds, SeamHolds, Reaches, Contiguous, Inside
  <2> QED BY <2>1, <2>2, <2>3, BrowserKeeps
<1> QED BY <1>1, <1>2, <1>3, <1>4, <1>5, <1>6 DEF Next

LEMMA InvAlways == Spec => []Inv
BY InvInitially, InvInductive, PTL DEF Spec

(* Whatever turns overlap and whenever they die or the thread is deleted,    *)
(* append's row lock keeps the rows numbered without gap or repeat, answers  *)
(* apart and after their questions, and a deleted thread empty.              *)
THEOREM HistoryStaysValid == Spec => []HistoryIsValid
<1>1. ASSUME Inv PROVE HistoryIsValid
  <2>1. TypeOK
    <3>1. row = "creating" => \E t \in Turns : pc[t] \in {"lock", "insert", "commit"}
      BY <1>1 DEF Inv, RowHolds, Appending
    <3>2. \A t \in Turns : mine[t] # <<>> => pc[t] \in {"commit", "acommit"}
      BY <1>1 DEF Inv, TurnInv, MineHolds
    <3>3. \A r \in Range(log) : r.role \in {"system", "user", "assistant"}
      <4>1. log \in [1..Len(log) -> Rows] BY <1>1, LenProperties DEF Inv, Types
      <4>2. \A r \in Range(log) : r \in Rows BY <4>1 DEF Range
      <4> QED BY <4>2 DEF Rows, Roles
    <3> QED BY <1>1, <3>1, <3>2, <3>3 DEF TypeOK, Inv, Types
  <2>2. RowsAreInOrder
    <3>1. Sorted(log) = log BY <1>1, LogIsSorted DEF Inv
    <3>2. DOMAIN log = 1..Len(log) /\ Len(log) \in Nat
      BY <1>1, LenProperties DEF Inv, Types
    <3>3. ASSUME NEW i \in 1..Len(log)
          PROVE  /\ log[i].seq = i - 1
                 /\ log[i].role = "system" => i = 1
                 /\ log[i].role = "assistant" =>
                       /\ i > 1 /\ log[i - 1].role # "assistant"
                       /\ log[i].to < log[i].seq
                       /\ log[log[i].to + 1].role = "user"
      <4>1. InOrder(log, i) BY <1>1 DEF Inv, LogInOrder
      <4>2. log[i].to \in 0..(i - 2) => log[i].to < i - 1 BY <3>2
      <4> QED BY <4>1, <4>2 DEF InOrder
    <3> QED BY <3>1, <3>2, <3>3 DEF RowsAreInOrder
  <2>3. DeletedIsGone BY <1>1 DEF DeletedIsGone, Inv, RowHolds
  <2> QED BY <2>1, <2>2, <2>3 DEF HistoryIsValid
<1> QED BY <1>1, InvAlways, PTL

(* list_for_conversation and list_page_for_conversation, read while others   *)
(* append and delete: the prompt of every turn is a beginning of the thread  *)
(* that has its own question, and the pages a browser joins show no row      *)
(* twice and leave none out, between the last of them and the head too, as   *)
(* long as no revalidation has moved the head on from where it was when they *)
(* were asked for.                                                           *)
THEOREM ReadersAreRight == Spec => []ReadersSeeTheStored
<1>1. ASSUME Inv PROVE ReadersSeeTheStored
  <2>1. ASSUME NEW t \in Turns, pc[t] = "route", row = "live", hist[t] # <<>>
        PROVE  IsPrefix(hist[t], Sorted(log)) /\ ask[t] < Len(hist[t])
    <3>1. Sorted(log) = log BY <1>1, LogIsSorted DEF Inv
    <3>2. PICK h \in Seq(Rows) : h = hist[t] BY <1>1 DEF Inv, Types
    <3>3. PICK n \in Nat : n = Len(h) BY LenProperties
    <3>4. /\ n <= Len(log) /\ ask[t] < n
          /\ \A i \in 1..n : h[i] = log[i]
      BY <1>1, <2>1, <3>2, <3>3 DEF Inv, TurnInv, HistHolds
    <3>5. \A i \in 1..n : h[i] \in Rows BY <3>3, LenProperties
    <3>6. SubSeq(h, 1, n) = h BY <3>3, SubSeqFull
    <3>7. SubSeq(log, 1, n) = h
      <4>1. \A i \in 1..n : log[i] \in Rows BY <3>4, <3>5
      <4>2. PICK s : s = SubSeq(log, 1, n) OBVIOUS
      <4>3. /\ s \in Seq(Rows) /\ Len(s) = n
            /\ \A i \in 1..n : s[i] = log[i]
        BY <4>1, <4>2, SubSeqProperties
      <4>4. \A i \in 1..Len(s) : s[i] = h[i] BY <3>4, <4>3
      <4> QED BY <3>3, <4>2, <4>3, <4>4, SeqEqual
    <3> QED BY <3>1, <3>2, <3>3, <3>4, <3>6, <3>7 DEF IsPrefix
  <2>2. PromptIsStored BY <2>1 DEF PromptIsStored
  <2>3. PagesJoin
    <3> SUFFICES ASSUME row = "live"
                 PROVE  /\ Contiguous(view.older) /\ Contiguous(view.head)
                        /\ view.older # <<>> =>
                              /\ view.older[1] = IF view.olderMore THEN view.olderCursor
                                                                   ELSE 0
                              /\ view.head # <<>> /\ Last(view.older) < view.head[1]
                              /\ ~view.slid => Last(view.older) + 1 = view.head[1]
                        /\ (view.head # <<>> /\ ~view.more) => view.head[1] = 0
      BY DEF PagesJoin
    <3>1. HeadHolds /\ OlderHolds /\ SeamHolds BY <1>1 DEF Inv, ViewHolds
    <3>2. ASSUME view.older # <<>>
          PROVE  /\ view.head # <<>> /\ Last(view.older) < view.head[1]
                 /\ ~view.slid => Last(view.older) + 1 = view.head[1]
      <4>1. view.loaded BY <3>1, <3>2 DEF OlderHolds
      <4>2. Reaches(Last(view.older) + 1) BY <3>1, <4>1 DEF SeamHolds
      <4>3. view.head # <<>> /\ view.head[1] = view.cursor
        BY <3>1, <4>2 DEF Reaches, HeadHolds
      <4>4. PICK e \in Int, c \in Int : e = Last(view.older) /\ c = view.cursor
        BY <1>1, <3>2, LastIs DEF Inv, Types, Views
      <4>5. e + 1 <= c BY <4>2, <4>4 DEF Reaches
      <4>6. e < c BY <4>5
      <4> QED BY <4>2, <4>3, <4>4, <4>6 DEF Reaches
    <3> QED BY <3>1, <3>2, Zenon DEF HeadHolds, OlderHolds
  <2> QED BY <2>2, <2>3 DEF ReadersSeeTheStored
<1> QED BY <1>1, InvAlways, PTL
=============================================================================
