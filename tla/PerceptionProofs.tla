-------------------------- MODULE PerceptionProofs --------------------------
(***************************************************************************)
(* What the stores of a document keep for any users, any bodies, any slot  *)
(* of candidates and any number of failures: a name means a whole object,  *)
(* Redis never knows more than Postgres, a model reads once as long as     *)
(* nothing the lock does not guard against happened, and no step loses a   *)
(* reading.                                                                *)
(***************************************************************************)
EXTENDS Perception, TLAPS

-----------------------------------------------------------------------------
(* The inductive invariant.                                                  *)

(* Between the grant of the lock and the end of persist.                     *)
Critical(u) ==
    \/ turn[u].pc \in {"get", "select", "write_back"} /\ turn[u].at = "locked"
    \/ turn[u].pc \in {"walk", "call"}
    \/ turn[u].pc \in {"upsert", "publish"} /\ turn[u].at = "llm"

(* The places of a turn that reads with a model or writes a reading.         *)
Storing == {"get", "select", "write_back", "acquire", "wait", "walk", "call",
            "upsert", "publish", "unlock", "delete"}

(* An upload has the document in hand, and claims it only once it is stored. *)
UploadHolds(u) ==
    /\ turn[u].pc \in Uploading => turn[u].size = doc.bytes /\ doc.bytes > 0
    /\ At(u, "claim") => object # 0

(* What is about to be copied to Redis is already in Postgres.               *)
ReadingHeld(u) ==
    /\ turn[u].pc \in {"write_back", "publish"} =>
           /\ turn[u].got # NoReading /\ row # NoReading
           /\ turn[u].got.tier = "llm" => row.tier = "llm"
    /\ At(u, "upsert") => /\ turn[u].got # NoReading
                          /\ turn[u].at = "llm" => turn[u].got.tier = "llm"

(* The demonstration flag and the memo keep a turn out of the chain.         *)
ChainHolds(u) ==
    /\ localOnly => turn[u].pc \notin Storing
    /\ turn[u].pc \in Chain => turn[u].memo[turn[u].want] = NoAttachment

(* The lock guards whoever is past it, unless something excuses it; and      *)
(* whoever is about to ask a model holds the first reading.                  *)
LockHolds(u) ==
    ~excused =>
        /\ Critical(u) => lock = u
        /\ turn[u].pc \in {"walk", "call"} => reads = 0

(* load_cached has one of its three callers, and a call has its candidate.   *)
PlaceHolds(u) ==
    /\ turn[u].pc \in {"get", "select", "write_back"} =>
           turn[u].at \in {"tier0", "wait", "locked"}
    /\ At(u, "call") => turn[u].cand \in 1..Len(Caps)

UserInv(u) ==
    UploadHolds(u) /\ ReadingHeld(u) /\ ChainHolds(u) /\ LockHolds(u) /\ PlaceHolds(u)

(* A reading made is in Postgres, or in the hands of one who is storing it.  *)
ReadIsKept ==
    (~excused /\ reads # 0) =>
        /\ reads = 1
        /\ row.tier = "llm" \/ \E u \in Users : At(u, "upsert") /\ turn[u].at = "llm"

ObjectIsWhole ==
    /\ object \in {0, doc.bytes}
    /\ owners # {} => object # 0

Inv ==
    /\ TypeOK /\ ObjectIsWhole /\ CacheBehindRow /\ ReadIsKept
    /\ \A u \in Users : UserInv(u)

-----------------------------------------------------------------------------
(* How a step of one user looks from outside.                                *)
Places == Uploading \cup Chain \cup {"idle", "render", "served"}

TurnsTyped == turn \in [Users -> Turns]

Others(u) == \A v \in Users \ {u} : turn'[v] = turn[v]

MemoKept(u) ==
    \A n \in BOOLEAN :
        turn[u].memo[n] # NoAttachment /\ turn'[u].pc # "idle"
            => turn'[u].memo[n] = turn[u].memo[n]

(* What the turn is for, and what it has got, have not changed.              *)
SameRender(u) == turn'[u].want = turn[u].want /\ turn'[u].memo = turn[u].memo

(* What everybody else's part of the invariant needs of a step of u.         *)
Forward(u) ==
    /\ doc' = doc /\ localOnly' = localOnly
    /\ object # 0 => object' # 0
    /\ row # NoReading => row' # NoReading
    /\ row.tier = "llm" => row'.tier = "llm"
    /\ excused => excused'
    /\ ~excused' => lock' = lock \/ lock \in {Free, Orphan, u}
    /\ ~excused' => reads' = reads \/ At(u, "call")
    /\ Others(u)

(* A step of u that touches no store and no count of readings.               *)
Quiet(u) ==
    /\ UNCHANGED <<settings, stores, reads, excused>>
    /\ faults' \in 0..MaxFaults
    /\ TurnsTyped' /\ Others(u) /\ MemoKept(u) /\ UserInv(u)'

Kept(u) == Inv' /\ Others(u) /\ MemoKept(u) /\ NeverDowngraded /\ DemoLeavesNoTrace

LEMMA OthersKeep ==
    ASSUME Inv, NEW u \in Users, Forward(u), NEW v \in Users, v # u
    PROVE  UserInv(v)'
<1>0. turn'[v] = turn[v] BY DEF Forward, Others
<1>1. UserInv(v) BY DEF Inv
<1>2. UploadHolds(v)' BY <1>0, <1>1 DEF UserInv, UploadHolds, Forward, At
<1>3. ReadingHeld(v)' BY <1>0, <1>1 DEF UserInv, ReadingHeld, Forward, At
<1>4. ChainHolds(v)' BY <1>0, <1>1 DEF UserInv, ChainHolds, Forward
<1>5. PlaceHolds(v)' BY <1>0, <1>1 DEF UserInv, PlaceHolds, At
<1>6. LockHolds(v)'
  <2> SUFFICES ASSUME ~excused'
               PROVE  /\ Critical(v)' => lock' = v
                      /\ turn'[v].pc \in {"walk", "call"} => reads' = 0
      BY DEF LockHolds
  <2>1. ~excused BY DEF Forward
  <2>2. Critical(v)' = Critical(v) BY <1>0 DEF Critical
  <2>3. Critical(v) => lock = v BY <1>1, <2>1 DEF UserInv, LockHolds
  <2>4. v \notin {Free, Orphan, u} BY PerceptionAssumption DEF Free, Orphan
  <2>5. At(u, "call") => lock = u
      BY <2>1 DEF Inv, UserInv, LockHolds, Critical, At
  <2>6. turn[v].pc \in {"walk", "call"} => Critical(v) /\ reads = 0
      BY <1>1, <2>1 DEF UserInv, LockHolds, Critical
  <2>7. Critical(v) => lock' = v BY <2>3, <2>4 DEF Forward
  <2>8. turn[v].pc \in {"walk", "call"} => reads' = 0 BY <2>3, <2>5, <2>6 DEF Forward
  <2> QED BY <1>0, <2>2, <2>7, <2>8
<1> QED BY <1>2, <1>3, <1>4, <1>5, <1>6 DEF UserInv

LEMMA StepKeeps ==
    ASSUME Inv, NEW u \in Users, Forward(u), UserInv(u)',
           (TypeOK /\ ObjectIsWhole /\ CacheBehindRow /\ ReadIsKept)'
    PROVE  Inv'
<1>1. ASSUME NEW v \in Users PROVE UserInv(v)'
  BY OthersKeep
<1> QED BY <1>1 DEF Inv

LEMMA QuietKeeps ==
    ASSUME Inv, NEW u \in Users, Quiet(u), ~At(u, "upsert")
    PROVE  Kept(u)
<1>1. Forward(u) BY DEF Quiet, Forward, settings, stores
<1>2. (TypeOK /\ ObjectIsWhole /\ CacheBehindRow)'
  BY DEF Inv, Quiet, TypeOK, TurnsTyped, ObjectIsWhole, CacheBehindRow, settings, stores
<1>3. ReadIsKept'
  <2>1. ASSUME NEW v \in Users, At(v, "upsert"), turn[v].at = "llm"
        PROVE  At(v, "upsert")' /\ turn'[v].at = "llm"
      <3>1. v # u BY <2>1
      <3>2. turn'[v] = turn[v] BY <3>1 DEF Quiet, Others
      <3> QED BY <2>1, <3>2 DEF At
  <2>2. UNCHANGED <<reads, excused, row>> BY DEF Quiet, stores
  <2>3. ReadIsKept BY DEF Inv
  <2> QED BY <2>1, <2>2, <2>3 DEF ReadIsKept
<1>4. Inv' BY <1>1, <1>2, <1>3, StepKeeps DEF Quiet
<1>5. NeverDowngraded /\ DemoLeavesNoTrace
  BY DEF Quiet, stores, NeverDowngraded, DemoLeavesNoTrace
<1> QED BY <1>4, <1>5 DEF Kept, Quiet

-----------------------------------------------------------------------------
(* How the record of one request changes.                                    *)
LEMMA Moved ==
    ASSUME NEW u \in Users, NEW t \in Turns, TurnsTyped,
           turn' = [turn EXCEPT ![u] = t]
    PROVE  TurnsTyped' /\ turn'[u] = t /\ Others(u)
BY DEF TurnsTyped, Others

LEMMA GoToTyped ==
    ASSUME NEW s \in Turns, NEW label \in Places
    PROVE  /\ [s EXCEPT !.pc = label] \in Turns
           /\ [s EXCEPT !.pc = label].pc = label
           /\ [s EXCEPT !.pc = label].at = s.at
           /\ [s EXCEPT !.pc = label].size = s.size
           /\ [s EXCEPT !.pc = label].want = s.want
           /\ [s EXCEPT !.pc = label].memo = s.memo
           /\ [s EXCEPT !.pc = label].got = s.got
           /\ [s EXCEPT !.pc = label].cand = s.cand
           /\ [s EXCEPT !.pc = label].holds = s.holds
<1>1. [s EXCEPT !.pc = label] \in Turns BY DEF Turns, Places
<1> QED BY <1>1 DEF Turns

(* The request of u is at label, and what else the invariant reads is the    *)
(* same.                                                                     *)
At1(u, label) ==
    /\ turn'[u].pc = label /\ turn'[u].at = turn[u].at
    /\ turn'[u].size = turn[u].size /\ SameRender(u)
    /\ turn'[u].got = turn[u].got /\ turn'[u].cand = turn[u].cand
    /\ turn'[u].holds = turn[u].holds

LEMMA GoToMoves ==
    ASSUME NEW u \in Users, NEW label \in Places, TurnsTyped, GoTo(u, label)
    PROVE  TurnsTyped' /\ Others(u) /\ At1(u, label)
<1>1. PICK s \in Turns : s = turn[u] BY DEF TurnsTyped
<1>2. turn' = [turn EXCEPT ![u] = [s EXCEPT !.pc = label]] BY <1>1 DEF GoTo
<1>3. TurnsTyped' /\ turn'[u] = [s EXCEPT !.pc = label] /\ Others(u)
  BY <1>2, GoToTyped, Moved
<1> QED BY <1>1, <1>3, GoToTyped DEF At1, SameRender

Served(s, a) ==
    [s EXCEPT !.pc = "served", !.memo[s.want] = a, !.look = NoReading, !.got = NoReading,
              !.bytes = "unread", !.cand = 1, !.polls = 0, !.holds = FALSE, !.at = "none"]

LEMMA ServeTyped ==
    ASSUME NEW s \in Turns, NEW a \in Attachments
    PROVE  /\ Served(s, a) \in Turns /\ Served(s, a).pc = "served"
           /\ \A n \in BOOLEAN : n # s.want => Served(s, a).memo[n] = s.memo[n]
<1>1. Served(s, a) \in Turns
  <2>1. [s.memo EXCEPT ![s.want] = a] \in [BOOLEAN -> Attachments \cup {NoAttachment}]
    BY DEF Turns
  <2>2. "served" \in Uploading \cup Chain \cup {"idle", "render", "served"} OBVIOUS
  <2>3. 1 \in 1..(Len(Caps) + 1) /\ 0 \in 0..MaxPolls BY PerceptionAssumption
  <2> QED BY <2>1, <2>2, <2>3 DEF Turns, Served
<1>2. Served(s, a).pc = "served" /\ Served(s, a).memo = [s.memo EXCEPT ![s.want] = a]
  BY DEF Turns, Served
<1>3. \A n \in BOOLEAN : n # s.want => Served(s, a).memo[n] = s.memo[n]
  BY <1>2 DEF Turns
<1> QED BY <1>1, <1>2, <1>3

LEMMA ServeMoves ==
    ASSUME NEW u \in Users, NEW a \in Attachments, TurnsTyped, Serve(u, a),
           turn[u].memo[turn[u].want] = NoAttachment
    PROVE  TurnsTyped' /\ Others(u) /\ turn'[u].pc = "served" /\ MemoKept(u)
<1>1. turn[u] \in Turns BY DEF TurnsTyped
<1>2. turn' = [turn EXCEPT ![u] = Served(turn[u], a)] BY DEF Serve, Served, TurnsTyped
<1>3. TurnsTyped' /\ turn'[u] = Served(turn[u], a) /\ Others(u)
  BY <1>1, <1>2, ServeTyped, Moved
<1> QED BY <1>1, <1>3, ServeTyped DEF MemoKept

LEMMA IdleTyped == IdleTurn \in Turns /\ IdleTurn.pc = "idle"
<1>1. /\ 0 \in 0..FileMaxBytes /\ 0 \in 0..MaxRenders /\ 0 \in 0..MaxPolls
      /\ 0 \in 0..MaxTurns /\ 1 \in 1..(Len(Caps) + 1)
  BY PerceptionAssumption
<1>2. [b \in BOOLEAN |-> NoAttachment] \in [BOOLEAN -> Attachments \cup {NoAttachment}]
  OBVIOUS
<1> QED BY <1>1, <1>2 DEF Turns, IdleTurn

LEMMA RestMoves ==
    ASSUME NEW u \in Users, TurnsTyped, turn' = [turn EXCEPT ![u] = Rest(u)]
    PROVE  TurnsTyped' /\ Others(u) /\ turn'[u].pc = "idle" /\ MemoKept(u)
<1>1. PICK s \in Turns : s = IdleTurn BY IdleTyped
<1>2. PICK n \in 0..MaxTurns : n = turn[u].count BY DEF TurnsTyped, Turns
<1>3. [s EXCEPT !.count = n] \in Turns /\ [s EXCEPT !.count = n].pc = s.pc BY DEF Turns
<1>4. Rest(u) \in Turns /\ Rest(u).pc = "idle" BY <1>1, <1>2, <1>3, IdleTyped DEF Rest
<1> QED BY <1>4, Moved DEF MemoKept

LEMMA RestingHolds ==
    ASSUME NEW u \in Users, turn'[u].pc \in {"idle", "render", "served"}
    PROVE  UserInv(u)'
BY DEF UserInv, UploadHolds, ReadingHeld, ChainHolds, LockHolds, PlaceHolds, Critical,
       At, Uploading, Chain, Storing

-----------------------------------------------------------------------------
(* The updates of more than one field keep the types.                        *)
LEMMA Got ==
    ASSUME NEW u \in Users, TurnsTyped, NEW label \in Places,
           NEW r \in Readings \cup {NoReading},
           turn' = [turn EXCEPT ![u].pc = label, ![u].got = r]
    PROVE  /\ TurnsTyped' /\ Others(u) /\ SameRender(u)
           /\ turn'[u].pc = label /\ turn'[u].got = r
           /\ turn'[u].at = turn[u].at /\ turn'[u].holds = turn[u].holds
<1>1. PICK s \in Turns : s = turn[u] BY DEF TurnsTyped
<1>2. [s EXCEPT !.pc = label, !.got = r] \in Turns BY DEF Turns, Places
<1>3. turn' = [turn EXCEPT ![u] = [s EXCEPT !.pc = label, !.got = r]]
  BY <1>1, Zenon DEF TurnsTyped
<1>4. TurnsTyped' BY <1>2, <1>3, Moved
<1>5. /\ Others(u) /\ SameRender(u) /\ turn'[u].pc = label /\ turn'[u].got = r
      /\ turn'[u].at = turn[u].at /\ turn'[u].holds = turn[u].holds
  BY DEF TurnsTyped, Turns, Others, SameRender
<1> QED BY <1>4, <1>5

LEMMA Looked ==
    ASSUME NEW u \in Users, TurnsTyped, NEW r \in Readings \cup {NoReading},
           turn' = [turn EXCEPT ![u].pc = "tier1", ![u].look = r, ![u].got = NoReading]
    PROVE  TurnsTyped' /\ Others(u) /\ SameRender(u) /\ turn'[u].pc = "tier1"
<1>1. PICK s \in Turns : s = turn[u] BY DEF TurnsTyped
<1>2. [s EXCEPT !.pc = "tier1", !.look = r, !.got = NoReading] \in Turns
  BY DEF Turns, Chain
<1>3. turn' = [turn EXCEPT ![u] = [s EXCEPT !.pc = "tier1", !.look = r, !.got = NoReading]]
  BY <1>1, Zenon DEF TurnsTyped
<1>4. TurnsTyped' BY <1>2, <1>3, Moved
<1>5. Others(u) /\ SameRender(u) /\ turn'[u].pc = "tier1"
  BY DEF TurnsTyped, Turns, Others, SameRender
<1> QED BY <1>4, <1>5

LEMMA Walks ==
    ASSUME NEW u \in Users, TurnsTyped, NEW n \in 1..(Len(Caps) + 1),
           turn' = [turn EXCEPT ![u].pc = "walk", ![u].cand = n]
    PROVE  TurnsTyped' /\ Others(u) /\ SameRender(u) /\ turn'[u].pc = "walk"
<1>1. PICK s \in Turns : s = turn[u] BY DEF TurnsTyped
<1>2. [s EXCEPT !.pc = "walk", !.cand = n] \in Turns BY DEF Turns, Chain
<1>3. turn' = [turn EXCEPT ![u] = [s EXCEPT !.pc = "walk", !.cand = n]]
  BY <1>1, Zenon DEF TurnsTyped
<1>4. TurnsTyped' BY <1>2, <1>3, Moved
<1>5. Others(u) /\ SameRender(u) /\ turn'[u].pc = "walk"
  BY DEF TurnsTyped, Turns, Others, SameRender
<1> QED BY <1>4, <1>5

(* A request in the chain that moves on keeps its memo.                      *)
LEMMA SameRenderKeeps ==
    ASSUME NEW u \in Users, SameRender(u)
    PROVE  MemoKept(u)
BY DEF SameRender, MemoKept

(* A request that is neither writing a reading nor past the lock is held to  *)
(* little.                                                                   *)
LEMMA PlainHolds ==
    ASSUME Inv, NEW u \in Users, turn[u].pc \in Chain, SameRender(u),
           UNCHANGED localOnly, localOnly => turn'[u].pc \notin Storing,
           turn'[u].pc \in {"tier1", "tier2", "acquire", "wait", "unlock", "delete",
                            "fallback", "tier3"}
    PROVE  UserInv(u)'
<1>1. ChainHolds(u) BY DEF Inv, UserInv
<1>2. ChainHolds(u)' BY <1>1 DEF ChainHolds, SameRender
<1> QED BY <1>2
        DEF UserInv, UploadHolds, ReadingHeld, LockHolds, PlaceHolds, Critical, At, Uploading

-----------------------------------------------------------------------------
(* The helpers the actions share.                                            *)
Own(u) == TurnsTyped' /\ Others(u) /\ MemoKept(u) /\ UserInv(u)'

LEMMA ServeOwn ==
    ASSUME Inv, NEW u \in Users, turn[u].pc \in Chain, NEW a \in Attachments, Serve(u, a)
    PROVE  Own(u)
<1>1. TurnsTyped /\ turn[u].memo[turn[u].want] = NoAttachment
  BY DEF Inv, TypeOK, TurnsTyped, UserInv, ChainHolds
<1>2. TurnsTyped' /\ Others(u) /\ turn'[u].pc = "served" /\ MemoKept(u)
  BY <1>1, ServeMoves
<1> QED BY <1>2, RestingHolds DEF Own

LEMMA RestOwn ==
    ASSUME Inv, NEW u \in Users, turn' = [turn EXCEPT ![u] = Rest(u)]
    PROVE  Own(u)
<1>1. TurnsTyped BY DEF Inv, TypeOK, TurnsTyped
<1> QED BY <1>1, RestMoves, RestingHolds DEF Own

LEMMA InjectedTyped ==
    ASSUME NEW r \in Readings, NEW tier \in {"cache", "llm", "local"}
    PROVE  Injected(r, tier) \in Attachments
BY DEF Injected, Attachments

LEMMA FoundOwn ==
    ASSUME Inv, NEW u \in Users, turn[u].pc \in {"get", "select", "write_back"},
           NEW r \in Readings \cup {NoReading}, Found(u, r),
           UNCHANGED <<settings, lock, reads, excused>>,
           turn[u].at = "locked" /\ r = NoReading /\ ~excused => reads = 0
    PROVE  Own(u)
<1>1. TurnsTyped BY DEF Inv, TypeOK, TurnsTyped
<1>2. UserInv(u) BY DEF Inv
<1>3. turn[u].pc \in Chain /\ turn[u].pc \in Storing BY DEF Chain, Storing
<1>4. localOnly' = localOnly /\ ~localOnly BY <1>2, <1>3 DEF UserInv, ChainHolds, settings
<1>5. turn[u].at \in {"tier0", "wait", "locked"} BY <1>2 DEF UserInv, PlaceHolds
<1>6. CASE turn[u].at = "tier0" /\ r.tier = "llm"
  <2>1. Serve(u, Injected(r, "cache")) BY <1>6 DEF Found
  <2>2. r \in Readings BY <1>6 DEF NoReading
  <2> QED BY <1>3, <2>1, <2>2, InjectedTyped, ServeOwn
<1>7. CASE turn[u].at = "tier0" /\ r.tier # "llm"
  <2>1. TurnsTyped' /\ Others(u) /\ SameRender(u) /\ turn'[u].pc = "tier1"
    BY <1>1, <1>7, Looked DEF Found
  <2> QED BY <1>3, <1>4, <2>1, SameRenderKeeps, PlainHolds DEF Own
<1>8. CASE turn[u].at \in {"wait", "locked"} /\ r # NoReading
  <2>1. turn' = [turn EXCEPT ![u].pc = "unlock", ![u].got = r] BY <1>8 DEF Found
  <2>2. "unlock" \in Places BY DEF Places, Chain
  <2>3. TurnsTyped' /\ Others(u) /\ SameRender(u) /\ turn'[u].pc = "unlock"
    BY <1>1, <2>1, <2>2, Got
  <2> QED BY <1>3, <1>4, <2>3, SameRenderKeeps, PlainHolds DEF Own
<1>9. CASE turn[u].at = "wait" /\ r = NoReading
  <2>1. GoTo(u, "wait") BY <1>9 DEF Found
  <2>2. "wait" \in Places BY DEF Places, Chain
  <2>3. TurnsTyped' /\ Others(u) /\ SameRender(u) /\ turn'[u].pc = "wait"
    BY <1>1, <2>1, <2>2, GoToMoves DEF At1
  <2> QED BY <1>3, <1>4, <2>3, SameRenderKeeps, PlainHolds DEF Own
<1>10. CASE turn[u].at = "locked" /\ r = NoReading
  <2>1. turn' = [turn EXCEPT ![u].pc = "walk", ![u].cand = 1] BY <1>10 DEF Found
  <2>2. 1 \in 1..(Len(Caps) + 1) BY PerceptionAssumption
  <2>3. TurnsTyped' /\ Others(u) /\ SameRender(u) /\ turn'[u].pc = "walk"
    BY <1>1, <2>1, <2>2, Walks
  <2>4. ~excused => lock = u BY <1>2, <1>10 DEF UserInv, LockHolds, Critical
  <2>5. LockHolds(u)' BY <1>10, <2>4 DEF LockHolds
  <2>6. ChainHolds(u)' BY <1>2, <1>3, <1>4, <2>3 DEF UserInv, ChainHolds, SameRender
  <2>7. UserInv(u)'
    BY <2>3, <2>5, <2>6 DEF UserInv, UploadHolds, ReadingHeld, PlaceHolds, At, Uploading
  <2> QED BY <2>3, <2>7, SameRenderKeeps DEF Own
<1> QED BY <1>5, <1>6, <1>7, <1>8, <1>9, <1>10

LEMMA AfterTier2Own ==
    ASSUME Inv, NEW u \in Users, turn[u].pc \in {"unlock", "delete"}, AfterTier2(u),
           UNCHANGED settings
    PROVE  Own(u)
<1>1. TurnsTyped BY DEF Inv, TypeOK, TurnsTyped
<1>2. turn[u].pc \in Chain /\ localOnly' = localOnly BY DEF Chain, settings
<1>3. CASE turn[u].got # NoReading
  <2>1. Serve(u, Injected(turn[u].got, "llm")) BY <1>3 DEF AfterTier2
  <2>2. turn[u].got \in Readings BY <1>1, <1>3 DEF TurnsTyped, Turns
  <2> QED BY <1>2, <2>1, <2>2, InjectedTyped, ServeOwn
<1>4. CASE turn[u].got = NoReading
  <2>1. PICK s \in Turns : s = turn[u] BY <1>1 DEF TurnsTyped
  <2>2. PICK t : t = [s EXCEPT !.pc = "fallback", !.holds = FALSE, !.at = "none",
                               !.cand = 1, !.polls = 0]
    OBVIOUS
  <2>3. turn' = [turn EXCEPT ![u] = t] BY <1>4, <2>1, <2>2 DEF AfterTier2
  <2>4. 1 \in 1..(Len(Caps) + 1) /\ 0 \in 0..MaxPolls BY PerceptionAssumption
  <2>5. t \in Turns BY <2>2, <2>4 DEF Turns, Chain
  <2>6. t.pc = "fallback" /\ t.want = s.want /\ t.memo = s.memo BY <2>2 DEF Turns
  <2>7. TurnsTyped' /\ turn'[u] = t /\ Others(u) BY <1>1, <2>3, <2>5, Moved
  <2>8. SameRender(u) /\ turn'[u].pc = "fallback" BY <2>1, <2>6, <2>7 DEF SameRender
  <2>9. turn'[u].pc \notin Storing BY <2>8 DEF Storing
  <2> QED BY <1>2, <2>7, <2>8, <2>9, SameRenderKeeps, PlainHolds DEF Own
<1> QED BY <1>3, <1>4

LEMMA AfterPersistOwn ==
    ASSUME Inv, NEW u \in Users, turn[u].pc \in {"upsert", "publish"},
           NEW r \in Readings \cup {NoReading}, AfterPersist(u, r), UNCHANGED settings
    PROVE  Own(u)
<1>1. TurnsTyped BY DEF Inv, TypeOK, TurnsTyped
<1>2. turn[u].pc \in Chain /\ turn[u].pc \in Storing BY DEF Chain, Storing
<1>3. localOnly' = localOnly /\ ~localOnly
  BY <1>2 DEF Inv, UserInv, ChainHolds, settings
<1>4. CASE turn[u].at = "llm"
  <2>1. "unlock" \in Places BY DEF Places, Chain
  <2>2. TurnsTyped' /\ Others(u) /\ SameRender(u) /\ turn'[u].pc = "unlock"
    BY <1>1, <1>4, <2>1, Got DEF AfterPersist
  <2> QED BY <1>2, <1>3, <2>2, SameRenderKeeps, PlainHolds DEF Own
<1>5. CASE turn[u].at # "llm" /\ r # NoReading
  <2>1. Serve(u, Injected(r, "local")) BY <1>5 DEF AfterPersist
  <2>2. r \in Readings BY <1>5
  <2> QED BY <1>2, <2>1, <2>2, InjectedTyped, ServeOwn
<1>6. CASE turn[u].at # "llm" /\ r = NoReading
  BY <1>6, RestOwn DEF AfterPersist
<1> QED BY <1>4, <1>5, <1>6

LEMMA Fetched ==
    ASSUME NEW u \in Users, TurnsTyped, NEW label \in Places,
           NEW b \in {"unread", "have", "failed"},
           turn' = [turn EXCEPT ![u].pc = label, ![u].bytes = b]
    PROVE  TurnsTyped' /\ Others(u) /\ SameRender(u) /\ turn'[u].pc = label
<1>1. PICK s \in Turns : s = turn[u] BY DEF TurnsTyped
<1>2. [s EXCEPT !.pc = label, !.bytes = b] \in Turns BY DEF Turns, Places
<1>3. turn' = [turn EXCEPT ![u] = [s EXCEPT !.pc = label, !.bytes = b]]
  BY <1>1, Zenon DEF TurnsTyped
<1>4. TurnsTyped' BY <1>2, <1>3, Moved
<1>5. Others(u) /\ SameRender(u) /\ turn'[u].pc = label
  BY DEF TurnsTyped, Turns, Others, SameRender
<1> QED BY <1>4, <1>5

LEMMA NextTierOwn ==
    ASSUME Inv, NEW u \in Users, turn[u].pc \in {"tier1", "tier2"},
           NEW label \in {"tier2", "acquire", "fallback"}, localOnly => label # "acquire",
           NextTier(u, label), UNCHANGED settings
    PROVE  Own(u)
<1>1. TurnsTyped BY DEF Inv, TypeOK, TurnsTyped
<1>2. turn[u].pc \in Chain /\ localOnly' = localOnly BY DEF Chain, settings
<1>3. PICK b : b = IF WantsBytes(u) THEN Bytes(u) ELSE turn[u].bytes OBVIOUS
<1>4. turn[u].bytes \in {"unread", "have", "failed"} BY <1>1 DEF TurnsTyped, Turns
<1>5. b \in {"unread", "have", "failed"} BY <1>3, <1>4 DEF Bytes
<1>6. turn' = [turn EXCEPT ![u].pc = label, ![u].bytes = b] BY <1>3 DEF NextTier
<1>7. label \in Places BY DEF Places, Chain
<1>8. TurnsTyped' /\ Others(u) /\ SameRender(u) /\ turn'[u].pc = label
  BY <1>1, <1>5, <1>6, <1>7, Fetched
<1>9. localOnly => turn'[u].pc \notin Storing BY <1>8 DEF Storing
<1> QED BY <1>2, <1>8, <1>9, SameRenderKeeps, PlainHolds DEF Own

LEMMA LooksHold ==
    ASSUME NEW u \in Users, turn'[u].pc = "get", turn'[u].at \in {"tier0", "wait", "locked"},
           ~localOnly', turn'[u].memo[turn'[u].want] = NoAttachment,
           turn'[u].at = "locked" /\ ~excused' => lock' = u
    PROVE  UserInv(u)'
BY DEF UserInv, UploadHolds, ReadingHeld, ChainHolds, LockHolds, PlaceHolds, Critical,
       At, Uploading, Chain, Storing

LEMMA QuietStep ==
    ASSUME Inv, NEW u \in Users, Own(u), ~At(u, "upsert"),
           UNCHANGED <<settings, stores, history>>
    PROVE  Kept(u)
<1>1. faults' \in 0..MaxFaults BY DEF Inv, TypeOK, history
<1> QED BY <1>1, QuietKeeps DEF Own, Quiet, history

LEMMA QuietFault ==
    ASSUME Inv, NEW u \in Users, Own(u), ~At(u, "upsert"), Fault,
           UNCHANGED <<settings, stores, reads, excused>>
    PROVE  Kept(u)
<1>1. faults' \in 0..MaxFaults BY PerceptionAssumption DEF Inv, TypeOK, Fault
<1> QED BY <1>1, QuietKeeps DEF Own, Quiet

-----------------------------------------------------------------------------
(* The steps that touch no store.                                            *)
LEMMA UploadKeeps ==
    ASSUME Inv, NEW u \in Users, Upload(u) \/ CheckObject(u) \/ Ask(u)
    PROVE  Kept(u)
<1>1. TurnsTyped BY DEF Inv, TypeOK, TurnsTyped
<1>2. PICK s \in Turns : s = turn[u] BY <1>1 DEF TurnsTyped
<1>3. CASE Upload(u)
  <2>1. PICK body \in Bodies :
            /\ Accepted(doc, body)
            /\ turn' = [turn EXCEPT ![u].pc = "exists", ![u].size = ReadUpload(body).size]
    BY <1>3 DEF Upload
  <2>2. doc \in Docs /\ doc' = doc BY <1>3 DEF Inv, TypeOK, Upload, settings
  <2>3. doc.bytes \in 1..FileMaxBytes /\ ReadUpload(body).size = doc.bytes
    BY <2>1, <2>2, UploadAssumption
  <2>4. PICK n \in 1..FileMaxBytes : n = doc.bytes BY <2>3
  <2>5. turn' = [turn EXCEPT ![u].pc = "exists", ![u].size = n] BY <2>1, <2>3, <2>4
  <2>6. [s EXCEPT !.pc = "exists", !.size = n] \in Turns
    <3>1. n \in 0..FileMaxBytes BY PerceptionAssumption
    <3> QED BY <3>1 DEF Turns, Uploading
  <2>7. turn' = [turn EXCEPT ![u] = [s EXCEPT !.pc = "exists", !.size = n]]
    BY <1>1, <1>2, <2>5, Zenon DEF TurnsTyped
  <2>8. TurnsTyped' BY <1>1, <2>6, <2>7, Moved
  <2>9. Others(u) /\ SameRender(u) /\ turn'[u].pc = "exists" /\ turn'[u].size = n
    BY <1>1, <2>5 DEF TurnsTyped, Turns, Others, SameRender
  <2>10. UserInv(u)'
    BY <2>2, <2>4, <2>9, PerceptionAssumption
       DEF UserInv, UploadHolds, ReadingHeld, ChainHolds, LockHolds, PlaceHolds, Critical,
           At, Chain, Storing
  <2>11. Own(u) BY <2>8, <2>9, <2>10, SameRenderKeeps DEF Own
  <2> QED BY <1>3, <2>11, QuietStep DEF Upload, At
<1>4. CASE CheckObject(u)
  <2>1. PICK label \in {"put", "claim"} :
            GoTo(u, label) /\ (label = "claim" => object # 0)
    BY <1>4 DEF CheckObject
  <2>2. label \in Places BY DEF Places, Uploading
  <2>3. TurnsTyped' /\ Others(u) /\ At1(u, label) BY <1>1, <2>1, <2>2, GoToMoves
  <2>4. turn[u].size = doc.bytes /\ doc.bytes > 0 /\ doc' = doc /\ object' = object
    BY <1>4 DEF Inv, UserInv, UploadHolds, CheckObject, At, Uploading, settings, stores
  <2>5. UserInv(u)'
    BY <2>1, <2>3, <2>4
       DEF UserInv, UploadHolds, ReadingHeld, ChainHolds, LockHolds, PlaceHolds, Critical,
           At, Chain, Storing, At1
  <2>6. Own(u) BY <2>3, <2>5, SameRenderKeeps DEF Own, At1
  <2> QED BY <1>4, <2>6, QuietStep DEF CheckObject, At
<1>5. CASE Ask(u)
  <2>1. PICK n \in 0..MaxTurns : n = turn[u].count + 1
    <3>1. turn[u].count \in 0..MaxTurns BY <1>1 DEF TurnsTyped, Turns
    <3>2. turn[u].count < MaxTurns BY <1>5 DEF Ask
    <3> QED BY <3>1, <3>2, PerceptionAssumption
  <2>2. turn' = [turn EXCEPT ![u].pc = "render", ![u].count = n] BY <1>5, <2>1 DEF Ask
  <2>3. [s EXCEPT !.pc = "render", !.count = n] \in Turns BY DEF Turns
  <2>4. turn' = [turn EXCEPT ![u] = [s EXCEPT !.pc = "render", !.count = n]]
    BY <1>1, <1>2, <2>2, Zenon DEF TurnsTyped
  <2>5. TurnsTyped' BY <1>1, <2>3, <2>4, Moved
  <2>6. Others(u) /\ SameRender(u) /\ turn'[u].pc = "render"
    BY <1>1, <2>2 DEF TurnsTyped, Turns, Others, SameRender
  <2>7. Own(u) BY <2>5, <2>6, RestingHolds, SameRenderKeeps DEF Own
  <2> QED BY <1>5, <2>7, QuietStep DEF Ask, At
<1> QED BY <1>3, <1>4, <1>5

(* Whoever holds the lock and finds no row is the first to read.             *)
LEMMA FirstReader ==
    ASSUME Inv, NEW u \in Users, turn[u].pc \in {"get", "select", "write_back"},
           turn[u].at = "locked", ~excused, row = NoReading
    PROVE  reads = 0
<1>1. lock = u BY DEF Inv, UserInv, LockHolds, Critical
<1>2. ASSUME NEW v \in Users, At(v, "upsert"), turn[v].at = "llm" PROVE FALSE
  <2>1. lock = v BY <1>2 DEF Inv, UserInv, LockHolds, Critical, At
  <2> QED BY <1>1, <1>2, <2>1 DEF At
<1>3. row.tier # "llm" BY DEF NoReading
<1> QED BY <1>2, <1>3 DEF Inv, ReadIsKept

LEMMA LoadKeeps ==
    ASSUME Inv, NEW u \in Users,
           GetCached(u) \/ GetFails(u) \/ SelectRow(u) \/ SelectFails(u) \/ WriteBackFails(u)
    PROVE  Kept(u)
<1>1. TurnsTyped BY DEF Inv, TypeOK, TurnsTyped
<1>2. UserInv(u) BY DEF Inv
<1>3. turn[u].pc \in {"get", "select", "write_back"}
  BY DEF GetCached, GetFails, SelectRow, SelectFails, WriteBackFails, At
<1>4. turn[u].pc \in Chain /\ turn[u].pc \in Storing BY <1>3 DEF Chain, Storing
<1>5. /\ UNCHANGED <<settings, stores, reads, excused>> /\ localOnly' = localOnly
      /\ ~localOnly
  BY <1>2, <1>4 DEF GetCached, GetFails, SelectRow, SelectFails, WriteBackFails, history,
                    settings, UserInv, ChainHolds
<1>6. UNCHANGED <<settings, lock, reads, excused>> BY <1>5 DEF stores
<1>7. ~At(u, "upsert") BY <1>3 DEF At
<1>8. cached \in Readings \cup {NoReading} /\ row \in Readings \cup {NoReading}
      /\ turn[u].got \in Readings \cup {NoReading}
  BY <1>1 DEF Inv, TypeOK, TurnsTyped, Turns
<1>9. ASSUME At(u, "get"), GoTo(u, "select") PROVE Own(u)
  <2>1. "select" \in Places BY DEF Places, Chain
  <2>2. TurnsTyped' /\ Others(u) /\ At1(u, "select") BY <1>1, <1>9, <2>1, GoToMoves
  <2>3. UserInv(u)'
    BY <1>2, <1>4, <1>5, <1>6, <1>9, <2>2
       DEF UserInv, UploadHolds, ReadingHeld, ChainHolds, LockHolds, PlaceHolds, Critical,
           At, At1, SameRender, Chain, Uploading
  <2> QED BY <2>2, <2>3, SameRenderKeeps DEF Own, At1
<1>10. CASE GetCached(u)
  <2>1. CASE cached # NoReading
    BY <1>3, <1>6, <1>8, <1>10, <2>1, FoundOwn, <1>7, QuietStep DEF GetCached
  <2>2. CASE cached = NoReading
    BY <1>9, <1>7, <1>10, <2>2, QuietStep DEF GetCached
  <2> QED BY <2>1, <2>2
<1>11. CASE GetFails(u)
  BY <1>9, <1>7, <1>11, QuietFault DEF GetFails
<1>12. CASE SelectRow(u)
  <2>1. CASE row = NoReading
    <3>1. Found(u, NoReading) BY <1>12, <2>1 DEF SelectRow
    <3>2. turn[u].at = "locked" /\ ~excused => reads = 0 BY <1>3, <2>1, FirstReader
    <3>3. Own(u) BY <1>3, <1>6, <3>1, <3>2, FoundOwn
    <3> QED BY <1>7, <1>12, <3>3, QuietStep DEF SelectRow
  <2>2. CASE row # NoReading
    <3>1. "write_back" \in Places BY DEF Places, Chain
    <3> PICK r \in Readings \cup {NoReading} : r = row BY <1>8
    <3>2. turn' = [turn EXCEPT ![u].pc = "write_back", ![u].got = r]
      BY <1>12, <2>2 DEF SelectRow
    <3>3. /\ TurnsTyped' /\ Others(u) /\ SameRender(u) /\ turn'[u].pc = "write_back"
          /\ turn'[u].got = row /\ turn'[u].at = turn[u].at
      BY <1>1, <3>1, <3>2, Got, ZenonT(30)
    <3>4. row' = row BY <1>5 DEF stores
    <3>5. UserInv(u)'
      BY <1>2, <1>3, <1>4, <1>5, <1>6, <2>2, <3>3, <3>4
         DEF UserInv, UploadHolds, ReadingHeld, ChainHolds, LockHolds, PlaceHolds, Critical,
             At, SameRender, Chain, Uploading
    <3>6. Own(u) BY <3>3, <3>5, SameRenderKeeps DEF Own
    <3> QED BY <1>7, <1>12, <3>6, QuietStep DEF SelectRow
  <2> QED BY <2>1, <2>2
<1>13. CASE SelectFails(u)
  <2>1. CASE turn[u].at = "tier0"
    <3>1. Own(u) BY <1>3, <1>6, <1>13, <2>1, FoundOwn DEF SelectFails
    <3> QED BY <1>7, <1>13, <3>1, QuietFault DEF SelectFails
  <2>2. CASE turn[u].at # "tier0"
    <3>1. "unlock" \in Places BY DEF Places, Chain
    <3>2. GoTo(u, "unlock") BY <1>13, <2>2 DEF SelectFails
    <3>3. TurnsTyped' /\ Others(u) /\ At1(u, "unlock") BY <1>1, <3>1, <3>2, GoToMoves
    <3>4. SameRender(u) /\ turn'[u].pc = "unlock" BY <3>3 DEF At1
    <3>5. Own(u) BY <1>4, <1>5, <3>3, <3>4, SameRenderKeeps, PlainHolds DEF Own
    <3> QED BY <1>7, <1>13, <3>5, QuietFault DEF SelectFails
  <2> QED BY <2>1, <2>2
<1>14. CASE WriteBackFails(u)
  <2>1. turn[u].got # NoReading BY <1>2, <1>14 DEF UserInv, ReadingHeld, WriteBackFails, At
  <2>2. Own(u) BY <1>3, <1>6, <1>8, <1>14, <2>1, FoundOwn DEF WriteBackFails
  <2> QED BY <1>7, <1>14, <2>2, QuietFault DEF WriteBackFails
<1> QED BY <1>10, <1>11, <1>12, <1>13, <1>14

(* A turn that is resting starts a render, and asks its memo first.          *)
LEMMA RenderOwn ==
    ASSUME Inv, NEW u \in Users, turn[u].pc \in {"render", "served"},
           turn[u].renders < MaxRenders, NEW n \in BOOLEAN, turn' = RenderWith(u, n),
           UNCHANGED settings
    PROVE  Own(u)
<1>1. TurnsTyped BY DEF Inv, TypeOK, TurnsTyped
<1>2. PICK s \in Turns : s = turn[u] BY <1>1 DEF TurnsTyped
<1>3. PICK m \in 0..MaxRenders : m = turn[u].renders + 1
  <2>1. turn[u].renders \in 0..MaxRenders BY <1>1 DEF TurnsTyped, Turns
  <2> QED BY <2>1, PerceptionAssumption
<1>4. localOnly' = localOnly BY DEF settings
<1>5. CASE turn[u].memo[n] # NoAttachment
  <2>1. turn' = [turn EXCEPT ![u].pc = "served", ![u].want = n, ![u].renders = m]
    BY <1>3, <1>5 DEF RenderWith
  <2>2. [s EXCEPT !.pc = "served", !.want = n, !.renders = m] \in Turns BY DEF Turns
  <2>3. turn' = [turn EXCEPT ![u] = [s EXCEPT !.pc = "served", !.want = n, !.renders = m]]
    BY <1>1, <1>2, <2>1, Zenon DEF TurnsTyped
  <2>4. TurnsTyped' BY <1>1, <2>2, <2>3, Moved
  <2>5. Others(u) /\ turn'[u].pc = "served" /\ turn'[u].memo = turn[u].memo
    BY <1>1, <2>1 DEF TurnsTyped, Turns, Others
  <2> QED BY <2>4, <2>5, RestingHolds DEF Own, MemoKept
<1>6. CASE turn[u].memo[n] = NoAttachment /\ localOnly
  <2>1. PICK f : f = [turn EXCEPT ![u].pc = "tier1"] OBVIOUS
  <2>2. f[u].renders = turn[u].renders BY <1>1, <2>1 DEF TurnsTyped, Turns
  <2>3. turn' = [f EXCEPT ![u].want = n, ![u].renders = m]
    BY <1>3, <1>6, <2>1, <2>2 DEF RenderWith, Tier0
  <2>4. [s EXCEPT !.pc = "tier1", !.want = n, !.renders = m] \in Turns BY DEF Turns, Chain
  <2>5. turn' = [turn EXCEPT ![u] = [s EXCEPT !.pc = "tier1", !.want = n, !.renders = m]]
    BY <1>1, <1>2, <2>1, <2>3, Zenon DEF TurnsTyped
  <2>6. TurnsTyped' BY <1>1, <2>4, <2>5, Moved
  <2>7. /\ Others(u) /\ turn'[u].pc = "tier1" /\ turn'[u].memo = turn[u].memo
        /\ turn'[u].want = n
    BY <1>1, <2>1, <2>3 DEF TurnsTyped, Turns, Others
  <2>8. UserInv(u)'
    BY <1>6, <2>7
       DEF UserInv, UploadHolds, ReadingHeld, ChainHolds, LockHolds, PlaceHolds, Critical,
           At, Uploading, Storing
  <2> QED BY <2>6, <2>7, <2>8 DEF Own, MemoKept
<1>7. CASE turn[u].memo[n] = NoAttachment /\ ~localOnly
  <2>1. PICK f : f = [turn EXCEPT ![u].pc = "get", ![u].at = "tier0"] OBVIOUS
  <2>2. f[u].renders = turn[u].renders BY <1>1, <2>1 DEF TurnsTyped, Turns
  <2>3. turn' = [f EXCEPT ![u].want = n, ![u].renders = m]
    BY <1>3, <1>7, <2>1, <2>2 DEF RenderWith, Tier0, Look
  <2>4. PICK t : t = [s EXCEPT !.pc = "get", !.at = "tier0", !.want = n, !.renders = m]
    OBVIOUS
  <2>5. t \in Turns BY <2>4, ZenonT(30) DEF Turns, Chain
  <2>6. turn' = [turn EXCEPT ![u] = t]
    BY <1>1, <1>2, <2>1, <2>3, <2>4, Zenon DEF TurnsTyped
  <2>7. TurnsTyped' BY <1>1, <2>5, <2>6, Moved
  <2>8. /\ Others(u) /\ turn'[u].pc = "get" /\ turn'[u].memo = turn[u].memo
        /\ turn'[u].want = n /\ turn'[u].at = "tier0"
    BY <1>1, <2>1, <2>3 DEF TurnsTyped, Turns, Others
  <2>9. UserInv(u)' BY <1>4, <1>7, <2>8, LooksHold
  <2> QED BY <2>7, <2>8, <2>9 DEF Own, MemoKept
<1> QED BY <1>5, <1>6, <1>7

LEMMA TierKeeps ==
    ASSUME Inv, NEW u \in Users,
           Render(u) \/ Finish(u) \/ FetchFails(u) \/ Tier1(u) \/ Tier2(u)
    PROVE  Kept(u)
<1>1. TurnsTyped BY DEF Inv, TypeOK, TurnsTyped
<1>2. ~At(u, "upsert") BY DEF Render, Finish, FetchFails, WantsBytes, Tier1, Tier2, At
<1>3. CASE Render(u)
  <2>1. PICK cap \in NativeCaps \cup {NoNative} : turn' = RenderWith(u, NativeWanted(doc, cap))
    BY <1>3 DEF Render
  <2>2. PICK n \in BOOLEAN : n = NativeWanted(doc, cap) BY DEF NativeWanted
  <2>3. Own(u) BY <1>3, <2>1, <2>2, RenderOwn DEF Render
  <2> QED BY <1>2, <1>3, <2>3, QuietStep DEF Render
<1>4. CASE Finish(u)
  <2>1. Own(u) BY <1>4, RestOwn DEF Finish
  <2> QED BY <1>2, <1>4, <2>1, QuietStep DEF Finish
<1>5. CASE FetchFails(u)
  <2>1. PICK s \in Turns : s = turn[u] BY <1>1 DEF TurnsTyped
  <2>2. turn' = [turn EXCEPT ![u] = [s EXCEPT !.bytes = "failed"]]
    BY <1>5, <2>1 DEF FetchFails
  <2>3. [s EXCEPT !.bytes = "failed"] \in Turns BY DEF Turns
  <2>4. TurnsTyped' BY <1>1, <2>2, <2>3, Moved
  <2>5. Others(u) /\ SameRender(u) /\ turn'[u].pc = turn[u].pc
    BY <1>1, <1>5 DEF FetchFails, TurnsTyped, Turns, Others, SameRender
  <2>6. turn[u].pc \in {"tier1", "tier2", "tier3"} /\ localOnly' = localOnly
    BY <1>5 DEF FetchFails, WantsBytes, At, settings
  <2>7. turn[u].pc \in Chain /\ turn'[u].pc \notin Storing BY <2>5, <2>6 DEF Chain, Storing
  <2>8. Own(u) BY <2>4, <2>5, <2>6, <2>7, SameRenderKeeps, PlainHolds DEF Own
  <2> QED BY <1>2, <1>5, <2>8, QuietFault DEF FetchFails
<1>6. CASE Tier1(u)
  <2>1. turn[u].pc = "tier1" /\ turn[u].pc \in Chain BY <1>6 DEF Tier1, At, Chain
  <2>2. Native \in Attachments BY DEF Attachments
  <2>3. Serve(u, Native) \/ NextTier(u, "tier2") BY <1>6 DEF Tier1
  <2>4. Own(u) BY <1>6, <2>1, <2>2, <2>3, ServeOwn, NextTierOwn DEF Tier1
  <2> QED BY <1>2, <1>6, <2>4, QuietStep DEF Tier1
<1>7. CASE Tier2(u)
  <2>1. turn[u].pc = "tier2" BY <1>7 DEF Tier2, At
  <2>2. PICK label \in {"acquire", "fallback"} :
            NextTier(u, label) /\ (localOnly => label # "acquire")
    BY <1>7 DEF Tier2
  <2>3. Own(u) BY <1>7, <2>1, <2>2, NextTierOwn DEF Tier2
  <2> QED BY <1>2, <1>7, <2>3, QuietStep DEF Tier2
<1> QED BY <1>3, <1>4, <1>5, <1>6, <1>7

(* Whoever walks the candidates goes on holding the lock.                    *)
LEMMA WalkHolds ==
    ASSUME Inv, NEW u \in Users, turn[u].pc \in {"walk", "call"}, SameRender(u),
           UNCHANGED <<settings, lock, reads, excused>>,
           turn'[u].pc \in {"walk", "call"},
           turn'[u].pc = "call" => turn'[u].cand \in 1..Len(Caps)
    PROVE  UserInv(u)'
<1>1. UserInv(u) BY DEF Inv
<1>2. LockHolds(u)' BY <1>1 DEF UserInv, LockHolds, Critical
<1>3. turn[u].pc \in Chain /\ turn[u].pc \in Storing BY DEF Chain, Storing
<1>4. localOnly' = localOnly BY DEF settings
<1>5. ChainHolds(u)' BY <1>1, <1>3, <1>4 DEF UserInv, ChainHolds, SameRender
<1> QED BY <1>2, <1>5 DEF UserInv, UploadHolds, ReadingHeld, PlaceHolds, At, Uploading

LEMMA WalkKeeps ==
    ASSUME Inv, NEW u \in Users,
           Poll(u) \/ SkipCandidate(u) \/ Call(u) \/ ChainExhausted(u) \/ CallFails(u)
    PROVE  Kept(u)
<1>1. TurnsTyped BY DEF Inv, TypeOK, TurnsTyped
<1>2. PICK s \in Turns : s = turn[u] BY <1>1 DEF TurnsTyped
<1>3. UserInv(u) BY DEF Inv
<1>4. /\ turn[u].pc \in {"wait", "walk", "call"}
      /\ UNCHANGED <<settings, stores, history>>
  BY DEF Poll, SkipCandidate, Call, ChainExhausted, CallFails, At
<1>5. turn[u].pc \in Chain /\ turn[u].pc \in Storing BY <1>4 DEF Chain, Storing
<1>6. ~localOnly /\ localOnly' = localOnly BY <1>3, <1>4, <1>5 DEF UserInv, ChainHolds, settings
<1>7. UNCHANGED <<settings, lock, reads, excused>> BY <1>4 DEF stores, history
<1>8. SUFFICES Own(u) BY <1>4, QuietStep DEF At
<1>9. Len(Caps) \in Nat /\ turn[u].cand \in 1..(Len(Caps) + 1)
  BY <1>1, PerceptionAssumption, SMTT(30) DEF TurnsTyped, Turns
<1>10. ASSUME GoTo(u, "unlock") PROVE Own(u)
  <2>1. "unlock" \in Places BY DEF Places, Chain
  <2>2. TurnsTyped' /\ Others(u) /\ At1(u, "unlock") BY <1>1, <1>10, <2>1, GoToMoves
  <2>3. SameRender(u) /\ turn'[u].pc = "unlock" BY <2>2 DEF At1
  <2> QED BY <1>5, <1>6, <2>2, <2>3, SameRenderKeeps, PlainHolds DEF Own
<1>11. CASE Poll(u)
  <2>1. PICK n \in 0..MaxPolls : n = turn[u].polls + 1
    <3>1. turn[u].polls \in 0..MaxPolls BY <1>1 DEF TurnsTyped, Turns
    <3>2. turn[u].polls < MaxPolls BY <1>11 DEF Poll
    <3> QED BY <3>1, <3>2, PerceptionAssumption
  <2>2. PICK f : f = [turn EXCEPT ![u].pc = "get", ![u].at = "wait"] OBVIOUS
  <2>3. f[u].polls = turn[u].polls BY <1>1, <2>2 DEF TurnsTyped, Turns
  <2>4. turn' = [f EXCEPT ![u].polls = n] BY <1>11, <2>1, <2>2, <2>3 DEF Poll, Look
  <2>5. [s EXCEPT !.pc = "get", !.at = "wait", !.polls = n] \in Turns BY DEF Turns, Chain
  <2>6. turn' = [turn EXCEPT ![u] = [s EXCEPT !.pc = "get", !.at = "wait", !.polls = n]]
    BY <1>1, <1>2, <2>2, <2>4, Zenon DEF TurnsTyped
  <2>7. TurnsTyped' BY <1>1, <2>5, <2>6, Moved
  <2>8. Others(u) /\ SameRender(u) /\ turn'[u].pc = "get" /\ turn'[u].at = "wait"
    BY <1>1, <2>2, <2>4 DEF TurnsTyped, Turns, Others, SameRender
  <2>9. UserInv(u)'
    BY <1>3, <1>5, <1>6, <2>8, LooksHold DEF UserInv, ChainHolds, SameRender
  <2> QED BY <2>7, <2>8, <2>9, SameRenderKeeps DEF Own
<1>12. CASE SkipCandidate(u)
  <2>1. PICK n \in 1..(Len(Caps) + 1) : n = turn[u].cand + 1 BY <1>9, <1>12 DEF SkipCandidate
  <2>2. turn' = [turn EXCEPT ![u].cand = n] BY <1>12, <2>1 DEF SkipCandidate
  <2>3. [s EXCEPT !.cand = n] \in Turns BY DEF Turns
  <2>4. turn' = [turn EXCEPT ![u] = [s EXCEPT !.cand = n]] BY <1>2, <2>2
  <2>5. TurnsTyped' BY <1>1, <2>3, <2>4, Moved
  <2>6. Others(u) /\ SameRender(u) /\ turn'[u].pc = turn[u].pc
    BY <1>1, <2>2 DEF TurnsTyped, Turns, Others, SameRender
  <2>7. turn[u].pc = "walk" BY <1>12 DEF SkipCandidate, At
  <2>8. UserInv(u)' BY <1>7, <2>6, <2>7, WalkHolds
  <2> QED BY <2>5, <2>6, <2>8, SameRenderKeeps DEF Own
<1>13. CASE Call(u)
  <2>1. "call" \in Places BY DEF Places, Chain
  <2>2. TurnsTyped' /\ Others(u) /\ At1(u, "call") BY <1>1, <1>13, <2>1, GoToMoves DEF Call
  <2>3. SameRender(u) /\ turn'[u].pc = "call" /\ turn'[u].cand = turn[u].cand
    BY <2>2 DEF At1
  <2>4. turn[u].pc = "walk" /\ turn[u].cand \in 1..Len(Caps) BY <1>9, <1>13 DEF Call, At
  <2>5. UserInv(u)' BY <1>7, <2>3, <2>4, WalkHolds
  <2> QED BY <2>2, <2>3, <2>5, SameRenderKeeps DEF Own
<1>14. CASE ChainExhausted(u)
  BY <1>10, <1>14 DEF ChainExhausted
<1>15. CASE CallFails(u) /\ turn' = [turn EXCEPT ![u].pc = "unlock"]
  BY <1>10, <1>15 DEF GoTo
<1>16. CASE CallFails(u) /\ turn' = [turn EXCEPT ![u].pc = "walk", ![u].cand = @ + 1]
  <2>1. turn[u].pc = "call" /\ turn[u].cand \in 1..Len(Caps)
    BY <1>3, <1>16 DEF CallFails, UserInv, PlaceHolds, At
  <2>2. PICK n \in 1..(Len(Caps) + 1) : n = turn[u].cand + 1 BY <1>9, <2>1
  <2>3. TurnsTyped' /\ Others(u) /\ SameRender(u) /\ turn'[u].pc = "walk"
    BY <1>1, <1>16, <2>2, Walks
  <2>4. UserInv(u)' BY <1>7, <2>1, <2>3, WalkHolds
  <2> QED BY <2>3, <2>4, SameRenderKeeps DEF Own
<1> QED BY <1>11, <1>12, <1>13, <1>14, <1>15, <1>16 DEF CallFails

LEMMA LocalReadingTyped == LocalReading(doc) \in Readings \cup {NoReading}
BY DEF LocalReading, Reading, Readings, NoReading

LEMMA BottomKeeps ==
    ASSUME Inv, NEW u \in Users,
           PublishFails(u) \/ Unlock(u) \/ Fallback(u) \/ Tier3(u) \/ Unreadable(u)
    PROVE  Kept(u)
<1>1. TurnsTyped BY DEF Inv, TypeOK, TurnsTyped
<1>2. UserInv(u) BY DEF Inv
<1>3. turn[u].got \in Readings \cup {NoReading} /\ turn[u].look \in Readings \cup {NoReading}
  BY <1>1 DEF TurnsTyped, Turns
<1>4. CASE PublishFails(u)
  <2>1. Own(u) BY <1>3, <1>4, AfterPersistOwn DEF PublishFails, At
  <2> QED BY <1>4, <2>1, QuietFault DEF PublishFails, At
<1>5. CASE Unlock(u)
  <2>1. turn[u].pc = "unlock" /\ localOnly' = localOnly BY <1>5 DEF Unlock, At, settings
  <2>2. turn[u].pc \in Chain /\ turn[u].pc \in Storing BY <2>1 DEF Chain, Storing
  <2>3. CASE GoTo(u, "delete")
    <3>1. "delete" \in Places BY DEF Places, Chain
    <3>2. TurnsTyped' /\ Others(u) /\ At1(u, "delete") BY <1>1, <2>3, <3>1, GoToMoves
    <3>3. SameRender(u) /\ turn'[u].pc = "delete" BY <3>2 DEF At1
    <3>4. ~localOnly BY <1>2, <2>2 DEF UserInv, ChainHolds
    <3> QED BY <1>5, <2>1, <2>2, <3>2, <3>3, <3>4, SameRenderKeeps, PlainHolds, QuietStep
            DEF Own, Unlock, At
  <2>4. CASE AfterTier2(u)
    <3>1. Own(u) BY <1>5, <2>1, <2>4, AfterTier2Own DEF Unlock
    <3> QED BY <1>5, <2>1, <3>1, QuietStep DEF Unlock, At
  <2> QED BY <1>5, <2>3, <2>4 DEF Unlock
<1>6. CASE Fallback(u)
  <2>1. turn[u].pc = "fallback" /\ localOnly' = localOnly BY <1>6 DEF Fallback, At, settings
  <2>2. turn[u].pc \in Chain BY <2>1 DEF Chain
  <2>3. CASE turn[u].look # NoReading
    <3>1. Serve(u, Injected(turn[u].look, "cache")) BY <1>6, <2>3 DEF Fallback
    <3>2. turn[u].look \in Readings BY <1>3, <2>3
    <3>3. Own(u) BY <2>2, <3>1, <3>2, InjectedTyped, ServeOwn
    <3> QED BY <1>6, <2>1, <3>3, QuietStep DEF Fallback, At
  <2>4. CASE turn[u].look = NoReading
    <3>1. "tier3" \in Places BY DEF Places, Chain
    <3>2. TurnsTyped' /\ Others(u) /\ At1(u, "tier3")
      BY <1>1, <1>6, <2>4, <3>1, GoToMoves DEF Fallback
    <3>3. SameRender(u) /\ turn'[u].pc = "tier3" BY <3>2 DEF At1
    <3>4. turn'[u].pc \notin Storing BY <3>3 DEF Storing
    <3>5. Own(u) BY <2>1, <2>2, <3>2, <3>3, <3>4, SameRenderKeeps, PlainHolds DEF Own
    <3> QED BY <1>6, <2>1, <3>5, QuietStep DEF Fallback, At
  <2> QED BY <2>3, <2>4
<1>7. CASE Unreadable(u)
  BY <1>7, RestOwn, QuietStep DEF Unreadable, At
<1>8. CASE Tier3(u)
  <2>1. turn[u].pc = "tier3" /\ localOnly' = localOnly BY <1>8 DEF Tier3, At, settings
  <2>2. turn[u].pc \in Chain BY <2>1 DEF Chain
  <2>3. PICK r \in Readings : r = LocalReading(doc) BY <1>8, LocalReadingTyped DEF Tier3
  <2>4. CASE localOnly
    <3>1. Serve(u, Injected(r, "local")) BY <1>8, <2>3, <2>4 DEF Tier3, StoresLocal
    <3>2. Own(u) BY <2>2, <3>1, InjectedTyped, ServeOwn
    <3> QED BY <1>8, <2>1, <3>2, QuietStep DEF Tier3, At
  <2>5. CASE ~localOnly
    <3>1. turn' = [turn EXCEPT ![u].pc = "upsert", ![u].at = "local", ![u].got = r]
      BY <1>8, <2>3, <2>5 DEF Tier3, StoresLocal
    <3>2. PICK s \in Turns : s = turn[u] BY <1>1 DEF TurnsTyped
    <3>3. [s EXCEPT !.pc = "upsert", !.at = "local", !.got = r] \in Turns BY DEF Turns, Chain
    <3>4. turn' = [turn EXCEPT ![u] = [s EXCEPT !.pc = "upsert", !.at = "local", !.got = r]]
      BY <1>1, <3>1, <3>2, Zenon DEF TurnsTyped
    <3>5. TurnsTyped' BY <1>1, <3>3, <3>4, Moved
    <3>6. /\ Others(u) /\ SameRender(u) /\ turn'[u].pc = "upsert" /\ turn'[u].at = "local"
          /\ turn'[u].got = r
      BY <1>1, <3>1 DEF TurnsTyped, Turns, Others, SameRender
    <3>7. r # NoReading BY <1>8, <2>3 DEF Tier3
    <3>8. ChainHolds(u)' BY <1>2, <2>1, <2>2, <2>5, <3>6 DEF UserInv, ChainHolds, SameRender
    <3>9. UserInv(u)'
      BY <3>6, <3>7, <3>8
         DEF UserInv, UploadHolds, ReadingHeld, LockHolds, PlaceHolds, Critical, At, Uploading
    <3>10. Own(u) BY <3>5, <3>6, <3>9, SameRenderKeeps DEF Own
    <3> QED BY <1>8, <2>1, <3>10, QuietStep DEF Tier3, At
  <2> QED BY <2>4, <2>5
<1> QED BY <1>4, <1>5, <1>6, <1>7, <1>8

-----------------------------------------------------------------------------
(* The steps that touch a store, the lock or the count of readings.          *)
LEMMA StoreKept ==
    ASSUME Inv, NEW u \in Users, Own(u), Forward(u), NeverDowngraded, DemoLeavesNoTrace,
           (ObjectIsWhole /\ CacheBehindRow /\ ReadIsKept)',
           (doc \in Docs /\ localOnly \in BOOLEAN /\ object \in 0..FileMaxBytes)',
           (owners \subseteq Users /\ lock \in Users \cup {Free, Orphan})',
           (row \in Readings \cup {NoReading} /\ cached \in Readings \cup {NoReading})',
           (faults \in 0..MaxFaults /\ reads \in Nat /\ excused \in BOOLEAN)'
    PROVE  Kept(u)
<1>1. TypeOK' BY DEF Own, TurnsTyped, TypeOK
<1> QED BY <1>1, StepKeeps DEF Own, Kept

LEMMA ReadStays ==
    ASSUME Inv, NEW u \in Users, Others(u), ~At(u, "upsert"),
           row.tier = "llm" => row'.tier = "llm",
           excused => excused', reads' = reads
    PROVE  ReadIsKept'
<1>1. ASSUME NEW v \in Users, At(v, "upsert"), turn[v].at = "llm"
      PROVE  At(v, "upsert")' /\ turn'[v].at = "llm"
  <2>1. turn'[v] = turn[v] BY <1>1 DEF Others
  <2> QED BY <1>1, <2>1 DEF At
<1> QED BY <1>1 DEF Inv, ReadIsKept

LEMMA FaultCounts ==
    ASSUME Inv, Fault
    PROVE  faults' \in 0..MaxFaults
BY PerceptionAssumption DEF Inv, TypeOK, Fault

LEMMA ObjectKeeps ==
    ASSUME Inv, NEW u \in Users, PutObject(u) \/ ClaimFile(u) \/ UploadFails(u)
    PROVE  Kept(u)
<1> USE DEF settings, history
<1>1. TurnsTyped BY DEF Inv, TypeOK, TurnsTyped
<1>2. TypeOK /\ ObjectIsWhole /\ CacheBehindRow BY DEF Inv
<1>3. turn[u].pc \in Uploading BY DEF PutObject, ClaimFile, UploadFails, At, Uploading
<1>4. turn[u].size = doc.bytes /\ doc.bytes > 0 BY <1>3 DEF Inv, UserInv, UploadHolds
<1>5. turn[u].size \in 0..FileMaxBytes BY <1>1 DEF TurnsTyped, Turns
<1>6. UNCHANGED <<settings, row, cached, lock, reads, excused>>
  BY DEF PutObject, ClaimFile, UploadFails
<1>7. faults' \in 0..MaxFaults
  BY <1>2, FaultCounts DEF PutObject, ClaimFile, UploadFails, TypeOK
<1>8. /\ object' \in {object, doc.bytes} /\ object' \in 0..FileMaxBytes
      /\ owners' \in {owners, owners \cup {u}} /\ (owners' # owners => object' # 0)
  BY <1>2, <1>4, <1>5 DEF PutObject, ClaimFile, UploadFails, TypeOK, Inv, UserInv, UploadHolds
<1>9. ObjectIsWhole' BY <1>2, <1>4, <1>6, <1>8 DEF ObjectIsWhole
<1>10. Own(u)
  <2>1. CASE PutObject(u)
    <3>1. "claim" \in Places BY DEF Places, Uploading
    <3>2. TurnsTyped' /\ Others(u) /\ At1(u, "claim")
      BY <1>1, <2>1, <3>1, GoToMoves DEF PutObject
    <3>3. object' # 0 /\ doc' = doc BY <1>4, <2>1 DEF PutObject
    <3>4. UserInv(u)'
      BY <1>4, <3>2, <3>3
         DEF UserInv, UploadHolds, ReadingHeld, ChainHolds, LockHolds, PlaceHolds, Critical,
             At, Chain, Storing, At1
    <3> QED BY <3>2, <3>4, SameRenderKeeps DEF Own, At1
  <2>2. CASE ClaimFile(u) \/ UploadFails(u)
    BY <2>2, RestOwn DEF ClaimFile, UploadFails
  <2> QED BY <2>1, <2>2
<1>11. ~At(u, "upsert") BY <1>3 DEF At, Uploading
<1>12. ReadIsKept' BY <1>6, <1>10, <1>11, ReadStays DEF Own
<1>13. Forward(u) BY <1>4, <1>6, <1>8, <1>10 DEF Forward, Own
<1>14. CacheBehindRow' BY <1>2, <1>6 DEF CacheBehindRow
<1>15. NeverDowngraded /\ DemoLeavesNoTrace BY <1>6 DEF NeverDowngraded, DemoLeavesNoTrace
<1> QED BY <1>2, <1>6, <1>7, <1>8, <1>9, <1>10, <1>12, <1>13, <1>14, <1>15, StoreKept
        DEF TypeOK

(* Redis receives a copy of what Postgres has.                               *)
LEMMA CopyKeeps ==
    ASSUME Inv, NEW u \in Users, WriteBack(u) \/ Publish(u)
    PROVE  Kept(u)
<1> USE DEF settings, history
<1>1. TypeOK /\ ObjectIsWhole /\ TurnsTyped BY DEF Inv, TypeOK, TurnsTyped
<1>2. turn[u].pc \in {"write_back", "publish"} BY DEF WriteBack, Publish, At
<1>3. turn[u].got \in Readings \cup {NoReading} BY <1>1 DEF TurnsTyped, Turns
<1>4. /\ turn[u].got # NoReading /\ row # NoReading
      /\ turn[u].got.tier = "llm" => row.tier = "llm"
  BY <1>2 DEF Inv, UserInv, ReadingHeld
<1>5. /\ cached' = turn[u].got
      /\ UNCHANGED <<doc, localOnly, object, owners, row, lock, faults, reads, excused>>
  BY DEF WriteBack, Publish
<1>6. turn[u].pc \in Storing BY <1>2 DEF Storing
<1>7. ~localOnly BY <1>6 DEF Inv, UserInv, ChainHolds
<1>8. Own(u)
  <2>1. PICK r \in Readings \cup {NoReading} : r = turn[u].got BY <1>3
  <2>2. UNCHANGED <<settings, lock, reads, excused>> BY <1>5
  <2>3. CASE WriteBack(u)
    <3>1. Found(u, r) /\ turn[u].pc = "write_back" BY <2>1, <2>3 DEF WriteBack, At
    <3> HIDE DEF settings
    <3> QED BY <1>4, <2>1, <2>2, <3>1, FoundOwn
  <2>4. CASE Publish(u)
    <3>1. AfterPersist(u, r) /\ turn[u].pc = "publish" BY <2>1, <2>4 DEF Publish, At
    <3> HIDE DEF settings
    <3> QED BY <2>2, <3>1, AfterPersistOwn
  <2> QED BY <2>3, <2>4
<1>9. ReadIsKept' BY <1>2, <1>5, <1>8, ReadStays DEF Own, At
<1>10. Forward(u) BY <1>5, <1>8 DEF Forward, Own
<1>11. ObjectIsWhole' /\ CacheBehindRow' BY <1>1, <1>4, <1>5 DEF ObjectIsWhole, CacheBehindRow
<1>12. NeverDowngraded /\ DemoLeavesNoTrace
  BY <1>5, <1>7 DEF NeverDowngraded, DemoLeavesNoTrace
<1> QED BY <1>1, <1>3, <1>5, <1>8, <1>9, <1>10, <1>11, <1>12, StoreKept DEF TypeOK

(* persist writes the row, and a model's row stays.                          *)
LEMMA UpsertKeeps ==
    ASSUME Inv, NEW u \in Users, Upsert(u) \/ UpsertFails(u)
    PROVE  Kept(u)
<1> USE DEF settings, history
<1>1. TypeOK /\ ObjectIsWhole /\ CacheBehindRow /\ TurnsTyped BY DEF Inv, TypeOK, TurnsTyped
<1>2. turn[u].pc = "upsert" /\ At(u, "upsert") BY DEF Upsert, UpsertFails, At
<1>3. UserInv(u) BY DEF Inv
<1>4. PICK r \in Readings \cup {NoReading} : r = turn[u].got BY <1>1 DEF TurnsTyped, Turns
<1>5. r # NoReading /\ (turn[u].at = "llm" => r.tier = "llm")
  BY <1>2, <1>3, <1>4 DEF UserInv, ReadingHeld
<1>6. turn[u].pc \in Storing /\ turn[u].pc \in Chain BY <1>2 DEF Storing, Chain
<1>7. ~localOnly BY <1>3, <1>6 DEF UserInv, ChainHolds
<1>8. UNCHANGED <<doc, localOnly, object, owners, cached, lock, reads>>
  BY DEF Upsert, UpsertFails
<1>9. /\ row' \in {row, r} /\ (row.tier = "llm" => row' = row)
      /\ (row # NoReading => row' # NoReading)
  BY <1>4, <1>5 DEF Upsert, UpsertFails, Upgraded
<1>10. faults' \in 0..MaxFaults /\ excused' \in BOOLEAN /\ (excused => excused')
  BY <1>1, FaultCounts DEF Upsert, UpsertFails, TypeOK
<1>11. ASSUME Own(u), ReadIsKept' PROVE Kept(u)
  <2>1. Forward(u) BY <1>8, <1>9, <1>10, <1>11 DEF Forward, Own
  <2>2. ObjectIsWhole' BY <1>1, <1>8 DEF ObjectIsWhole
  <2>3. CacheBehindRow' BY <1>1, <1>8, <1>9 DEF CacheBehindRow
  <2>4. NeverDowngraded /\ DemoLeavesNoTrace
    BY <1>7, <1>9 DEF NeverDowngraded, DemoLeavesNoTrace
  <2>5. row' \in Readings \cup {NoReading} BY <1>1, <1>9 DEF TypeOK
  <2> QED BY <1>1, <1>8, <1>10, <1>11, <2>1, <2>2, <2>3, <2>4, <2>5, StoreKept DEF TypeOK
<1>12. CASE Upsert(u)
  <2>1. row' = Upgraded(row, r) /\ excused' = excused BY <1>4, <1>12 DEF Upsert
  <2>2. row' # NoReading /\ (r.tier = "llm" => row'.tier = "llm")
    BY <1>5, <1>9, <2>1 DEF Upgraded, NoReading
  <2>3. "publish" \in Places BY DEF Places, Chain
  <2>4. TurnsTyped' /\ Others(u) /\ At1(u, "publish")
    BY <1>1, <1>12, <2>3, GoToMoves DEF Upsert
  <2>5. ReadingHeld(u)' BY <1>4, <1>5, <2>2, <2>4 DEF ReadingHeld, At1, At
  <2>6. ChainHolds(u)' BY <1>3, <1>6, <1>7, <1>8, <2>4 DEF UserInv, ChainHolds, At1, SameRender
  <2>7. LockHolds(u)'
    BY <1>2, <1>3, <1>8, <2>1, <2>4 DEF UserInv, LockHolds, Critical, At1
  <2>8. UserInv(u)'
    BY <2>4, <2>5, <2>6, <2>7 DEF UserInv, UploadHolds, PlaceHolds, At, At1, Uploading
  <2>9. Own(u) BY <2>4, <2>8, SameRenderKeeps DEF Own, At1
  <2>10. ReadIsKept'
    <3> SUFFICES ASSUME ~excused, reads # 0
                 PROVE  /\ reads = 1
                        /\ \/ row'.tier = "llm"
                           \/ \E v \in Users : At(v, "upsert")' /\ turn'[v].at = "llm"
      BY <1>8, <2>1 DEF ReadIsKept
    <3>1. reads = 1 BY DEF Inv, ReadIsKept
    <3>2. CASE row.tier = "llm" BY <1>9, <3>1, <3>2
    <3>3. ASSUME NEW v \in Users, At(v, "upsert"), turn[v].at = "llm"
          PROVE  row'.tier = "llm" \/ (At(v, "upsert")' /\ turn'[v].at = "llm")
      <4>1. CASE v = u BY <1>5, <2>2, <3>3, <4>1
      <4>2. CASE v # u
        <5>1. turn[v] = turn'[v] BY <2>4, <4>2 DEF Others
        <5> QED BY <3>3, <5>1 DEF At
      <4> QED BY <4>1, <4>2
    <3> QED BY <3>1, <3>2, <3>3 DEF Inv, ReadIsKept
  <2> QED BY <1>11, <2>9, <2>10
<1>13. CASE UpsertFails(u)
  <2>1. excused' = TRUE /\ AfterPersist(u, NoReading) BY <1>13 DEF UpsertFails
  <2>2. UNCHANGED settings BY <1>8
  <2>3. Own(u)
    <3> HIDE DEF settings
    <3> QED BY <1>2, <2>1, <2>2, AfterPersistOwn
  <2>4. ReadIsKept' BY <2>1 DEF ReadIsKept
  <2> QED BY <1>11, <2>3, <2>4
<1> QED BY <1>12, <1>13

LEMMA LockKept ==
    ASSUME Inv, NEW u \in Users, Own(u), UNCHANGED <<settings, object, owners, row, cached>>,
           faults' \in 0..MaxFaults, reads' = reads, excused' \in BOOLEAN,
           excused => excused', lock' \in Users \cup {Free, Orphan},
           ~excused' => lock' = lock \/ lock \in {Free, Orphan, u},
           ~excused' => ~At(u, "upsert")
    PROVE  Kept(u)
<1> USE DEF settings
<1>1. TypeOK /\ ObjectIsWhole /\ CacheBehindRow BY DEF Inv
<1>2. Forward(u) BY DEF Forward, Own
<1>3. (ObjectIsWhole /\ CacheBehindRow)' BY <1>1 DEF ObjectIsWhole, CacheBehindRow
<1>4. NeverDowngraded /\ DemoLeavesNoTrace BY DEF NeverDowngraded, DemoLeavesNoTrace
<1>5. ReadIsKept'
  <2>1. CASE excused' BY <2>1 DEF ReadIsKept
  <2>2. CASE ~excused' BY <2>2, ReadStays DEF Own
  <2> QED BY <2>1, <2>2
<1> QED BY <1>1, <1>2, <1>3, <1>4, <1>5, StoreKept DEF TypeOK

(* LookUnderLock, whatever let the request past the lock.                    *)
LEMMA LookOwn ==
    ASSUME Inv, NEW u \in Users, turn[u].pc \in {"acquire", "wait"},
           NEW f, f = [turn EXCEPT ![u].pc = "get", ![u].at = "locked"],
           turn' = f \/ turn' = [f EXCEPT ![u].holds = TRUE],
           UNCHANGED settings, ~excused' => lock' = u
    PROVE  Own(u)
<1>1. TurnsTyped BY DEF Inv, TypeOK, TurnsTyped
<1>2. PICK s \in Turns : s = turn[u] BY <1>1 DEF TurnsTyped
<1>3. /\ [s EXCEPT !.pc = "get", !.at = "locked"] \in Turns
      /\ [s EXCEPT !.pc = "get", !.at = "locked", !.holds = TRUE] \in Turns
  BY ZenonT(30) DEF Turns, Chain
<1>4. \/ turn' = [turn EXCEPT ![u] = [s EXCEPT !.pc = "get", !.at = "locked"]]
      \/ turn' = [turn EXCEPT ![u] = [s EXCEPT !.pc = "get", !.at = "locked", !.holds = TRUE]]
  BY <1>1, <1>2, Zenon DEF TurnsTyped
<1>5. TurnsTyped' BY <1>1, <1>3, <1>4, Moved
<1>6. Others(u) /\ SameRender(u) /\ turn'[u].pc = "get" /\ turn'[u].at = "locked"
  BY <1>1, SMTT(30) DEF TurnsTyped, Turns, Others, SameRender
<1>7. turn[u].pc \in Chain /\ turn[u].pc \in Storing BY DEF Chain, Storing
<1>8. ChainHolds(u) BY DEF Inv, UserInv
<1>9. ~localOnly' /\ turn'[u].memo[turn'[u].want] = NoAttachment
  BY <1>6, <1>7, <1>8 DEF ChainHolds, SameRender, settings
<1>10. UserInv(u)' BY <1>6, <1>9, LooksHold
<1> QED BY <1>5, <1>6, <1>10, SameRenderKeeps DEF Own

LEMMA AcquireKeeps ==
    ASSUME Inv, NEW u \in Users, Acquire(u) \/ AcquireFails(u) \/ WaitExpires(u)
    PROVE  Kept(u)
<1>1. TypeOK /\ TurnsTyped BY DEF Inv, TypeOK, TurnsTyped
<1>2. turn[u].pc \in {"acquire", "wait"} BY DEF Acquire, AcquireFails, WaitExpires, At
<1>3. turn[u].pc \in Chain /\ turn[u].pc \in Storing BY <1>2 DEF Chain, Storing
<1>4. UNCHANGED <<settings, object, owners, row, cached>> /\ reads' = reads
  BY DEF Acquire, AcquireFails, WaitExpires, stores, history
<1>5. localOnly' = localOnly /\ ~localOnly
  BY <1>3, <1>4 DEF Inv, UserInv, ChainHolds, settings
<1>6. PICK f : f = [turn EXCEPT ![u].pc = "get", ![u].at = "locked"] OBVIOUS
<1>7. ~At(u, "upsert") BY <1>2 DEF At
<1>8. CASE Acquire(u) /\ lock = Free
  <2>1. lock' = u /\ turn' = [f EXCEPT ![u].holds = TRUE]
    BY <1>6, <1>8 DEF Acquire, LookUnderLock, Look
  <2>2. Own(u) BY <1>2, <1>4, <1>6, <2>1, LookOwn
  <2>3. faults' = faults /\ excused' = excused BY <1>8 DEF Acquire, history
  <2> QED BY <1>1, <1>4, <1>7, <1>8, <2>1, <2>2, <2>3, LockKept DEF TypeOK
<1>9. CASE Acquire(u) /\ lock # Free
  <2>1. turn' = [turn EXCEPT ![u].pc = "wait", ![u].polls = 0] /\ lock' = lock
    BY <1>9 DEF Acquire
  <2>2. PICK s \in Turns : s = turn[u] BY <1>1 DEF TurnsTyped
  <2>3. 0 \in 0..MaxPolls BY PerceptionAssumption
  <2>4. [s EXCEPT !.pc = "wait", !.polls = 0] \in Turns BY <2>3 DEF Turns, Chain
  <2>5. turn' = [turn EXCEPT ![u] = [s EXCEPT !.pc = "wait", !.polls = 0]]
    BY <1>1, <2>1, <2>2, Zenon DEF TurnsTyped
  <2>6. TurnsTyped' BY <1>1, <2>4, <2>5, Moved
  <2>7. Others(u) /\ SameRender(u) /\ turn'[u].pc = "wait"
    BY <1>1, <2>1 DEF TurnsTyped, Turns, Others, SameRender
  <2>8. Own(u) BY <1>3, <1>5, <2>6, <2>7, SameRenderKeeps, PlainHolds DEF Own
  <2>9. faults' = faults /\ excused' = excused BY <1>9 DEF Acquire, history
  <2> QED BY <1>1, <1>4, <1>7, <2>1, <2>8, <2>9, LockKept DEF TypeOK
<1>10. CASE AcquireFails(u) \/ WaitExpires(u)
  <2>1. turn' = f /\ excused' = TRUE
    BY <1>6, <1>10 DEF AcquireFails, WaitExpires, LookUnderLock, Look
  <2>2. Own(u) BY <1>2, <1>4, <1>6, <2>1, LookOwn
  <2>3. lock' \in {lock, Orphan} BY <1>10 DEF AcquireFails, WaitExpires, stores
  <2>4. faults' \in 0..MaxFaults
    BY <1>1, <1>10, FaultCounts DEF AcquireFails, WaitExpires, TypeOK
  <2> QED BY <1>1, <1>4, <2>1, <2>2, <2>3, <2>4, LockKept DEF TypeOK
<1> QED BY <1>8, <1>9, <1>10

LEMMA ReleaseKeeps ==
    ASSUME Inv, NEW u \in Users, DeleteLock(u) \/ UnlockFails(u) \/ Dies(u)
    PROVE  Kept(u)
<1>1. TypeOK BY DEF Inv
<1>2. UNCHANGED <<settings, object, owners, row, cached>> /\ reads' = reads
  BY DEF DeleteLock, UnlockFails, Dies
<1>3. CASE DeleteLock(u)
  <2>1. turn[u].pc = "delete" BY <1>3 DEF DeleteLock, At
  <2>2. Own(u) BY <1>2, <1>3, <2>1, AfterTier2Own DEF DeleteLock
  <2>3. lock' = Free /\ faults' = faults BY <1>3 DEF DeleteLock
  <2>4. /\ excused' \in BOOLEAN /\ (excused => excused')
        /\ (~excused' => lock \in {Free, Orphan, u})
    BY <1>3, Zenon DEF DeleteLock
  <2> QED BY <1>1, <1>2, <2>1, <2>2, <2>3, <2>4, LockKept DEF TypeOK, At
<1>4. CASE UnlockFails(u)
  <2>1. turn[u].pc \in {"unlock", "delete"} BY <1>4 DEF UnlockFails
  <2>2. Own(u) BY <1>2, <1>4, <2>1, AfterTier2Own DEF UnlockFails
  <2>3. excused' = excused /\ lock' = IF lock = u THEN Orphan ELSE lock
    BY <1>4 DEF UnlockFails
  <2>4. faults' \in 0..MaxFaults BY <1>4, FaultCounts DEF UnlockFails
  <2> QED BY <1>1, <1>2, <2>1, <2>2, <2>3, <2>4, LockKept DEF TypeOK, At
<1>5. CASE Dies(u)
  <2>1. Own(u) BY <1>5, RestOwn DEF Dies
  <2>2. /\ excused' \in BOOLEAN /\ (excused => excused')
        /\ (~excused' => ~At(u, "upsert"))
    BY <1>5, Zenon DEF Dies
  <2>3. lock' = lock \/ (lock = u /\ lock' \in {Free, Orphan}) BY <1>5 DEF Dies
  <2>4. faults' \in 0..MaxFaults BY <1>5, FaultCounts DEF Dies
  <2> QED BY <1>1, <1>2, <2>1, <2>2, <2>3, <2>4, LockKept DEF TypeOK
<1> QED BY <1>3, <1>4, <1>5

(* The one step that makes a reading.                                        *)
LEMMA CallReadsKeeps ==
    ASSUME Inv, NEW u \in Users, CallReads(u)
    PROVE  Kept(u)
<1> USE DEF settings, stores
<1>1. TypeOK /\ TurnsTyped /\ ObjectIsWhole /\ CacheBehindRow BY DEF Inv, TypeOK, TurnsTyped
<1>2. UserInv(u) BY DEF Inv
<1>3. turn[u].pc = "call" /\ At(u, "call") BY DEF CallReads, At
<1>4. turn[u].pc \in Chain /\ turn[u].pc \in Storing BY <1>3 DEF Chain, Storing
<1>5. /\ UNCHANGED <<doc, localOnly, object, owners, row, cached, lock, faults, excused>>
      /\ reads' = IF excused THEN reads ELSE reads + 1
  BY DEF CallReads
<1>6. PICK reply \in Replies :
          turn' = [turn EXCEPT ![u].pc = "upsert", ![u].at = "llm",
                               ![u].got = Reading("llm", Grade(reply))]
  BY DEF CallReads
<1>7. PICK r \in Readings : r = Reading("llm", Grade(reply)) /\ r.tier = "llm"
  <2>1. Grade(reply) \in {"high", "medium", "low"} BY DEF Grade
  <2>2. Reading("llm", Grade(reply)).tier = "llm" BY DEF Reading
  <2>3. Reading("llm", Grade(reply)) \in Readings BY <2>1 DEF Reading, Readings
  <2> QED BY <2>2, <2>3
<1>8. turn' = [turn EXCEPT ![u].pc = "upsert", ![u].at = "llm", ![u].got = r]
  BY <1>6, <1>7
<1>9. Own(u)
  <2>1. PICK s \in Turns : s = turn[u] BY <1>1 DEF TurnsTyped
  <2>2. [s EXCEPT !.pc = "upsert", !.at = "llm", !.got = r] \in Turns BY DEF Turns, Chain
  <2>3. turn' = [turn EXCEPT ![u] = [s EXCEPT !.pc = "upsert", !.at = "llm", !.got = r]]
    BY <1>1, <1>8, <2>1, Zenon DEF TurnsTyped
  <2>4. TurnsTyped' BY <1>1, <2>2, <2>3, Moved
  <2>5. /\ Others(u) /\ SameRender(u) /\ turn'[u].pc = "upsert" /\ turn'[u].at = "llm"
        /\ turn'[u].got = r
    BY <1>1, <1>8 DEF TurnsTyped, Turns, Others, SameRender
  <2>6. r # NoReading BY <1>7 DEF NoReading
  <2>7. ChainHolds(u)' BY <1>2, <1>4, <1>5, <2>5 DEF UserInv, ChainHolds, SameRender
  <2>8. LockHolds(u)' BY <1>2, <1>3, <1>5, <2>5 DEF UserInv, LockHolds, Critical
  <2>9. UserInv(u)'
    BY <1>7, <2>5, <2>6, <2>7, <2>8
       DEF UserInv, UploadHolds, ReadingHeld, PlaceHolds, At, Uploading
  <2> QED BY <2>4, <2>5, <2>9, SameRenderKeeps DEF Own
<1>10. Forward(u) BY <1>3, <1>5, <1>9 DEF Forward, Own
<1>11. (ObjectIsWhole /\ CacheBehindRow)' BY <1>1, <1>5 DEF ObjectIsWhole, CacheBehindRow
<1>12. NeverDowngraded /\ DemoLeavesNoTrace BY <1>5 DEF NeverDowngraded, DemoLeavesNoTrace
<1>13. reads' \in Nat BY <1>1, <1>5 DEF TypeOK
<1>14. ReadIsKept'
  <2>1. At(u, "upsert")' /\ turn'[u].at = "llm"
    BY <1>1, <1>8 DEF TurnsTyped, Turns, At
  <2>2. ~excused => reads' = 1 BY <1>2, <1>3, <1>5 DEF UserInv, LockHolds
  <2> QED BY <1>5, <2>1, <2>2 DEF ReadIsKept
<1> QED BY <1>1, <1>5, <1>9, <1>10, <1>11, <1>12, <1>13, <1>14, StoreKept DEF TypeOK

-----------------------------------------------------------------------------
(* The steps that are nobody's, and the theorems.                            *)
LEMMA WorldKeeps ==
    ASSUME Inv, LockExpires \/ CacheExpires \/ Redeploy
    PROVE  Inv' /\ turn' = turn /\ NeverDowngraded /\ DemoLeavesNoTrace
<1> USE DEF settings, stores, history
<1>1. TypeOK /\ ObjectIsWhole /\ CacheBehindRow /\ ReadIsKept BY DEF Inv
<1>2. UNCHANGED <<doc, object, owners, row, turn, reads>>
  BY DEF LockExpires, CacheExpires, Redeploy
<1>3. cached' \in {cached, NoReading} BY DEF LockExpires, CacheExpires, Redeploy
<1>4. /\ excused' \in BOOLEAN /\ (excused => excused')
      /\ (~excused' => lock' = lock \/ lock = Orphan)
  <2>1. CASE LockExpires BY <2>1, Zenon DEF LockExpires
  <2>2. CASE CacheExpires \/ Redeploy BY <1>1, <2>2 DEF CacheExpires, Redeploy, TypeOK
  <2> QED BY <2>1, <2>2
<1>5. lock' \in Users \cup {Free, Orphan}
  BY <1>1 DEF LockExpires, CacheExpires, Redeploy, TypeOK
<1>6. faults' \in 0..MaxFaults
  BY <1>1, FaultCounts DEF LockExpires, CacheExpires, Redeploy, TypeOK
<1>7. /\ localOnly' \in BOOLEAN
      /\ localOnly' = localOnly \/ \A u \in Users : At(u, "idle")
  BY <1>1 DEF LockExpires, CacheExpires, Redeploy, TypeOK
<1>8. TypeOK' BY <1>1, <1>2, <1>3, <1>4, <1>5, <1>6, <1>7 DEF TypeOK
<1>9. ObjectIsWhole' BY <1>1, <1>2 DEF ObjectIsWhole
<1>10. CacheBehindRow' BY <1>1, <1>2, <1>3 DEF CacheBehindRow, NoReading
<1>11. ReadIsKept' BY <1>1, <1>2, <1>4 DEF ReadIsKept, At
<1>12. ASSUME NEW u \in Users PROVE UserInv(u)'
  <2>1. UserInv(u) BY DEF Inv
  <2>2. UploadHolds(u)' /\ ReadingHeld(u)' /\ PlaceHolds(u)'
    BY <1>2, <2>1 DEF UserInv, UploadHolds, ReadingHeld, PlaceHolds, At
  <2>3. ChainHolds(u)'
    BY <1>2, <1>7, <2>1 DEF UserInv, ChainHolds, At, Storing, Chain
  <2>4. u # Orphan BY PerceptionAssumption DEF Orphan
  <2>5. LockHolds(u)' BY <1>2, <1>4, <2>1, <2>4 DEF UserInv, LockHolds, Critical
  <2> QED BY <2>2, <2>3, <2>5 DEF UserInv
<1>13. NeverDowngraded /\ DemoLeavesNoTrace
  BY <1>2, <1>3 DEF NeverDowngraded, DemoLeavesNoTrace
<1> QED BY <1>2, <1>8, <1>9, <1>10, <1>11, <1>12, <1>13 DEF Inv

LEMMA UserStepKeeps ==
    ASSUME Inv, NEW u \in Users, Upload(u) \/ Ask(u) \/ Step(u) \/ Dies(u)
    PROVE  Kept(u)
BY UploadKeeps, LoadKeeps, TierKeeps, WalkKeeps, BottomKeeps, ObjectKeeps, CopyKeeps,
   UpsertKeeps, AcquireKeeps, ReleaseKeeps, CallReadsKeeps DEF Step

LEMMA InitHolds ==
    ASSUME Init
    PROVE  Inv
<1>1. TypeOK
  <2>1. turn \in [Users -> Turns] BY IdleTyped DEF Init
  <2>2. 0 \in 0..FileMaxBytes /\ 0 \in 0..MaxFaults BY PerceptionAssumption
  <2> QED BY <2>1, <2>2 DEF Init, TypeOK
<1>2. ASSUME NEW u \in Users PROVE UserInv(u)
  <2>1. turn[u].pc = "idle" BY IdleTyped DEF Init
  <2> QED BY <2>1
          DEF UserInv, UploadHolds, ReadingHeld, ChainHolds, LockHolds, PlaceHolds, Critical,
              At, Uploading, Chain, Storing
<1>3. ObjectIsWhole /\ CacheBehindRow /\ ReadIsKept
  BY DEF Init, ObjectIsWhole, CacheBehindRow, ReadIsKept, NoReading
<1> QED BY <1>1, <1>2, <1>3 DEF Inv

(* One step keeps the invariant and every reading made so far.               *)
LEMMA NextKeeps ==
    ASSUME Inv, Next
    PROVE  Inv' /\ NeverDowngraded /\ DemoLeavesNoTrace /\ MemoIsKept
<1>1. CASE LockExpires \/ CacheExpires \/ Redeploy
  BY <1>1, WorldKeeps DEF MemoIsKept
<1>2. ASSUME NEW u \in Users, Upload(u) \/ Ask(u) \/ Step(u) \/ Dies(u)
      PROVE  Inv' /\ NeverDowngraded /\ DemoLeavesNoTrace /\ MemoIsKept
  <2>1. Kept(u) BY <1>2, UserStepKeeps
  <2>2. MemoIsKept
    <3> SUFFICES ASSUME NEW v \in Users, NEW n \in BOOLEAN,
                        turn[v].memo[n] # NoAttachment, turn'[v].pc # "idle"
                 PROVE  turn'[v].memo[n] = turn[v].memo[n]
      BY DEF MemoIsKept
    <3>1. CASE v = u BY <2>1, <3>1 DEF Kept, MemoKept
    <3>2. CASE v # u BY <2>1, <3>2 DEF Kept, Others
    <3> QED BY <3>1, <3>2
  <2> QED BY <2>1, <2>2 DEF Kept
<1> QED BY <1>1, <1>2 DEF Next

LEMMA InvStutters ==
    ASSUME Inv, UNCHANGED vars
    PROVE  Inv'
BY DEF vars, Inv, TypeOK, ObjectIsWhole, CacheBehindRow, ReadIsKept, UserInv, UploadHolds,
       ReadingHeld, ChainHolds, LockHolds, PlaceHolds, Critical, At

LEMMA Invariance == Spec => []Inv
<1>1. Init => Inv BY InitHolds
<1>2. Inv /\ [Next]_vars => Inv' BY NextKeeps, InvStutters
<1> QED BY <1>1, <1>2, PTL DEF Spec

(* Whatever fails between the object store, Postgres and Redis, and however  *)
(* the steps of uploads and turns interleave, a row in files names a whole   *)
(* object and extract:{hash} never knows more than file_extractions: put     *)
(* before commit in api/v1/files.py, row before Redis in persist and in the  *)
(* write-back of load_cached.                                                *)
THEOREM StoresStayInAgreement == Spec => []StoresAgree
<1>1. Inv => StoresAgree BY DEF Inv, StoresAgree, OwnedIsStored, ObjectIsWhole
<1> QED BY <1>1, Invariance, PTL

(* extract_with_llm's lock and the look under it make one reading per hash,  *)
(* for any number of users and candidates, until a lock expires under its    *)
(* holder, a wait runs out or a reading is lost on its way to Postgres.      *)
THEOREM OneReadingPerHash == Spec => []ReadOnce
<1>1. Inv => ReadOnce BY DEF Inv, ReadIsKept, ReadOnce, TypeOK
<1> QED BY <1>1, Invariance, PTL

(* The upsert's guard, StoresLocal and the memo of _resolve_one: no step of  *)
(* anyone replaces a model's row, leaves a trace of a demonstration or gives *)
(* a later candidate of a turn another reading than the first.               *)
THEOREM ReadingsStay == Spec => ReadingsAreKept
<1>1. Inv /\ [Next]_vars => [NeverDowngraded /\ DemoLeavesNoTrace /\ MemoIsKept]_vars
  BY NextKeeps
<1> QED BY <1>1, Invariance, PTL DEF Spec, ReadingsAreKept
=============================================================================
