---------------------------- MODULE QuotaTracker ----------------------------
(***************************************************************************)
(* Reserve, commit and release: quota/tracker.py, quota/lanes.py,          *)
(* quota/allocations.py and the three Lua scripts, for one provider model. *)
(*                                                                         *)
(* A slot is one attempt under way (each carries a fresh reservation id).  *)
(* A Lua script is atomic, so it is one step.  apply_hint is not a script: *)
(* its GET, TTL and SET are three steps.  Redis drops a counter when its   *)
(* window ends and a reservation hash when RESERVATION_TTL_S has passed;   *)
(* how these two clocks relate is left open, so either may end first.      *)
(***************************************************************************)
EXTENDS Integers, FiniteSets

CONSTANTS
    Slots,        \* attempts that may be under way at once
    Published,    \* limits.yaml: declared window -> published limit
    HeadroomPct,  \* QUOTA_HEADROOM_FRACTION, in percent
    ReservedPct,  \* reserved_fraction of the model, in percent
    Cap,          \* a user's personal daily cap on the shared pool
    MaxTokens,    \* bound on an attempt's estimate and on its real spend
    HintsArrive   \* does the provider report what remains?

ASSUME ConstantsAssumption ==
    /\ DOMAIN Published \subseteq {"rpm", "tpm", "rpd"}
    /\ \A w \in DOMAIN Published : Published[w] \in Nat
    /\ HeadroomPct \in 0..100 /\ ReservedPct \in 0..100
    /\ Cap \in Nat /\ MaxTokens \in Nat
    /\ HintsArrive \in BOOLEAN

VARIABLES
    counter,   \* counter[k]: the value of a counter key, or Absent
    hasTtl,    \* hasTtl[k]: an existing counter carries a TTL
    pc,        \* pc[s]: what slot s does next
    res,       \* res[s]: its Reservation, and whether the hash still exists
    hint,      \* hint[s]: the counter value a hint asks for, and how to SET it
    inWindow,  \* inWindow[s]: counters not rolled over since s reserved
    spend,     \* spend[k]: what k's attempts cost at the provider, 0 once it drifts
    drift      \* drift[k]: why k may count less than that

vars == <<counter, hasTtl, pc, res, hint, inWindow, spend, drift>>
history == <<inWindow, spend, drift>>

-----------------------------------------------------------------------------
(* Keys and grants.  lane is q:...:lane:perception and alloc is the user's   *)
(* personal counter; the others are named by their window.                   *)

Absent == -1
Causes == {"straddle", "untold", "late", "lost", "cancelled", "hint"}
Tokens == 0..MaxTokens
Lanes == {"answer", "shared", "perception"}
Keys == {"rpm", "tpm", "rpd", "lane", "alloc"}

CostIsTokens(k) == k = "tpm"
Converging(k) == k \in {"rpd", "lane"}     \* _CONVERGING_RESETS

AtLeastOne(n) == IF n < 1 THEN 1 ELSE n

(* The answer lane's share of a published limit.                             *)
EffectiveLimit(published) ==
    AtLeastOne((published * (100 - HeadroomPct) * (100 - ReservedPct)) \div 10000)

(* Slip: the perception lane held to the published limit.                    *)
LaneLimitUnsplit(published) == AtLeastOne(published)

(* perception_budget, then the headroom.                                     *)
LaneLimit(published) ==
    AtLeastOne((((published * ReservedPct) \div 100) * (100 - HeadroomPct)) \div 100)

FullLimit(published) == AtLeastOne((published * (100 - HeadroomPct)) \div 100)

(* The keys a reservation in lane l charges.                                 *)
Grants(l) ==
    CASE l = "answer" -> DOMAIN Published
      [] l = "shared" -> DOMAIN Published \cup {"alloc"}
      [] l = "perception" ->
            (DOMAIN Published \ {"rpd"})
                \cup (IF "rpd" \in DOMAIN Published THEN {"lane"} ELSE {})

Limit(l, k) ==
    CASE k = "alloc" -> Cap
      [] k = "lane" -> LaneLimit(Published["rpd"])
      [] OTHER -> IF l = "perception" THEN FullLimit(Published[k])
                  ELSE EffectiveLimit(Published[k])

Used(k) == IF counter[k] = Absent THEN 0 ELSE counter[k]
Cost(k, tokens) == IF CostIsTokens(k) THEN tokens ELSE 1

NoReservation == [lane |-> "answer", tokens |-> 0, live |-> FALSE]
NoHint == [key |-> "rpm", used |-> 0, keepTtl |-> FALSE]

Init ==
    /\ counter = [k \in Keys |-> Absent]
    /\ hasTtl = [k \in Keys |-> FALSE]
    /\ pc = [s \in Slots |-> "idle"]
    /\ res = [s \in Slots |-> NoReservation]
    /\ hint = [s \in Slots |-> NoHint]
    /\ inWindow = [s \in Slots |-> {}]
    /\ spend = [k \in Keys |-> 0]
    /\ drift = [k \in Keys |-> {}]

-----------------------------------------------------------------------------
(* reserve.lua: check every window, then increment every window.             *)

(* Slip: the boundary off by one.                                            *)
AffordableOffByOne(l, k, tokens) == Used(k) <= Limit(l, k)

Affordable(l, k, tokens) == Used(k) + Cost(k, tokens) <= Limit(l, k)

Charged(l, tokens) ==
    counter' = [k \in Keys |-> IF k \in Grants(l) THEN Used(k) + Cost(k, tokens)
                               ELSE counter[k]]

(* Slip: the EXPIRE forgotten.                                               *)
TakeForever(s, l, tokens) ==
    /\ \A k \in Grants(l) : Affordable(l, k, tokens)
    /\ Charged(l, tokens)
    /\ UNCHANGED hasTtl

(* A counter created by the INCRBY, or found without a TTL, is given one.    *)
Take(s, l, tokens) ==
    /\ \A k \in Grants(l) : Affordable(l, k, tokens)
    /\ Charged(l, tokens)
    /\ hasTtl' = [k \in Keys |-> hasTtl[k] \/ k \in Grants(l)]

Reserve(s, l, tokens) ==
    /\ pc[s] = "idle"
    /\ Take(s, l, tokens)
    /\ pc' = [pc EXCEPT ![s] = "attempt"]
    /\ res' = [res EXCEPT ![s] = [lane |-> l, tokens |-> tokens, live |-> TRUE]]
    /\ inWindow' = [inWindow EXCEPT ![s] = Grants(l)]
    /\ spend' = [k \in Keys |-> IF k \in Grants(l) /\ drift[k] = {}
                                THEN spend[k] + Cost(k, tokens) ELSE spend[k]]
    /\ UNCHANGED <<hint, drift>>

(* A window said no: the script stops at the check and writes nothing.       *)
Refused(s, l, tokens) ==
    /\ pc[s] = "idle"
    /\ \E k \in Grants(l) : ~Affordable(l, k, tokens)
    /\ UNCHANGED vars

(* The script ran and its answer was lost.  D15: the candidate is refused,   *)
(* and the budget stays taken until the windows end.                         *)
ReserveUnanswered(s, l, tokens) ==
    /\ pc[s] = "idle"
    /\ Take(s, l, tokens)
    /\ UNCHANGED <<pc, res, hint, inWindow, spend, drift>>

-----------------------------------------------------------------------------
(* Settlement.  A token window is corrected by actual - reserved; a request  *)
(* window is never handed back by a commit.  A refund touches only a counter *)
(* that exists, and stops at zero.                                           *)

AtLeastZero(n) == IF n < 0 THEN 0 ELSE n


(* Slip: only refunds applied, an attempt above its estimate forgotten.      *)
SettledRefundsOnly(k, delta) ==
    IF delta < 0 /\ counter[k] # Absent THEN AtLeastZero(counter[k] + delta)
    ELSE counter[k]

Settled(k, delta) ==
    IF delta > 0 THEN Used(k) + delta
    ELSE IF delta < 0 /\ counter[k] # Absent THEN AtLeastZero(counter[k] + delta)
    ELSE counter[k]

(* The history: s's attempt has changed its real cost by real[k] in every    *)
(* window it still is in, and k counts too little for causes[k], if any.     *)
Reckon(s, real, causes) ==
    /\ drift' = [k \in Keys |-> drift[k] \cup causes[k]]
    /\ spend' = [k \in Keys |->
          IF drift'[k] # {} THEN 0
          ELSE IF k \in inWindow[s] THEN spend[k] + real[k] ELSE spend[k]]

(* Apply told[k] to each key of s's reservation, in whatever window the key  *)
(* holds by now, of an attempt that changed its cost by real[k].             *)
Settle(s, told, real) ==
    /\ counter' = [k \in Keys |-> Settled(k, told[k])]
    /\ hasTtl' = [k \in Keys |-> hasTtl[k] \/ told[k] > 0]
    /\ Reckon(s, real, [k \in Keys |->
          {c \in {"untold"} : k \in inWindow[s] /\ real[k] > told[k]}
          \cup {c \in {"straddle"} :
                    k \notin inWindow[s] /\ told[k] < 0 /\ counter[k] > 0}])

Forget(s, label) ==
    /\ pc' = [pc EXCEPT ![s] = label]
    /\ res' = [res EXCEPT ![s] = NoReservation]
    /\ inWindow' = [inWindow EXCEPT ![s] = {}]

(* A response that carries no rate-limit headers ends the attempt here.      *)
AfterCommit == IF HintsArrive THEN "hint" ELSE "idle"

CommitDelta(s, actual) ==
    [k \in Keys |-> IF k \in Grants(res[s].lane) /\ CostIsTokens(k)
                    THEN actual - res[s].tokens ELSE 0]

ReleaseDelta(s) ==
    [k \in Keys |-> IF k \in Grants(res[s].lane) THEN -Cost(k, res[s].tokens) ELSE 0]

(* commit: after every attempt that reached the provider.  told is what the  *)
(* router knows of its tokens: the usage block, an estimate without one, the *)
(* delivered text alone for a stream that failed, nothing for a call that    *)
(* did.                                                                      *)
Commit(s, told, actual) ==
    /\ pc[s] = "attempt" /\ res[s].live
    /\ Settle(s, CommitDelta(s, told), CommitDelta(s, actual))
    /\ Forget(s, AfterCommit)
    /\ UNCHANGED hint

(* Nothing is corrected: the estimate stays counted, whatever was spent.     *)
Uncorrected(s, actual, cause, label) ==
    /\ pc[s] = "attempt"
    /\ Reckon(s, CommitDelta(s, actual), [k \in Keys |->
          {c \in {cause} : k \in inWindow[s] /\ CommitDelta(s, actual)[k] > 0}])
    /\ Forget(s, label)
    /\ UNCHANGED <<counter, hasTtl, hint>>

(* The hash was gone: the script returns {0} (quota.reservation_expired).    *)
CommitExpired(s, actual) == ~res[s].live /\ Uncorrected(s, actual, "late", AfterCommit)

(* Redis did not take the settlement, and _run_settlement swallows that.     *)
CommitLost(s, actual) == Uncorrected(s, actual, "lost", AfterCommit)

(* release: only the perception lane, for an attempt that never left.        *)
Release(s) ==
    /\ pc[s] = "attempt" /\ res[s].live /\ res[s].lane = "perception"
    /\ Settle(s, ReleaseDelta(s), ReleaseDelta(s))
    /\ Forget(s, "idle")
    /\ UNCHANGED hint

-----------------------------------------------------------------------------
(* apply_hint: the provider says how much of a window remains.               *)

HintedUse(k, remaining) ==
    LET limit == EffectiveLimit(Published[k])
    IN  IF limit - remaining < 0 THEN 0 ELSE limit - remaining

(* GET, and drop a hint that would not raise the counter.                    *)
HintGet(s, k, remaining) ==
    /\ pc[s] = "hint"
    /\ LET used == HintedUse(k, remaining) IN
       \/ used <= Used(k) /\ pc' = [pc EXCEPT ![s] = "idle"] /\ UNCHANGED hint
       \/ /\ used > Used(k)
          /\ hint' = [hint EXCEPT ![s] = [key |-> k, used |-> used, keepTtl |-> FALSE]]
          /\ pc' = [pc EXCEPT ![s] = IF Converging(k) THEN "set" ELSE "ttl"]
    /\ UNCHANGED <<counter, hasTtl, res, history>>

(* TTL of a rolling counter: keep it when the key is live.                   *)
HintTtl(s) ==
    /\ pc[s] = "ttl"
    /\ hint' = [hint EXCEPT ![s].keepTtl =
                    LET k == hint[s].key IN counter[k] # Absent /\ hasTtl[k]]
    /\ pc' = [pc EXCEPT ![s] = "set"]
    /\ UNCHANGED <<counter, hasTtl, res, history>>

HintSet(s) ==
    /\ pc[s] = "set"
    /\ LET k == hint[s].key IN
       /\ counter' = [counter EXCEPT ![k] = hint[s].used]
       /\ hasTtl' = [hasTtl EXCEPT ![k] = @ \/ ~hint[s].keepTtl]
    /\ pc' = [pc EXCEPT ![s] = "idle"]
    /\ hint' = [hint EXCEPT ![s] = NoHint]
    /\ Reckon(s, [k \in Keys |-> 0], [k \in Keys |->
          {c \in {"hint"} : /\ k = hint[s].key
                            /\ \/ hint[s].used < Used(k)
                               \/ hint[s].keepTtl /\ counter[k] = Absent}])
    /\ UNCHANGED <<res, inWindow>>

(* No hint in the response, or the hint was lost on the way.                 *)
NoHintApplied(s) ==
    /\ pc[s] \in {"hint", "ttl", "set"}
    /\ pc' = [pc EXCEPT ![s] = "idle"]
    /\ hint' = [hint EXCEPT ![s] = NoHint]
    /\ UNCHANGED <<counter, hasTtl, res, history>>

-----------------------------------------------------------------------------
(* Redis expiry, and cancelled requests.                                     *)

WindowEnds(k) ==
    /\ counter[k] # Absent /\ hasTtl[k]
    /\ counter' = [counter EXCEPT ![k] = Absent]
    /\ hasTtl' = [hasTtl EXCEPT ![k] = FALSE]
    /\ inWindow' = [s \in Slots |-> inWindow[s] \ {k}]
    /\ spend' = [spend EXCEPT ![k] = 0]
    /\ drift' = [drift EXCEPT ![k] = {}]
    /\ UNCHANGED <<pc, res, hint>>

ReservationExpires(s) ==
    /\ res[s].live
    /\ res' = [res EXCEPT ![s].live = FALSE]
    /\ UNCHANGED <<counter, hasTtl, pc, hint, history>>

(* Cancelled between reserve and commit, before the call or in mid-answer:   *)
(* nobody settles, whatever the provider has charged by then.                *)
Cancel(s, actual) == Uncorrected(s, actual, "cancelled", "idle")

Step(s) ==
    \/ \E l \in Lanes, t \in Tokens \ {0} :
          Reserve(s, l, t) \/ ReserveUnanswered(s, l, t)
    \/ \E t \in Tokens : CommitExpired(s, t) \/ CommitLost(s, t) \/ Cancel(s, t)
    \/ \E told, t \in Tokens : Commit(s, told, t)
    \/ Release(s)
    \/ \E k \in DOMAIN Published, n \in Tokens : HintGet(s, k, n)
    \/ HintTtl(s) \/ HintSet(s) \/ NoHintApplied(s)
    \/ ReservationExpires(s)

Next ==
    \/ \E s \in Slots : Step(s)
    \/ \E s \in Slots, l \in Lanes, t \in Tokens \ {0} : Refused(s, l, t)
    \/ \E k \in Keys : WindowEnds(k)

Spec == Init /\ [][Next]_vars


-----------------------------------------------------------------------------
(* Every counter is a non-negative number, whatever refunds, clamps and      *)
(* hints interleave, and every reservation is one the scripts could record.  *)
TypeOK ==
    /\ counter \in [Keys -> Nat \cup {Absent}]
    /\ hasTtl \in [Keys -> BOOLEAN]
    /\ pc \in [Slots -> {"idle", "attempt", "hint", "ttl", "set"}]
    /\ res \in [Slots -> [lane : Lanes, tokens : Tokens, live : BOOLEAN]]
    /\ hint \in [Slots -> [key : Keys, used : Nat, keepTtl : BOOLEAN]]
    /\ inWindow \in [Slots -> SUBSET Keys]
    /\ spend \in [Keys -> Int]
    /\ drift \in [Keys -> SUBSET Causes]

(* Whatever callers race, a window never counts less than its attempts have  *)
(* cost at the provider, but for the six ways in which a settlement cannot   *)
(* know better: one refunded into the next window, one that came late, was   *)
(* lost or never came, one told less than was charged, and a hint            *)
(* (reserve.lua, commit.lua, release.lua, apply_hint).                       *)
CountsWhatIsSpent == \A k \in Keys : drift[k] = {} => Used(k) >= spend[k]

(* The largest limit any lane has on k.                                      *)
Ceiling(k) ==
    CASE k = "lane" -> LaneLimit(Published["rpd"])
      [] k = "alloc" -> Cap
      [] k = "rpd" -> EffectiveLimit(Published["rpd"])
      [] OTHER -> FullLimit(Published[k])

RequestKeys == {k \in UNION {Grants(l) : l \in Lanes} : ~CostIsTokens(k)}

(* However many callers race, the requests granted in one window of a        *)
(* request counter never exceed the largest limit any lane has on it.        *)
GrantsWithinLimit ==
    \A k \in RequestKeys : drift[k] = {} => spend[k] <= Ceiling(k)

(* The two lanes' daily budgets never add up to more than the provider's     *)
(* published limit, once there is something to split: the fence of D8        *)
(* (_effective_limit, perception_budget).                                    *)
LanesShareTheDay ==
    (/\ "rpd" \in DOMAIN Published /\ Published["rpd"] >= 2
     /\ ReservedPct \in 1..99 /\ drift["rpd"] = {} /\ drift["lane"] = {})
        => spend["rpd"] + spend["lane"] <= Published["rpd"]

(* Every counter that exists will expire, or a used-up window would refuse   *)
(* for good, the permanent false 429 of reserve.lua's trap 1; unless a hint  *)
(* was written over a window that had just ended.                            *)
CountersExpire ==
    \A k \in Keys : counter[k] # Absent => hasTtl[k] \/ "hint" \in drift[k]

(* Whatever reserves, settlements, refunds, clamps and hints interleave, a   *)
(* counter is never negative, and one that exists will expire (reserve.lua,  *)
(* commit.lua, release.lua, _SUB_IF_PRESENT's clamp).                        *)
CountersAreSound == TypeOK /\ CountersExpire

=============================================================================
