-------------------------------- MODULE Gate --------------------------------
(***************************************************************************)
(* What stands before every endpoint that costs something: get_principal   *)
(* (auth/dependency.py), by a session token through JwksCache or by a      *)
(* gateway API key, and then RateLimiter of deps.py, the two-bucket        *)
(* sliding window over rl:{user_id}:{window}:{window_start} in Redis.      *)
(*                                                                         *)
(* All requests are one user's, whose budget they share.  Of each window   *)
(* the buckets are kept by how long ago they opened: 0 is the one the      *)
(* clock is in, 1 the one before, 2 the one before that, which only a      *)
(* request that began before the boundary still reads.  A pipeline may be  *)
(* cut anywhere and sent again (the client's own retries): that is a fault *)
(* of the model, and MaxFaults bounds how many there are.                  *)
(***************************************************************************)
EXTENDS JwksCache, FiniteSetsExt, SequencesExt

CONSTANTS
    Methods,    \* how requests may authenticate: "session", "api_key"
    Checks,     \* the windows a request is counted into, in order
    Width,      \* RATE_LIMIT_WINDOW_S
    Limit,      \* the tier's limits
    MaxFaults,  \* bound on cut and repeated pipelines
    Unlucky     \* the requests it happens to

Windows == ToSet(Checks)

ASSUME GateAssumption ==
    /\ Methods \subseteq {"session", "api_key"}
    /\ Checks \in Seq(Windows) /\ Checks # <<>>
    /\ \A i, j \in DOMAIN Checks : Checks[i] = Checks[j] => i = j
    /\ \E w \in Windows : \A v \in Windows : Width[v] <= Width[w]
    /\ \A w \in Windows :
          /\ Width[w] \in Nat \ {0} /\ Limit[w] \in Nat \ {0}
          /\ \A v \in Windows :
                Width[w] % Width[v] = 0 \/ Width[v] % Width[w] = 0
    /\ MaxFaults \in Nat /\ Unlucky \subseteq Requests

VARIABLES
    method,   \* how requests authenticate in this deployment
    limited,  \* RATE_LIMIT_ENABLED
    clock,    \* the time, up to the widest window
    count,    \* the counters in Redis, by window and bucket
    began,    \* the clock when a request read it
    late,     \* the requests the clock has moved on since
    counted,  \* what a request read: its own bucket and the one before it
    faults,   \* faults so far
    granted,  \* history: requests a bucket admitted
    twice     \* history: a refund was applied twice

limitVars == <<clock, count, began, late, counted, faults, granted, twice>>
deployment == <<method, limited>>
vars == <<jwksVars, limitVars, deployment>>

Nothing(buckets) == [w \in Windows |-> [b \in buckets |-> 0]]
Widest == Max({Width[w] : w \in Windows})

Init ==
    /\ JwksInit
    /\ method \in Methods
    /\ limited = (method = "api_key")
    /\ clock = 0 /\ count = Nothing(0..2) /\ granted = Nothing(0..1)
    /\ began = [r \in Requests |-> 0] /\ late = {}
    /\ counted = [r \in Requests |-> <<>>]
    /\ faults = 0 /\ twice = FALSE

-----------------------------------------------------------------------------
(* The arithmetic of the window. *)

(* The time since the bucket opened in which request r read the clock. *)
Elapsed(r, w) == began[r] % Width[w]

(* How long ago the bucket opened that r is counted into. *)
Own(r, w) ==
    IF r \in late /\ (began[r] + 1) % Width[w] = 0 THEN 1 ELSE 0

(* Slip: a new window starts from nothing. *)
SlidingCountFixed(w, prev, cur, elapsed) == cur * Width[w]

(* sliding_count, in units of one width: what is left of the last window,    *)
(* and all of this one.                                                      *)
SlidingCount(w, prev, cur, elapsed) ==
    prev * (Width[w] - elapsed) + cur * Width[w]

(* Slip: the last request of the allowance is refused. *)
FitsBelow(w, prev, cur, elapsed) ==
    SlidingCount(w, prev, cur, elapsed) < Limit[w] * Width[w]

(* A window that is not over. *)
Fits(w, prev, cur, elapsed) ==
    SlidingCount(w, prev, cur, elapsed) <= Limit[w] * Width[w]

CeilDiv(a, b) == (a + b - 1) \div b

(* Slip: the retry's own request is forgotten. *)
RetryAfterForgetful(w, prev, cur, elapsed) ==
    LET carried == cur - 1
        wait == IF prev > 0 /\ cur <= Limit[w]
                THEN CeilDiv((prev + cur - Limit[w] - 1) * Width[w], prev)
                ELSE Width[w] + CeilDiv((carried - Limit[w]) * Width[w],
                                        carried)
    IN  Max({1, wait - elapsed})

(* _retry_after_s: when one request more would fit.  Either the last window  *)
(* wears off in time, or this one must become the last and wear off itself.  *)
RetryAfter(w, prev, cur, elapsed) ==
    LET carried == cur - 1
        wait == IF prev > 0 /\ cur <= Limit[w]
                THEN CeilDiv((prev + cur - Limit[w]) * Width[w], prev)
                ELSE Width[w] + CeilDiv((carried - (Limit[w] - 1)) * Width[w],
                                        carried)
    IN  Max({1, wait - elapsed})

-----------------------------------------------------------------------------
(* The limiter. *)

Move(r, to) == place' = [place EXCEPT ![r] = to]
jwksRest == <<kid, keys, fetched, attempt, queue, renewed, published, up,
              sent, failed>>


ArriveByToken(r, k) ==
    /\ method = "session"
    /\ Arrive(r, k)
    /\ UNCHANGED <<limitVars, deployment>>

(* enforce_rate_limit: no limiter, no count; otherwise the clock is read.    *)
Enforce(r) ==
    /\ IF limited
       THEN /\ Move(r, "counting")
            /\ began' = [began EXCEPT ![r] = clock]
            /\ UNCHANGED <<clock, count, late, counted, faults, granted, twice>>
       ELSE Move(r, "idle") /\ UNCHANGED limitVars
    /\ UNCHANGED <<jwksRest, deployment>>

(* The user of a token is stored, and the request goes on. *)
Proceed(r) == place[r] = "authenticated" /\ Enforce(r)

(* An active API key is its owner's; JwksCache is not asked. *)
ArriveByKey(r) ==
    /\ place[r] = "idle" /\ method = "api_key"
    /\ Enforce(r)


(* The next window of the pipeline in _count: INCR of the request's own      *)
(* bucket and GET of the one before it.                                      *)
CountWindow(r) ==
    LET w == Checks[Len(counted[r]) + 1]
        own == Own(r, w)
        n == count[w][own] + 1
    IN  /\ place[r] = "counting"
        /\ count' = [count EXCEPT ![w][own] = n]
        /\ counted' = [counted EXCEPT
                         ![r] = Append(@, [cur |-> n, prev |-> count[w][own + 1]])]
        /\ Move(r, IF Len(counted'[r]) = Len(Checks) THEN "counted"
                   ELSE "counting")
        /\ UNCHANGED <<jwksRest, deployment, clock, began, late, faults,
                       granted, twice>>

(* The windows that are over, in the order they are looked at. *)
Over(r) ==
    {i \in DOMAIN counted[r] :
       ~Fits(Checks[i], counted[r][i].prev, counted[r][i].cur,
             Elapsed(r, Checks[i]))}

(* The request is through, or answered: nothing of it is left. *)
Leave(r) ==
    /\ Move(r, "idle")
    /\ began' = [began EXCEPT ![r] = 0]
    /\ counted' = [counted EXCEPT ![r] = <<>>]
    /\ late' = late \ {r}

(* _raise_if_over finds no window over: the request is let through. *)
Grant(r) ==
    /\ place[r] = "counted" /\ Over(r) = {}
    /\ granted' = [w \in Windows |-> [granted[w] EXCEPT ![Own(r, w)] = @ + 1]]
    /\ Leave(r)
    /\ UNCHANGED <<jwksRest, deployment, clock, count, faults, twice>>

(* Slip: only the window that was over is given back. *)
GiveBackOver(r, times) ==
    count' = [w \in Windows |->
                IF w = Checks[Min(Over(r))]
                THEN [count[w] EXCEPT ![Own(r, w)] = @ - times] ELSE count[w]]


(* _refund: DECR of every bucket the request was counted into. *)
GiveBack(r, times) ==
    count' = [w \in Windows |-> [count[w] EXCEPT ![Own(r, w)] = @ - times]]

(* It finds one: the increments are given back, and the answer is 429. *)
Refuse(r) ==
    /\ place[r] = "counted" /\ Over(r) # {}
    /\ GiveBack(r, 1) /\ Leave(r)
    /\ UNCHANGED <<jwksRest, deployment, clock, faults, granted, twice>>

-----------------------------------------------------------------------------
(* What Redis and the network do to a pipeline. *)

Fault(r) ==
    /\ r \in Unlucky
    /\ faults < MaxFaults /\ faults' = faults + 1

(* The pipeline fails part of the way: what it counted stays, and the        *)
(* request is let through.                                                   *)
CountFails(r) ==
    /\ place[r] \in {"counting", "counted"} /\ Fault(r) /\ Leave(r)
    /\ UNCHANGED <<jwksRest, deployment, clock, count, granted, twice>>

(* The client did not see the reply, and sends all of it again. *)
CountResent(r) ==
    /\ place[r] \in {"counting", "counted"} /\ counted[r] # <<>> /\ Fault(r)
    /\ Move(r, "counting")
    /\ counted' = [counted EXCEPT ![r] = <<>>]
    /\ UNCHANGED <<jwksRest, deployment, clock, count, began, late, granted,
                   twice>>

(* The refund fails, and the failure is swallowed. *)
RefundFails(r) ==
    /\ place[r] = "counted" /\ Over(r) # {} /\ Fault(r) /\ Leave(r)
    /\ UNCHANGED <<jwksRest, deployment, clock, count, granted, twice>>

RefundResent(r) ==
    /\ place[r] = "counted" /\ Over(r) # {} /\ Fault(r)
    /\ GiveBack(r, 2) /\ Leave(r) /\ twice' = TRUE
    /\ UNCHANGED <<jwksRest, deployment, clock, granted>>

InLimiter(r) == place[r] \in {"counting", "counted"}

(* One unit of time.  The timeouts of the Redis client (5 s, cache/client.py)*)
(* end a request's dealings with the limiter before a second unit passes.    *)
Tick ==
    LET now == clock + 1
        rolled(w) == limited /\ now % Width[w] = 0
        shift(f) == [w \in Windows |->
                       IF rolled(w)
                       THEN [b \in DOMAIN f[w] |->
                               CASE b = 0 -> 0
                                 [] b = 1 -> f[w][0]
                                 [] b = 2 -> IF late' = {} THEN 0 ELSE f[w][1]]
                       ELSE [b \in DOMAIN f[w] |->
                               IF b = 2 THEN 0 ELSE f[w][b]]]
    IN  /\ Settled /\ late = {}
        /\ Age
        /\ clock' = IF limited THEN now % Widest ELSE clock
        /\ late' = {r \in Requests : InLimiter(r)}
        /\ count' = shift(count) /\ granted' = shift(granted)
        /\ UNCHANGED <<place, kid, keys, queue, renewed, published, up, failed,
                       began, counted, faults, twice, deployment>>

-----------------------------------------------------------------------------
JwksStep ==
    /\ method = "session"
    /\ \/ Rotate \/ Flip
       \/ \E r \in Requests : Enter(r) \/ FetchArrives(r) \/ FetchFails(r)
    /\ UNCHANGED <<limitVars, deployment>>

Serve(r) ==
    \/ method = "session" /\ UNCHANGED <<limitVars, deployment>>
         /\ (Enter(r) \/ FetchArrives(r) \/ FetchFails(r))
    \/ Proceed(r) \/ CountWindow(r) \/ Grant(r) \/ Refuse(r)

Next ==
    \/ JwksStep \/ Tick
    \/ \E r \in Requests :
          \/ ArriveByKey(r) \/ Proceed(r) \/ CountWindow(r) \/ Grant(r)
          \/ Refuse(r)
          \/ CountFails(r) \/ CountResent(r) \/ RefundFails(r)
          \/ RefundResent(r)
          \/ \E k \in Kids \union {Forged} : ArriveByToken(r, k)

(* A request that is under way is served: every await has a timeout or a     *)
(* lock's turn behind it.                                                    *)
Fairness == \A r \in Requests : WF_vars(Serve(r))

Spec == Init /\ [][Next]_vars /\ Fairness

-----------------------------------------------------------------------------
TypeOK ==
    /\ JwksTypeOK
    /\ method \in Methods /\ limited \in BOOLEAN
    /\ clock \in 0..(Widest - 1)
    /\ count \in [Windows -> [0..2 -> IF twice THEN Int ELSE Nat]]
    /\ granted \in [Windows -> [0..1 -> Nat]]
    /\ began \in [Requests -> 0..(Widest - 1)]
    /\ late \subseteq {r \in Requests : InLimiter(r)}
    /\ \A r \in Requests : Len(counted[r]) <= Len(Checks)
    /\ faults \in 0..MaxFaults /\ twice \in BOOLEAN

(* The requests two buckets admitted, the earlier one by what is left of it. *)
SlidingUse(w, before, now, elapsed) ==
    before * (Width[w] - elapsed) + now * Width[w]

(* The clock does not stop, whatever comes in. *)
TimePasses == []<><<Tick>>_vars

(* Supabase is asked no more often than the floor allows, whatever kids the  *)
(* tokens name and however its answers fail.                                 *)
FetchFloor ==
    \A r \in Requests :
      place[r] # "fetching" /\ place'[r] = "fetching" => sent >= MinRefresh

(* A token is accepted on a set that has aged out only while Supabase cannot *)
(* be reached: the last request to it failed.                                *)
TrustIsFresh ==
    \A r \in Requests :
      /\ method = "session"
      /\ place[r] # "authenticated" /\ place'[r] = "authenticated"
      => fetched' < KeysTtl \/ failed'

(* A key Supabase keeps publishing is one day accepted, as long as tokens    *)
(* that name it keep coming, whatever else comes with them.                  *)
RotationIsSeen ==
    \A k \in Kids :
      /\ TimePasses /\ <>[](up /\ k \in published)
      /\ []<><<\E r \in Requests : ArriveByToken(r, k)>>_vars
      => <>[](k \in keys)

(* Every request is answered. *)
RequestsEnd == \A r \in Requests : []<>(place[r] = "idle")

(* A bucket admits no more than its limit, however many count at once,       *)
(* whatever gets lost, as long as no refund is applied twice.                *)
GrantedWithinLimit ==
    ~twice => \A w \in Windows, b \in 0..1 : granted[w][b] <= Limit[w]

(* The allowance slides: when a request is let through, what its bucket and  *)
(* the one before it have admitted by then, that one weighed by what is left *)
(* of it, stays within the limit, but for requests that straddled the        *)
(* boundary.                                                                 *)
GrantsSlide ==
    [][\A r \in Requests :
         Grant(r) /\ ~twice =>
           \A w \in Windows :
             Own(r, w) = 0 =>
               SlidingUse(w, granted'[w][1], granted'[w][0], clock % Width[w])
                 <= (Limit[w] + Cardinality(Requests) - 1) * Width[w]
      ]_vars

(* What a counter holds is what it admitted and what is still under way:     *)
(* what was refused has left no trace in any window, the one it was counted  *)
(* into before the boundary included.                                        *)
CounterIsExact ==
    faults = 0 =>
      \A w \in Windows, b \in 0..1 :
        count[w][b] = granted[w][b]
          + Cardinality({r \in Requests :
                           /\ InLimiter(r) /\ Own(r, w) = b
                           /\ \E i \in DOMAIN counted[r] : Checks[i] = w})

(* A client that waits as it is told is let through by the window that       *)
(* refused it, if nobody else spent it meanwhile.                            *)
RetryFits ==
    \A r \in Requests :
      place[r] = "counted" /\ Over(r) # {} =>
        LET i == Min(Over(r))
            w == Checks[i]
            c == counted[r][i]
            then == Elapsed(r, w) + RetryAfter(w, c.prev, c.cur, Elapsed(r, w))
            full == Limit[w] * Width[w]
        IN  \/ then < Width[w] /\ SlidingUse(w, c.prev, c.cur, then) <= full
            \/ /\ then \in Width[w]..(2 * Width[w] - 1)
               /\ SlidingUse(w, c.cur - 1, 1, then - Width[w]) <= full
            \/ then >= 2 * Width[w]

(* A client that keeps asking, with no more requests at once than its        *)
(* limits, is let through again and again: refusals do not feed on           *)
(* themselves.                                                               *)
NotLockedOut ==
    TimePasses /\ []<><<\E r \in Requests : ArriveByKey(r)>>_vars
    => []<><<\E r \in Requests : Grant(r) \/ CountFails(r)>>_vars

(* The limiter's buckets are exact under any overlap of counting, refusing   *)
(* and refunding requests: within the limit, and without a trace of the      *)
(* refused (deps.py's _count, _refund).                                      *)
BucketsAreExact == TypeOK /\ GrantedWithinLimit /\ CounterIsExact

(* The key set is refreshed neither too often nor too seldom: a fetch waits  *)
(* for the floor, and a token is accepted on fresh keys or in an outage      *)
(* (auth/jwt.py's _refresh).                                                 *)
KeySetIsCurrent == [][FetchFloor /\ TrustIsFresh]_vars

(* The gate opens for whoever is entitled: every request is answered, a      *)
(* rotated key is accepted in the end, and a client within its limits is     *)
(* not locked out by its own refusals.                                       *)
GateOpens == RequestsEnd /\ RotationIsSeen /\ NotLockedOut

=============================================================================
