----------------------------- MODULE GateProofs -----------------------------
(***************************************************************************)
(* What the gate promises for any number of requests, any windows and      *)
(* limits and any faults: the buckets admit no more than their limit and   *)
(* keep no trace of the refused, the allowance slides, the wait a refused  *)
(* client is told is long enough, and the key set is fetched neither too   *)
(* often nor too seldom.                                                   *)
(***************************************************************************)
EXTENDS Gate, FiniteSetTheorems, SequenceTheorems, WellFoundedInduction, TLAPS

-----------------------------------------------------------------------------
(* The inductive invariant of the key set.                                   *)

(* The lock has one place for each who waits, and only its holder fetches.   *)
QueueHolds ==
    /\ \A i, j \in 1..Len(queue) : queue[i] = queue[j] => i = j
    /\ \A i \in 1..Len(queue) : place[queue[i]] \in {"waiting", "fetching"}
    /\ \A r \in Requests :
          place[r] = "fetching" => queue # <<>> /\ r = Head(queue) /\ renewed = {}

(* Those for whom a fetch succeeded go first, before the clock moves.        *)
RenewedHolds ==
    /\ \E n \in 0..Len(queue) : renewed = {queue[i] : i \in 1..n}
    /\ renewed # {} => fetched = 0

(* What the last attempt made of the set, once it is over.                   *)
AttemptHolds ==
    /\ sent = attempt
    /\ Throttled /\ (\A r \in Requests : place[r] # "fetching")
           => fetched <= attempt \/ failed

KeysInv == QueueHolds /\ RenewedHolds /\ AttemptHolds

-----------------------------------------------------------------------------
(* The inductive invariant of the buckets.                                   *)

Seen(r, w) == \E i \in DOMAIN counted[r] : Checks[i] = w

(* What r read of window w lets it through.                                  *)
Within(r, w) ==
    \E i \in DOMAIN counted[r] :
        /\ Checks[i] = w
        /\ Fits(w, counted[r][i].prev, counted[r][i].cur, Elapsed(r, w))

Live(w, b) == {r \in Requests : InLimiter(r) /\ Own(r, w) = b /\ Seen(r, w)}
Eligible(w, b) == {r \in Live(w, b) : Within(r, w)}

(* The requests that will still be counted into the last bucket.             *)
Straddling(w) == {r \in Requests : InLimiter(r) /\ Own(r, w) = 1 /\ ~Seen(r, w)}

(* Where a request is, what it has read, and how far the clock moved since.  *)
RequestInv(r) ==
    /\ ~twice => \A i \in DOMAIN counted[r] : counted[r][i].prev >= 0
    /\ ~InLimiter(r) => counted[r] = <<>>
    /\ place[r] = "counting" => Len(counted[r]) < Len(Checks)
    /\ place[r] = "counted" => Len(counted[r]) = Len(Checks)
    /\ InLimiter(r) =>
          limited /\ clock = IF r \in late THEN (began[r] + 1) % Widest ELSE began[r]

(* A counter holds at least what it admitted and what is under way.          *)
CounterCovers(w) ==
    \A b \in 0..1 :
        /\ ~twice => count[w][b] >= granted[w][b] + Cardinality(Live(w, b))
        /\ faults = 0 => count[w][b] = granted[w][b] + Cardinality(Live(w, b))

(* Whoever may yet be admitted has room already.                             *)
RoomIsKept(w) ==
    ~twice => \A b \in 0..1 : granted[w][b] + Cardinality(Eligible(w, b)) <= Limit[w]

(* And has it together with the last bucket, as it weighs now.               *)
RoomSlides(w) ==
    LET before == granted[w][1] + Cardinality(Live(w, 1)) + Cardinality(Straddling(w))
        now == granted[w][0] + Cardinality(Eligible(w, 0))
    IN  ~twice =>
          \/ now = 0
          \/ SlidingUse(w, before, now, clock % Width[w])
                 <= (Limit[w] + Cardinality(Requests) - 1) * Width[w]

WindowInv(w) == CounterCovers(w) /\ RoomIsKept(w) /\ RoomSlides(w)

(* The types of the limiter, but for the sign of its counters.               *)
LimitTyped ==
    /\ JwksTypeOK
    /\ limited \in BOOLEAN /\ twice \in BOOLEAN /\ faults \in 0..MaxFaults
    /\ clock \in 0..(Widest - 1)
    /\ count \in [Windows -> [0..2 -> Int]]
    /\ granted \in [Windows -> [0..1 -> Nat]]
    /\ began \in [Requests -> 0..(Widest - 1)]
    /\ late \subseteq {r \in Requests : InLimiter(r)}
    /\ counted \in [Requests -> Seq([cur : Int, prev : Int])]
    /\ \A r \in Requests : Len(counted[r]) <= Len(Checks)

LimitInv ==
    /\ LimitTyped /\ (faults = 0 => ~twice)
    /\ \A r \in Requests : RequestInv(r)
    /\ \A w \in Windows : WindowInv(w)
    /\ ~twice => \A w \in Windows : count[w][2] >= 0

Inv == method \in Methods /\ KeysInv /\ LimitInv

-----------------------------------------------------------------------------
(* Arithmetic.                                                               *)
LEMMA ModIs ==
    ASSUME NEW q \in Int, NEW W \in Nat \ {0}, NEW m \in 0..(W - 1), NEW x \in Nat,
           x = W * q + m
    PROVE  x % W = m
OBVIOUS

LEMMA ModNext ==
    ASSUME NEW x \in Nat, NEW W \in Nat \ {0}
    PROVE  (x + 1) % W = 0 \/ (x + 1) % W = (x % W) + 1
<1>1. PICK m \in 0..(W - 1) : m = x % W OBVIOUS
<1>2. PICK q \in Int : q = x \div W OBVIOUS
<1>3. x = W * q + m BY <1>1, <1>2
<1>4. CASE m < W - 1
  <2>1. x + 1 = W * q + (m + 1) /\ m + 1 \in 0..(W - 1) BY <1>3, <1>4
  <2> QED BY <1>1, <2>1, ModIs
<1>5. CASE m = W - 1
  <2>1. PICK k \in Int, z \in 0..(W - 1) : k = q + 1 /\ z = 0 BY <1>5
  <2>2. PICK y \in Nat : y = x + 1 OBVIOUS
  <2>3. y = W * k + z BY <1>3, <1>5, <2>1, <2>2
  <2>4. y % W = z BY <2>3, ModIs
  <2> QED BY <2>1, <2>2, <2>4
<1> QED BY <1>4, <1>5

LEMMA Scale ==
    ASSUME NEW a \in Int, NEW b \in Int, NEW c \in Nat, a <= b
    PROVE  a * c <= b * c
OBVIOUS

LEMMA Cancel ==
    ASSUME NEW a \in Int, NEW b \in Int, NEW c \in Nat \ {0}, a * c <= b * c
    PROVE  a <= b
OBVIOUS

LEMMA CeilDivCovers ==
    ASSUME NEW a \in Int, NEW b \in Nat \ {0}
    PROVE  CeilDiv(a, b) \in Int /\ a <= CeilDiv(a, b) * b
BY DEF CeilDiv

LEMMA MaxOfTwo ==
    ASSUME NEW a \in Int, NEW b \in Int
    PROVE  Max({a, b}) \in {a, b} /\ Max({a, b}) >= a /\ Max({a, b}) >= b
<1>1. \E x \in {a, b} : \A y \in {a, b} : x >= y
  <2>1. CASE a >= b BY <2>1
  <2>2. CASE b >= a BY <2>2
  <2> QED BY <2>1, <2>2
<1> QED BY <1>1 DEF Max

(* The naturals are well founded, so a set of them has its least element.    *)
LEMMA MinIs ==
    ASSUME NEW S \in SUBSET Nat, S # {}
    PROVE  Min(S) \in S
<1>1. PICK R : R = {p \in Nat \X Nat : p[1] < p[2]} OBVIOUS
<1>2. IsWellFoundedOn(R, Nat) BY <1>1, NatLessThanWellFounded DEF OpToRel
<1>3. PICK n \in S : \A m \in S : ~(<<m, n>> \in R) BY <1>2, WFMin
<1>4. \A m \in S : <<m, n>> \in R <=> m < n BY <1>1
<1>5. \A m \in S : ~(m < n) BY <1>3, <1>4
<1>6. n \in Nat /\ \A m \in S : m \in Nat OBVIOUS
<1>7. \A m \in S : n <= m BY <1>5, <1>6
<1> QED BY <1>7 DEF Min

(* What is assumed of the windows, one at a time.                            *)
LEMMA WindowTyped ==
    ASSUME NEW w \in Windows
    PROVE  Width[w] \in Nat \ {0} /\ Limit[w] \in Nat \ {0}
BY GateAssumption

LEMMA WidestCovers ==
    /\ Widest \in Nat \ {0}
    /\ \A w \in Windows : Width[w] <= Widest /\ Widest % Width[w] = 0
<1>1. PICK w \in Windows : \A v \in Windows : Width[v] <= Width[w] BY GateAssumption
<1>2. PICK S : S = {Width[v] : v \in Windows} OBVIOUS
<1>3. Width[w] \in S /\ \A y \in S : Width[w] >= y BY <1>1, <1>2, WindowTyped
<1>4. Max(S) \in S /\ \A y \in S : Max(S) >= y BY <1>3 DEF Max
<1>5. PICK u \in Windows : Widest = Width[u] BY <1>2, <1>4 DEF Widest
<1>6. \A v \in Windows : Width[v] <= Widest BY <1>2, <1>4, WindowTyped DEF Widest
<1>7. ASSUME NEW v \in Windows PROVE Widest % Width[v] = 0
  <2>1. Width[u] % Width[v] = 0 \/ Width[v] % Width[u] = 0 BY GateAssumption
  <2>2. PICK a \in Nat \ {0}, b \in Nat \ {0} : a = Width[u] /\ b = Width[v]
    BY WindowTyped
  <2>3. b <= a BY <1>5, <1>6, <2>2
  <2>4. b < a => b % a = b BY <2>2
  <2>5. b = a => a % b = 0 BY <2>2
  <2> QED BY <1>5, <2>1, <2>2, <2>3, <2>4, <2>5
<1> QED BY <1>5, <1>6, <1>7, WindowTyped

(* The clock, which starts again with the widest window, keeps its place in  *)
(* every window.                                                             *)
LEMMA ClockKeepsPlace ==
    ASSUME NEW t \in 0..(Widest - 1), NEW w \in Windows
    PROVE  /\ (t + 1) % Widest \in 0..(Widest - 1)
           /\ ((t + 1) % Widest) % Width[w] = (t + 1) % Width[w]
<1>1. PICK M \in Nat \ {0} : M = Widest BY WidestCovers
<1>2. PICK W \in Nat \ {0} : W = Width[w] BY WindowTyped
<1>3. t \in 0..(M - 1) /\ M % W = 0 BY <1>1, <1>2, WidestCovers
<1>4. CASE t + 1 < M
  <2>1. (t + 1) % M = t + 1 BY <1>3, <1>4
  <2> QED BY <1>1, <1>2, <1>3, <1>4, <2>1
<1>5. CASE t + 1 = M
  <2>1. (t + 1) % M = 0 BY <1>3, <1>5
  <2>2. 0 % W = 0 BY <1>2
  <2> QED BY <1>1, <1>2, <1>3, <1>5, <2>1, <2>2
<1> QED BY <1>3, <1>4, <1>5

-----------------------------------------------------------------------------
(* The wait.                                                                 *)

(* The weight of two buckets grows with what either holds and shrinks with   *)
(* the time.                                                                 *)
LEMMA UseTyped ==
    ASSUME NEW w \in Windows, NEW a \in Int, NEW n \in Int, NEW e \in Int
    PROVE  SlidingUse(w, a, n, e) \in Int
BY WindowTyped DEF SlidingUse

(* A window that the last one does not fill is over by itself.               *)
LEMMA OverAlone ==
    ASSUME NEW W \in Nat \ {0}, NEW L \in Nat \ {0}, NEW p \in Int, NEW c \in Int,
           NEW e \in 0..(W - 1), p * (W - e) + c * W > L * W, ~(p > 0 /\ c <= L)
    PROVE  c > L
<1>1. CASE p > 0 BY <1>1
<1>2. CASE p <= 0
  <2>1. p * (W - e) <= 0 * (W - e) BY <1>2, Scale
  <2>2. ~(c * W <= L * W) BY <2>1
  <2> QED BY <2>2, Scale
<1> QED BY <1>1, <1>2

(* What a request must wait for, in numbers: p before, c now, at time e, of  *)
(* a window of width W and limit L.                                          *)
LEMMA WaitSuffices ==
    ASSUME NEW W \in Nat \ {0}, NEW L \in Nat \ {0}, NEW p \in Int, NEW c \in Int,
           NEW e \in 0..(W - 1), NEW t \in Int,
           p * (W - e) + c * W > L * W,
           p > 0 /\ c <= L => t >= CeilDiv((p + c - L) * W, p),
           ~(p > 0 /\ c <= L) => t >= W + CeilDiv((c - 1 - (L - 1)) * W, c - 1)
    PROVE  \/ t < W /\ p * (W - t) + c * W <= L * W
           \/ t \in W..(2 * W - 1) /\ (c - 1) * (W - (t - W)) + 1 * W <= L * W
           \/ t >= 2 * W
<1>1. CASE p > 0 /\ c <= L
  <2>1. PICK k \in Int : k = CeilDiv((p + c - L) * W, p) /\ (p + c - L) * W <= k * p
    <3>1. (p + c - L) * W \in Int OBVIOUS
    <3> QED BY <1>1, <3>1, CeilDivCovers
  <2>2. k * p <= t * p BY <1>1, <2>1, Scale
  <2>3. p * (W - t) + c * W <= L * W BY <2>1, <2>2
  <2>4. ASSUME t \in W..(2 * W - 1) PROVE (c - 1) * (W - (t - W)) + 1 * W <= L * W
    <3> W - (t - W) \in Nat BY <2>4
    <3>1. PICK v \in Nat : v = W - (t - W) OBVIOUS
    <3>2. CASE c >= 1
      <4>1. v <= W BY <2>4, <3>1
      <4>2. v * (c - 1) <= W * (c - 1) BY <3>2, <4>1, Scale
      <4>3. c * W <= L * W BY <1>1, Scale
      <4> QED BY <3>1, <4>2, <4>3
    <3>3. CASE c < 1
      <4>1. (c - 1) * v <= 0 * v BY <3>3, Scale
      <4>2. 1 * W <= L * W BY Scale
      <4> QED BY <3>1, <4>1, <4>2
    <3> QED BY <3>2, <3>3
  <2> QED BY <2>3, <2>4
<1>2. CASE ~(p > 0 /\ c <= L)
  <2>1. c > L BY <1>2, OverAlone
  <2>2. PICK n \in Nat \ {0} : n = c - 1 BY <2>1
  <2>3. PICK k \in Int : /\ k = CeilDiv((c - 1 - (L - 1)) * W, c - 1)
                         /\ (c - 1 - (L - 1)) * W <= k * n
    <3>1. (c - 1 - (L - 1)) * W \in Int OBVIOUS
    <3> QED BY <2>2, <3>1, CeilDivCovers
  <2>4. t - W >= k BY <1>2, <2>3
  <2>5. k * n <= (t - W) * n BY <2>3, <2>4, Scale
  <2>6. n * (W - (t - W)) + 1 * W <= L * W BY <2>2, <2>3, <2>5
  <2>7. (c - L) * W >= 0 * W BY <2>1, Scale
  <2>8. k >= 0
    <3>1. 0 * n <= k * n BY <2>2, <2>3, <2>7
    <3> QED BY <3>1, Cancel
  <2> QED BY <2>2, <2>4, <2>6, <2>8
<1> QED BY <1>1, <1>2

LEMMA RetryAfterSuffices ==
    ASSUME NEW w \in Windows, NEW p \in Int, NEW c \in Int, NEW e \in 0..(Width[w] - 1),
           ~Fits(w, p, c, e), NEW t, t = e + RetryAfter(w, p, c, e)
    PROVE  \/ t < Width[w] /\ SlidingUse(w, p, c, t) <= Limit[w] * Width[w]
           \/ /\ t \in Width[w]..(2 * Width[w] - 1)
              /\ SlidingUse(w, c - 1, 1, t - Width[w]) <= Limit[w] * Width[w]
           \/ t >= 2 * Width[w]
<1>1. PICK W \in Nat \ {0}, L \in Nat \ {0} : W = Width[w] /\ L = Limit[w] BY WindowTyped
<1>2. PICK wait : wait = IF p > 0 /\ c <= L
                         THEN CeilDiv((p + c - L) * W, p)
                         ELSE W + CeilDiv((c - 1 - (L - 1)) * W, c - 1)
  OBVIOUS
<1>3. t = e + Max({1, wait - e}) BY <1>1, <1>2 DEF RetryAfter
<1>4. p * (W - e) + c * W > L * W BY <1>1 DEF Fits, SlidingCount
<1>5. wait \in Int
  <2>1. CASE p > 0 /\ c <= L
    <3>1. (p + c - L) * W \in Int OBVIOUS
    <3> QED BY <1>2, <2>1, <3>1, CeilDivCovers
  <2>2. CASE ~(p > 0 /\ c <= L)
    <3>1. c > L BY <1>1, <1>4, <2>2, OverAlone
    <3>2. (c - 1 - (L - 1)) * W \in Int /\ c - 1 \in Nat \ {0} BY <3>1
    <3> QED BY <1>2, <2>2, <3>2, CeilDivCovers
  <2> QED BY <2>1, <2>2
<1>6. t \in Int /\ t >= wait
  <2>1. PICK m \in Int : m = wait - e BY <1>1, <1>5
  <2>2. Max({1, m}) \in {1, m} /\ Max({1, m}) >= m BY MaxOfTwo
  <2>3. e \in Int BY <1>1
  <2> QED BY <1>3, <1>5, <2>1, <2>2, <2>3
<1>7. \/ t < W /\ p * (W - t) + c * W <= L * W
      \/ t \in W..(2 * W - 1) /\ (c - 1) * (W - (t - W)) + 1 * W <= L * W
      \/ t >= 2 * W
  BY <1>1, <1>2, <1>4, <1>6, WaitSuffices
<1> QED BY <1>1, <1>7 DEF SlidingUse


-----------------------------------------------------------------------------
(* The key set.                                                              *)

(* The places outside the lock and the cache.                                *)
Outside == {"idle", "authenticated", "counting", "counted"}

(* A step of a request that does not touch the cache.                        *)
Aside(r) ==
    /\ UNCHANGED jwksRest
    /\ place[r] \in Outside
    /\ \E to \in {"idle", "counting", "counted"} : Move(r, to)

LEMMA TailIs ==
    ASSUME NEW S, NEW q \in Seq(S), q # <<>>
    PROVE  /\ Tail(q) \in Seq(S) /\ Len(Tail(q)) = Len(q) - 1 /\ Len(q) \in Nat \ {0}
           /\ Head(q) = q[1] /\ q[1] \in S
           /\ \A i \in 1..Len(Tail(q)) : Tail(q)[i] = q[i + 1]
OBVIOUS

LEMMA KeysInit == Init => JwksTypeOK /\ KeysInv
<1> SUFFICES ASSUME JwksInit PROVE JwksTypeOK /\ KeysInv BY DEF Init
<1>1. (CHOOSE k \in Kids : TRUE) \in Kids BY JwksAssumption
<1>2. JwksTypeOK
  <2>1. /\ fetched \in 0..KeysTtl /\ attempt \in 0..MinRefresh
        /\ sent \in 0..MinRefresh
    BY JwksAssumption DEF JwksInit
  <2>2. /\ keys \subseteq Kids /\ published \subseteq Kids /\ published # {}
        /\ renewed \subseteq Requests /\ up \in BOOLEAN /\ failed \in BOOLEAN
    BY <1>1 DEF JwksInit
  <2>3. /\ place \in [Requests -> {"idle", "waiting", "fetching", "authenticated",
                                   "counting", "counted"}]
        /\ kid \in [Requests -> Kids \union {Forged}]
        /\ queue \in Seq(Requests)
    BY DEF JwksInit
  <2> QED BY <2>1, <2>2, <2>3 DEF JwksTypeOK
<1>3. QueueHolds BY DEF JwksInit, QueueHolds
<1>4. RenewedHolds
  <2>1. Len(queue) = 0 /\ renewed = {} BY DEF JwksInit
  <2>2. {queue[i] : i \in 1..0} = {} OBVIOUS
  <2> QED BY <2>1, <2>2 DEF RenewedHolds
<1>5. AttemptHolds BY JwksAssumption DEF JwksInit, AttemptHolds, Throttled
<1> QED BY <1>2, <1>3, <1>4, <1>5 DEF KeysInv

LEMMA KeysAside ==
    ASSUME JwksTypeOK, KeysInv, NEW r \in Requests, Aside(r)
    PROVE  JwksTypeOK' /\ KeysInv'
<1>1. PICK to \in {"idle", "counting", "counted"} : place' = [place EXCEPT ![r] = to]
  BY DEF Aside, Move
<1>2. JwksTypeOK' BY <1>1 DEF Aside, jwksRest, JwksTypeOK
<1>3. \A q \in Requests : q # r => place'[q] = place[q] BY <1>1 DEF JwksTypeOK
<1>4. place'[r] = to /\ place[r] \in Outside BY <1>1 DEF JwksTypeOK, Aside
<1>5. \A q \in Requests : place[q] = "fetching" <=> place'[q] = "fetching"
  BY <1>3, <1>4 DEF Outside
<1>6. \A i \in 1..Len(queue) : queue[i] \in Requests BY DEF JwksTypeOK
<1>7. QueueHolds'
  BY <1>3, <1>4, <1>5, <1>6 DEF Aside, jwksRest, KeysInv, QueueHolds, Outside
<1>8. RenewedHolds' BY DEF Aside, jwksRest, KeysInv, RenewedHolds
<1>9. AttemptHolds'
  BY <1>5 DEF Aside, jwksRest, KeysInv, AttemptHolds, Throttled
<1> QED BY <1>2, <1>7, <1>8, <1>9 DEF KeysInv

LEMMA KeysArrive ==
    ASSUME JwksTypeOK, KeysInv, NEW r \in Requests, NEW k \in Kids \union {Forged},
           Arrive(r, k)
    PROVE  /\ JwksTypeOK' /\ KeysInv'
           /\ FetchFloor /\ TrustIsFresh
<1>1. /\ \A i \in 1..Len(queue) : queue[i] \in Requests
      /\ Len(queue) \in Nat
  BY DEF JwksTypeOK
<1>2. CASE /\ Cached(k)
           /\ place' = [place EXCEPT ![r] = "authenticated"]
           /\ UNCHANGED <<kid, queue>>
  <2>1. JwksTypeOK' BY <1>2 DEF Arrive, JwksTypeOK
  <2>2. \A q \in Requests : q # r => place'[q] = place[q] BY <1>2 DEF JwksTypeOK
  <2>3. place'[r] = "authenticated" /\ place[r] = "idle" BY <1>2 DEF JwksTypeOK, Arrive
  <2>4. QueueHolds' BY <1>1, <1>2, <2>2, <2>3 DEF Arrive, KeysInv, QueueHolds
  <2>5. RenewedHolds' BY <1>2 DEF Arrive, KeysInv, RenewedHolds
  <2>6. AttemptHolds' BY <2>2, <2>3 DEF Arrive, KeysInv, AttemptHolds, Throttled
  <2>7. FetchFloor BY <2>2, <2>3 DEF FetchFloor
  <2>8. TrustIsFresh BY <1>2, <2>2 DEF TrustIsFresh, Cached, Arrive
  <2> QED BY <2>1, <2>4, <2>5, <2>6, <2>7, <2>8 DEF KeysInv
<1>3. CASE /\ queue' = Append(queue, r)
           /\ place' = [place EXCEPT ![r] = "waiting"]
           /\ kid' = [kid EXCEPT ![r] = k]
  <2>1. JwksTypeOK' BY <1>3 DEF Arrive, JwksTypeOK
  <2>2. \A q \in Requests : q # r => place'[q] = place[q] BY <1>3 DEF JwksTypeOK
  <2>3. place'[r] = "waiting" /\ place[r] = "idle" BY <1>3 DEF JwksTypeOK, Arrive
  <2>4. /\ Len(queue') = Len(queue) + 1 /\ queue'[Len(queue) + 1] = r
        /\ \A i \in 1..Len(queue) : queue'[i] = queue[i]
        /\ queue' # <<>>
        /\ queue # <<>> => Head(queue') = Head(queue)
    BY <1>3 DEF JwksTypeOK
  <2>5. \A i \in 1..Len(queue) : queue[i] # r
    BY <2>3 DEF KeysInv, QueueHolds
  <2>6. QueueHolds'
    <3>1. ASSUME NEW i \in 1..Len(queue'), NEW j \in 1..Len(queue'), queue'[i] = queue'[j]
          PROVE  i = j
      BY <1>1, <2>4, <2>5, <3>1 DEF KeysInv, QueueHolds
    <3>2. ASSUME NEW i \in 1..Len(queue')
          PROVE  place'[queue'[i]] \in {"waiting", "fetching"}
      BY <1>1, <2>2, <2>3, <2>4, <2>5 DEF KeysInv, QueueHolds
    <3>3. ASSUME NEW q \in Requests, place'[q] = "fetching"
          PROVE  queue' # <<>> /\ q = Head(queue') /\ renewed' = {}
      BY <2>2, <2>3, <2>4, <3>3 DEF Arrive, KeysInv, QueueHolds
    <3> QED BY <3>1, <3>2, <3>3 DEF QueueHolds
  <2>7. RenewedHolds'
    <3>1. PICK n \in 0..Len(queue) : renewed = {queue[i] : i \in 1..n}
      BY DEF KeysInv, RenewedHolds
    <3>2. \A i \in 1..n : queue'[i] = queue[i] BY <1>1, <2>4
    <3>3. renewed' = {queue'[i] : i \in 1..n} BY <3>1, <3>2, SMTT(30) DEF Arrive
    <3>4. n \in 0..Len(queue') BY <1>1, <2>4
    <3> QED BY <3>3, <3>4 DEF Arrive, KeysInv, RenewedHolds
  <2>8. AttemptHolds' BY <2>2, <2>3 DEF Arrive, KeysInv, AttemptHolds, Throttled
  <2>9. FetchFloor /\ TrustIsFresh BY <2>2, <2>3 DEF FetchFloor, TrustIsFresh
  <2> QED BY <2>1, <2>6, <2>7, <2>8, <2>9 DEF KeysInv
<1> QED BY <1>2, <1>3 DEF Arrive


LEMMA KeysEnter ==
    ASSUME JwksTypeOK, KeysInv, NEW r \in Requests, Enter(r)
    PROVE  /\ JwksTypeOK' /\ KeysInv'
           /\ FetchFloor /\ TrustIsFresh
<1>1. /\ queue # <<>> /\ r = queue[1] /\ place[r] = "waiting"
      /\ Tail(queue) \in Seq(Requests) /\ Len(Tail(queue)) = Len(queue) - 1
      /\ Len(queue) \in Nat \ {0}
      /\ \A i \in 1..Len(Tail(queue)) : Tail(queue)[i] = queue[i + 1]
      /\ \A i \in 1..Len(queue) : queue[i] \in Requests
  BY TailIs DEF Enter, JwksTypeOK
<1>2. \A q \in Requests : place[q] # "fetching"
  <2> SUFFICES ASSUME NEW q \in Requests, place[q] = "fetching" PROVE FALSE OBVIOUS
  <2>1. q = Head(queue) BY DEF KeysInv, QueueHolds
  <2>2. q = r BY <2>1 DEF Enter
  <2> QED BY <1>1, <2>2
<1>3. PICK n \in 0..Len(queue) : renewed = {queue[i] : i \in 1..n}
  BY DEF KeysInv, RenewedHolds
<1>4. CASE (r \in renewed \/ Throttled) /\ HeldBack(r) /\ Release(r)
  <2>1. PICK to \in {"authenticated", "idle"} : place' = [place EXCEPT ![r] = to]
    BY <1>4 DEF HeldBack, Look
  <2>2. JwksTypeOK' BY <1>1, <1>4, <2>1 DEF Enter, HeldBack, Release, Look, JwksTypeOK
  <2>3. \A q \in Requests : q # r => place'[q] = place[q] BY <2>1 DEF JwksTypeOK
  <2>4. place'[r] = to BY <2>1 DEF JwksTypeOK
  <2>5. \A q \in Requests : place'[q] # "fetching" BY <1>2, <2>3, <2>4
  <2>6. /\ Len(queue') = Len(queue) - 1
        /\ \A i \in 1..Len(queue') : queue'[i] = queue[i + 1]
    BY <1>1, <1>4 DEF Release
  <2>7. \A i \in 1..Len(queue') :
           queue[i + 1] # r /\ queue[i + 1] \in Requests /\ i + 1 \in 1..Len(queue)
    BY <1>1, <2>6 DEF KeysInv, QueueHolds
  <2>8. QueueHolds'
    <3>1. ASSUME NEW i \in 1..Len(queue'), NEW j \in 1..Len(queue'), queue'[i] = queue'[j]
          PROVE  i = j
      <4>1. i + 1 = j + 1 BY <2>6, <2>7, <3>1 DEF KeysInv, QueueHolds
      <4> QED BY <1>1, <2>6, <4>1
    <3>2. ASSUME NEW i \in 1..Len(queue')
          PROVE  place'[queue'[i]] \in {"waiting", "fetching"}
      BY <2>3, <2>6, <2>7 DEF KeysInv, QueueHolds
    <3> QED BY <2>5, <3>1, <3>2 DEF QueueHolds
  <2>9. RenewedHolds'
    <3>1. renewed' = renewed \ {r} BY <1>4 DEF Release
    <3>2. CASE n = 0
      <4>1. renewed' = {} BY <1>3, <3>1, <3>2
      <4>2. {queue'[i] : i \in 1..0} = {} OBVIOUS
      <4>3. 0 \in 0..Len(queue') BY <1>1, <2>6
      <4> QED BY <4>1, <4>2, <4>3 DEF RenewedHolds
    <3>3. CASE n > 0
      <4>1. PICK m \in 0..Len(queue') : m = n - 1 BY <1>1, <2>6, <3>3
      <4>2. ASSUME NEW x \in renewed' PROVE \E i \in 1..m : x = queue'[i]
        <5>1. PICK i \in 1..n : x = queue[i] BY <1>3, <3>1, <4>2
        <5>2. i # 1 BY <1>1, <3>1, <4>2, <5>1
        <5>3. PICK j \in 1..m : j = i - 1 BY <4>1, <5>2, <1>3
        <5>4. queue'[j] = queue[j + 1] BY <2>6, <4>1
        <5> QED BY <5>1, <5>3, <5>4, <1>3
      <4>3. ASSUME NEW i \in 1..m PROVE queue'[i] \in renewed'
        <5>1. i \in 1..Len(queue') BY <1>1, <2>6, <4>1
        <5>2. queue'[i] = queue[i + 1] /\ queue[i + 1] # r BY <2>6, <2>7, <5>1
        <5>3. i + 1 \in 1..n BY <4>1, <3>3
        <5> QED BY <1>3, <3>1, <5>2, <5>3
      <4>4. renewed' = {queue'[i] : i \in 1..m} BY <4>2, <4>3
      <4> QED BY <3>1, <4>4, <1>4 DEF RenewedHolds, HeldBack, KeysInv
    <3> QED BY <3>2, <3>3, <1>3
  <2>10. AttemptHolds'
    BY <1>2, <1>4 DEF HeldBack, KeysInv, AttemptHolds, Throttled
  <2>11. FetchFloor BY <2>5 DEF FetchFloor
  <2>12. fetched' < KeysTtl \/ failed'
    <3>1. CASE r \in renewed
      <4>1. fetched = 0 BY <3>1 DEF KeysInv, RenewedHolds
      <4> QED BY <1>4, <4>1, JwksAssumption DEF HeldBack
    <3>2. CASE Throttled
      <4>1. fetched <= attempt \/ failed BY <1>2, <3>2 DEF KeysInv, AttemptHolds
      <4> QED BY <1>4, <3>2, <4>1, JwksAssumption DEF HeldBack, Throttled, JwksTypeOK
    <3> QED BY <1>4, <3>1, <3>2
  <2>13. TrustIsFresh BY <2>12 DEF TrustIsFresh
  <2> QED BY <2>2, <2>8, <2>9, <2>10, <2>11, <2>13 DEF KeysInv
<1>5. CASE r \notin renewed /\ ~Throttled /\ Send(r) /\ UNCHANGED <<queue, renewed>>
  <2>1. JwksTypeOK' BY <1>5, JwksAssumption DEF Enter, Send, JwksTypeOK
  <2>2. \A q \in Requests : q # r => place'[q] = place[q] BY <1>5 DEF Send, JwksTypeOK
  <2>3. place'[r] = "fetching" BY <1>5 DEF Send, JwksTypeOK
  <2>4. renewed = {}
    <3>1. n = 0
      <4> SUFFICES ASSUME n # 0 PROVE FALSE OBVIOUS
      <4>1. 1 \in 1..n BY <1>1
      <4>2. queue[1] \in renewed BY <1>3, <4>1
      <4> QED BY <1>1, <1>5, <4>2
    <3> QED BY <1>3, <3>1
  <2>5. QueueHolds'
    BY <1>1, <1>2, <1>5, <2>2, <2>3, <2>4 DEF Enter, KeysInv, QueueHolds
  <2>6. RenewedHolds' BY <1>5, <2>4, ZenonT(30) DEF KeysInv, RenewedHolds
  <2>7. AttemptHolds' BY <1>5, <2>3 DEF Send, AttemptHolds
  <2>8. sent >= MinRefresh
    BY <1>5, JwksAssumption DEF KeysInv, AttemptHolds, Throttled, JwksTypeOK
  <2>9. FetchFloor BY <2>8 DEF FetchFloor
  <2>10. TrustIsFresh BY <2>2, <2>3 DEF TrustIsFresh
  <2> QED BY <2>1, <2>5, <2>6, <2>7, <2>9, <2>10 DEF KeysInv
<1> QED BY <1>4, <1>5 DEF Enter


LEMMA KeysFetchEnds ==
    ASSUME JwksTypeOK, KeysInv, NEW r \in Requests, FetchArrives(r) \/ FetchFails(r)
    PROVE  /\ JwksTypeOK' /\ KeysInv'
           /\ FetchFloor /\ TrustIsFresh
<1>1. place[r] = "fetching" BY DEF FetchArrives, FetchFails
<1>2. queue # <<>> /\ r = Head(queue) /\ renewed = {} BY <1>1 DEF KeysInv, QueueHolds
<1>3. /\ r = queue[1]
      /\ Tail(queue) \in Seq(Requests) /\ Len(Tail(queue)) = Len(queue) - 1
      /\ Len(queue) \in Nat \ {0}
      /\ \A i \in 1..Len(Tail(queue)) : Tail(queue)[i] = queue[i + 1]
      /\ \A i \in 1..Len(queue) : queue[i] \in Requests
  BY <1>2, TailIs DEF JwksTypeOK
<1>4. PICK to \in {"authenticated", "idle"} : place' = [place EXCEPT ![r] = to]
  BY DEF FetchArrives, FetchFails, Look
<1>5. \A q \in Requests : q # r => place'[q] = place[q] BY <1>4 DEF JwksTypeOK
<1>6. place'[r] = to BY <1>4 DEF JwksTypeOK
<1>7. \A q \in Requests : place'[q] # "fetching"
  BY <1>2, <1>5, <1>6 DEF KeysInv, QueueHolds
<1>8. queue' = Tail(queue) BY DEF FetchArrives, FetchFails, Release
<1>9. \A i \in 1..Len(queue') :
         /\ queue'[i] = queue[i + 1]
         /\ queue[i + 1] # r /\ queue[i + 1] \in Requests /\ i + 1 \in 1..Len(queue)
  BY <1>3, <1>8 DEF KeysInv, QueueHolds
<1>10. QueueHolds'
  <2>1. ASSUME NEW i \in 1..Len(queue'), NEW j \in 1..Len(queue'), queue'[i] = queue'[j]
        PROVE  i = j
    <3>1. i + 1 = j + 1 BY <1>9, <2>1 DEF KeysInv, QueueHolds
    <3> QED BY <1>3, <1>8, <3>1
  <2>2. ASSUME NEW i \in 1..Len(queue')
        PROVE  place'[queue'[i]] \in {"waiting", "fetching"}
    BY <1>5, <1>9 DEF KeysInv, QueueHolds
  <2> QED BY <1>7, <2>1, <2>2 DEF QueueHolds
<1>11. FetchFloor BY <1>7 DEF FetchFloor
<1>12. CASE FetchArrives(r)
  <2>1. renewed' = {queue'[i] : i \in 1..Len(queue')}
    <3>1. renewed' = {queue[i] : i \in 2..Len(queue)} BY <1>12 DEF FetchArrives
    <3>2. ASSUME NEW i \in 2..Len(queue)
          PROVE  \E j \in 1..Len(queue') : queue[i] = queue'[j]
      <4>1. PICK j \in 1..Len(queue') : i = j + 1 BY <1>3, <1>8
      <4> QED BY <1>9, <4>1
    <3>3. ASSUME NEW j \in 1..Len(queue')
          PROVE  \E i \in 2..Len(queue) : queue[i] = queue'[j]
      <4>1. j + 1 \in 2..Len(queue) BY <1>3, <1>8
      <4> QED BY <1>9, <4>1
    <3>4. \A x : x \in renewed' => \E j \in 1..Len(queue') : x = queue'[j]
      BY <3>1, <3>2, Zenon
    <3>5. \A j \in 1..Len(queue') : queue'[j] \in renewed' BY <3>1, <3>3, Zenon
    <3> QED BY <3>4, <3>5, Zenon
  <2>2. renewed' \subseteq Requests BY <1>9, <2>1
  <2>3. JwksTypeOK'
    <3>1. fetched' \in 0..KeysTtl BY <1>12, JwksAssumption DEF FetchArrives
    <3>2. /\ place' \in [Requests -> {"idle", "waiting", "fetching", "authenticated",
                                      "counting", "counted"}]
          /\ kid' \in [Requests -> Kids \union {Forged}]
      BY <1>4, <1>12 DEF FetchArrives, Look, JwksTypeOK
    <3> QED BY <1>3, <1>8, <1>12, <2>2, <3>1, <3>2 DEF FetchArrives, JwksTypeOK
  <2>4. RenewedHolds'
    <3>1. Len(queue') \in 0..Len(queue') BY <1>3, <1>8
    <3> QED BY <1>12, <2>1, <3>1 DEF FetchArrives, RenewedHolds
  <2>5. AttemptHolds'
    BY <1>12 DEF FetchArrives, KeysInv, AttemptHolds, JwksTypeOK
  <2>6. TrustIsFresh BY <1>12, JwksAssumption DEF FetchArrives, TrustIsFresh
  <2> QED BY <1>10, <1>11, <2>3, <2>4, <2>5, <2>6 DEF KeysInv
<1>13. CASE FetchFails(r)
  <2>1. renewed' = {} BY <1>2, <1>13 DEF FetchFails, Release
  <2>2. JwksTypeOK'
    BY <1>3, <1>4, <1>8, <1>13, <2>1 DEF FetchFails, Look, JwksTypeOK
  <2>3. RenewedHolds'
    <3>1. {queue'[i] : i \in 1..0} = {} OBVIOUS
    <3>2. 0 \in 0..Len(queue') BY <1>3, <1>8
    <3> QED BY <2>1, <3>1, <3>2 DEF RenewedHolds
  <2>4. AttemptHolds' BY <1>13 DEF FetchFails, KeysInv, AttemptHolds
  <2>5. TrustIsFresh BY <1>13 DEF FetchFails, TrustIsFresh
  <2> QED BY <1>10, <1>11, <2>2, <2>3, <2>4, <2>5 DEF KeysInv
<1> QED BY <1>12, <1>13

LEMMA KeysTick ==
    ASSUME JwksTypeOK, KeysInv, Tick
    PROVE  JwksTypeOK' /\ KeysInv'
<1>1. /\ Settled /\ Age
      /\ UNCHANGED <<place, kid, keys, queue, renewed, published, up, failed>>
  BY DEF Tick
<1>2. /\ fetched' = IF fetched < KeysTtl THEN fetched + 1 ELSE fetched
      /\ attempt' = IF attempt < MinRefresh THEN attempt + 1 ELSE attempt
      /\ sent' = IF sent < MinRefresh THEN sent + 1 ELSE sent
  BY <1>1 DEF Age
<1>3. JwksTypeOK' BY <1>1, <1>2, JwksAssumption DEF JwksTypeOK
<1>4. QueueHolds' BY <1>1 DEF KeysInv, QueueHolds
<1>5. renewed = {}
  <2>1. CASE queue = <<>>
    <3>1. PICK n \in 0..Len(queue) : renewed = {queue[i] : i \in 1..n}
      BY DEF KeysInv, RenewedHolds
    <3>2. n = 0 BY <2>1, <3>1
    <3> QED BY <3>1, <3>2
  <2>2. CASE queue # <<>>
    <3>1. Head(queue) \in Requests BY <2>2 DEF JwksTypeOK
    <3> QED BY <1>1, <2>2, <3>1 DEF Settled, KeysInv, QueueHolds
  <2> QED BY <2>1, <2>2
<1>6. RenewedHolds' BY <1>1, <1>5, ZenonT(30) DEF KeysInv, RenewedHolds
<1>7. AttemptHolds'
  BY <1>1, <1>2, JwksAssumption DEF KeysInv, AttemptHolds, Throttled, JwksTypeOK
<1> QED BY <1>3, <1>4, <1>6, <1>7 DEF KeysInv

(* Every step is one of the cache, the clock's, or aside of the cache.       *)
LEMMA StepsOfKeys ==
    ASSUME Next
    PROVE  \/ (Rotate \/ Flip) \/ Tick
           \/ \E r \in Requests :
                 \/ Enter(r) \/ FetchArrives(r) \/ FetchFails(r) \/ Aside(r)
                 \/ \E k \in Kids \union {Forged} : Arrive(r, k)
<1>1. CASE JwksStep BY <1>1 DEF JwksStep
<1>2. CASE Tick BY <1>2
<1>3. ASSUME NEW r \in Requests, ArriveByKey(r) \/ Proceed(r) PROVE Aside(r)
  <2>1. Enforce(r) /\ place[r] \in {"idle", "authenticated"}
    BY <1>3 DEF ArriveByKey, Proceed
  <2> QED BY <2>1 DEF Enforce, Aside, Outside, jwksRest
<1>4. ASSUME NEW r \in Requests, CountWindow(r) PROVE Aside(r)
  BY <1>4 DEF CountWindow, Aside, Outside, jwksRest
<1>5. ASSUME NEW r \in Requests, Grant(r) \/ Refuse(r) PROVE Aside(r)
  BY <1>5 DEF Grant, Refuse, Leave, Aside, Outside, jwksRest
<1>6. ASSUME NEW r \in Requests,
             CountFails(r) \/ CountResent(r) \/ RefundFails(r) \/ RefundResent(r)
      PROVE  Aside(r)
  BY <1>6 DEF CountFails, CountResent, RefundFails, RefundResent, Leave, Aside,
              Outside, jwksRest
<1>7. ASSUME NEW r \in Requests, NEW k \in Kids \union {Forged}, ArriveByToken(r, k)
      PROVE  Arrive(r, k)
  BY <1>7 DEF ArriveByToken
<1> QED BY <1>1, <1>2, <1>3, <1>4, <1>5, <1>6, <1>7 DEF Next

LEMMA KeysStay ==
    ASSUME KeysInv, UNCHANGED <<place, fetched, attempt, queue, renewed, sent, failed>>
    PROVE  KeysInv' /\ FetchFloor /\ TrustIsFresh
<1>1. QueueHolds' BY DEF KeysInv, QueueHolds
<1>2. RenewedHolds' BY DEF KeysInv, RenewedHolds
<1>3. AttemptHolds' BY DEF KeysInv, AttemptHolds, Throttled
<1>4. FetchFloor /\ TrustIsFresh BY DEF FetchFloor, TrustIsFresh
<1> QED BY <1>1, <1>2, <1>3, <1>4 DEF KeysInv

LEMMA KeysStep ==
    ASSUME JwksTypeOK, KeysInv, [Next]_vars
    PROVE  /\ JwksTypeOK' /\ KeysInv'
           /\ [FetchFloor /\ TrustIsFresh]_vars
<1>1. CASE UNCHANGED vars
  <2>1. UNCHANGED jwksVars BY <1>1 DEF vars
  <2>2. JwksTypeOK' BY <2>1 DEF jwksVars, JwksTypeOK
  <2> QED BY <1>1, <2>1, <2>2, KeysStay DEF jwksVars
<1>2. CASE Rotate
  <2>1. JwksTypeOK' BY <1>2 DEF Rotate, JwksTypeOK
  <2> QED BY <1>2, <2>1, KeysStay DEF Rotate
<1>3. CASE Flip
  <2>1. JwksTypeOK' BY <1>3 DEF Flip, JwksTypeOK
  <2> QED BY <1>3, <2>1, KeysStay DEF Flip
<1>4. CASE Tick
  <2>1. place' = place BY <1>4 DEF Tick
  <2> QED BY <1>4, <2>1, KeysTick DEF FetchFloor, TrustIsFresh
<1>5. ASSUME NEW r \in Requests, Aside(r) PROVE FetchFloor /\ TrustIsFresh
  <2>1. PICK to \in {"idle", "counting", "counted"} : place' = [place EXCEPT ![r] = to]
    BY <1>5 DEF Aside, Move
  <2>2. \A q \in Requests : place'[q] = place[q] \/ place'[q] = to
    BY <2>1 DEF JwksTypeOK
  <2> QED BY <2>2 DEF FetchFloor, TrustIsFresh
<1> QED BY <1>1, <1>2, <1>3, <1>4, <1>5, StepsOfKeys, KeysAside, KeysArrive, KeysEnter,
           KeysFetchEnds

(* Supabase is asked no more often than the floor of JwksCache._refresh      *)
(* allows, and a token is accepted on a fresh set, or after a fetch that     *)
(* failed: however many tokens come at once and whatever kids they name.     *)
THEOREM KeySetCorrect == Spec => KeySetIsCurrent
<1>1. Init => JwksTypeOK /\ KeysInv BY KeysInit
<1>2. JwksTypeOK /\ KeysInv /\ [Next]_vars
          => (JwksTypeOK /\ KeysInv)' /\ [FetchFloor /\ TrustIsFresh]_vars
  BY KeysStep
<1> QED BY <1>1, <1>2, PTL DEF Spec, KeySetIsCurrent


-----------------------------------------------------------------------------
LEMMA ChecksTyped ==
    /\ Checks \in Seq(Windows) /\ Len(Checks) \in Nat \ {0}
    /\ \A i \in 1..Len(Checks) : Checks[i] \in Windows
    /\ \A i, j \in 1..Len(Checks) : Checks[i] = Checks[j] => i = j
    /\ \A w \in Windows : \E i \in 1..Len(Checks) : Checks[i] = w
<1>1. Checks \in Seq(Windows) /\ Checks # <<>>
      /\ \A i, j \in DOMAIN Checks : Checks[i] = Checks[j] => i = j
  BY GateAssumption
<1>2. Len(Checks) \in Nat \ {0} /\ DOMAIN Checks = 1..Len(Checks) BY <1>1
<1> QED BY <1>1, <1>2 DEF Windows, ToSet

-----------------------------------------------------------------------------
(* A step of one request.                                                    *)

(* Nothing but r moves, in time or in the limiter.                           *)
Alone(r) ==
    /\ \A q \in Requests \ {r} :
          /\ place'[q] = place[q] /\ counted'[q] = counted[q]
          /\ began'[q] = began[q] /\ (q \in late' <=> q \in late)
    /\ clock' = clock /\ limited' = limited
    /\ twice => twice'

LEMMA OthersStay ==
    ASSUME NEW r \in Requests, Alone(r), NEW q \in Requests \ {r}
    PROVE  /\ InLimiter(q)' <=> InLimiter(q)
           /\ RequestInv(q) => RequestInv(q)'
           /\ \A w : /\ Own(q, w)' = Own(q, w)
                     /\ Seen(q, w)' <=> Seen(q, w)
                     /\ Within(q, w)' <=> Within(q, w)
<1>1. /\ place'[q] = place[q] /\ counted'[q] = counted[q]
      /\ began'[q] = began[q] /\ (q \in late' <=> q \in late)
      /\ clock' = clock /\ limited' = limited /\ (twice => twice')
  BY DEF Alone
<1>2. InLimiter(q)' <=> InLimiter(q) BY <1>1 DEF InLimiter
<1>3. RequestInv(q) => RequestInv(q)'
  <2> SUFFICES ASSUME RequestInv(q) PROVE RequestInv(q)' OBVIOUS
  <2>2. ~twice' => \A i \in DOMAIN counted'[q] : counted'[q][i].prev >= 0
    BY <1>1 DEF RequestInv
  <2>3. InLimiter(q)' =>
          limited' /\ clock' = IF q \in late' THEN (began'[q] + 1) % Widest ELSE began'[q]
    BY <1>1, <1>2 DEF RequestInv
  <2> QED BY <1>1, <1>2, <2>2, <2>3 DEF RequestInv
<1>4. ASSUME NEW w
      PROVE  /\ Own(q, w)' = Own(q, w)
             /\ Seen(q, w)' <=> Seen(q, w)
             /\ Within(q, w)' <=> Within(q, w)
  <2>1. Own(q, w)' = Own(q, w) BY <1>1 DEF Own
  <2>2. Seen(q, w)' <=> Seen(q, w) BY <1>1 DEF Seen
  <2>3. Within(q, w)' <=> Within(q, w)
    BY <1>1 DEF Within, Elapsed, Fits, SlidingCount
  <2> QED BY <2>1, <2>2, <2>3
<1> QED BY <1>2, <1>3, <1>4

(* So each set of requests changes by r at most.                             *)
LEMMA OthersCount ==
    ASSUME NEW r \in Requests, Alone(r), NEW w, NEW b
    PROVE  /\ Live(w, b)' \ {r} = Live(w, b) \ {r}
           /\ Eligible(w, b)' \ {r} = Eligible(w, b) \ {r}
           /\ Straddling(w)' \ {r} = Straddling(w) \ {r}
<1>1. \A q \in Requests \ {r} :
         /\ InLimiter(q)' <=> InLimiter(q)
         /\ Own(q, w)' = Own(q, w)
         /\ Seen(q, w)' <=> Seen(q, w)
         /\ Within(q, w)' <=> Within(q, w)
  BY OthersStay
<1>2. Live(w, b)' \ {r} = Live(w, b) \ {r} BY <1>1 DEF Live
<1>3. Eligible(w, b)' \ {r} = Eligible(w, b) \ {r}
  <2>1. \A q : q \in Eligible(w, b) <=> q \in Live(w, b) /\ Within(q, w) BY DEF Eligible
  <2>2. \A q : q \in Eligible(w, b)' <=> q \in Live(w, b)' /\ Within(q, w)' BY DEF Eligible
  <2>3. \A q : (q \in Live(w, b) => q \in Requests) /\ (q \in Live(w, b)' => q \in Requests)
    BY DEF Live
  <2> QED BY <1>1, <1>2, <2>1, <2>2, <2>3
<1>4. Straddling(w)' \ {r} = Straddling(w) \ {r} BY <1>1 DEF Straddling
<1> QED BY <1>2, <1>3, <1>4

LEMMA CardMoves ==
    ASSUME NEW r, NEW S \in SUBSET Requests, NEW T \in SUBSET Requests,
           S \ {r} = T \ {r}
    PROVE  /\ Cardinality(S) \in Nat /\ Cardinality(T) \in Nat
           /\ (r \in S <=> r \in T) => Cardinality(T) = Cardinality(S)
           /\ r \in S /\ r \notin T => Cardinality(T) = Cardinality(S) - 1
           /\ r \notin S /\ r \in T => Cardinality(T) = Cardinality(S) + 1
<1>1. IsFiniteSet(S) /\ IsFiniteSet(T) BY JwksAssumption, FS_Subset
<1>2. Cardinality(S) \in Nat /\ Cardinality(T) \in Nat BY <1>1, FS_CardinalityType
<1>3. (r \in S <=> r \in T) => Cardinality(T) = Cardinality(S)
  <2>1. (r \in S <=> r \in T) => S = T OBVIOUS
  <2> QED BY <2>1
<1>4. ASSUME r \in S, r \notin T PROVE Cardinality(T) = Cardinality(S) - 1
  <2>1. T = S \ {r} BY <1>4
  <2> QED BY <1>1, <1>4, <2>1, FS_RemoveElement
<1>5. ASSUME r \notin S, r \in T PROVE Cardinality(T) = Cardinality(S) + 1
  <2>1. S = T \ {r} BY <1>5
  <2>2. Cardinality(S) = Cardinality(T) - 1 BY <1>1, <1>5, <2>1, FS_RemoveElement
  <2> QED BY <1>2, <2>2
<1> QED BY <1>2, <1>3, <1>4, <1>5

LEMMA SetsTyped ==
    ASSUME NEW w, NEW b
    PROVE  /\ Live(w, b) \in SUBSET Requests /\ Cardinality(Live(w, b)) \in Nat
           /\ Eligible(w, b) \in SUBSET Live(w, b) /\ Cardinality(Eligible(w, b)) \in Nat
           /\ Cardinality(Eligible(w, b)) <= Cardinality(Live(w, b))
           /\ Straddling(w) \in SUBSET Requests /\ Cardinality(Straddling(w)) \in Nat
           /\ Cardinality(Requests) \in Nat
<1>1. /\ Live(w, b) \in SUBSET Requests
      /\ Eligible(w, b) \in SUBSET Live(w, b)
      /\ Straddling(w) \in SUBSET Requests
  BY DEF Live, Eligible, Straddling
<1>2. IsFiniteSet(Live(w, b)) /\ IsFiniteSet(Straddling(w))
  BY <1>1, JwksAssumption, FS_Subset
<1>3. IsFiniteSet(Eligible(w, b)) /\ Cardinality(Eligible(w, b)) <= Cardinality(Live(w, b))
  BY <1>1, <1>2, FS_Subset
<1> QED BY <1>1, <1>2, <1>3, JwksAssumption, FS_CardinalityType


(* Two buckets weigh no more when either holds less, or later.               *)
LEMMA UseShrinks ==
    ASSUME NEW w \in Windows, NEW a \in Nat, NEW c \in Nat, NEW n \in Nat, NEW m \in Nat,
           NEW x \in 0..Width[w], NEW y \in 0..Width[w], c <= a, m <= n, x <= y
    PROVE  SlidingUse(w, c, m, y) <= SlidingUse(w, a, n, x)
<1>1. PICK W \in Nat : W = Width[w] BY WindowTyped
<1>2. PICK u \in Nat, v \in Nat : u = W - x /\ v = W - y BY <1>1
<1>3. v <= u BY <1>1, <1>2
<1>4. c * v <= a * v BY Scale
<1>5. v * a <= u * a BY <1>3, Scale
<1>6. m * W <= n * W BY Scale
<1>7. c * v + m * W <= a * u + n * W BY <1>4, <1>5, <1>6
<1> QED BY <1>1, <1>2, <1>7 DEF SlidingUse

LEMMA ClockInWindow ==
    ASSUME NEW t \in Nat, NEW w \in Windows
    PROVE  t % Width[w] \in 0..(Width[w] - 1) /\ t % Width[w] \in 0..Width[w]
<1>1. PICK W \in Nat \ {0} : W = Width[w] BY WindowTyped
<1>2. t % W \in 0..(W - 1) OBVIOUS
<1>3. t % W \in 0..W BY <1>2
<1> QED BY <1>1, <1>2, <1>3

(* A step of one request that takes no room of a window keeps what is said   *)
(* of it.                                                                    *)
LEMMA WindowEases ==
    ASSUME LimitTyped, LimitTyped', NEW w \in Windows, WindowInv(w),
           clock' = clock, twice => twice', faults' = 0 => faults = 0,
           \A b \in 0..1 :
              /\ ~twice' => count'[w][b] - count[w][b]
                            >= (granted'[w][b] + Cardinality(Live(w, b)'))
                               - (granted[w][b] + Cardinality(Live(w, b)))
              /\ faults' = 0 => count'[w][b] - count[w][b]
                            = (granted'[w][b] + Cardinality(Live(w, b)'))
                               - (granted[w][b] + Cardinality(Live(w, b)))
              /\ granted'[w][b] + Cardinality(Eligible(w, b)')
                     <= granted[w][b] + Cardinality(Eligible(w, b)),
           granted'[w][1] + Cardinality(Live(w, 1)') + Cardinality(Straddling(w)')
               <= granted[w][1] + Cardinality(Live(w, 1)) + Cardinality(Straddling(w))
    PROVE  WindowInv(w)'
<1>1. \A b \in 0..1 :
         /\ count[w][b] \in Int /\ count'[w][b] \in Int
         /\ granted[w][b] \in Nat /\ granted'[w][b] \in Nat
         /\ Cardinality(Live(w, b)) \in Nat /\ Cardinality(Eligible(w, b)) \in Nat
  <2>1. \A b \in 0..1 : b \in 0..2 OBVIOUS
  <2>2. \A b \in 0..1 : count[w][b] \in Int /\ count'[w][b] \in Int
    BY <2>1, SMTT(30) DEF LimitTyped
  <2>3. \A b \in 0..1 : granted[w][b] \in Nat /\ granted'[w][b] \in Nat
    BY SMTT(30) DEF LimitTyped
  <2> QED BY <2>2, <2>3, SetsTyped
<1>2. \A b \in 0..1 :
         /\ Cardinality(Live(w, b)') \in Nat /\ Cardinality(Eligible(w, b)') \in Nat
  <2> SUFFICES ASSUME NEW b \in 0..1
               PROVE  /\ Cardinality(Live(w, b)') \in Nat
                      /\ Cardinality(Eligible(w, b)') \in Nat
    OBVIOUS
  <2>1. /\ Live(w, b)' \in SUBSET Requests
        /\ Eligible(w, b)' \in SUBSET Requests
    BY DEF Live, Eligible
  <2> QED BY <2>1, CardMoves
<1>3. Cardinality(Straddling(w)) \in Nat /\ Cardinality(Straddling(w)') \in Nat
      /\ Cardinality(Requests) \in Nat
  <2>1. Straddling(w)' \in SUBSET Requests BY DEF Straddling
  <2> QED BY <2>1, CardMoves, SetsTyped
<1>4. Limit[w] \in Nat /\ Width[w] \in Nat BY WindowTyped
<1>5. CounterCovers(w)'
  <2> SUFFICES ASSUME NEW b \in 0..1
               PROVE  /\ ~twice' => count'[w][b] >= granted'[w][b] + Cardinality(Live(w, b)')
                      /\ faults' = 0 => count'[w][b] = granted'[w][b] + Cardinality(Live(w, b)')
    BY DEF CounterCovers
  <2>1. /\ ~twice => count[w][b] >= granted[w][b] + Cardinality(Live(w, b))
        /\ faults = 0 => count[w][b] = granted[w][b] + Cardinality(Live(w, b))
    BY DEF WindowInv, CounterCovers
  <2>2. PICK k \in Int, m \in Int, g \in Int, h \in Int :
           /\ k = count[w][b] /\ m = count'[w][b]
           /\ g = granted[w][b] + Cardinality(Live(w, b))
           /\ h = granted'[w][b] + Cardinality(Live(w, b)')
    <3>1. count[w][b] \in Int /\ count'[w][b] \in Int BY <1>1
    <3>2. granted[w][b] + Cardinality(Live(w, b)) \in Int BY <1>1
    <3>3. granted'[w][b] + Cardinality(Live(w, b)') \in Int BY <1>1, <1>2
    <3> QED BY <3>1, <3>2, <3>3
  <2>3. (~twice' => m - k >= h - g) /\ (faults' = 0 => m - k = h - g) BY <2>2
  <2>4. (~twice => k >= g) /\ (faults = 0 => k = g) BY <2>1, <2>2
  <2>5. (~twice' => m >= h) /\ (faults' = 0 => m = h) BY <2>3, <2>4
  <2> QED BY <2>2, <2>5
<1>6. RoomIsKept(w)'
  <2> SUFFICES ASSUME NEW b \in 0..1, ~twice'
               PROVE  granted'[w][b] + Cardinality(Eligible(w, b)') <= Limit[w]
    BY DEF RoomIsKept
  <2>1. granted[w][b] + Cardinality(Eligible(w, b)) <= Limit[w]
    BY DEF WindowInv, RoomIsKept
  <2> QED BY <1>1, <1>2, <1>4, <2>1
<1>7. RoomSlides(w)'
  <2>1. PICK a \in Nat, n \in Nat :
           /\ a = granted[w][1] + Cardinality(Live(w, 1)) + Cardinality(Straddling(w))
           /\ n = granted[w][0] + Cardinality(Eligible(w, 0))
    BY <1>1, <1>3
  <2>2. PICK c \in Nat, m \in Nat :
           /\ c = granted'[w][1] + Cardinality(Live(w, 1)') + Cardinality(Straddling(w)')
           /\ m = granted'[w][0] + Cardinality(Eligible(w, 0)')
    BY <1>1, <1>2, <1>3
  <2>3. c <= a /\ m <= n BY <2>1, <2>2
  <2>4. PICK x \in 0..Width[w] : x = clock % Width[w]
    <3>1. clock \in Nat BY WidestCovers DEF LimitTyped
    <3> QED BY <3>1, ClockInWindow
  <2>5. PICK top \in Int : top = (Limit[w] + Cardinality(Requests) - 1) * Width[w]
    BY <1>3, <1>4
  <2>6. ~twice => n = 0 \/ SlidingUse(w, a, n, x) <= top
    BY <2>1, <2>4, <2>5 DEF WindowInv, RoomSlides
  <2>7. SlidingUse(w, c, m, x) <= SlidingUse(w, a, n, x) BY <2>3, UseShrinks
  <2>8. SlidingUse(w, c, m, x) \in Int /\ SlidingUse(w, a, n, x) \in Int
    BY UseTyped
  <2>9. ~twice' => m = 0 \/ SlidingUse(w, c, m, x) <= top
    BY <2>3, <2>6, <2>7, <2>8
  <2> QED BY <2>2, <2>4, <2>5, <2>9 DEF RoomSlides, SlidingUse
<1> QED BY <1>5, <1>6, <1>7 DEF WindowInv


(* One that leaves the sums as they are keeps it too.                        *)
LEMMA WindowSame ==
    ASSUME LimitTyped, LimitTyped', NEW w \in Windows, WindowInv(w),
           UNCHANGED <<clock, count, twice, faults>>,
           \A b \in 0..1 :
              /\ granted'[w][b] + Cardinality(Live(w, b)')
                     = granted[w][b] + Cardinality(Live(w, b))
              /\ granted'[w][b] + Cardinality(Eligible(w, b)')
                     = granted[w][b] + Cardinality(Eligible(w, b)),
           Cardinality(Straddling(w)') = Cardinality(Straddling(w))
    PROVE  WindowInv(w)'
<1>1. CounterCovers(w)' BY DEF WindowInv, CounterCovers
<1>2. RoomIsKept(w)' BY DEF WindowInv, RoomIsKept
<1>3. RoomSlides(w)'
  <2>1. 0 \in 0..1 /\ 1 \in 0..1 OBVIOUS
  <2> QED BY <2>1 DEF WindowInv, RoomSlides, SlidingUse
<1> QED BY <1>1, <1>2, <1>3 DEF WindowInv

LEMMA WindowStays ==
    ASSUME LimitTyped, LimitTyped', NEW w \in Windows, WindowInv(w),
           UNCHANGED <<clock, count, granted, twice, faults>>,
           \A b \in 0..1 :
              /\ Cardinality(Live(w, b)') = Cardinality(Live(w, b))
              /\ Cardinality(Eligible(w, b)') = Cardinality(Eligible(w, b)),
           Cardinality(Straddling(w)') = Cardinality(Straddling(w))
    PROVE  WindowInv(w)'
BY WindowSame

LEMMA OwnTyped ==
    ASSUME NEW r, NEW w
    PROVE  /\ Own(r, w) \in 0..1 /\ Own(r, w) + 1 \in 0..2 /\ Own(r, w) \in 0..2
           /\ r \notin late => Own(r, w) = 0
BY DEF Own

(* How the sets change when r is under way before or after the step, or not. *)
LEMMA MembersMove ==
    ASSUME NEW r \in Requests, Alone(r), NEW w, NEW b
    PROVE  /\ Cardinality(Live(w, b)') \in Nat
           /\ Cardinality(Eligible(w, b)') \in Nat
           /\ Cardinality(Straddling(w)') \in Nat
           /\ (r \in Live(w, b) <=> r \in Live(w, b)')
                 => Cardinality(Live(w, b)') = Cardinality(Live(w, b))
           /\ r \in Live(w, b) /\ r \notin Live(w, b)'
                 => Cardinality(Live(w, b)') = Cardinality(Live(w, b)) - 1
           /\ r \notin Live(w, b) /\ r \in Live(w, b)'
                 => Cardinality(Live(w, b)') = Cardinality(Live(w, b)) + 1
           /\ (r \in Eligible(w, b) <=> r \in Eligible(w, b)')
                 => Cardinality(Eligible(w, b)') = Cardinality(Eligible(w, b))
           /\ r \in Eligible(w, b) /\ r \notin Eligible(w, b)'
                 => Cardinality(Eligible(w, b)') = Cardinality(Eligible(w, b)) - 1
           /\ r \notin Eligible(w, b) /\ r \in Eligible(w, b)'
                 => Cardinality(Eligible(w, b)') = Cardinality(Eligible(w, b)) + 1
           /\ (r \in Straddling(w) <=> r \in Straddling(w)')
                 => Cardinality(Straddling(w)') = Cardinality(Straddling(w))
           /\ r \in Straddling(w) /\ r \notin Straddling(w)'
                 => Cardinality(Straddling(w)') = Cardinality(Straddling(w)) - 1
           /\ r \notin Straddling(w) /\ r \in Straddling(w)'
                 => Cardinality(Straddling(w)') = Cardinality(Straddling(w)) + 1
<1>1. /\ Live(w, b) \in SUBSET Requests /\ Live(w, b)' \in SUBSET Requests
      /\ Eligible(w, b) \in SUBSET Requests /\ Eligible(w, b)' \in SUBSET Requests
      /\ Straddling(w) \in SUBSET Requests /\ Straddling(w)' \in SUBSET Requests
  BY DEF Live, Eligible, Straddling
<1>2. /\ Live(w, b) \ {r} = Live(w, b)' \ {r}
      /\ Eligible(w, b) \ {r} = Eligible(w, b)' \ {r}
      /\ Straddling(w) \ {r} = Straddling(w)' \ {r}
  BY OthersCount
<1>3. PICK A \in SUBSET Requests, B \in SUBSET Requests :
         A = Live(w, b) /\ B = Live(w, b)' /\ A \ {r} = B \ {r} BY <1>1, <1>2
<1>4. PICK C \in SUBSET Requests, D \in SUBSET Requests :
         C = Eligible(w, b) /\ D = Eligible(w, b)' /\ C \ {r} = D \ {r} BY <1>1, <1>2
<1>5. PICK E \in SUBSET Requests, F \in SUBSET Requests :
         E = Straddling(w) /\ F = Straddling(w)' /\ E \ {r} = F \ {r} BY <1>1, <1>2
<1>6. /\ Cardinality(B) \in Nat
      /\ (r \in A <=> r \in B) => Cardinality(B) = Cardinality(A)
      /\ r \in A /\ r \notin B => Cardinality(B) = Cardinality(A) - 1
      /\ r \notin A /\ r \in B => Cardinality(B) = Cardinality(A) + 1
  BY <1>3, CardMoves
<1>7. /\ Cardinality(D) \in Nat
      /\ (r \in C <=> r \in D) => Cardinality(D) = Cardinality(C)
      /\ r \in C /\ r \notin D => Cardinality(D) = Cardinality(C) - 1
      /\ r \notin C /\ r \in D => Cardinality(D) = Cardinality(C) + 1
  BY <1>4, CardMoves
<1>8. /\ Cardinality(F) \in Nat
      /\ (r \in E <=> r \in F) => Cardinality(F) = Cardinality(E)
      /\ r \in E /\ r \notin F => Cardinality(F) = Cardinality(E) - 1
      /\ r \notin E /\ r \in F => Cardinality(F) = Cardinality(E) + 1
  BY <1>5, CardMoves
<1> QED BY <1>3, <1>4, <1>5, <1>6, <1>7, <1>8

(* A request outside the limiter, which may enter it.                        *)
LEMMA LimitOutside ==
    ASSUME LimitInv, JwksTypeOK', NEW r \in Requests, NEW to, ~InLimiter(r),
           place' = [place EXCEPT ![r] = to],
           UNCHANGED <<clock, count, late, counted, faults, granted, twice, limited>>,
           \/ to \notin {"counting", "counted"} /\ began' = began
           \/ to = "counting" /\ limited /\ began' = [began EXCEPT ![r] = clock]
    PROVE  LimitInv'
<1>1. LimitTyped /\ RequestInv(r) BY DEF LimitInv
<1>2. place'[r] = to /\ \A q \in Requests \ {r} : place'[q] = place[q]
  BY <1>1 DEF LimitTyped, JwksTypeOK
<1>3. \A q \in Requests \ {r} : began'[q] = began[q] BY <1>1 DEF LimitTyped
<1>4. Alone(r) BY <1>2, <1>3 DEF Alone
<1>5. r \notin late BY <1>1 DEF LimitTyped
<1>6. began' \in [Requests -> 0..(Widest - 1)] BY <1>1 DEF LimitTyped
<1>7. late' \subseteq {q \in Requests : InLimiter(q)'}
  <2>1. \A q \in Requests \ {r} : InLimiter(q)' <=> InLimiter(q) BY <1>4, OthersStay
  <2> QED BY <1>1, <1>5, <2>1 DEF LimitTyped
<1>8. LimitTyped' BY <1>1, <1>6, <1>7 DEF LimitTyped
<1>9. counted[r] = <<>> /\ counted'[r] = <<>> BY <1>1 DEF RequestInv
<1>10. RequestInv(r)'
  <2>1. DOMAIN counted'[r] = {} /\ Len(counted'[r]) = 0 BY <1>9
  <2>2. place'[r] # "counted" BY <1>2
  <2>3. 0 < Len(Checks) BY ChecksTyped
  <2>4. InLimiter(r)' => limited' /\ clock' = began'[r]
    BY <1>1, <1>2 DEF InLimiter, LimitTyped
  <2> QED BY <1>5, <1>9, <2>1, <2>2, <2>3, <2>4 DEF RequestInv
<1>11. ASSUME NEW w \in Windows PROVE WindowInv(w)'
  <2>1. \A b \in 0..1 : r \notin Live(w, b) /\ r \notin Eligible(w, b)
    BY DEF Live, Eligible
  <2>2. r \notin Straddling(w) BY DEF Straddling
  <2>3. ~Seen(r, w)' BY <1>9 DEF Seen
  <2>4. \A b \in 0..1 : r \notin Live(w, b)' /\ r \notin Eligible(w, b)'
    BY <2>3 DEF Live, Eligible
  <2>5. Own(r, w)' = 0 BY <1>5 DEF Own
  <2>6. r \notin Straddling(w)' BY <2>5 DEF Straddling
  <2>7. \A b \in 0..1 :
           /\ Cardinality(Live(w, b)') = Cardinality(Live(w, b))
           /\ Cardinality(Eligible(w, b)') = Cardinality(Eligible(w, b))
    BY <1>4, <2>1, <2>4, MembersMove
  <2>8. Cardinality(Straddling(w)') = Cardinality(Straddling(w))
    BY <1>4, <2>2, <2>6, MembersMove
  <2>9. WindowInv(w) BY DEF LimitInv
  <2> QED BY <1>1, <1>8, <2>7, <2>8, <2>9, WindowStays
<1>12. \A q \in Requests : RequestInv(q)' BY <1>4, <1>10, OthersStay DEF LimitInv
<1> QED BY <1>8, <1>11, <1>12 DEF LimitInv


LEMMA LimitStays ==
    ASSUME LimitInv, JwksTypeOK', UNCHANGED <<limitVars, place, limited>>
    PROVE  LimitInv'
<1>1. /\ clock' = clock /\ count' = count /\ began' = began /\ late' = late
      /\ counted' = counted /\ faults' = faults /\ granted' = granted
      /\ twice' = twice /\ place' = place /\ limited' = limited
  BY DEF limitVars
<1>2. \A q : InLimiter(q)' <=> InLimiter(q) BY <1>1 DEF InLimiter
<1>3. LimitTyped' BY <1>1, <1>2 DEF LimitInv, LimitTyped
<1>4. ASSUME NEW q \in Requests PROVE RequestInv(q)'
  BY <1>1, <1>2 DEF LimitInv, RequestInv
<1>5. ASSUME NEW w \in Windows PROVE WindowInv(w)'
  <2>1. \A q : /\ Own(q, w)' = Own(q, w)
               /\ Seen(q, w)' <=> Seen(q, w)
               /\ Within(q, w)' <=> Within(q, w)
    BY <1>1 DEF Own, Seen, Within, Elapsed, Fits, SlidingCount
  <2>2. \A b : Live(w, b)' = Live(w, b) BY <1>2, <2>1 DEF Live
  <2>3. \A b : Eligible(w, b)' = Eligible(w, b) BY <2>1, <2>2 DEF Eligible
  <2>4. Straddling(w)' = Straddling(w) BY <1>2, <2>1 DEF Straddling
  <2>5. LimitTyped /\ WindowInv(w) BY DEF LimitInv
  <2> QED BY <1>1, <1>3, <2>2, <2>3, <2>4, <2>5, WindowStays
<1> QED BY <1>1, <1>3, <1>4, <1>5 DEF LimitInv

(* A request that leaves.                                                    *)
LEMMA LeaveAlone ==
    ASSUME LimitInv, JwksTypeOK', NEW r \in Requests, Leave(r),
           UNCHANGED <<clock, limited>>, twice => twice'
    PROVE  /\ Alone(r) /\ ~InLimiter(r)' /\ RequestInv(r)'
           /\ began' \in [Requests -> 0..(Widest - 1)]
           /\ late' \subseteq {q \in Requests : InLimiter(q)'}
           /\ counted' \in [Requests -> Seq([cur : Int, prev : Int])]
           /\ \A q \in Requests : Len(counted'[q]) <= Len(Checks)
<1>1. LimitTyped BY DEF LimitInv
<1>2. /\ place'[r] = "idle" /\ \A q \in Requests \ {r} : place'[q] = place[q]
  BY <1>1 DEF Leave, Move, LimitTyped, JwksTypeOK
<1>3. \A q \in Requests \ {r} : began'[q] = began[q] BY <1>1 DEF Leave, LimitTyped
<1>4. counted'[r] = <<>> /\ \A q \in Requests \ {r} : counted'[q] = counted[q]
  BY <1>1 DEF Leave, LimitTyped
<1>5. late' = late \ {r} BY DEF Leave
<1>6. Alone(r) BY <1>2, <1>3, <1>4, <1>5 DEF Alone
<1>7. ~InLimiter(r)' BY <1>2 DEF InLimiter
<1>8. RequestInv(r)' BY <1>2, <1>4, <1>7 DEF RequestInv
<1>9. began' \in [Requests -> 0..(Widest - 1)]
  <2>1. 0 \in 0..(Widest - 1) BY WidestCovers
  <2> QED BY <1>1, <2>1 DEF Leave, LimitTyped
<1>10. late' \subseteq {q \in Requests : InLimiter(q)'}
  <2>1. \A q \in Requests \ {r} : InLimiter(q)' <=> InLimiter(q) BY <1>6, OthersStay
  <2> QED BY <1>1, <1>5, <2>1 DEF LimitTyped
<1>11. counted' \in [Requests -> Seq([cur : Int, prev : Int])]
  <2>1. <<>> \in Seq([cur : Int, prev : Int]) OBVIOUS
  <2> QED BY <1>1, <2>1 DEF Leave, LimitTyped
<1>12. \A q \in Requests : Len(counted'[q]) <= Len(Checks)
  <2>1. Len(<<>>) <= Len(Checks) BY ChecksTyped
  <2> QED BY <1>1, <1>4, <2>1 DEF LimitTyped
<1> QED BY <1>6, <1>7, <1>8, <1>9, <1>10, <1>11, <1>12

LEMMA LeaveCounts ==
    ASSUME NEW r \in Requests, Alone(r), ~InLimiter(r)', NEW w, NEW b
    PROVE  /\ r \notin Live(w, b)' /\ r \notin Eligible(w, b)' /\ r \notin Straddling(w)'
           /\ Cardinality(Live(w, b)')
                 = Cardinality(Live(w, b)) - IF r \in Live(w, b) THEN 1 ELSE 0
           /\ Cardinality(Eligible(w, b)')
                 = Cardinality(Eligible(w, b)) - IF r \in Eligible(w, b) THEN 1 ELSE 0
           /\ Cardinality(Straddling(w)')
                 = Cardinality(Straddling(w)) - IF r \in Straddling(w) THEN 1 ELSE 0
<1>1. r \notin Live(w, b)' /\ r \notin Eligible(w, b)' /\ r \notin Straddling(w)'
  BY DEF Live, Eligible, Straddling
<1>2. /\ Cardinality(Live(w, b)) \in Nat /\ Cardinality(Eligible(w, b)) \in Nat
      /\ Cardinality(Straddling(w)) \in Nat
  BY SetsTyped
<1> QED BY <1>1, <1>2, MembersMove

(* Whoever is counted is counted in every window.                            *)
LEMMA CountedIsSeen ==
    ASSUME LimitInv, NEW r \in Requests, place[r] = "counted", NEW w \in Windows
    PROVE  /\ Seen(r, w) /\ InLimiter(r)
           /\ r \in Live(w, Own(r, w))
           /\ \A b \in 0..1 : r \in Live(w, b) <=> b = Own(r, w)
           /\ r \notin Straddling(w)
           /\ Over(r) = {} => r \in Eligible(w, Own(r, w))
<1>1. counted[r] \in Seq([cur : Int, prev : Int]) /\ Len(counted[r]) = Len(Checks)
  BY DEF LimitInv, LimitTyped, RequestInv
<1>2. DOMAIN counted[r] = 1..Len(Checks) BY <1>1
<1>3. PICK i \in 1..Len(Checks) : Checks[i] = w BY ChecksTyped
<1>4. Seen(r, w) /\ InLimiter(r) BY <1>2, <1>3 DEF Seen, InLimiter
<1>5. ASSUME Over(r) = {} PROVE Within(r, w)
  <2>1. Fits(w, counted[r][i].prev, counted[r][i].cur, Elapsed(r, w))
    BY <1>2, <1>3, <1>5 DEF Over
  <2> QED BY <1>2, <1>3, <2>1 DEF Within
<1> QED BY <1>4, <1>5 DEF Live, Eligible, Straddling

LEMMA LimitGrant ==
    ASSUME LimitInv, JwksTypeOK', NEW r \in Requests, Grant(r)
    PROVE  LimitInv'
<1>1. LimitTyped BY DEF LimitInv
<1>2. UNCHANGED <<clock, limited, count, faults, twice>> /\ Leave(r) /\ place[r] = "counted"
  BY DEF Grant, deployment
<1>3. Alone(r) /\ ~InLimiter(r)' /\ RequestInv(r)' BY <1>2, LeaveAlone
<1>4. granted' = [w \in Windows |-> [granted[w] EXCEPT ![Own(r, w)] = @ + 1]]
  BY DEF Grant
<1>5. ASSUME NEW w \in Windows
      PROVE  /\ granted'[w] \in [0..1 -> Nat]
             /\ \A b \in 0..1 : granted'[w][b]
                   = granted[w][b] + IF b = Own(r, w) THEN 1 ELSE 0
  <2>1. PICK f \in [0..1 -> Nat], o \in 0..1 : f = granted[w] /\ o = Own(r, w)
    BY <1>1, OwnTyped DEF LimitTyped
  <2>2. granted'[w] = [f EXCEPT ![o] = f[o] + 1] BY <1>4, <2>1
  <2> QED BY <2>1, <2>2
<1>6. granted' \in [Windows -> [0..1 -> Nat]] BY <1>4, <1>5
<1>7. LimitTyped' BY <1>1, <1>2, <1>6, LeaveAlone DEF LimitTyped
<1>8. ASSUME NEW w \in Windows PROVE WindowInv(w)'
  <2>1. \A b \in 0..1 :
           /\ r \in Live(w, b) <=> b = Own(r, w)
           /\ r \in Eligible(w, b) <=> b = Own(r, w)
    BY <1>2, CountedIsSeen DEF Grant, Eligible
  <2>2. r \notin Straddling(w) BY <1>2, CountedIsSeen
  <2>3. ASSUME NEW b \in 0..1
        PROVE  /\ granted'[w][b] + Cardinality(Live(w, b)')
                     = granted[w][b] + Cardinality(Live(w, b))
               /\ granted'[w][b] + Cardinality(Eligible(w, b)')
                     = granted[w][b] + Cardinality(Eligible(w, b))
    <3>1. PICK d \in 0..1 : d = IF b = Own(r, w) THEN 1 ELSE 0 OBVIOUS
    <3>2. granted'[w][b] = granted[w][b] + d BY <1>5, <3>1
    <3>3. /\ Cardinality(Live(w, b)') = Cardinality(Live(w, b)) - d
          /\ Cardinality(Eligible(w, b)') = Cardinality(Eligible(w, b)) - d
      BY <1>3, <2>1, <3>1, LeaveCounts
    <3>4. granted[w][b] \in Nat BY <1>1 DEF LimitTyped
    <3>5. Cardinality(Live(w, b)) \in Nat /\ Cardinality(Eligible(w, b)) \in Nat
      BY SetsTyped
    <3> QED BY <3>2, <3>3, <3>4, <3>5
  <2>4. Cardinality(Straddling(w)') = Cardinality(Straddling(w))
    BY <1>3, <2>2, LeaveCounts, SetsTyped
  <2>5. WindowInv(w) BY DEF LimitInv
  <2> QED BY <1>1, <1>2, <1>7, <2>3, <2>4, <2>5, WindowSame
<1>9. \A q \in Requests : RequestInv(q)' BY <1>3, OthersStay DEF LimitInv
<1> QED BY <1>2, <1>7, <1>8, <1>9 DEF LimitInv


LEMMA GiveBackTyped ==
    ASSUME LimitTyped, NEW r, NEW times \in Int, GiveBack(r, times)
    PROVE  /\ count' \in [Windows -> [0..2 -> Int]]
           /\ \A w \in Windows, b \in 0..2 :
                 count'[w][b] = count[w][b] - IF b = Own(r, w) THEN times ELSE 0
<1>1. count' = [w \in Windows |-> [count[w] EXCEPT ![Own(r, w)] = @ - times]]
  BY DEF GiveBack
<1>2. ASSUME NEW w \in Windows
      PROVE  /\ count'[w] \in [0..2 -> Int]
             /\ \A b \in 0..2 : count'[w][b]
                   = count[w][b] - IF b = Own(r, w) THEN times ELSE 0
  <2>1. PICK f \in [0..2 -> Int], o \in 0..2 : f = count[w] /\ o = Own(r, w)
    BY OwnTyped DEF LimitTyped
  <2>2. count'[w] = [f EXCEPT ![o] = f[o] - times] BY <1>1, <2>1
  <2> QED BY <2>1, <2>2
<1> QED BY <1>1, <1>2

LEMMA LimitRefuse ==
    ASSUME LimitInv, JwksTypeOK', NEW r \in Requests, Refuse(r)
    PROVE  LimitInv'
<1>1. LimitTyped BY DEF LimitInv
<1>2. /\ UNCHANGED <<clock, limited, granted, faults, twice>> /\ Leave(r)
      /\ place[r] = "counted" /\ GiveBack(r, 1)
  BY DEF Refuse, deployment
<1>3. Alone(r) /\ ~InLimiter(r)' /\ RequestInv(r)' BY <1>2, LeaveAlone
<1>4. /\ count' \in [Windows -> [0..2 -> Int]]
      /\ \A w \in Windows, b \in 0..2 :
            count'[w][b] = count[w][b] - IF b = Own(r, w) THEN 1 ELSE 0
  BY <1>1, <1>2, GiveBackTyped
<1>5. LimitTyped' BY <1>1, <1>2, <1>4, LeaveAlone DEF LimitTyped
<1>6. ASSUME NEW w \in Windows PROVE WindowInv(w)'
  <2>1. \A b \in 0..1 : r \in Live(w, b) <=> b = Own(r, w)
    BY <1>2, CountedIsSeen
  <2>2. ASSUME NEW b \in 0..1
        PROVE  /\ count'[w][b] - count[w][b]
                     = (granted'[w][b] + Cardinality(Live(w, b)'))
                        - (granted[w][b] + Cardinality(Live(w, b)))
               /\ granted'[w][b] + Cardinality(Eligible(w, b)')
                     <= granted[w][b] + Cardinality(Eligible(w, b))
               /\ granted'[w][b] + Cardinality(Live(w, b)')
                     <= granted[w][b] + Cardinality(Live(w, b))
    <3>1. PICK d \in 0..1 : d = IF b = Own(r, w) THEN 1 ELSE 0 OBVIOUS
    <3>2. PICK e \in 0..1 : e = IF r \in Eligible(w, b) THEN 1 ELSE 0 OBVIOUS
    <3>3. count'[w][b] = count[w][b] - d BY <1>4, <3>1
    <3>4. /\ Cardinality(Live(w, b)') = Cardinality(Live(w, b)) - d
          /\ Cardinality(Eligible(w, b)') = Cardinality(Eligible(w, b)) - e
      BY <1>3, <2>1, <3>1, <3>2, LeaveCounts
    <3>5. granted[w][b] \in Nat /\ count[w][b] \in Int /\ granted'[w][b] = granted[w][b]
      BY <1>1, <1>2 DEF LimitTyped
    <3>6. Cardinality(Live(w, b)) \in Nat /\ Cardinality(Eligible(w, b)) \in Nat
      BY SetsTyped
    <3> QED BY <3>3, <3>4, <3>5, <3>6
  <2>3. Cardinality(Straddling(w)') <= Cardinality(Straddling(w))
    BY <1>3, LeaveCounts, SetsTyped
  <2>4. WindowInv(w) BY DEF LimitInv
  <2>5. granted'[w][1] + Cardinality(Live(w, 1)') + Cardinality(Straddling(w)')
           <= granted[w][1] + Cardinality(Live(w, 1)) + Cardinality(Straddling(w))
    <3>1. granted'[w][1] + Cardinality(Live(w, 1)')
             <= granted[w][1] + Cardinality(Live(w, 1))
      BY <2>2
    <3>2. /\ granted[w][1] \in Nat /\ granted'[w][1] \in Nat
          /\ Cardinality(Live(w, 1)) \in Nat /\ Cardinality(Live(w, 1)') \in Nat
          /\ Cardinality(Straddling(w)) \in Nat /\ Cardinality(Straddling(w)') \in Nat
      <4>1. granted[w][1] \in Nat BY <1>1 DEF LimitTyped
      <4>2. granted'[w][1] = granted[w][1] BY <1>2
      <4> QED BY <1>3, <4>1, <4>2, SetsTyped, MembersMove
    <3> QED BY <2>3, <3>1, <3>2
  <2>6. \A b \in 0..1 : /\ count'[w][b] \in Int /\ count[w][b] \in Int
                        /\ granted[w][b] \in Nat /\ granted'[w][b] \in Nat
    <3>1. \A b \in 0..1 : b \in 0..2 OBVIOUS
    <3>2. \A b \in 0..1 : count[w][b] \in Int /\ granted[w][b] \in Nat
      BY <1>1, <3>1 DEF LimitTyped
    <3>3. \A b \in 0..1 : count'[w][b] \in Int BY <1>4, <3>1
    <3> QED BY <1>2, <3>2, <3>3
  <2>7. \A b \in 0..1 :
           /\ Cardinality(Live(w, b)) \in Nat /\ Cardinality(Live(w, b)') \in Nat
    BY <1>3, SetsTyped, MembersMove
  <2>8. \A b \in 0..1 : ~twice' =>
           count'[w][b] - count[w][b]
              >= (granted'[w][b] + Cardinality(Live(w, b)'))
                  - (granted[w][b] + Cardinality(Live(w, b)))
    BY <2>2, <2>6, <2>7
  <2> QED BY <1>1, <1>2, <1>5, <2>2, <2>4, <2>5, <2>8, WindowEases
<1>7. \A q \in Requests : RequestInv(q)' BY <1>3, OthersStay DEF LimitInv
<1>8. ASSUME NEW w \in Windows PROVE count'[w][2] = count[w][2]
  <2>1. Own(r, w) # 2 BY DEF Own
  <2>2. 2 \in 0..2 OBVIOUS
  <2>3. count'[w][2] = count[w][2] - 0 BY <1>4, <2>1, <2>2
  <2>4. count[w][2] \in Int BY <1>1, <2>2 DEF LimitTyped
  <2> QED BY <2>3, <2>4
<1> QED BY <1>2, <1>5, <1>6, <1>7, <1>8 DEF LimitInv

(* A fault leaves nothing to be shown of an exact count.                     *)
LEMMA FaultCounts ==
    ASSUME LimitTyped, NEW r, Fault(r)
    PROVE  faults' \in 0..MaxFaults /\ faults' # 0
BY GateAssumption DEF LimitTyped, Fault

(* A pipeline that fails: r leaves, and what it counted stays.               *)
LEMMA LimitFails ==
    ASSUME LimitInv, JwksTypeOK', NEW r \in Requests, CountFails(r) \/ RefundFails(r)
    PROVE  LimitInv'
<1>1. LimitTyped BY DEF LimitInv
<1>2. /\ UNCHANGED <<clock, limited, count, granted, twice>> /\ Leave(r) /\ Fault(r)
  BY DEF CountFails, RefundFails, deployment
<1>3. Alone(r) /\ ~InLimiter(r)' /\ RequestInv(r)' BY <1>2, LeaveAlone
<1>4. faults' \in 0..MaxFaults /\ faults' # 0 BY <1>1, <1>2, FaultCounts
<1>5. LimitTyped' BY <1>1, <1>2, <1>4, LeaveAlone DEF LimitTyped
<1>6. ASSUME NEW w \in Windows PROVE WindowInv(w)'
  <2>1. ASSUME NEW b \in 0..1
        PROVE  /\ count'[w][b] - count[w][b]
                     >= (granted'[w][b] + Cardinality(Live(w, b)'))
                        - (granted[w][b] + Cardinality(Live(w, b)))
               /\ granted'[w][b] + Cardinality(Eligible(w, b)')
                     <= granted[w][b] + Cardinality(Eligible(w, b))
               /\ granted'[w][b] + Cardinality(Live(w, b)') + Cardinality(Straddling(w)')
                     <= granted[w][b] + Cardinality(Live(w, b)) + Cardinality(Straddling(w))
    <3>1. PICK d \in 0..1, e \in 0..1, f \in 0..1 :
             /\ d = IF r \in Live(w, b) THEN 1 ELSE 0
             /\ e = IF r \in Eligible(w, b) THEN 1 ELSE 0
             /\ f = IF r \in Straddling(w) THEN 1 ELSE 0
      OBVIOUS
    <3>2. /\ Cardinality(Live(w, b)') = Cardinality(Live(w, b)) - d
          /\ Cardinality(Eligible(w, b)') = Cardinality(Eligible(w, b)) - e
          /\ Cardinality(Straddling(w)') = Cardinality(Straddling(w)) - f
      BY <1>3, <3>1, LeaveCounts
    <3>3. /\ granted[w][b] \in Nat /\ count[w][b] \in Int
          /\ granted'[w][b] = granted[w][b] /\ count'[w][b] = count[w][b]
      BY <1>1, <1>2 DEF LimitTyped
    <3>4. /\ Cardinality(Live(w, b)) \in Nat /\ Cardinality(Eligible(w, b)) \in Nat
          /\ Cardinality(Straddling(w)) \in Nat
      BY SetsTyped
    <3> QED BY <3>2, <3>3, <3>4
  <2>2. WindowInv(w) BY DEF LimitInv
  <2> QED BY <1>1, <1>2, <1>4, <1>5, <2>1, <2>2, WindowEases
<1>7. \A q \in Requests : RequestInv(q)' BY <1>3, OthersStay DEF LimitInv
<1> QED BY <1>2, <1>4, <1>5, <1>6, <1>7 DEF LimitInv

(* A refund applied twice: nothing is promised from then on but the types.   *)
LEMMA LimitRefundResent ==
    ASSUME LimitInv, JwksTypeOK', NEW r \in Requests, RefundResent(r)
    PROVE  LimitInv'
<1>1. LimitTyped BY DEF LimitInv
<1>2. /\ UNCHANGED <<clock, limited, granted>> /\ Leave(r) /\ Fault(r)
      /\ GiveBack(r, 2) /\ twice' = TRUE
  BY DEF RefundResent, deployment
<1>3. Alone(r) /\ ~InLimiter(r)' /\ RequestInv(r)' BY <1>2, LeaveAlone
<1>4. faults' \in 0..MaxFaults /\ faults' # 0 BY <1>1, <1>2, FaultCounts
<1>5. count' \in [Windows -> [0..2 -> Int]] BY <1>1, <1>2, GiveBackTyped
<1>6. LimitTyped' BY <1>1, <1>2, <1>4, <1>5, LeaveAlone DEF LimitTyped
<1>7. ASSUME NEW w \in Windows PROVE WindowInv(w)'
  BY <1>2, <1>4 DEF WindowInv, CounterCovers, RoomIsKept, RoomSlides
<1>8. \A q \in Requests : RequestInv(q)' BY <1>3, OthersStay DEF LimitInv
<1> QED BY <1>2, <1>4, <1>6, <1>7, <1>8 DEF LimitInv


(* A pipeline sent again: r begins anew, in the buckets it was in.           *)
LEMMA LimitResent ==
    ASSUME LimitInv, JwksTypeOK', NEW r \in Requests, CountResent(r)
    PROVE  LimitInv'
<1>1. LimitTyped BY DEF LimitInv
<1>2. /\ UNCHANGED <<clock, limited, count, granted, twice, began, late>>
      /\ Fault(r) /\ InLimiter(r) /\ Move(r, "counting")
      /\ counted' = [counted EXCEPT ![r] = <<>>]
  BY DEF CountResent, deployment, InLimiter
<1>3. place'[r] = "counting" /\ \A q \in Requests \ {r} : place'[q] = place[q]
  BY <1>1, <1>2 DEF Move, LimitTyped, JwksTypeOK
<1>4. counted'[r] = <<>> /\ \A q \in Requests \ {r} : counted'[q] = counted[q]
  BY <1>1, <1>2 DEF LimitTyped
<1>5. Alone(r) BY <1>2, <1>3, <1>4 DEF Alone
<1>6. InLimiter(r)' BY <1>3 DEF InLimiter
<1>7. RequestInv(r)'
  <2>1. RequestInv(r) BY DEF LimitInv
  <2>2. DOMAIN counted'[r] = {} /\ Len(counted'[r]) = 0 BY <1>4
  <2>3. 0 < Len(Checks) BY ChecksTyped
  <2>4. limited' /\ clock' = IF r \in late' THEN (began'[r] + 1) % Widest ELSE began'[r]
    BY <1>2, <2>1 DEF RequestInv
  <2> QED BY <1>3, <1>6, <2>2, <2>3, <2>4 DEF RequestInv
<1>8. faults' \in 0..MaxFaults /\ faults' # 0 BY <1>1, <1>2, FaultCounts
<1>9. LimitTyped'
  <2>1. counted' \in [Requests -> Seq([cur : Int, prev : Int])]
    <3>1. <<>> \in Seq([cur : Int, prev : Int]) OBVIOUS
    <3> QED BY <1>1, <1>2, <3>1 DEF LimitTyped
  <2>2. \A q \in Requests : Len(counted'[q]) <= Len(Checks)
    <3>1. Len(<<>>) <= Len(Checks) BY ChecksTyped
    <3> QED BY <1>1, <1>4, <3>1 DEF LimitTyped
  <2>3. late' \subseteq {q \in Requests : InLimiter(q)'}
    <3>1. \A q \in Requests \ {r} : InLimiter(q)' <=> InLimiter(q) BY <1>5, OthersStay
    <3> QED BY <1>1, <1>2, <1>6, <3>1 DEF LimitTyped
  <2> QED BY <1>1, <1>2, <1>8, <2>1, <2>2, <2>3 DEF LimitTyped
<1>10. ASSUME NEW w \in Windows PROVE WindowInv(w)'
  <2>1. ~Seen(r, w)' BY <1>4 DEF Seen
  <2>2. Own(r, w)' = Own(r, w) BY <1>2 DEF Own
  <2>3. \A b \in 0..1 : r \notin Live(w, b)' /\ r \notin Eligible(w, b)'
    BY <2>1 DEF Live, Eligible
  <2>4. r \in Straddling(w)' <=> Own(r, w) = 1 BY <1>6, <2>1, <2>2 DEF Straddling
  <2>5. ASSUME NEW b \in 0..1
        PROVE  /\ Cardinality(Live(w, b)') <= Cardinality(Live(w, b))
               /\ Cardinality(Eligible(w, b)') <= Cardinality(Eligible(w, b))
    BY <1>5, <2>3, MembersMove, SetsTyped
  <2>6. Cardinality(Live(w, 1)') + Cardinality(Straddling(w)')
           = Cardinality(Live(w, 1)) + Cardinality(Straddling(w))
    <3>1. /\ Cardinality(Live(w, 1)) \in Nat /\ Cardinality(Straddling(w)) \in Nat
          /\ r \notin Live(w, 1)'
      BY <2>3, SetsTyped
    <3>2. CASE r \in Live(w, 1)
      <4>1. Own(r, w) = 1 /\ Seen(r, w) BY <3>2 DEF Live
      <4>2. r \notin Straddling(w) /\ r \in Straddling(w)' BY <2>4, <4>1 DEF Straddling
      <4>3. Cardinality(Live(w, 1)') = Cardinality(Live(w, 1)) - 1
        BY <1>5, <3>1, <3>2, MembersMove
      <4>4. Cardinality(Straddling(w)') = Cardinality(Straddling(w)) + 1
        BY <1>5, <4>2, MembersMove
      <4> QED BY <3>1, <4>3, <4>4
    <3>3. CASE r \notin Live(w, 1)
      <4>1. r \in Straddling(w)' <=> r \in Straddling(w)
        BY <1>2, <2>4, <3>3 DEF Straddling, Live
      <4>2. Cardinality(Live(w, 1)') = Cardinality(Live(w, 1))
        BY <1>5, <3>1, <3>3, MembersMove
      <4>3. Cardinality(Straddling(w)') = Cardinality(Straddling(w))
        BY <1>5, <4>1, MembersMove
      <4> QED BY <4>2, <4>3
    <3> QED BY <3>2, <3>3
  <2>7. ASSUME NEW b \in 0..1
        PROVE  /\ granted[w][b] \in Nat /\ count[w][b] \in Int
               /\ granted'[w][b] = granted[w][b] /\ count'[w][b] = count[w][b]
               /\ Cardinality(Live(w, b)) \in Nat /\ Cardinality(Live(w, b)') \in Nat
               /\ Cardinality(Eligible(w, b)) \in Nat
               /\ Cardinality(Eligible(w, b)') \in Nat
    <3>1. /\ granted[w][b] \in Nat /\ count[w][b] \in Int
          /\ granted'[w][b] = granted[w][b] /\ count'[w][b] = count[w][b]
      BY <1>1, <1>2 DEF LimitTyped
    <3> QED BY <1>5, <3>1, MembersMove, SetsTyped
  <2>8. \A b \in 0..1 :
           /\ count'[w][b] - count[w][b]
                 >= (granted'[w][b] + Cardinality(Live(w, b)'))
                    - (granted[w][b] + Cardinality(Live(w, b)))
           /\ granted'[w][b] + Cardinality(Eligible(w, b)')
                 <= granted[w][b] + Cardinality(Eligible(w, b))
    BY <2>5, <2>7
  <2>9. granted'[w][1] + Cardinality(Live(w, 1)') + Cardinality(Straddling(w)')
           <= granted[w][1] + Cardinality(Live(w, 1)) + Cardinality(Straddling(w))
    <3>1. Cardinality(Straddling(w)) \in Nat /\ Cardinality(Straddling(w)') \in Nat
      BY <1>5, MembersMove, SetsTyped
    <3> QED BY <2>6, <2>7, <3>1
  <2>10. WindowInv(w) BY DEF LimitInv
  <2> QED BY <1>1, <1>2, <1>8, <1>9, <2>8, <2>9, <2>10, WindowEases
<1>11. \A q \in Requests : RequestInv(q)' BY <1>5, <1>7, OthersStay DEF LimitInv
<1> QED BY <1>2, <1>8, <1>9, <1>10, <1>11 DEF LimitInv


-----------------------------------------------------------------------------
(* A request that is counted into its next window.                           *)
LEMMA CountFacts ==
    ASSUME LimitInv, JwksTypeOK', NEW r \in Requests, CountWindow(r)
    PROVE  /\ Alone(r) /\ LimitTyped' /\ RequestInv(r)'
           /\ InLimiter(r) /\ InLimiter(r)'
           /\ UNCHANGED <<clock, began, late, faults, granted, twice>>
           /\ \E w \in Windows, n \in Int, p \in Int :
                 /\ n = count[w][Own(r, w)] + 1 /\ p = count[w][Own(r, w) + 1]
                 /\ ~twice => p >= 0
                 /\ \A v \in Windows, b \in 0..2 :
                       count'[v][b] = IF v = w /\ b = Own(r, w) THEN n ELSE count[v][b]
                 /\ \A v \in Windows \ {w} :
                       /\ Seen(r, v)' <=> Seen(r, v)
                       /\ Within(r, v)' <=> Within(r, v)
                 /\ ~Seen(r, w) /\ Seen(r, w)'
                 /\ Within(r, w)' => Fits(w, p, n, Elapsed(r, w))
<1>1. LimitTyped /\ RequestInv(r) BY DEF LimitInv
<1>2. /\ place[r] = "counting" /\ InLimiter(r)
      /\ UNCHANGED <<clock, began, late, faults, granted, twice, limited>>
  BY DEF CountWindow, deployment, InLimiter
<1>3. PICK s \in Seq([cur : Int, prev : Int]) : s = counted[r] BY <1>1 DEF LimitTyped
<1>4. PICK k \in 1..Len(Checks) : k = Len(s) + 1 /\ Len(s) \in Nat
  <2>1. Len(s) < Len(Checks) BY <1>1, <1>2, <1>3 DEF RequestInv
  <2>2. Len(s) \in Nat /\ Len(Checks) \in Nat BY ChecksTyped
  <2>3. Len(s) + 1 \in 1..Len(Checks) BY <2>1, <2>2
  <2> QED BY <2>2, <2>3
<1>5. PICK w \in Windows : w = Checks[k] BY <1>4, ChecksTyped
<1>6. PICK o \in 0..1 : o = Own(r, w) BY OwnTyped
<1>7. PICK f \in [0..2 -> Int] : f = count[w] BY <1>1 DEF LimitTyped
<1>8. PICK n \in Int, p \in Int : n = f[o] + 1 /\ p = f[o + 1]
  <2>1. o \in 0..2 /\ o + 1 \in 0..2 OBVIOUS
  <2>2. f[o] \in Int /\ f[o + 1] \in Int BY <2>1
  <2>3. f[o] + 1 \in Int BY <2>2
  <2> QED BY <2>2, <2>3
<1>9. PICK c \in [cur : Int, prev : Int] :
         c = [cur |-> n, prev |-> p] /\ c.cur = n /\ c.prev = p
  <2>1. [cur |-> n, prev |-> p] \in [cur : Int, prev : Int] OBVIOUS
  <2> QED BY <2>1
<1>10. counted' = [counted EXCEPT ![r] = Append(s, c)]
  BY <1>3, <1>4, <1>5, <1>6, <1>7, <1>8, <1>9 DEF CountWindow
<1>11. count' = [count EXCEPT ![w] = [f EXCEPT ![o] = n]]
  BY <1>3, <1>4, <1>5, <1>6, <1>7, <1>8 DEF CountWindow
<1>12. PICK t \in Seq([cur : Int, prev : Int]) :
          /\ t = Append(s, c) /\ Len(t) = k /\ t[k] = c /\ DOMAIN t = 1..k
          /\ \A i \in 1..Len(s) : t[i] = s[i]
  <2>1. Append(s, c) \in Seq([cur : Int, prev : Int]) OBVIOUS
  <2>2. /\ Len(Append(s, c)) = Len(s) + 1 /\ Append(s, c)[Len(s) + 1] = c
        /\ \A i \in 1..Len(s) : Append(s, c)[i] = s[i]
    BY <1>3, <1>9
  <2>3. DOMAIN Append(s, c) = 1..(Len(s) + 1) BY <2>1, <2>2
  <2> QED BY <1>4, <2>1, <2>2, <2>3
<1>13. counted'[r] = t /\ \A q \in Requests \ {r} : counted'[q] = counted[q]
  BY <1>1, <1>10, <1>12 DEF LimitTyped
<1>14. PICK to \in {"counting", "counted"} :
          /\ to = IF Len(t) = Len(Checks) THEN "counted" ELSE "counting"
          /\ place' = [place EXCEPT ![r] = to]
  BY <1>13 DEF CountWindow, Move
<1>15. place'[r] = to /\ \A q \in Requests \ {r} : place'[q] = place[q]
  BY <1>1, <1>14 DEF LimitTyped, JwksTypeOK
<1>16. Alone(r) BY <1>2, <1>13, <1>15 DEF Alone
<1>17. InLimiter(r)' BY <1>15 DEF InLimiter
<1>18. \A v \in Windows, b \in 0..2 :
          count'[v][b] = IF v = w /\ b = o THEN n ELSE count[v][b]
  <2>1. count'[w] = [f EXCEPT ![o] = n] BY <1>1, <1>11 DEF LimitTyped
  <2>2. \A v \in Windows : v # w => count'[v] = count[v] BY <1>1, <1>11 DEF LimitTyped
  <2>3. \A b \in 0..2 : count'[w][b] = IF b = o THEN n ELSE count[w][b]
    BY <1>7, <2>1
  <2> QED BY <2>2, <2>3
<1>19. ~twice => p >= 0
  <2> SUFFICES ASSUME ~twice PROVE f[o + 1] >= 0 BY <1>8
  <2>1. CASE o = 0
    <3>1. count[w][1] >= granted[w][1] + Cardinality(Live(w, 1))
      BY DEF LimitInv, WindowInv, CounterCovers
    <3>2. granted[w][1] \in Nat /\ count[w][1] \in Int BY <1>1, SMTT(30) DEF LimitTyped
    <3>3. Cardinality(Live(w, 1)) \in Nat BY SetsTyped
    <3>4. PICK g \in Nat, m \in Nat, x \in Int :
             g = granted[w][1] /\ m = Cardinality(Live(w, 1)) /\ x = count[w][1]
      BY <3>2, <3>3
    <3>5. x >= g + m BY <3>1, <3>4
    <3>6. x >= 0 BY <3>5
    <3> QED BY <1>7, <2>1, <3>4, <3>6
  <2>2. CASE o = 1 BY <1>7, <2>2 DEF LimitInv
  <2> QED BY <2>1, <2>2
<1>20. LimitTyped'
  <2>1. count' \in [Windows -> [0..2 -> Int]]
    <3>1. [f EXCEPT ![o] = n] \in [0..2 -> Int] BY <1>7
    <3> QED BY <1>1, <1>11, <3>1 DEF LimitTyped
  <2>2. counted' \in [Requests -> Seq([cur : Int, prev : Int])]
    BY <1>1, <1>10, <1>12 DEF LimitTyped
  <2>3. \A q \in Requests : Len(counted'[q]) <= Len(Checks)
    <3>1. Len(t) <= Len(Checks) BY <1>12, ChecksTyped
    <3> QED BY <1>1, <1>13, <3>1 DEF LimitTyped
  <2>4. late' \subseteq {q \in Requests : InLimiter(q)'}
    <3>1. \A q \in Requests \ {r} : InLimiter(q)' <=> InLimiter(q) BY <1>16, OthersStay
    <3> QED BY <1>1, <1>2, <1>17, <3>1 DEF LimitTyped
  <2> QED BY <1>1, <1>2, <2>1, <2>2, <2>3, <2>4 DEF LimitTyped
<1>21. RequestInv(r)'
  <2>1. ~twice' => \A i \in DOMAIN counted'[r] : counted'[r][i].prev >= 0
    <3> SUFFICES ASSUME ~twice, NEW i \in 1..k PROVE t[i].prev >= 0
      BY <1>2, <1>12, <1>13
    <3>1. CASE i = k BY <1>9, <1>12, <1>19, <3>1
    <3>2. CASE i # k
      <4>1. i \in 1..Len(s) BY <1>4, <3>2
      <4>2. i \in DOMAIN s /\ t[i] = s[i] BY <1>12, <4>1
      <4> QED BY <1>1, <1>3, <4>2 DEF RequestInv
    <3> QED BY <3>1, <3>2
  <2>2. limited' /\ clock' = IF r \in late' THEN (began'[r] + 1) % Widest ELSE began'[r]
    BY <1>1, <1>2 DEF RequestInv
  <2>3. /\ place'[r] = "counting" => Len(counted'[r]) < Len(Checks)
        /\ place'[r] = "counted" => Len(counted'[r]) = Len(Checks)
    <3>1. k <= Len(Checks) /\ Len(Checks) \in Nat BY ChecksTyped
    <3> QED BY <1>12, <1>13, <1>14, <1>15, <3>1
  <2> QED BY <1>17, <2>1, <2>2, <2>3 DEF RequestInv
<1>22. DOMAIN s = 1..Len(s) /\ k \notin 1..Len(s) BY <1>3, <1>4
<1>23. \A i \in 1..k : i # k => i \in 1..Len(s) BY <1>4
<1>24. \A i \in 1..Len(s) : i \in 1..k /\ i \in 1..Len(Checks)
  <2>1. Len(Checks) \in Nat BY ChecksTyped
  <2> QED BY <1>4, <2>1, SMTT(30)
<1>25. \A v \in Windows \ {w} :
          /\ Seen(r, v)' <=> Seen(r, v)
          /\ Within(r, v)' <=> Within(r, v)
  <2> SUFFICES ASSUME NEW v \in Windows \ {w}
               PROVE  /\ Seen(r, v)' <=> Seen(r, v)
                      /\ Within(r, v)' <=> Within(r, v)
    OBVIOUS
  <2>1. Elapsed(r, v)' = Elapsed(r, v) BY <1>2 DEF Elapsed
  <2>2. Checks[k] # v BY <1>5
  <2>3. Seen(r, v)' <=> Seen(r, v)
    BY <1>3, <1>12, <1>13, <1>22, <1>23, <1>24, <2>2 DEF Seen
  <2>4. Within(r, v)' => Within(r, v)
    <3> SUFFICES ASSUME Within(r, v)' PROVE Within(r, v) OBVIOUS
    <3>1. PICK i \in 1..k : /\ Checks[i] = v
                            /\ Fits(v, t[i].prev, t[i].cur, Elapsed(r, v)')
      BY <1>12, <1>13 DEF Within, Fits, SlidingCount
    <3>2. i \in 1..Len(s) BY <1>23, <2>2, <3>1
    <3>3. Fits(v, s[i].prev, s[i].cur, Elapsed(r, v)) BY <1>12, <2>1, <3>1, <3>2
    <3> QED BY <1>3, <1>22, <3>1, <3>2, <3>3 DEF Within
  <2>5. Within(r, v) => Within(r, v)'
    <3> SUFFICES ASSUME Within(r, v) PROVE Within(r, v)' OBVIOUS
    <3>1. PICK i \in 1..Len(s) : /\ Checks[i] = v
                                 /\ Fits(v, s[i].prev, s[i].cur, Elapsed(r, v))
      BY <1>3, <1>22 DEF Within
    <3>2. i \in 1..k /\ t[i] = s[i] BY <1>12, <1>24
    <3>3. Fits(v, t[i].prev, t[i].cur, Elapsed(r, v)') BY <2>1, <3>1, <3>2
    <3> QED BY <1>12, <1>13, <3>1, <3>2, <3>3 DEF Within, Fits, SlidingCount
  <2> QED BY <2>3, <2>4, <2>5
<1>26. \A i \in 1..Len(s) : Checks[i] # w
  BY <1>5, <1>22, <1>24, ChecksTyped
<1>27. ~Seen(r, w) BY <1>3, <1>22, <1>26 DEF Seen
<1>28. Seen(r, w)'
  <2>1. k \in DOMAIN t BY <1>4, <1>12
  <2> QED BY <1>5, <1>13, <2>1 DEF Seen
<1>29. Within(r, w)' => Fits(w, p, n, Elapsed(r, w))
  <2> SUFFICES ASSUME Within(r, w)' PROVE Fits(w, p, n, Elapsed(r, w)) OBVIOUS
  <2>1. PICK i \in 1..k : /\ Checks[i] = w
                          /\ Fits(w, t[i].prev, t[i].cur, Elapsed(r, w)')
    BY <1>12, <1>13 DEF Within, Fits, SlidingCount
  <2>2. i = k BY <1>23, <1>26, <2>1
  <2>3. Elapsed(r, w)' = Elapsed(r, w) BY <1>2 DEF Elapsed
  <2> QED BY <1>9, <1>12, <2>1, <2>2, <2>3
<1>30. n = count[w][Own(r, w)] + 1 /\ p = count[w][Own(r, w) + 1]
  BY <1>6, <1>7, <1>8
<1>31. \A v \in Windows, b \in 0..2 :
          count'[v][b] = IF v = w /\ b = Own(r, w) THEN n ELSE count[v][b]
  BY <1>6, <1>18
<1> QED BY <1>2, <1>16, <1>17, <1>19, <1>20, <1>21, <1>25, <1>27, <1>28, <1>29,
           <1>30, <1>31


(* What a request that fits has room for: p before and n now at time e, in a *)
(* window of width W and limit L ...                                         *)
LEMMA RoomAlone ==
    ASSUME NEW W \in Nat \ {0}, NEW L \in Nat, NEW p \in Nat, NEW n \in Int,
           NEW e \in 0..W, p * (W - e) + n * W <= L * W
    PROVE  n <= L
<1>1. PICK v \in Nat : v = W - e OBVIOUS
<1>2. p * v + n * W <= L * W BY <1>1
<1>3. 0 * v <= p * v BY Scale
<1>4. n * W <= L * W BY <1>2, <1>3
<1> QED BY <1>4, Cancel

(* ... and together with k others, who were at the boundary.                 *)
LEMMA RoomLeft ==
    ASSUME NEW W \in Nat \ {0}, NEW L \in Nat, NEW k \in Nat, NEW p \in Nat,
           NEW n \in Int, NEW e \in 0..W, NEW x \in 0..W, e <= x,
           p * (W - e) + n * W <= L * W,
           NEW a \in Nat, NEW m \in Nat, a <= p + k, m <= n
    PROVE  a * (W - x) + m * W <= (L + k) * W
<1>1. PICK v \in Nat, u \in Nat : v = W - e /\ u = W - x OBVIOUS
<1>2. p * v + n * W <= L * W BY <1>1
<1>3. a * u <= (p + k) * u BY Scale
<1>4. u <= v /\ u <= W BY <1>1
<1>5. u * p <= v * p BY <1>4, Scale
<1>6. u * k <= W * k BY <1>4, Scale
<1>7. m * W <= n * W BY Scale
<1>8. (p + k) * u = u * p + u * k OBVIOUS
<1>9. a * u + m * W <= v * p + W * k + n * W BY <1>3, <1>5, <1>6, <1>7, <1>8
<1>10. v * p + W * k + n * W <= L * W + W * k BY <1>2
<1> QED BY <1>1, <1>9, <1>10

(* In its own bucket, a request read the clock no later than it is now.      *)
LEMMA ElapsedGrows ==
    ASSUME LimitInv, NEW r \in Requests, InLimiter(r), NEW w \in Windows, Own(r, w) = 0
    PROVE  Elapsed(r, w) <= clock % Width[w]
<1>1. PICK t \in 0..(Widest - 1) : t = began[r] BY DEF LimitInv, LimitTyped
<1>2. clock = IF r \in late THEN (t + 1) % Widest ELSE t
  BY <1>1 DEF LimitInv, RequestInv
<1>3. t \in Nat BY WidestCovers
<1>4. PICK W \in Nat \ {0} : W = Width[w] BY WindowTyped
<1>5. CASE r \in late
  <2>1. (t + 1) % W # 0 BY <1>1, <1>4, <1>5 DEF Own
  <2>2. (t + 1) % W = (t % W) + 1 BY <1>3, <2>1, ModNext
  <2>3. clock % W = (t + 1) % W BY <1>2, <1>4, <1>5, ClockKeepsPlace
  <2>4. t % W \in Int BY <1>3
  <2> QED BY <1>1, <1>4, <2>2, <2>3, <2>4 DEF Elapsed
<1>6. CASE r \notin late
  <2>1. t % W <= t % W BY <1>3
  <2> QED BY <1>1, <1>2, <1>4, <1>6, <2>1 DEF Elapsed
<1> QED BY <1>5, <1>6

LEMMA WindowCounted ==
    ASSUME LimitInv, LimitTyped', NEW r \in Requests, Alone(r),
           InLimiter(r), InLimiter(r)',
           UNCHANGED <<clock, began, late, faults, granted, twice>>,
           NEW w \in Windows, NEW n \in Int, NEW p \in Int,
           n = count[w][Own(r, w)] + 1, p = count[w][Own(r, w) + 1],
           ~twice => p >= 0,
           \A b \in 0..2 : count'[w][b] = IF b = Own(r, w) THEN n ELSE count[w][b],
           ~Seen(r, w), Seen(r, w)',
           Within(r, w)' => Fits(w, p, n, Elapsed(r, w))
    PROVE  WindowInv(w)'
<1>1. LimitTyped /\ WindowInv(w) BY DEF LimitInv
<1>2. PICK o \in 0..1 : o = Own(r, w) BY OwnTyped
<1>3. Own(r, w)' = o BY <1>2 DEF Own
<1>4. PICK d \in 0..1 : d = IF Within(r, w)' THEN 1 ELSE 0 OBVIOUS
<1>5. /\ Limit[w] \in Nat /\ Width[w] \in Nat \ {0} BY WindowTyped
<1>6. ASSUME NEW b \in 0..1
      PROVE  /\ granted[w][b] \in Nat /\ granted'[w][b] = granted[w][b]
             /\ count[w][b] \in Int
             /\ count'[w][b] = count[w][b] + IF b = o THEN 1 ELSE 0
             /\ Cardinality(Live(w, b)) \in Nat /\ Cardinality(Eligible(w, b)) \in Nat
             /\ Cardinality(Live(w, b)') = Cardinality(Live(w, b)) + IF b = o THEN 1 ELSE 0
             /\ Cardinality(Eligible(w, b)')
                   = Cardinality(Eligible(w, b)) + IF b = o THEN d ELSE 0
  <2>1. granted[w][b] \in Nat /\ granted'[w][b] = granted[w][b] /\ count[w][b] \in Int
    BY <1>1, SMTT(30) DEF LimitTyped
  <2>2. count'[w][b] = count[w][b] + IF b = o THEN 1 ELSE 0
    <3>1. b \in 0..2 OBVIOUS
    <3>2. count'[w][b] = IF b = o THEN n ELSE count[w][b] BY <1>2, <3>1
    <3> QED BY <1>2, <2>1, <3>2
  <2>3. Cardinality(Live(w, b)) \in Nat /\ Cardinality(Eligible(w, b)) \in Nat
    BY SetsTyped
  <2>4. r \notin Live(w, b) /\ r \notin Eligible(w, b) BY DEF Live, Eligible
  <2>5. r \in Live(w, b)' <=> b = o BY <1>3 DEF Live
  <2>6. r \in Eligible(w, b)' <=> b = o /\ d = 1 BY <1>4, <2>5 DEF Eligible
  <2>7. Cardinality(Live(w, b)') = Cardinality(Live(w, b)) + IF b = o THEN 1 ELSE 0
    BY <2>3, <2>4, <2>5, MembersMove
  <2>8. Cardinality(Eligible(w, b)')
           = Cardinality(Eligible(w, b)) + IF b = o THEN d ELSE 0
    BY <2>3, <2>4, <2>6, MembersMove
  <2> QED BY <2>1, <2>2, <2>3, <2>7, <2>8
<1>7. /\ Cardinality(Straddling(w)) \in Nat
      /\ Cardinality(Straddling(w)') = Cardinality(Straddling(w)) - o
  <2>1. r \notin Straddling(w)' /\ (r \in Straddling(w) <=> o = 1)
    BY <1>2 DEF Straddling
  <2>2. Cardinality(Straddling(w)) \in Nat BY SetsTyped
  <2> QED BY <2>1, <2>2, MembersMove
<1>8. ~twice => \A b \in 0..1 : count[w][b] >= granted[w][b] + Cardinality(Live(w, b))
  BY <1>1 DEF WindowInv, CounterCovers
<1>9. faults = 0 => \A b \in 0..1 : count[w][b] = granted[w][b] + Cardinality(Live(w, b))
  BY <1>1 DEF WindowInv, CounterCovers
<1>10. CounterCovers(w)'
  <2> SUFFICES ASSUME NEW b \in 0..1
               PROVE  /\ ~twice => count'[w][b] >= granted'[w][b] + Cardinality(Live(w, b)')
                      /\ faults = 0 => count'[w][b] = granted'[w][b] + Cardinality(Live(w, b)')
    BY DEF CounterCovers
  <2>1. PICK g \in Nat, l \in Nat, k \in Int, i \in 0..1 :
           /\ g = granted[w][b] /\ l = Cardinality(Live(w, b)) /\ k = count[w][b]
           /\ i = IF b = o THEN 1 ELSE 0
    BY <1>6
  <2>2. /\ granted'[w][b] = g /\ count'[w][b] = k + i /\ Cardinality(Live(w, b)') = l + i
    BY <1>6, <2>1
  <2>3. (~twice => k >= g + l) /\ (faults = 0 => k = g + l) BY <1>8, <1>9, <2>1
  <2> QED BY <2>2, <2>3
<1>11. PICK W \in Nat \ {0}, L \in Nat, e \in Nat, x \in Nat, N \in Nat \ {0} :
          /\ e \in 0..W /\ x \in 0..W /\ W = Width[w] /\ L = Limit[w] /\ e = Elapsed(r, w) /\ x = clock % Width[w]
          /\ N = Cardinality(Requests) /\ Cardinality(Straddling(w)') <= N - 1
  <2>1. clock \in Nat /\ began[r] \in Nat BY <1>1, WidestCovers DEF LimitTyped
  <2>2. Elapsed(r, w) \in 0..Width[w] /\ clock % Width[w] \in 0..Width[w]
    BY <2>1, ClockInWindow DEF Elapsed
  <2>3. /\ Cardinality(Requests) \in Nat \ {0}
        /\ Cardinality(Straddling(w)') <= Cardinality(Requests) - 1
    <3>1. PICK T \in SUBSET (Requests \ {r}) : T = Straddling(w)'
      BY DEF Straddling
    <3>2. /\ IsFiniteSet(Requests \ {r})
          /\ Cardinality(Requests \ {r}) = Cardinality(Requests) - 1
          /\ Cardinality(Requests) \in Nat
      BY JwksAssumption, FS_RemoveElement, FS_CardinalityType
    <3>3. Cardinality(Requests \ {r}) \in Nat BY <3>2, FS_CardinalityType
    <3>4. Cardinality(T) <= Cardinality(Requests \ {r}) BY <3>2, FS_Subset
    <3> QED BY <3>1, <3>2, <3>3, <3>4
  <2> QED BY <1>5, <2>2, <2>3
<1>12. ASSUME ~twice, d = 1
       PROVE  /\ p \in Nat /\ p * (W - e) + n * W <= L * W
  BY <1>4, <1>11, <1>12 DEF Fits, SlidingCount
<1>13. RoomIsKept(w)'
  <2> SUFFICES ASSUME ~twice, NEW b \in 0..1
               PROVE  granted'[w][b] + Cardinality(Eligible(w, b)') <= Limit[w]
    BY DEF RoomIsKept
  <2>1. granted[w][b] + Cardinality(Eligible(w, b)) <= Limit[w]
    BY <1>1 DEF WindowInv, RoomIsKept
  <2>2. CASE b = o /\ d = 1
    <3>1. n <= L
      <4>1. p \in Nat /\ p * (W - e) + n * W <= L * W BY <1>12, <2>2
      <4>2. PICK q \in Nat, c \in Int : q = p /\ c = n BY <4>1
      <4>3. q * (W - e) + c * W <= L * W BY <4>1, <4>2
      <4>4. e \in 0..W BY <1>11
      <4>5. c <= L BY <4>3, <4>4, RoomAlone
      <4> QED BY <4>2, <4>5
    <3>2. PICK g \in Nat, l \in Nat, m \in Nat, k \in Int :
             /\ g = granted[w][b] /\ l = Cardinality(Live(w, b)) /\ k = count[w][b]
             /\ m = Cardinality(Eligible(w, b))
      BY <1>6
    <3>3. /\ granted'[w][b] = g /\ Cardinality(Eligible(w, b)') = m + 1
          /\ n = k + 1 /\ k >= g + l /\ m <= l
      BY <1>2, <1>6, <1>8, <2>2, <3>2, SetsTyped
    <3>4. g + (m + 1) <= L BY <3>1, <3>3
    <3> QED BY <1>11, <3>3, <3>4
  <2>3. CASE ~(b = o /\ d = 1)
    <3>1. Cardinality(Eligible(w, b)') = Cardinality(Eligible(w, b)) BY <1>6, <2>3
    <3> QED BY <1>6, <2>1, <3>1
  <2> QED BY <2>2, <2>3
<1>14. RoomSlides(w)'
  <2>1. PICK a \in Nat, m \in Nat :
           /\ a = granted[w][1] + Cardinality(Live(w, 1)) + Cardinality(Straddling(w))
           /\ m = granted[w][0] + Cardinality(Eligible(w, 0))
    <3>1. 0 \in 0..1 /\ 1 \in 0..1 OBVIOUS
    <3>2. /\ granted[w][1] \in Nat /\ granted[w][0] \in Nat
          /\ Cardinality(Live(w, 1)) \in Nat /\ Cardinality(Eligible(w, 0)) \in Nat
      BY <1>6, <3>1
    <3>3. granted[w][1] + Cardinality(Live(w, 1)) + Cardinality(Straddling(w)) \in Nat
      BY <1>7, <3>2
    <3>4. granted[w][0] + Cardinality(Eligible(w, 0)) \in Nat BY <3>2
    <3> QED BY <3>3, <3>4
  <2>2. a = granted'[w][1] + Cardinality(Live(w, 1)') + Cardinality(Straddling(w)')
    <3>1. PICK g \in Nat, l \in Nat, s \in Nat :
             g = granted[w][1] /\ l = Cardinality(Live(w, 1)) /\ s = Cardinality(Straddling(w))
      BY <1>6, <1>7
    <3>2. /\ granted'[w][1] = g /\ Cardinality(Straddling(w)') = s - o
          /\ Cardinality(Live(w, 1)') = l + o
      BY <1>6, <1>7, <3>1
    <3> QED BY <2>1, <3>1, <3>2
  <2>3. PICK top \in Int : /\ top = (Limit[w] + Cardinality(Requests) - 1) * Width[w]
                           /\ top = (L + N - 1) * W
    BY <1>11
  <2>4. ~twice => m = 0 \/ SlidingUse(w, a, m, x) <= top
    BY <1>1, <1>11, <2>1, <2>3 DEF WindowInv, RoomSlides
  <2>5. PICK z \in Nat : z = granted'[w][0] + Cardinality(Eligible(w, 0)')
                         /\ z = m + IF o = 0 THEN d ELSE 0
    BY <1>6, <2>1
  <2>6. ASSUME ~twice, o = 0, d = 1 PROVE SlidingUse(w, a, z, x) <= top
    <3>1. e <= x BY <1>2, <1>11, <2>6, ElapsedGrows
    <3>2. PICK q \in Nat, c \in Int, k \in Nat :
             /\ q = p /\ c = n /\ k = N - 1
             /\ q * (W - e) + c * W <= L * W
      <4>1. p \in Nat /\ p * (W - e) + n * W <= L * W BY <1>12, <2>6
      <4>2. N - 1 \in Nat OBVIOUS
      <4> QED BY <4>1, <4>2
    <3>3. PICK g \in Nat, l \in Nat, s \in Nat :
             /\ g = granted[w][1] /\ l = Cardinality(Live(w, 1))
             /\ s = Cardinality(Straddling(w)) /\ s <= N - 1
      <4>1. Cardinality(Straddling(w)') = Cardinality(Straddling(w)) BY <1>7, <2>6
      <4> QED BY <1>6, <1>7, <1>11, <4>1
    <3>4. p >= g + l
      <4>1. p = count[w][1] BY <1>2, <2>6
      <4> QED BY <1>8, <2>6, <3>3, <4>1
    <3>5. a <= p + (N - 1) BY <2>1, <3>3, <3>4
    <3>6. z <= n
      <4>1. PICK h \in Nat, j \in Nat, y \in Int, i \in Nat :
               /\ h = granted[w][0] /\ j = Cardinality(Live(w, 0)) /\ y = count[w][0]
               /\ i = Cardinality(Eligible(w, 0))
        BY <1>6
      <4>2. y >= h + j /\ i <= j BY <1>8, <2>6, <4>1, SetsTyped
      <4>3. n = y + 1 /\ z = h + i + 1 BY <1>2, <2>1, <2>5, <2>6, <4>1
      <4> QED BY <4>2, <4>3
    <3>7. a * (W - x) + z * W <= (L + N - 1) * W
      <4>1. a <= q + k /\ z <= c BY <3>2, <3>5, <3>6
      <4>2. e \in 0..W /\ x \in 0..W BY <1>11
      <4>3. a * (W - x) + z * W <= (L + k) * W BY <3>1, <3>2, <4>1, <4>2, RoomLeft
      <4>4. L + k = L + N - 1 BY <3>2
      <4> QED BY <4>3, <4>4
    <3> QED BY <1>11, <2>3, <3>7 DEF SlidingUse
  <2>7. ~twice => z = 0 \/ SlidingUse(w, a, z, x) <= top BY <2>4, <2>5, <2>6
  <2> QED BY <1>11, <2>2, <2>3, <2>5, <2>7 DEF RoomSlides, SlidingUse
<1> QED BY <1>10, <1>13, <1>14 DEF WindowInv


LEMMA LimitCount ==
    ASSUME LimitInv, JwksTypeOK', NEW r \in Requests, CountWindow(r)
    PROVE  LimitInv'
<1>1. /\ Alone(r) /\ LimitTyped' /\ RequestInv(r)'
      /\ InLimiter(r) /\ InLimiter(r)'
      /\ UNCHANGED <<clock, began, late, faults, granted, twice>>
  BY CountFacts
<1>2. PICK w \in Windows, n \in Int, p \in Int :
         /\ n = count[w][Own(r, w)] + 1 /\ p = count[w][Own(r, w) + 1]
         /\ ~twice => p >= 0
         /\ \A v \in Windows, b \in 0..2 :
               count'[v][b] = IF v = w /\ b = Own(r, w) THEN n ELSE count[v][b]
         /\ \A v \in Windows \ {w} :
               /\ Seen(r, v)' <=> Seen(r, v)
               /\ Within(r, v)' <=> Within(r, v)
         /\ ~Seen(r, w) /\ Seen(r, w)'
         /\ Within(r, w)' => Fits(w, p, n, Elapsed(r, w))
  BY CountFacts
<1>3. LimitTyped BY DEF LimitInv
<1>4. WindowInv(w)' BY <1>1, <1>2, WindowCounted
<1>5. ASSUME NEW v \in Windows \ {w} PROVE WindowInv(v)'
  <2>1. Own(r, v)' = Own(r, v) BY <1>1 DEF Own
  <2>2. \A b \in 0..1 : r \in Live(v, b)' <=> r \in Live(v, b)
    BY <1>1, <1>2, <2>1 DEF Live
  <2>3. \A b \in 0..1 : r \in Eligible(v, b)' <=> r \in Eligible(v, b)
    BY <1>2, <2>2 DEF Eligible
  <2>4. r \in Straddling(v)' <=> r \in Straddling(v)
    BY <1>1, <1>2, <2>1 DEF Straddling
  <2>5. ASSUME NEW b \in 0..1
        PROVE  /\ Cardinality(Live(v, b)') = Cardinality(Live(v, b))
               /\ Cardinality(Eligible(v, b)') = Cardinality(Eligible(v, b))
               /\ Cardinality(Straddling(v)') = Cardinality(Straddling(v))
    BY <1>1, <2>2, <2>3, <2>4, MembersMove
  <2>6. ASSUME NEW b \in 0..1
        PROVE  /\ count'[v][b] = count[v][b] /\ count[v][b] \in Int
               /\ granted'[v][b] = granted[v][b] /\ granted[v][b] \in Nat
               /\ Cardinality(Live(v, b)) \in Nat /\ Cardinality(Eligible(v, b)) \in Nat
               /\ Cardinality(Straddling(v)) \in Nat
    <3>1. b \in 0..2 OBVIOUS
    <3>2. count'[v][b] = count[v][b] BY <1>2, <3>1
    <3>3. count[v][b] \in Int /\ granted[v][b] \in Nat BY <1>3, <3>1, SMTT(30) DEF LimitTyped
    <3> QED BY <1>1, <3>2, <3>3, SetsTyped
  <2>7. WindowInv(v) BY DEF LimitInv
  <2>8. ASSUME NEW b \in 0..1
        PROVE  /\ ~twice' => count'[v][b] - count[v][b]
                             >= (granted'[v][b] + Cardinality(Live(v, b)'))
                                - (granted[v][b] + Cardinality(Live(v, b)))
               /\ faults' = 0 => count'[v][b] - count[v][b]
                             = (granted'[v][b] + Cardinality(Live(v, b)'))
                                - (granted[v][b] + Cardinality(Live(v, b)))
               /\ granted'[v][b] + Cardinality(Eligible(v, b)')
                      <= granted[v][b] + Cardinality(Eligible(v, b))
               /\ granted'[v][b] + Cardinality(Live(v, b)') + Cardinality(Straddling(v)')
                      <= granted[v][b] + Cardinality(Live(v, b)) + Cardinality(Straddling(v))
    BY <2>5, <2>6
  <2> QED BY <1>1, <1>3, <2>7, <2>8, WindowEases
<1>6. \A q \in Requests : RequestInv(q)' BY <1>1, OthersStay DEF LimitInv
<1>7. ASSUME NEW v \in Windows PROVE count'[v][2] = count[v][2]
  <2>1. Own(r, w) # 2 BY DEF Own
  <2>2. 2 \in 0..2 OBVIOUS
  <2> QED BY <1>2, <2>1, <2>2
<1> QED BY <1>1, <1>4, <1>5, <1>6, <1>7 DEF LimitInv


-----------------------------------------------------------------------------
(* The clock.                                                                *)

(* The clock's next step opens another bucket of w.                          *)
Rolled(w) == limited /\ (clock + 1) % Width[w] = 0

LEMMA TickFacts ==
    ASSUME LimitTyped, Tick
    PROVE  /\ UNCHANGED <<place, began, counted, faults, twice, limited>>
           /\ late = {} /\ late' = {r \in Requests : InLimiter(r)}
           /\ clock' = IF limited THEN (clock + 1) % Widest ELSE clock
           /\ clock' \in 0..(Widest - 1)
           /\ count' \in [Windows -> [0..2 -> Int]]
           /\ granted' \in [Windows -> [0..1 -> Nat]]
           /\ \A w \in Windows : Rolled(w) =>
                 /\ count'[w][0] = 0 /\ count'[w][1] = count[w][0]
                 /\ count'[w][2] \in {0, count[w][1]}
                 /\ granted'[w][0] = 0 /\ granted'[w][1] = granted[w][0]
           /\ \A w \in Windows : ~Rolled(w) =>
                 /\ count'[w][0] = count[w][0] /\ count'[w][1] = count[w][1]
                 /\ count'[w][2] = 0
                 /\ granted'[w][0] = granted[w][0] /\ granted'[w][1] = granted[w][1]
<1>1. /\ UNCHANGED <<place, began, counted, faults, twice, limited>>
      /\ late = {} /\ late' = {r \in Requests : InLimiter(r)}
      /\ clock' = IF limited THEN (clock + 1) % Widest ELSE clock
  BY DEF Tick, deployment
<1>2. clock' \in 0..(Widest - 1)
  <2>1. clock \in 0..(Widest - 1) BY DEF LimitTyped
  <2>2. \A t \in 0..(Widest - 1) : (t + 1) % Widest \in 0..(Widest - 1)
    <3>1. \E w \in Windows : TRUE BY GateAssumption
    <3> QED BY <3>1, ClockKeepsPlace
  <2> QED BY <1>1, <2>1, <2>2
<1>3. count' = [w \in Windows |->
                  IF limited /\ (clock + 1) % Width[w] = 0
                  THEN [b \in DOMAIN count[w] |->
                          CASE b = 0 -> 0
                            [] b = 1 -> count[w][0]
                            [] b = 2 -> IF late' = {} THEN 0 ELSE count[w][1]]
                  ELSE [b \in DOMAIN count[w] |-> IF b = 2 THEN 0 ELSE count[w][b]]]
  BY DEF Tick
<1>4. granted' = [w \in Windows |->
                  IF limited /\ (clock + 1) % Width[w] = 0
                  THEN [b \in DOMAIN granted[w] |->
                          CASE b = 0 -> 0
                            [] b = 1 -> granted[w][0]
                            [] b = 2 -> IF late' = {} THEN 0 ELSE granted[w][1]]
                  ELSE [b \in DOMAIN granted[w] |->
                          IF b = 2 THEN 0 ELSE granted[w][b]]]
  BY DEF Tick
<1>5. ASSUME NEW w \in Windows
      PROVE  /\ count'[w] \in [0..2 -> Int]
             /\ granted'[w] \in [0..1 -> Nat]
             /\ Rolled(w) =>
                 /\ count'[w][0] = 0 /\ count'[w][1] = count[w][0]
                 /\ count'[w][2] \in {0, count[w][1]}
                 /\ granted'[w][0] = 0 /\ granted'[w][1] = granted[w][0]
             /\ ~Rolled(w) =>
                 /\ count'[w][0] = count[w][0] /\ count'[w][1] = count[w][1]
                 /\ count'[w][2] = 0
                 /\ granted'[w][0] = granted[w][0] /\ granted'[w][1] = granted[w][1]
  <2>1. PICK f \in [0..2 -> Int], g \in [0..1 -> Nat], k \in Int :
           /\ f = count[w] /\ g = granted[w]
           /\ k = IF late' = {} THEN 0 ELSE f[1]
    <3>1. count[w] \in [0..2 -> Int] /\ granted[w] \in [0..1 -> Nat]
      BY DEF LimitTyped
    <3>2. 1 \in 0..2 OBVIOUS
    <3>3. count[w][1] \in Int BY <3>1, <3>2
    <3> QED BY <3>1, <3>3
  <2>2. CASE Rolled(w)
    <3>1. count'[w] = [b \in 0..2 |->
                         CASE b = 0 -> 0 [] b = 1 -> f[0] [] b = 2 -> k]
      BY <1>3, <2>1, <2>2 DEF Rolled
    <3>2. granted'[w] = [b \in 0..1 |->
                           CASE b = 0 -> 0 [] b = 1 -> g[0]
                             [] b = 2 -> IF late' = {} THEN 0 ELSE g[1]]
      BY <1>4, <2>1, <2>2 DEF Rolled
    <3>3. 0 \in 0..2 /\ 1 \in 0..2 /\ 2 \in 0..2 /\ 0 \in 0..1 /\ 1 \in 0..1 OBVIOUS
    <3>4. count'[w][0] = 0 /\ count'[w][1] = f[0] /\ count'[w][2] = k
      BY <3>1, <3>3
    <3>5. granted'[w][0] = 0 /\ granted'[w][1] = g[0] BY <3>2, <3>3
    <3>6. count'[w] \in [0..2 -> Int] BY <3>1, <3>3
    <3>7. granted'[w] \in [0..1 -> Nat] BY <3>2, <3>3
    <3> QED BY <2>1, <2>2, <3>4, <3>5, <3>6, <3>7
  <2>3. CASE ~Rolled(w)
    <3>1. count'[w] = [b \in 0..2 |-> IF b = 2 THEN 0 ELSE f[b]]
      BY <1>3, <2>1, <2>3 DEF Rolled
    <3>2. granted'[w] = [b \in 0..1 |-> IF b = 2 THEN 0 ELSE g[b]]
      BY <1>4, <2>1, <2>3 DEF Rolled
    <3>3. 0 \in 0..2 /\ 1 \in 0..2 /\ 2 \in 0..2 /\ 0 \in 0..1 /\ 1 \in 0..1 OBVIOUS
    <3>4. count'[w][0] = f[0] /\ count'[w][1] = f[1] /\ count'[w][2] = 0
      BY <3>1, <3>3
    <3>5. granted'[w][0] = g[0] /\ granted'[w][1] = g[1] BY <3>2, <3>3
    <3>6. count'[w] \in [0..2 -> Int] BY <3>1, <3>3
    <3>7. granted'[w] \in [0..1 -> Nat] BY <3>2, <3>3
    <3> QED BY <2>1, <2>3, <3>4, <3>5, <3>6, <3>7
  <2> QED BY <2>2, <2>3
<1>6. count' \in [Windows -> [0..2 -> Int]] BY <1>3, <1>5
<1>7. granted' \in [Windows -> [0..1 -> Nat]] BY <1>4, <1>5
<1> QED BY <1>1, <1>2, <1>5, <1>6, <1>7

(* Where the clock's step leaves the requests under way.                     *)
LEMMA TickMembers ==
    ASSUME LimitInv, Tick, NEW w \in Windows
    PROVE  /\ Live(w, 1) = {} /\ Straddling(w) = {}
           /\ Rolled(w) => /\ Live(w, 1)' = Live(w, 0) /\ Live(w, 0)' = {}
                           /\ Eligible(w, 1)' = Eligible(w, 0) /\ Eligible(w, 0)' = {}
           /\ ~Rolled(w) => /\ Live(w, 1)' = {} /\ Live(w, 0)' = Live(w, 0)
                            /\ Eligible(w, 1)' = {}
                            /\ Eligible(w, 0)' = Eligible(w, 0)
                            /\ Straddling(w)' = {}
<1>1. LimitTyped BY DEF LimitInv
<1>2. /\ UNCHANGED <<place, began, counted>>
      /\ late = {} /\ late' = {r \in Requests : InLimiter(r)}
  BY <1>1, TickFacts
<1>3. \A r : Own(r, w) = 0 BY <1>2 DEF Own
<1>4. \A r \in Requests :
         /\ InLimiter(r)' <=> InLimiter(r)
         /\ Seen(r, w)' <=> Seen(r, w)
         /\ Within(r, w)' <=> Within(r, w)
  BY <1>2 DEF InLimiter, Seen, Within, Elapsed, Fits, SlidingCount
<1>5. ASSUME NEW r \in Requests, InLimiter(r)
      PROVE  Own(r, w)' = IF Rolled(w) THEN 1 ELSE 0
  <2>1. r \in late' BY <1>2, <1>5
  <2>2. limited /\ clock = began[r] BY <1>2, <1>5 DEF LimitInv, RequestInv
  <2> QED BY <1>2, <2>1, <2>2 DEF Own, Rolled
<1>6. Live(w, 1) = {} /\ Straddling(w) = {} BY <1>3 DEF Live, Straddling
<1>7. CASE Rolled(w)
  <2>1. Live(w, 1)' = Live(w, 0) /\ Live(w, 0)' = {}
    BY <1>3, <1>4, <1>5, <1>7 DEF Live
  <2>2. \A r \in Live(w, 0) : r \in Requests BY DEF Live
  <2>3. Eligible(w, 1)' = Eligible(w, 0) /\ Eligible(w, 0)' = {}
    BY <1>4, <2>1, <2>2 DEF Eligible
  <2> QED BY <1>6, <1>7, <2>1, <2>3
<1>8. CASE ~Rolled(w)
  <2>1. Live(w, 1)' = {} /\ Live(w, 0)' = Live(w, 0)
    BY <1>3, <1>4, <1>5, <1>8 DEF Live
  <2>2. \A r \in Live(w, 0) : r \in Requests BY DEF Live
  <2>3. Eligible(w, 1)' = {} /\ Eligible(w, 0)' = Eligible(w, 0)
    BY <1>4, <2>1, <2>2 DEF Eligible
  <2>4. Straddling(w)' = {} BY <1>4, <1>5, <1>8 DEF Straddling
  <2> QED BY <1>6, <1>8, <2>1, <2>3, <2>4
<1> QED BY <1>7, <1>8


LEMMA WindowTicked ==
    ASSUME LimitInv, Tick, NEW w \in Windows
    PROVE  /\ WindowInv(w)'
           /\ ~twice' => count'[w][2] >= 0
<1>1. LimitTyped /\ WindowInv(w) BY DEF LimitInv
<1>2. /\ UNCHANGED <<faults, twice>>
      /\ clock' = IF limited THEN (clock + 1) % Widest ELSE clock
      /\ Rolled(w) =>
            /\ count'[w][0] = 0 /\ count'[w][1] = count[w][0]
            /\ count'[w][2] \in {0, count[w][1]}
            /\ granted'[w][0] = 0 /\ granted'[w][1] = granted[w][0]
      /\ ~Rolled(w) =>
            /\ count'[w][0] = count[w][0] /\ count'[w][1] = count[w][1]
            /\ count'[w][2] = 0
            /\ granted'[w][0] = granted[w][0] /\ granted'[w][1] = granted[w][1]
  BY <1>1, TickFacts
<1>3. Cardinality({}) = 0 BY FS_EmptySet
<1>4. PICK g \in Nat, h \in Nat, k \in Int, l \in Nat, e \in Nat, s \in Int :
         /\ g = granted[w][0] /\ h = granted[w][1]
         /\ k = count[w][0] /\ s = count[w][1]
         /\ l = Cardinality(Live(w, 0)) /\ e = Cardinality(Eligible(w, 0))
  <2>1. 0 \in 0..2 /\ 1 \in 0..2 /\ 0 \in 0..1 /\ 1 \in 0..1 OBVIOUS
  <2>2. /\ granted[w][0] \in Nat /\ granted[w][1] \in Nat
        /\ count[w][0] \in Int /\ count[w][1] \in Int
    BY <1>1, <2>1 DEF LimitTyped
  <2>3. Cardinality(Live(w, 0)) \in Nat /\ Cardinality(Eligible(w, 0)) \in Nat
    BY SetsTyped
  <2> QED BY <2>2, <2>3
<1>5. Limit[w] \in Nat /\ Width[w] \in Nat \ {0} BY WindowTyped
<1>6. /\ ~twice => k >= g + l /\ s >= h
      /\ faults = 0 => k = g + l /\ s = h
  <2>1. Cardinality(Live(w, 1)) = 0 BY <1>3, TickMembers
  <2>2. /\ ~twice => s >= h + 0
        /\ faults = 0 => s = h + 0
    BY <1>1, <1>4, <2>1 DEF WindowInv, CounterCovers
  <2>3. /\ ~twice => k >= g + l
        /\ faults = 0 => k = g + l
    BY <1>1, <1>4 DEF WindowInv, CounterCovers
  <2> QED BY <2>2, <2>3
<1>7. ~twice => g + e <= Limit[w] /\ h <= Limit[w]
  <2>1. Cardinality(Eligible(w, 1)) = 0 BY <1>3, TickMembers, SetsTyped
  <2>2. ~twice => h + 0 <= Limit[w]
    BY <1>1, <1>4, <2>1 DEF WindowInv, RoomIsKept
  <2>3. ~twice => g + e <= Limit[w] BY <1>1, <1>4 DEF WindowInv, RoomIsKept
  <2> QED BY <2>2, <2>3
<1>8. CASE Rolled(w)
  <2>1. /\ Cardinality(Live(w, 1)') = l /\ Cardinality(Live(w, 0)') = 0
        /\ Cardinality(Eligible(w, 1)') = e /\ Cardinality(Eligible(w, 0)') = 0
    BY <1>3, <1>4, <1>8, TickMembers
  <2>2. /\ count'[w][0] = 0 /\ count'[w][1] = k
        /\ granted'[w][0] = 0 /\ granted'[w][1] = g /\ count'[w][2] \in {0, s}
    BY <1>2, <1>4, <1>8
  <2>3. CounterCovers(w)'
    <3> SUFFICES ASSUME NEW b \in 0..1
                 PROVE  /\ ~twice => count'[w][b] >= granted'[w][b] + Cardinality(Live(w, b)')
                        /\ faults = 0 => count'[w][b] = granted'[w][b] + Cardinality(Live(w, b)')
      BY <1>2 DEF CounterCovers
    <3>1. CASE b = 0 BY <2>1, <2>2, <3>1
    <3>2. CASE b = 1 BY <1>6, <2>1, <2>2, <3>2
    <3> QED BY <3>1, <3>2
  <2>4. RoomIsKept(w)'
    <3> SUFFICES ASSUME ~twice, NEW b \in 0..1
                 PROVE  granted'[w][b] + Cardinality(Eligible(w, b)') <= Limit[w]
      BY <1>2 DEF RoomIsKept
    <3>1. CASE b = 0 BY <1>5, <2>1, <2>2, <3>1
    <3>2. CASE b = 1 BY <1>7, <2>1, <2>2, <3>2
    <3> QED BY <3>1, <3>2
  <2>5. RoomSlides(w)' BY <2>1, <2>2 DEF RoomSlides
  <2>6. ~twice' => count'[w][2] >= 0 BY <1>2, <1>6, <2>2
  <2> QED BY <2>3, <2>4, <2>5, <2>6 DEF WindowInv
<1>9. CASE ~Rolled(w)
  <2>1. /\ Cardinality(Live(w, 1)') = 0 /\ Cardinality(Live(w, 0)') = l
        /\ Cardinality(Eligible(w, 1)') = 0 /\ Cardinality(Eligible(w, 0)') = e
        /\ Cardinality(Straddling(w)') = 0
    BY <1>3, <1>4, <1>9, TickMembers
  <2>2. /\ count'[w][0] = k /\ count'[w][1] = s
        /\ granted'[w][0] = g /\ granted'[w][1] = h /\ count'[w][2] = 0
    BY <1>2, <1>4, <1>9
  <2>3. CounterCovers(w)'
    <3> SUFFICES ASSUME NEW b \in 0..1
                 PROVE  /\ ~twice => count'[w][b] >= granted'[w][b] + Cardinality(Live(w, b)')
                        /\ faults = 0 => count'[w][b] = granted'[w][b] + Cardinality(Live(w, b)')
      BY <1>2 DEF CounterCovers
    <3>1. CASE b = 0 BY <1>6, <2>1, <2>2, <3>1
    <3>2. CASE b = 1 BY <1>6, <2>1, <2>2, <3>2
    <3> QED BY <3>1, <3>2
  <2>4. RoomIsKept(w)'
    <3> SUFFICES ASSUME ~twice, NEW b \in 0..1
                 PROVE  granted'[w][b] + Cardinality(Eligible(w, b)') <= Limit[w]
      BY <1>2 DEF RoomIsKept
    <3>1. CASE b = 0 BY <1>7, <2>1, <2>2, <3>1
    <3>2. CASE b = 1 BY <1>7, <2>1, <2>2, <3>2
    <3> QED BY <3>1, <3>2
  <2>5. RoomSlides(w)'
    <3>1. PICK t \in 0..(Widest - 1) : t = clock BY <1>1 DEF LimitTyped
    <3>2. t \in Nat BY WidestCovers
    <3>3. PICK x \in 0..Width[w] : x = t % Width[w] BY <3>2, ClockInWindow
    <3>4. clock' \in Nat BY <1>1, TickFacts, WidestCovers
    <3>5. PICK y \in 0..Width[w] : y = clock' % Width[w] BY <3>4, ClockInWindow
    <3>6. x <= y
      <4>1. CASE limited
        <5>1. (t + 1) % Width[w] # 0 BY <1>9, <3>1, <4>1 DEF Rolled
        <5>2. (t + 1) % Width[w] = x + 1 BY <1>5, <3>2, <3>3, <5>1, ModNext
        <5>3. y = (t + 1) % Width[w] BY <1>2, <3>1, <3>5, <4>1, ClockKeepsPlace
        <5> QED BY <1>5, <5>2, <5>3
      <4>2. CASE ~limited BY <1>2, <1>5, <3>1, <3>3, <3>5, <4>2
      <4> QED BY <4>1, <4>2
    <3>7. PICK m \in Nat : m = g + e OBVIOUS
    <3>8. PICK top \in Int : top = (Limit[w] + Cardinality(Requests) - 1) * Width[w]
      <4>1. Cardinality(Requests) \in Nat BY JwksAssumption, FS_CardinalityType
      <4> QED BY <1>5, <4>1
    <3>9. ~twice => m = 0 \/ SlidingUse(w, h + 0 + 0, m, x) <= top
      <4>1. Cardinality(Live(w, 1)) = 0 /\ Cardinality(Straddling(w)) = 0
        BY <1>3, TickMembers
      <4> QED BY <1>1, <1>4, <3>1, <3>3, <3>7, <3>8, <4>1
          DEF WindowInv, RoomSlides, SlidingUse
    <3>10. h + 0 + 0 = h OBVIOUS
    <3>11. ~twice => m = 0 \/ SlidingUse(w, h, m, x) <= top BY <3>9, <3>10
    <3>12. SlidingUse(w, h, m, y) <= SlidingUse(w, h, m, x) BY <3>6, UseShrinks
    <3>13. SlidingUse(w, h, m, y) \in Int /\ SlidingUse(w, h, m, x) \in Int
      BY UseTyped
    <3>14. ~twice => m = 0 \/ SlidingUse(w, h, m, y) <= top BY <3>11, <3>12, <3>13
    <3>15. ~twice => m = 0 \/ SlidingUse(w, h + 0 + 0, m, y) <= top BY <3>10, <3>14
    <3> QED BY <1>2, <2>1, <2>2, <3>5, <3>7, <3>8, <3>15 DEF RoomSlides, SlidingUse
  <2>6. ~twice' => count'[w][2] >= 0 BY <2>2
  <2> QED BY <2>3, <2>4, <2>5, <2>6 DEF WindowInv
<1> QED BY <1>8, <1>9

LEMMA LimitTick ==
    ASSUME LimitInv, JwksTypeOK', Tick
    PROVE  LimitInv'
<1>1. LimitTyped BY DEF LimitInv
<1>2. /\ UNCHANGED <<place, began, counted, faults, twice, limited>>
      /\ late = {} /\ late' = {r \in Requests : InLimiter(r)}
      /\ clock' = IF limited THEN (clock + 1) % Widest ELSE clock
      /\ clock' \in 0..(Widest - 1)
      /\ count' \in [Windows -> [0..2 -> Int]]
      /\ granted' \in [Windows -> [0..1 -> Nat]]
  BY <1>1, TickFacts
<1>3. \A r : InLimiter(r)' <=> InLimiter(r) BY <1>2 DEF InLimiter
<1>4. LimitTyped' BY <1>1, <1>2, <1>3 DEF LimitTyped
<1>5. ASSUME NEW r \in Requests PROVE RequestInv(r)'
  <2>1. RequestInv(r) BY DEF LimitInv
  <2>2. ASSUME InLimiter(r)
        PROVE  limited' /\ clock' = IF r \in late' THEN (began'[r] + 1) % Widest ELSE began'[r]
    <3>1. limited /\ clock = began[r] BY <1>2, <2>1, <2>2 DEF RequestInv
    <3>2. r \in late' BY <1>2, <2>2
    <3> QED BY <1>2, <3>1, <3>2
  <2> QED BY <1>2, <1>3, <2>1, <2>2 DEF RequestInv
<1> QED BY <1>2, <1>4, <1>5, WindowTicked DEF LimitInv


-----------------------------------------------------------------------------
(* The invariant.                                                            *)

LEMMA LimitStarts == Init => LimitInv
<1> SUFFICES ASSUME Init PROVE LimitInv OBVIOUS
<1>1. JwksTypeOK BY KeysInit
<1>2. /\ place = [r \in Requests |-> "idle"]
      /\ clock = 0 /\ count = Nothing(0..2) /\ granted = Nothing(0..1)
      /\ began = [r \in Requests |-> 0] /\ late = {}
      /\ counted = [r \in Requests |-> <<>>]
      /\ faults = 0 /\ twice = FALSE /\ limited \in BOOLEAN
  BY DEF Init, JwksInit
<1>3. \A r \in Requests : ~InLimiter(r) BY <1>2 DEF InLimiter
<1>4. LimitTyped
  <2>1. 0 \in 0..(Widest - 1) /\ 0 \in 0..MaxFaults BY WidestCovers, GateAssumption
  <2>2. count \in [Windows -> [0..2 -> Int]] /\ granted \in [Windows -> [0..1 -> Nat]]
    BY <1>2 DEF Nothing
  <2>3. counted \in [Requests -> Seq([cur : Int, prev : Int])]
    <3>1. <<>> \in Seq([cur : Int, prev : Int]) OBVIOUS
    <3> QED BY <1>2, <3>1
  <2>4. \A r \in Requests : Len(counted[r]) <= Len(Checks)
    <3>1. Len(<<>>) <= Len(Checks) BY ChecksTyped
    <3> QED BY <1>2, <3>1
  <2>5. began \in [Requests -> 0..(Widest - 1)] BY <1>2, <2>1
  <2> QED BY <1>1, <1>2, <2>1, <2>2, <2>3, <2>4, <2>5 DEF LimitTyped
<1>5. \A r \in Requests : RequestInv(r)
  <2>1. \A r \in Requests : counted[r] = <<>> /\ DOMAIN counted[r] = {} BY <1>2
  <2>2. \A r \in Requests : place[r] = "idle" BY <1>2
  <2> QED BY <1>3, <2>1, <2>2 DEF RequestInv
<1>6. ASSUME NEW w \in Windows PROVE WindowInv(w) /\ count[w][2] = 0
  <2>1. \A b : Live(w, b) = {} /\ Eligible(w, b) = {} BY <1>3 DEF Live, Eligible
  <2>2. Cardinality({}) = 0 BY FS_EmptySet
  <2>3. /\ count[w][0] = 0 /\ count[w][1] = 0 /\ count[w][2] = 0
        /\ granted[w][0] = 0 /\ granted[w][1] = 0
    BY <1>2 DEF Nothing
  <2>4. \A b \in 0..1 : count[w][b] = 0 /\ granted[w][b] = 0
    <3>1. \A b \in 0..1 : b = 0 \/ b = 1 OBVIOUS
    <3> QED BY <2>3, <3>1
  <2>5. CounterCovers(w) BY <2>1, <2>2, <2>4 DEF CounterCovers
  <2>6. RoomIsKept(w) BY <2>1, <2>2, <2>4, WindowTyped DEF RoomIsKept
  <2>7. RoomSlides(w)
    <3>1. Cardinality(Eligible(w, 0)) = 0 BY <2>1, <2>2
    <3>2. granted[w][0] + Cardinality(Eligible(w, 0)) = 0 BY <2>3, <3>1
    <3> QED BY <3>2 DEF RoomSlides
  <2> QED BY <2>3, <2>5, <2>6, <2>7 DEF WindowInv
<1> QED BY <1>2, <1>4, <1>5, <1>6 DEF LimitInv

(* A request that begins to be counted, or that no limiter counts.           *)
LEMMA LimitEnforce ==
    ASSUME LimitInv, JwksTypeOK', NEW r \in Requests, ~InLimiter(r), Enforce(r)
    PROVE  LimitInv'
<1>1. CASE limited
  <2>1. /\ place' = [place EXCEPT ![r] = "counting"]
        /\ began' = [began EXCEPT ![r] = clock]
        /\ UNCHANGED <<clock, count, late, counted, faults, granted, twice, limited>>
    BY <1>1 DEF Enforce, Move, deployment
  <2> QED BY <1>1, <2>1, LimitOutside
<1>2. CASE ~limited
  <2>1. /\ place' = [place EXCEPT ![r] = "idle"] /\ began' = began
        /\ UNCHANGED <<clock, count, late, counted, faults, granted, twice, limited>>
    BY <1>2 DEF Enforce, Move, deployment, limitVars
  <2>2. "idle" \notin {"counting", "counted"} OBVIOUS
  <2> QED BY <2>1, <2>2, LimitOutside
<1> QED BY <1>1, <1>2

(* A request that the cache moves.                                           *)
LEMMA LimitKeys ==
    ASSUME LimitInv, JwksTypeOK', NEW r \in Requests,
           UNCHANGED <<limitVars, deployment>>,
           \/ Enter(r) \/ FetchArrives(r) \/ FetchFails(r)
           \/ \E k \in Kids \union {Forged} : Arrive(r, k)
    PROVE  LimitInv'
<1>1. ~InLimiter(r) BY DEF Enter, FetchArrives, FetchFails, Arrive, InLimiter
<1>2. PICK to \in {"authenticated", "idle", "fetching", "waiting"} :
         place' = [place EXCEPT ![r] = to]
  BY DEF Enter, FetchArrives, FetchFails, Arrive, HeldBack, Send, Look
<1>3. to \notin {"counting", "counted"} OBVIOUS
<1>4. /\ began' = began
      /\ UNCHANGED <<clock, count, late, counted, faults, granted, twice, limited>>
  BY DEF limitVars, deployment
<1> QED BY <1>1, <1>2, <1>3, <1>4, LimitOutside

LEMMA LimitStep == LimitInv /\ JwksTypeOK' /\ [Next]_vars => LimitInv'
<1> SUFFICES ASSUME LimitInv, JwksTypeOK', [Next]_vars PROVE LimitInv' OBVIOUS
<1>1. CASE UNCHANGED vars
  <2>1. UNCHANGED <<limitVars, place, limited>>
    BY <1>1 DEF vars, jwksVars, deployment
  <2> QED BY <2>1, LimitStays
<1>2. CASE JwksStep
  <2>1. UNCHANGED <<limitVars, deployment>> BY <1>2 DEF JwksStep
  <2>2. CASE Rotate \/ Flip
    <3>1. UNCHANGED <<limitVars, place, limited>>
      BY <2>1, <2>2 DEF Rotate, Flip, deployment
    <3> QED BY <3>1, LimitStays
  <2>3. CASE \E r \in Requests : Enter(r) \/ FetchArrives(r) \/ FetchFails(r)
    BY <2>1, <2>3, LimitKeys
  <2> QED BY <1>2, <2>2, <2>3 DEF JwksStep
<1>3. CASE Tick BY <1>3, LimitTick
<1>4. ASSUME NEW r \in Requests, ArriveByKey(r) \/ Proceed(r) PROVE LimitInv'
  <2>1. Enforce(r) /\ ~InLimiter(r) BY <1>4 DEF ArriveByKey, Proceed, InLimiter
  <2> QED BY <2>1, LimitEnforce
<1>5. ASSUME NEW r \in Requests,
             \/ CountWindow(r) \/ Grant(r) \/ Refuse(r)
             \/ CountFails(r) \/ CountResent(r) \/ RefundFails(r) \/ RefundResent(r)
      PROVE  LimitInv'
  BY <1>5, LimitCount, LimitGrant, LimitRefuse, LimitFails, LimitResent, LimitRefundResent
<1>6. ASSUME NEW r \in Requests, NEW k \in Kids \union {Forged}, ArriveByToken(r, k)
      PROVE  LimitInv'
  <2>1. Arrive(r, k) /\ UNCHANGED <<limitVars, deployment>>
    BY <1>6 DEF ArriveByToken
  <2> QED BY <2>1, LimitKeys
<1> QED BY <1>1, <1>2, <1>3, <1>4, <1>5, <1>6 DEF Next

LEMMA MethodStays == method \in Methods /\ [Next]_vars => (method \in Methods)'
<1> SUFFICES ASSUME [Next]_vars PROVE method' = method OBVIOUS
<1>1. ASSUME NEW r \in Requests,
             \/ ArriveByKey(r) \/ Proceed(r) \/ CountWindow(r) \/ Grant(r) \/ Refuse(r)
             \/ CountFails(r) \/ CountResent(r) \/ RefundFails(r) \/ RefundResent(r)
      PROVE  method' = method
  BY <1>1 DEF ArriveByKey, Proceed, Enforce, CountWindow, Grant, Refuse, CountFails,
              CountResent, RefundFails, RefundResent, deployment
<1>2. ASSUME NEW r \in Requests, NEW k \in Kids \union {Forged}, ArriveByToken(r, k)
      PROVE  method' = method
  BY <1>2 DEF ArriveByToken, deployment
<1>3. CASE JwksStep BY <1>3 DEF JwksStep, deployment
<1>4. CASE Tick BY <1>4 DEF Tick, deployment
<1>5. CASE UNCHANGED vars BY <1>5 DEF vars, deployment
<1> QED BY <1>1, <1>2, <1>3, <1>4, <1>5 DEF Next

LEMMA InvStarts == Init => Inv /\ JwksTypeOK
BY KeysInit, LimitStarts DEF Inv, Init

LEMMA InvStep == Inv /\ JwksTypeOK /\ [Next]_vars => Inv' /\ JwksTypeOK'
<1> SUFFICES ASSUME Inv, JwksTypeOK, [Next]_vars PROVE Inv' /\ JwksTypeOK' OBVIOUS
<1>1. JwksTypeOK' /\ KeysInv' BY KeysStep DEF Inv
<1>2. LimitInv' BY <1>1, LimitStep DEF Inv
<1>3. (method \in Methods)' BY MethodStays DEF Inv
<1> QED BY <1>1, <1>2, <1>3 DEF Inv

LEMMA InvHolds == Spec => [](Inv /\ JwksTypeOK)
<1>1. Init => Inv /\ JwksTypeOK BY InvStarts
<1>2. (Inv /\ JwksTypeOK) /\ [Next]_vars => (Inv /\ JwksTypeOK)' BY InvStep
<1> QED BY <1>1, <1>2, PTL DEF Spec


-----------------------------------------------------------------------------
(* The properties.                                                           *)

LEMMA InvIsTyped == Inv => TypeOK
<1> SUFFICES ASSUME Inv PROVE TypeOK OBVIOUS
<1>1. LimitTyped BY DEF Inv, LimitInv
<1>2. ASSUME ~twice PROVE count \in [Windows -> [0..2 -> Nat]]
  <2>1. ASSUME NEW w \in Windows PROVE count[w] \in [0..2 -> Nat]
    <3>1. count[w] \in [0..2 -> Int] BY <1>1 DEF LimitTyped
    <3>2. ASSUME NEW b \in 0..1 PROVE count[w][b] >= 0
      <4>1. count[w][b] >= granted[w][b] + Cardinality(Live(w, b))
        BY <1>2 DEF Inv, LimitInv, WindowInv, CounterCovers
      <4>2. granted[w][b] \in Nat BY <1>1 DEF LimitTyped
      <4>3. Cardinality(Live(w, b)) \in Nat BY SetsTyped
      <4>4. b \in 0..2 OBVIOUS
      <4>5. count[w][b] \in Int BY <3>1, <4>4
      <4>6. PICK g \in Nat, l \in Nat, k \in Int :
               g = granted[w][b] /\ l = Cardinality(Live(w, b)) /\ k = count[w][b]
        BY <4>2, <4>3, <4>5
      <4>7. k >= g + l BY <4>1, <4>6
      <4> QED BY <4>6, <4>7
    <3>3. count[w][2] >= 0 BY <1>2 DEF Inv, LimitInv
    <3>4. \A b \in 0..2 : b \in 0..1 \/ b = 2 OBVIOUS
    <3>5. \A b \in 0..2 : count[w][b] >= 0 BY <3>2, <3>3, <3>4
    <3>6. \A b \in 0..2 : count[w][b] \in Nat BY <3>1, <3>5
    <3> QED BY <3>1, <3>6
  <2> QED BY <1>1, <2>1 DEF LimitTyped
<1>3. count \in [Windows -> [0..2 -> IF twice THEN Int ELSE Nat]]
  <2>1. CASE twice BY <1>1, <2>1 DEF LimitTyped
  <2>2. CASE ~twice BY <1>2, <2>2
  <2> QED BY <2>1, <2>2
<1> QED BY <1>1, <1>3 DEF LimitTyped, TypeOK, Inv

LEMMA InvIsExact == Inv => BucketsAreExact
<1> SUFFICES ASSUME Inv PROVE BucketsAreExact OBVIOUS
<1>1. LimitTyped BY DEF Inv, LimitInv
<1>2. GrantedWithinLimit
  <2> SUFFICES ASSUME ~twice, NEW w \in Windows, NEW b \in 0..1
               PROVE  granted[w][b] <= Limit[w]
    BY DEF GrantedWithinLimit
  <2>1. PICK g \in Nat, e \in Nat, L \in Nat :
           g = granted[w][b] /\ e = Cardinality(Eligible(w, b)) /\ L = Limit[w]
    <3>1. granted[w][b] \in Nat BY <1>1 DEF LimitTyped
    <3> QED BY <3>1, SetsTyped, WindowTyped
  <2>2. g + e <= L BY <2>1 DEF Inv, LimitInv, WindowInv, RoomIsKept
  <2> QED BY <2>1, <2>2
<1>3. CounterIsExact
  <2> SUFFICES ASSUME faults = 0, NEW w \in Windows, NEW b \in 0..1
               PROVE  count[w][b] = granted[w][b]
                        + Cardinality({r \in Requests :
                             /\ InLimiter(r) /\ Own(r, w) = b
                             /\ \E i \in DOMAIN counted[r] : Checks[i] = w})
    BY DEF CounterIsExact
  <2>1. count[w][b] = granted[w][b] + Cardinality(Live(w, b))
    BY DEF Inv, LimitInv, WindowInv, CounterCovers
  <2> QED BY <2>1 DEF Live, Seen
<1> QED BY <1>2, <1>3, InvIsTyped DEF BucketsAreExact

(* The limiter's buckets are exact: however the pipelines of _count and      *)
(* _refund overlap, and on whichever side of a boundary, no bucket admits    *)
(* more than its limit, and what was refused leaves no trace.                *)
THEOREM BucketsCorrect == Spec => []BucketsAreExact
<1>1. Inv => BucketsAreExact BY InvIsExact
<1> QED BY <1>1, InvHolds, PTL

(* The wait that _retry_after_s tells a refused client is long enough: a     *)
(* request that comes then fits, if nobody else spent the window meanwhile.  *)
THEOREM RetryCorrect == Spec => []RetryFits
<1>1. ASSUME Inv PROVE RetryFits
  <2> SUFFICES ASSUME NEW r \in Requests, place[r] = "counted", Over(r) # {},
                      NEW i, i = Min(Over(r)), NEW w, w = Checks[i],
                      NEW c, c = counted[r][i], NEW t,
                      t = Elapsed(r, w) + RetryAfter(w, c.prev, c.cur, Elapsed(r, w))
               PROVE  \/ t < Width[w] /\ SlidingUse(w, c.prev, c.cur, t) <= Limit[w] * Width[w]
                      \/ /\ t \in Width[w]..(2 * Width[w] - 1)
                         /\ SlidingUse(w, c.cur - 1, 1, t - Width[w]) <= Limit[w] * Width[w]
                      \/ t >= 2 * Width[w]
    BY DEF RetryFits
  <2>1. PICK s \in Seq([cur : Int, prev : Int]) : s = counted[r] /\ Len(s) = Len(Checks)
    BY <1>1 DEF Inv, LimitInv, LimitTyped, RequestInv
  <2>2. DOMAIN s = 1..Len(Checks) BY <2>1
  <2>3. Over(r) \in SUBSET Nat
    <3>1. Len(Checks) \in Nat BY ChecksTyped
    <3>2. Over(r) \subseteq DOMAIN counted[r] BY Zenon DEF Over
    <3>3. DOMAIN counted[r] = 1..Len(Checks) BY <2>1, <2>2, Zenon
    <3> QED BY <3>1, <3>2, <3>3
  <2>4. i \in Over(r) BY <2>3, MinIs
  <2>5. i \in 1..Len(Checks) /\ ~Fits(w, c.prev, c.cur, Elapsed(r, w))
    BY <2>1, <2>2, <2>4 DEF Over
  <2>6. w \in Windows BY <2>5, ChecksTyped
  <2>7. c \in [cur : Int, prev : Int]
    <3>1. \A S : \A q \in Seq(S) : \A j \in DOMAIN q : q[j] \in S OBVIOUS
    <3>2. s[i] \in [cur : Int, prev : Int] BY <2>1, <2>2, <2>5, <3>1
    <3> QED BY <2>1, <3>2
  <2>8. PICK p \in Int, n \in Int : p = c.prev /\ n = c.cur BY <2>7
  <2>9. PICK e \in 0..(Width[w] - 1) : e = Elapsed(r, w)
    <3>1. began[r] \in Nat BY <1>1, WidestCovers DEF Inv, LimitInv, LimitTyped
    <3> QED BY <2>6, <3>1, ClockInWindow DEF Elapsed
  <2>10. ~Fits(w, p, n, e) /\ t = e + RetryAfter(w, p, n, e) BY <2>5, <2>8, <2>9
  <2>11. \/ t < Width[w] /\ SlidingUse(w, p, n, t) <= Limit[w] * Width[w]
         \/ /\ t \in Width[w]..(2 * Width[w] - 1)
            /\ SlidingUse(w, n - 1, 1, t - Width[w]) <= Limit[w] * Width[w]
         \/ t >= 2 * Width[w]
    BY <2>6, <2>10, RetryAfterSuffices, SMTT(30)
  <2> QED BY <2>8, <2>11
<1> QED BY <1>1, InvHolds, PTL

(* The allowance slides: when _raise_if_over lets a request through, what    *)
(* its bucket and the one before it have admitted stays within the limit, by *)
(* the weights of sliding_count, but for those who straddled the boundary.   *)
THEOREM SlideCorrect == Spec => GrantsSlide
<1> DEFINE Slides == \A r \in Requests :
             Grant(r) /\ ~twice =>
               \A w \in Windows :
                 Own(r, w) = 0 =>
                   SlidingUse(w, granted'[w][1], granted'[w][0], clock % Width[w])
                     <= (Limit[w] + Cardinality(Requests) - 1) * Width[w]
<1>1. ASSUME Inv, Inv' PROVE Slides
  <2> SUFFICES ASSUME NEW r \in Requests, Grant(r), ~twice, NEW w \in Windows, Own(r, w) = 0
               PROVE  SlidingUse(w, granted'[w][1], granted'[w][0], clock % Width[w])
                        <= (Limit[w] + Cardinality(Requests) - 1) * Width[w]
    OBVIOUS
  <2>1. LimitTyped /\ LimitTyped' BY <1>1 DEF Inv, LimitInv
  <2>2. clock' = clock /\ twice' = twice BY DEF Grant
  <2>3. Live(w, 1)' \in SUBSET Requests /\ Straddling(w)' \in SUBSET Requests
        /\ Eligible(w, 0)' \in SUBSET Requests
    BY DEF Live, Straddling, Eligible
  <2>4. PICK g \in Nat, h \in Nat, l \in Nat, s \in Nat, e \in Nat :
           /\ g = granted'[w][0] /\ h = granted'[w][1]
           /\ l = Cardinality(Live(w, 1)') /\ s = Cardinality(Straddling(w)')
           /\ e = Cardinality(Eligible(w, 0)')
    <3>1. granted'[w][0] \in Nat /\ granted'[w][1] \in Nat
      <4>1. 0 \in 0..1 /\ 1 \in 0..1 OBVIOUS
      <4>2. granted'[w] \in [0..1 -> Nat] BY <2>1 DEF LimitTyped
      <4> QED BY <4>1, <4>2
    <3>2. /\ Cardinality(Live(w, 1)') \in Nat /\ Cardinality(Straddling(w)') \in Nat
          /\ Cardinality(Eligible(w, 0)') \in Nat
      BY <2>3, CardMoves
    <3> QED BY <3>1, <3>2
  <2>5. g > 0
    <3>1. PICK f \in [0..1 -> Nat] : f = granted[w] BY <2>1 DEF LimitTyped
    <3>2. granted'[w] = [f EXCEPT ![0] = f[0] + 1] BY <3>1 DEF Grant
    <3>3. 0 \in 0..1 OBVIOUS
    <3>4. g = f[0] + 1 /\ f[0] \in Nat BY <2>4, <3>1, <3>2, <3>3
    <3> QED BY <3>4
  <2>6. PICK x \in 0..Width[w] : x = clock % Width[w]
    <3>1. clock \in Nat BY <2>1, WidestCovers DEF LimitTyped
    <3> QED BY <3>1, ClockInWindow
  <2>7. PICK top \in Int : top = (Limit[w] + Cardinality(Requests) - 1) * Width[w]
    <3>1. Cardinality(Requests) \in Nat BY JwksAssumption, FS_CardinalityType
    <3> QED BY <3>1, WindowTyped
  <2>8. PICK a \in Nat, m \in Nat : a = h + l + s /\ m = g + e OBVIOUS
  <2>9. SlidingUse(w, a, m, x) <= top
    <3>1. m # 0 BY <2>5, <2>8
    <3>2. RoomSlides(w)' BY <1>1 DEF Inv, LimitInv, WindowInv
    <3>3. m = 0 \/ SlidingUse(w, a, m, x) <= top
      BY <2>2, <2>4, <2>6, <2>7, <2>8, <3>2 DEF RoomSlides, SlidingUse
    <3> QED BY <3>1, <3>3
  <2>10. SlidingUse(w, h, g, x) <= SlidingUse(w, a, m, x)
    <3>1. h <= a /\ g <= m /\ x <= x BY <2>8
    <3> QED BY <3>1, UseShrinks
  <2>11. SlidingUse(w, h, g, x) \in Int /\ SlidingUse(w, a, m, x) \in Int BY UseTyped
  <2>12. SlidingUse(w, h, g, x) <= top BY <2>9, <2>10, <2>11
  <2> QED BY <2>4, <2>6, <2>7, <2>12
<1>2. (Inv /\ JwksTypeOK) /\ (Inv /\ JwksTypeOK)' => [Slides]_vars BY <1>1
<1> QED BY <1>2, InvHolds, PTL DEF GrantsSlide
=============================================================================
