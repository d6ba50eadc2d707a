----------------------------- MODULE JwksCache -----------------------------
(***************************************************************************)
(* JwksCache of auth/jwt.py: Supabase's signing keys, held in the process  *)
(* and fetched again when a token names a key that is not held, behind one *)
(* asyncio.Lock and a floor between two fetches.                           *)
(*                                                                         *)
(* Instants are kept as ages.  An age stops at the bound the code compares *)
(* it with, so "never" and "long ago" are the same value.                  *)
(***************************************************************************)
EXTENDS Integers, Sequences, FiniteSets

CONSTANTS
    Requests,    \* requests that may be under way at once
    Kids,        \* the signing keys Supabase rotates through
    Forged,      \* a kid no key set ever held
    KeysTtl,     \* JWKS_TTL_S
    MinRefresh   \* JWKS_MIN_REFRESH_INTERVAL_S

ASSUME JwksAssumption ==
    /\ IsFiniteSet(Requests)
    /\ Kids # {} /\ Forged \notin Kids
    /\ KeysTtl \in Nat /\ MinRefresh \in 1..KeysTtl

VARIABLES
    place,      \* where each request is
    kid,        \* the key its token names
    keys,       \* _keys
    fetched,    \* the age of _fetched_at
    attempt,    \* the age of _last_attempt_at
    queue,      \* _lock: its holder, then those who wait for it
    renewed,    \* the waiters in whose time a fetch succeeded
    published,  \* the keys Supabase publishes (external)
    up,         \* whether it answers (external)
    sent,       \* history: the age of the last request that reached Supabase
    failed      \* history: whether that request failed

jwksVars == <<place, kid, keys, fetched, attempt, queue, renewed, published,
              up, sent, failed>>

JwksInit ==
    /\ place = [r \in Requests |-> "idle"]
    /\ kid = [r \in Requests |-> Forged]
    /\ keys = {} /\ fetched = KeysTtl /\ attempt = MinRefresh
    /\ queue = <<>> /\ renewed = {}
    /\ published = {CHOOSE k \in Kids : TRUE}
    /\ up = TRUE /\ sent = MinRefresh /\ failed = FALSE

-----------------------------------------------------------------------------
(* What Supabase does, unasked. *)

(* Supabase begins to publish another key, or no longer publishes one. *)
Rotate ==
    /\ \E k \in Kids :
          /\ published # {k}
          /\ published' = IF k \in published THEN published \ {k}
                          ELSE published \union {k}
    /\ UNCHANGED <<place, kid, keys, fetched, attempt, queue, renewed, up,
                   sent, failed>>

(* It goes down, or comes back. *)
Flip ==
    /\ up' = ~up
    /\ UNCHANGED <<place, kid, keys, fetched, attempt, queue, renewed,
                   published, sent, failed>>

-----------------------------------------------------------------------------
(* The cache. *)


(* _cached: the set holds the key and has not aged out. *)
Cached(k) == k \in keys /\ fetched < KeysTtl

(* Too soon after the last attempt for another. *)
Throttled == attempt < MinRefresh

(* The end of get_key: the key is held by now, or the token is refused. *)
Look(r, held) ==
    /\ place' = [place EXCEPT
                   ![r] = IF kid[r] \in held THEN "authenticated" ELSE "idle"]
    /\ kid' = [kid EXCEPT ![r] = Forged]

(* The lock passes to whoever waited longest. *)
Release(r) ==
    /\ queue' = Tail(queue)
    /\ renewed' = renewed \ {r}

(* Slip: the attempt is not recorded before its outcome is known. *)
SendUnrecorded(r) ==
    /\ sent' = 0
    /\ place' = [place EXCEPT ![r] = "fetching"]
    /\ UNCHANGED <<kid, keys, fetched, failed, attempt>>

(* _last_attempt_at is set and the document asked for; the lock is kept. *)
Send(r) ==
    /\ attempt' = 0 /\ sent' = 0
    /\ place' = [place EXCEPT ![r] = "fetching"]
    /\ UNCHANGED <<kid, keys, fetched, failed>>

(* A refresh that is not needed, or comes too soon, changes nothing. *)
HeldBack(r) ==
    /\ Look(r, keys)
    /\ UNCHANGED <<keys, fetched, attempt, sent, failed>>

(* get_key up to the lock: a key that is held is returned at once. *)
Arrive(r, k) ==
    /\ place[r] = "idle"
    /\ \/ /\ Cached(k)
          /\ place' = [place EXCEPT ![r] = "authenticated"]
          /\ UNCHANGED <<kid, queue>>
       \/ /\ ~Cached(k)
          /\ queue' = Append(queue, r)
          /\ place' = [place EXCEPT ![r] = "waiting"]
          /\ kid' = [kid EXCEPT ![r] = k]
    /\ UNCHANGED <<keys, fetched, attempt, renewed, published, up, sent,
                   failed>>

(* _refresh, once the lock is the caller's, up to the fetch. *)
Enter(r) ==
    /\ queue # <<>> /\ r = Head(queue) /\ place[r] = "waiting"
    /\ \/ /\ r \in renewed \/ Throttled
          /\ HeldBack(r) /\ Release(r)
       \/ /\ r \notin renewed /\ ~Throttled
          /\ Send(r) /\ UNCHANGED <<queue, renewed>>
    /\ UNCHANGED <<published, up>>


(* The document arrives, and with it every key it holds. *)
FetchArrives(r) ==
    /\ place[r] = "fetching" /\ up
    /\ keys' = published /\ fetched' = 0 /\ failed' = FALSE
    /\ queue' = Tail(queue)
    /\ renewed' = {queue[i] : i \in 2..Len(queue)}
    /\ Look(r, published)
    /\ UNCHANGED <<attempt, published, up, sent>>


(* The fetch fails: keys that are held are used a little longer, and a       *)
(* gateway that holds none answers 503, which ends the request as a refusal  *)
(* does.                                                                     *)
FetchFails(r) ==
    /\ place[r] = "fetching" /\ ~up
    /\ failed' = TRUE
    /\ Release(r)
    /\ Look(r, keys)
    /\ UNCHANGED <<keys, fetched, attempt, published, up, sent>>

(* A ready task of the event loop runs before the clock is seen to move. *)
Settled == queue # <<>> => place[Head(queue)] = "fetching"

(* One unit of time, as the cache sees it. *)
Age ==
    LET older(age, most) == IF age < most THEN age + 1 ELSE age
    IN  /\ fetched' = older(fetched, KeysTtl)
        /\ attempt' = older(attempt, MinRefresh)
        /\ sent' = older(sent, MinRefresh)

-----------------------------------------------------------------------------
JwksTypeOK ==
    /\ place \in [Requests -> {"idle", "waiting", "fetching", "authenticated",
                               "counting", "counted"}]
    /\ kid \in [Requests -> Kids \union {Forged}]
    /\ keys \subseteq Kids /\ published \subseteq Kids /\ published # {}
    /\ fetched \in 0..KeysTtl /\ attempt \in 0..MinRefresh
    /\ sent \in 0..MinRefresh
    /\ queue \in Seq(Requests) /\ renewed \subseteq Requests
    /\ up \in BOOLEAN /\ failed \in BOOLEAN

=============================================================================
