---------------------------- MODULE Credentials ----------------------------
(***************************************************************************)
(* A user's own key for one provider: the rows of provider_keys            *)
(* (db/repo/provider_keys.py, ProviderKey of db/models.py), the settings   *)
(* endpoints that add, remove and re-check it (api/keys.py), and the turns *)
(* that resolve and use it (UserCredentials of keys_resolution/resolver.py)*)
(*                                                                         *)
(* Postgres runs each endpoint as one READ COMMITTED transaction: an       *)
(* UPDATE takes the rows committed when it starts and waits for those      *)
(* another transaction holds, an INSERT waits for another one's entry in   *)
(* the unique index.  A row is named by its place in the table.            *)
(***************************************************************************)
EXTENDS Integers, Sequences, FiniteSets

CONSTANTS
    Ops,        \* requests that may be under way at once
    Keys,       \* credentials a user may paste
    MaxRows,    \* bound on the table
    MaxFaults   \* bound on lost connections

ASSUME CredentialsAssumption == MaxRows \in Nat /\ MaxFaults \in Nat

VARIABLES
    rows,      \* the committed table
    pc,        \* the place of each request
    key,       \* the credential it works with
    row,       \* the row it resolved, or 0
    held,      \* the rows its transaction has written
    good,      \* the credentials the provider accepts (external)
    faults,    \* faults so far
    rejected   \* history: the credentials it rejected when asked

vars == <<rows, pc, key, row, held, good, faults, rejected>>
opVars == <<pc, key, row, held>>

NoKey == "none"
Row == [key : Keys, active : BOOLEAN, status : {"valid", "invalid"}]
Active(table) == {i \in DOMAIN table : table[i].active}

Init ==
    /\ rows = <<>>
    /\ pc = [o \in Ops |-> "idle"]
    /\ key = [o \in Ops |-> NoKey] /\ row = [o \in Ops |-> 0]
    /\ held = [o \in Ops |-> {}]
    /\ good = Keys
    /\ faults = 0 /\ rejected = {}

-----------------------------------------------------------------------------
Goto(o, to) == pc' = [pc EXCEPT ![o] = to]

(* Everything of o's request and of its transaction is gone. *)
Finish(o) ==
    /\ Goto(o, "idle")
    /\ key' = [key EXCEPT ![o] = NoKey]
    /\ row' = [row EXCEPT ![o] = 0]
    /\ held' = [held EXCEPT ![o] = {}]

(* Whether a row is free to be written by o. *)
Free(o, i) == \A p \in Ops \ {o} : i \notin held[p]

(* The provider is asked about a credential, and what it says is history. *)
Told(k) == rejected' = IF k \in good THEN rejected ELSE rejected \union {k}

-----------------------------------------------------------------------------
(* add_provider_key *)

(* validate_key comes first: a rejected key is a 422 and an unreachable      *)
(* provider a 503, which leave nothing behind; an accepted key is stored.    *)
Validate(o, k) ==
    /\ pc[o] = "idle" /\ Len(rows) < MaxRows
    /\ Told(k)
    /\ IF k \in good
       THEN Goto(o, "replacing") /\ key' = [key EXCEPT ![o] = k]
       ELSE UNCHANGED <<pc, key>>
    /\ UNCHANGED <<rows, row, held, good>>

(* Slip: a replaced key is gone before the new one is stored. *)
DeactivateAtOnce(o, from, wait, to) ==
    /\ pc[o] = from
    /\ \A i \in DOMAIN rows : Free(o, i)
    /\ rows' = [i \in DOMAIN rows |->
                  [rows[i] EXCEPT !.active = @ /\ from # "replacing"]]
    /\ held' = [held EXCEPT ![o] = DOMAIN rows]
    /\ Goto(o, to)
    /\ UNCHANGED <<key, row, good, rejected>>

(* deactivate: the UPDATE of every row of this user and provider.  It starts *)
(* with the rows it sees, and goes on when all of them are its own.          *)
Deactivate(o, from, wait, to) ==
    /\ pc[o] = from
    /\ \/ /\ \A i \in DOMAIN rows : Free(o, i)
          /\ Goto(o, to)
       \/ /\ \E i \in DOMAIN rows : ~Free(o, i)
          /\ Goto(o, wait)
    /\ held' = [held EXCEPT ![o] = IF pc'[o] = to THEN DOMAIN rows ELSE {}]
    /\ row' = [row EXCEPT ![o] = IF pc'[o] = to THEN 0 ELSE Len(rows)]
    /\ UNCHANGED <<rows, key, good, rejected>>

(* The rows it saw are free at last; rows stored meanwhile are not among     *)
(* them.                                                                     *)
DeactivateAfterWait(o, wait, to) ==
    /\ pc[o] = wait
    /\ \A i \in 1..row[o] : Free(o, i)
    /\ Goto(o, to)
    /\ held' = [held EXCEPT ![o] = 1..row[o]]
    /\ row' = [row EXCEPT ![o] = 0]
    /\ UNCHANGED <<rows, key, good, rejected>>

(* Slip: the index does not keep a second active row out. *)
ConflictsNever(o) == FALSE

(* uq_provider_keys_owner_id_provider_active: another active row is there. *)
Conflicts(o) == Active(rows) \ held[o] # {}

(* The INSERT, once no other transaction's row is in the index undecided. *)
Insert(o) ==
    /\ pc[o] = "inserting"
    /\ \A p \in Ops \ {o} : pc[p] # "storing"
    /\ ~Conflicts(o)
    /\ Goto(o, "storing")
    /\ UNCHANGED <<rows, key, row, held, good, rejected>>


(* The index refuses it: the transaction is rolled back, the request fails.  *)
InsertRefused(o) ==
    /\ pc[o] = "inserting"
    /\ \A p \in Ops \ {o} : pc[p] # "storing"
    /\ Conflicts(o)
    /\ Finish(o)
    /\ UNCHANGED <<rows, good, rejected>>

(* What a table becomes when o's UPDATE is committed. *)
Deactivated(o) ==
    [i \in DOMAIN rows |->
       IF i \in held[o] THEN [rows[i] EXCEPT !.active = FALSE] ELSE rows[i]]

CommitAdd(o) ==
    /\ pc[o] = "storing"
    /\ rows' = Append(Deactivated(o),
                      [key |-> key[o], active |-> TRUE, status |-> "valid"])
    /\ Finish(o)
    /\ UNCHANGED <<good, rejected>>

-----------------------------------------------------------------------------
(* remove_provider_key *)

(* The UPDATE is all there is to it; a user who never had a key gets a 404. *)
BeginRemove(o) ==
    rows # <<>> /\ Deactivate(o, "idle", "queued to remove", "removed")


CommitRemove(o) ==
    /\ pc[o] = "removed"
    /\ rows' = Deactivated(o)
    /\ Finish(o)
    /\ UNCHANGED <<good, rejected>>

-----------------------------------------------------------------------------
(* revalidate_provider_key *)

(* get_active and decrypt: a row, or 404. *)
BeginRecheck(o) ==
    /\ pc[o] = "idle"
    /\ \E i \in Active(rows) :
          /\ row' = [row EXCEPT ![o] = i]
          /\ key' = [key EXCEPT ![o] = rows[i].key]
    /\ Goto(o, "checking")
    /\ UNCHANGED <<rows, held, good, rejected>>

(* The provider answers, or cannot be reached, which is a 503. *)
Recheck(o) ==
    /\ pc[o] = "checking"
    /\ \/ /\ Told(key[o])
          /\ Goto(o, IF key[o] \in good THEN "valid" ELSE "invalid")
          /\ UNCHANGED <<key, row, held>>
       \/ Finish(o) /\ UNCHANGED rejected
    /\ UNCHANGED <<rows, good>>


(* record_validation_result, on the row that was read. *)
Record(o) ==
    /\ pc[o] \in {"valid", "invalid"} /\ Free(o, row[o])
    /\ rows' = [rows EXCEPT ![row[o]].status = pc[o]]
    /\ Finish(o)
    /\ UNCHANGED <<good, rejected>>

-----------------------------------------------------------------------------
(* A turn: UserCredentials. *)

(* _load_once: the active row is read once and kept for the whole turn.  A   *)
(* turn without one, or whose row cannot be decrypted, is served by the      *)
(* shared pool and has no more to do here.  touch_last_used may delay the    *)
(* turn; nothing depends on what it writes.                                  *)
LoadOnce(o) ==
    /\ pc[o] = "idle"
    /\ \E i \in Active(rows) :
          /\ row' = [row EXCEPT ![o] = i]
          /\ key' = [key EXCEPT ![o] = rows[i].key]
    /\ Goto(o, "resolved")
    /\ UNCHANGED <<rows, held, good, rejected>>

(* Slip: the router goes on to the next candidate and says nothing. *)
CallProviderSilently(o) ==
    /\ pc[o] = "resolved"
    /\ Told(key[o])
    /\ Finish(o)
    /\ UNCHANGED <<rows, good>>

(* An attempt on the private key: AuthFailed is recorded. *)
CallProvider(o) ==
    /\ pc[o] = "resolved"
    /\ Told(key[o])
    /\ IF key[o] \in good THEN Finish(o)
       ELSE Goto(o, "rejected") /\ UNCHANGED <<key, row, held>>
    /\ UNCHANGED <<rows, good>>


(* record_auth_failure, mark_invalid: the row the turn resolved. *)
MarkInvalid(o) ==
    /\ pc[o] = "rejected" /\ Free(o, row[o])
    /\ rows' = [rows EXCEPT ![row[o]].status = "invalid"]
    /\ Finish(o)
    /\ UNCHANGED <<good, rejected>>

-----------------------------------------------------------------------------
(* The provider begins to accept a credential, or no longer does. *)
Flip ==
    /\ \E k \in Keys : good' = IF k \in good THEN good \ {k}
                               ELSE good \union {k}
    /\ UNCHANGED <<rows, opVars, rejected>>

(* The connection or the process is lost, and with it the transaction. *)
Lose(o) ==
    /\ pc[o] # "idle"
    /\ faults < MaxFaults /\ faults' = faults + 1
    /\ Finish(o)
    /\ UNCHANGED <<rows, good, rejected>>

Work(o) ==
    \/ Deactivate(o, "replacing", "queued to replace", "inserting")
    \/ DeactivateAfterWait(o, "queued to replace", "inserting")
    \/ Insert(o) \/ InsertRefused(o) \/ CommitAdd(o)
    \/ DeactivateAfterWait(o, "queued to remove", "removed") \/ CommitRemove(o)
    \/ Recheck(o) \/ Record(o) \/ CallProvider(o) \/ MarkInvalid(o)

Next ==
    \/ \E o \in Ops : Lose(o)
    \/ /\ \/ Flip
          \/ \E o \in Ops :
                \/ Work(o)
                \/ BeginRemove(o) \/ BeginRecheck(o) \/ LoadOnce(o)
                \/ \E k \in Keys : Validate(o, k)
       /\ UNCHANGED faults

(* A request that began goes on: the provider's timeouts end its calls, and  *)
(* Postgres grants a row to those who wait for it in turn.                   *)
Fairness == \A o \in Ops : SF_vars(Work(o) /\ UNCHANGED faults)

Spec == Init /\ [][Next]_vars /\ Fairness

-----------------------------------------------------------------------------
TypeOK ==
    /\ rows \in Seq(Row)
    /\ pc \in [Ops -> {"idle", "replacing", "inserting",
                       "queued to replace", "storing",
                       "queued to remove", "removed", "checking", "valid",
                       "invalid", "resolved", "rejected"}]
    /\ key \in [Ops -> Keys \union {NoKey}]
    /\ row \in [Ops -> 0..Len(rows)]
    /\ held \in [Ops -> SUBSET (DOMAIN rows)]
    /\ good \subseteq Keys /\ rejected \subseteq Keys
    /\ faults \in 0..MaxFaults
    /\ \A o, p \in Ops : o # p => held[o] \intersect held[p] = {}

(* A user has at most one live key for a provider, however replacements and  *)
(* removals overlap: get_active relies on it.                                *)
OneActiveKey == Cardinality(Active(rows)) <= 1

(* A key is shown as rejected only if the provider rejected that very key,   *)
(* not one it replaced or that replaced it while the verdict was under way.  *)
InvalidWasRejected ==
    \A i \in DOMAIN rows : rows[i].status = "invalid" => rows[i].key \in rejected

(* A removed key stays removed: no verdict that was under way when it was    *)
(* removed or replaced brings it back into use.                              *)
RemovedStaysRemoved ==
    \A i \in DOMAIN rows : rows'[i].active => rows[i].active

(* Replacing is all or nothing: only a removal leaves a user without a key,  *)
(* whatever is lost, refused or overlapped on the way.                       *)
ReplaceIsWhole ==
    Active(rows) # {} /\ Active(rows') = {}
      => \E o \in Ops : pc[o] = "removed" /\ pc'[o] = "idle"

(* A key the provider no longer accepts is shown as rejected in the end, if  *)
(* turns keep using it: no lost write and no re-check that was under way     *)
(* hides it for good.                                                        *)
RejectionIsShown ==
    \A i \in 1..MaxRows :
      /\ <>[](i \in Active(rows) /\ rows[i].key \notin good)
      /\ []<>(\E o \in Ops : pc[o] = "resolved" /\ row[o] = i)
      => <>[](i \in DOMAIN rows /\ rows[i].status = "invalid")

(* Every request ends: none waits for ever for another's rows. *)
RequestsEnd == \A o \in Ops : []<>(pc[o] = "idle")

(* The table is sound whatever replacements, removals, re-checks and turns   *)
(* overlap: at most one live key, and none shown as rejected that was not.   *)
TableIsSound == TypeOK /\ OneActiveKey /\ InvalidWasRejected

(* Keys change whole and one way: a replacement never leaves the user with   *)
(* none, and what was removed is not revived (repo/provider_keys.py).        *)
KeysChangeWhole == [][ReplaceIsWhole /\ RemovedStaysRemoved]_vars

(* Requests over the table end, and a verdict reaches it in the end.         *)
VerdictsArrive == RequestsEnd /\ RejectionIsShown

=============================================================================
