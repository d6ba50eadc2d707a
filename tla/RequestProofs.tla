--------------------------- MODULE RequestProofs ---------------------------
(***************************************************************************)
(* What an attempt carries to its provider, the user's key and the prompt, *)
(* for any number of requests, keys and rows and for any thread, files and *)
(* models: one live key at most, no verdict on the wrong key, replacements *)
(* that are whole; a prompt that fits its model, refused only when nothing *)
(* would do, and honest about what it leaves out.                          *)
(***************************************************************************)
EXTENDS Credentials, Render, FiniteSetTheorems, SequenceTheorems, TLAPS


(* What a request has in hand at each place.                                 *)
Hand(o) ==
    /\ pc[o] \in {"replacing", "queued to replace", "inserting", "storing"}
         => key[o] \in Keys
    /\ pc[o] \in {"checking", "valid", "invalid", "resolved", "rejected"}
         => row[o] \in DOMAIN rows /\ rows[row[o]].key = key[o]
    /\ pc[o] \in {"invalid", "rejected"} => key[o] \in rejected

InHand == \A o \in Ops : Hand(o)

(* One transaction at a time has its row in the unique index, and it has     *)
(* every live row to itself.                                                 *)
Storing ==
    /\ \A o, p \in Ops : pc[o] = "storing" /\ pc[p] = "storing" => o = p
    /\ \A o \in Ops : pc[o] = "storing" => Active(rows) \subseteq held[o]

(* OneActiveKey, without counting.                                           *)
Unique == \A i, j \in Active(rows) : i = j

IInv == TypeOK /\ InHand /\ Storing /\ Unique /\ InvalidWasRejected

-----------------------------------------------------------------------------
(* Writing a row's status leaves the rest of the table.                      *)
LEMMA StatusWritten ==
    ASSUME NEW i \in DOMAIN rows, NEW s \in {"valid", "invalid"},
           rows \in Seq(Row), rows' = [rows EXCEPT ![i].status = s]
    PROVE  /\ rows' \in Seq(Row) /\ Len(rows') = Len(rows)
           /\ DOMAIN rows' = DOMAIN rows
           /\ \A j \in DOMAIN rows :
                 /\ rows'[j].key = rows[j].key
                 /\ rows'[j].active = rows[j].active
                 /\ rows'[j].status = IF j = i THEN s ELSE rows[j].status
<1> DEFINE e == [rows[i] EXCEPT !.status = s]
<1>1. DOMAIN rows = 1..Len(rows) /\ rows[i] \in Row
  BY LenProperties, ElementOfSeq
<1>2. e \in Row /\ e.key = rows[i].key /\ e.active = rows[i].active /\ e.status = s
  BY <1>1 DEF Row
<1>3. rows' = [rows EXCEPT ![i] = e]
  OBVIOUS
<1> HIDE DEF e
<1>4. /\ rows' \in Seq(Row) /\ Len(rows') = Len(rows)
      /\ \A j \in 1..Len(rows) : rows'[j] = IF j = i THEN e ELSE rows[j]
  BY <1>1, <1>2, <1>3, ExceptSeq
<1>5. DOMAIN rows' = 1..Len(rows')
  BY <1>4, LenProperties
<1> QED BY <1>1, <1>2, <1>4, <1>5

(* A committed UPDATE clears active in the rows it wrote, and nothing else.  *)
LEMMA DeactivatedShape ==
    ASSUME NEW o \in Ops, rows \in Seq(Row)
    PROVE  /\ Deactivated(o) \in Seq(Row) /\ Len(Deactivated(o)) = Len(rows)
           /\ \A j \in 1..Len(rows) :
                 /\ Deactivated(o)[j].key = rows[j].key
                 /\ Deactivated(o)[j].status = rows[j].status
                 /\ Deactivated(o)[j].active = (rows[j].active /\ j \notin held[o])
<1> DEFINE e(j) == IF j \in held[o] THEN [rows[j] EXCEPT !.active = FALSE] ELSE rows[j]
<1>1. DOMAIN rows = 1..Len(rows) /\ Len(rows) \in Nat
  BY LenProperties
<1>2. ASSUME NEW j \in 1..Len(rows)
      PROVE  /\ e(j) \in Row /\ e(j).key = rows[j].key
             /\ e(j).status = rows[j].status
             /\ e(j).active = (rows[j].active /\ j \notin held[o])
  <2>1. rows[j] \in Row
    BY ElementOfSeq
  <2> QED BY <2>1 DEF Row
<1>3. Deactivated(o) = [j \in 1..Len(rows) |-> e(j)]
  BY <1>1 DEF Deactivated
<1> HIDE DEF e
<1>4. Deactivated(o) \in Seq(Row) /\ Len(Deactivated(o)) = Len(rows)
  BY <1>1, <1>2, <1>3
<1> QED BY <1>2, <1>3, <1>4

(* Nothing is live twice is nothing counted twice.                           *)
LEMMA UniqueCounts ==
    ASSUME Unique PROVE OneActiveKey
<1>1. CASE Active(rows) = {}
  BY <1>1, FS_EmptySet DEF OneActiveKey
<1>2. CASE Active(rows) # {}
  <2>1. PICK i : i \in Active(rows)
    BY <1>2
  <2>2. Active(rows) = {i}
    BY <2>1 DEF Unique
  <2> QED BY <2>2, FS_Singleton, SMTT(30) DEF OneActiveKey
<1> QED BY <1>1, <1>2

-----------------------------------------------------------------------------
LEMMA InitIInv == Init => IInv
<1> SUFFICES ASSUME Init PROVE IInv
  OBVIOUS
<1>1. rows = <<>> /\ rows \in Seq(Row) /\ Len(rows) = 0 /\ DOMAIN rows = {}
  BY DEF Init
<1>2. TypeOK
  BY <1>1, CredentialsAssumption DEF Init, TypeOK
<1> QED BY <1>1, <1>2 DEF Init, IInv, InHand, Hand, Storing, Unique, Active, InvalidWasRejected

(* A step that leaves the table alone and keeps every request's hand in      *)
(* order: the parts of the invariant that read only the table carry over.    *)
LEMMA TableKept ==
    ASSUME IInv, UNCHANGED rows, rejected \subseteq rejected'
    PROVE  Unique' /\ InvalidWasRejected'
BY DEF IInv, Unique, Active, InvalidWasRejected

(* What the others have in hand stays true when o moves, whatever rows are   *)
(* added and whatever else is rejected.                                      *)
LEMMA OthersKept ==
    ASSUME InHand, NEW o \in Ops, DOMAIN rows \subseteq DOMAIN rows',
           \A i \in DOMAIN rows : rows'[i].key = rows[i].key,
           rejected \subseteq rejected',
           \A p \in Ops \ {o} : pc'[p] = pc[p] /\ key'[p] = key[p] /\ row'[p] = row[p],
           Hand(o)'
    PROVE  InHand'
<1> SUFFICES ASSUME NEW p \in Ops, p # o PROVE Hand(p)'
  BY DEF InHand
<1>1. Hand(p)
  BY DEF InHand
<1> QED BY <1>1 DEF Hand

(* A step by which o does not get its row into the index.                    *)
LEMMA StoringKept ==
    ASSUME Storing, NEW o \in Ops, Active(rows)' \subseteq Active(rows),
           \A p \in Ops \ {o} : pc'[p] = pc[p] /\ held'[p] = held[p],
           pc'[o] # "storing"
    PROVE  Storing'
<1>1. ASSUME NEW p \in Ops, pc'[p] = "storing"
      PROVE  p # o /\ pc[p] = "storing" /\ held'[p] = held[p]
  BY <1>1
<1> QED BY <1>1 DEF Storing

(* o's own entries change within their types.                                *)
LEMMA OwnTyped ==
    ASSUME TypeOK, NEW o \in Ops, NEW h \in SUBSET (DOMAIN rows), NEW r \in 0..Len(rows),
           \A p \in Ops \ {o} : h \intersect held[p] = {},
           held' = [held EXCEPT ![o] = h], row' = [row EXCEPT ![o] = r]
    PROVE  /\ held' \in [Ops -> SUBSET (DOMAIN rows)]
           /\ row' \in [Ops -> 0..Len(rows)]
           /\ \A p, q \in Ops : p # q => held'[p] \intersect held'[q] = {}
BY DEF TypeOK

LEMMA RowsTyped ==
    ASSUME TypeOK
    PROVE  /\ DOMAIN rows = 1..Len(rows) /\ Len(rows) \in Nat
           /\ \A i \in DOMAIN rows : rows[i] \in Row
           /\ 0 \in 0..Len(rows) /\ Len(rows) \in 0..Len(rows)
           /\ \A r \in 0..Len(rows) : 1..r \subseteq DOMAIN rows
<1>1. DOMAIN rows = 1..Len(rows) /\ Len(rows) \in Nat
  BY LenProperties DEF TypeOK
<1>2. \A i \in 1..Len(rows) : rows[i] \in Row
  BY ElementOfSeq DEF TypeOK
<1> DEFINE n == Len(rows)
<1>3. n \in Nat
  BY <1>1
<1> HIDE DEF n
<1>4. 0 \in 0..n /\ n \in 0..n /\ \A r \in 0..n : 1..r \subseteq 1..n
  BY <1>3
<1> QED BY <1>1, <1>2, <1>4 DEF n

(* A request that ends leaves the others as they are.                        *)
LEMMA FinishKeeps ==
    ASSUME IInv, NEW o \in Ops, Finish(o), UNCHANGED <<rows, good>>,
           rejected' = rejected, faults' \in 0..MaxFaults
    PROVE  IInv'
<1>1. TypeOK'
  <2>1. {} \in SUBSET (DOMAIN rows) /\ 0 \in 0..Len(rows)
    BY RowsTyped DEF IInv
  <2>2. /\ held' \in [Ops -> SUBSET (DOMAIN rows)] /\ row' \in [Ops -> 0..Len(rows)]
        /\ \A p, q \in Ops : p # q => held'[p] \intersect held'[q] = {}
    <3>1. \A p \in Ops \ {o} : {} \intersect held[p] = {}
      OBVIOUS
    <3>2. held' = [held EXCEPT ![o] = {}] /\ row' = [row EXCEPT ![o] = 0]
      BY DEF Finish
    <3> QED BY <2>1, <3>1, <3>2, OwnTyped DEF IInv
  <2> QED BY <2>2 DEF IInv, TypeOK, Finish, Goto
<1>2. InHand'
  <2>1. \A p \in Ops \ {o} : pc'[p] = pc[p] /\ key'[p] = key[p] /\ row'[p] = row[p]
    BY DEF IInv, TypeOK, Finish, Goto
  <2>2. Hand(o)'
    BY DEF IInv, TypeOK, InHand, Hand, Finish, Goto
  <2>3. UNCHANGED rows /\ rejected \subseteq rejected'
    OBVIOUS
  <2> QED BY <2>1, <2>2, <2>3, OthersKept DEF IInv
<1>3. Storing'
  <2>1. \A p \in Ops \ {o} : pc'[p] = pc[p] /\ held'[p] = held[p]
    BY DEF IInv, TypeOK, Finish, Goto
  <2>2. pc'[o] # "storing" /\ Active(rows)' \subseteq Active(rows)
    BY DEF IInv, TypeOK, Active, Finish, Goto
  <2> QED BY <2>1, <2>2, StoringKept DEF IInv
<1> QED BY <1>1, <1>2, <1>3, TableKept DEF IInv

(* So does one that is told something by the provider and moves on.          *)
LEMMA ToldTyped ==
    ASSUME TypeOK, NEW k, k \in Keys, Told(k)
    PROVE  rejected \subseteq rejected' /\ rejected' \subseteq Keys
           /\ (k \notin good => k \in rejected')
BY DEF Told, TypeOK

LEMMA ValidateKeeps ==
    ASSUME IInv, NEW o \in Ops, NEW k \in Keys, Validate(o, k), UNCHANGED faults
    PROVE  IInv'
<1>0. TypeOK /\ Told(k)
  BY DEF IInv, Validate
<1>1. rejected \subseteq rejected' /\ rejected' \subseteq Keys
  BY <1>0, ToldTyped
<1>2. TypeOK'
  BY <1>1 DEF IInv, TypeOK, Validate, Goto
<1>3. InHand'
  <2>1. \A p \in Ops \ {o} : pc'[p] = pc[p] /\ key'[p] = key[p] /\ row'[p] = row[p]
    BY <1>1 DEF IInv, TypeOK, Validate, Goto
  <2>2. Hand(o)'
    BY <1>1 DEF IInv, TypeOK, InHand, Hand, Validate, Goto
  <2>3. UNCHANGED rows /\ rejected \subseteq rejected'
    BY <1>1 DEF Validate, Goto
  <2> QED BY <2>1, <2>2, <2>3, OthersKept DEF IInv
<1>4. Storing'
  <2>1. \A p \in Ops \ {o} : pc'[p] = pc[p] /\ held'[p] = held[p]
    BY DEF IInv, TypeOK, Validate, Goto
  <2>2. pc'[o] # "storing" /\ Active(rows)' \subseteq Active(rows)
    BY DEF IInv, TypeOK, Active, Validate, Goto
  <2> QED BY <2>1, <2>2, StoringKept DEF IInv
<1>5. Unique' /\ InvalidWasRejected'
  BY <1>1, TableKept DEF Validate
<1> QED BY <1>2, <1>3, <1>4, <1>5 DEF IInv

(* An UPDATE that starts or goes on takes free rows only.                    *)
LEMMA DeactivateKeeps ==
    ASSUME IInv, NEW o \in Ops, UNCHANGED faults,
           \/ Deactivate(o, "replacing", "queued to replace", "inserting")
           \/ Deactivate(o, "idle", "queued to remove", "removed")
    PROVE  IInv'
<1>0. DOMAIN rows = 1..Len(rows) /\ Len(rows) \in Nat
  BY RowsTyped DEF IInv
<1>1. TypeOK'
  <2>1. pc' \in [Ops -> {"idle", "replacing", "inserting",
                       "queued to replace", "storing",
                       "queued to remove", "removed", "checking", "valid",
                       "invalid", "resolved", "rejected"}]
    BY DEF IInv, TypeOK, Deactivate, Goto
  <2>2. PICK h \in SUBSET (DOMAIN rows) :
           /\ held' = [held EXCEPT ![o] = h]
           /\ \A p \in Ops \ {o} : h \intersect held[p] = {}
    <3>1. CASE \A i \in DOMAIN rows : Free(o, i)
      <4>1. \A p \in Ops \ {o} : DOMAIN rows \intersect held[p] = {}
        BY <3>1 DEF Free
      <4>2. \/ held' = [held EXCEPT ![o] = DOMAIN rows]
            \/ held' = [held EXCEPT ![o] = {}]
        BY DEF Deactivate
      <4> QED BY <4>1, <4>2
    <3>2. CASE \E i \in DOMAIN rows : ~Free(o, i)
      <4>1. pc'[o] \in {"queued to replace", "queued to remove"}
        BY <3>2 DEF IInv, TypeOK, Deactivate, Goto
      <4>2. held' = [held EXCEPT ![o] = {}]
        BY <4>1 DEF Deactivate
      <4>3. {} \in SUBSET (DOMAIN rows) /\ \A p \in Ops \ {o} : {} \intersect held[p] = {}
        OBVIOUS
      <4> QED BY <4>2, <4>3, Zenon
    <3> QED BY <3>1, <3>2
  <2>3. PICK r \in 0..Len(rows) : row' = [row EXCEPT ![o] = r]
    <3>1. 0 \in 0..Len(rows) /\ Len(rows) \in 0..Len(rows)
      BY RowsTyped DEF IInv
    <3> QED BY <3>1, Zenon DEF Deactivate
  <2> QED BY <2>1, <2>2, <2>3, OwnTyped DEF IInv, TypeOK, Deactivate
<1>2. InHand'
  <2>1. \A p \in Ops \ {o} : pc'[p] = pc[p] /\ key'[p] = key[p] /\ row'[p] = row[p]
    BY DEF IInv, TypeOK, Deactivate, Goto
  <2>2. Hand(o)'
    BY DEF IInv, TypeOK, InHand, Hand, Deactivate, Goto
  <2>3. UNCHANGED rows /\ rejected \subseteq rejected'
    BY DEF Deactivate, Goto
  <2> QED BY <2>1, <2>2, <2>3, OthersKept DEF IInv
<1>3. Storing'
  <2>1. \A p \in Ops \ {o} : pc'[p] = pc[p] /\ held'[p] = held[p]
    BY DEF IInv, TypeOK, Deactivate, Goto
  <2>2. pc'[o] # "storing" /\ Active(rows)' \subseteq Active(rows)
    BY DEF IInv, TypeOK, Active, Deactivate, Goto
  <2> QED BY <2>1, <2>2, StoringKept DEF IInv
<1>4. Unique' /\ InvalidWasRejected'
  BY TableKept DEF Deactivate
<1> QED BY <1>1, <1>2, <1>3, <1>4 DEF IInv

LEMMA DeactivateAfterWaitKeeps ==
    ASSUME IInv, NEW o \in Ops, UNCHANGED faults,
           \/ DeactivateAfterWait(o, "queued to replace", "inserting")
           \/ DeactivateAfterWait(o, "queued to remove", "removed")
    PROVE  IInv'
<1>0. DOMAIN rows = 1..Len(rows) /\ Len(rows) \in Nat
  BY RowsTyped DEF IInv
<1>1. TypeOK'
  <2>1. 1..row[o] \subseteq DOMAIN rows
    <3>1. row[o] \in 0..Len(rows)
      BY DEF IInv, TypeOK
    <3> QED BY <3>1, RowsTyped DEF IInv
  <2>2. 0 \in 0..Len(rows)
    BY RowsTyped DEF IInv
  <2>3. \A p \in Ops \ {o} : (1..row[o]) \intersect held[p] = {}
    BY DEF DeactivateAfterWait, Free
  <2>4. /\ held' \in [Ops -> SUBSET (DOMAIN rows)] /\ row' \in [Ops -> 0..Len(rows)]
        /\ \A p, q \in Ops : p # q => held'[p] \intersect held'[q] = {}
    <3>1. held' = [held EXCEPT ![o] = 1..row[o]] /\ row' = [row EXCEPT ![o] = 0]
      BY DEF DeactivateAfterWait
    <3> QED BY <2>1, <2>2, <2>3, <3>1, OwnTyped DEF IInv
  <2> QED BY <2>4 DEF IInv, TypeOK, DeactivateAfterWait, Goto
<1>2. InHand'
  <2>1. \A p \in Ops \ {o} : pc'[p] = pc[p] /\ key'[p] = key[p] /\ row'[p] = row[p]
    BY DEF IInv, TypeOK, DeactivateAfterWait, Goto
  <2>2. Hand(o)'
    BY DEF IInv, TypeOK, InHand, Hand, DeactivateAfterWait, Goto
  <2>3. UNCHANGED rows /\ rejected \subseteq rejected'
    BY DEF DeactivateAfterWait, Goto
  <2> QED BY <2>1, <2>2, <2>3, OthersKept DEF IInv
<1>3. Storing'
  <2>1. \A p \in Ops \ {o} : pc'[p] = pc[p] /\ held'[p] = held[p]
    BY DEF IInv, TypeOK, DeactivateAfterWait, Goto
  <2>2. pc'[o] # "storing" /\ Active(rows)' \subseteq Active(rows)
    BY DEF IInv, TypeOK, Active, DeactivateAfterWait, Goto
  <2> QED BY <2>1, <2>2, StoringKept DEF IInv
<1>4. Unique' /\ InvalidWasRejected'
  BY TableKept DEF DeactivateAfterWait
<1> QED BY <1>1, <1>2, <1>3, <1>4 DEF IInv

(* The index lets one row in, and only when no live row is left outside the  *)
(* transaction.                                                              *)
LEMMA InsertKeeps ==
    ASSUME IInv, NEW o \in Ops, UNCHANGED faults, Insert(o)
    PROVE  IInv'
<1>1. TypeOK'
  BY DEF IInv, TypeOK, Insert, Goto
<1>2. InHand'
  <2>1. \A p \in Ops \ {o} : pc'[p] = pc[p] /\ key'[p] = key[p] /\ row'[p] = row[p]
    BY DEF IInv, TypeOK, Insert, Goto
  <2>2. Hand(o)'
    BY DEF IInv, TypeOK, InHand, Hand, Insert, Goto
  <2>3. UNCHANGED rows /\ rejected \subseteq rejected'
    BY DEF Insert, Goto
  <2> QED BY <2>1, <2>2, <2>3, OthersKept DEF IInv
<1>3. Storing'
  BY DEF IInv, TypeOK, Storing, Active, Insert, Conflicts, Goto
<1>4. Unique' /\ InvalidWasRejected'
  BY TableKept DEF Insert
<1> QED BY <1>1, <1>2, <1>3, <1>4 DEF IInv

(* get_active, for a re-check or a turn.                                     *)
LEMMA ResolveKeeps ==
    ASSUME IInv, NEW o \in Ops, UNCHANGED faults, BeginRecheck(o) \/ LoadOnce(o)
    PROVE  IInv'
<1>0. DOMAIN rows = 1..Len(rows) /\ Len(rows) \in Nat
  BY RowsTyped DEF IInv
<1>1. PICK i \in DOMAIN rows :
          /\ row' = [row EXCEPT ![o] = i]
          /\ key' = [key EXCEPT ![o] = rows[i].key]
  BY DEF BeginRecheck, LoadOnce, Active
<1>2. rows[i].key \in Keys
  <2>1. rows[i] \in Row
    BY RowsTyped DEF IInv
  <2> QED BY <2>1 DEF Row
<1>3. PICK to \in {"checking", "resolved"} : pc' = [pc EXCEPT ![o] = to]
  BY DEF BeginRecheck, LoadOnce, Goto
<1>4. UNCHANGED <<rows, held, good, rejected>>
  BY DEF BeginRecheck, LoadOnce
<1>5. TypeOK'
  <2>1. i \in 0..Len(rows)
    BY <1>0
  <2>2. row' \in [Ops -> 0..Len(rows)]
    BY <1>1, <2>1 DEF IInv, TypeOK
  <2> QED BY <1>1, <1>2, <1>3, <1>4, <2>2 DEF IInv, TypeOK
<1>6. InHand'
  <2>1. \A p \in Ops \ {o} : pc'[p] = pc[p] /\ key'[p] = key[p] /\ row'[p] = row[p]
    BY <1>1, <1>3, <1>4 DEF IInv, TypeOK
  <2>2. Hand(o)'
    BY <1>1, <1>3, <1>4 DEF IInv, TypeOK, InHand, Hand
  <2>3. UNCHANGED rows /\ rejected \subseteq rejected'
    BY <1>1, <1>3, <1>4 
  <2> QED BY <2>1, <2>2, <2>3, OthersKept DEF IInv
<1>7. Storing'
  <2>1. \A p \in Ops \ {o} : pc'[p] = pc[p] /\ held'[p] = held[p]
    BY <1>3, <1>4 DEF IInv, TypeOK
  <2>2. pc'[o] # "storing" /\ Active(rows)' \subseteq Active(rows)
    BY <1>3, <1>4 DEF IInv, TypeOK, Active
  <2> QED BY <2>1, <2>2, StoringKept DEF IInv
<1>8. Unique' /\ InvalidWasRejected'
  BY <1>4, TableKept
<1> QED BY <1>5, <1>6, <1>7, <1>8 DEF IInv

(* The provider's verdict, on a re-check or on a turn's call.                *)
LEMMA VerdictKeeps ==
    ASSUME IInv, NEW o \in Ops, UNCHANGED <<faults, rows, good, key, row, held>>,
           pc[o] \in {"checking", "resolved"}, Told(key[o]),
           NEW to \in {"valid", "invalid", "rejected"}, Goto(o, to),
           to # "valid" => key[o] \notin good
    PROVE  IInv'
<1>0. key[o] \in Keys
  <2>1. row[o] \in DOMAIN rows /\ rows[row[o]].key = key[o]
    BY DEF IInv, InHand, Hand
  <2>2. rows[row[o]] \in Row
    BY <2>1, RowsTyped DEF IInv
  <2> QED BY <2>1, <2>2 DEF Row
<1>1. /\ rejected \subseteq rejected' /\ rejected' \subseteq Keys
      /\ to # "valid" => key[o] \in rejected'
  BY <1>0, ToldTyped DEF IInv
<1>2. TypeOK'
  BY <1>1 DEF IInv, TypeOK, Goto
<1>3. InHand'
  <2>1. \A p \in Ops \ {o} : pc'[p] = pc[p] /\ key'[p] = key[p] /\ row'[p] = row[p]
    BY <1>1 DEF IInv, TypeOK, Goto
  <2>2. Hand(o)'
    BY <1>1 DEF IInv, TypeOK, InHand, Hand, Goto
  <2>3. UNCHANGED rows /\ rejected \subseteq rejected'
    BY <1>1 DEF Goto
  <2> QED BY <2>1, <2>2, <2>3, OthersKept DEF IInv
<1>4. Storing'
  <2>1. \A p \in Ops \ {o} : pc'[p] = pc[p] /\ held'[p] = held[p]
    BY DEF IInv, TypeOK, Goto
  <2>2. pc'[o] # "storing" /\ Active(rows)' \subseteq Active(rows)
    BY DEF IInv, TypeOK, Active, Goto
  <2> QED BY <2>1, <2>2, StoringKept DEF IInv
<1>5. Unique' /\ InvalidWasRejected'
  BY <1>1, TableKept
<1> QED BY <1>2, <1>3, <1>4, <1>5 DEF IInv

(* A table that keeps its keys, loses no row and gains no live one but o's   *)
(* keeps what the other requests rely on when o is done.                     *)
LEMMA CommitKeeps ==
    ASSUME IInv, NEW o \in Ops, Finish(o), UNCHANGED <<good, rejected, faults>>,
           rows' \in Seq(Row), Len(rows) \in 0..Len(rows'),
           \A i \in DOMAIN rows : rows'[i].key = rows[i].key
    PROVE  TypeOK' /\ InHand'
<1>0. TypeOK
  BY DEF IInv
<1>1. DOMAIN rows = 1..Len(rows) /\ Len(rows) \in Nat
  BY <1>0, RowsTyped
<1>2. DOMAIN rows' = 1..Len(rows') /\ Len(rows') \in Nat
  BY LenProperties
<1>3. /\ DOMAIN rows \subseteq DOMAIN rows'
      /\ 0..Len(rows) \subseteq 0..Len(rows') /\ 0 \in 0..Len(rows)
  BY <1>1, <1>2
<1>4. TypeOK'
  <2>1. /\ held' \in [Ops -> SUBSET (DOMAIN rows)] /\ row' \in [Ops -> 0..Len(rows)]
        /\ \A p, q \in Ops : p # q => held'[p] \intersect held'[q] = {}
    <3>1. \A p \in Ops \ {o} : {} \intersect held[p] = {}
      OBVIOUS
    <3>2. held' = [held EXCEPT ![o] = {}] /\ row' = [row EXCEPT ![o] = 0]
      BY DEF Finish
    <3> QED BY <1>0, <1>3, <3>1, <3>2, OwnTyped
  <2>2. held' \in [Ops -> SUBSET (DOMAIN rows')] /\ row' \in [Ops -> 0..Len(rows')]
    BY <1>3, <2>1
  <2> QED BY <2>1, <2>2, <1>0 DEF TypeOK, Finish, Goto
<1>5. InHand'
  <2>1. \A p \in Ops \ {o} : pc'[p] = pc[p] /\ key'[p] = key[p] /\ row'[p] = row[p]
    BY <1>0 DEF TypeOK, Finish, Goto
  <2>2. Hand(o)'
    BY <1>0 DEF TypeOK, Hand, Finish, Goto
  <2> QED BY <1>3, <2>1, <2>2, OthersKept DEF IInv
<1> QED BY <1>4, <1>5

LEMMA CommitAddKeeps ==
    ASSUME IInv, NEW o \in Ops, UNCHANGED faults, CommitAdd(o)
    PROVE  IInv'
<1> DEFINE T == Deactivated(o)
           new == [key |-> key[o], active |-> TRUE, status |-> "valid"]
<1>0. TypeOK /\ rows \in Seq(Row)
  BY DEF IInv, TypeOK
<1>1. /\ T \in Seq(Row) /\ Len(T) = Len(rows)
      /\ \A j \in 1..Len(rows) :
            /\ T[j].key = rows[j].key /\ T[j].status = rows[j].status
            /\ T[j].active = (rows[j].active /\ j \notin held[o])
  BY <1>0, DeactivatedShape
<1>2. DOMAIN rows = 1..Len(rows) /\ Len(rows) \in Nat
  BY <1>0, RowsTyped
<1>3. new \in Row
  BY DEF IInv, InHand, Hand, CommitAdd, Row
<1>4. Active(rows) \subseteq held[o]
  BY DEF IInv, Storing, CommitAdd
<1>5. \A j \in 1..Len(rows) : ~T[j].active
  BY <1>1, <1>2, <1>4 DEF Active
<1>6. rows' = Append(T, new)
  BY DEF CommitAdd
<1> HIDE DEF T
<1>7. /\ rows' \in Seq(Row) /\ Len(rows') = Len(rows) + 1
      /\ DOMAIN rows' = 1..(Len(rows) + 1)
      /\ \A j \in 1..Len(rows) : rows'[j] = T[j]
      /\ rows'[Len(rows) + 1] = new
  BY <1>1, <1>2, <1>3, <1>6
<1>8. Active(rows)' \subseteq {Len(rows) + 1}
  BY <1>2, <1>5, <1>7 DEF Active
<1>9. TypeOK' /\ InHand'
  <2>1. Len(rows) \in 0..Len(rows')
    BY <1>2, <1>7
  <2>2. \A i \in DOMAIN rows : rows'[i].key = rows[i].key
    BY <1>1, <1>2, <1>7
  <2> QED BY <1>7, <2>1, <2>2, CommitKeeps DEF CommitAdd
<1>10. Storing'
  <2>1. \A p \in Ops : pc'[p] # "storing"
    BY DEF IInv, TypeOK, Storing, CommitAdd, Finish, Goto
  <2> QED BY <2>1 DEF Storing
<1>11. Unique'
  BY <1>8 DEF Unique
<1>12. InvalidWasRejected'
  BY <1>1, <1>2, <1>7 DEF IInv, InvalidWasRejected, CommitAdd
<1> QED BY <1>9, <1>10, <1>11, <1>12 DEF IInv

LEMMA CommitRemoveKeeps ==
    ASSUME IInv, NEW o \in Ops, UNCHANGED faults, CommitRemove(o)
    PROVE  IInv'
<1>0. TypeOK /\ rows \in Seq(Row)
  BY DEF IInv, TypeOK
<1>1. /\ rows' \in Seq(Row) /\ Len(rows') = Len(rows)
      /\ \A j \in 1..Len(rows) :
            /\ rows'[j].key = rows[j].key /\ rows'[j].status = rows[j].status
            /\ rows'[j].active = (rows[j].active /\ j \notin held[o])
  BY <1>0, DeactivatedShape DEF CommitRemove
<1>2. DOMAIN rows = 1..Len(rows) /\ Len(rows) \in Nat
  BY <1>0, RowsTyped
<1>3. DOMAIN rows' = DOMAIN rows
  BY <1>1, <1>2, LenProperties
<1>4. Active(rows)' \subseteq Active(rows)
  BY <1>1, <1>2, <1>3 DEF Active
<1>5. TypeOK' /\ InHand'
  <2>1. Len(rows) \in 0..Len(rows')
    BY <1>0, <1>1, RowsTyped
  <2> QED BY <1>1, <1>2, <2>1, CommitKeeps DEF CommitRemove
<1>6. Storing'
  <2>1. \A p \in Ops \ {o} : pc'[p] = pc[p] /\ held'[p] = held[p]
    BY <1>0 DEF TypeOK, CommitRemove, Finish, Goto
  <2>2. pc'[o] # "storing"
    BY <1>0 DEF TypeOK, CommitRemove, Finish, Goto
  <2> QED BY <1>4, <2>1, <2>2, StoringKept DEF IInv
<1>7. Unique'
  BY <1>4 DEF IInv, Unique
<1>8. InvalidWasRejected'
  BY <1>1, <1>2, <1>3 DEF IInv, InvalidWasRejected, CommitRemove
<1> QED BY <1>5, <1>6, <1>7, <1>8 DEF IInv

(* A verdict is written to the row it is about, and says what the provider   *)
(* said.                                                                     *)
LEMMA RecordKeeps ==
    ASSUME IInv, NEW o \in Ops, UNCHANGED faults, Record(o) \/ MarkInvalid(o)
    PROVE  IInv'
<1>0. TypeOK /\ rows \in Seq(Row)
  BY DEF IInv, TypeOK
<1>1. Finish(o) /\ UNCHANGED <<good, rejected>>
  BY DEF Record, MarkInvalid
<1>2. /\ pc[o] \in {"valid", "invalid", "rejected"}
      /\ row[o] \in DOMAIN rows /\ rows[row[o]].key = key[o]
      /\ pc[o] # "valid" => key[o] \in rejected
  BY DEF IInv, InHand, Hand, Record, MarkInvalid
<1>3. PICK s \in {"valid", "invalid"} :
          /\ rows' = [rows EXCEPT ![row[o]].status = s]
          /\ s = "invalid" => pc[o] # "valid"
  BY <1>2 DEF Record, MarkInvalid
<1>4. /\ rows' \in Seq(Row) /\ Len(rows') = Len(rows)
      /\ DOMAIN rows' = DOMAIN rows
      /\ \A j \in DOMAIN rows :
            /\ rows'[j].key = rows[j].key
            /\ rows'[j].active = rows[j].active
            /\ rows'[j].status = IF j = row[o] THEN s ELSE rows[j].status
  BY <1>0, <1>2, <1>3, StatusWritten, ZenonT(30)
<1>5. Active(rows)' \subseteq Active(rows)
  BY <1>4 DEF Active
<1>6. TypeOK' /\ InHand'
  <2>1. Len(rows) \in 0..Len(rows')
    BY <1>0, <1>4, RowsTyped
  <2> QED BY <1>1, <1>4, <2>1, CommitKeeps
<1>7. Storing'
  <2>1. \A p \in Ops \ {o} : pc'[p] = pc[p] /\ held'[p] = held[p]
    BY <1>0, <1>1 DEF TypeOK, Finish, Goto
  <2>2. pc'[o] # "storing"
    BY <1>0, <1>1 DEF TypeOK, Finish, Goto
  <2> QED BY <1>5, <2>1, <2>2, StoringKept DEF IInv
<1>8. Unique'
  BY <1>5 DEF IInv, Unique
<1>9. InvalidWasRejected'
  BY <1>1, <1>2, <1>3, <1>4 DEF IInv, InvalidWasRejected
<1> QED BY <1>6, <1>7, <1>8, <1>9 DEF IInv

LEMMA FlipKeeps ==
    ASSUME IInv, UNCHANGED faults, Flip
    PROVE  IInv'
<1>1. TypeOK'
  BY DEF IInv, TypeOK, Flip, opVars
<1>2. InHand' /\ Storing'
  BY DEF IInv, InHand, Hand, Storing, Active, Flip, opVars
<1> QED BY <1>1, <1>2, TableKept DEF IInv, Flip

(* A re-check's or a turn's call comes back with an answer, or with none.    *)
LEMMA AskedKeeps ==
    ASSUME IInv, NEW o \in Ops, UNCHANGED faults, Recheck(o) \/ CallProvider(o)
    PROVE  IInv'
<1>0. faults' \in 0..MaxFaults
  BY DEF IInv, TypeOK
<1>1. CASE Finish(o) /\ UNCHANGED <<rows, good>> /\ rejected' = rejected
  BY <1>0, <1>1, FinishKeeps
<1>2. CASE /\ UNCHANGED <<rows, good, key, row, held>> /\ Told(key[o])
           /\ pc[o] \in {"checking", "resolved"}
           /\ \E to \in {"valid", "invalid", "rejected"} :
                 Goto(o, to) /\ (to # "valid" => key[o] \notin good)
  BY <1>2, VerdictKeeps
<1>3. CASE Recheck(o)
  <2>1. CASE Finish(o) /\ UNCHANGED rejected
    BY <1>1, <1>3, <2>1 DEF Recheck
  <2>2. CASE /\ Told(key[o])
             /\ Goto(o, IF key[o] \in good THEN "valid" ELSE "invalid")
             /\ UNCHANGED <<key, row, held>>
    BY <1>2, <1>3, <2>2 DEF Recheck
  <2> QED BY <1>3, <2>1, <2>2 DEF Recheck
<1>4. CASE CallProvider(o)
  <2>1. CASE key[o] \in good
    BY <1>1, <1>4, <2>1 DEF CallProvider, Told
  <2>2. CASE key[o] \notin good
    BY <1>2, <1>4, <2>2 DEF CallProvider
  <2> QED BY <2>1, <2>2
<1> QED BY <1>3, <1>4

LEMMA NextIInv == IInv /\ [Next]_vars => IInv'
<1> SUFFICES ASSUME IInv, [Next]_vars PROVE IInv'
  OBVIOUS
<1>0. faults \in 0..MaxFaults
  BY DEF IInv, TypeOK
<1>1. CASE UNCHANGED vars
  BY <1>1 DEF vars, IInv, TypeOK, InHand, Hand, Storing, Unique, Active, InvalidWasRejected
<1>2. ASSUME NEW o \in Ops, Lose(o) PROVE IInv'
  <2>1. faults' \in 0..MaxFaults
    BY <1>0, <1>2, CredentialsAssumption DEF Lose
  <2> QED BY <1>2, <2>1, FinishKeeps DEF Lose
<1>3. ASSUME UNCHANGED faults, Flip PROVE IInv'
  BY <1>3, FlipKeeps
<1>4. ASSUME NEW o \in Ops, UNCHANGED faults, Work(o) PROVE IInv'
  <2>1. ASSUME InsertRefused(o) PROVE IInv'
    BY <1>0, <1>4, <2>1, FinishKeeps DEF InsertRefused
  <2> QED BY <1>4, <2>1, DeactivateKeeps, DeactivateAfterWaitKeeps, InsertKeeps,
             CommitAddKeeps, CommitRemoveKeeps, AskedKeeps, RecordKeeps DEF Work
<1>5. ASSUME NEW o \in Ops, UNCHANGED faults,
             BeginRemove(o) \/ BeginRecheck(o) \/ LoadOnce(o)
      PROVE  IInv'
  BY <1>5, DeactivateKeeps, ResolveKeeps DEF BeginRemove
<1>6. ASSUME NEW o \in Ops, NEW k \in Keys, UNCHANGED faults, Validate(o, k) PROVE IInv'
  BY <1>6, ValidateKeeps
<1> QED BY <1>1, <1>2, <1>3, <1>4, <1>5, <1>6 DEF Next

LEMMA IInvHolds == Spec => []IInv
BY InitIInv, NextIInv, PTL DEF Spec

(* For any number of requests, keys and rows the table is sound: at most one *)
(* live key, and a key is shown as rejected only if that very key was        *)
(* (add_provider_key, deactivate, record_validation_result, mark_invalid).   *)
THEOREM TableCorrect == Spec => []TableIsSound
<1>1. IInv => TableIsSound
  BY UniqueCounts DEF IInv, TableIsSound
<1> QED BY <1>1, IInvHolds, PTL

-----------------------------------------------------------------------------
(* Only these four write the table.                                          *)
LEMMA Writers ==
    ASSUME [Next]_vars
    PROVE  \/ UNCHANGED rows
           \/ \E o \in Ops : CommitAdd(o) \/ CommitRemove(o) \/ Record(o) \/ MarkInvalid(o)
<1>1. CASE UNCHANGED vars
  BY <1>1 DEF vars
<1>2. ASSUME NEW o \in Ops, Work(o)
      PROVE  UNCHANGED rows \/ CommitAdd(o) \/ CommitRemove(o) \/ Record(o) \/ MarkInvalid(o)
  BY <1>2 DEF Work, Deactivate, DeactivateAfterWait, Insert, InsertRefused, Recheck, CallProvider
<1>3. ASSUME NEW o \in Ops, BeginRemove(o) \/ BeginRecheck(o) \/ LoadOnce(o) \/ Lose(o)
      PROVE  UNCHANGED rows
  BY <1>3 DEF BeginRemove, Deactivate, BeginRecheck, LoadOnce, Lose
<1>4. ASSUME NEW o \in Ops, NEW k \in Keys, Validate(o, k) PROVE UNCHANGED rows
  BY <1>4 DEF Validate
<1>5. Flip => UNCHANGED rows
  BY DEF Flip
<1> QED BY <1>1, <1>2, <1>3, <1>4, <1>5 DEF Next

LEMMA WholeStep ==
    ASSUME IInv, [Next]_vars
    PROVE  ReplaceIsWhole /\ RemovedStaysRemoved
<1>0. TypeOK /\ rows \in Seq(Row)
  BY DEF IInv, TypeOK
<1>1. DOMAIN rows = 1..Len(rows) /\ Len(rows) \in Nat
  BY <1>0, RowsTyped
<1>2. CASE UNCHANGED rows
  BY <1>2 DEF ReplaceIsWhole, RemovedStaysRemoved
<1>3. ASSUME NEW o \in Ops, CommitAdd(o) PROVE ReplaceIsWhole /\ RemovedStaysRemoved
  <2> DEFINE T == Deactivated(o)
             new == [key |-> key[o], active |-> TRUE, status |-> "valid"]
  <2>1. /\ T \in Seq(Row) /\ Len(T) = Len(rows)
        /\ \A j \in 1..Len(rows) : T[j].active = (rows[j].active /\ j \notin held[o])
    BY <1>0, DeactivatedShape
  <2>2. new.active /\ rows' = Append(T, new)
    BY <1>3 DEF CommitAdd
  <2> HIDE DEF T, new
  <2>3. /\ Len(rows) + 1 \in DOMAIN rows' /\ rows'[Len(rows) + 1] = new
        /\ \A j \in 1..Len(rows) : rows'[j] = T[j]
    BY <1>1, <2>1, <2>2
  <2>4. Len(rows) + 1 \in Active(rows')
    BY <2>2, <2>3 DEF Active
  <2> QED BY <1>1, <2>1, <2>3, <2>4 DEF ReplaceIsWhole, RemovedStaysRemoved
<1>4. ASSUME NEW o \in Ops, CommitRemove(o) PROVE ReplaceIsWhole /\ RemovedStaysRemoved
  <2>1. \A j \in 1..Len(rows) : rows'[j].active = (rows[j].active /\ j \notin held[o])
    BY <1>0, <1>4, DeactivatedShape DEF CommitRemove
  <2>2. pc[o] = "removed" /\ pc'[o] = "idle"
    BY <1>0, <1>4 DEF CommitRemove, Finish, Goto, TypeOK
  <2> QED BY <1>1, <2>1, <2>2 DEF ReplaceIsWhole, RemovedStaysRemoved
<1>5. ASSUME NEW o \in Ops, Record(o) \/ MarkInvalid(o) PROVE ReplaceIsWhole /\ RemovedStaysRemoved
  <2>1. row[o] \in DOMAIN rows
    BY <1>5 DEF IInv, InHand, Hand, Record, MarkInvalid
  <2>2. PICK s \in {"valid", "invalid"} : rows' = [rows EXCEPT ![row[o]].status = s]
    BY <1>5 DEF Record, MarkInvalid
  <2>3. /\ DOMAIN rows' = DOMAIN rows
        /\ \A j \in DOMAIN rows : rows'[j].active = rows[j].active
    BY <1>0, <2>1, <2>2, StatusWritten
  <2> QED BY <2>3 DEF ReplaceIsWhole, RemovedStaysRemoved, Active
<1> QED BY <1>2, <1>3, <1>4, <1>5, Writers

(* For any number of requests, keys and rows, whatever overlaps or is lost:  *)
(* only a removal leaves a user without a key, and a key that was removed or *)
(* replaced stays so (repo/provider_keys.py's upsert and deactivate).        *)
THEOREM WholeCorrect == Spec => KeysChangeWhole
<1>1. IInv /\ [Next]_vars => [ReplaceIsWhole /\ RemovedStaysRemoved]_vars
  BY WholeStep
<1> QED BY <1>1, IInvHolds, PTL DEF Spec, KeysChangeWhole

-----------------------------------------------------------------------------
-----------------------------------------------------------------------------
(* Sums and selections.                                                      *)

LEMMA LeastOf ==
    ASSUME NEW I \in SUBSET Nat, I # {}
    PROVE  \E i \in I : \A j \in I : i <= j
<1>1. PICK R : R = {p \in Nat \X Nat : p[1] < p[2]} OBVIOUS
<1>2. IsWellFoundedOn(R, Nat) BY <1>1, NatLessThanWellFounded DEF OpToRel
<1>3. PICK i \in I : \A j \in I : ~(<<j, i>> \in R) BY <1>2, WFMin
<1>4. \A j \in I : <<j, i>> \in R <=> j < i BY <1>1
<1>5. \A j \in I : ~(j < i) BY <1>3, <1>4
<1>6. i \in Nat /\ \A j \in I : j \in Nat OBVIOUS
<1> QED BY <1>5, <1>6

(* Induction, by the least number that is not in the set.                    *)
LEMMA ByInduction ==
    ASSUME NEW S, 0 \in S, \A n \in Nat : n \in S => n + 1 \in S
    PROVE  \A n \in Nat : n \in S
<1> SUFFICES ASSUME NEW x \in Nat, x \notin S PROVE FALSE
  OBVIOUS
<1>1. PICK n \in {n \in Nat : n \notin S} : \A m \in {m \in Nat : m \notin S} : n <= m
  <2>1. PICK I : I = {n \in Nat : n \notin S} OBVIOUS
  <2>2. I \in SUBSET Nat /\ I # {} BY <2>1
  <2> QED BY <2>1, <2>2, LeastOf
<1>2. n \in Nat /\ n \notin S OBVIOUS
<1>3. n - 1 \in Nat /\ (n - 1) + 1 = n BY <1>2
<1>4. n - 1 \in S BY <1>1, <1>3
<1> QED BY <1>2, <1>3, <1>4

(* The partial sums that SumOf is the last of.                               *)
Partial(f, s, m) ==
    /\ f \in [0..m -> Int] /\ f[0] = 0
    /\ \A n \in 1..m : f[n] = f[n - 1] + s[n]

LEMMA PartialExists ==
    ASSUME NEW s \in Seq(Int)
    PROVE  \E f : Partial(f, s, Len(s))
<1> DEFINE Have == {m \in Nat : m <= Len(s) => \E f : Partial(f, s, m)}
<1>1. 0 \in Have
  <2>1. PICK f : f = [n \in 0..0 |-> 0] OBVIOUS
  <2>2. Partial(f, s, 0) BY <2>1 DEF Partial
  <2> QED BY <2>2
<1>2. ASSUME NEW m \in Nat, m \in Have PROVE m + 1 \in Have
  <2>1. SUFFICES ASSUME m + 1 <= Len(s)
                 PROVE  \E f : Partial(f, s, m + 1)
    BY <1>2
  <2>2. PICK f : Partial(f, s, m)
    BY <1>2, <2>1
  <2>3. PICK g : g = [n \in 0..(m + 1) |-> IF n = m + 1 THEN f[m] + s[m + 1] ELSE f[n]]
    OBVIOUS
  <2>4. s[m + 1] \in Int /\ f[m] \in Int
    BY <2>1, <2>2 DEF Partial
  <2>5. g \in [0..(m + 1) -> Int]
    BY <2>2, <2>3, <2>4 DEF Partial
  <2>6. g[0] = 0
    BY <2>2, <2>3 DEF Partial
  <2>7. ASSUME NEW n \in 1..(m + 1) PROVE g[n] = g[n - 1] + s[n]
    <3>1. CASE n = m + 1
      <4>1. g[n] = f[m] + s[m + 1] /\ g[n - 1] = f[m]
        BY <2>3, <3>1
      <4> QED BY <3>1, <4>1
    <3>2. CASE n # m + 1
      <4>1. n \in 1..m /\ n - 1 \in 0..m /\ n \in 0..m
        BY <3>2
      <4>2. g[n] = f[n] /\ g[n - 1] = f[n - 1]
        BY <2>3, <4>1
      <4> QED BY <2>2, <4>1, <4>2 DEF Partial
    <3> QED BY <3>1, <3>2
  <2> QED BY <2>5, <2>6, <2>7 DEF Partial
<1>3. Len(s) \in Have
  <2> HIDE DEF Have
  <2> QED BY <1>1, <1>2, ByInduction
<1> QED BY <1>3

LEMMA SumIs ==
    ASSUME NEW s \in Seq(Int)
    PROVE  \E f : Partial(f, s, Len(s)) /\ SumOf(s) = f[Len(s)]
<1> DEFINE Sums(f) == f = [n \in 0..Len(s) |-> IF n = 0 THEN 0 ELSE f[n - 1] + s[n]]
<1>1. PICK f : Partial(f, s, Len(s))
  BY PartialExists
<1>2. Sums(f)
  BY <1>1 DEF Partial
<1>3. PICK g : g = CHOOSE h : Sums(h)
  OBVIOUS
<1>4. Sums(g)
  BY <1>2, <1>3
<1>5. SumOf(s) = g[Len(s)]
  BY <1>3 DEF SumOf
<1>6. g[0] = 0 /\ \A n \in 1..Len(s) : g[n] = g[n - 1] + s[n]
  <2>1. \A n \in 0..Len(s) : g[n] = IF n = 0 THEN 0 ELSE g[n - 1] + s[n]
    BY <1>4
  <2> QED BY <2>1
<1> DEFINE Have == {n \in Nat : n <= Len(s) => g[n] \in Int}
<1>7. 0 \in Have
  BY <1>6
<1>8. ASSUME NEW n \in Nat, n \in Have PROVE n + 1 \in Have
  BY <1>6, <1>8, SMTT(30)
<1>9. \A n \in Nat : n \in Have
  <2> HIDE DEF Have
  <2> QED BY <1>7, <1>8, ByInduction
<1>10. g \in [0..Len(s) -> Int]
  <2>1. \A n \in 0..Len(s) : g[n] \in Int
    BY <1>9
  <2>2. g = [n \in 0..Len(s) |-> g[n]]
    BY <1>4
  <2> QED BY <2>1, <2>2
<1> QED BY <1>5, <1>6, <1>10 DEF Partial


(* Two sequences that agree so far have the same partial sums, so far.       *)
LEMMA PartialsAgree ==
    ASSUME NEW s, NEW t, NEW n \in Nat, NEW m \in Nat, NEW l \in Nat, n <= m, n <= l,
           NEW f, NEW g, Partial(f, s, m), Partial(g, t, l),
           \A i \in 1..n : s[i] = t[i]
    PROVE  f[n] = g[n]
<1> DEFINE Have == {i \in Nat : i <= n => f[i] = g[i]}
<1>1. 0 \in Have
  BY DEF Partial
<1>2. ASSUME NEW i \in Nat, i \in Have PROVE i + 1 \in Have
  <2>1. SUFFICES ASSUME i + 1 <= n PROVE f[i + 1] = g[i + 1]
    BY <1>2
  <2>2. i + 1 \in 1..n /\ i + 1 \in 1..m /\ i + 1 \in 1..l /\ (i + 1) - 1 = i
    BY <2>1
  <2>3. f[i] = g[i]
    BY <1>2, <2>1
  <2>4. f[i + 1] = f[i] + s[i + 1] /\ g[i + 1] = g[i] + t[i + 1]
    BY <2>2 DEF Partial
  <2> QED BY <2>2, <2>3, <2>4
<1> HIDE DEF Have
<1>3. n \in Have BY <1>1, <1>2, ByInduction
<1> QED BY <1>3 DEF Have

LEMMA SumEmpty == SumOf(<<>>) = 0
<1>1. <<>> \in Seq(Int) /\ Len(<<>>) = 0
  OBVIOUS
<1>2. PICK f : Partial(f, <<>>, 0) /\ SumOf(<<>>) = f[0]
  BY <1>1, SumIs
<1> QED BY <1>2 DEF Partial

LEMMA SumAppend ==
    ASSUME NEW s \in Seq(Int), NEW x \in Int
    PROVE  SumOf(s) \in Int /\ SumOf(Append(s, x)) = SumOf(s) + x
<1>1. PICK f : Partial(f, s, Len(s)) /\ SumOf(s) = f[Len(s)]
  BY SumIs
<1>2. PICK t : t = Append(s, x)
  OBVIOUS
<1>3. t \in Seq(Int) /\ Len(t) = Len(s) + 1 /\ t[Len(s) + 1] = x /\ Len(s) \in Nat
  BY <1>2
<1>4. \A i \in 1..Len(s) : s[i] = t[i]
  BY <1>2
<1>5. PICK g : Partial(g, t, Len(t)) /\ SumOf(t) = g[Len(t)]
  BY <1>3, SumIs
<1>6. f[Len(s)] = g[Len(s)]
  <2>1. Len(s) <= Len(s) /\ Len(s) <= Len(t) /\ Len(t) \in Nat
    BY <1>3
  <2> QED BY <1>1, <1>3, <1>4, <1>5, <2>1, PartialsAgree, SMTT(30)
<1>7. g[Len(t)] = g[Len(s)] + x
  BY <1>3, <1>5, SMTT(30) DEF Partial
<1>8. f[Len(s)] \in Int
  BY <1>1, <1>3 DEF Partial
<1> QED BY <1>1, <1>2, <1>5, <1>6, <1>7, <1>8

LEMMA SumOne ==
    ASSUME NEW x \in Int
    PROVE  SumOf(<<x>>) = x
<1>1. <<>> \in Seq(Int) /\ <<x>> = Append(<<>>, x)
  OBVIOUS
<1>2. SumOf(Append(<<>>, x)) = SumOf(<<>>) + x
  BY <1>1, SumAppend
<1> QED BY <1>1, <1>2, SumEmpty

(* A sum of sums, a sum that is no smaller, a sum with one term replaced.    *)
LEMMA SumPlus ==
    ASSUME NEW s \in Seq(Int), NEW t \in Seq(Int), NEW u \in Seq(Int),
           Len(t) = Len(s), Len(u) = Len(s),
           \A i \in 1..Len(s) : u[i] = s[i] + t[i]
    PROVE  SumOf(u) = SumOf(s) + SumOf(t)
<1>1. PICK f : Partial(f, s, Len(s)) /\ SumOf(s) = f[Len(s)]
  BY SumIs
<1>2. PICK g : Partial(g, t, Len(s)) /\ SumOf(t) = g[Len(s)]
  BY SumIs
<1>3. PICK h : Partial(h, u, Len(s)) /\ SumOf(u) = h[Len(s)]
  BY SumIs
<1> DEFINE Have == {i \in Nat : i <= Len(s) => h[i] = f[i] + g[i]}
<1>4. 0 \in Have
  BY <1>1, <1>2, <1>3 DEF Partial
<1>5. ASSUME NEW i \in Nat, i \in Have PROVE i + 1 \in Have
  <2>1. SUFFICES ASSUME i + 1 <= Len(s) PROVE h[i + 1] = f[i + 1] + g[i + 1]
    BY <1>5
  <2>2. i + 1 \in 1..Len(s) /\ (i + 1) - 1 = i /\ i \in 0..Len(s)
    BY <2>1
  <2>3. h[i] = f[i] + g[i]
    BY <1>5, <2>1
  <2>4. f[i + 1] = f[i] + s[i + 1] /\ g[i + 1] = g[i] + t[i + 1] /\ h[i + 1] = h[i] + u[i + 1]
    BY <1>1, <1>2, <1>3, <2>2 DEF Partial
  <2>5. f[i] \in Int /\ g[i] \in Int /\ s[i + 1] \in Int /\ t[i + 1] \in Int
    <3>1. f[i] \in Int
      BY <1>1, <2>2 DEF Partial
    <3>2. g[i] \in Int
      BY <1>2, <2>2 DEF Partial
    <3> QED BY <2>2, <3>1, <3>2
  <2>6. u[i + 1] = s[i + 1] + t[i + 1]
    BY <2>2
  <2> QED BY <2>3, <2>4, <2>5, <2>6, SMTT(30)
<1>6. Len(s) \in Have
  <2>1. Len(s) \in Nat
    OBVIOUS
  <2> HIDE DEF Have
  <2> QED BY <1>4, <1>5, <2>1, ByInduction
<1> QED BY <1>1, <1>2, <1>3, <1>6

LEMMA SumNat ==
    ASSUME NEW s \in Seq(Nat)
    PROVE  SumOf(s) \in Nat
<1>0. s \in Seq(Int)
  OBVIOUS
<1>1. PICK f : Partial(f, s, Len(s)) /\ SumOf(s) = f[Len(s)]
  BY <1>0, SumIs
<1> DEFINE Have == {i \in Nat : i <= Len(s) => f[i] \in Nat}
<1>2. 0 \in Have
  BY <1>1 DEF Partial
<1>3. ASSUME NEW i \in Nat, i \in Have PROVE i + 1 \in Have
  <2>1. SUFFICES ASSUME i + 1 <= Len(s) PROVE f[i + 1] \in Nat
    BY <1>3
  <2>2. i + 1 \in 1..Len(s) /\ (i + 1) - 1 = i /\ f[i] \in Nat /\ s[i + 1] \in Nat
    BY <1>3, <2>1
  <2>3. f[i + 1] = f[i] + s[i + 1]
    BY <1>1, <2>2 DEF Partial
  <2> QED BY <2>2, <2>3
<1>4. Len(s) \in Have
  <2>1. Len(s) \in Nat
    OBVIOUS
  <2> HIDE DEF Have
  <2> QED BY <1>2, <1>3, <2>1, ByInduction
<1> QED BY <1>1, <1>4

LEMMA SumLeq ==
    ASSUME NEW s \in Seq(Int), NEW t \in Seq(Int), Len(t) = Len(s),
           \A i \in 1..Len(s) : s[i] <= t[i]
    PROVE  SumOf(s) <= SumOf(t)
<1>1. PICK d : d = [i \in 1..Len(s) |-> t[i] - s[i]]
  OBVIOUS
<1>2. d \in Seq(Nat) /\ Len(d) = Len(s)
  <2>1. \A i \in 1..Len(s) : d[i] \in Nat
    BY <1>1
  <2> QED BY <1>1, <2>1
<1>3. d \in Seq(Int) /\ \A i \in 1..Len(s) : t[i] = s[i] + d[i]
  BY <1>1, <1>2
<1>4. SumOf(t) = SumOf(s) + SumOf(d)
  BY <1>2, <1>3, SumPlus
<1>5. SumOf(d) \in Nat /\ SumOf(s) \in Int
  BY <1>2, SumNat, SumAppend
<1> QED BY <1>4, <1>5

(* A sum with one term other than zero is that term.                         *)
LEMMA SumPoint ==
    ASSUME NEW s \in Seq(Int), NEW k \in 1..Len(s), \A i \in 1..Len(s) : i # k => s[i] = 0
    PROVE  SumOf(s) = s[k]
<1>1. PICK f : Partial(f, s, Len(s)) /\ SumOf(s) = f[Len(s)]
  BY SumIs
<1> DEFINE Have == {i \in Nat : i <= Len(s) => f[i] = IF i < k THEN 0 ELSE s[k]}
<1>2. 0 \in Have
  BY <1>1 DEF Partial
<1>3. ASSUME NEW i \in Nat, i \in Have PROVE i + 1 \in Have
  <2>1. SUFFICES ASSUME i + 1 <= Len(s) PROVE f[i + 1] = IF i + 1 < k THEN 0 ELSE s[k]
    BY <1>3
  <2>2. i + 1 \in 1..Len(s) /\ (i + 1) - 1 = i /\ s[k] \in Int
    BY <2>1
  <2>3. f[i] = IF i < k THEN 0 ELSE s[k]
    BY <1>3, <2>1
  <2>4. f[i + 1] = f[i] + s[i + 1]
    BY <1>1, <2>2 DEF Partial
  <2>5. CASE i + 1 = k
    BY <2>2, <2>3, <2>4, <2>5
  <2>6. CASE i + 1 # k
    BY <2>2, <2>3, <2>4, <2>6
  <2> QED BY <2>5, <2>6
<1>4. Len(s) \in Have
  <2>1. Len(s) \in Nat
    OBVIOUS
  <2> HIDE DEF Have
  <2> QED BY <1>2, <1>3, <2>1, ByInduction
<1> QED BY <1>1, <1>4

LEMMA SumReplace ==
    ASSUME NEW s \in Seq(Int), NEW t \in Seq(Int), Len(t) = Len(s), NEW k \in 1..Len(s),
           \A i \in 1..Len(s) : i # k => t[i] = s[i]
    PROVE  SumOf(t) = SumOf(s) + (t[k] - s[k])
<1>1. PICK d : d = [i \in 1..Len(s) |-> IF i = k THEN t[k] - s[k] ELSE 0]
  OBVIOUS
<1>2. d \in Seq(Int) /\ Len(d) = Len(s) /\ d[k] = t[k] - s[k]
  BY <1>1
<1>3. SumOf(d) = t[k] - s[k]
  BY <1>1, <1>2, SumPoint
<1>4. \A i \in 1..Len(s) : t[i] = s[i] + d[i]
  BY <1>1
<1> QED BY <1>2, <1>3, <1>4, SumPlus, SMTT(30)

(* The selections that Places is the last of.                                *)
Selecting(f, n, S) ==
    /\ f \in [0..n -> Seq(Nat)] /\ f[0] = <<>>
    /\ \A m \in 1..n : f[m] = IF m \in S THEN Append(f[m - 1], m) ELSE f[m - 1]

LEMMA SelectingExists ==
    ASSUME NEW n \in Nat, NEW S
    PROVE  \E f : Selecting(f, n, S)
<1> DEFINE Have == {m \in Nat : \E f : Selecting(f, m, S)}
<1>1. 0 \in Have
  <2>1. PICK f : f = [i \in 0..0 |-> <<>>] OBVIOUS
  <2>2. f \in [0..0 -> Seq(Nat)] BY <2>1
  <2>3. Selecting(f, 0, S) BY <2>1, <2>2 DEF Selecting
  <2> QED BY <2>3
<1>2. ASSUME NEW m \in Nat, m \in Have PROVE m + 1 \in Have
  <2>1. PICK f : Selecting(f, m, S)
    BY <1>2
  <2>2. PICK x : x = IF m + 1 \in S THEN Append(f[m], m + 1) ELSE f[m]
    OBVIOUS
  <2>3. f[m] \in Seq(Nat) /\ x \in Seq(Nat)
    BY <2>1, <2>2 DEF Selecting
  <2>4. PICK g : g = [i \in 0..(m + 1) |-> IF i = m + 1 THEN x ELSE f[i]]
    OBVIOUS
  <2>5. g \in [0..(m + 1) -> Seq(Nat)]
    <3>1. \A i \in 0..(m + 1) : i # m + 1 => f[i] \in Seq(Nat)
      BY <2>1 DEF Selecting
    <3> QED BY <2>3, <2>4, <3>1
  <2>6. g[0] = <<>>
    BY <2>1, <2>4 DEF Selecting
  <2>7. ASSUME NEW i \in 1..(m + 1)
        PROVE  g[i] = IF i \in S THEN Append(g[i - 1], i) ELSE g[i - 1]
    <3>1. CASE i = m + 1
      <4>1. g[i] = x /\ g[i - 1] = f[m]
        BY <2>4, <3>1
      <4> QED BY <2>2, <3>1, <4>1
    <3>2. CASE i # m + 1
      <4>1. i \in 1..m /\ i - 1 \in 0..m /\ i \in 0..m
        BY <3>2
      <4>2. g[i] = f[i] /\ g[i - 1] = f[i - 1]
        BY <2>4, <4>1
      <4> QED BY <2>1, <4>1, <4>2 DEF Selecting
    <3> QED BY <3>1, <3>2
  <2>8. Selecting(g, m + 1, S)
    BY <2>5, <2>6, <2>7 DEF Selecting
  <2> QED BY <2>8
<1>3. n \in Have
  <2> HIDE DEF Have
  <2> QED BY <1>1, <1>2, ByInduction
<1> QED BY <1>3

LEMMA PlacesAre ==
    ASSUME NEW n \in Nat, NEW S
    PROVE  \E f : Selecting(f, n, S) /\ Places(n, S) = f[n]
<1> DEFINE Selects(f) ==
        f = [m \in 0..n |-> IF m = 0 THEN <<>>
                            ELSE IF m \in S THEN Append(f[m - 1], m) ELSE f[m - 1]]
<1>1. PICK f : Selecting(f, n, S)
  BY SelectingExists
<1>2. Selects(f)
  <2>1. \A m \in 0..n : m = 0 \/ m \in 1..n
    OBVIOUS
  <2>2. \A m \in 0..n : f[m] = IF m = 0 THEN <<>>
                               ELSE IF m \in S THEN Append(f[m - 1], m) ELSE f[m - 1]
    BY <1>1, <2>1 DEF Selecting
  <2>3. f = [m \in 0..n |-> f[m]]
    BY <1>1 DEF Selecting
  <2> QED BY <2>2, <2>3
<1>3. PICK g : g = CHOOSE h : Selects(h)
  OBVIOUS
<1>4. Selects(g)
  BY <1>2, <1>3
<1>5. Places(n, S) = g[n]
  BY <1>3 DEF Places
<1>6. \A m \in 0..n : g[m] = IF m = 0 THEN <<>>
                             ELSE IF m \in S THEN Append(g[m - 1], m) ELSE g[m - 1]
  BY <1>4
<1>7. g[0] = <<>> /\ \A m \in 1..n : g[m] = IF m \in S THEN Append(g[m - 1], m) ELSE g[m - 1]
  BY <1>6
<1> DEFINE Have == {m \in Nat : m <= n => g[m] \in Seq(Nat)}
<1>8. 0 \in Have
  <2>1. <<>> \in Seq(Nat)
    OBVIOUS
  <2> QED BY <1>7, <2>1
<1>9. ASSUME NEW m \in Nat, m \in Have PROVE m + 1 \in Have
  <2>1. SUFFICES ASSUME m + 1 <= n PROVE g[m + 1] \in Seq(Nat)
    BY <1>9
  <2>2. m + 1 \in 1..n /\ (m + 1) - 1 = m /\ g[m] \in Seq(Nat)
    BY <1>9, <2>1
  <2>3. g[m + 1] = IF m + 1 \in S THEN Append(g[m], m + 1) ELSE g[m]
    BY <1>7, <2>2
  <2> QED BY <2>2, <2>3
<1>10. \A m \in Nat : m \in Have
  <2> HIDE DEF Have
  <2> QED BY <1>8, <1>9, ByInduction
<1>11. g \in [0..n -> Seq(Nat)]
  BY <1>4, <1>10, SMTT(30)
<1> QED BY <1>5, <1>7, <1>11 DEF Selecting

LEMMA PlacesStep ==
    ASSUME NEW n \in Nat, NEW S
    PROVE  /\ Places(0, S) = <<>>
           /\ Places(n, S) \in Seq(Nat)
           /\ Places(n + 1, S) =
                 IF n + 1 \in S THEN Append(Places(n, S), n + 1) ELSE Places(n, S)
<1>1. PICK f : Selecting(f, n, S) /\ Places(n, S) = f[n]
  BY PlacesAre
<1>2. PICK g : Selecting(g, n + 1, S) /\ Places(n + 1, S) = g[n + 1]
  BY PlacesAre
<1>3. PICK h : Selecting(h, 0, S) /\ Places(0, S) = h[0]
  BY PlacesAre
<1> DEFINE Have == {i \in Nat : i <= n => f[i] = g[i]}
<1>4. 0 \in Have
  BY <1>1, <1>2 DEF Selecting
<1>5. ASSUME NEW i \in Nat, i \in Have PROVE i + 1 \in Have
  <2>1. SUFFICES ASSUME i + 1 <= n PROVE f[i + 1] = g[i + 1]
    BY <1>5
  <2>2. i + 1 \in 1..n /\ i + 1 \in 1..(n + 1) /\ (i + 1) - 1 = i /\ f[i] = g[i]
    BY <1>5, <2>1
  <2> QED BY <1>1, <1>2, <2>2 DEF Selecting
<1>6. n \in Have
  <2> HIDE DEF Have
  <2> QED BY <1>4, <1>5, ByInduction
<1>7. f[n] = g[n]
  BY <1>6
<1>8. g[n + 1] = IF n + 1 \in S THEN Append(g[n], n + 1) ELSE g[n]
  BY <1>2 DEF Selecting
<1>9. f[n] \in Seq(Nat) /\ h[0] = <<>>
  BY <1>1, <1>3 DEF Selecting
<1> QED BY <1>1, <1>2, <1>3, <1>7, <1>8, <1>9

(* Places lists the members of S up to n, once each, in increasing order.    *)
InPlace(p, n, S) ==
    /\ p \in Seq(Nat)
    /\ \A k \in DOMAIN p : p[k] \in S /\ p[k] \in 1..n
    /\ \A k, l \in DOMAIN p : k < l => p[k] < p[l]
    /\ \A i \in 1..n : i \in S => \E k \in DOMAIN p : p[k] = i
    /\ IsFiniteSet(S \cap 1..n) /\ Len(p) = Cardinality(S \cap 1..n)

LEMMA PlacesInPlace ==
    ASSUME NEW n \in Nat, NEW S
    PROVE  InPlace(Places(n, S), n, S)
<1> DEFINE Have == {m \in Nat : InPlace(Places(m, S), m, S)}
<1>1. 0 \in Have
  <2>1. Places(0, S) = <<>>
    BY PlacesStep
  <2>2. S \cap 1..0 = {}
    OBVIOUS
  <2>3. Cardinality({}) = 0 /\ IsFiniteSet({})
    BY FS_EmptySet
  <2>4. InPlace(<<>>, 0, S)
    BY <2>2, <2>3 DEF InPlace
  <2> QED BY <2>1, <2>4
<1>2. ASSUME NEW m \in Nat, m \in Have PROVE m + 1 \in Have
  <2>1. PICK p : p = Places(m, S) /\ InPlace(p, m, S)
    BY <1>2
  <2>2. SUFFICES InPlace(Places(m + 1, S), m + 1, S)
    BY <1>2
  <2>3. CASE m + 1 \notin S
    <3>1. Places(m + 1, S) = p
      BY <2>1, <2>3, PlacesStep
    <3>2. S \cap 1..(m + 1) = S \cap 1..m
      BY <2>3
    <3> QED BY <2>1, <2>3, <3>1, <3>2 DEF InPlace
  <2>4. CASE m + 1 \in S
    <3>1. PICK q : q = Append(p, m + 1)
      OBVIOUS
    <3>2. Places(m + 1, S) = q
      BY <2>1, <2>4, <3>1, PlacesStep
    <3>3. p \in Seq(Nat) /\ q \in Seq(Nat) /\ Len(q) = Len(p) + 1 /\ Len(p) \in Nat
      BY <2>1, <3>1 DEF InPlace
    <3>4. q[Len(p) + 1] = m + 1 /\ \A k \in 1..Len(p) : q[k] = p[k]
      BY <3>1, <3>3
    <3>5. DOMAIN q = 1..(Len(p) + 1) /\ DOMAIN p = 1..Len(p)
      BY <3>3
    <3>6. \A k \in DOMAIN q : q[k] \in S /\ q[k] \in 1..(m + 1)
      <4>1. \A k \in 1..Len(p) : p[k] \in S /\ p[k] \in 1..m
        BY <2>1, <3>5 DEF InPlace
      <4>2. q[Len(p) + 1] \in S /\ q[Len(p) + 1] \in 1..(m + 1)
        BY <2>4, <3>4
      <4>3. \A k \in 1..Len(p) : q[k] \in S /\ q[k] \in 1..(m + 1)
        BY <3>4, <4>1
      <4>4. \A k \in DOMAIN q : k \in 1..Len(p) \/ k = Len(p) + 1
        BY <3>3, <3>5
      <4> QED BY <4>2, <4>3, <4>4
    <3>7. \A k, l \in DOMAIN q : k < l => q[k] < q[l]
      <4> SUFFICES ASSUME NEW k \in DOMAIN q, NEW l \in DOMAIN q, k < l PROVE q[k] < q[l]
        OBVIOUS
      <4>4. k \in 1..Len(p)
        BY <3>3, <3>5
      <4>1. k \in 1..Len(p) /\ q[k] = p[k] /\ p[k] \in 1..m
        BY <2>1, <3>4, <3>5, <4>4 DEF InPlace
      <4>2. CASE l = Len(p) + 1
        BY <3>4, <4>1, <4>2
      <4>3. CASE l # Len(p) + 1
        <5>1. l \in 1..Len(p)
          BY <3>3, <3>5, <4>3
        <5> QED BY <2>1, <3>4, <3>5, <4>1, <5>1 DEF InPlace
      <4> QED BY <4>2, <4>3
    <3>8. \A i \in 1..(m + 1) : i \in S => \E k \in DOMAIN q : q[k] = i
      <4> SUFFICES ASSUME NEW i \in 1..(m + 1), i \in S PROVE \E k \in DOMAIN q : q[k] = i
        OBVIOUS
      <4>1. CASE i = m + 1
        BY <3>3, <3>4, <3>5, <4>1
      <4>2. CASE i # m + 1
        <5>1. i \in 1..m
          BY <4>2
        <5>2. PICK k \in 1..Len(p) : p[k] = i
          BY <2>1, <3>5, <5>1 DEF InPlace
        <5>3. k \in DOMAIN q /\ q[k] = i
          BY <3>3, <3>4, <3>5, <5>2
        <5> QED BY <5>3
      <4> QED BY <4>1, <4>2
    <3>9. IsFiniteSet(S \cap 1..(m + 1)) /\ Len(q) = Cardinality(S \cap 1..(m + 1))
      <4>1. S \cap 1..(m + 1) = (S \cap 1..m) \cup {m + 1} /\ m + 1 \notin S \cap 1..m
        BY <2>4
      <4>2. IsFiniteSet(S \cap 1..m) /\ Len(p) = Cardinality(S \cap 1..m)
        BY <2>1 DEF InPlace
      <4>3. PICK T : T = S \cap 1..m
        OBVIOUS
      <4>4. IsFiniteSet(T \cup {m + 1}) /\ Cardinality(T \cup {m + 1}) = Cardinality(T) + 1
        BY <4>1, <4>2, <4>3, FS_AddElement
      <4> QED BY <3>3, <4>1, <4>2, <4>3, <4>4
    <3> QED BY <3>2, <3>3, <3>6, <3>7, <3>8, <3>9 DEF InPlace
  <2> QED BY <2>3, <2>4
<1>3. n \in Have
  <2> HIDE DEF Have
  <2> QED BY <1>1, <1>2, ByInduction
<1> QED BY <1>3

(* Pick, position by position.                                               *)
PickTo(s, n, S) == [k \in DOMAIN Places(n, S) |-> s[Places(n, S)[k]]]

LEMMA PickToStep ==
    ASSUME NEW T, NEW s \in Seq(T), NEW S, NEW n \in 0..Len(s)
    PROVE  /\ PickTo(s, 0, S) = <<>>
           /\ PickTo(s, n, S) \in Seq(T)
           /\ Len(PickTo(s, n, S)) = Len(Places(n, S))
           /\ DOMAIN PickTo(s, n, S) = 1..Len(Places(n, S))
           /\ n + 1 \in 1..Len(s) =>
                 PickTo(s, n + 1, S) = IF n + 1 \in S THEN Append(PickTo(s, n, S), s[n + 1])
                                                      ELSE PickTo(s, n, S)
<1>0. n \in Nat /\ n <= Len(s) /\ Len(s) \in Nat
  OBVIOUS
<1>1. PICK p : p = Places(n, S) /\ InPlace(p, n, S)
  BY <1>0, PlacesInPlace
<1>2. p \in Seq(Nat) /\ DOMAIN p = 1..Len(p) /\ Len(p) \in Nat
  BY <1>1 DEF InPlace
<1>3. PICK a : a = [k \in 1..Len(p) |-> s[p[k]]]
  OBVIOUS
<1>4. PickTo(s, n, S) = a
  BY <1>1, <1>2, <1>3 DEF PickTo
<1>5. \A k \in 1..Len(p) : p[k] \in 1..Len(s)
  <2>1. \A k \in 1..Len(p) : p[k] \in 1..n
    BY <1>1, <1>2 DEF InPlace
  <2> QED BY <1>0, <2>1
<1>6. \A k \in 1..Len(p) : s[p[k]] \in T
  BY <1>5
<1>7. a \in Seq(T) /\ Len(a) = Len(p) /\ DOMAIN a = 1..Len(p)
  BY <1>2, <1>3, <1>6
<1>8. PickTo(s, 0, S) = <<>>
  <2>1. Places(0, S) = <<>>
    BY PlacesStep
  <2> QED BY <2>1 DEF PickTo
<1>9. ASSUME n + 1 \in 1..Len(s)
      PROVE  PickTo(s, n + 1, S) = IF n + 1 \in S THEN Append(a, s[n + 1]) ELSE a
  <2>1. CASE n + 1 \notin S
    <3>1. Places(n + 1, S) = p
      BY <1>0, <1>1, <2>1, PlacesStep
    <3> QED BY <1>2, <1>3, <2>1, <3>1 DEF PickTo
  <2>2. CASE n + 1 \in S
    <3>1. PICK q : q = Append(p, n + 1)
      OBVIOUS
    <3>2. Places(n + 1, S) = q
      BY <1>0, <1>1, <2>2, <3>1, PlacesStep
    <3>3. DOMAIN q = 1..(Len(p) + 1) /\ q[Len(p) + 1] = n + 1
          /\ \A k \in 1..Len(p) : q[k] = p[k]
      BY <1>0, <1>2, <3>1
    <3>4. PICK b : b = [k \in 1..(Len(p) + 1) |-> s[q[k]]]
      OBVIOUS
    <3>5. PickTo(s, n + 1, S) = b
      BY <3>2, <3>3, <3>4 DEF PickTo
    <3>6. PICK c : c = Append(a, s[n + 1])
      OBVIOUS
    <3>7. s[n + 1] \in T
      BY <1>9
    <3>8. c \in Seq(T) /\ Len(c) = Len(p) + 1 /\ c[Len(p) + 1] = s[n + 1]
          /\ \A k \in 1..Len(p) : c[k] = a[k]
      BY <1>7, <3>6, <3>7
    <3>9. \A k \in 1..(Len(p) + 1) : b[k] = c[k]
      <4> TAKE k \in 1..(Len(p) + 1)
      <4>1. CASE k = Len(p) + 1
        BY <3>3, <3>4, <3>8, <4>1
      <4>2. CASE k # Len(p) + 1
        <5>1. k \in 1..Len(p)
          BY <1>2, <4>2
        <5> QED BY <1>3, <3>3, <3>4, <3>8, <5>1
      <4> QED BY <4>1, <4>2
    <3>10. c = [k \in 1..(Len(p) + 1) |-> c[k]]
      BY <3>8
    <3> QED BY <2>2, <3>4, <3>5, <3>6, <3>9, <3>10
  <2> QED BY <2>1, <2>2
<1> QED BY <1>1, <1>4, <1>7, <1>8, <1>9

LEMMA PickIs ==
    ASSUME NEW T, NEW s \in Seq(T), NEW S
    PROVE  \E at : /\ at = Places(Len(s), S) /\ InPlace(at, Len(s), S)
                   /\ at \in Seq(1..Len(s))
                   /\ Pick(s, S) = [k \in 1..Len(at) |-> s[at[k]]]
                   /\ Pick(s, S) = PickTo(s, Len(s), S)
                   /\ Pick(s, S) \in Seq(T) /\ Len(Pick(s, S)) = Len(at)
<1>1. Len(s) \in Nat /\ Len(s) \in 0..Len(s)
  OBVIOUS
<1>2. PICK at : at = Places(Len(s), S) /\ InPlace(at, Len(s), S)
  BY <1>1, PlacesInPlace
<1>3. at \in Seq(Nat) /\ DOMAIN at = 1..Len(at)
  BY <1>2 DEF InPlace
<1>4. at \in Seq(1..Len(s))
  <2>1. \A k \in 1..Len(at) : at[k] \in 1..Len(s)
    BY <1>2, <1>3 DEF InPlace
  <2> QED BY <1>3, <2>1
<1>5. Pick(s, S) = PickTo(s, Len(s), S)
  BY DEF Pick, PickTo
<1>6. PickTo(s, Len(s), S) = [k \in 1..Len(at) |-> s[at[k]]]
  BY <1>2, <1>3 DEF PickTo
<1>7. PickTo(s, Len(s), S) \in Seq(T) /\ Len(PickTo(s, Len(s), S)) = Len(at)
  BY <1>1, <1>2, PickToStep
<1> QED BY <1>2, <1>4, <1>5, <1>6, <1>7

(* A sum is that of what is picked and that of what is not.                  *)
LEMMA SumSplits ==
    ASSUME NEW a \in Seq(Int), NEW S, NEW R, \A i \in 1..Len(a) : i \in S <=> i \notin R
    PROVE  SumOf(Pick(a, S)) + SumOf(Pick(a, R)) = SumOf(a)
<1>1. PICK f : Partial(f, a, Len(a)) /\ SumOf(a) = f[Len(a)]
  BY SumIs
<1> DEFINE Have == {n \in Nat : n <= Len(a) =>
                        SumOf(PickTo(a, n, S)) + SumOf(PickTo(a, n, R)) = f[n]}
<1>2. 0 \in Have
  <2>1. 0 \in 0..Len(a)
    OBVIOUS
  <2>2. PickTo(a, 0, S) = <<>> /\ PickTo(a, 0, R) = <<>>
    BY <2>1, PickToStep
  <2> QED BY <1>1, <2>2, SumEmpty DEF Partial
<1>3. ASSUME NEW n \in Nat, n \in Have PROVE n + 1 \in Have
  <2>1. SUFFICES ASSUME n + 1 <= Len(a)
                 PROVE  SumOf(PickTo(a, n + 1, S)) + SumOf(PickTo(a, n + 1, R)) = f[n + 1]
    BY <1>3
  <2>2. n \in 0..Len(a) /\ n + 1 \in 1..Len(a) /\ (n + 1) - 1 = n /\ a[n + 1] \in Int
    BY <2>1
  <2>3. PICK p, q : p = PickTo(a, n, S) /\ q = PickTo(a, n, R)
    OBVIOUS
  <2>4. p \in Seq(Int) /\ q \in Seq(Int)
    BY <2>2, <2>3, PickToStep
  <2>5. /\ PickTo(a, n + 1, S) = IF n + 1 \in S THEN Append(p, a[n + 1]) ELSE p
        /\ PickTo(a, n + 1, R) = IF n + 1 \in R THEN Append(q, a[n + 1]) ELSE q
    BY <2>2, <2>3, PickToStep
  <2>6. f[n + 1] = f[n] + a[n + 1]
    BY <1>1, <2>2 DEF Partial
  <2>7. SumOf(p) + SumOf(q) = f[n]
    BY <1>3, <2>1, <2>3
  <2>8. /\ SumOf(Append(p, a[n + 1])) = SumOf(p) + a[n + 1] /\ SumOf(p) \in Int
        /\ SumOf(Append(q, a[n + 1])) = SumOf(q) + a[n + 1] /\ SumOf(q) \in Int
    BY <2>2, <2>4, SumAppend
  <2>9. n + 1 \in S <=> n + 1 \notin R
    BY <2>2
  <2> QED BY <2>2, <2>5, <2>6, <2>7, <2>8, <2>9
<1>4. Len(a) \in Have
  <2>1. Len(a) \in Nat
    OBVIOUS
  <2> HIDE DEF Have
  <2> QED BY <1>2, <1>3, <2>1, ByInduction
<1>5. Pick(a, S) = PickTo(a, Len(a), S) /\ Pick(a, R) = PickTo(a, Len(a), R)
  BY DEF Pick, PickTo
<1> QED BY <1>1, <1>4, <1>5

LEMMA SumOfPart ==
    ASSUME NEW a \in Seq(Nat), NEW S
    PROVE  SumOf(Pick(a, S)) \in Nat /\ SumOf(Pick(a, S)) <= SumOf(a)
<1>1. PICK R : R = 1..Len(a) \ S
  OBVIOUS
<1>2. Pick(a, S) \in Seq(Nat) /\ Pick(a, R) \in Seq(Nat)
  BY PickIs
<1>3. SumOf(Pick(a, S)) \in Nat /\ SumOf(Pick(a, R)) \in Nat
  BY <1>2, SumNat
<1>4. a \in Seq(Int) /\ \A i \in 1..Len(a) : i \in S <=> i \notin R
  BY <1>1
<1>5. SumOf(Pick(a, S)) + SumOf(Pick(a, R)) = SumOf(a)
  BY <1>4, SumSplits
<1> QED BY <1>3, <1>5

(* What FlattenSeq makes of sequences: their elements, and all of them.      *)
Holds(s, x) == \E j \in DOMAIN s : s[j] = x

LEMMA HoldsConcat ==
    ASSUME NEW T, NEW s \in Seq(T), NEW t \in Seq(T)
    PROVE  /\ s \o t \in Seq(T)
           /\ \A x : Holds(s, x) \/ Holds(t, x) => Holds(s \o t, x)
<1>1. PICK u : u = s \o t
  OBVIOUS
<1>2. u \in Seq(T) /\ Len(u) = Len(s) + Len(t) /\ Len(s) \in Nat /\ Len(t) \in Nat
  BY <1>1
<1>3. /\ \A j \in 1..Len(s) : u[j] = s[j]
      /\ \A j \in 1..Len(t) : u[Len(s) + j] = t[j]
  BY <1>1
<1>4. ASSUME NEW x, Holds(s, x) PROVE Holds(u, x)
  <2>1. PICK j \in 1..Len(s) : s[j] = x
    BY <1>4 DEF Holds
  <2>2. j \in DOMAIN u /\ u[j] = x
    BY <1>2, <1>3, <2>1
  <2> QED BY <2>2 DEF Holds
<1>5. ASSUME NEW x, Holds(t, x) PROVE Holds(u, x)
  <2>1. PICK j \in 1..Len(t) : t[j] = x
    BY <1>5 DEF Holds
  <2>2. Len(s) + j \in DOMAIN u /\ u[Len(s) + j] = x
    BY <1>2, <1>3, <2>1
  <2> QED BY <2>2 DEF Holds
<1> QED BY <1>1, <1>2, <1>4, <1>5

Flattening(f, ss, n, T) ==
    /\ f \in [1..n -> Seq(T)]
    /\ \A i \in 1..n : f[i] = IF i = 1 THEN ss[i] ELSE f[i - 1] \o ss[i]

LEMMA FlatteningExists ==
    ASSUME NEW T, NEW ss \in Seq(Seq(T))
    PROVE  \E f : Flattening(f, ss, Len(ss), T)
<1> DEFINE Have == {n \in Nat : n <= Len(ss) => \E f : Flattening(f, ss, n, T)}
<1>1. 0 \in Have
  <2>1. PICK f : f = [i \in 1..0 |-> <<>>] OBVIOUS
  <2>2. Flattening(f, ss, 0, T) BY <2>1 DEF Flattening
  <2> QED BY <2>2
<1>2. ASSUME NEW n \in Nat, n \in Have PROVE n + 1 \in Have
  <2>1. SUFFICES ASSUME n + 1 <= Len(ss)
                 PROVE  \E f : Flattening(f, ss, n + 1, T)
    BY <1>2
  <2>2. PICK f : Flattening(f, ss, n, T)
    BY <1>2, <2>1
  <2>3. PICK x : x = IF n = 0 THEN ss[n + 1] ELSE f[n] \o ss[n + 1]
    OBVIOUS
  <2>4. ss[n + 1] \in Seq(T)
    BY <2>1
  <2>5. x \in Seq(T)
    <3>1. CASE n = 0
      BY <2>3, <2>4, <3>1
    <3>2. CASE n # 0
      <4>1. f[n] \in Seq(T)
        BY <2>2, <3>2 DEF Flattening
      <4> QED BY <2>3, <2>4, <3>2, <4>1, HoldsConcat
    <3> QED BY <3>1, <3>2
  <2>6. PICK g : g = [i \in 1..(n + 1) |-> IF i = n + 1 THEN x ELSE f[i]]
    OBVIOUS
  <2>7. g \in [1..(n + 1) -> Seq(T)]
    <3>1. \A i \in 1..(n + 1) : i # n + 1 => f[i] \in Seq(T)
      BY <2>2 DEF Flattening
    <3> QED BY <2>5, <2>6, <3>1
  <2>8. ASSUME NEW i \in 1..(n + 1)
        PROVE  g[i] = IF i = 1 THEN ss[i] ELSE g[i - 1] \o ss[i]
    <3>1. CASE i = n + 1
      <4>1. g[i] = x /\ (n # 0 => g[i - 1] = f[n])
        BY <2>6, <3>1
      <4>2. (i = 1 <=> n = 0) /\ ss[i] = ss[n + 1]
        BY <3>1
      <4> QED BY <2>3, <4>1, <4>2
    <3>2. CASE i # n + 1
      <4>1. i \in 1..n /\ (i # 1 => i - 1 \in 1..n)
        BY <3>2
      <4>2. g[i] = f[i] /\ (i # 1 => g[i - 1] = f[i - 1])
        BY <2>6, <4>1
      <4> QED BY <2>2, <4>1, <4>2 DEF Flattening
    <3> QED BY <3>1, <3>2
  <2>9. Flattening(g, ss, n + 1, T)
    BY <2>7, <2>8 DEF Flattening
  <2> QED BY <2>9
<1>3. Len(ss) \in Have
  <2>1. Len(ss) \in Nat
    OBVIOUS
  <2> HIDE DEF Have
  <2> QED BY <1>1, <1>2, <2>1, ByInduction
<1> QED BY <1>3

LEMMA FlatIs ==
    ASSUME NEW T, NEW ss \in Seq(Seq(T))
    PROVE  /\ FlattenSeq(ss) \in Seq(T)
           /\ \A i \in 1..Len(ss) : \A x : Holds(ss[i], x) => Holds(FlattenSeq(ss), x)
<1>0. Len(ss) \in Nat
  OBVIOUS
<1>1. CASE Len(ss) = 0
  <2>1. ss = <<>>
    BY <1>1
  <2>2. FlattenSeq(ss) = <<>>
    BY <1>1, <2>1 DEF FlattenSeq
  <2>3. <<>> \in Seq(T)
    OBVIOUS
  <2> QED BY <1>1, <2>2, <2>3
<1>2. CASE Len(ss) # 0
  <2> DEFINE Flattens(f) == f = [i \in 1..Len(ss) |-> IF i = 1 THEN ss[i] ELSE f[i - 1] \o ss[i]]
  <2>1. PICK f : Flattening(f, ss, Len(ss), T)
    BY FlatteningExists
  <2>2. Flattens(f)
    <3>1. \A i \in 1..Len(ss) : f[i] = IF i = 1 THEN ss[i] ELSE f[i - 1] \o ss[i]
      BY <2>1 DEF Flattening
    <3>2. f = [i \in 1..Len(ss) |-> f[i]]
      BY <2>1 DEF Flattening
    <3> QED BY <3>1, <3>2
  <2>3. PICK g : g = CHOOSE h : Flattens(h)
    OBVIOUS
  <2>4. Flattens(g)
    BY <2>2, <2>3
  <2>5. FlattenSeq(ss) = g[Len(ss)]
    BY <1>2, <2>3 DEF FlattenSeq
  <2>6. \A i \in 1..Len(ss) : g[i] = IF i = 1 THEN ss[i] ELSE g[i - 1] \o ss[i]
    BY <2>4
  <2> DEFINE Good(n) == /\ g[n] \in Seq(T)
                        /\ \A i \in 1..n : \A x : Holds(ss[i], x) => Holds(g[n], x)
  <2> DEFINE Have == {n \in Nat : n \in 1..Len(ss) => Good(n)}
  <2>7. 0 \in Have
    OBVIOUS
  <2>8. ASSUME NEW n \in Nat, n \in Have PROVE n + 1 \in Have
    <3>1. SUFFICES ASSUME n + 1 \in 1..Len(ss) PROVE Good(n + 1)
      BY <2>8
    <3>2. ss[n + 1] \in Seq(T)
      BY <3>1
    <3>3. CASE n = 0
      <4>1. g[n + 1] = ss[n + 1] /\ 1..(n + 1) = {n + 1}
        BY <2>6, <3>1, <3>3
      <4> QED BY <3>2, <4>1
    <3>4. CASE n # 0
      <4>1. n \in 1..Len(ss) /\ n + 1 # 1 /\ (n + 1) - 1 = n
        BY <3>1, <3>4
      <4>2. Good(n)
        BY <2>8, <4>1
      <4>3. g[n + 1] = g[n] \o ss[n + 1]
        BY <2>6, <3>1, <4>1
      <4>4. /\ g[n + 1] \in Seq(T)
            /\ \A x : Holds(g[n], x) \/ Holds(ss[n + 1], x) => Holds(g[n + 1], x)
        BY <3>2, <4>2, <4>3, HoldsConcat
      <4>5. \A i \in 1..(n + 1) : i = n + 1 \/ i \in 1..n
        OBVIOUS
      <4> QED BY <4>2, <4>4, <4>5
    <3> QED BY <3>3, <3>4
  <2>9. Len(ss) \in Have
    <3> HIDE DEF Have
    <3> QED BY <1>0, <2>7, <2>8, ByInduction
  <2>10. Good(Len(ss))
    BY <1>0, <1>2, <2>9
  <2> QED BY <2>5, <2>10
<1> QED BY <1>1, <1>2

-----------------------------------------------------------------------------
(* Files and what reading them costs.                                        *)

Files == DOMAIN Documents
Roles == {"system", "user", "assistant"}
Messages == [seq : Int, role : Roles, words : Nat, files : Seq(Files), omitted : Nat]
Attachments == [file : Files, mode : {"native", "injected"}, chars : Nat, tokens : Nat]

LEMMA CeilDivNat ==
    ASSUME NEW a \in Nat, NEW b \in Nat \ {0}
    PROVE  CeilDiv(a, b) \in Nat
<1>1. a + b - 1 \in Nat
  OBVIOUS
<1>2. PICK c : c = a + b - 1
  OBVIOUS
<1>3. c \div b \in Nat
  BY <1>1, <1>2, Z3
<1> QED BY <1>2, <1>3 DEF CeilDiv

LEMMA CostNat == \A f \in Files : NativeTokenCost(Documents[f]) \in Nat
<1> TAKE f \in Files
<1>1. PICK d : d = Documents[f]
  OBVIOUS
<1>2. d.bytes \in Nat /\ d.pages \in Int /\ d.width \in Int /\ d.height \in Int
  BY <1>1, FittingAssumption DEF Files, None
<1>3. PdfPages(d) \in Nat
  <2>1. CeilDiv(d.bytes, UnmeasuredPdfBytesPerPage) \in Nat
    BY <1>2, CeilDivNat DEF UnmeasuredPdfBytesPerPage
  <2> QED BY <1>2, <2>1 DEF PdfPages, Larger, None
<1>4. ASSUME NEW w \in Int, NEW h \in Int PROVE ImageTiles(w, h) \in Nat
  <2>1. CASE w > 0 /\ h > 0
    <3>1. TileEdge(w, h) \in Nat \ {0}
      <4>1. PICK e : e = (Smaller(w, h) * 2) \div 3
        OBVIOUS
      <4>2. e \in Int
        BY <4>1, Z3 DEF Smaller
      <4> QED BY <4>1, <4>2 DEF TileEdge, Smaller, Larger
    <3>2. PICK x, y : x = CeilDiv(w, TileEdge(w, h)) /\ y = CeilDiv(h, TileEdge(w, h))
      OBVIOUS
    <3>3. x \in Nat /\ y \in Nat
      BY <2>1, <3>1, <3>2, CeilDivNat
    <3>4. x * y \in Nat
      BY <3>3
    <3> QED BY <2>1, <3>2, <3>4 DEF ImageTiles, UnmeasuredImageTiles
  <2>2. CASE ~(w > 0 /\ h > 0)
    BY <2>2 DEF ImageTiles, UnmeasuredImageTiles
  <2> QED BY <2>1, <2>2
<1>5. PICK t : t = IF d.mime = "pdf" THEN PdfPages(d)
                   ELSE IF None \in {d.width, d.height} THEN UnmeasuredImageTiles
                   ELSE ImageTiles(d.width, d.height)
  OBVIOUS
<1>6. t \in Nat
  BY <1>2, <1>3, <1>4, <1>5 DEF UnmeasuredImageTiles
<1>7. NativeTokenCost(d) = 258 * t
  BY <1>5 DEF NativeTokenCost, TokensPerTile
<1> QED BY <1>1, <1>6, <1>7

(* Every file a history refers to is resolved, once, and priced when it is   *)
(* read as bytes.                                                            *)
Covers(att, h) ==
    \A i \in DOMAIN h : \A k \in DOMAIN h[i].files :
        \E j \in DOMAIN att : att[j].file = h[i].files[k]
Distinct(att) == \A j, l \in DOMAIN att : att[j].file = att[l].file => j = l
Priced(att) ==
    \A j \in DOMAIN att :
        att[j].tokens = IF att[j].mode = "native"
                        THEN NativeTokenCost(Documents[att[j].file]) ELSE 0

LEMMA ReferencesAre ==
    ASSUME NEW h \in Seq(Messages)
    PROVE  /\ References(h) \in Seq(Files)
           /\ \A i \in DOMAIN h : \A k \in DOMAIN h[i].files : Holds(References(h), h[i].files[k])
<1>1. PICK ss : ss = [i \in DOMAIN h |-> h[i].files]
  OBVIOUS
<1>2. \A i \in 1..Len(h) : h[i].files \in Seq(Files)
  <2>1. \A i \in 1..Len(h) : h[i] \in Messages
    OBVIOUS
  <2> QED BY <2>1 DEF Messages
<1>3. ss \in Seq(Seq(Files)) /\ Len(ss) = Len(h)
  BY <1>1, <1>2
<1>4. References(h) = FlattenSeq(ss)
  BY <1>1 DEF References
<1>5. ASSUME NEW i \in DOMAIN h, NEW k \in DOMAIN h[i].files
      PROVE  Holds(References(h), h[i].files[k])
  <2>1. i \in 1..Len(ss) /\ Holds(ss[i], h[i].files[k])
    BY <1>1, <1>3 DEF Holds
  <2> QED BY <1>3, <1>4, <2>1, FlatIs
<1> QED BY <1>3, <1>4, <1>5, FlatIs

LEMMA ResolveIs ==
    ASSUME NEW h \in Seq(Messages), NEW s
    PROVE  /\ Resolve(h, s) \in Seq(Attachments)
           /\ Covers(Resolve(h, s), h) /\ Distinct(Resolve(h, s)) /\ Priced(Resolve(h, s))
<1>1. PICK refs : refs = References(h)
  OBVIOUS
<1>2. refs \in Seq(Files) /\ DOMAIN refs = 1..Len(refs) /\ Len(refs) \in Nat
  BY <1>1, ReferencesAre
<1>3. PICK S : S = {i \in DOMAIN refs : \A j \in 1..(i - 1) : refs[j] # refs[i]}
  OBVIOUS
<1>4. PICK at : /\ at = Places(Len(refs), S) /\ InPlace(at, Len(refs), S)
                /\ at \in Seq(1..Len(refs))
                /\ Pick(refs, S) = [k \in 1..Len(at) |-> refs[at[k]]]
                /\ Pick(refs, S) = PickTo(refs, Len(refs), S)
                /\ Pick(refs, S) \in Seq(Files) /\ Len(Pick(refs, S)) = Len(at)
  BY <1>2, PickIs
<1>5. PICK files : files = Pick(refs, S)
  OBVIOUS
<1>6. DOMAIN files = 1..Len(at) /\ DOMAIN at = 1..Len(at) /\ Len(at) \in Nat
  BY <1>4, <1>5
<1> DEFINE one(f) == IF NativeWanted(f, s)
                     THEN [file |-> f, mode |-> "native", chars |-> 0,
                           tokens |-> NativeTokenCost(Documents[f])]
                     ELSE [file |-> f, mode |-> "injected", tokens |-> 0,
                           chars |-> Documents[f].chars]
<1>7. PICK att : att = [k \in DOMAIN files |-> one(files[k])]
  OBVIOUS
<1>8. Resolve(h, s) = att
  BY <1>1, <1>3, <1>5, <1>7 DEF Resolve
<1>9. \A f \in Files : /\ one(f) \in Attachments /\ one(f).file = f
                       /\ one(f).tokens = IF one(f).mode = "native"
                                          THEN NativeTokenCost(Documents[f]) ELSE 0
  BY CostNat, FittingAssumption DEF Attachments, Files
<1>10. \A k \in 1..Len(at) : files[k] \in Files /\ att[k] = one(files[k])
  BY <1>4, <1>5, <1>6, <1>7
<1> HIDE DEF one
<1>11. att \in Seq(Attachments) /\ DOMAIN att = 1..Len(at)
  <2>1. \A k \in 1..Len(at) : att[k] \in Attachments
    BY <1>9, <1>10
  <2> QED BY <1>6, <1>7, <2>1
<1>12. \A k \in 1..Len(at) : att[k].file = refs[at[k]] /\ at[k] \in S
  <2> TAKE k \in 1..Len(at)
  <2>1. files[k] = refs[at[k]] /\ at[k] \in S
    BY <1>4, <1>5, <1>6 DEF InPlace
  <2>2. att[k].file = files[k]
    BY <1>9, <1>10
  <2> QED BY <2>1, <2>2
<1>13. Distinct(att)
  <2> SUFFICES ASSUME NEW j \in 1..Len(at), NEW l \in 1..Len(at), att[j].file = att[l].file, j < l
               PROVE  FALSE
    BY <1>11 DEF Distinct
  <2>1. at[j] < at[l] /\ at[j] \in 1..Len(refs) /\ at[l] \in S
    BY <1>4, <1>6 DEF InPlace
  <2>2. at[j] \in 1..(at[l] - 1)
    BY <1>3, <1>2, <2>1
  <2> QED BY <1>3, <1>12, <2>1, <2>2
<1>14. ASSUME NEW x, Holds(refs, x) PROVE \E j \in DOMAIN att : att[j].file = x
  <2>1. PICK I : I = {i \in 1..Len(refs) : refs[i] = x}
    OBVIOUS
  <2>2. I \subseteq Nat /\ I # {}
    BY <1>2, <1>14, <2>1 DEF Holds
  <2>3. PICK i \in I : \A j \in I : i <= j
    BY <2>2, LeastOf
  <2>4. i \in 1..Len(refs) /\ refs[i] = x
    BY <2>1, <2>3
  <2>5. i \in S
    <3> SUFFICES ASSUME NEW j \in 1..(i - 1), refs[j] = refs[i] PROVE FALSE
      BY <1>2, <1>3, <2>4
    <3>1. j \in I
      BY <1>2, <2>1, <2>4
    <3> QED BY <2>3, <2>4, <3>1
  <2>6. PICK k \in 1..Len(at) : at[k] = i
    BY <1>4, <1>6, <2>4, <2>5 DEF InPlace
  <2> QED BY <1>11, <1>12, <2>4, <2>6
<1>15. Covers(att, h)
  BY <1>1, <1>14, ReferencesAre DEF Covers
<1>16. Priced(att)
  BY <1>9, <1>10, <1>11 DEF Priced
<1> QED BY <1>8, <1>11, <1>13, <1>15, <1>16

LEMMA ByHashIs ==
    ASSUME NEW att \in Seq(Attachments), NEW f, NEW j \in DOMAIN att, att[j].file = f
    PROVE  \E k \in DOMAIN att : ByHash(att, f) = att[k] /\ att[k].file = f
BY DEF ByHash

LEMMA SumConcat ==
    ASSUME NEW s \in Seq(Int), NEW t \in Seq(Int)
    PROVE  s \o t \in Seq(Int) /\ SumOf(s \o t) = SumOf(s) + SumOf(t)
<1>1. PICK u : u = s \o t
  OBVIOUS
<1>2. u \in Seq(Int) /\ Len(u) = Len(s) + Len(t) /\ Len(s) \in Nat /\ Len(t) \in Nat
  BY <1>1
<1>3. /\ \A j \in 1..Len(s) : s[j] = u[j]
      /\ \A j \in 1..Len(t) : u[Len(s) + j] = t[j]
  BY <1>1
<1>4. PICK f : Partial(f, s, Len(s)) /\ SumOf(s) = f[Len(s)]
  BY SumIs
<1>5. PICK g : Partial(g, t, Len(t)) /\ SumOf(t) = g[Len(t)]
  BY SumIs
<1>6. PICK h : Partial(h, u, Len(u)) /\ SumOf(u) = h[Len(u)]
  BY <1>2, SumIs
<1>7. h[Len(s)] = f[Len(s)]
  <2>1. Len(s) <= Len(s) /\ Len(s) <= Len(u) /\ Len(u) \in Nat
    BY <1>2
  <2>2. Partial(f, s, Len(s)) /\ Partial(h, u, Len(u)) /\ Len(s) \in Nat
    BY <1>2, <1>4, <1>6
  <2>3. \A i \in 1..Len(s) : s[i] = u[i]
    BY <1>3
  <2>4. PICK n, l : n = Len(s) /\ l = Len(u)
    OBVIOUS
  <2>5. /\ n \in Nat /\ l \in Nat /\ n <= n /\ n <= l /\ Partial(f, s, n) /\ Partial(h, u, l)
        /\ \A i \in 1..n : s[i] = u[i]
    BY <2>1, <2>2, <2>3, <2>4
  <2>6. f[n] = h[n]
    BY <2>5, PartialsAgree
  <2> QED BY <2>4, <2>6
<1> DEFINE Have == {n \in Nat : n <= Len(t) => h[Len(s) + n] = f[Len(s)] + g[n]}
<1>8. 0 \in Have
  <2>1. g[0] = 0 /\ f[Len(s)] \in Int /\ Len(s) + 0 = Len(s)
    BY <1>2, <1>4, <1>5, SMTT(30) DEF Partial
  <2> QED BY <1>7, <2>1
<1>9. ASSUME NEW n \in Nat, n \in Have PROVE n + 1 \in Have
  <2>1. SUFFICES ASSUME n + 1 <= Len(t)
                 PROVE  h[Len(s) + (n + 1)] = f[Len(s)] + g[n + 1]
    BY <1>9
  <2>2. /\ n + 1 \in 1..Len(t) /\ (n + 1) - 1 = n /\ Len(s) + (n + 1) \in 1..Len(u)
        /\ (Len(s) + (n + 1)) - 1 = Len(s) + n /\ t[n + 1] \in Int
    BY <1>2, <2>1, SMTT(30)
  <2>3. h[Len(s) + (n + 1)] = h[Len(s) + n] + t[n + 1]
    BY <1>3, <1>6, <2>2 DEF Partial
  <2>4. g[n + 1] = g[n] + t[n + 1] /\ g[n] \in Int /\ f[Len(s)] \in Int
    <3>1. g[n + 1] = g[n] + t[n + 1]
      BY <1>5, <2>2 DEF Partial
    <3>2. n \in 0..Len(t) /\ Len(s) \in 0..Len(s)
      BY <1>2, <2>2
    <3>3. g[n] \in Int
      BY <1>5, <3>2 DEF Partial
    <3>4. f[Len(s)] \in Int
      BY <1>4, <3>2 DEF Partial
    <3> QED BY <3>1, <3>3, <3>4
  <2>5. h[Len(s) + n] = f[Len(s)] + g[n]
    BY <1>9, <2>1
  <2> QED BY <2>2, <2>3, <2>4, <2>5
<1>10. Len(t) \in Have
  <2> HIDE DEF Have
  <2> QED BY <1>2, <1>8, <1>9, ByInduction
<1> QED BY <1>1, <1>2, <1>4, <1>5, <1>6, <1>10

LEMMA SumAtLeast ==
    ASSUME NEW s \in Seq(Nat), NEW k \in 1..Len(s)
    PROVE  s[k] <= SumOf(s)
<1>1. PICK t : t = [i \in 1..Len(s) |-> IF i = k THEN s[k] ELSE 0]
  OBVIOUS
<1>2. t \in Seq(Int) /\ Len(t) = Len(s) /\ t[k] = s[k] /\ s \in Seq(Int)
      /\ \A i \in 1..Len(s) : i # k => t[i] = 0
  BY <1>1
<1>3. SumOf(t) = s[k]
  BY <1>2, SumPoint
<1>4. \A i \in 1..Len(t) : t[i] <= s[i]
  BY <1>1
<1> QED BY <1>2, <1>3, <1>4, SumLeq

LEMMA UpTo == \A n \in Nat : IsFiniteSet(1..n) /\ Cardinality(1..n) = n
<1> TAKE n \in Nat
<1>1. IsFiniteSet(1..n) /\ Cardinality(1..n) = IF 1 > n THEN 0 ELSE n - 1 + 1
  BY FS_Interval
<1> QED BY <1>1

(* Two sequences picked at the same places.                                  *)
PicksAt(q, s, at) == q = [k \in 1..Len(at) |-> s[at[k]]]

LEMMA PickBoth ==
    ASSUME NEW T, NEW s \in Seq(T), NEW U, NEW t \in Seq(U), Len(t) = Len(s), NEW S
    PROVE  LET at == Places(Len(s), S) IN
           /\ InPlace(at, Len(s), S) /\ at \in Seq(1..Len(s)) /\ Len(at) <= Len(s)
           /\ PicksAt(Pick(s, S), s, at) /\ PicksAt(Pick(t, S), t, at)
<1>1. PICK at : /\ at = Places(Len(s), S) /\ InPlace(at, Len(s), S)
                /\ at \in Seq(1..Len(s))
                /\ Pick(s, S) = [k \in 1..Len(at) |-> s[at[k]]]
                /\ Pick(s, S) = PickTo(s, Len(s), S)
                /\ Pick(s, S) \in Seq(T) /\ Len(Pick(s, S)) = Len(at)
  BY PickIs
<1>2. DOMAIN at = 1..Len(at) /\ Len(s) \in Nat
  BY <1>1
<1>3. Pick(t, S) = [k \in 1..Len(at) |-> t[at[k]]]
  BY <1>1, <1>2 DEF Pick
<1>4. Len(at) <= Len(s)
  <2>1. Cardinality(1..Len(s)) = Len(s) /\ IsFiniteSet(1..Len(s))
    BY <1>2, UpTo
  <2>2. S \cap 1..Len(s) \subseteq 1..Len(s)
    OBVIOUS
  <2>3. Cardinality(S \cap 1..Len(s)) <= Cardinality(1..Len(s))
    BY <2>1, <2>2, FS_Subset
  <2> QED BY <1>1, <2>1, <2>3 DEF InPlace
<1> QED BY <1>1, <1>3, <1>4 DEF PicksAt

-----------------------------------------------------------------------------
(* What a message costs.                                                     *)

CoversOne(att, m) == \A k \in DOMAIN m.files : \E j \in DOMAIN att : att[j].file = m.files[k]

(* The parts of a message that are text whatever its files are.              *)
Written(m) == MarkerPart(m) \o <<m.words>>

LEMMA WrittenIs ==
    ASSUME NEW m \in Messages
    PROVE  Written(m) \in Seq(Nat) /\ Len(Written(m)) >= 1 /\ SumOf(Written(m)) \in Nat
<1>1. m.words \in Nat /\ m.omitted \in Nat
  BY DEF Messages
<1>2. MarkerPart(m) \in Seq(Nat)
  BY <1>1 DEF MarkerPart, MarkerChars
<1>3. PICK p : p = MarkerPart(m)
  OBVIOUS
<1>4. p \o <<m.words>> \in Seq(Nat) /\ Len(p \o <<m.words>>) >= 1
  BY <1>1, <1>2, <1>3
<1> QED BY <1>3, <1>4, SumNat DEF Written

(* What a message shows of each of its files.                                *)
Shown(m, att) ==
    [k \in DOMAIN m.files |->
        IF ByHash(att, m.files[k]).mode = "injected"
        THEN EnvelopeChars + ByHash(att, m.files[k]).chars ELSE PlaceholderChars]

LEMMA FilesKnown ==
    ASSUME NEW m \in Messages, NEW att \in Seq(Attachments), CoversOne(att, m)
    PROVE  /\ m.files \in Seq(Files)
           /\ \A k \in 1..Len(m.files) : /\ ByHash(att, m.files[k]) \in Attachments
                                         /\ ByHash(att, m.files[k]).file = m.files[k]
                                         /\ \E j \in DOMAIN att : ByHash(att, m.files[k]) = att[j]
<1>1. m.files \in Seq(Files)
  BY DEF Messages
<1>2. ASSUME NEW k \in 1..Len(m.files)
      PROVE  \E j \in DOMAIN att : ByHash(att, m.files[k]) = att[j] /\ att[j].file = m.files[k]
  <2>1. PICK j \in DOMAIN att : att[j].file = m.files[k]
    BY <1>1 DEF CoversOne
  <2> QED BY <2>1, ByHashIs
<1>3. \A j \in DOMAIN att : att[j] \in Attachments
  OBVIOUS
<1> QED BY <1>1, <1>2, <1>3

LEMMA MaterializeIs ==
    ASSUME NEW m \in Messages, NEW att \in Seq(Attachments), CoversOne(att, m)
    PROVE  /\ Shown(m, att) \in Seq(Nat) /\ Len(Shown(m, att)) = Len(m.files)
           /\ Materialize(m, att) = SumOf(Written(m)) + SumOf(Shown(m, att))
                                        + 2 * (Len(Written(m)) + Len(m.files) - 1)
           /\ Materialize(m, att) \in Nat
<1>1. m.files \in Seq(Files) /\ \A k \in 1..Len(m.files) : ByHash(att, m.files[k]) \in Attachments
  BY FilesKnown
<1>2. PICK w, v : w = Written(m) /\ v = Shown(m, att)
  OBVIOUS
<1>3. v \in Seq(Nat) /\ Len(v) = Len(m.files)
  <2>1. \A k \in 1..Len(m.files) : ByHash(att, m.files[k]).chars \in Nat
    BY <1>1 DEF Attachments
  <2>2. \A k \in 1..Len(m.files) : v[k] \in Nat
    BY <1>1, <1>2, <2>1, FittingAssumption DEF Shown
  <2>3. DOMAIN m.files = 1..Len(m.files) /\ Len(m.files) \in Nat
    BY <1>1
  <2>4. v = [k \in 1..Len(m.files) |-> v[k]]
    BY <1>2, <2>3 DEF Shown
  <2> QED BY <2>2, <2>3, <2>4
<1>4. w \in Seq(Nat) /\ Len(w) >= 1 /\ SumOf(w) \in Nat /\ SumOf(v) \in Nat
  BY <1>2, <1>3, WrittenIs, SumNat
<1>5. w \in Seq(Int) /\ v \in Seq(Int)
  BY <1>3, <1>4
<1>6. SumOf(w \o v) = SumOf(w) + SumOf(v) /\ Len(w \o v) = Len(w) + Len(v)
  BY <1>5, SumConcat
<1>7. Materialize(m, att) = SumOf(w \o v) + 2 * (Len(w \o v) - 1)
  BY <1>2 DEF Materialize, Joined, Written, Shown
<1> QED BY <1>2, <1>3, <1>4, <1>6, <1>7

(* What an adapter writes is no longer than what was measured.               *)
LEMMA InjectedIs ==
    ASSUME NEW m \in Messages, NEW att \in Seq(Attachments), CoversOne(att, m)
    PROVE  InjectedText(m, att) \in Nat /\ InjectedText(m, att) <= Materialize(m, att)
<1>1. m.files \in Seq(Files) /\ \A k \in 1..Len(m.files) : ByHash(att, m.files[k]) \in Attachments
  BY FilesKnown
<1>2. PICK w, v : w = Written(m) /\ v = Shown(m, att)
  OBVIOUS
<1>3. PICK S : S = {k \in DOMAIN m.files : ByHash(att, m.files[k]).mode = "injected"}
  OBVIOUS
<1>4. v \in Seq(Nat) /\ Len(v) = Len(m.files)
  BY <1>2, MaterializeIs
<1>5. PICK at :
          /\ InPlace(at, Len(m.files), S) /\ at \in Seq(1..Len(m.files)) /\ Len(at) <= Len(m.files)
          /\ Pick(m.files, S) = [k \in 1..Len(at) |-> m.files[at[k]]]
          /\ Pick(v, S) = [k \in 1..Len(at) |-> v[at[k]]]
  <2>1. PICK at : at = Places(Len(m.files), S)
    OBVIOUS
  <2>2. PICK fs : fs = m.files
    OBVIOUS
  <2>3. fs \in Seq(Files) /\ v \in Seq(Nat) /\ Len(v) = Len(fs)
    BY <1>1, <1>4, <2>2
  <2>4. LET p == Places(Len(fs), S) IN
        /\ InPlace(p, Len(fs), S) /\ p \in Seq(1..Len(fs)) /\ Len(p) <= Len(fs)
        /\ PicksAt(Pick(fs, S), fs, p) /\ PicksAt(Pick(v, S), v, p)
    BY <2>3, PickBoth
  <2> QED BY <2>1, <2>2, <2>4, SMTT(30) DEF PicksAt
<1>6. PICK files : files = Pick(m.files, S)
  OBVIOUS
<1>7. PICK t : t = [k \in DOMAIN files |-> EnvelopeChars + ByHash(att, files[k]).chars]
  OBVIOUS
<1>8. t = Pick(v, S)
  <2>5. DOMAIN at = 1..Len(at)
    BY <1>5
  <2>1. \A k \in 1..Len(at) : at[k] \in 1..Len(m.files) /\ at[k] \in S
    BY <1>5, <2>5 DEF InPlace
  <2>2. \A i \in S : v[i] = EnvelopeChars + ByHash(att, m.files[i]).chars
    BY <1>2, <1>3 DEF Shown
  <2>3. DOMAIN files = 1..Len(at) /\ \A k \in 1..Len(at) : files[k] = m.files[at[k]]
    BY <1>5, <1>6
  <2>4. t = [k \in 1..Len(at) |-> EnvelopeChars + ByHash(att, m.files[at[k]]).chars]
    BY <1>7, <2>3
  <2> QED BY <1>5, <2>1, <2>2, <2>4
<1>9. SumOf(t) \in Nat /\ SumOf(t) <= SumOf(v)
  BY <1>4, <1>8, SumOfPart
<1>10. t \in Seq(Nat) /\ Len(t) = Len(at)
  <2>1. Pick(v, S) \in Seq(Nat)
    BY <1>4, PickIs
  <2> QED BY <1>5, <1>8, <2>1
<1>11. w \in Seq(Nat) /\ Len(w) >= 1 /\ SumOf(w) \in Nat
  BY <1>2, WrittenIs
<1>12. SumOf(w \o t) = SumOf(w) + SumOf(t) /\ Len(w \o t) = Len(w) + Len(t)
  <2>1. w \in Seq(Int) /\ t \in Seq(Int)
    BY <1>10, <1>11
  <2> QED BY <2>1, SumConcat
<1>13. InjectedText(m, att) = SumOf(w \o t) + 2 * (Len(w \o t) - 1)
  BY <1>2, <1>3, <1>6, <1>7 DEF InjectedText, FilesRead, Joined, Written
<1>14. Materialize(m, att) = SumOf(w) + SumOf(v) + 2 * (Len(w) + Len(m.files) - 1)
  BY <1>2, MaterializeIs
<1>15. SumOf(v) \in Nat /\ Len(at) \in Nat /\ Len(m.files) \in Nat /\ Len(w) \in Nat
  BY <1>1, <1>4, <1>5, <1>11, SumNat
<1>16. PICK W, V, A, lw, la, lf :
           W = SumOf(w) /\ V = SumOf(v) /\ A = SumOf(t)
           /\ lw = Len(w) /\ la = Len(at) /\ lf = Len(m.files)
  OBVIOUS
<1>17. /\ W \in Nat /\ V \in Nat /\ A \in Nat /\ lw \in Nat /\ la \in Nat /\ lf \in Nat
       /\ A <= V /\ lw >= 1 /\ la <= lf
  BY <1>5, <1>9, <1>11, <1>15, <1>16
<1>18. /\ InjectedText(m, att) = W + A + 2 * (lw + la - 1)
       /\ Materialize(m, att) = W + V + 2 * (lw + lf - 1)
  BY <1>10, <1>12, <1>13, <1>14, <1>16
<1> QED BY <1>17, <1>18

LEMMA NativeNat ==
    ASSUME NEW att \in Seq(Attachments)
    PROVE  NativeTokens(att) \in Nat
<1>1. PICK v : v = [k \in DOMAIN att |-> IF att[k].mode = "native" THEN att[k].tokens ELSE 0]
  OBVIOUS
<1>2. \A k \in 1..Len(att) : att[k].tokens \in Nat
  <2>1. \A k \in 1..Len(att) : att[k] \in Attachments
    OBVIOUS
  <2> QED BY <2>1 DEF Attachments
<1>3. v \in Seq(Nat)
  BY <1>1, <1>2
<1> QED BY <1>1, <1>3, SumNat DEF NativeTokens

(* What the files of a message are read as.                                  *)
Read(m, att) == [k \in DOMAIN m.files |-> ByHash(att, m.files[k])]

LEMMA CostIs ==
    ASSUME NEW m \in Messages, NEW att \in Seq(Attachments), CoversOne(att, m)
    PROVE  /\ Read(m, att) \in Seq(Attachments) /\ Len(Read(m, att)) = Len(m.files)
           /\ Cost(m, att) = Materialize(m, att) \div 4 + 4 + NativeTokens(Read(m, att))
           /\ Cost(m, att) \in Nat /\ NativeTokens(Read(m, att)) \in Nat
<1>1. m.files \in Seq(Files) /\ \A k \in 1..Len(m.files) : ByHash(att, m.files[k]) \in Attachments
  BY FilesKnown
<1>2. PICK r : r = Read(m, att)
  OBVIOUS
<1>3. r \in Seq(Attachments) /\ Len(r) = Len(m.files)
  <2>1. DOMAIN m.files = 1..Len(m.files) /\ Len(m.files) \in Nat
    BY <1>1
  <2>2. r = [k \in 1..Len(m.files) |-> ByHash(att, m.files[k])]
    BY <1>2, <2>1 DEF Read
  <2> QED BY <1>1, <2>1, <2>2
<1>4. NativeTokens(r) \in Nat
  BY <1>3, NativeNat
<1>5. Cost(m, att) = Materialize(m, att) \div 4 + 4 + NativeTokens(r)
  BY <1>2 DEF Cost, Read, CharsPerToken, PerMessageOverhead
<1>6. Materialize(m, att) \in Nat
  BY MaterializeIs
<1>7. PICK x, y : x = Materialize(m, att) /\ y = NativeTokens(r)
  OBVIOUS
<1>8. x \div 4 + 4 + y \in Nat
  BY <1>4, <1>6, <1>7, Z3
<1> QED BY <1>2, <1>3, <1>4, <1>5, <1>7, <1>8

(* The bytes that ride on a message weigh what was reserved for them.        *)
InlineBytes(files) == SumOf([k \in DOMAIN files |-> NativeTokenCost(Documents[files[k]])])

LEMMA InlineIs ==
    ASSUME NEW m \in Messages, NEW att \in Seq(Attachments), CoversOne(att, m), Priced(att)
    PROVE  /\ InlineFiles(m, att) \in Seq(Files)
           /\ InlineBytes(InlineFiles(m, att)) \in Nat
           /\ InlineBytes(InlineFiles(m, att)) <= NativeTokens(Read(m, att))
<1>1. /\ m.files \in Seq(Files)
      /\ \A k \in 1..Len(m.files) : /\ ByHash(att, m.files[k]) \in Attachments
                                    /\ ByHash(att, m.files[k]).file = m.files[k]
                                    /\ \E j \in DOMAIN att : ByHash(att, m.files[k]) = att[j]
  BY FilesKnown
<1>2. PICK fs, r : fs = m.files /\ r = Read(m, att)
  OBVIOUS
<1>3. r \in Seq(Attachments) /\ Len(r) = Len(fs) /\ fs \in Seq(Files)
  BY <1>1, <1>2, CostIs
<1>4. \A k \in 1..Len(fs) : /\ r[k].file = fs[k] /\ r[k].tokens \in Nat /\ r[k] = ByHash(att, fs[k])
                            /\ r[k].mode = "native" =>
                                   r[k].tokens = NativeTokenCost(Documents[fs[k]])
  <2> TAKE k \in 1..Len(fs)
  <2>1. r[k] = ByHash(att, fs[k])
    BY <1>2, <1>3 DEF Read
  <2>2. PICK j \in DOMAIN att : r[k] = att[j]
    BY <1>1, <1>2, <2>1
  <2>3. r[k].file = fs[k] /\ r[k] \in Attachments
    BY <1>1, <1>2, <2>1
  <2>4. r[k].tokens \in Nat
    BY <2>3 DEF Attachments
  <2>5. r[k].mode = "native" => r[k].tokens = NativeTokenCost(Documents[r[k].file])
    BY <2>2 DEF Priced
  <2> QED BY <2>1, <2>3, <2>4, <2>5
<1>5. PICK v : v = [k \in DOMAIN r |-> IF r[k].mode = "native" THEN r[k].tokens ELSE 0]
  OBVIOUS
<1>6. v \in Seq(Nat) /\ Len(v) = Len(fs) /\ SumOf(v) = NativeTokens(r)
  <2>1. DOMAIN r = 1..Len(fs) /\ Len(fs) \in Nat
    BY <1>3
  <2>2. \A k \in 1..Len(fs) : v[k] \in Nat
    BY <1>4, <1>5, <2>1
  <2>3. v \in Seq(Nat) /\ Len(v) = Len(fs)
    BY <1>5, <2>1, <2>2
  <2>4. SumOf(v) = NativeTokens(r)
    BY <1>5 DEF NativeTokens
  <2> QED BY <2>3, <2>4
<1>7. PICK S : S = {k \in DOMAIN fs : ByHash(att, fs[k]).mode = "native"}
  OBVIOUS
<1>8. PICK at : at = Places(Len(fs), S)
  OBVIOUS
<1>9. /\ InPlace(at, Len(fs), S) /\ at \in Seq(1..Len(fs))
      /\ PicksAt(Pick(fs, S), fs, at) /\ PicksAt(Pick(v, S), v, at)
  BY <1>3, <1>6, <1>8, PickBoth
<1>10. PICK files : files = Pick(fs, S)
  OBVIOUS
<1>11. PICK t : t = [k \in DOMAIN files |-> NativeTokenCost(Documents[files[k]])]
  OBVIOUS
<1>12. t = Pick(v, S)
  <2>1. DOMAIN at = 1..Len(at)
    BY <1>9
  <2>2. \A k \in 1..Len(at) : at[k] \in 1..Len(fs) /\ at[k] \in S
    BY <1>9, <2>1 DEF InPlace
  <2>3. \A i \in S : v[i] = NativeTokenCost(Documents[fs[i]])
    BY <1>3, <1>4, <1>5, <1>7
  <2>4. files = [k \in 1..Len(at) |-> fs[at[k]]]
    BY <1>9, <1>10 DEF PicksAt
  <2>5. t = [k \in 1..Len(at) |-> NativeTokenCost(Documents[fs[at[k]]])]
    BY <1>11, <2>4
  <2>6. Pick(v, S) = [k \in 1..Len(at) |-> v[at[k]]]
    BY <1>9 DEF PicksAt
  <2> QED BY <2>2, <2>3, <2>5, <2>6
<1>13. SumOf(t) \in Nat /\ SumOf(t) <= SumOf(v)
  BY <1>6, <1>12, SumOfPart
<1>14. files = InlineFiles(m, att)
  BY <1>2, <1>7, <1>10 DEF InlineFiles, FilesRead
<1>15. files \in Seq(Files)
  BY <1>3, <1>10, PickIs
<1> QED BY <1>2, <1>6, <1>11, <1>13, <1>14, <1>15 DEF InlineBytes

(* A message on the wire, its text and its bytes, costs what was reserved.   *)
LEMMA MessageFits ==
    ASSUME NEW m \in Messages, NEW att \in Seq(Attachments), CoversOne(att, m), Priced(att)
    PROVE  /\ InjectedText(m, att) \div 4 + 4 \in Nat
           /\ InjectedText(m, att) \div 4 + 4 >= 4
           /\ InjectedText(m, att) \div 4 + 4 + InlineBytes(InlineFiles(m, att)) <= Cost(m, att)
<1>1. PICK x, y, b, n : /\ x = InjectedText(m, att) /\ y = Materialize(m, att)
                        /\ b = InlineBytes(InlineFiles(m, att)) /\ n = NativeTokens(Read(m, att))
  OBVIOUS
<1>2. x \in Nat /\ y \in Nat /\ x <= y
  BY <1>1, InjectedIs, MaterializeIs
<1>3. b \in Nat /\ n \in Nat /\ b <= n /\ Cost(m, att) = y \div 4 + 4 + n
  BY <1>1, InlineIs, CostIs
<1>4. x \div 4 <= y \div 4 /\ x \div 4 \in Nat /\ y \div 4 \in Nat
  BY <1>2, Z3
<1>5. PICK p, q : p = x \div 4 /\ q = y \div 4
  OBVIOUS
<1>6. p + 4 \in Nat /\ p + 4 >= 4 /\ p + 4 + b <= q + 4 + n
  BY <1>3, <1>4, <1>5
<1> QED BY <1>1, <1>3, <1>5, <1>6

LEMMA TotalIs ==
    ASSUME NEW h \in Seq(Messages), NEW att \in Seq(Attachments), Covers(att, h)
    PROVE  /\ \A i \in 1..Len(h) : /\ h[i] \in Messages /\ CoversOne(att, h[i])
                                   /\ Cost(h[i], att) \in Nat
           /\ [i \in DOMAIN h |-> Cost(h[i], att)] \in Seq(Nat)
           /\ Len([i \in DOMAIN h |-> Cost(h[i], att)]) = Len(h)
           /\ Total(h, att) \in Nat
<1>1. \A i \in 1..Len(h) : h[i] \in Messages /\ CoversOne(att, h[i])
  BY DEF Covers, CoversOne
<1>2. \A i \in 1..Len(h) : Cost(h[i], att) \in Nat
  BY <1>1, CostIs
<1>3. PICK c : c = [i \in DOMAIN h |-> Cost(h[i], att)]
  OBVIOUS
<1>4. c \in Seq(Nat) /\ Len(c) = Len(h)
  BY <1>2, <1>3
<1>5. SumOf(c) \in Nat
  BY <1>4, SumNat
<1> QED BY <1>1, <1>2, <1>3, <1>4, <1>5 DEF Total

-----------------------------------------------------------------------------
(* What a payload costs.                                                     *)

Tokens(x) == x \div CharsPerToken + PerMessageOverhead

(* System messages that are joined cost no more than each of them.           *)
LEMMA JoinedCosts ==
    ASSUME NEW xs \in Seq(Nat), Len(xs) >= 1, NEW ts \in Seq(Nat), Len(ts) = Len(xs),
           \A i \in 1..Len(xs) : xs[i] \div 4 + 4 <= ts[i]
    PROVE  Tokens(Joined(xs)) \in Nat /\ Tokens(Joined(xs)) <= SumOf(ts)
<1>0. xs \in Seq(Int) /\ ts \in Seq(Int) /\ Len(xs) \in Nat
  OBVIOUS
<1>1. PICK f : Partial(f, xs, Len(xs)) /\ SumOf(xs) = f[Len(xs)]
  BY <1>0, SumIs
<1>2. PICK g : Partial(g, ts, Len(xs)) /\ SumOf(ts) = g[Len(xs)]
  BY <1>0, SumIs
<1> DEFINE Have == {n \in Nat : n <= Len(xs) => f[n] + 13 * n <= 4 * g[n]}
<1>3. 0 \in Have
  BY <1>1, <1>2 DEF Partial
<1>4. ASSUME NEW n \in Nat, n \in Have PROVE n + 1 \in Have
  <2>1. SUFFICES ASSUME n + 1 <= Len(xs) PROVE f[n + 1] + 13 * (n + 1) <= 4 * g[n + 1]
    BY <1>4
  <2>2. n + 1 \in 1..Len(xs) /\ (n + 1) - 1 = n /\ n \in 0..Len(xs)
    BY <1>0, <2>1
  <2>3. PICK x, t, y, u : x = xs[n + 1] /\ t = ts[n + 1] /\ y = f[n] /\ u = g[n]
    OBVIOUS
  <2>4. f[n + 1] = y + x
    BY <1>1, <2>2, <2>3 DEF Partial
  <2>5. g[n + 1] = u + t
    BY <1>2, <2>2, <2>3 DEF Partial
  <2>6. x \in Nat /\ t \in Nat /\ x \div 4 + 4 <= t
    BY <2>2, <2>3, SMTT(30)
  <2>7. y \in Int
    BY <1>1, <2>2, <2>3 DEF Partial
  <2>8. u \in Int
    BY <1>2, <2>2, <2>3 DEF Partial
  <2>9. y + 13 * n <= 4 * u
    BY <1>4, <2>1, <2>3
  <2>10. x + 13 <= 4 * t
    BY <2>6, Z3
  <2>11. (y + x) + 13 * (n + 1) <= 4 * (u + t)
    BY <2>6, <2>7, <2>8, <2>9, <2>10
  <2> QED BY <2>4, <2>5, <2>11
<1>5. Len(xs) \in Have
  <2> HIDE DEF Have
  <2> QED BY <1>0, <1>3, <1>4, ByInduction
<1>6. PICK a, b, l : a = SumOf(xs) /\ b = SumOf(ts) /\ l = Len(xs)
  OBVIOUS
<1>7. a \in Nat /\ b \in Nat /\ l \in Nat /\ l >= 1 /\ a + 13 * l <= 4 * b
  BY <1>0, <1>1, <1>2, <1>5, <1>6, SumNat
<1>8. PICK j : j = a + 2 * (l - 1)
  OBVIOUS
<1>9. j \in Nat /\ j + 11 * l + 2 <= 4 * b
  BY <1>7, <1>8
<1>10. j \div 4 + 4 \in Nat /\ j \div 4 + 4 <= b
  BY <1>7, <1>9, Z3
<1> QED BY <1>6, <1>8, <1>10 DEF Tokens, Joined, CharsPerToken, PerMessageOverhead

(* The two sums of an estimate, and the bytes beside it.                     *)
LEMMA EstimateIs ==
    ASSUME NEW payload,
           NEW x \in Nat, NEW c \in Nat,
           x = SumOf([i \in DOMAIN payload.system |-> Tokens(payload.system[i])]),
           c = SumOf([i \in DOMAIN payload.contents |-> Tokens(payload.contents[i].text)])
    PROVE  /\ EstimateTokens(payload) = IF 1 > x + c THEN 1 ELSE x + c
           /\ EstimateTokens(payload) \in Nat
<1>1. EstimateTokens(payload) = Larger(1, x + c)
  BY DEF EstimateTokens, Tokens
<1> QED BY <1>1 DEF Larger

LEMMA InlineCostIs ==
    ASSUME NEW payload
    PROVE  InlineCost(payload) =
               SumOf([i \in DOMAIN payload.contents |-> InlineBytes(payload.contents[i].inline)])
BY DEF InlineCost, InlineBytes

(* The contents of a payload, their text and their bytes.                    *)
LEMMA ContentsCost ==
    ASSUME NEW h \in Seq(Messages), NEW att \in Seq(Attachments), Covers(att, h), Priced(att)
    PROVE  LET c == [i \in DOMAIN h |-> Tokens(InjectedText(h[i], att))]
               b == [i \in DOMAIN h |-> InlineBytes(InlineFiles(h[i], att))]
           IN  /\ c \in Seq(Nat) /\ b \in Seq(Nat) /\ Len(c) = Len(h) /\ Len(b) = Len(h)
               /\ \A i \in 1..Len(h) : c[i] >= 4
               /\ SumOf(c) \in Nat /\ SumOf(b) \in Nat
               /\ SumOf(c) + SumOf(b) <= Total(h, att)
<1>1. PICK c, b, t : /\ c = [i \in DOMAIN h |-> Tokens(InjectedText(h[i], att))]
                     /\ b = [i \in DOMAIN h |-> InlineBytes(InlineFiles(h[i], att))]
                     /\ t = [i \in DOMAIN h |-> Cost(h[i], att)]
  OBVIOUS
<1>2. /\ \A i \in 1..Len(h) : h[i] \in Messages /\ CoversOne(att, h[i])
      /\ t \in Seq(Nat) /\ Len(t) = Len(h)
  BY <1>1, TotalIs
<1>3. \A i \in 1..Len(h) :
          c[i] \in Nat /\ b[i] \in Nat /\ c[i] >= 4 /\ c[i] + b[i] <= t[i]
  <2> TAKE i \in 1..Len(h)
  <2>1. /\ InjectedText(h[i], att) \div 4 + 4 \in Nat
        /\ InjectedText(h[i], att) \div 4 + 4 >= 4
        /\ InjectedText(h[i], att) \div 4 + 4 + InlineBytes(InlineFiles(h[i], att))
              <= Cost(h[i], att)
    BY <1>2, MessageFits
  <2>2. InlineBytes(InlineFiles(h[i], att)) \in Nat
    BY <1>2, InlineIs
  <2>3. c[i] = InjectedText(h[i], att) \div 4 + 4
    BY <1>1 DEF Tokens, CharsPerToken, PerMessageOverhead
  <2>4. b[i] = InlineBytes(InlineFiles(h[i], att)) /\ t[i] = Cost(h[i], att)
    BY <1>1
  <2> QED BY <2>1, <2>2, <2>3, <2>4
<1>4. c \in Seq(Nat) /\ Len(c) = Len(h)
  <2>1. DOMAIN h = 1..Len(h) /\ Len(h) \in Nat
    OBVIOUS
  <2>2. c = [i \in 1..Len(h) |-> c[i]]
    BY <1>1, <2>1
  <2>3. \A i \in 1..Len(h) : c[i] \in Nat
    BY <1>3
  <2> QED BY <2>1, <2>2, <2>3
<1>5. b \in Seq(Nat) /\ Len(b) = Len(h)
  <2>1. DOMAIN h = 1..Len(h) /\ Len(h) \in Nat
    OBVIOUS
  <2>2. b = [i \in 1..Len(h) |-> b[i]]
    BY <1>1, <2>1
  <2>3. \A i \in 1..Len(h) : b[i] \in Nat
    BY <1>3
  <2> QED BY <2>1, <2>2, <2>3
<1>6. PICK u : u = [i \in 1..Len(h) |-> c[i] + b[i]]
  OBVIOUS
<1>7. u \in Seq(Int) /\ Len(u) = Len(h) /\ c \in Seq(Int) /\ b \in Seq(Int) /\ t \in Seq(Int)
  BY <1>2, <1>3, <1>4, <1>5, <1>6
<1>8. SumOf(u) = SumOf(c) + SumOf(b)
  <2>1. Len(b) = Len(c) /\ Len(u) = Len(c)
    BY <1>4, <1>5, <1>7
  <2>2. \A i \in 1..Len(c) : u[i] = c[i] + b[i]
    BY <1>4, <1>6
  <2> QED BY <1>7, <2>1, <2>2, SumPlus
<1>9. SumOf(u) <= SumOf(t)
  BY <1>2, <1>3, <1>6, <1>7, SumLeq
<1>10. SumOf(c) \in Nat /\ SumOf(b) \in Nat
  BY <1>4, <1>5, SumNat
<1>11. SumOf(t) = Total(h, att)
  BY <1>1 DEF Total
<1> QED BY <1>1, <1>3, <1>4, <1>5, <1>8, <1>9, <1>10, <1>11

LEMMA OpenAIFits ==
    ASSUME NEW h \in Seq(Messages), NEW att \in Seq(Attachments), Covers(att, h), Priced(att),
           NEW budget \in Nat \ {0}, Total(h, att) <= budget
    PROVE  /\ EstimateTokens(BuildOpenAI(h, att)) \in Nat
           /\ EstimateTokens(BuildOpenAI(h, att)) + InlineCost(BuildOpenAI(h, att)) <= budget
<1>1. PICK payload : payload = BuildOpenAI(h, att)
  OBVIOUS
<1>2. /\ payload.system = <<>> /\ DOMAIN payload.contents = DOMAIN h
      /\ \A i \in DOMAIN h : /\ payload.contents[i].text = InjectedText(h[i], att)
                             /\ payload.contents[i].inline = <<>>
  BY <1>1 DEF BuildOpenAI, Entry
<1>3. PICK c : c = [i \in DOMAIN h |-> Tokens(InjectedText(h[i], att))]
  OBVIOUS
<1>4. SumOf(c) \in Nat /\ SumOf(c) <= Total(h, att)
  <2>1. PICK b : b = [i \in DOMAIN h |-> InlineBytes(InlineFiles(h[i], att))]
    OBVIOUS
  <2>2. SumOf(c) \in Nat /\ SumOf(b) \in Nat /\ SumOf(c) + SumOf(b) <= Total(h, att)
    BY <1>3, <2>1, ContentsCost
  <2>3. Total(h, att) \in Nat
    BY TotalIs
  <2> QED BY <2>2, <2>3
<1>5. SumOf([i \in DOMAIN payload.contents |-> Tokens(payload.contents[i].text)]) = SumOf(c)
  <2>1. [i \in DOMAIN payload.contents |-> Tokens(payload.contents[i].text)] = c
    BY <1>2, <1>3
  <2> QED BY <2>1
<1>6. SumOf([i \in DOMAIN payload.system |-> Tokens(payload.system[i])]) = 0
  <2>1. [i \in DOMAIN payload.system |-> Tokens(payload.system[i])] = <<>>
    BY <1>2
  <2> QED BY <2>1, SumEmpty
<1>7. /\ EstimateTokens(payload) = IF 1 > 0 + SumOf(c) THEN 1 ELSE 0 + SumOf(c)
      /\ EstimateTokens(payload) \in Nat
  BY <1>4, <1>5, <1>6, EstimateIs
<1>8. InlineCost(payload) = 0
  <2>1. InlineBytes(<<>>) = 0
    <3>1. [k \in DOMAIN <<>> |-> NativeTokenCost(Documents[<<>>[k]])] = <<>>
      OBVIOUS
    <3> QED BY <3>1, SumEmpty DEF InlineBytes
  <2>2. PICK z : z = [i \in DOMAIN payload.contents |-> InlineBytes(payload.contents[i].inline)]
    OBVIOUS
  <2>3. z = [i \in 1..Len(h) |-> 0]
    BY <1>2, <2>1, <2>2
  <2>4. z \in Seq(Nat) /\ Len(z) = Len(h) /\ z \in Seq(Int)
    BY <2>3
  <2>5. SumOf(z) = 0
    <3>1. CASE Len(h) = 0
      <4>1. z = <<>>
        BY <2>4, <3>1
      <4> QED BY <4>1, SumEmpty
    <3>2. CASE Len(h) # 0
      <4>1. 1 \in 1..Len(z) /\ z[1] = 0 /\ \A i \in 1..Len(z) : i # 1 => z[i] = 0
        BY <2>3, <2>4, <3>2
      <4> QED BY <2>4, <4>1, SumPoint
    <3> QED BY <3>1, <3>2
  <2> QED BY <2>2, <2>5, InlineCostIs
<1>9. Total(h, att) \in Nat
  BY TotalIs
<1>10. EstimateTokens(payload) + InlineCost(payload) <= budget
  BY <1>4, <1>7, <1>8, <1>9
<1> QED BY <1>1, <1>7, <1>10

(* A history in two parts costs what its parts do.                           *)
LEMMA PartIs ==
    ASSUME NEW h \in Seq(Messages), NEW S
    PROVE  LET at == Places(Len(h), S) IN
           /\ InPlace(at, Len(h), S) /\ at \in Seq(1..Len(h)) /\ DOMAIN at = 1..Len(at)
           /\ Pick(h, S) \in Seq(Messages) /\ Len(Pick(h, S)) = Len(at)
           /\ \A k \in 1..Len(at) : Pick(h, S)[k] = h[at[k]]
           /\ \A att : Covers(att, h) => Covers(att, Pick(h, S))
<1>1. PICK at : /\ at = Places(Len(h), S) /\ InPlace(at, Len(h), S)
                /\ at \in Seq(1..Len(h))
                /\ Pick(h, S) = [k \in 1..Len(at) |-> h[at[k]]]
                /\ Pick(h, S) = PickTo(h, Len(h), S)
                /\ Pick(h, S) \in Seq(Messages) /\ Len(Pick(h, S)) = Len(at)
  BY PickIs
<1>2. DOMAIN at = 1..Len(at) /\ \A k \in 1..Len(at) : at[k] \in 1..Len(h)
  BY <1>1
<1>3. PICK g : g = Pick(h, S)
  OBVIOUS
<1>4. DOMAIN g = 1..Len(at) /\ \A k \in 1..Len(at) : g[k] = h[at[k]]
  BY <1>1, <1>3
<1>5. \A att : Covers(att, h) => Covers(att, g)
  BY <1>2, <1>4 DEF Covers
<1> QED BY <1>1, <1>2, <1>3, <1>4, <1>5

LEMMA TotalSplits ==
    ASSUME NEW h \in Seq(Messages), NEW att \in Seq(Attachments), Covers(att, h), NEW S
    PROVE  /\ Pick(h, S) \in Seq(Messages) /\ Covers(att, Pick(h, S))
           /\ Pick(h, DOMAIN h \ S) \in Seq(Messages) /\ Covers(att, Pick(h, DOMAIN h \ S))
           /\ Total(Pick(h, S), att) + Total(Pick(h, DOMAIN h \ S), att) = Total(h, att)
<1>1. PICK t : t = [i \in DOMAIN h |-> Cost(h[i], att)]
  OBVIOUS
<1>2. t \in Seq(Nat) /\ Len(t) = Len(h) /\ SumOf(t) = Total(h, att)
  BY <1>1, TotalIs DEF Total
<1>3. ASSUME NEW R PROVE Total(Pick(h, R), att) = SumOf(Pick(t, R))
  <2>1. PICK at : at = Places(Len(h), R)
    OBVIOUS
  <2>2. /\ at \in Seq(1..Len(h)) /\ PicksAt(Pick(h, R), h, at) /\ PicksAt(Pick(t, R), t, at)
    BY <1>2, <2>1, PickBoth
  <2>3. PICK g : g = Pick(h, R)
    OBVIOUS
  <2>4. g = [k \in 1..Len(at) |-> h[at[k]]] /\ \A k \in 1..Len(at) : at[k] \in DOMAIN h
    BY <2>2, <2>3 DEF PicksAt
  <2>5. [i \in DOMAIN g |-> Cost(g[i], att)] = [k \in 1..Len(at) |-> t[at[k]]]
    BY <1>1, <2>4
  <2> QED BY <2>2, <2>3, <2>5 DEF Total, PicksAt
<1>4. PICK R : R = DOMAIN h \ S
  OBVIOUS
<1>5. SumOf(Pick(t, S)) + SumOf(Pick(t, R)) = SumOf(t)
  <2>1. t \in Seq(Int) /\ \A i \in 1..Len(t) : i \in S <=> i \notin R
    BY <1>2, <1>4
  <2> QED BY <2>1, SumSplits
<1>6. \A Q : Pick(h, Q) \in Seq(Messages) /\ Covers(att, Pick(h, Q))
  BY PartIs
<1> QED BY <1>2, <1>3, <1>4, <1>5, <1>6

(* Gemini's: the system prompt apart, the bytes beside the text.             *)
LEMMA GeminiFits ==
    ASSUME NEW h \in Seq(Messages), NEW att \in Seq(Attachments), Covers(att, h), Priced(att),
           NEW budget \in Nat \ {0}, Total(h, att) <= budget
    PROVE  /\ EstimateTokens(BuildGemini(h, att)) \in Nat
           /\ EstimateTokens(BuildGemini(h, att)) + InlineCost(BuildGemini(h, att)) <= budget
<1>1. PICK payload, first, systems, turns :
          /\ payload = BuildGemini(h, att) /\ first = {i \in DOMAIN h : h[i].role = "system"}
          /\ systems = Pick(h, first) /\ turns = Pick(h, DOMAIN h \ first)
  OBVIOUS
<1>2. PICK xs : xs = [i \in DOMAIN systems |-> InjectedText(systems[i], att)]
  OBVIOUS
<1>3. PICK tc, sc : /\ tc = Total(turns, att) /\ sc = Total(systems, att)
  OBVIOUS
<1>4. /\ payload.system = IF systems = <<>> THEN <<>> ELSE <<Joined(xs)>>
      /\ payload.contents = [i \in DOMAIN turns |->
                               [Entry(turns[i], att) EXCEPT !.inline = InlineFiles(turns[i], att)]]
  BY <1>1, <1>2 DEF BuildGemini
<1>5. \A i \in DOMAIN turns : /\ payload.contents[i].text = InjectedText(turns[i], att)
                              /\ payload.contents[i].inline = InlineFiles(turns[i], att)
  BY <1>4 DEF Entry
<1>6. /\ systems \in Seq(Messages) /\ Covers(att, systems)
      /\ turns \in Seq(Messages) /\ Covers(att, turns)
      /\ sc + tc = Total(h, att)
  BY <1>1, <1>3, TotalSplits
<1>7. PICK c, b : /\ c = [i \in DOMAIN turns |-> Tokens(InjectedText(turns[i], att))]
                  /\ b = [i \in DOMAIN turns |-> InlineBytes(InlineFiles(turns[i], att))]
  OBVIOUS
<1>8. /\ c \in Seq(Nat) /\ b \in Seq(Nat) /\ Len(c) = Len(turns) /\ Len(b) = Len(turns)
      /\ \A i \in 1..Len(turns) : c[i] >= 4
      /\ SumOf(c) \in Nat /\ SumOf(b) \in Nat /\ SumOf(c) + SumOf(b) <= tc
  BY <1>3, <1>6, <1>7, ContentsCost
<1>9. InlineCost(payload) = SumOf(b)
  <2>1. [i \in DOMAIN payload.contents |-> InlineBytes(payload.contents[i].inline)] = b
    BY <1>4, <1>5, <1>7
  <2> QED BY <2>1, InlineCostIs
<1>10. SumOf([i \in DOMAIN payload.contents |-> Tokens(payload.contents[i].text)]) = SumOf(c)
  <2>1. [i \in DOMAIN payload.contents |-> Tokens(payload.contents[i].text)] = c
    BY <1>4, <1>5, <1>7
  <2> QED BY <2>1
<1>11. PICK x : x = SumOf([i \in DOMAIN payload.system |-> Tokens(payload.system[i])])
  OBVIOUS
<1>12. x \in Nat /\ x <= sc
  <2>1. CASE systems = <<>>
    <3>1. [i \in DOMAIN payload.system |-> Tokens(payload.system[i])] = <<>>
      BY <1>4, <2>1
    <3>2. sc \in Nat
      BY <1>3, <1>6, TotalIs
    <3>3. x = SumOf(<<>>)
      BY <1>11, <3>1, Zenon
    <3> QED BY <3>2, <3>3, SumEmpty
  <2>2. CASE systems # <<>>
    <3>1. PICK ts : ts = [i \in DOMAIN systems |-> Cost(systems[i], att)]
      OBVIOUS
    <3>2. /\ \A i \in 1..Len(systems) : systems[i] \in Messages /\ CoversOne(att, systems[i])
          /\ ts \in Seq(Nat) /\ Len(ts) = Len(systems) /\ SumOf(ts) = sc
      BY <1>3, <1>6, <3>1, TotalIs DEF Total
    <3>3. \A i \in 1..Len(systems) : xs[i] \in Nat /\ xs[i] \div 4 + 4 <= ts[i]
      <4> TAKE i \in 1..Len(systems)
      <4>1. PICK m : m = systems[i]
        OBVIOUS
      <4>2. m \in Messages /\ CoversOne(att, m)
        BY <3>2, <4>1
      <4>3. /\ InjectedText(m, att) \div 4 + 4 \in Nat
            /\ InjectedText(m, att) \div 4 + 4 + InlineBytes(InlineFiles(m, att)) <= Cost(m, att)
        BY <4>2, MessageFits
      <4>4. InlineBytes(InlineFiles(m, att)) \in Nat /\ InjectedText(m, att) \in Nat
            /\ Cost(m, att) \in Nat
        BY <4>2, InlineIs, InjectedIs, CostIs
      <4>5. InjectedText(m, att) \div 4 + 4 <= Cost(m, att)
        BY <4>3, <4>4
      <4>6. xs[i] = InjectedText(m, att) /\ ts[i] = Cost(m, att)
        BY <1>2, <3>1, <4>1
      <4> QED BY <4>4, <4>5, <4>6
    <3>4. xs \in Seq(Nat) /\ Len(xs) = Len(systems)
      <4>1. DOMAIN systems = 1..Len(systems) /\ Len(systems) \in Nat
        BY <1>6
      <4>2. xs = [i \in 1..Len(systems) |-> xs[i]]
        BY <1>2, <4>1
      <4> QED BY <3>3, <4>1, <4>2
    <3>5. Len(systems) >= 1
      BY <1>6, <2>2
    <3>6. Tokens(Joined(xs)) \in Nat /\ Tokens(Joined(xs)) <= SumOf(ts)
      BY <3>2, <3>3, <3>4, <3>5, JoinedCosts
    <3>7. [i \in DOMAIN payload.system |-> Tokens(payload.system[i])] = <<Tokens(Joined(xs))>>
      BY <1>4, <2>2
    <3>8. x = Tokens(Joined(xs))
      <4>1. x = SumOf(<<Tokens(Joined(xs))>>)
        BY <1>11, <3>7, Zenon
      <4> QED BY <3>6, <4>1, SumOne
    <3> QED BY <3>2, <3>6, <3>8
  <2> QED BY <2>1, <2>2
<1>13. /\ EstimateTokens(payload) = IF 1 > x + SumOf(c) THEN 1 ELSE x + SumOf(c)
       /\ EstimateTokens(payload) \in Nat
  BY <1>8, <1>10, <1>11, <1>12, EstimateIs
<1>14. SumOf(c) = 0 => SumOf(b) = 0
  <2>1. CASE Len(turns) = 0
    <3>1. b = <<>>
      BY <1>8, <2>1
    <3> QED BY <3>1, SumEmpty
  <2>2. CASE Len(turns) # 0
    <3>1. 1 \in 1..Len(c) /\ c[1] >= 4
      BY <1>6, <1>8, <2>2
    <3>2. c[1] <= SumOf(c)
      BY <1>8, <3>1, SumAtLeast
    <3> QED BY <1>8, <3>1, <3>2
  <2> QED BY <2>1, <2>2
<1>15. tc \in Nat /\ sc \in Nat
  BY <1>3, <1>6, TotalIs
<1>16. PICK e, C, B : e = EstimateTokens(payload) /\ C = SumOf(c) /\ B = SumOf(b)
  OBVIOUS
<1>17. e + B <= budget
  <2>1. /\ e = (IF 1 > x + C THEN 1 ELSE x + C) /\ (C = 0 => B = 0)
        /\ C \in Nat /\ B \in Nat /\ C + B <= tc
    BY <1>8, <1>13, <1>14, <1>16
  <2>2. sc + tc <= budget
    BY <1>6
  <2>3. x + C + B <= budget
    BY <1>12, <1>15, <2>1, <2>2
  <2>4. CASE x + C >= 1
    BY <1>12, <2>1, <2>3, <2>4
  <2>5. CASE ~(x + C >= 1)
    <3>1. x = 0 /\ C = 0
      BY <1>12, <2>1, <2>5
    <3> QED BY <2>1, <3>1
  <2> QED BY <2>4, <2>5
<1> QED BY <1>1, <1>9, <1>13, <1>16, <1>17

-----------------------------------------------------------------------------
(* Turns, dropped and marked.                                                *)

LEMMA SumZero ==
    ASSUME NEW z \in Seq(Int), \A i \in 1..Len(z) : z[i] = 0
    PROVE  SumOf(z) = 0
<1>1. CASE Len(z) = 0
  <2>1. z = <<>>
    BY <1>1
  <2> QED BY <2>1, SumEmpty
<1>2. CASE Len(z) # 0
  <2>1. 1 \in 1..Len(z) /\ z[1] = 0
    BY <1>2
  <2>2. SumOf(z) = z[1]
    BY <2>1, SumPoint
  <2> QED BY <2>1, <2>2
<1> QED BY <1>1, <1>2

LEMMA GreatestOf ==
    ASSUME NEW n \in Nat, NEW I \in SUBSET (1..n), I # {}
    PROVE  \E i \in I : \A j \in I : j <= i
<1>1. PICK J : J = {m \in Nat : n - m \in I}
  OBVIOUS
<1>2. J \in SUBSET Nat /\ J # {}
  <2>1. PICK i \in I : TRUE
    OBVIOUS
  <2>2. n - i \in Nat /\ n - (n - i) = i
    OBVIOUS
  <2> QED BY <1>1, <2>1, <2>2
<1>3. PICK m \in J : \A l \in J : m <= l
  BY <1>2, LeastOf
<1>4. m \in Nat /\ n - m \in I
  BY <1>1, <1>3
<1>5. ASSUME NEW j \in I PROVE j <= n - m
  <2>1. n - j \in Nat /\ n - (n - j) = j
    OBVIOUS
  <2>2. n - j \in J
    BY <1>1, <2>1
  <2> QED BY <1>3, <1>4, <2>2
<1> QED BY <1>4, <1>5

(* Picking everything changes nothing.                                       *)
LEMMA PlacesAll ==
    ASSUME NEW n \in Nat, NEW S, 1..n \subseteq S
    PROVE  Places(n, S) = [i \in 1..n |-> i]
<1> DEFINE Have == {m \in Nat : m <= n => Places(m, S) = [i \in 1..m |-> i]}
<1>1. 0 \in Have
  BY PlacesStep
<1>2. ASSUME NEW m \in Nat, m \in Have PROVE m + 1 \in Have
  <2>1. SUFFICES ASSUME m + 1 <= n PROVE Places(m + 1, S) = [i \in 1..(m + 1) |-> i]
    BY <1>2
  <2>2. m + 1 \in S
    BY <2>1
  <2>3. PICK p : p = [i \in 1..m |-> i]
    OBVIOUS
  <2>4. Places(m, S) = p
    BY <1>2, <2>1, <2>3
  <2>5. Places(m + 1, S) = Append(p, m + 1)
    BY <2>2, <2>4, PlacesStep
  <2>6. p \in Seq(Nat) /\ Len(p) = m
    BY <2>3
  <2>7. PICK q : q = Append(p, m + 1)
    OBVIOUS
  <2>8. q \in Seq(Nat) /\ Len(q) = m + 1 /\ q[m + 1] = m + 1 /\ \A i \in 1..m : q[i] = p[i]
    BY <2>6, <2>7
  <2>9. \A i \in 1..(m + 1) : q[i] = i
    BY <2>3, <2>8
  <2>10. q = [i \in 1..(m + 1) |-> q[i]]
    BY <2>8
  <2> QED BY <2>5, <2>7, <2>9, <2>10
<1>3. n \in Have
  <2> HIDE DEF Have
  <2> QED BY <1>1, <1>2, ByInduction
<1> QED BY <1>3

LEMMA RestOfAll ==
    ASSUME NEW h \in Seq(Messages)
    PROVE  Rest(h, {}) = h /\ Marked(h, {}) = h
<1>1. Len(h) \in Nat /\ DOMAIN h = 1..Len(h) /\ h = [i \in 1..Len(h) |-> h[i]]
  OBVIOUS
<1>2. PICK at : at = [i \in 1..Len(h) |-> i]
  OBVIOUS
<1>3. Places(Len(h), DOMAIN h) = at
  BY <1>1, <1>2, PlacesAll
<1>4. Pick(h, DOMAIN h) = [k \in DOMAIN at |-> h[at[k]]]
  BY <1>3 DEF Pick
<1>5. [k \in DOMAIN at |-> h[at[k]]] = h
  BY <1>1, <1>2
<1>6. DOMAIN h \ {} = DOMAIN h
  OBVIOUS
<1>7. Rest(h, {}) = h
  BY <1>4, <1>5, <1>6 DEF Rest
<1> QED BY <1>7 DEF Marked

(* What is left of a history without some of its messages, and where each of *)
(* them was.                                                                 *)
Left(g, h, at, gone) ==
    /\ InPlace(at, Len(h), DOMAIN h \ gone) /\ at \in Seq(1..Len(h)) /\ DOMAIN at = 1..Len(at)
    /\ g \in Seq(Messages) /\ Len(g) = Len(at) /\ Len(g) + Cardinality(gone) = Len(h)
    /\ \A k \in 1..Len(at) : /\ g[k].seq = h[at[k]].seq /\ g[k].role = h[at[k]].role
                             /\ g[k].files = h[at[k]].files

LEMMA RestIs ==
    ASSUME NEW h \in Seq(Messages), NEW gone \in SUBSET DOMAIN h
    PROVE  /\ Left(Rest(h, gone), h, Places(Len(h), DOMAIN h \ gone), gone)
           /\ \A k \in DOMAIN Rest(h, gone) :
                  Rest(h, gone)[k] = h[Places(Len(h), DOMAIN h \ gone)[k]]
           /\ gone # DOMAIN h => Rest(h, gone) # <<>>
<1>1. PICK S, at, g : /\ S = DOMAIN h \ gone /\ at = Places(Len(h), S) /\ g = Rest(h, gone)
  OBVIOUS
<1>2. g = Pick(h, S)
  BY <1>1 DEF Rest
<1>3. /\ InPlace(at, Len(h), S) /\ at \in Seq(1..Len(h)) /\ DOMAIN at = 1..Len(at)
      /\ g \in Seq(Messages) /\ Len(g) = Len(at)
      /\ \A k \in 1..Len(at) : g[k] = h[at[k]]
  BY <1>1, <1>2, PartIs
<1>4. Len(g) + Cardinality(gone) = Len(h)
  <2>1. IsFiniteSet(1..Len(h)) /\ Cardinality(1..Len(h)) = Len(h) /\ Len(h) \in Nat
    BY UpTo
  <2>2. gone \subseteq 1..Len(h) /\ IsFiniteSet(gone) /\ Cardinality(gone) \in Nat
    BY <2>1, FS_Subset, FS_CardinalityType
  <2>3. Cardinality(1..Len(h) \ gone) = Cardinality(1..Len(h)) - Cardinality(1..Len(h) \cap gone)
    BY <2>1, FS_Difference
  <2>4. 1..Len(h) \cap gone = gone /\ S \cap 1..Len(h) = 1..Len(h) \ gone
    BY <1>1, <2>2
  <2>5. Len(at) = Cardinality(S \cap 1..Len(h))
    BY <1>3 DEF InPlace
  <2>6. PICK n, c : n = Len(h) /\ c = Cardinality(gone)
    OBVIOUS
  <2>7. n \in Nat /\ c \in Nat /\ Cardinality(1..Len(h) \ gone) = n - c
    BY <2>1, <2>2, <2>3, <2>4, <2>6
  <2>8. Len(g) = n - c
    BY <1>3, <2>4, <2>5, <2>7
  <2> QED BY <2>6, <2>7, <2>8
<1>5. gone # DOMAIN h => g # <<>>
  <2> SUFFICES ASSUME NEW i \in DOMAIN h, i \notin gone PROVE g # <<>>
    OBVIOUS
  <2>1. i \in 1..Len(h) /\ i \in S
    BY <1>1
  <2>2. PICK k \in DOMAIN at : at[k] = i
    BY <1>3, <2>1 DEF InPlace
  <2> QED BY <1>3, <2>2
<1>6. Left(g, h, at, gone)
  BY <1>1, <1>3, <1>4 DEF Left
<1>7. DOMAIN g = 1..Len(at)
  BY <1>3
<1> QED BY <1>1, <1>3, <1>5, <1>6, <1>7

LEMMA OmittedIs ==
    ASSUME NEW h \in Seq(Messages)
    PROVE  /\ Omitted(h) \in Nat
           /\ \A gone \in SUBSET DOMAIN h :
                 /\ Omitted(Pick(h, gone)) \in Nat /\ Omitted(Rest(h, gone)) \in Nat
                 /\ Omitted(Rest(h, gone)) + Omitted(Pick(h, gone)) = Omitted(h)
<1>1. PICK o : o = [i \in DOMAIN h |-> h[i].omitted]
  OBVIOUS
<1>2. o \in Seq(Nat) /\ Len(o) = Len(h) /\ o \in Seq(Int)
  <2>1. \A i \in 1..Len(h) : h[i] \in Messages
    OBVIOUS
  <2>2. \A i \in 1..Len(h) : h[i].omitted \in Nat
    BY <2>1 DEF Messages
  <2> QED BY <1>1, <2>2, SMTT(30)
<1>3. Omitted(h) = SumOf(o) /\ SumOf(o) \in Nat
  BY <1>1, <1>2, SumNat DEF Omitted
<1>4. ASSUME NEW S PROVE Omitted(Pick(h, S)) = SumOf(Pick(o, S)) /\ SumOf(Pick(o, S)) \in Nat
  <2>1. PICK at : at = Places(Len(h), S)
    OBVIOUS
  <2>2. at \in Seq(1..Len(h)) /\ PicksAt(Pick(h, S), h, at) /\ PicksAt(Pick(o, S), o, at)
    BY <1>2, <2>1, PickBoth
  <2>3. PICK g : g = Pick(h, S)
    OBVIOUS
  <2>4. g = [k \in 1..Len(at) |-> h[at[k]]] /\ \A k \in 1..Len(at) : at[k] \in DOMAIN h
    BY <2>2, <2>3 DEF PicksAt
  <2>5. [i \in DOMAIN g |-> g[i].omitted] = [k \in 1..Len(at) |-> o[at[k]]]
    BY <1>1, <2>4
  <2>6. SumOf(Pick(o, S)) \in Nat
    BY <1>2, SumOfPart
  <2> QED BY <2>2, <2>3, <2>5, <2>6 DEF Omitted, PicksAt
<1>5. ASSUME NEW gone \in SUBSET DOMAIN h
      PROVE  SumOf(Pick(o, DOMAIN h \ gone)) + SumOf(Pick(o, gone)) = SumOf(o)
  <2>1. PICK R : R = DOMAIN h \ gone
    OBVIOUS
  <2>2. \A i \in 1..Len(o) : i \in R <=> i \notin gone
    BY <1>2, <2>1
  <2> QED BY <1>2, <2>1, <2>2, SumSplits
<1> QED BY <1>3, <1>4, <1>5 DEF Rest

LEMMA MarkedIs ==
    ASSUME NEW h \in Seq(Messages), NEW gone \in SUBSET DOMAIN h, gone = {} \/ gone # DOMAIN h
    PROVE  /\ Left(Marked(h, gone), h, Places(Len(h), DOMAIN h \ gone), gone)
           /\ Omitted(Marked(h, gone)) + Len(Marked(h, gone)) = Omitted(h) + Len(h)
<1>1. PICK g, at : g = Rest(h, gone) /\ at = Places(Len(h), DOMAIN h \ gone)
  OBVIOUS
<1>2. Left(g, h, at, gone) /\ (gone # DOMAIN h => g # <<>>)
  BY <1>1, RestIs
<1>3. /\ Omitted(h) \in Nat /\ Omitted(g) \in Nat /\ Omitted(Pick(h, gone)) \in Nat
      /\ Omitted(g) + Omitted(Pick(h, gone)) = Omitted(h)
  BY <1>1, OmittedIs
<1>4. g \in Seq(Messages) /\ Len(g) \in Nat /\ Len(g) = Len(at)
      /\ Len(g) + Cardinality(gone) = Len(h)
  BY <1>2 DEF Left
<1>5. Cardinality(gone) \in Nat
  <2>1. IsFiniteSet(1..Len(h)) /\ gone \subseteq 1..Len(h)
    BY UpTo
  <2> QED BY <2>1, FS_Subset, FS_CardinalityType
<1>6. CASE gone = {}
  <2>1. Marked(h, gone) = h /\ g = h
    BY <1>1, <1>6, RestOfAll
  <2> QED BY <1>1, <1>2, <2>1
<1>7. CASE gone # {}
  <2>1. g # <<>> /\ gone # DOMAIN h
    BY <1>2, <1>7
  <2>2. PICK t : t = IF g[1].role = "system" /\ Len(g) > 1 THEN 2 ELSE 1
    OBVIOUS
  <2>3. t \in 1..Len(g)
    BY <1>4, <2>1, <2>2
  <2>4. PICK n : n = g[t].omitted + Cardinality(gone) + Omitted(Pick(h, gone))
    OBVIOUS
  <2>5. g[t] \in Messages /\ g[t].omitted \in Nat
    <3>1. g[t] \in Messages
      BY <1>4, <2>3
    <3> QED BY <3>1 DEF Messages
  <2>6. n \in Nat
    BY <1>3, <1>5, <2>4, <2>5
  <2>7. PICK m : m = [g EXCEPT ![t].omitted = n]
    OBVIOUS
  <2>8. Marked(h, gone) = m
    BY <1>1, <1>7, <2>1, <2>2, <2>4, <2>7 DEF Marked
  <2>9. /\ m \in Seq(Messages) /\ Len(m) = Len(g)
        /\ \A k \in 1..Len(g) : k # t => m[k] = g[k]
        /\ m[t] = [g[t] EXCEPT !.omitted = n]
    <3>1. [g[t] EXCEPT !.omitted = n] \in Messages
      BY <2>5, <2>6 DEF Messages
    <3>2. m = [g EXCEPT ![t] = [g[t] EXCEPT !.omitted = n]]
      BY <2>7
    <3>3. DOMAIN m = 1..Len(g)
      BY <1>4, <3>2
    <3>4. \A k \in 1..Len(g) : m[k] = IF k = t THEN [g[t] EXCEPT !.omitted = n] ELSE g[k]
      BY <1>4, <3>2
    <3>5. \A k \in 1..Len(g) : m[k] \in Messages
      BY <1>4, <3>1, <3>4, SMTT(30)
    <3>6. m = [k \in 1..Len(g) |-> m[k]]
      BY <3>2, <3>3
    <3>7. m \in Seq(Messages) /\ Len(m) = Len(g)
      BY <1>4, <3>5, <3>6
    <3> QED BY <2>3, <3>4, <3>7
  <2>10. /\ m[t].omitted = n /\ m[t].seq = g[t].seq /\ m[t].role = g[t].role
         /\ m[t].files = g[t].files
    BY <2>5, <2>9 DEF Messages
  <2>11. \A k \in 1..Len(g) : m[k].seq = g[k].seq /\ m[k].role = g[k].role
                              /\ m[k].files = g[k].files
    BY <2>9, <2>10
  <2>12. Left(m, h, at, gone)
    BY <1>2, <2>9, <2>11 DEF Left
  <2>13. PICK a, b : /\ a = [i \in DOMAIN g |-> g[i].omitted]
                     /\ b = [i \in DOMAIN m |-> m[i].omitted]
    OBVIOUS
  <2>14. a \in Seq(Int) /\ b \in Seq(Int) /\ Len(a) = Len(g) /\ Len(b) = Len(g)
    <3>1. \A s \in Seq(Messages) : \A i \in 1..Len(s) : s[i] \in Messages
      OBVIOUS
    <3>2. \A x \in Messages : x.omitted \in Int
      BY DEF Messages
    <3>3. \A i \in 1..Len(g) : g[i].omitted \in Int /\ m[i].omitted \in Int
      BY <1>4, <2>9, <3>1, <3>2
    <3>4. DOMAIN g = 1..Len(g) /\ DOMAIN m = 1..Len(g)
      BY <1>4, <2>9
    <3> QED BY <1>4, <2>13, <3>3, <3>4
  <2>15. \A i \in 1..Len(a) : i # t => b[i] = a[i]
    BY <1>4, <2>9, <2>13, <2>14
  <2>16. b[t] = n /\ a[t] = g[t].omitted
    <3>1. t \in DOMAIN g /\ t \in DOMAIN m
      BY <1>4, <2>3, <2>9
    <3> QED BY <2>10, <2>13, <3>1
  <2>17. SumOf(b) = SumOf(a) + (b[t] - a[t])
    BY <2>3, <2>14, <2>15, SumReplace
  <2>18. SumOf(a) = Omitted(g) /\ SumOf(b) = Omitted(m)
    BY <2>13 DEF Omitted
  <2>19. PICK og, op, oh, om, c, lg, lh, x :
             /\ og = Omitted(g) /\ op = Omitted(Pick(h, gone)) /\ oh = Omitted(h) /\ om = Omitted(m)
             /\ c = Cardinality(gone) /\ lg = Len(g) /\ lh = Len(h) /\ x = g[t].omitted
    OBVIOUS
  <2>20. /\ og \in Nat /\ op \in Nat /\ oh \in Nat /\ c \in Nat /\ lg \in Nat /\ x \in Nat
         /\ og + op = oh /\ lg + c = lh /\ om = og + (n - x) /\ n = x + c + op
    BY <1>3, <1>4, <1>5, <2>4, <2>5, <2>16, <2>17, <2>18, <2>19
  <2>21. om + lg = oh + lh
    BY <2>20
  <2> QED BY <1>1, <2>8, <2>9, <2>12, <2>19, <2>21
<1> QED BY <1>6, <1>7

LEMMA PinnedIs ==
    ASSUME NEW h \in Seq(Messages)
    PROVE  /\ Pinned(h) \subseteq DOMAIN h
           /\ h # <<>> => Droppable(h) # DOMAIN h
           /\ Users(h) # {} => \E u \in Users(h) : \A j \in Users(h) : j <= u
<1>1. Len(h) \in Nat /\ DOMAIN h = 1..Len(h) /\ Users(h) \in SUBSET (1..Len(h))
  BY DEF Users
<1>2. Users(h) # {} => \E u \in Users(h) : \A j \in Users(h) : j <= u
  BY <1>1, GreatestOf
<1>3. ASSUME h # <<>> PROVE \E i \in DOMAIN h : i \in Pinned(h)
  <2>1. CASE Users(h) = {}
    <3>1. Len(h) \in DOMAIN h
      BY <1>1, <1>3
    <3> QED BY <2>1, <3>1 DEF Pinned
  <2>2. CASE Users(h) # {}
    <3>1. PICK u \in Users(h) : \A j \in Users(h) : j <= u
      BY <1>2, <2>2
    <3>2. u \in DOMAIN h
      BY <1>1, <3>1
    <3> QED BY <2>2, <3>1, <3>2 DEF Pinned
  <2> QED BY <2>1, <2>2
<1> QED BY <1>2, <1>3 DEF Pinned, Droppable

(* Shortening drops some of what may be dropped, and counts it.              *)
LEMMA ShortenedIs ==
    ASSUME NEW h \in Seq(Messages), NEW att, NEW budget
    PROVE  \E gone \in SUBSET Droppable(h) :
               /\ gone = IF Total(h, att) <= budget THEN {} ELSE DropOldestTurns(h, att, budget)
               /\ Shortened(h, att, budget) = Marked(h, gone)
               /\ Left(Marked(h, gone), h, Places(Len(h), DOMAIN h \ gone), gone)
               /\ Omitted(Marked(h, gone)) + Len(Marked(h, gone)) = Omitted(h) + Len(h)
<1>1. PICK gone : gone = IF Total(h, att) <= budget THEN {} ELSE DropOldestTurns(h, att, budget)
  OBVIOUS
<1>2. gone \in SUBSET Droppable(h)
  BY <1>1 DEF DropOldestTurns, DroppedThrough
<1>3. gone \in SUBSET DOMAIN h
  BY <1>2 DEF Droppable
<1>4. gone = {} \/ gone # DOMAIN h
  <2>1. CASE h = <<>>
    <3>1. DOMAIN h = {}
      BY <2>1
    <3> QED BY <1>3, <3>1
  <2>2. CASE h # <<>>
    <3>1. Droppable(h) # DOMAIN h
      BY <2>2, PinnedIs
    <3>2. Droppable(h) \subseteq DOMAIN h
      BY DEF Droppable
    <3> QED BY <1>2, <3>1, <3>2
  <2> QED BY <2>1, <2>2
<1>5. Shortened(h, att, budget) = Marked(h, gone)
  BY <1>1 DEF Shortened
<1> QED BY <1>1, <1>2, <1>3, <1>4, <1>5, MarkedIs

LEMMA ShortenedCounts ==
    ASSUME NEW h \in Seq(Messages), NEW att, NEW budget
    PROVE  /\ Shortened(h, att, budget) \in Seq(Messages)
           /\ Omitted(Shortened(h, att, budget)) + Len(Shortened(h, att, budget))
                  = Omitted(h) + Len(h)
<1>1. PICK gone \in SUBSET Droppable(h) :
          /\ gone = IF Total(h, att) <= budget THEN {} ELSE DropOldestTurns(h, att, budget)
          /\ Shortened(h, att, budget) = Marked(h, gone)
          /\ Left(Marked(h, gone), h, Places(Len(h), DOMAIN h \ gone), gone)
          /\ Omitted(Marked(h, gone)) + Len(Marked(h, gone)) = Omitted(h) + Len(h)
  BY ShortenedIs
<1>2. Marked(h, gone) \in Seq(Messages)
  BY <1>1 DEF Left
<1> QED BY <1>1, <1>2

(* A history as it is stored: in order, unmarked, and with answers that      *)
(* follow questions.                                                         *)
Stored(h) ==
    /\ h \in Seq(Messages)
    /\ \A i \in DOMAIN h : /\ h[i].seq = i - 1 /\ h[i].omitted = 0
                           /\ h[i].role = "system" => i = 1
                           /\ h[i].role = "assistant" => i > 1 /\ h[i - 1].role = "user"

LEMMA DroppableIs ==
    ASSUME NEW h, Stored(h), Users(h) # {}
    PROVE  /\ Pinned(h) = {i \in DOMAIN h : i = 1 /\ h[i].role = "system"} \cup LastQuestion(h)
           /\ Droppable(h) \subseteq DOMAIN h
           /\ \A i \in Droppable(h) : h[i].role # "system" /\ i \notin LastQuestion(h)
           /\ \A i \in DOMAIN h \ Droppable(h) : h[i].role = "system" \/ i \in LastQuestion(h)
<1>1. LastQuestion(h) = {i \in DOMAIN h : i \in Users(h) /\ \A j \in Users(h) : j <= i}
  BY DEF LastQuestion, Users
<1>2. Pinned(h) = {i \in DOMAIN h : i = 1 /\ h[i].role = "system"} \cup LastQuestion(h)
  BY <1>1 DEF Pinned
<1>3. \A i \in DOMAIN h : h[i].role = "system" => i = 1
  BY DEF Stored
<1> QED BY <1>2, <1>3 DEF Droppable

(* Every message that may be dropped begins a turn or answers one.           *)
LEMMA TurnOf ==
    ASSUME NEW h, Stored(h)
    PROVE  \A i \in Droppable(h) : \/ i \in Heads(h)
                                   \/ i - 1 \in Heads(h) /\ TakesItsAnswer(h, i - 1)
<1> SUFFICES ASSUME NEW i \in Droppable(h), i \notin Heads(h)
             PROVE  i - 1 \in Heads(h) /\ TakesItsAnswer(h, i - 1)
  OBVIOUS
<1>1. TakesItsAnswer(h, i - 1)
  BY DEF Heads
<1>2. i - 1 \in Droppable(h) /\ h[i - 1].role = "user"
  BY <1>1 DEF TakesItsAnswer
<1>3. ~TakesItsAnswer(h, (i - 1) - 1)
  <2>1. h \in Seq(Messages) /\ i - 1 \in DOMAIN h
    BY <1>2 DEF Stored, Droppable
  <2>2. ((i - 1) - 1) + 1 = i - 1
    BY <2>1
  <2> QED BY <1>2, <2>2 DEF TakesItsAnswer
<1> QED BY <1>1, <1>2, <1>3 DEF Heads

(* What goes before the turn of a head is what goes with the heads before.   *)
LEMMA TurnBefore ==
    ASSUME NEW h, Stored(h), NEW g \in Heads(h),
           NEW B, B = {i \in Droppable(h) : i < g}
    PROVE  B = {} \/ \E p \in Heads(h) : p < g /\ DroppedThrough(h, p) = B
<1> SUFFICES ASSUME B # {} PROVE \E p \in Heads(h) : p < g /\ DroppedThrough(h, p) = B
  OBVIOUS
<1>1. h \in Seq(Messages) /\ Len(h) \in Nat /\ Droppable(h) \subseteq 1..Len(h)
      /\ Heads(h) \subseteq Droppable(h)
  BY DEF Stored, Droppable, Heads
<1>2. PICK P : P = {p \in Heads(h) : p < g}
  OBVIOUS
<1>3. P \in SUBSET (1..Len(h)) /\ P # {}
  <2>1. PICK i \in B : TRUE
    OBVIOUS
  <2>2. i \in Droppable(h) /\ i < g /\ i \in 1..Len(h)
    BY <1>1, <2>1
  <2>3. i \in Heads(h) \/ i - 1 \in Heads(h)
    BY <2>2, TurnOf
  <2>4. i \in P \/ i - 1 \in P
    BY <1>1, <1>2, <2>2, <2>3
  <2> QED BY <1>1, <1>2, <2>4
<1>4. PICK p \in P : \A q \in P : q <= p
  BY <1>1, <1>3, GreatestOf
<1>5. p \in Heads(h) /\ p < g /\ p \in 1..Len(h) /\ g \in 1..Len(h)
  BY <1>1, <1>2, <1>4
<1>6. ASSUME NEW i \in B PROVE i \in DroppedThrough(h, p)
  <2>1. i \in Droppable(h) /\ i < g /\ i \in 1..Len(h)
    BY <1>1
  <2>2. CASE i \in Heads(h)
    <3>1. i <= p
      BY <1>2, <1>4, <2>1, <2>2
    <3> QED BY <2>1, <3>1 DEF DroppedThrough
  <2>3. CASE i - 1 \in Heads(h) /\ TakesItsAnswer(h, i - 1)
    <3>1. i - 1 \in P
      BY <1>1, <1>2, <2>1, <2>3
    <3>2. i - 1 <= p
      BY <1>4, <3>1
    <3>3. i <= p \/ (i = p + 1 /\ TakesItsAnswer(h, p))
      <4>1. CASE i - 1 = p
        BY <1>5, <2>1, <2>3, <4>1
      <4>2. CASE i - 1 # p
        BY <1>5, <2>1, <3>2, <4>2
      <4> QED BY <4>1, <4>2
    <3> QED BY <2>1, <3>3 DEF DroppedThrough
  <2> QED BY <2>1, <2>2, <2>3, TurnOf
<1>7. ASSUME NEW i \in DroppedThrough(h, p) PROVE i \in B
  <2>1. i \in Droppable(h) /\ (i <= p \/ (i = p + 1 /\ TakesItsAnswer(h, p))) /\ i \in 1..Len(h)
    BY <1>1 DEF DroppedThrough
  <2>2. TakesItsAnswer(h, p) => p + 1 # g
    <3>1. ~TakesItsAnswer(h, g - 1)
      BY DEF Heads
    <3>2. p + 1 = g => g - 1 = p
      BY <1>5
    <3> QED BY <3>1, <3>2
  <2>3. i < g
    BY <1>5, <2>1, <2>2
  <2> QED BY <2>1, <2>3
<1> QED BY <1>5, <1>6, <1>7


(* A part of a history reads no file that the history does not.              *)
LEMMA LeftCovers ==
    ASSUME NEW h \in Seq(Messages), NEW g, NEW at, NEW gone, Left(g, h, at, gone),
           NEW att, Covers(att, h)
    PROVE  g \in Seq(Messages) /\ Covers(att, g)
<1>1. g \in Seq(Messages) /\ DOMAIN g = 1..Len(at) /\ DOMAIN h = 1..Len(h)
  BY DEF Left
<1>2. \A k \in 1..Len(at) : at[k] \in 1..Len(h)
  BY DEF Left
<1>3. ASSUME NEW k \in DOMAIN g, NEW f \in DOMAIN g[k].files
      PROVE  \E j \in DOMAIN att : att[j].file = g[k].files[f]
  <2>1. g[k].files = h[at[k]].files /\ at[k] \in DOMAIN h
    BY <1>1, <1>2 DEF Left
  <2> QED BY <2>1 DEF Covers
<1> QED BY <1>1, <1>3 DEF Covers

(* Dropping less than may be dropped leaves a history with a cost.           *)
LEMMA MarkedCosts ==
    ASSUME NEW h \in Seq(Messages), NEW att \in Seq(Attachments), Covers(att, h),
           NEW gone \in SUBSET Droppable(h)
    PROVE  /\ Marked(h, gone) \in Seq(Messages) /\ Covers(att, Marked(h, gone))
           /\ Total(Marked(h, gone), att) \in Nat
<1>1. gone \in SUBSET DOMAIN h
  BY DEF Droppable
<1>2. gone = {} \/ gone # DOMAIN h
  <2>1. CASE h = <<>>
    <3>1. DOMAIN h = {}
      BY <2>1
    <3> QED BY <1>1, <3>1
  <2>2. CASE h # <<>>
    <3>1. Droppable(h) # DOMAIN h /\ Droppable(h) \subseteq DOMAIN h
      BY <2>2, PinnedIs DEF Droppable
    <3> QED BY <3>1
  <2> QED BY <2>1, <2>2
<1>3. PICK g, at : g = Marked(h, gone) /\ Left(g, h, at, gone)
  BY <1>1, <1>2, MarkedIs
<1>4. g \in Seq(Messages) /\ Covers(att, g)
  BY <1>3, LeftCovers
<1>5. Total(g, att) \in Nat
  BY <1>4, TotalIs
<1> QED BY <1>3, <1>4, <1>5

(* Turns are dropped up to one whose head is the first that is enough.       *)
LEMMA DropsThrough ==
    ASSUME NEW h, Stored(h), NEW att \in Seq(Attachments), Covers(att, h), NEW budget \in Int
    PROVE  \/ Droppable(h) = {} /\ DropOldestTurns(h, att, budget) = {}
           \/ \E g \in Heads(h) :
                 /\ DropOldestTurns(h, att, budget) = DroppedThrough(h, g)
                 /\ \A p \in Heads(h) :
                       p < g => Total(Marked(h, DroppedThrough(h, p)), att) > budget
<1>1. PICK enough : enough =
          {g \in Heads(h) : Total(Marked(h, DroppedThrough(h, g)), att) <= budget}
  OBVIOUS
<1>2. /\ h \in Seq(Messages) /\ Len(h) \in Nat /\ DOMAIN h = 1..Len(h)
      /\ Heads(h) \in SUBSET (1..Len(h)) /\ Droppable(h) \in SUBSET (1..Len(h))
  BY DEF Stored, Heads, Droppable
<1>3. \A p \in Heads(h) : p \notin enough => Total(Marked(h, DroppedThrough(h, p)), att) > budget
  <2> SUFFICES ASSUME NEW p \in Heads(h), p \notin enough
               PROVE  Total(Marked(h, DroppedThrough(h, p)), att) > budget
    OBVIOUS
  <2>1. DroppedThrough(h, p) \in SUBSET Droppable(h)
    BY DEF DroppedThrough
  <2>2. Total(Marked(h, DroppedThrough(h, p)), att) \in Nat
    BY <1>2, <2>1, MarkedCosts
  <2>3. ~(Total(Marked(h, DroppedThrough(h, p)), att) <= budget)
    BY <1>1
  <2> QED BY <2>2, <2>3
<1>4. CASE enough # {}
  <2>1. PICK x \in enough : \A y \in enough : x <= y
    BY <1>1, <1>2, <1>4, LeastOf
  <2>2. PICK g : g = CHOOSE k \in enough : \A y \in enough : k <= y
    OBVIOUS
  <2>3. g \in enough /\ \A y \in enough : g <= y
    BY <2>1, <2>2
  <2>4. DropOldestTurns(h, att, budget) = DroppedThrough(h, g)
    BY <1>1, <1>4, <2>2 DEF DropOldestTurns
  <2>5. \A p \in Heads(h) : p < g => p \notin enough
    BY <1>1, <1>2, <2>3
  <2> QED BY <1>1, <1>3, <2>3, <2>4, <2>5
<1>5. CASE enough = {} /\ Droppable(h) # {}
  <2>1. DropOldestTurns(h, att, budget) = Droppable(h)
    BY <1>1, <1>5 DEF DropOldestTurns
  <2>2. Heads(h) # {}
    BY <1>5, TurnOf
  <2>3. PICK g \in Heads(h) : \A p \in Heads(h) : p <= g
    BY <1>2, <2>2, GreatestOf
  <2>4. ASSUME NEW i \in Droppable(h) PROVE i \in DroppedThrough(h, g)
    <3>1. i \in 1..Len(h) /\ g \in 1..Len(h)
      BY <1>2, <2>3
    <3>2. CASE i \in Heads(h)
      BY <2>3, <3>2 DEF DroppedThrough
    <3>3. CASE i - 1 \in Heads(h) /\ TakesItsAnswer(h, i - 1)
      <4>1. i - 1 <= g
        BY <2>3, <3>3
      <4>2. CASE i - 1 = g
        <5>1. i = g + 1
          BY <3>1, <4>2
        <5> QED BY <3>3, <4>2, <5>1 DEF DroppedThrough
      <4>3. CASE i - 1 # g
        <5>1. i <= g
          BY <3>1, <4>1, <4>3
        <5> QED BY <5>1 DEF DroppedThrough
      <4> QED BY <4>2, <4>3
    <3> QED BY <3>2, <3>3, TurnOf
  <2>5. DroppedThrough(h, g) \subseteq Droppable(h)
    BY DEF DroppedThrough
  <2>6. DropOldestTurns(h, att, budget) = DroppedThrough(h, g)
    BY <2>1, <2>4, <2>5
  <2> QED BY <1>3, <1>5, <2>3, <2>6
<1>6. CASE Droppable(h) = {}
  BY <1>6 DEF DropOldestTurns, DroppedThrough
<1> QED BY <1>4, <1>5, <1>6


-----------------------------------------------------------------------------
(* Dropping turns oldest first.                                              *)

Newest(gone) == {i \in gone : \A j \in gone : j <= i}
NewestTurn(h, gone) ==
    Newest(gone) \cup {i - 1 : i \in {j \in Newest(gone) : h[j].role = "assistant"}}

(* An answer is kept only with its question.                                 *)
LEMMA AnswersGo ==
    ASSUME NEW h, Stored(h), Users(h) # {}, NEW g \in Heads(h),
           NEW gone, gone = DroppedThrough(h, g)
    PROVE  \A i \in DOMAIN h \ gone :
               h[i].role = "assistant" => ~(i - 1 \in gone /\ h[i - 1].role = "user")
<1> SUFFICES ASSUME NEW i \in DOMAIN h, i \notin gone, h[i].role = "assistant",
                    i - 1 \in gone, h[i - 1].role = "user"
             PROVE  FALSE
  OBVIOUS
<1>1. /\ DOMAIN h = 1..Len(h) /\ Len(h) \in Nat /\ g \in 1..Len(h)
      /\ gone \subseteq Droppable(h)
  BY DEF Stored, Heads, Droppable, DroppedThrough
<1>2. i \in Droppable(h)
  <2>1. i \notin Users(h)
    BY DEF Users
  <2>2. i \notin LastQuestion(h)
    BY <2>1 DEF LastQuestion
  <2> QED BY <2>2, DroppableIs
<1>3. (i - 1) + 1 = i
  BY <1>1
<1>4. TakesItsAnswer(h, i - 1)
  BY <1>1, <1>2, <1>3 DEF TakesItsAnswer
<1>5. i - 1 <= g \/ (i - 1 = g + 1 /\ TakesItsAnswer(h, g))
  BY DEF DroppedThrough
<1>6. ~(i <= g) /\ ~(i = g + 1 /\ TakesItsAnswer(h, g))
  BY <1>2 DEF DroppedThrough
<1>7. CASE i - 1 = g + 1 /\ TakesItsAnswer(h, g)
  <2>1. h[g + 1].role = "assistant"
    BY <1>7 DEF TakesItsAnswer
  <2> QED BY <1>7, <2>1
<1>8. CASE i - 1 <= g
  <2>1. i - 1 = g /\ i = g + 1
    BY <1>1, <1>6, <1>8
  <2> QED BY <1>4, <1>6, <2>1
<1> QED BY <1>5, <1>7, <1>8

(* What is kept is younger than what is dropped.                             *)
LEMMA OldestGo ==
    ASSUME NEW h, Stored(h), Users(h) # {}, NEW g \in Heads(h),
           NEW gone, gone = DroppedThrough(h, g)
    PROVE  \A i \in gone, j \in DOMAIN h \ gone : j < i =>
               h[j].role = "system" \/ j \in LastQuestion(h)
<1> SUFFICES ASSUME NEW i \in gone, NEW j \in DOMAIN h \ gone, j < i,
                    ~(h[j].role = "system" \/ j \in LastQuestion(h))
             PROVE  FALSE
  OBVIOUS
<1>1. /\ DOMAIN h = 1..Len(h) /\ Len(h) \in Nat /\ g \in 1..Len(h)
      /\ gone \subseteq Droppable(h) /\ i \in 1..Len(h) /\ j \in 1..Len(h)
  BY DEF Stored, Heads, Droppable, DroppedThrough
<1>2. j \in Droppable(h)
  BY DroppableIs
<1>3. ~(j <= g)
  BY <1>2 DEF DroppedThrough
<1>4. i <= g \/ i = g + 1
  BY DEF DroppedThrough
<1> QED BY <1>1, <1>3, <1>4

(* The newest turn dropped is the turn of the head that was enough.          *)
LEMMA NewestIs ==
    ASSUME NEW h, Stored(h), Users(h) # {}, NEW g \in Heads(h),
           NEW gone, gone = DroppedThrough(h, g)
    PROVE  gone \ NewestTurn(h, gone) = {i \in Droppable(h) : i < g}
<1>1. /\ DOMAIN h = 1..Len(h) /\ Len(h) \in Nat /\ g \in 1..Len(h) /\ g \in Droppable(h)
      /\ Droppable(h) \subseteq 1..Len(h)
  BY DEF Stored, Heads, Droppable
<1>2. gone = {i \in Droppable(h) : i <= g \/ (i = g + 1 /\ TakesItsAnswer(h, g))}
  BY DEF DroppedThrough
<1>3. CASE TakesItsAnswer(h, g)
  <2>1. g + 1 \in Droppable(h) /\ h[g + 1].role = "assistant"
    BY <1>3 DEF TakesItsAnswer
  <2>2. gone = {i \in Droppable(h) : i <= g + 1}
    BY <1>1, <1>2, <1>3
  <2>3. Newest(gone) = {g + 1}
    BY <1>1, <2>1, <2>2 DEF Newest
  <2>4. NewestTurn(h, gone) = {g + 1, (g + 1) - 1}
    BY <2>1, <2>3 DEF NewestTurn
  <2>5. (g + 1) - 1 = g
    BY <1>1
  <2>6. NewestTurn(h, gone) = {g + 1, g}
    BY <2>4, <2>5
  <2> QED BY <1>1, <2>2, <2>6
<1>4. CASE ~TakesItsAnswer(h, g)
  <2>1. gone = {i \in Droppable(h) : i <= g}
    BY <1>2, <1>4
  <2>2. Newest(gone) = {g}
    BY <1>1, <2>1 DEF Newest
  <2>3. CASE h[g].role = "assistant"
    <3>1. NewestTurn(h, gone) = {g, g - 1}
      BY <2>2, <2>3 DEF NewestTurn
    <3>2. g - 1 \notin Droppable(h)
      <4>1. h[g - 1].role = "user" /\ (g - 1) + 1 = g
        BY <1>1, <2>3 DEF Stored
      <4>2. ~TakesItsAnswer(h, g - 1)
        BY DEF Heads
      <4> QED BY <1>1, <2>3, <4>1, <4>2 DEF TakesItsAnswer
    <3> QED BY <1>1, <2>1, <3>1, <3>2
  <2>4. CASE h[g].role # "assistant"
    <3>1. NewestTurn(h, gone) = {g}
      BY <2>2, <2>4 DEF NewestTurn
    <3> QED BY <1>1, <2>1, <3>1
  <2> QED BY <2>3, <2>4
<1> QED BY <1>3, <1>4

(* Turns go whole and oldest first, and no more of them than it takes.       *)
LEMMA TurnsDropped ==
    ASSUME NEW h, Stored(h), Users(h) # {}, NEW att \in Seq(Attachments), Covers(att, h),
           NEW budget \in Int, Total(h, att) > budget,
           NEW gone, gone = DropOldestTurns(h, att, budget)
    PROVE  /\ \A i \in DOMAIN h \ gone :
                  h[i].role = "assistant" => ~(i - 1 \in gone /\ h[i - 1].role = "user")
           /\ \A i \in gone : h[i].role # "system" /\ i \notin LastQuestion(h)
           /\ \A i \in gone, j \in DOMAIN h \ gone : j < i =>
                  h[j].role = "system" \/ j \in LastQuestion(h)
           /\ gone # {} => Total(Marked(h, gone \ NewestTurn(h, gone)), att) > budget
<1>1. gone \subseteq Droppable(h)
  BY DEF DropOldestTurns, DroppedThrough
<1>2. \A i \in gone : h[i].role # "system" /\ i \notin LastQuestion(h)
  BY <1>1, DroppableIs
<1>3. CASE gone = {}
  BY <1>3
<1>4. CASE gone # {}
  <2>1. PICK g \in Heads(h) :
            /\ gone = DroppedThrough(h, g)
            /\ \A p \in Heads(h) : p < g => Total(Marked(h, DroppedThrough(h, p)), att) > budget
    BY <1>4, DropsThrough
  <2>2. PICK B : B = {i \in Droppable(h) : i < g}
    OBVIOUS
  <2>3. gone \ NewestTurn(h, gone) = B
    BY <2>1, <2>2, NewestIs
  <2>4. Total(Marked(h, B), att) > budget
    <3>1. CASE B = {}
      <4>1. h \in Seq(Messages)
        BY DEF Stored
      <4>2. Marked(h, B) = h
        BY <3>1, <4>1, RestOfAll
      <4> QED BY <4>2
    <3>2. CASE B # {}
      <4>1. PICK p \in Heads(h) : p < g /\ DroppedThrough(h, p) = B
        BY <2>2, <3>2, TurnBefore
      <4> QED BY <2>1, <4>1
    <3> QED BY <3>1, <3>2
  <2>5. Total(Marked(h, gone \ NewestTurn(h, gone)), att) > budget
    BY <2>3, <2>4
  <2>6. \A i \in DOMAIN h \ gone :
            h[i].role = "assistant" => ~(i - 1 \in gone /\ h[i - 1].role = "user")
    BY <2>1, AnswersGo
  <2>7. \A i \in gone, j \in DOMAIN h \ gone : j < i =>
            h[j].role = "system" \/ j \in LastQuestion(h)
    BY <2>1, OldestGo
  <2> QED BY <1>2, <2>5, <2>6, <2>7
<1> QED BY <1>3, <1>4

(* What is missing from the prompt is what was dropped.                      *)
LEMMA MissingIs ==
    ASSUME NEW h, Stored(h), NEW g, NEW at, NEW gone \in SUBSET DOMAIN h, Left(g, h, at, gone)
    PROVE  Missing(h, g) = gone
<1>1. /\ h \in Seq(Messages) /\ DOMAIN h = 1..Len(h) /\ \A i \in 1..Len(h) : h[i].seq = i - 1
      /\ DOMAIN g = 1..Len(at)
  BY DEF Stored, Left
<1>2. /\ \A k \in 1..Len(at) : at[k] \in 1..Len(h) /\ at[k] \notin gone /\ g[k].seq = at[k] - 1
      /\ \A i \in 1..Len(h) : i \notin gone => \E k \in 1..Len(at) : at[k] = i
  BY <1>1 DEF Left, InPlace
<1>3. ASSUME NEW i \in Missing(h, g) PROVE i \in gone
  BY <1>1, <1>2 DEF Missing
<1>4. ASSUME NEW i \in gone PROVE i \in Missing(h, g)
  <2>1. i \in 1..Len(h) /\ h[i].seq = i - 1
    BY <1>1
  <2>2. \A k \in 1..Len(at) : at[k] \in Int /\ at[k] # i /\ g[k].seq = at[k] - 1
    BY <1>2
  <2>3. \A k \in 1..Len(at) : g[k].seq # h[i].seq
    BY <2>1, <2>2
  <2> QED BY <1>1, <2>1, <2>3 DEF Missing
<1> QED BY <1>3, <1>4


-----------------------------------------------------------------------------
(* Cutting documents.                                                        *)

(* The same files, read the same way, none of them longer.                   *)
NoLonger(low, att) ==
    /\ Len(low) = Len(att)
    /\ \A k \in 1..Len(att) :
          /\ low[k].file = att[k].file /\ low[k].mode = att[k].mode
          /\ low[k].tokens = att[k].tokens
          /\ att[k].mode = "injected" => low[k].chars <= att[k].chars

LEMMA SameFile ==
    ASSUME NEW low \in Seq(Attachments), NEW att \in Seq(Attachments), NoLonger(low, att),
           Distinct(att), NEW j \in DOMAIN att, NEW f, f = att[j].file
    PROVE  ByHash(att, f) = att[j] /\ ByHash(low, f) = low[j]
<1>1. DOMAIN att = 1..Len(att) /\ DOMAIN low = 1..Len(att)
  BY DEF NoLonger
<1>2. \A k \in 1..Len(att) : att[k].file = f => k = j
  BY <1>1 DEF Distinct
<1>3. \A k \in 1..Len(att) : low[k].file = f => k = j
  BY <1>2 DEF NoLonger
<1>4. (CHOOSE k \in DOMAIN att : att[k].file = f) = j
  BY <1>1, <1>2
<1>5. low[j].file = f /\ j \in DOMAIN low
  BY <1>1 DEF NoLonger
<1>6. (CHOOSE k \in DOMAIN low : low[k].file = f) = j
  BY <1>1, <1>3, <1>5
<1> QED BY <1>4, <1>6 DEF ByHash

LEMMA CostMonotone ==
    ASSUME NEW m \in Messages, NEW low \in Seq(Attachments), NEW att \in Seq(Attachments),
           NoLonger(low, att), Distinct(att), CoversOne(att, m)
    PROVE  CoversOne(low, m) /\ Cost(m, low) <= Cost(m, att)
<1>1. /\ DOMAIN att = 1..Len(att) /\ DOMAIN low = 1..Len(att)
      /\ \A k \in 1..Len(att) : att[k] \in Attachments /\ low[k] \in Attachments
  BY DEF NoLonger
<1>2. CoversOne(low, m)
  BY <1>1 DEF CoversOne, NoLonger
<1>3. m.files \in Seq(Files) /\ DOMAIN m.files = 1..Len(m.files) /\ Len(m.files) \in Nat
  BY DEF Messages
<1>4. \A k \in 1..Len(m.files) : \E j \in 1..Len(att) :
          ByHash(att, m.files[k]) = att[j] /\ ByHash(low, m.files[k]) = low[j]
  <2> SUFFICES ASSUME NEW k \in 1..Len(m.files)
               PROVE  \E j \in 1..Len(att) :
                          ByHash(att, m.files[k]) = att[j] /\ ByHash(low, m.files[k]) = low[j]
    OBVIOUS
  <2>1. PICK j \in DOMAIN att : att[j].file = m.files[k]
    BY <1>3 DEF CoversOne
  <2>2. PICK f : f = att[j].file
    OBVIOUS
  <2>3. ByHash(att, f) = att[j] /\ ByHash(low, f) = low[j]
    BY <2>1, <2>2, SameFile
  <2> QED BY <1>1, <2>1, <2>2, <2>3
<1>5. PICK a, b : a = Shown(m, att) /\ b = Shown(m, low)
  OBVIOUS
<1>6. a \in Seq(Nat) /\ b \in Seq(Nat) /\ Len(a) = Len(m.files) /\ Len(b) = Len(m.files)
  BY <1>2, <1>5, MaterializeIs
<1>7. \A k \in 1..Len(m.files) : b[k] <= a[k]
  <2> SUFFICES ASSUME NEW k \in 1..Len(m.files) PROVE b[k] <= a[k]
    OBVIOUS
  <2>1. PICK j \in 1..Len(att) :
            ByHash(att, m.files[k]) = att[j] /\ ByHash(low, m.files[k]) = low[j]
    BY <1>4
  <2>2. /\ a[k] = IF att[j].mode = "injected"
                  THEN EnvelopeChars + att[j].chars ELSE PlaceholderChars
        /\ b[k] = IF low[j].mode = "injected"
                  THEN EnvelopeChars + low[j].chars ELSE PlaceholderChars
    BY <1>3, <1>5, <2>1 DEF Shown
  <2>3. low[j].mode = att[j].mode /\ (att[j].mode = "injected" => low[j].chars <= att[j].chars)
    BY DEF NoLonger
  <2>4. att[j].chars \in Nat /\ low[j].chars \in Nat
    BY <1>1 DEF Attachments
  <2> QED BY <2>2, <2>3, <2>4, FittingAssumption
<1>8. SumOf(b) <= SumOf(a)
  <2>1. a \in Seq(Int) /\ b \in Seq(Int)
    BY <1>6
  <2> QED BY <1>6, <1>7, <2>1, SumLeq
<1>9. NativeTokens(Read(m, low)) = NativeTokens(Read(m, att))
  <2>1. DOMAIN Read(m, att) = 1..Len(m.files) /\ DOMAIN Read(m, low) = 1..Len(m.files)
    BY <1>3 DEF Read
  <2>2. \A k \in 1..Len(m.files) :
            /\ Read(m, low)[k].mode = Read(m, att)[k].mode
            /\ Read(m, low)[k].tokens = Read(m, att)[k].tokens
    <3> SUFFICES ASSUME NEW k \in 1..Len(m.files)
                 PROVE  /\ Read(m, low)[k].mode = Read(m, att)[k].mode
                        /\ Read(m, low)[k].tokens = Read(m, att)[k].tokens
      OBVIOUS
    <3>1. PICK j \in 1..Len(att) :
              ByHash(att, m.files[k]) = att[j] /\ ByHash(low, m.files[k]) = low[j]
      BY <1>4
    <3>2. Read(m, att)[k] = att[j] /\ Read(m, low)[k] = low[j]
      BY <1>3, <3>1 DEF Read
    <3> QED BY <3>2 DEF NoLonger
  <2>3. [k \in DOMAIN Read(m, low) |->
            IF Read(m, low)[k].mode = "native" THEN Read(m, low)[k].tokens ELSE 0]
        = [k \in DOMAIN Read(m, att) |->
            IF Read(m, att)[k].mode = "native" THEN Read(m, att)[k].tokens ELSE 0]
    BY <2>1, <2>2
  <2> QED BY <2>3 DEF NativeTokens
<1>10. PICK w, v, sa, sb, ma, mb, n, ca, cb :
           /\ w = SumOf(Written(m)) /\ v = 2 * (Len(Written(m)) + Len(m.files) - 1)
           /\ sa = SumOf(a) /\ sb = SumOf(b)
           /\ ma = Materialize(m, att) /\ mb = Materialize(m, low)
           /\ n = NativeTokens(Read(m, att)) /\ ca = Cost(m, att) /\ cb = Cost(m, low)
  OBVIOUS
<1>11. /\ ma = w + sa + v /\ mb = w + sb + v /\ ma \in Nat /\ mb \in Nat /\ sb <= sa
       /\ w \in Nat /\ sa \in Nat /\ sb \in Nat
       /\ v \in Int
  <2>1. ma = w + sa + v /\ mb = w + sb + v /\ ma \in Nat /\ mb \in Nat
    BY <1>2, <1>5, <1>10, MaterializeIs
  <2>2. w \in Nat /\ Len(Written(m)) \in Nat
    BY <1>10, WrittenIs
  <2>3. sa \in Nat /\ sb \in Nat
    BY <1>6, <1>10, SumNat
  <2> QED BY <1>3, <1>8, <1>10, <2>1, <2>2, <2>3
<1>12. mb <= ma
  BY <1>11
<1>13. mb \div 4 <= ma \div 4 /\ mb \div 4 \in Nat /\ ma \div 4 \in Nat
  BY <1>11, <1>12, Z3
<1>14. ca = ma \div 4 + 4 + n /\ cb = mb \div 4 + 4 + n /\ n \in Nat
  BY <1>2, <1>9, <1>10, CostIs
<1> QED BY <1>2, <1>10, <1>13, <1>14

LEMMA TotalMonotone ==
    ASSUME NEW h \in Seq(Messages), NEW low \in Seq(Attachments), NEW att \in Seq(Attachments),
           NoLonger(low, att), Distinct(att), Covers(att, h)
    PROVE  Covers(low, h) /\ Total(h, low) <= Total(h, att)
<1>1. \A i \in 1..Len(h) : h[i] \in Messages /\ CoversOne(att, h[i])
  BY TotalIs
<1>2. \A i \in 1..Len(h) : CoversOne(low, h[i]) /\ Cost(h[i], low) <= Cost(h[i], att)
  BY <1>1, CostMonotone
<1>3. DOMAIN h = 1..Len(h)
  OBVIOUS
<1>4. Covers(low, h)
  BY <1>2, <1>3 DEF Covers, CoversOne
<1>5. PICK a, b : /\ a = [i \in DOMAIN h |-> Cost(h[i], att)]
                  /\ b = [i \in DOMAIN h |-> Cost(h[i], low)]
  OBVIOUS
<1>6. a \in Seq(Nat) /\ b \in Seq(Nat) /\ Len(a) = Len(h) /\ Len(b) = Len(h)
  BY <1>4, <1>5, TotalIs
<1>7. a \in Seq(Int) /\ b \in Seq(Int) /\ \A i \in 1..Len(b) : b[i] <= a[i]
  BY <1>2, <1>3, <1>5, <1>6
<1>8. SumOf(b) <= SumOf(a)
  BY <1>6, <1>7, SumLeq
<1> QED BY <1>4, <1>5, <1>8 DEF Total


(* Attachments whose documents were cut, never under the floor.              *)
CutFrom(att, old, exhausted) ==
    /\ att \in Seq(Attachments) /\ Len(att) = Len(old)
    /\ \A k \in 1..Len(old) :
          /\ att[k].file = old[k].file /\ att[k].mode = old[k].mode
          /\ att[k].tokens = old[k].tokens
          /\ \/ att[k].chars = old[k].chars
             \/ (MinDocumentChars + NoticeChars <= att[k].chars /\ att[k].chars < old[k].chars)
          /\ k \in exhausted => att[k].chars <= MinDocumentChars + NoticeChars

(* Where the loop over the documents stands.                                 *)
CutSoFar(cut, h, old, budget) ==
    /\ cut = [att |-> cut.att, exhausted |-> cut.exhausted, cuts |-> cut.cuts,
              total |-> Total(h, cut.att)]
    /\ CutFrom(cut.att, old, cut.exhausted)
    /\ cut.cuts \in Nat
    /\ cut.cuts > 0 => Total(h, old) > budget

LEMMA EntriesAre ==
    ASSUME NEW att \in Seq(Attachments)
    PROVE  \A k \in 1..Len(att) : /\ att[k] \in Attachments
                                  /\ att[k].chars \in Nat /\ att[k].tokens \in Nat
<1>1. \A k \in 1..Len(att) : att[k] \in Attachments
  OBVIOUS
<1>2. \A x \in Attachments : x.chars \in Nat /\ x.tokens \in Nat
  BY DEF Attachments
<1> QED BY <1>1, <1>2

LEMMA CutIsNoLonger ==
    ASSUME NEW att, NEW old \in Seq(Attachments), NEW exhausted, CutFrom(att, old, exhausted)
    PROVE  /\ att \in Seq(Attachments) /\ NoLonger(att, old)
           /\ Priced(old) => Priced(att)
<1>1. /\ att \in Seq(Attachments) /\ Len(att) = Len(old)
      /\ DOMAIN att = 1..Len(old) /\ DOMAIN old = 1..Len(old)
  BY DEF CutFrom
<1>2. \A k \in 1..Len(old) : att[k].chars \in Nat /\ old[k].chars \in Nat
  BY <1>1, EntriesAre
<1>3. \A k \in 1..Len(old) : att[k].chars <= old[k].chars
  BY <1>2 DEF CutFrom
<1>4. NoLonger(att, old)
  BY <1>1, <1>3 DEF CutFrom, NoLonger
<1>5. Priced(old) => Priced(att)
  BY <1>1 DEF CutFrom, Priced
<1> QED BY <1>1, <1>4, <1>5

(* One of the longest documents that can still be cut is the first of them.  *)
LEMMA LongestIs ==
    ASSUME NEW cut, cut.att \in Seq(Attachments), Truncatable(cut) # {}
    PROVE  Longest(cut) \in Truncatable(cut)
<1>1. PICK att, I : att = cut.att /\ I = Truncatable(cut)
  OBVIOUS
<1>2. /\ att \in Seq(Attachments) /\ DOMAIN att = 1..Len(att) /\ Len(att) \in Nat
      /\ \A k \in 1..Len(att) : att[k].chars \in Nat
      /\ I \subseteq 1..Len(att) /\ \A k \in I : att[k].chars > 200
  <2>1. att \in Seq(Attachments) /\ DOMAIN att = 1..Len(att) /\ Len(att) \in Nat
    BY <1>1
  <2>2. \A k \in 1..Len(att) : att[k].chars \in Nat
    BY <2>1, EntriesAre
  <2> QED BY <1>1, <2>1, <2>2 DEF Truncatable, MinDocumentChars
<1>3. PICK c : c = [k \in 1..Len(att) |-> att[k].chars]
  OBVIOUS
<1>4. c \in Seq(Nat) /\ Len(c) = Len(att)
  BY <1>2, <1>3
<1>5. PICK sum : sum = SumOf(c)
  OBVIOUS
<1>6. sum \in Nat /\ \A k \in 1..Len(att) : att[k].chars <= sum
  <2>1. sum \in Nat
    BY <1>4, <1>5, SumNat
  <2>2. \A k \in 1..Len(c) : c[k] <= SumOf(c)
    BY <1>4, SumAtLeast
  <2> QED BY <1>3, <1>4, <1>5, <2>1, <2>2
<1>7. PICK C : C = {att[k].chars : k \in I}
  OBVIOUS
<1>8. C \in SUBSET (1..sum) /\ C # {}
  <2>1. \A k \in I : att[k].chars \in 1..sum
    BY <1>2, <1>6
  <2> QED BY <1>1, <1>7, <2>1
<1>9. PICK most \in C : \A x \in C : x <= most
  BY <1>6, <1>8, GreatestOf
<1>10. PICK J : J = {k \in I : att[k].chars = most}
  OBVIOUS
<1>11. J \in SUBSET Nat /\ J # {}
  <2>1. PICK k \in I : most = att[k].chars
    BY <1>7, <1>9
  <2>2. k \in J
    BY <1>10, <2>1
  <2>3. I \subseteq Nat /\ J \subseteq I
    BY <1>2, <1>10
  <2> QED BY <2>2, <2>3
<1>12. PICK k \in J : \A j \in J : k <= j
  BY <1>11, LeastOf
<1>13. k \in I /\ \A j \in I : \/ att[j].chars < att[k].chars
                               \/ (att[j].chars = att[k].chars /\ k <= j)
  <2>1. k \in I /\ att[k].chars = most
    BY <1>10, <1>12
  <2>2. ASSUME NEW j \in I
        PROVE  att[j].chars < att[k].chars \/ (att[j].chars = att[k].chars /\ k <= j)
    <3>1. att[j].chars <= most /\ att[j].chars \in Nat /\ most \in Nat
      BY <1>2, <1>7, <1>9, <2>1
    <3>2. att[j].chars = most => k <= j
      BY <1>10, <1>12
    <3> QED BY <2>1, <3>1, <3>2
  <2> QED BY <2>1, <2>2
<1>14. PICK l : l = CHOOSE x \in I : \A j \in I :
                        \/ att[j].chars < att[x].chars
                        \/ (att[j].chars = att[x].chars /\ x <= j)
  OBVIOUS
<1>15. l \in I
  BY <1>13, <1>14
<1>16. Longest(cut) = l
  BY <1>1, <1>14 DEF Longest
<1> QED BY <1>1, <1>15, <1>16

(* One document is refused for good, or it is shorter than it was.           *)
Lowers(new, cut) ==
    \E k \in DOMAIN cut.att :
        /\ k \notin cut.exhausted
        /\ \/ new.att = cut.att /\ new.exhausted = cut.exhausted \cup {k}
           \/ /\ new.att \in Seq(Attachments) /\ Len(new.att) = Len(cut.att)
              /\ new.att[k].chars < cut.att[k].chars
              /\ \A j \in DOMAIN cut.att : j # k => new.att[j] = cut.att[j]
              /\ cut.exhausted \subseteq new.exhausted

(* A turn of the loop.                                                       *)
LEMMA CutOnceIs ==
    ASSUME NEW h \in Seq(Messages), NEW old \in Seq(Attachments), Distinct(old), Covers(old, h),
           NEW budget \in Int, NEW cut, CutSoFar(cut, h, old, budget),
           cut.total > budget, Truncatable(cut) # {}
    PROVE  /\ CutSoFar(CutOnce(h, budget, cut), h, old, budget)
           /\ Lowers(CutOnce(h, budget, cut), cut)
<1>1. PICK k, att, c, keep :
          /\ k = Longest(cut) /\ att = cut.att /\ c = att[k].chars
          /\ keep = Keep(c, cut.total - budget)
  OBVIOUS
<1>2. /\ CutFrom(att, old, cut.exhausted) /\ cut.total = Total(h, att)
      /\ att \in Seq(Attachments) /\ NoLonger(att, old)
      /\ DOMAIN att = 1..Len(att) /\ Len(att) = Len(old)
  <2>1. CutFrom(att, old, cut.exhausted) /\ cut.total = Total(h, att)
    BY <1>1 DEF CutSoFar
  <2>2. att \in Seq(Attachments) /\ NoLonger(att, old)
    BY <2>1, CutIsNoLonger
  <2> QED BY <2>1, <2>2 DEF NoLonger
<1>3. Total(h, att) \in Nat /\ Total(h, att) <= Total(h, old) /\ Total(h, old) \in Nat
  <2>1. Covers(att, h) /\ Total(h, att) <= Total(h, old)
    BY <1>2, TotalMonotone
  <2> QED BY <1>2, <2>1, TotalIs
<1>4. k \in 1..Len(att) /\ k \notin cut.exhausted /\ c \in Nat /\ c > 200
  <2>1. k \in Truncatable(cut)
    BY <1>1, <1>2, LongestIs
  <2>2. k \in DOMAIN att /\ k \notin cut.exhausted /\ c > 200
    BY <1>1, <2>1 DEF Truncatable, MinDocumentChars
  <2>3. \A j \in 1..Len(att) : att[j] \in Attachments
    BY <1>2
  <2> QED BY <1>1, <1>2, <2>2, <2>3 DEF Attachments
<1>5. PICK excess : excess = cut.total - budget
  OBVIOUS
<1>6. excess \in Int /\ excess > 0
  BY <1>2, <1>3, <1>5
<1>7. /\ keep = IF 200 > c - (excess * 4 + 49) THEN 200 ELSE c - (excess * 4 + 49)
      /\ keep \in Nat /\ keep >= 200
  BY <1>1, <1>4, <1>5, <1>6 DEF Keep, Larger, MinDocumentChars, CharsPerToken, NoticeChars
<1>8. CASE keep + NoticeChars >= c
  <2>1. CutOnce(h, budget, cut) = [cut EXCEPT !.exhausted = @ \cup {k}]
    BY <1>1, <1>8 DEF CutOnce, Refused
  <2>2. PICK new : new = CutOnce(h, budget, cut)
    OBVIOUS
  <2>3. new = [att |-> cut.att, exhausted |-> cut.exhausted \cup {k}, cuts |-> cut.cuts,
               total |-> Total(h, cut.att)]
    <3>1. cut = [att |-> cut.att, exhausted |-> cut.exhausted, cuts |-> cut.cuts,
                 total |-> Total(h, cut.att)]
      BY DEF CutSoFar
    <3>2. PICK a, e, n, s :
              a = cut.att /\ e = cut.exhausted /\ n = cut.cuts /\ s = Total(h, cut.att)
      OBVIOUS
    <3>3. cut = [att |-> a, exhausted |-> e, cuts |-> n, total |-> s]
      BY <3>1, <3>2
    <3>4. [cut EXCEPT !.exhausted = @ \cup {k}]
              = [att |-> a, exhausted |-> e \cup {k}, cuts |-> n, total |-> s]
      <4>1. PICK x : x = e \cup {k}
        OBVIOUS
      <4>2. [cut EXCEPT !.exhausted = @ \cup {k}] = [cut EXCEPT !.exhausted = x]
        BY <3>2, <4>1
      <4>3. [cut EXCEPT !.exhausted = x] = [att |-> a, exhausted |-> x, cuts |-> n, total |-> s]
        BY <3>3
      <4> QED BY <4>1, <4>2, <4>3
    <3> QED BY <2>1, <2>2, <3>2, <3>4
  <2>4. c <= 249
    BY <1>4, <1>6, <1>7, <1>8 DEF NoticeChars
  <2>5. CutFrom(att, old, cut.exhausted \cup {k})
    <3>1. ASSUME NEW j \in 1..Len(old), j \in cut.exhausted \cup {k}
          PROVE  att[j].chars <= MinDocumentChars + NoticeChars
      <4>1. CASE j = k
        BY <1>1, <2>4, <4>1 DEF MinDocumentChars, NoticeChars
      <4>2. CASE j # k
        BY <1>2, <3>1, <4>2 DEF CutFrom
      <4> QED BY <4>1, <4>2
    <3> QED BY <1>2, <3>1 DEF CutFrom
  <2>6. CutSoFar(new, h, old, budget)
    BY <1>1, <2>3, <2>5 DEF CutSoFar
  <2>7. Lowers(new, cut)
    <3>1. new.att = cut.att /\ new.exhausted = cut.exhausted \cup {k}
      BY <2>3
    <3>2. k \in DOMAIN cut.att
      BY <1>1, <1>2, <1>4
    <3> QED BY <1>4, <3>1, <3>2 DEF Lowers
  <2> QED BY <2>2, <2>6, <2>7
<1>9. CASE ~(keep + NoticeChars >= c)
  <2>1. PICK low, refused :
            /\ low = [att EXCEPT ![k].chars = keep + NoticeChars]
            /\ refused = cut.exhausted \cup (IF keep = MinDocumentChars THEN {k} ELSE {})
    OBVIOUS
  <2>2. PICK new : new = CutOnce(h, budget, cut)
    OBVIOUS
  <2>3. new = [att |-> low, cuts |-> cut.cuts + 1, total |-> Total(h, low), exhausted |-> refused]
    BY <1>1, <1>9, <2>1, <2>2 DEF CutOnce
  <2>4. PICK entry : entry = [att[k] EXCEPT !.chars = keep + NoticeChars]
    OBVIOUS
  <2>5. att[k] \in Attachments /\ keep + NoticeChars \in Nat /\ NoticeChars = 49
    BY <1>2, <1>4, <1>7 DEF NoticeChars
  <2>6. /\ entry \in Attachments /\ entry.file = att[k].file /\ entry.mode = att[k].mode
        /\ entry.tokens = att[k].tokens /\ entry.chars = keep + NoticeChars
    BY <2>4, <2>5 DEF Attachments
  <2>7. /\ low \in Seq(Attachments) /\ Len(low) = Len(old)
        /\ \A j \in 1..Len(old) : low[j] = IF j = k THEN entry ELSE att[j]
    <3>1. low = [att EXCEPT ![k] = entry]
      BY <2>1, <2>4
    <3>2. low = [j \in 1..Len(att) |-> IF j = k THEN entry ELSE att[j]]
      BY <1>2, <3>1
    <3>3. \A j \in 1..Len(att) : att[j] \in Attachments
      BY <1>2
    <3> QED BY <1>2, <2>6, <3>2, <3>3
  <2>8. CutFrom(low, old, refused)
    <3> SUFFICES ASSUME NEW j \in 1..Len(old)
                 PROVE  /\ low[j].file = old[j].file /\ low[j].mode = old[j].mode
                        /\ low[j].tokens = old[j].tokens
                        /\ \/ low[j].chars = old[j].chars
                           \/ (MinDocumentChars + NoticeChars <= low[j].chars
                                 /\ low[j].chars < old[j].chars)
                        /\ j \in refused => low[j].chars <= MinDocumentChars + NoticeChars
      BY <2>7 DEF CutFrom
    <3>1. CASE j # k
      <4>1. low[j] = att[j] /\ (j \in refused => j \in cut.exhausted)
        BY <2>1, <2>7, <3>1
      <4> QED BY <1>2, <4>1 DEF CutFrom
    <3>2. CASE j = k
      <4>1. low[j] = entry
        BY <2>7, <3>2
      <4>2. old[j].chars \in Nat /\ c <= old[j].chars
        <5>1. old[j].chars \in Nat
          BY EntriesAre
        <5>2. \/ att[j].chars = old[j].chars
              \/ (MinDocumentChars + NoticeChars <= att[j].chars /\ att[j].chars < old[j].chars)
          BY <1>2 DEF CutFrom
        <5>3. c = att[j].chars /\ c \in Nat
          BY <1>1, <1>2, <1>4, <3>2
        <5> QED BY <5>1, <5>2, <5>3
      <4>3. 249 <= entry.chars /\ entry.chars < old[j].chars
        BY <1>4, <1>7, <1>9, <2>5, <2>6, <4>2, SMTT(30)
      <4>4. j \in refused => entry.chars <= 249
        <5>1. j \in refused => keep = 200
          BY <1>4, <2>1, <3>2 DEF MinDocumentChars
        <5> QED BY <1>7, <2>5, <2>6, <5>1
      <4>5. entry.file = old[j].file /\ entry.mode = old[j].mode /\ entry.tokens = old[j].tokens
        BY <1>2, <2>6, <3>2 DEF CutFrom
      <4> QED BY <4>1, <4>3, <4>4, <4>5 DEF MinDocumentChars, NoticeChars
    <3> QED BY <3>1, <3>2
  <2>9. Total(h, old) > budget
    BY <1>2, <1>3
  <2>10. cut.cuts + 1 \in Nat
    BY DEF CutSoFar
  <2>11. CutSoFar(new, h, old, budget)
    BY <2>3, <2>8, <2>9, <2>10 DEF CutSoFar
  <2>12. Lowers(new, cut)
    <3>1. new.att = low /\ new.exhausted = refused /\ cut.exhausted \subseteq refused
      BY <2>1, <2>3
    <3>2. low[k].chars < att[k].chars
      BY <1>1, <1>2, <1>4, <1>7, <1>9, <2>5, <2>6, <2>7
    <3>3. \A j \in DOMAIN att : j # k => low[j] = att[j]
      BY <1>2, <2>7
    <3>4. k \in DOMAIN cut.att /\ Len(low) = Len(cut.att) /\ low \in Seq(Attachments)
      BY <1>1, <1>2, <1>4, <2>7
    <3> QED BY <1>1, <1>4, <3>1, <3>2, <3>3, <3>4 DEF Lowers
  <2> QED BY <2>2, <2>11, <2>12
<1> QED BY <1>8, <1>9


-----------------------------------------------------------------------------
(* The prompt under way: what was fitted is the stored history shortened for *)
(* this candidate's window, with its documents cut as far as the loop came.  *)

FittedTo(f, h, old, budget) ==
    /\ budget > 0
    /\ f = [messages |-> Shortened(h, old, budget), cut |-> f.cut]
    /\ CutSoFar(f.cut, f.messages, old, budget)

RenderTypes ==
    /\ phase \in {"idle", "asked", "render", "fit", "sent", "overflow"}
    /\ refit \in BOOLEAN /\ limit \in Nat \cup {None} /\ sent.estimated \in Nat
    /\ phase \in {"render", "fit", "sent", "overflow"} => spec \in Models

ThreadInv == Stored(hist) /\ (phase # "idle" => Users(hist) # {})

FitInv ==
    phase \in {"fit", "sent"} \/ fitted # NothingFitted =>
        /\ phase \in {"fit", "sent", "overflow"}
        /\ FittedTo(fitted, hist, Resolve(hist, spec), Budget)
        /\ phase = "overflow" => fitted.cut.total > Budget /\ Truncatable(fitted.cut) = {}

SentInv ==
    phase = "sent" =>
        /\ fitted.cut.total <= Budget
        /\ sent.payload = BuildPayload(spec.provider, fitted.messages, fitted.cut.att)

RenderInv == RenderTypes /\ ThreadInv /\ FitInv /\ SentInv

LEMMA BudgetIs ==
    ASSUME NEW s \in Models
    PROVE  /\ InputBudget(s, s.maxTokens) \in Int /\ s.window \in Nat
           /\ s.provider \in {"gemini", "groq", "openrouter"}
<1>1. s.window \in Nat /\ s.maxOut \in Nat /\ s.maxTokens \in Nat \cup {None}
      /\ s.provider \in {"gemini", "groq", "openrouter"}
  BY DEF Models
<1>2. PICK w : w = s.window
  OBVIOUS
<1>3. (w * 5) \div 100 \in Int
  BY <1>1, <1>2, Z3
<1>4. (IF s.maxTokens = None THEN s.maxOut ELSE Smaller(s.maxTokens, s.maxOut)) \in Int
  BY <1>1 DEF Smaller, None
<1> QED BY <1>1, <1>2, <1>3, <1>4 DEF InputBudget, SafetyPct

LEMMA StillDistinct ==
    ASSUME NEW s, NEW t, Distinct(t), DOMAIN s = DOMAIN t,
           \A j \in DOMAIN t : s[j].file = t[j].file
    PROVE  Distinct(s)
BY DEF Distinct

(* What a fitted prompt is made of.                                          *)
LEMMA FittedIs ==
    ASSUME NEW h, Stored(h), NEW s, NEW budget \in Int, NEW old, old = Resolve(h, s),
           NEW f, FittedTo(f, h, old, budget)
    PROVE  /\ old \in Seq(Attachments) /\ Covers(old, h) /\ Distinct(old) /\ Priced(old)
           /\ f.messages \in Seq(Messages) /\ Covers(old, f.messages)
           /\ f.cut.att \in Seq(Attachments) /\ Covers(f.cut.att, f.messages)
           /\ Priced(f.cut.att) /\ NoLonger(f.cut.att, old)
           /\ f.cut.total = Total(f.messages, f.cut.att)
           /\ Total(f.messages, f.cut.att) \in Nat /\ Total(f.messages, old) \in Nat
           /\ Total(f.messages, f.cut.att) <= Total(f.messages, old)
<1>1. h \in Seq(Messages)
  BY DEF Stored
<1>2. old \in Seq(Attachments) /\ Covers(old, h) /\ Distinct(old) /\ Priced(old)
  BY <1>1, ResolveIs
<1>3. PICK gone, at, g : g = Shortened(h, old, budget) /\ Left(g, h, at, gone)
  BY <1>1, ShortenedIs
<1>4. f.messages = g
  BY <1>3 DEF FittedTo
<1>5. g \in Seq(Messages) /\ Covers(old, g)
  BY <1>1, <1>2, <1>3, LeftCovers
<1>6. PICK att, x : att = f.cut.att /\ x = f.cut.exhausted
  OBVIOUS
<1>7. CutFrom(att, old, x) /\ f.cut.total = Total(g, att)
  BY <1>4, <1>6 DEF FittedTo, CutSoFar
<1>8. att \in Seq(Attachments) /\ NoLonger(att, old) /\ Priced(att)
  BY <1>2, <1>7, CutIsNoLonger
<1>9. Covers(att, g) /\ Total(g, att) <= Total(g, old)
  BY <1>2, <1>5, <1>8, TotalMonotone
<1>10. Total(g, att) \in Nat /\ Total(g, old) \in Nat
  BY <1>2, <1>5, <1>8, <1>9, TotalIs
<1> QED BY <1>2, <1>4, <1>5, <1>6, <1>7, <1>8, <1>9, <1>10

-----------------------------------------------------------------------------
(* The thread grows a message at a time, and stays a stored history.         *)
LEMMA StoredGrows ==
    ASSUME NEW h, Stored(h), NEW m \in Messages, m.seq = Len(h), m.omitted = 0,
           m.role = "system" => Len(h) = 0,
           m.role = "assistant" => Len(h) > 0 /\ h[Len(h)].role = "user"
    PROVE  /\ Stored(Append(h, m))
           /\ Users(h) \subseteq Users(Append(h, m))
           /\ m.role = "user" => Users(Append(h, m)) # {}
<1>1. PICK g : g = Append(h, m)
  OBVIOUS
<1>2. /\ h \in Seq(Messages) /\ Len(h) \in Nat /\ DOMAIN h = 1..Len(h)
      /\ g \in Seq(Messages) /\ DOMAIN g = 1..(Len(h) + 1)
      /\ g[Len(h) + 1] = m /\ \A i \in 1..Len(h) : g[i] = h[i]
  <2>1. h \in Seq(Messages)
    BY DEF Stored
  <2> QED BY <1>1, <2>1
<1>3. ASSUME NEW i \in DOMAIN g
      PROVE  /\ g[i].seq = i - 1 /\ g[i].omitted = 0
             /\ g[i].role = "system" => i = 1
             /\ g[i].role = "assistant" => i > 1 /\ g[i - 1].role = "user"
  <2>1. CASE i \in 1..Len(h)
    <3>1. g[i] = h[i] /\ i \in DOMAIN h
      BY <1>2, <2>1
    <3>2. /\ h[i].seq = i - 1 /\ h[i].omitted = 0
          /\ h[i].role = "system" => i = 1
          /\ h[i].role = "assistant" => i > 1 /\ h[i - 1].role = "user"
      BY <3>1 DEF Stored
    <3>3. i > 1 => g[i - 1] = h[i - 1]
      BY <1>2, <2>1
    <3> QED BY <3>1, <3>2, <3>3
  <2>2. CASE i = Len(h) + 1
    <3>1. g[i] = m /\ i - 1 = Len(h)
      BY <1>2, <2>2
    <3>2. Len(h) > 0 => g[Len(h)] = h[Len(h)]
      BY <1>2
    <3> QED BY <1>2, <2>2, <3>1, <3>2
  <2> QED BY <1>2, <2>1, <2>2
<1>4. Stored(g)
  BY <1>2, <1>3 DEF Stored
<1>5. Users(h) \subseteq Users(g)
  BY <1>2 DEF Users
<1>6. m.role = "user" => Len(h) + 1 \in Users(g)
  BY <1>2 DEF Users
<1> QED BY <1>1, <1>4, <1>5, <1>6

LEMMA StoredEmpty == Stored(<<>>)
  BY DEF Stored

(* In a thread with a question, what is not an answer at its end asks.       *)
LEMMA LastAsks ==
    ASSUME NEW h, Stored(h), Users(h) # {}
    PROVE  Len(h) > 0 /\ (h[Len(h)].role # "assistant" => h[Len(h)].role = "user")
<1>1. PICK u \in Users(h) : TRUE
  OBVIOUS
<1>2. h \in Seq(Messages) /\ Len(h) \in Nat /\ DOMAIN h = 1..Len(h) /\ u \in 1..Len(h)
      /\ h[u].role = "user"
  BY <1>1 DEF Stored, Users
<1>3. Len(h) > 0 /\ Len(h) \in 1..Len(h)
  BY <1>2
<1>4. h[Len(h)] \in Messages
  BY <1>2, <1>3
<1>5. h[Len(h)].role \in Roles
  BY <1>4 DEF Messages
<1>6. h[Len(h)].role # "system"
  <2>1. h[Len(h)].role = "system" => Len(h) = 1
    BY <1>2, <1>3 DEF Stored
  <2>2. Len(h) = 1 => u = 1
    BY <1>2
  <2> QED BY <1>2, <2>1, <2>2
<1> QED BY <1>3, <1>5, <1>6 DEF Roles

LEMMA MessageIs ==
    ASSUME NEW n \in Nat, NEW files \in Seq(Files), Stored(hist), NEW r \in Roles
    PROVE  /\ Message(r, n, files) \in Messages
           /\ Message(r, n, files).seq = Len(hist) /\ Message(r, n, files).omitted = 0
           /\ Message(r, n, files).role = r
<1>1. Len(hist) \in Int
  BY DEF Stored
<1> QED BY <1>1 DEF Message, Messages


-----------------------------------------------------------------------------
(* RenderInv is inductive.                                                   *)
LEMMA RenderBegins == RenderInit => RenderInv
<1> SUFFICES ASSUME RenderInit PROVE RenderInv
  OBVIOUS
<1>1. /\ hist = <<>> /\ phase = "idle" /\ spec = NoSpec /\ limit = None /\ refit = FALSE
      /\ fitted = NothingFitted /\ sent = NothingSent
  BY DEF RenderInit
<1>2. RenderTypes
  BY <1>1 DEF RenderTypes, NothingSent
<1>3. ThreadInv
  BY <1>1, StoredEmpty DEF ThreadInv
<1>4. FitInv /\ SentInv
  BY <1>1 DEF FitInv, SentInv
<1> QED BY <1>2, <1>3, <1>4 DEF RenderInv

(* Where nothing is fitted and nothing sent, the rest says nothing.          *)
LEMMA NothingKept ==
    ASSUME phase' \notin {"fit", "sent"}, fitted' = NothingFitted
    PROVE  FitInv' /\ SentInv'
BY DEF FitInv, SentInv

LEMMA ResetKeepsIt ==
    ASSUME RenderInv, Reset
    PROVE  RenderTypes' /\ FitInv' /\ SentInv' /\ phase' = "idle"
<1>1. /\ phase' = "idle" /\ limit' = None /\ refit' = FALSE
      /\ fitted' = NothingFitted /\ sent' = NothingSent
  BY DEF Reset, Clear
<1>2. RenderTypes'
  BY <1>1 DEF RenderTypes, NothingSent
<1> QED BY <1>1, <1>2, NothingKept

LEMMA QuestionsKeepIt ==
    ASSUME RenderInv, NEW u \in Uploads, Ask(u) \/ AskPrompted(u)
    PROVE  RenderInv'
<1>1. u \in Seq(Files) /\ <<>> \in Seq(Files) /\ QuestionChars \in Nat /\ SystemChars \in Nat
  BY RenderAssumption DEF Files, QuestionChars, SystemChars
<1>2. phase = "idle" /\ fitted = NothingFitted
  <2>1. phase = "idle"
    BY DEF Ask, AskPrompted, AsksWith
  <2> QED BY <2>1 DEF RenderInv, FitInv
<1>3. phase' = "asked" /\ UNCHANGED <<spec, limit, refit, fitted, sent>>
  BY DEF Ask, AskPrompted, AsksWith
<1>4. RenderTypes'
  BY <1>3 DEF RenderInv, RenderTypes
<1>5. Stored(hist) /\ hist \in Seq(Messages)
  BY DEF RenderInv, ThreadInv, Stored
<1>6. PICK m : m = Message("user", QuestionChars, u)
  OBVIOUS
<1>7. m \in Messages /\ m.seq = Len(hist) /\ m.omitted = 0 /\ m.role = "user"
  BY <1>1, <1>5, <1>6, MessageIs DEF Roles
<1>8. FitInv' /\ SentInv'
  BY <1>2, <1>3, NothingKept
<1>9. CASE Ask(u)
  <2>1. Stored(Append(hist, m)) /\ Users(Append(hist, m)) # {}
    BY <1>5, <1>7, StoredGrows
  <2>2. hist' = hist \o <<m>>
    BY <1>6, <1>9 DEF Ask, AsksWith
  <2>3. hist \o <<m>> = Append(hist, m)
    BY <1>5, <1>7
  <2>4. Stored(hist') /\ Users(hist') # {}
    BY <2>1, <2>2, <2>3
  <2> QED BY <1>4, <1>8, <2>4 DEF ThreadInv, RenderInv
<1>10. CASE AskPrompted(u)
  <2>1. PICK p : p = Message("system", SystemChars, <<>>)
    OBVIOUS
  <2>2. PICK q : q = [m EXCEPT !.seq = 1]
    OBVIOUS
  <2>3. hist = <<>> /\ hist' = hist \o <<p, q>>
    BY <1>6, <1>10, <2>1, <2>2 DEF AskPrompted, AsksWith
  <2>4. p \in Messages /\ p.seq = 0 /\ p.omitted = 0 /\ p.role = "system"
    <3>1. p \in Messages /\ p.seq = Len(hist) /\ p.omitted = 0 /\ p.role = "system"
      BY <1>1, <1>5, <2>1, MessageIs DEF Roles
    <3> QED BY <2>3, <3>1
  <2>5. q \in Messages /\ q.seq = 1 /\ q.omitted = 0 /\ q.role = "user"
    BY <1>7, <2>2 DEF Messages
  <2>6. PICK one : one = Append(<<>>, p)
    OBVIOUS
  <2>7. one = <<p>> /\ Len(one) = 1
    BY <2>6
  <2>8. Stored(one)
    BY <2>4, <2>6, StoredEmpty, StoredGrows
  <2>9. Stored(Append(one, q)) /\ Users(Append(one, q)) # {}
    BY <2>5, <2>7, <2>8, StoredGrows
  <2>10. hist' = Append(one, q)
    BY <2>3, <2>7
  <2>11. Stored(hist') /\ Users(hist') # {}
    BY <2>9, <2>10
  <2> QED BY <1>4, <1>8, <2>11 DEF ThreadInv, RenderInv
<1> QED BY <1>9, <1>10

LEMMA AnswersKeepIt ==
    ASSUME RenderInv, NEW n \in Lengths, OtherTurnAnswers(n) \/ Answered(n)
    PROVE  RenderInv'
<1>1. n \in Nat /\ <<>> \in Seq(Files)
  BY RenderAssumption
<1>2. Stored(hist) /\ Users(hist) # {}
  BY DEF RenderInv, ThreadInv, OtherTurnAnswers, Answered
<1>3. PICK m : m = Message("assistant", n, <<>>)
  OBVIOUS
<1>4. m \in Messages /\ m.seq = Len(hist) /\ m.omitted = 0 /\ m.role = "assistant"
  BY <1>1, <1>2, <1>3, MessageIs DEF Roles
<1>5. hist' = Append(hist, m) /\ hist[Len(hist)].role # "assistant"
  BY <1>3 DEF OtherTurnAnswers, Answered
<1>6. Len(hist) > 0 /\ hist[Len(hist)].role = "user"
  BY <1>2, <1>5, LastAsks
<1>7. Stored(hist') /\ Users(hist') # {}
  <2>1. Stored(Append(hist, m)) /\ Users(hist) \subseteq Users(Append(hist, m))
    BY <1>2, <1>4, <1>6, StoredGrows
  <2> QED BY <1>2, <1>5, <2>1
<1>8. ThreadInv'
  BY <1>7 DEF ThreadInv
<1>9. CASE OtherTurnAnswers(n)
  <2>1. phase = "asked" /\ UNCHANGED <<phase, spec, limit, refit, fitted, sent>>
    BY <1>9 DEF OtherTurnAnswers
  <2>2. RenderTypes'
    BY <2>1 DEF RenderInv, RenderTypes
  <2>3. fitted = NothingFitted
    BY <2>1 DEF RenderInv, FitInv
  <2>4. FitInv' /\ SentInv'
    BY <2>1, <2>3, NothingKept
  <2> QED BY <1>8, <2>2, <2>4 DEF RenderInv
<1>10. CASE Answered(n)
  <2>1. Reset
    BY <1>10 DEF Answered
  <2> QED BY <1>8, <2>1, ResetKeepsIt DEF RenderInv
<1> QED BY <1>9, <1>10

(* A candidate is tried, refused or tried again from the stored history.     *)
LEMMA CandidatesKeepIt ==
    ASSUME RenderInv,
           \/ \E s \in Specs : Try(s)
           \/ \E n \in Limits \cup {None} : Rejected(n)
           \/ Refit \/ NoRoom
    PROVE  RenderInv'
<1>1. hist' = hist /\ phase # "idle" /\ phase' \in {"render", "overflow"}
  BY DEF Try, Rejected, Refit, NoRoom
<1>2. ThreadInv'
  BY <1>1 DEF RenderInv, ThreadInv
<1>3. ASSUME NEW s \in Specs, Try(s) PROVE RenderTypes' /\ fitted' = NothingFitted
  <2>1. s \in Models
    BY RenderAssumption
  <2>2. /\ phase' = "render" /\ spec' = s /\ limit' = None /\ refit' = FALSE
        /\ fitted' = NothingFitted /\ sent' = NothingSent
    BY <1>3 DEF Try, Clear
  <2> QED BY <2>1, <2>2 DEF RenderTypes, NothingSent
<1>4. ASSUME NEW n \in Limits \cup {None}, Rejected(n)
      PROVE  RenderTypes' /\ fitted' = NothingFitted
  <2>1. n \in Nat \cup {None}
    BY RenderAssumption
  <2>2. /\ phase = "sent" /\ phase' = "overflow" /\ limit' = n
        /\ fitted' = NothingFitted /\ sent' = NothingSent /\ UNCHANGED <<spec, refit>>
    BY <1>4 DEF Rejected, Clear
  <2> QED BY <2>1, <2>2 DEF RenderInv, RenderTypes, NothingSent
<1>5. CASE Refit
  <2>1. /\ phase = "overflow" /\ limit # None /\ phase' = "render" /\ limit' = None
        /\ refit' = TRUE /\ spec' = [spec EXCEPT !.window = limit]
        /\ fitted' = NothingFitted /\ sent' = NothingSent
    BY <1>5 DEF Refit, Clear
  <2>2. limit \in Nat /\ spec \in Models
    BY <2>1 DEF RenderInv, RenderTypes
  <2>3. spec' \in Models
    BY <2>1, <2>2 DEF Models
  <2>4. RenderTypes' /\ fitted' = NothingFitted
    BY <2>1, <2>3 DEF RenderTypes, NothingSent
  <2> QED BY <1>1, <1>2, <2>1, <2>4, NothingKept DEF RenderInv
<1>6. CASE NoRoom
  <2>1. /\ phase = "render" /\ phase' = "overflow" /\ limit' = spec.window
        /\ UNCHANGED <<spec, refit, fitted, sent>>
    BY <1>6 DEF NoRoom
  <2>2. spec \in Models
    BY <2>1 DEF RenderInv, RenderTypes
  <2>3. spec.window \in Nat
    BY <2>2, BudgetIs
  <2>4. RenderTypes'
    BY <2>1, <2>2, <2>3 DEF RenderInv, RenderTypes
  <2>5. fitted = NothingFitted
    BY <2>1 DEF RenderInv, FitInv
  <2> QED BY <1>2, <2>1, <2>4, <2>5, NothingKept DEF RenderInv
<1> QED BY <1>1, <1>2, <1>3, <1>4, <1>5, <1>6, NothingKept DEF RenderInv


(* Fitting: the prompt is shortened, its documents are cut one at a time.    *)
LEMMA FittingKeepsIt ==
    ASSUME RenderInv, Shorten \/ Truncate
    PROVE  RenderInv'
<1>1. UNCHANGED <<hist, spec, limit, refit, sent>> /\ phase \in {"render", "fit"} /\ phase' = "fit"
  BY DEF Shorten, Truncate, Cutting
<1>2. RenderTypes' /\ spec \in Models
  BY <1>1 DEF RenderInv, RenderTypes
<1>3. ThreadInv' /\ Stored(hist) /\ Users(hist) # {}
  BY <1>1 DEF RenderInv, ThreadInv
<1>4. SentInv'
  BY <1>1 DEF SentInv
<1>5. PICK b, old : b = Budget /\ old = Resolve(hist, spec)
  OBVIOUS
<1>6. b \in Int
  BY <1>2, <1>5, BudgetIs DEF Budget
<1>7. hist \in Seq(Messages) /\ old \in Seq(Attachments) /\ Covers(old, hist) /\ Distinct(old)
  <2>1. hist \in Seq(Messages)
    BY <1>3 DEF Stored
  <2> QED BY <1>5, <2>1, ResolveIs
<1>8. CASE Shorten
  <2>1. PICK rest : rest = Shortened(hist, old, b)
    OBVIOUS
  <2>2. PICK cut : cut = [att |-> old, exhausted |-> {}, cuts |-> 0, total |-> Total(rest, old)]
    OBVIOUS
  <2>3. b > 0 /\ fitted' = [messages |-> rest, cut |-> cut]
    BY <1>5, <1>8, <2>1, <2>2 DEF Shorten
  <2>4. CutFrom(old, old, {})
    BY <1>7 DEF CutFrom
  <2>5. CutSoFar(cut, rest, old, b)
    BY <2>2, <2>4 DEF CutSoFar
  <2>6. FittedTo([messages |-> rest, cut |-> cut], hist, old, b)
    BY <2>1, <2>3, <2>5 DEF FittedTo
  <2>7. FittedTo(fitted', hist, old, b)
    BY <2>3, <2>6
  <2>8. Budget' = b /\ Resolve(hist', spec') = old
    BY <1>1, <1>5 DEF Budget
  <2>9. FitInv'
    BY <1>1, <2>7, <2>8, <1>1 DEF FitInv
  <2> QED BY <1>2, <1>3, <1>4, <2>9 DEF RenderInv
<1>9. CASE Truncate
  <2>1. /\ phase = "fit" /\ fitted.cut.total > b /\ Truncatable(fitted.cut) # {}
        /\ fitted' = [fitted EXCEPT !.cut = CutOnce(fitted.messages, b, @)]
    BY <1>5, <1>9 DEF Truncate, Cutting
  <2>2. FittedTo(fitted, hist, old, b)
    BY <1>5, <2>1 DEF RenderInv, FitInv
  <2>3. PICK rest, cut : rest = fitted.messages /\ cut = fitted.cut
    OBVIOUS
  <2>4. /\ rest = Shortened(hist, old, b) /\ CutSoFar(cut, rest, old, b) /\ b > 0
        /\ fitted = [messages |-> rest, cut |-> cut]
    <3>1. fitted = [messages |-> Shortened(hist, old, b), cut |-> fitted.cut]
      BY <2>2 DEF FittedTo
    <3>2. fitted.messages = Shortened(hist, old, b)
      BY <3>1
    <3> QED BY <2>2, <2>3, <3>1, <3>2 DEF FittedTo
  <2>5. rest \in Seq(Messages) /\ Covers(old, rest)
    BY <1>3, <1>5, <1>6, <2>2, <2>3, FittedIs
  <2>6. PICK new : new = CutOnce(rest, b, cut)
    OBVIOUS
  <2>7. CutSoFar(new, rest, old, b)
    BY <1>6, <1>7, <2>1, <2>3, <2>4, <2>5, <2>6, CutOnceIs
  <2>8. fitted' = [messages |-> rest, cut |-> new]
    <3>1. fitted' = [fitted EXCEPT !.cut = new]
      BY <2>1, <2>3, <2>6
    <3>2. [fitted EXCEPT !.cut = new] = [messages |-> rest, cut |-> new]
      BY <2>4
    <3> QED BY <3>1, <3>2
  <2>9. FittedTo([messages |-> rest, cut |-> new], hist, old, b)
    BY <2>4, <2>7 DEF FittedTo
  <2>10. FittedTo(fitted', hist, old, b)
    BY <2>8, <2>9
  <2>11. Budget' = b /\ Resolve(hist', spec') = old
    BY <1>1, <1>5 DEF Budget
  <2>12. FitInv'
    BY <1>1, <2>10, <2>11 DEF FitInv
  <2> QED BY <1>2, <1>3, <1>4, <2>12 DEF RenderInv
<1> QED BY <1>8, <1>9

(* Every payload's estimate is a number, and fits when the prompt does.      *)
LEMMA PayloadFits ==
    ASSUME NEW h \in Seq(Messages), NEW att \in Seq(Attachments), Covers(att, h), Priced(att),
           NEW budget \in Nat \ {0}, Total(h, att) <= budget, NEW p
    PROVE  /\ EstimateTokens(BuildPayload(p, h, att)) \in Nat
           /\ EstimateTokens(BuildPayload(p, h, att)) + InlineCost(BuildPayload(p, h, att))
                <= budget
<1>1. CASE p = "gemini"
  <2>1. BuildPayload(p, h, att) = BuildGemini(h, att)
    BY <1>1 DEF BuildPayload
  <2> QED BY <2>1, GeminiFits
<1>2. CASE p # "gemini"
  <2>1. BuildPayload(p, h, att) = BuildOpenAI(h, att)
    BY <1>2 DEF BuildPayload
  <2> QED BY <2>1, OpenAIFits
<1> QED BY <1>1, <1>2

LEMMA DoneKeepsIt ==
    ASSUME RenderInv, RenderSends \/ RenderOverflows
    PROVE  RenderInv'
<1>1. /\ UNCHANGED <<hist, spec, refit, fitted>> /\ phase = "fit"
      /\ phase' \in {"sent", "overflow"}
  BY DEF RenderSends, RenderOverflows, Cutting
<1>2. spec \in Models
  BY <1>1 DEF RenderInv, RenderTypes
<1>3. ThreadInv' /\ Stored(hist)
  BY <1>1 DEF RenderInv, ThreadInv
<1>4. PICK b, old : b = Budget /\ old = Resolve(hist, spec)
  OBVIOUS
<1>5. b \in Int
  BY <1>2, <1>4, BudgetIs DEF Budget
<1>6. FittedTo(fitted, hist, old, b) /\ b > 0
  BY <1>1, <1>4 DEF RenderInv, FitInv, FittedTo
<1>7. PICK h, att : h = fitted.messages /\ att = fitted.cut.att
  OBVIOUS
<1>8. /\ h \in Seq(Messages) /\ att \in Seq(Attachments) /\ Covers(att, h) /\ Priced(att)
      /\ fitted.cut.total = Total(h, att)
  BY <1>3, <1>4, <1>5, <1>6, <1>7, FittedIs
<1>9. Budget' = b /\ Resolve(hist', spec') = old
  BY <1>1, <1>4 DEF Budget
<1>10. CASE RenderSends
  <2>1. PICK payload : payload = BuildPayload(spec.provider, h, att)
    OBVIOUS
  <2>2. /\ phase' = "sent" /\ fitted.cut.total <= b /\ UNCHANGED limit
        /\ sent' = [payload |-> payload, estimated |-> EstimatedTokens(payload, att)]
    BY <1>4, <1>7, <1>10, <2>1 DEF RenderSends
  <2>3. EstimateTokens(payload) \in Nat
    BY <1>5, <1>6, <1>8, <2>1, <2>2, PayloadFits
  <2>4. EstimatedTokens(payload, att) \in Nat
    <3>1. NativeTokens(att) \in Nat
      BY <1>8, NativeNat
    <3> QED BY <2>3, <3>1 DEF EstimatedTokens
  <2>5. RenderTypes'
    BY <1>1, <2>2, <2>4 DEF RenderInv, RenderTypes
  <2>6. FitInv'
    BY <1>1, <1>6, <1>9, <2>2 DEF FitInv
  <2>7. sent'.payload = BuildPayload(spec.provider, fitted.messages, fitted.cut.att)
    BY <1>7, <2>1, <2>2
  <2>8. SentInv'
    BY <1>1, <1>9, <2>2, <2>7 DEF SentInv
  <2> QED BY <1>3, <2>5, <2>6, <2>8 DEF RenderInv
<1>11. CASE RenderOverflows
  <2>1. /\ phase' = "overflow" /\ limit' = b /\ UNCHANGED sent
        /\ fitted.cut.total > b /\ Truncatable(fitted.cut) = {}
    BY <1>4, <1>11 DEF RenderOverflows, Cutting
  <2>2. b \in Nat
    BY <1>5, <1>6
  <2>3. RenderTypes'
    BY <1>1, <2>1, <2>2 DEF RenderInv, RenderTypes
  <2>4. FitInv'
    BY <1>1, <1>6, <1>9, <2>1 DEF FitInv
  <2>5. SentInv'
    BY <2>1 DEF SentInv
  <2> QED BY <1>3, <2>3, <2>4, <2>5 DEF RenderInv
<1> QED BY <1>10, <1>11

LEMMA RenderInvHolds == RenderSpec => []RenderInv
<1>1. RenderInv /\ [RenderNext]_renderVars => RenderInv'
  <2> SUFFICES ASSUME RenderInv, [RenderNext]_renderVars PROVE RenderInv'
    OBVIOUS
  <2>1. CASE UNCHANGED renderVars
    <3>1. UNCHANGED <<hist, phase, spec, limit, refit, fitted, sent>>
      BY <2>1 DEF renderVars
    <3>2. Budget' = Budget
      BY <3>1 DEF Budget
    <3>3. RenderTypes' /\ ThreadInv' /\ SentInv'
      BY <3>1, <3>2 DEF RenderInv, RenderTypes, ThreadInv, SentInv
    <3>4. FitInv'
      BY <3>1, <3>2 DEF RenderInv, FitInv
    <3> QED BY <3>3, <3>4 DEF RenderInv
  <2>2. CASE \E u \in Uploads : Ask(u) \/ AskPrompted(u)
    BY <2>2, QuestionsKeepIt
  <2>3. CASE \E n \in Lengths : OtherTurnAnswers(n) \/ Answered(n)
    BY <2>3, AnswersKeepIt
  <2>4. CASE (\E s \in Specs : Try(s)) \/ (\E n \in Limits \cup {None} : Rejected(n))
             \/ Refit \/ NoRoom
    BY <2>4, CandidatesKeepIt
  <2>5. CASE Shorten \/ Truncate
    BY <2>5, FittingKeepsIt
  <2>6. CASE RenderSends \/ RenderOverflows
    BY <2>6, DoneKeepsIt
  <2>7. CASE GiveUp \/ NewThread
    <3>1. Reset /\ (hist' = hist \/ hist' = <<>>)
      BY <2>7 DEF GiveUp, NewThread
    <3>2. RenderTypes' /\ FitInv' /\ SentInv' /\ phase' = "idle"
      BY <3>1, ResetKeepsIt
    <3>3. Stored(hist')
      BY <3>1, StoredEmpty DEF RenderInv, ThreadInv
    <3>4. ThreadInv'
      BY <3>2, <3>3 DEF ThreadInv
    <3> QED BY <3>2, <3>4 DEF RenderInv
  <2> QED BY <2>1, <2>2, <2>3, <2>4, <2>5, <2>6, <2>7 DEF RenderNext, Rendering
<1> QED BY <1>1, RenderBegins, PTL DEF RenderSpec


-----------------------------------------------------------------------------
(* What RenderInv says of a prompt that was sent or refused.                 *)

(* Where shortening was not enough, all that may go is gone.                 *)
LEMMA AllGone ==
    ASSUME NEW h, Stored(h), NEW old, NEW b,
           ~(Total(Shortened(h, old, b), old) <= b)
    PROVE  Shortened(h, old, b) = Marked(h, Droppable(h))
<1>1. h \in Seq(Messages) /\ Heads(h) \subseteq Nat
  BY DEF Stored, Heads, Droppable
<1>2. CASE Total(h, old) <= b
  <2>1. Shortened(h, old, b) = Marked(h, {})
    BY <1>2 DEF Shortened
  <2>2. Shortened(h, old, b) = h
    BY <1>1, <2>1, RestOfAll
  <2> QED BY <1>2, <2>2
<1>3. CASE ~(Total(h, old) <= b)
  <2>1. Shortened(h, old, b) = Marked(h, DropOldestTurns(h, old, b))
    BY <1>3 DEF Shortened
  <2>2. PICK enough : enough =
            {g \in Heads(h) : Total(Marked(h, DroppedThrough(h, g)), old) <= b}
    OBVIOUS
  <2>3. CASE enough = {}
    <3>1. DropOldestTurns(h, old, b) = Droppable(h)
      BY <2>2, <2>3 DEF DropOldestTurns
    <3> QED BY <2>1, <3>1
  <2>4. CASE enough # {}
    <3>1. PICK x \in enough : \A y \in enough : x <= y
      BY <1>1, <2>2, <2>4, LeastOf
    <3>2. PICK g : g = CHOOSE k \in enough : \A y \in enough : k <= y
      OBVIOUS
    <3>3. g \in enough
      BY <3>1, <3>2
    <3>4. DropOldestTurns(h, old, b) = DroppedThrough(h, g)
      BY <2>2, <2>4, <3>2 DEF DropOldestTurns
    <3>5. Total(Marked(h, DroppedThrough(h, g)), old) <= b
      BY <2>2, <3>3
    <3> QED BY <2>1, <3>4, <3>5
  <2> QED BY <2>3, <2>4
<1> QED BY <1>2, <1>3

(* What is left then are the system prompt and the last question.            *)
LEMMA PinnedRemain ==
    ASSUME NEW h, Stored(h), Users(h) # {}, NEW g, g = Marked(h, Droppable(h))
    PROVE  \A i \in DOMAIN g : g[i].role = "system" \/ i \in LastQuestion(g)
<1>1. h \in Seq(Messages) /\ DOMAIN h = 1..Len(h) /\ Droppable(h) \in SUBSET DOMAIN h
  BY DEF Stored, Droppable
<1>2. h # <<>>
  BY <1>1 DEF Users
<1>3. PICK at : Left(g, h, at, Droppable(h))
  <2>1. Droppable(h) # DOMAIN h
    BY <1>1, <1>2, PinnedIs
  <2> QED BY <1>1, <2>1, MarkedIs
<1>4. /\ DOMAIN g = 1..Len(at)
      /\ \A k \in 1..Len(at) : /\ at[k] \in 1..Len(h) /\ at[k] \notin Droppable(h)
                               /\ g[k].role = h[at[k]].role
      /\ \A k, l \in 1..Len(at) : k < l => at[k] < at[l]
      /\ Len(at) \in Nat
  <2>1. /\ InPlace(at, Len(h), DOMAIN h \ Droppable(h)) /\ at \in Seq(1..Len(h))
        /\ DOMAIN at = 1..Len(at) /\ g \in Seq(Messages) /\ Len(g) = Len(at)
        /\ \A k \in 1..Len(at) : g[k].role = h[at[k]].role
    BY <1>3 DEF Left
  <2>2. \A k \in 1..Len(at) : at[k] \in 1..Len(h) /\ at[k] \notin Droppable(h)
    BY <2>1 DEF InPlace
  <2>3. \A k, l \in 1..Len(at) : k < l => at[k] < at[l]
    BY <2>1 DEF InPlace
  <2> QED BY <2>1, <2>2, <2>3
<1>5. ASSUME NEW i \in DOMAIN g, g[i].role # "system" PROVE i \in LastQuestion(g)
  <2>1. at[i] \in DOMAIN h \ Droppable(h) /\ h[at[i]].role # "system"
    BY <1>1, <1>4, <1>5
  <2>2. at[i] \in LastQuestion(h)
    BY <2>1, DroppableIs
  <2>3. h[at[i]].role = "user" /\ \A j \in Users(h) : j <= at[i]
    BY <2>2 DEF LastQuestion, Users
  <2>4. i \in Users(g)
    BY <1>4, <2>3 DEF Users
  <2>5. ASSUME NEW k \in Users(g) PROVE k <= i
    <3>1. k \in 1..Len(at) /\ i \in 1..Len(at) /\ h[at[k]].role = "user"
      BY <1>4 DEF Users
    <3>2. at[k] \in Users(h)
      BY <1>1, <1>4, <3>1 DEF Users
    <3>3. at[k] <= at[i] /\ at[k] \in Int /\ at[i] \in Int
      BY <1>4, <2>3, <3>1, <3>2
    <3>4. i < k => at[i] < at[k]
      BY <1>4, <3>1
    <3> QED BY <3>1, <3>3, <3>4
  <2> QED BY <2>4, <2>5 DEF LastQuestion
<1> QED BY <1>5

LEMMA StoredIsUnmarked ==
    ASSUME NEW h, Stored(h)
    PROVE  Omitted(h) = 0
<1>1. PICK z : z = [i \in DOMAIN h |-> h[i].omitted]
  OBVIOUS
<1>2. h \in Seq(Messages) /\ DOMAIN h = 1..Len(h) /\ \A i \in 1..Len(h) : h[i].omitted = 0
  BY DEF Stored
<1>3. z \in Seq(Int) /\ \A i \in 1..Len(z) : z[i] = 0
  BY <1>1, <1>2
<1>4. SumOf(z) = 0
  BY <1>3, SumZero
<1> QED BY <1>1, <1>4 DEF Omitted

(* The prompt of a candidate, where there is one.                            *)
LEMMA PromptIs ==
    ASSUME RenderInv, phase = "sent" \/ (phase = "overflow" /\ fitted # NothingFitted),
           NEW b, b = Budget, NEW old, old = Resolve(hist, spec)
    PROVE  /\ b \in Nat \ {0} /\ Stored(hist) /\ Users(hist) # {}
           /\ FittedTo(fitted, hist, old, b)
           /\ fitted.messages = Shortened(hist, old, b)
<1>1. spec \in Models /\ Stored(hist) /\ Users(hist) # {} /\ FittedTo(fitted, hist, old, b)
  BY DEF RenderInv, RenderTypes, ThreadInv, FitInv
<1>2. b \in Int
  BY <1>1, BudgetIs DEF Budget
<1>3. fitted = [messages |-> Shortened(hist, old, b), cut |-> fitted.cut] /\ b > 0
  BY <1>1 DEF FittedTo
<1>4. fitted.messages = Shortened(hist, old, b)
  BY <1>3
<1> QED BY <1>1, <1>2, <1>3, <1>4

LEMMA SentIsFit ==
    ASSUME RenderInv
    PROVE  SentFits
<1> SUFFICES ASSUME phase = "sent"
             PROVE  EstimateTokens(sent.payload) + InlineCost(sent.payload) <= Budget
  BY DEF SentFits
<1>1. PICK b, old : b = Budget /\ old = Resolve(hist, spec)
  OBVIOUS
<1>2. b \in Nat \ {0} /\ Stored(hist) /\ FittedTo(fitted, hist, old, b)
  BY <1>1, PromptIs
<1>3. PICK h, att : h = fitted.messages /\ att = fitted.cut.att
  OBVIOUS
<1>4. /\ h \in Seq(Messages) /\ att \in Seq(Attachments) /\ Covers(att, h) /\ Priced(att)
      /\ fitted.cut.total = Total(h, att)
  BY <1>1, <1>2, <1>3, FittedIs
<1>5. sent.payload = BuildPayload(spec.provider, h, att) /\ Total(h, att) <= b
  BY <1>1, <1>3, <1>4 DEF RenderInv, SentInv
<1> QED BY <1>1, <1>2, <1>4, <1>5, PayloadFits

LEMMA RefusalIsHopeless ==
    ASSUME RenderInv
    PROVE  RefusedOnlyWhenHopeless
<1> SUFFICES ASSUME phase = "overflow", fitted # NothingFitted,
                    NEW b, b = Budget, NEW old, old = Resolve(hist, spec),
                    NEW keep, keep = {i \in DOMAIN hist : i = 1 /\ hist[i].role = "system"}
                                         \cup LastQuestion(hist),
                    NEW floor,
                    floor = [k \in DOMAIN old |->
                                [old[k] EXCEPT !.chars =
                                    Smaller(@, MinDocumentChars + NoticeChars)]]
             PROVE  Total(Marked(hist, DOMAIN hist \ keep), floor) > b
  BY DEF RefusedOnlyWhenHopeless
<1>1. /\ b \in Nat \ {0} /\ Stored(hist) /\ Users(hist) # {} /\ FittedTo(fitted, hist, old, b)
      /\ fitted.messages = Shortened(hist, old, b)
  BY PromptIs
<1>2. PICK h, att, x :
          h = fitted.messages /\ att = fitted.cut.att /\ x = fitted.cut.exhausted
  OBVIOUS
<1>3. /\ h \in Seq(Messages) /\ att \in Seq(Attachments) /\ Covers(att, h) /\ NoLonger(att, old)
      /\ old \in Seq(Attachments) /\ Distinct(old) /\ Covers(old, h)
      /\ fitted.cut.total = Total(h, att) /\ Total(h, att) \in Nat /\ Total(h, old) \in Nat
      /\ Total(h, att) <= Total(h, old)
  BY <1>1, <1>2, FittedIs
<1>4. Total(h, att) > b /\ Truncatable(fitted.cut) = {}
  BY <1>3 DEF RenderInv, FitInv
<1>5. h = Marked(hist, DOMAIN hist \ keep)
  <2>1. ~(Total(Shortened(hist, old, b), old) <= b)
    BY <1>1, <1>2, <1>3, <1>4
  <2>2. Shortened(hist, old, b) = Marked(hist, Droppable(hist))
    BY <1>1, <2>1, AllGone
  <2>3. Pinned(hist) = keep
    BY <1>1, DroppableIs
  <2> QED BY <1>1, <1>2, <2>2, <2>3 DEF Droppable
<1>6. CutFrom(att, old, x)
  BY <1>1, <1>2 DEF FittedTo, CutSoFar
<1>7. /\ DOMAIN old = 1..Len(old) /\ Len(old) \in Nat /\ DOMAIN att = 1..Len(old)
      /\ \A k \in 1..Len(old) : /\ old[k] \in Attachments
                                /\ old[k].chars \in Nat /\ att[k].chars \in Nat
  <2>1. Len(att) = Len(old)
    BY <1>6 DEF CutFrom
  <2> QED BY <1>3, <2>1, EntriesAre
<1>8. \A k \in 1..Len(old) :
          /\ floor[k] \in Attachments /\ floor[k].file = old[k].file
          /\ floor[k].mode = old[k].mode /\ floor[k].tokens = old[k].tokens
          /\ floor[k].chars = IF old[k].chars < 249 THEN old[k].chars ELSE 249
  <2> SUFFICES ASSUME NEW k \in 1..Len(old)
               PROVE  /\ floor[k] \in Attachments /\ floor[k].file = old[k].file
                      /\ floor[k].mode = old[k].mode /\ floor[k].tokens = old[k].tokens
                      /\ floor[k].chars = IF old[k].chars < 249 THEN old[k].chars ELSE 249
    OBVIOUS
  <2>1. PICK n : n = Smaller(old[k].chars, MinDocumentChars + NoticeChars)
    OBVIOUS
  <2>2. n \in Nat /\ n = IF old[k].chars < 249 THEN old[k].chars ELSE 249
    BY <1>7, <2>1 DEF Smaller, MinDocumentChars, NoticeChars
  <2>3. floor[k] = [old[k] EXCEPT !.chars = n]
    BY <1>7, <2>1
  <2> QED BY <1>7, <2>2, <2>3 DEF Attachments
<1>9. floor \in Seq(Attachments) /\ Len(floor) = Len(old)
  <2>1. PICK s : s = floor
    OBVIOUS
  <2>2. DOMAIN s = 1..Len(old) /\ s = [k \in 1..Len(old) |-> s[k]]
    BY <1>7, <2>1
  <2>3. \A k \in 1..Len(old) : s[k] \in Attachments
    BY <1>8, <2>1
  <2>4. s \in Seq(Attachments) /\ Len(s) = Len(old)
    BY <1>7, <2>2, <2>3
  <2> QED BY <2>1, <2>4
<1>10. NoLonger(att, floor)
  <2>1. ASSUME NEW k \in 1..Len(old), att[k].mode = "injected"
        PROVE  att[k].chars <= floor[k].chars
    <3>1. CASE k \in x
      <4>1. att[k].chars <= 249 /\ att[k].chars <= old[k].chars
        BY <1>6, <1>7, <3>1 DEF CutFrom, MinDocumentChars, NoticeChars
      <4> QED BY <1>7, <1>8, <4>1
    <3>2. CASE k \notin x
      <4>1. ~(att[k].chars > 200)
        BY <1>2, <1>4, <1>7, <2>1, <3>2 DEF Truncatable, MinDocumentChars
      <4>2. att[k].chars = old[k].chars
        BY <1>6, <1>7, <4>1 DEF CutFrom, MinDocumentChars, NoticeChars
      <4> QED BY <1>7, <1>8, <4>1, <4>2
    <3> QED BY <3>1, <3>2
  <2>2. ASSUME NEW k \in 1..Len(old)
        PROVE  /\ att[k].file = floor[k].file /\ att[k].mode = floor[k].mode
               /\ att[k].tokens = floor[k].tokens
    BY <1>6, <1>8 DEF CutFrom
  <2>3. Len(att) = Len(floor) /\ Len(floor) = Len(old)
    BY <1>6, <1>9 DEF CutFrom
  <2>4. ASSUME NEW k \in 1..Len(floor)
        PROVE  /\ att[k].file = floor[k].file /\ att[k].mode = floor[k].mode
               /\ att[k].tokens = floor[k].tokens
               /\ floor[k].mode = "injected" => att[k].chars <= floor[k].chars
    <3>1. k \in 1..Len(old)
      BY <2>3
    <3>2. /\ att[k].file = floor[k].file /\ att[k].mode = floor[k].mode
          /\ att[k].tokens = floor[k].tokens
      BY <2>2, <3>1
    <3>3. att[k].mode = "injected" => att[k].chars <= floor[k].chars
      BY <2>1, <3>1
    <3> QED BY <3>2, <3>3
  <2> QED BY <2>3, <2>4 DEF NoLonger
<1>11. Distinct(floor) /\ Covers(floor, h)
  <2>1. DOMAIN floor = 1..Len(old)
    BY <1>9
  <2>2. Distinct(floor)
    <3>1. DOMAIN floor = DOMAIN old /\ \A k \in DOMAIN old : floor[k].file = old[k].file
      BY <1>7, <1>8, <2>1
    <3>2. Distinct(old)
      BY <1>3
    <3> QED BY <3>1, <3>2, StillDistinct
  <2>3. ASSUME NEW i \in DOMAIN h, NEW k \in DOMAIN h[i].files
        PROVE  \E j \in DOMAIN floor : floor[j].file = h[i].files[k]
    <3>1. PICK j \in DOMAIN old : old[j].file = h[i].files[k]
      BY <1>3 DEF Covers
    <3>2. j \in DOMAIN floor /\ floor[j].file = old[j].file
      BY <1>7, <1>8, <2>1, <3>1
    <3> QED BY <3>1, <3>2
  <2> QED BY <2>2, <2>3 DEF Covers
<1>12. Total(h, att) <= Total(h, floor) /\ Total(h, floor) \in Nat
  BY <1>3, <1>9, <1>10, <1>11, TotalMonotone, TotalIs
<1> QED BY <1>1, <1>3, <1>4, <1>5, <1>12


LEMMA TurnsAreWhole ==
    ASSUME RenderInv
    PROVE  TurnsGoWhole
<1> SUFFICES ASSUME phase = "sent",
                    NEW gone, gone = Missing(hist, fitted.messages)
             PROVE  /\ \A i \in DOMAIN hist \ gone :
                          hist[i].role = "assistant" =>
                              ~(i - 1 \in gone /\ hist[i - 1].role = "user")
                    /\ \A i \in gone : hist[i].role # "system" /\ i \notin LastQuestion(hist)
                    /\ \A i \in gone, j \in DOMAIN hist \ gone : j < i =>
                          hist[j].role = "system" \/ j \in LastQuestion(hist)
                    /\ gone # {} => Total(Marked(hist, gone \ NewestTurn(hist, gone)),
                                          Resolve(hist, spec)) > Budget
  BY DEF TurnsGoWhole, NewestTurn, Newest
<1>1. PICK b, old : b = Budget /\ old = Resolve(hist, spec)
  OBVIOUS
<1>2. /\ b \in Nat \ {0} /\ Stored(hist) /\ Users(hist) # {} /\ FittedTo(fitted, hist, old, b)
      /\ fitted.messages = Shortened(hist, old, b)
  BY <1>1, PromptIs
<1>3. hist \in Seq(Messages) /\ old \in Seq(Attachments) /\ Covers(old, hist)
  BY <1>1, <1>2, FittedIs DEF Stored
<1>4. PICK left \in SUBSET Droppable(hist) :
          /\ left = IF Total(hist, old) <= b THEN {} ELSE DropOldestTurns(hist, old, b)
          /\ Shortened(hist, old, b) = Marked(hist, left)
          /\ Left(Marked(hist, left), hist, Places(Len(hist), DOMAIN hist \ left), left)
  BY <1>3, ShortenedIs
<1>5. left = gone
  <2>1. left \in SUBSET DOMAIN hist
    BY DEF Droppable
  <2>2. Missing(hist, Marked(hist, left)) = left
    BY <1>2, <1>4, <2>1, MissingIs
  <2> QED BY <1>2, <1>4, <2>2
<1>6. CASE Total(hist, old) <= b
  <2>1. gone = {}
    BY <1>4, <1>5, <1>6
  <2> QED BY <2>1
<1>7. CASE ~(Total(hist, old) <= b)
  <2>1. Total(hist, old) \in Nat
    BY <1>3, TotalIs
  <2>2. Total(hist, old) > b /\ gone = DropOldestTurns(hist, old, b) /\ b \in Int
    <3>1. left = DropOldestTurns(hist, old, b)
      BY <1>4, <1>7
    <3> QED BY <1>2, <1>5, <1>7, <2>1, <3>1
  <2>3. /\ \A i \in DOMAIN hist \ gone :
              hist[i].role = "assistant" => ~(i - 1 \in gone /\ hist[i - 1].role = "user")
        /\ \A i \in gone : hist[i].role # "system" /\ i \notin LastQuestion(hist)
        /\ \A i \in gone, j \in DOMAIN hist \ gone : j < i =>
              hist[j].role = "system" \/ j \in LastQuestion(hist)
        /\ gone # {} => Total(Marked(hist, gone \ NewestTurn(hist, gone)), old) > b
    <3>1. PICK dropped : dropped = DropOldestTurns(hist, old, b)
      OBVIOUS
    <3>2. /\ \A i \in DOMAIN hist \ dropped :
                hist[i].role = "assistant" => ~(i - 1 \in dropped /\ hist[i - 1].role = "user")
          /\ \A i \in dropped : hist[i].role # "system" /\ i \notin LastQuestion(hist)
          /\ \A i \in dropped, j \in DOMAIN hist \ dropped : j < i =>
                hist[j].role = "system" \/ j \in LastQuestion(hist)
          /\ dropped # {} => Total(Marked(hist, dropped \ NewestTurn(hist, dropped)), old) > b
      BY <1>2, <1>3, <2>2, <3>1, TurnsDropped
    <3>3. dropped = gone
      BY <2>2, <3>1
    <3> QED BY <3>2, <3>3
  <2> QED BY <1>1, <2>3
<1> QED BY <1>6, <1>7

LEMMA GapsAreTold ==
    ASSUME RenderInv
    PROVE  GapIsTold
<1> SUFFICES ASSUME phase = "sent"
             PROVE  /\ Omitted(fitted.messages) = Len(hist) - Len(fitted.messages)
                    /\ \A s \in Specs :
                          LET again == Shortened(fitted.messages, Resolve(fitted.messages, s),
                                                 InputBudget(s, s.maxTokens))
                          IN  Omitted(again) = Len(hist) - Len(again)
  BY DEF GapIsTold
<1>1. PICK b, old : b = Budget /\ old = Resolve(hist, spec)
  OBVIOUS
<1>2. /\ b \in Nat \ {0} /\ Stored(hist) /\ FittedTo(fitted, hist, old, b)
      /\ fitted.messages = Shortened(hist, old, b)
  BY <1>1, PromptIs
<1>3. PICK h : h = fitted.messages
  OBVIOUS
<1>4. /\ hist \in Seq(Messages) /\ h \in Seq(Messages)
      /\ Len(hist) \in Nat /\ Len(h) \in Nat
  <2>1. hist \in Seq(Messages) /\ h \in Seq(Messages)
    BY <1>1, <1>2, <1>3, FittedIs DEF Stored
  <2> QED BY <2>1
<1>5. Omitted(h) = Len(hist) - Len(h)
  <2>1. Omitted(Shortened(hist, old, b)) + Len(Shortened(hist, old, b))
            = Omitted(hist) + Len(hist)
    BY <1>4, ShortenedCounts
  <2>2. Omitted(hist) = 0 /\ Omitted(h) \in Nat
    BY <1>2, <1>4, StoredIsUnmarked, OmittedIs
  <2>3. Omitted(h) + Len(h) = 0 + Len(hist)
    BY <1>2, <1>3, <2>1, <2>2
  <2> QED BY <1>4, <2>2, <2>3
<1>6. ASSUME NEW s \in Specs,
             NEW again, again = Shortened(h, Resolve(h, s), InputBudget(s, s.maxTokens))
      PROVE  Omitted(again) = Len(hist) - Len(again)
  <2>1. /\ again \in Seq(Messages)
        /\ Omitted(again) + Len(again) = Omitted(h) + Len(h)
    BY <1>4, <1>6, ShortenedCounts
  <2>2. Omitted(again) \in Nat /\ Len(again) \in Nat /\ Omitted(h) \in Nat
    BY <1>4, <2>1, OmittedIs
  <2> QED BY <1>4, <1>5, <2>1, <2>2
<1> QED BY <1>3, <1>5, <1>6

LEMMA DocumentsGoLast ==
    ASSUME RenderInv
    PROVE  DocumentsLast
<1> SUFFICES ASSUME phase = "sent", NEW old, old = Resolve(hist, spec)
             PROVE  /\ fitted.cut.cuts > 0 => \A i \in DOMAIN fitted.messages :
                          \/ fitted.messages[i].role = "system"
                          \/ i \in LastQuestion(fitted.messages)
                    /\ \A k \in DOMAIN old :
                          fitted.cut.att[k].chars # old[k].chars =>
                              /\ fitted.cut.att[k].chars < old[k].chars
                              /\ fitted.cut.att[k].chars >= MinDocumentChars + NoticeChars
  BY DEF DocumentsLast
<1>1. PICK b : b = Budget
  OBVIOUS
<1>2. /\ b \in Nat \ {0} /\ Stored(hist) /\ Users(hist) # {} /\ FittedTo(fitted, hist, old, b)
      /\ fitted.messages = Shortened(hist, old, b)
  BY <1>1, PromptIs
<1>3. PICK h, att, x, cuts :
          /\ h = fitted.messages /\ att = fitted.cut.att
          /\ x = fitted.cut.exhausted /\ cuts = fitted.cut.cuts
  OBVIOUS
<1>4. /\ CutFrom(att, old, x)
      /\ cuts > 0 => Total(h, old) > b
  BY <1>2, <1>3 DEF FittedTo, CutSoFar
<1>5. /\ old \in Seq(Attachments) /\ Total(h, old) \in Nat /\ att \in Seq(Attachments)
      /\ DOMAIN old = 1..Len(old)
  <2>1. old \in Seq(Attachments) /\ Total(h, old) \in Nat /\ att \in Seq(Attachments)
    BY <1>2, <1>3, FittedIs
  <2> QED BY <2>1
<1>6. ASSUME cuts > 0
      PROVE  \A i \in DOMAIN h : h[i].role = "system" \/ i \in LastQuestion(h)
  <2>1. ~(Total(h, old) <= b)
    BY <1>2, <1>4, <1>5, <1>6
  <2>2. h = Marked(hist, Droppable(hist))
    BY <1>2, <1>3, <2>1, AllGone
  <2> QED BY <1>2, <2>2, PinnedRemain
<1>7. ASSUME NEW k \in DOMAIN old, att[k].chars # old[k].chars
      PROVE  att[k].chars < old[k].chars /\ att[k].chars >= MinDocumentChars + NoticeChars
  <2>1. /\ MinDocumentChars + NoticeChars <= att[k].chars
        /\ att[k].chars < old[k].chars
    BY <1>4, <1>5, <1>7 DEF CutFrom
  <2>2. Len(att) = Len(old)
    BY <1>4 DEF CutFrom
  <2>3. att[k].chars \in Nat
    BY <1>5, <2>2, EntriesAre
  <2> QED BY <2>1, <2>3 DEF MinDocumentChars, NoticeChars
<1> QED BY <1>3, <1>6, <1>7

LEMMA RenderTypesHold ==
    ASSUME RenderInv
    PROVE  RenderTypeOK
<1>1. \A i \in DOMAIN hist : hist[i].seq = i - 1 /\ hist[i].omitted = 0
  BY DEF RenderInv, ThreadInv, Stored
<1>2. \A k \in DOMAIN fitted.cut.att : fitted.cut.att[k].chars \in Nat
  <2>1. CASE fitted = NothingFitted
    <3>1. fitted.cut.att = <<>>
      BY <2>1 DEF NothingFitted
    <3>2. DOMAIN fitted.cut.att = {}
      BY <3>1
    <3> QED BY <3>2
  <2>2. CASE fitted # NothingFitted
    <3>1. FittedTo(fitted, hist, Resolve(hist, spec), Budget)
      BY <2>2 DEF RenderInv, FitInv
    <3>2. PICK att : att = fitted.cut.att
      OBVIOUS
    <3>3. att \in Seq(Attachments)
      BY <3>1, <3>2 DEF FittedTo, CutSoFar, CutFrom
    <3>4. DOMAIN att = 1..Len(att) /\ \A k \in 1..Len(att) : att[k].chars \in Nat
      BY <3>3, EntriesAre
    <3> QED BY <3>2, <3>4
  <2> QED BY <2>1, <2>2
<1> QED BY <1>1, <1>2 DEF RenderInv, RenderTypes, RenderTypeOK

-----------------------------------------------------------------------------
(* What the loop over the documents still has before it: the characters that *)
(* are left and the documents not yet refused.                               *)
CharsLeft(att) == SumOf([k \in DOMAIN att |-> att[k].chars])
ToCut(cut) == CharsLeft(cut.att) + Cardinality(DOMAIN cut.att \ cut.exhausted)

LEMMA OpenIs ==
    ASSUME NEW att \in Seq(Attachments), NEW x
    PROVE  /\ CharsLeft(att) \in Nat /\ IsFiniteSet(DOMAIN att \ x)
           /\ Cardinality(DOMAIN att \ x) \in Nat
<1>1. PICK c : c = [k \in DOMAIN att |-> att[k].chars]
  OBVIOUS
<1>2. c \in Seq(Nat)
  <2>1. DOMAIN att = 1..Len(att) /\ Len(att) \in Nat
    OBVIOUS
  <2> QED BY <1>1, <2>1, EntriesAre
<1>3. CharsLeft(att) \in Nat
  BY <1>1, <1>2, SumNat DEF CharsLeft
<1>4. IsFiniteSet(DOMAIN att)
  <2>1. DOMAIN att = 1..Len(att) /\ Len(att) \in Nat
    OBVIOUS
  <2> QED BY <2>1, UpTo
<1>5. IsFiniteSet(DOMAIN att \ x)
  BY <1>4, FS_Difference
<1> QED BY <1>3, <1>5, FS_CardinalityType

LEMMA LowersMeasure ==
    ASSUME NEW cut, NEW new, cut.att \in Seq(Attachments), Lowers(new, cut)
    PROVE  ToCut(new) \in Nat /\ ToCut(new) < ToCut(cut)
<1>1. PICK att, x : att = cut.att /\ x = cut.exhausted
  OBVIOUS
<1>2. PICK low, y : low = new.att /\ y = new.exhausted
  OBVIOUS
<1>3. PICK k \in DOMAIN att :
          /\ k \notin x
          /\ \/ low = att /\ y = x \cup {k}
             \/ /\ low \in Seq(Attachments) /\ Len(low) = Len(att)
                /\ low[k].chars < att[k].chars
                /\ \A j \in DOMAIN att : j # k => low[j] = att[j]
                /\ x \subseteq y
  BY <1>1, <1>2 DEF Lowers
<1>4. att \in Seq(Attachments) /\ DOMAIN att = 1..Len(att) /\ Len(att) \in Nat
  BY <1>1
<1>5. PICK D, E : D = DOMAIN att \ x /\ E = DOMAIN low \ y
  OBVIOUS
<1>6. IsFiniteSet(D) /\ Cardinality(D) \in Nat /\ CharsLeft(att) \in Nat
  BY <1>4, <1>5, OpenIs
<1>7. ToCut(cut) = CharsLeft(att) + Cardinality(D) /\ ToCut(new) = CharsLeft(low) + Cardinality(E)
  BY <1>1, <1>2, <1>5 DEF ToCut
<1>8. CASE low = att /\ y = x \cup {k}
  <2>1. E = D \ {k} /\ k \in D
    BY <1>3, <1>5, <1>8
  <2>2. Cardinality(E) = Cardinality(D) - 1
    BY <1>6, <2>1, FS_RemoveElement
  <2>3. Cardinality(E) \in Nat
    BY <1>4, <1>5, <1>8, OpenIs
  <2> QED BY <1>6, <1>7, <1>8, <2>2, <2>3
<1>9. CASE /\ low \in Seq(Attachments) /\ Len(low) = Len(att)
           /\ low[k].chars < att[k].chars
           /\ \A j \in DOMAIN att : j # k => low[j] = att[j]
           /\ x \subseteq y
  <2>1. DOMAIN low = DOMAIN att
    BY <1>4, <1>9
  <2>2. E \subseteq D
    BY <1>5, <1>9, <2>1
  <2>3. Cardinality(E) <= Cardinality(D)
    BY <1>6, <2>2, FS_Subset
  <2>4. Cardinality(E) \in Nat /\ CharsLeft(low) \in Nat
    BY <1>5, <1>9, OpenIs
  <2>5. PICK a, b : /\ a = [i \in DOMAIN att |-> att[i].chars]
                    /\ b = [i \in DOMAIN low |-> low[i].chars]
    OBVIOUS
  <2>6. \A i \in 1..Len(att) : att[i].chars \in Int /\ low[i].chars \in Int
    BY <1>4, <1>9, EntriesAre
  <2>7. a \in Seq(Int) /\ b \in Seq(Int) /\ Len(a) = Len(att) /\ Len(b) = Len(att)
    BY <1>4, <2>1, <2>5, <2>6
  <2>8. \A i \in 1..Len(a) : i # k => b[i] = a[i]
    BY <1>4, <1>9, <2>1, <2>5, <2>7
  <2>9. SumOf(b) = SumOf(a) + (b[k] - a[k])
    BY <1>4, <2>7, <2>8, SumReplace
  <2>10. b[k] < a[k] /\ b[k] \in Int /\ a[k] \in Int
    BY <1>3, <1>4, <1>9, <2>1, <2>5, <2>6
  <2>11. SumOf(b) = CharsLeft(low) /\ SumOf(a) = CharsLeft(att)
    BY <2>5 DEF CharsLeft
  <2>12. CharsLeft(low) < CharsLeft(att)
    BY <1>6, <2>4, <2>9, <2>10, <2>11
  <2> QED BY <1>6, <1>7, <2>3, <2>4, <2>12
<1> QED BY <1>3, <1>8, <1>9

LEMMA TruncateLowers ==
    ASSUME RenderInv, Truncate
    PROVE  ToCut(fitted'.cut) \in Nat /\ ToCut(fitted'.cut) < ToCut(fitted.cut)
<1>1. PICK b, old : b = Budget /\ old = Resolve(hist, spec)
  OBVIOUS
<1>2. /\ phase = "fit" /\ fitted.cut.total > b /\ Truncatable(fitted.cut) # {}
      /\ fitted' = [fitted EXCEPT !.cut = CutOnce(fitted.messages, b, @)]
  BY <1>1 DEF Truncate, Cutting
<1>3. spec \in Models /\ Stored(hist) /\ FittedTo(fitted, hist, old, b)
  BY <1>1, <1>2 DEF RenderInv, RenderTypes, ThreadInv, FitInv
<1>4. b \in Int
  BY <1>1, <1>3, BudgetIs DEF Budget
<1>5. PICK rest, cut : rest = fitted.messages /\ cut = fitted.cut
  OBVIOUS
<1>6. /\ old \in Seq(Attachments) /\ Distinct(old) /\ rest \in Seq(Messages)
      /\ Covers(old, rest) /\ cut.att \in Seq(Attachments)
  BY <1>1, <1>3, <1>4, <1>5, FittedIs
<1>7. CutSoFar(cut, rest, old, b)
  BY <1>3, <1>5 DEF FittedTo
<1>8. PICK new : new = CutOnce(rest, b, cut)
  OBVIOUS
<1>9. Lowers(new, cut)
  BY <1>2, <1>4, <1>5, <1>6, <1>7, <1>8, CutOnceIs
<1>10. fitted'.cut = new
  <2>1. fitted = [messages |-> Shortened(hist, old, b), cut |-> cut]
    BY <1>3, <1>5 DEF FittedTo
  <2>2. fitted' = [fitted EXCEPT !.cut = new]
    BY <1>2, <1>5, <1>8
  <2> QED BY <2>1, <2>2
<1> QED BY <1>5, <1>6, <1>9, <1>10, LowersMeasure

(* What goes out fits: the payload, as its own adapter estimates it and with *)
(* every file it carries, is within the window of the model it goes to, and  *)
(* a history is refused only when its smallest form is too long (render,     *)
(* fit), for any thread, files and models.                                   *)
THEOREM PromptsFit == RenderSpec => []FitsOrIsHopeless
<1>1. RenderInv => FitsOrIsHopeless
  BY RenderTypesHold, SentIsFit, RefusalIsHopeless DEF FitsOrIsHopeless
<1> QED BY <1>1, RenderInvHolds, PTL

(* What is left out of a prompt goes in whole turns, oldest first, no more   *)
(* than needed, documents last, and the marker tells how much, also when the *)
(* prompt is shortened again (_drop_oldest_turns, _apply_marker,             *)
(* _truncate_documents).                                                     *)
THEOREM OmissionsAreHonest == RenderSpec => []OmissionIsHonest
<1>1. RenderInv => OmissionIsHonest
  BY TurnsAreWhole, GapsAreTold, DocumentsGoLast DEF OmissionIsHonest
<1> QED BY <1>1, RenderInvHolds, PTL

(* Every turn of the loop over the documents lowers what it has before it,   *)
(* so it has finitely many of them, whatever the documents, the budget and   *)
(* the order in which they are cut (_truncate_documents).                    *)
THEOREM CuttingGoesDown ==
    RenderSpec =>
        [][Truncate => ToCut(fitted'.cut) \in Nat
                       /\ ToCut(fitted'.cut) < ToCut(fitted.cut)]_renderVars
<1>1. RenderInv => (Truncate => ToCut(fitted'.cut) \in Nat
                                /\ ToCut(fitted'.cut) < ToCut(fitted.cut))
  BY TruncateLowers
<1> QED BY <1>1, RenderInvHolds, PTL DEF RenderSpec

=============================================================================
