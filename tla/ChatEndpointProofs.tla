------------------------ MODULE ChatEndpointProofs -------------------------
(***************************************************************************)
(* The safety properties of ChatEndpoint, for any number of requests,      *)
(* questions and faults.                                                   *)
(***************************************************************************)
EXTENDS ChatEndpoint, TLAPS

(* The empty envelope is one, and says that nobody holds the key.            *)
LEMMA NoEnvelopeTyped ==
    /\ NoEnvelope.state = "absent" /\ NoEnvelope.fp \in Bodies
    /\ NoEnvelope \in [state : {"absent", "in_flight", "done"}, fp : Bodies,
                       owner : Answers, ans : Answers]
<1>1. (CHOOSE b \in Bodies : TRUE) \in Bodies
  BY BodiesAssumption
<1> QED
  BY <1>1 DEF NoEnvelope, Answers

(* Every step keeps the types.                                               *)
LEMMA TypeStep == TypeOK /\ [Next]_vars => TypeOK'
<1> SUFFICES ASSUME TypeOK, [Next]_vars PROVE TypeOK'
  OBVIOUS
<1> USE FaultsAssumption, NoEnvelopeTyped DEF TypeOK, Answers, Goto, End, Serving
<1>1. ASSUME NEW r \in Requests, NoKey(r) \/ Taken(r) \/ Vanished(r) \/ Conflict(r)
                 \/ FindsDone(r) \/ Replay(r)
      PROVE TypeOK'
  BY <1>1 DEF NoKey, Taken, Vanished, Conflict, FindsDone, Replay
<1>2. ASSUME NEW r \in Requests, Claim(r) \/ FailsOpen(r) \/ Resent(r) \/ Unreplayable(r)
      PROVE TypeOK'
  <2>1. Envelope(r, "in_flight") \in [state : {"absent", "in_flight", "done"}, fp : Bodies,
                                      owner : Answers, ans : Answers]
    BY DEF Envelope, Fingerprint
  <2>2. CASE Claim(r)
    BY <2>1, <2>2 DEF Claim
  <2>3. CASE Resent(r)
    BY <2>1, <2>3 DEF Resent, Fault
  <2>4. CASE FailsOpen(r)
    <3>1. /\ env' \in [state : {"absent", "in_flight", "done"}, fp : Bodies,
                       owner : Answers, ans : Answers]
          /\ orphans' \subseteq Requests
      BY <2>1, <2>4 DEF FailsOpen
    <3>2. /\ pc' \in [Requests -> Serving \cup {"arrive", "get", "replay", "over"}]
          /\ ticket' \in [Requests -> BOOLEAN] /\ faults' \in 0..MaxFaults
          /\ UNCHANGED <<cache, body, got, row, dirty, ended, dropped, turns>>
      BY <2>4 DEF FailsOpen, Fault
    <3> QED
      BY <3>1, <3>2
  <2>5. CASE Unreplayable(r)
    BY <2>5 DEF Unreplayable, Fault
  <2> QED
    BY <1>2, <2>2, <2>3, <2>4, <2>5
<1>3. ASSUME NEW r \in Requests, Resolve(r) \/ TurnFails(r) \/ ReadHit(r) \/ ReadMiss(r)
                 \/ FirstFrame(r) \/ StreamFails(r) \/ Played(r) \/ Append(r)
      PROVE TypeOK'
  <2>1. cache[body[r].q] \in Answers
    BY BodiesAssumption
  <2> QED
    BY <1>3, <2>1 DEF Resolve, TurnFails, ReadHit, ReadMiss, FirstFrame, StreamFails,
                      Played, Append, Fault
<1>4. ASSUME NEW r \in Requests, NEW clean \in BOOLEAN,
             Answered(r, clean) \/ StreamDone(r, clean)
      PROVE TypeOK'
  BY <1>4 DEF Answered, StreamDone
<1>5. ASSUME NEW r \in Requests, StoreRow(r) \/ Put(r) \/ Commit(r)
      PROVE TypeOK'
  BY <1>5 DEF StoreRow, Put, Commit, Store, Fault
<1>6. ASSUME NEW r \in Requests, Complete(r) \/ Release(r)
      PROVE TypeOK'
  BY <1>6 DEF Complete, Release, Envelope, Fingerprint
<1>7. ASSUME NEW r \in Requests,
             SettleFails(r) \/ StoreFails(r) \/ ReaderLeaves(r) \/ Dies(r)
      PROVE TypeOK'
  BY <1>7 DEF SettleFails, StoreFails, ReaderLeaves, Dies, Drop, Fault
<1>8. CASE Expire
  BY <1>8 DEF Expire
<1>9. ASSUME NEW q \in Questions, CacheExpires(q) PROVE TypeOK'
  BY <1>9 DEF CacheExpires
<1>10. CASE UNCHANGED vars
  BY <1>10 DEF vars
<1> QED
  BY <1>1, <1>2, <1>3, <1>4, <1>5, <1>6, <1>7, <1>8, <1>9, <1>10 DEF Next, Step, AllOver

-----------------------------------------------------------------------------
(* What the safety properties need to be inductive.                          *)

(* Nobody holds a ticket before the claim is decided; only a stream is at    *)
(* the collector's places; and a stored turn is past every release.          *)
Places ==
    \A r \in Requests :
        /\ pc[r] \in {"arrive", "get", "replay"} => ~ticket[r]
        /\ pc[r] \in {"stream", "append", "commit", "fail"} => body[r].stream
        /\ r \in turns => pc[r] \in {"put", "complete", "commit", "over"}

(* With nobody ahead of the claim, the envelope names the one who is served  *)
(* and the one whose turn was stored.                                        *)
Owned ==
    orphans = {} =>
        \A r \in Requests : Holds(r) \/ r \in turns =>
            env.owner = r /\ env.state # "absent"

(* A locked key has a holder that will settle it, or a dropped ticket.       *)
Locked ==
    env.state = "in_flight" =>
        /\ env.owner \in Requests
        /\ \/ env.owner \in dropped
           \/ ticket[env.owner] /\ pc[env.owner] \in Serving \ {"commit"}

(* An answer is whole for good once it may be cached.                        *)
Cached ==
    \A q \in Questions : cache[q] # NoRequest =>
        pc[cache[q]] \in {"complete", "commit", "fail", "release", "over"}

(* The answer in an envelope answers the question fingerprinted there.       *)
Asked ==
    env.state = "done" /\ env.ans # NoRequest => body[env.ans].q = env.fp.q

(* The answer in an envelope is its owner's, who has nothing left but to     *)
(* commit; and an answer that is put or completed is stored, but in a live   *)
(* stream.                                                                   *)
Rows ==
    /\ env.state = "done" =>
        /\ env.owner \in Requests /\ pc[env.owner] \in {"commit", "over"}
        /\ env.ans = got[env.owner]
    /\ \A r \in Requests :
        /\ pc[r] = "append" => got[r] = r
        /\ pc[r] \in {"put", "complete"} /\ ~Live(r) => row[r] = got[r]

(* Steps keep to their places.                                               *)
LEMMA PlacesStep ==
    TypeOK /\ Places /\ [Next]_vars
        => Places'
<1> SUFFICES ASSUME TypeOK, Places, [Next]_vars
             PROVE Places'
  OBVIOUS
<1> USE NoEnvelopeTyped, RequestsAssumption
    DEF TypeOK, Answers, Goto, End, Serving,
        Places, Live, Hit
<1>1. ASSUME NEW r \in Requests, NoKey(r) \/ Taken(r) \/ Conflict(r)
                 \/ FindsDone(r) \/ Replay(r)
      PROVE Places'
  BY <1>1 DEF NoKey, Taken, Conflict, FindsDone, Replay
<1>2. ASSUME NEW r \in Requests, Claim(r) \/ Resent(r)
      PROVE Places'
  BY <1>2 DEF Claim, Resent, Envelope, Fingerprint
<1>3. ASSUME NEW r \in Requests, Vanished(r) \/ Unreplayable(r)
      PROVE Places'
  BY <1>3 DEF Vanished, Unreplayable
<1>4. ASSUME NEW r \in Requests, FailsOpen(r)
      PROVE Places'
  BY <1>4 DEF FailsOpen, Envelope, Fingerprint
<1>5. ASSUME NEW r \in Requests, Resolve(r) \/ TurnFails(r) \/ ReadHit(r)
                 \/ ReadMiss(r) \/ FirstFrame(r)
      PROVE Places'
  BY <1>5 DEF Resolve, TurnFails, ReadHit, ReadMiss, FirstFrame
<1>6. ASSUME NEW r \in Requests, StreamFails(r) \/ Played(r) \/ Append(r)
      PROVE Places'
  BY <1>6 DEF StreamFails, Played, Append
<1>7. ASSUME NEW r \in Requests, NEW clean \in BOOLEAN,
             Answered(r, clean) \/ StreamDone(r, clean)
      PROVE Places'
  BY <1>7 DEF Answered, StreamDone
<1>8. ASSUME NEW r \in Requests, StoreRow(r) \/ Put(r) \/ Commit(r)
      PROVE Places'
  BY <1>8 DEF StoreRow, Put, Commit, Store
<1>9. ASSUME NEW r \in Requests, Complete(r) \/ Release(r)
      PROVE Places'
  BY <1>9 DEF Complete, Release, Envelope, Fingerprint
<1>10. ASSUME NEW r \in Requests, SettleFails(r) \/ StoreFails(r)
      PROVE Places'
  BY <1>10 DEF SettleFails, StoreFails, Drop
<1>11. ASSUME NEW r \in Requests, ReaderLeaves(r) \/ Dies(r)
      PROVE Places'
  BY <1>11 DEF ReaderLeaves, Dies, Drop
<1>12. CASE Expire
  BY <1>12 DEF Expire
<1>13. ASSUME NEW q \in Questions, CacheExpires(q) PROVE Places'
  BY <1>13 DEF CacheExpires
<1>14. CASE UNCHANGED vars
  BY <1>14 DEF vars
<1> QED
  BY <1>1, <1>2, <1>3, <1>4, <1>5, <1>6, <1>7,
     <1>8, <1>9, <1>10, <1>11, <1>12, <1>13, <1>14 DEF Next, Step, AllOver

(* Only a claim that finds no envelope starts a turn, and only its holder    *)
(* removes one: SET NX, and a release that is never called after a store.    *)
LEMMA OwnedStep ==
    TypeOK /\ Places /\ Owned /\ [Next]_vars
        => Owned'
<1> SUFFICES ASSUME TypeOK, Places, Owned, [Next]_vars
             PROVE Owned'
  OBVIOUS
<1> USE NoEnvelopeTyped, RequestsAssumption
    DEF TypeOK, Answers, Goto, End, Serving,
        Owned, Places, Holds
<1>1. ASSUME NEW r \in Requests, NoKey(r) \/ Taken(r) \/ Conflict(r)
                 \/ FindsDone(r) \/ Replay(r)
      PROVE Owned'
  BY <1>1 DEF NoKey, Taken, Conflict, FindsDone, Replay
<1>2. ASSUME NEW r \in Requests, Claim(r) \/ Resent(r)
      PROVE Owned'
  BY <1>2 DEF Claim, Resent, Envelope, Fingerprint
<1>3. ASSUME NEW r \in Requests, Vanished(r) \/ Unreplayable(r)
      PROVE Owned'
  BY <1>3 DEF Vanished, Unreplayable
<1>4. ASSUME NEW r \in Requests, FailsOpen(r)
      PROVE Owned'
  BY <1>4 DEF FailsOpen, Envelope, Fingerprint
<1>5. ASSUME NEW r \in Requests, Resolve(r) \/ TurnFails(r) \/ ReadHit(r)
                 \/ ReadMiss(r) \/ FirstFrame(r)
      PROVE Owned'
  BY <1>5 DEF Resolve, TurnFails, ReadHit, ReadMiss, FirstFrame
<1>6. ASSUME NEW r \in Requests, StreamFails(r) \/ Played(r) \/ Append(r)
      PROVE Owned'
  BY <1>6 DEF StreamFails, Played, Append
<1>7. ASSUME NEW r \in Requests, NEW clean \in BOOLEAN,
             Answered(r, clean) \/ StreamDone(r, clean)
      PROVE Owned'
  BY <1>7 DEF Answered, StreamDone
<1>8. ASSUME NEW r \in Requests, StoreRow(r) \/ Put(r) \/ Commit(r)
      PROVE Owned'
  BY <1>8 DEF StoreRow, Put, Commit, Store
<1>9. ASSUME NEW r \in Requests, Complete(r) \/ Release(r)
      PROVE Owned'
  BY <1>9 DEF Complete, Release, Envelope, Fingerprint
<1>10. ASSUME NEW r \in Requests, SettleFails(r) \/ StoreFails(r)
      PROVE Owned'
  BY <1>10 DEF SettleFails, StoreFails, Drop
<1>11. ASSUME NEW r \in Requests, ReaderLeaves(r) \/ Dies(r)
      PROVE Owned'
  BY <1>11 DEF ReaderLeaves, Dies, Drop
<1>12. CASE Expire
  BY <1>12 DEF Expire
<1>13. ASSUME NEW q \in Questions, CacheExpires(q) PROVE Owned'
  BY <1>13 DEF CacheExpires
<1>14. CASE UNCHANGED vars
  BY <1>14 DEF vars
<1> QED
  BY <1>1, <1>2, <1>3, <1>4, <1>5, <1>6, <1>7,
     <1>8, <1>9, <1>10, <1>11, <1>12, <1>13, <1>14 DEF Next, Step, AllOver

(* Every place that leaves a claim behind says so.                           *)
LEMMA LockedStep ==
    TypeOK /\ Places /\ Locked /\ [Next]_vars
        => Locked'
<1> SUFFICES ASSUME TypeOK, Places, Locked, [Next]_vars
             PROVE Locked'
  OBVIOUS
<1> USE NoEnvelopeTyped, RequestsAssumption
    DEF TypeOK, Answers, Goto, End, Serving,
        Locked, Places, Live, Hit
<1>1. ASSUME NEW r \in Requests, NoKey(r) \/ Taken(r) \/ Conflict(r)
                 \/ FindsDone(r) \/ Replay(r)
      PROVE Locked'
  BY <1>1 DEF NoKey, Taken, Conflict, FindsDone, Replay
<1>2. ASSUME NEW r \in Requests, Claim(r) \/ Resent(r)
      PROVE Locked'
  BY <1>2 DEF Claim, Resent, Envelope, Fingerprint
<1>3. ASSUME NEW r \in Requests, Vanished(r) \/ Unreplayable(r)
      PROVE Locked'
  BY <1>3 DEF Vanished, Unreplayable
<1>4. ASSUME NEW r \in Requests, FailsOpen(r)
      PROVE Locked'
  BY <1>4 DEF FailsOpen, Envelope, Fingerprint
<1>5. ASSUME NEW r \in Requests, Resolve(r) \/ TurnFails(r) \/ ReadHit(r)
                 \/ ReadMiss(r) \/ FirstFrame(r)
      PROVE Locked'
  BY <1>5 DEF Resolve, TurnFails, ReadHit, ReadMiss, FirstFrame
<1>6. ASSUME NEW r \in Requests, StreamFails(r) \/ Played(r) \/ Append(r)
      PROVE Locked'
  BY <1>6 DEF StreamFails, Played, Append
<1>7. ASSUME NEW r \in Requests, NEW clean \in BOOLEAN,
             Answered(r, clean) \/ StreamDone(r, clean)
      PROVE Locked'
  BY <1>7 DEF Answered, StreamDone
<1>8. ASSUME NEW r \in Requests, StoreRow(r) \/ Put(r) \/ Commit(r)
      PROVE Locked'
  BY <1>8 DEF StoreRow, Put, Commit, Store
<1>9. ASSUME NEW r \in Requests, Complete(r) \/ Release(r)
      PROVE Locked'
  BY <1>9 DEF Complete, Release, Envelope, Fingerprint
<1>10. ASSUME NEW r \in Requests, SettleFails(r) \/ StoreFails(r)
      PROVE Locked'
  BY <1>10 DEF SettleFails, StoreFails, Drop
<1>11. ASSUME NEW r \in Requests, ReaderLeaves(r) \/ Dies(r)
      PROVE Locked'
  BY <1>11 DEF ReaderLeaves, Dies, Drop
<1>12. CASE Expire
  BY <1>12 DEF Expire
<1>13. ASSUME NEW q \in Questions, CacheExpires(q) PROVE Locked'
  BY <1>13 DEF CacheExpires
<1>14. CASE UNCHANGED vars
  BY <1>14 DEF vars
<1> QED
  BY <1>1, <1>2, <1>3, <1>4, <1>5, <1>6, <1>7,
     <1>8, <1>9, <1>10, <1>11, <1>12, <1>13, <1>14 DEF Next, Step, AllOver

(* An answer is found degraded or truncated before it can be cached.         *)
LEMMA CachedStep ==
    TypeOK /\ Cached /\ CachedIsWhole /\ [Next]_vars
        => (Cached /\ CachedIsWhole)'
<1> SUFFICES ASSUME TypeOK, Cached, CachedIsWhole, [Next]_vars
             PROVE (Cached /\ CachedIsWhole)'
  OBVIOUS
<1> USE NoEnvelopeTyped, RequestsAssumption
    DEF TypeOK, Answers, Goto, End, Serving,
        Cached, CachedIsWhole, MayCache
<1>1. ASSUME NEW r \in Requests, NoKey(r) \/ Taken(r) \/ Conflict(r)
                 \/ FindsDone(r) \/ Replay(r)
      PROVE (Cached /\ CachedIsWhole)'
  BY <1>1 DEF NoKey, Taken, Conflict, FindsDone, Replay
<1>2. ASSUME NEW r \in Requests, Claim(r) \/ Resent(r)
      PROVE (Cached /\ CachedIsWhole)'
  BY <1>2 DEF Claim, Resent, Envelope, Fingerprint
<1>3. ASSUME NEW r \in Requests, Vanished(r) \/ Unreplayable(r)
      PROVE (Cached /\ CachedIsWhole)'
  BY <1>3 DEF Vanished, Unreplayable
<1>4. ASSUME NEW r \in Requests, FailsOpen(r)
      PROVE (Cached /\ CachedIsWhole)'
  BY <1>4 DEF FailsOpen, Envelope, Fingerprint
<1>5. ASSUME NEW r \in Requests, Resolve(r) \/ TurnFails(r) \/ ReadHit(r)
                 \/ ReadMiss(r) \/ FirstFrame(r)
      PROVE (Cached /\ CachedIsWhole)'
  BY <1>5 DEF Resolve, TurnFails, ReadHit, ReadMiss, FirstFrame
<1>6. ASSUME NEW r \in Requests, StreamFails(r) \/ Played(r) \/ Append(r)
      PROVE (Cached /\ CachedIsWhole)'
  BY <1>6 DEF StreamFails, Played, Append
<1>7. ASSUME NEW r \in Requests, NEW clean \in BOOLEAN,
             Answered(r, clean) \/ StreamDone(r, clean)
      PROVE (Cached /\ CachedIsWhole)'
  BY <1>7 DEF Answered, StreamDone
<1>8. ASSUME NEW r \in Requests, StoreRow(r) \/ Put(r) \/ Commit(r)
      PROVE (Cached /\ CachedIsWhole)'
  BY <1>8 DEF StoreRow, Put, Commit, Store
<1>9. ASSUME NEW r \in Requests, Complete(r) \/ Release(r)
      PROVE (Cached /\ CachedIsWhole)'
  BY <1>9 DEF Complete, Release, Envelope, Fingerprint
<1>10. ASSUME NEW r \in Requests, SettleFails(r) \/ StoreFails(r)
      PROVE (Cached /\ CachedIsWhole)'
  BY <1>10 DEF SettleFails, StoreFails, Drop
<1>11. ASSUME NEW r \in Requests, ReaderLeaves(r) \/ Dies(r)
      PROVE (Cached /\ CachedIsWhole)'
  BY <1>11 DEF ReaderLeaves, Dies, Drop
<1>12. CASE Expire
  BY <1>12 DEF Expire
<1>13. ASSUME NEW q \in Questions, CacheExpires(q) PROVE (Cached /\ CachedIsWhole)'
  BY <1>13 DEF CacheExpires
<1>14. CASE UNCHANGED vars
  BY <1>14 DEF vars
<1> QED
  BY <1>1, <1>2, <1>3, <1>4, <1>5, <1>6, <1>7,
     <1>8, <1>9, <1>10, <1>11, <1>12, <1>13, <1>14 DEF Next, Step, AllOver

(* Answers travel by question: in the cache, and under the fingerprint.      *)
LEMMA AskedStep ==
    TypeOK /\ CachedIsWhole /\ Asked /\ AnswersItsQuestion /\ [Next]_vars
        => (Asked /\ AnswersItsQuestion)'
<1> SUFFICES ASSUME TypeOK, CachedIsWhole, Asked, AnswersItsQuestion, [Next]_vars
             PROVE (Asked /\ AnswersItsQuestion)'
  OBVIOUS
<1> USE NoEnvelopeTyped, RequestsAssumption
    DEF TypeOK, Answers, Goto, End, Serving,
        Asked, AnswersItsQuestion, CachedIsWhole, Matches, Fingerprint
<1>1. ASSUME NEW r \in Requests, NoKey(r) \/ Taken(r) \/ Conflict(r)
                 \/ FindsDone(r) \/ Replay(r)
      PROVE (Asked /\ AnswersItsQuestion)'
  BY <1>1 DEF NoKey, Taken, Conflict, FindsDone, Replay
<1>2. ASSUME NEW r \in Requests, Claim(r) \/ Resent(r)
      PROVE (Asked /\ AnswersItsQuestion)'
  BY <1>2 DEF Claim, Resent, Envelope, Fingerprint
<1>3. ASSUME NEW r \in Requests, Vanished(r) \/ Unreplayable(r)
      PROVE (Asked /\ AnswersItsQuestion)'
  BY <1>3 DEF Vanished, Unreplayable
<1>4. ASSUME NEW r \in Requests, FailsOpen(r)
      PROVE (Asked /\ AnswersItsQuestion)'
  BY <1>4 DEF FailsOpen, Envelope, Fingerprint
<1>5. ASSUME NEW r \in Requests, Resolve(r) \/ TurnFails(r) \/ ReadHit(r)
                 \/ ReadMiss(r) \/ FirstFrame(r)
      PROVE (Asked /\ AnswersItsQuestion)'
  <2>1. body[r].q \in Questions
    BY BodiesAssumption
  <2> QED
    BY <1>5, <2>1 DEF Resolve, TurnFails, ReadHit, ReadMiss, FirstFrame
<1>6. ASSUME NEW r \in Requests, StreamFails(r) \/ Played(r) \/ Append(r)
      PROVE (Asked /\ AnswersItsQuestion)'
  BY <1>6 DEF StreamFails, Played, Append
<1>7. ASSUME NEW r \in Requests, NEW clean \in BOOLEAN,
             Answered(r, clean) \/ StreamDone(r, clean)
      PROVE (Asked /\ AnswersItsQuestion)'
  BY <1>7 DEF Answered, StreamDone
<1>8. ASSUME NEW r \in Requests, StoreRow(r) \/ Put(r) \/ Commit(r)
      PROVE (Asked /\ AnswersItsQuestion)'
  BY <1>8 DEF StoreRow, Put, Commit, Store
<1>9. ASSUME NEW r \in Requests, Complete(r) \/ Release(r)
      PROVE (Asked /\ AnswersItsQuestion)'
  BY <1>9 DEF Complete, Release, Envelope, Fingerprint
<1>10. ASSUME NEW r \in Requests, SettleFails(r) \/ StoreFails(r)
      PROVE (Asked /\ AnswersItsQuestion)'
  BY <1>10 DEF SettleFails, StoreFails, Drop
<1>11. ASSUME NEW r \in Requests, ReaderLeaves(r) \/ Dies(r)
      PROVE (Asked /\ AnswersItsQuestion)'
  BY <1>11 DEF ReaderLeaves, Dies, Drop
<1>12. CASE Expire
  BY <1>12 DEF Expire
<1>13. ASSUME NEW q \in Questions, CacheExpires(q) PROVE (Asked /\ AnswersItsQuestion)'
  BY <1>13 DEF CacheExpires
<1>14. CASE UNCHANGED vars
  BY <1>14 DEF vars
<1> QED
  BY <1>1, <1>2, <1>3, <1>4, <1>5, <1>6, <1>7,
     <1>8, <1>9, <1>10, <1>11, <1>12, <1>13, <1>14 DEF Next, Step, AllOver

(* A claim is completed after its row, or in a live stream just before it.   *)
LEMMA RowsStep ==
    TypeOK /\ Places /\ Rows /\ ReplayableIsStored /\ [Next]_vars
        => (Rows /\ ReplayableIsStored)'
<1> SUFFICES ASSUME TypeOK, Places, Rows, ReplayableIsStored, [Next]_vars
             PROVE (Rows /\ ReplayableIsStored)'
  OBVIOUS
<1> USE NoEnvelopeTyped, RequestsAssumption
    DEF TypeOK, Answers, Goto, End, Serving,
        Rows, ReplayableIsStored, Places, Live, Hit
<1>1. ASSUME NEW r \in Requests, NoKey(r) \/ Taken(r) \/ Conflict(r)
                 \/ FindsDone(r) \/ Replay(r)
      PROVE (Rows /\ ReplayableIsStored)'
  BY <1>1 DEF NoKey, Taken, Conflict, FindsDone, Replay
<1>2. ASSUME NEW r \in Requests, Claim(r) \/ Resent(r)
      PROVE (Rows /\ ReplayableIsStored)'
  BY <1>2 DEF Claim, Resent, Envelope, Fingerprint
<1>3. ASSUME NEW r \in Requests, Vanished(r) \/ Unreplayable(r)
      PROVE (Rows /\ ReplayableIsStored)'
  BY <1>3 DEF Vanished, Unreplayable
<1>4. ASSUME NEW r \in Requests, FailsOpen(r)
      PROVE (Rows /\ ReplayableIsStored)'
  BY <1>4 DEF FailsOpen, Envelope, Fingerprint
<1>5. ASSUME NEW r \in Requests, Resolve(r) \/ TurnFails(r) \/ ReadHit(r)
                 \/ ReadMiss(r) \/ FirstFrame(r)
      PROVE (Rows /\ ReplayableIsStored)'
  BY <1>5 DEF Resolve, TurnFails, ReadHit, ReadMiss, FirstFrame
<1>6. ASSUME NEW r \in Requests, StreamFails(r) \/ Played(r) \/ Append(r)
      PROVE (Rows /\ ReplayableIsStored)'
  BY <1>6 DEF StreamFails, Played, Append
<1>7. ASSUME NEW r \in Requests, NEW clean \in BOOLEAN,
             Answered(r, clean) \/ StreamDone(r, clean)
      PROVE (Rows /\ ReplayableIsStored)'
  BY <1>7 DEF Answered, StreamDone
<1>8. ASSUME NEW r \in Requests, StoreRow(r) \/ Put(r) \/ Commit(r)
      PROVE (Rows /\ ReplayableIsStored)'
  BY <1>8 DEF StoreRow, Put, Commit, Store
<1>9. ASSUME NEW r \in Requests, Complete(r) \/ Release(r)
      PROVE (Rows /\ ReplayableIsStored)'
  BY <1>9 DEF Complete, Release, Envelope, Fingerprint
<1>10. ASSUME NEW r \in Requests, SettleFails(r) \/ StoreFails(r)
      PROVE (Rows /\ ReplayableIsStored)'
  BY <1>10 DEF SettleFails, StoreFails, Drop
<1>11. ASSUME NEW r \in Requests, ReaderLeaves(r) \/ Dies(r)
      PROVE (Rows /\ ReplayableIsStored)'
  BY <1>11 DEF ReaderLeaves, Dies, Drop
<1>12. CASE Expire
  BY <1>12 DEF Expire
<1>13. ASSUME NEW q \in Questions, CacheExpires(q) PROVE (Rows /\ ReplayableIsStored)'
  BY <1>13 DEF CacheExpires
<1>14. CASE UNCHANGED vars
  BY <1>14 DEF vars
<1> QED
  BY <1>1, <1>2, <1>3, <1>4, <1>5, <1>6, <1>7,
     <1>8, <1>9, <1>10, <1>11, <1>12, <1>13, <1>14 DEF Next, Step, AllOver

-----------------------------------------------------------------------------
(* The inductive invariant of the claim, the cache and the rows.             *)
IInv ==
    /\ TypeOK /\ Places /\ Owned /\ Locked
    /\ Cached /\ CachedIsWhole /\ Asked /\ AnswersItsQuestion
    /\ Rows /\ ReplayableIsStored

(* It holds at first and after every step.                                   *)
LEMMA Inductive == Spec => []IInv
<1>1. Init => TypeOK
  BY FaultsAssumption, NoEnvelopeTyped DEF Init, TypeOK, Answers
<1>2. Init => Places /\ Owned /\ Locked
  BY NoEnvelopeTyped DEF Init, Places, Owned, Locked, Holds, Serving
<1>3. Init => Cached /\ CachedIsWhole /\ Asked /\ AnswersItsQuestion
  BY NoEnvelopeTyped DEF Init, Cached, CachedIsWhole, Asked, AnswersItsQuestion
<1>4. Init => Rows /\ ReplayableIsStored
  BY NoEnvelopeTyped DEF Init, Rows, ReplayableIsStored
<1>5. IInv /\ [Next]_vars => IInv'
  BY TypeStep, PlacesStep, OwnedStep, LockedStep, CachedStep, AskedStep, RowsStep DEF IInv
<1> QED
  BY <1>1, <1>2, <1>3, <1>4, <1>5, PTL DEF Spec, IInv

(* Keys, cache, tickets and rows stay well formed in every behaviour.        *)
THEOREM TypeCorrect == Spec => []TypeOK
<1>1. IInv => TypeOK
  BY DEF IInv
<1> QED
  BY <1>1, Inductive, PTL

(* SET NX gives a key one turn: as long as nobody went ahead without having  *)
(* set it, any number of retries are served one at a time and store one      *)
(* answer before the key expires.                                            *)
THEOREM OneTurnCorrect == Spec => []OneTurnPerKey
<1>1. IInv => OneTurnPerKey
  BY DEF IInv, Owned, OneTurnPerKey, TypeOK
<1> QED
  BY <1>1, Inductive, PTL

(* A key that is locked behind a finished request was left so by a reader    *)
(* who went, a lost or resent command, a failed transaction or a crash.      *)
THEOREM LockCorrect == Spec => []OnlyDroppedTicketsLock
<1>1. IInv => OnlyDroppedTicketsLock
  BY DEF IInv, Locked, OnlyDroppedTicketsLock, Serving
<1> QED
  BY <1>1, Inductive, PTL

(* The provider's answer, a cached one and a replayed one are all answers to *)
(* the question that was asked.                                              *)
THEOREM AnswerCorrect == Spec => []AnswersItsQuestion
<1>1. IInv => AnswersItsQuestion
  BY DEF IInv
<1> QED
  BY <1>1, Inductive, PTL

(* No degraded or truncated answer is ever in the exact cache.               *)
THEOREM CacheCorrect == Spec => []CachedIsWhole
<1>1. IInv => CachedIsWhole
  BY DEF IInv
<1> QED
  BY <1>1, Inductive, PTL

(* A replay shows what the transcript holds, but for a live stream cut       *)
(* between the claim's completion and the commit.                            *)
THEOREM ReplayCorrect == Spec => []ReplayableIsStored
<1>1. IInv => ReplayableIsStored
  BY DEF IInv
<1> QED
  BY <1>1, Inductive, PTL

(* For any number of requests and any bodies on one key, no caller is given  *)
(* an answer to another question, and no degraded or truncated answer is     *)
(* shared (api/v1/chat.py, cache/exact.py).                                  *)
THEOREM RightAnswerCorrect == Spec => []ServesTheRightAnswer
<1>1. TypeOK /\ AnswersItsQuestion /\ CachedIsWhole => ServesTheRightAnswer
  BY DEF ServesTheRightAnswer
<1> QED BY <1>1, TypeCorrect, AnswerCorrect, CacheCorrect, PTL

=============================================================================
