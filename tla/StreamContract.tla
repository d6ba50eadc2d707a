--------------------------- MODULE StreamContract ---------------------------
(***************************************************************************)
(* What a streamed turn promises whoever reads it, from its events alone:  *)
(* the four shapes of streaming/sse.py and the rules of D1 and D13.        *)
(* Nothing is said until a candidate speaks; what is on screen is always   *)
(* one attempt of the candidate that is named; a restart clears it and     *)
(* names another candidate; done is final.                                 *)
(***************************************************************************)
EXTENDS Integers, Sequences

CONSTANTS Candidates, Attempts, MaxRestarts

VARIABLES
    phase,    \* silent, speaking, or how it ended
    screen,   \* the text shown: one [attempt, cand] per delta
    by,       \* the candidate the reader is told of
    cleared   \* restarts so far

contractVars == <<phase, screen, by, cleared>>

ContractInit == phase = "silent" /\ screen = <<>> /\ by = 0 /\ cleared = 0

(* meta: the first byte.                                                     *)
Opens(c) ==
    /\ phase = "silent"
    /\ phase' = "speaking" /\ by' = c /\ UNCHANGED <<screen, cleared>>

(* delta: more text of the attempt on screen, by the candidate named.        *)
Says(n) ==
    /\ phase = "speaking"
    /\ \A i \in DOMAIN screen : screen[i].attempt = n
    /\ screen' = Append(screen, [attempt |-> n, cand |-> by])
    /\ UNCHANGED <<phase, by, cleared>>

(* restart: all of it withdrawn, another candidate takes over.               *)
Restarts(c) ==
    /\ phase = "speaking" /\ screen # <<>> /\ c # by /\ cleared < MaxRestarts
    /\ screen' = <<>> /\ by' = c /\ cleared' = cleared + 1 /\ UNCHANGED phase

(* done: an answer, never an empty one, by the candidate named.              *)
Finishes ==
    /\ phase = "speaking" /\ screen # <<>>
    /\ phase' = "ok" /\ UNCHANGED <<screen, by, cleared>>

(* done, or the end of the connection: a failure, and the text is withdrawn. *)
Fails(c) ==
    /\ phase \in {"silent", "speaking"}
    /\ phase' = "failed" /\ screen' = <<>> /\ by' = c /\ UNCHANGED cleared

(* The reader stops it.                                                      *)
Abandons ==
    /\ phase \in {"silent", "speaking"}
    /\ phase' = "unsaved" /\ UNCHANGED <<screen, by, cleared>>

(* An error envelope instead of a stream.                                    *)
Refuses ==
    /\ phase = "silent"
    /\ phase' = "refused" /\ UNCHANGED <<screen, by, cleared>>

ContractNext ==
    \/ \E c \in Candidates : Opens(c) \/ Restarts(c)
    \/ \E n \in Attempts : Says(n)
    \/ \E c \in Candidates \cup {0} : Fails(c)
    \/ Finishes \/ Abandons \/ Refuses

ContractSpec == ContractInit /\ [][ContractNext]_contractVars
=============================================================================
