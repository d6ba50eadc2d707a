--------------------------- MODULE MCChatEndpoint ---------------------------
(* Small instances of ChatEndpoint: interchangeable requests that ask one    *)
(* question plainly or as a stream, or another one plainly.                  *)
EXTENDS ChatEndpoint, TLC

CONSTANTS qa, qb

AskedBodies == {[q |-> qa, stream |-> FALSE], [q |-> qa, stream |-> TRUE],
                [q |-> qb, stream |-> FALSE]}
Symmetry == Permutations(Requests)
=============================================================================
