--------------------------- MODULE MCUserDatabase ---------------------------
(* UserDatabase with two spellings of one name and another name, for TLC.   *)
EXTENDS UserDatabase

Folded == [n \in Names |-> IF n = "Alice" THEN "alice" ELSE n]

\* ApiKey is treated as VoteMultiplier is.
TwoColumns == <<"VoteMultiplier", "SessionsLimit">>
=============================================================================
