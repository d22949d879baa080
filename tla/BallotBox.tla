------------------------------ MODULE BallotBox ------------------------------
(***************************************************************************)
(* What VotingManager promises where every vote weighs the same: a box     *)
(* with at most one ballot per client and operation, and tallies that are  *)
(* at every moment the count of the box.  Ballots go in, change and come   *)
(* out one at a time.                                                      *)
(***************************************************************************)
EXTENDS Integers, FiniteSets

CONSTANTS Clients, Ops, VoteTypes, NoVote, Weight

VARIABLES ballots,   \* the ballot of each client for each operation
          tally      \* Voters and Supporters of each operation

vars == <<ballots, tally>>

Votes(b, o, kinds) == Weight * Cardinality({c \in Clients : b[c][o] \in kinds})

Count(b) == [o \in Ops |-> [voters     |-> Votes(b, o, {"Support", "Against"}),
                            supporters |-> Votes(b, o, {"Support"})]]

Init ==
  /\ ballots = [c \in Clients |-> [o \in Ops |-> NoVote]]
  /\ tally = Count(ballots)

Put(c, o, v) ==
  /\ ballots' = [ballots EXCEPT ![c][o] = v]
  /\ tally' = Count(ballots')

Next == \E c \in Clients, o \in Ops, v \in VoteTypes \cup {NoVote} : Put(c, o, v)

Spec == Init /\ [][Next]_vars
=============================================================================
