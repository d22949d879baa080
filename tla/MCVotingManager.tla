--------------------------- MODULE MCVotingManager ---------------------------
(* VotingManager with small sets of clients, users and operations, for TLC. *)
EXTENDS VotingManager, TLC

Unlimited == [u \in Users |-> NoLimit]

\* Anonymous weighs 1, registered users 2.
AnonOneUsersTwo == [u \in AllUsers |-> IF u = Anon THEN 1 ELSE 2]

AllTwo == [u \in AllUsers |-> 2]

\* Clients are interchangeable in every action and every safety property.
Symmetry == Permutations(Clients)
=============================================================================
