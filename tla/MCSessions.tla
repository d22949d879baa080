----------------------------- MODULE MCSessions -----------------------------
(* Sessions with small sets of clients and users, for TLC.                 *)
EXTENDS Sessions

Unlimited == [u \in Users |-> NoLimit]
OneEach == [u \in Users |-> 1]
AllOnes == [u \in AllUsers |-> 1]
=============================================================================
