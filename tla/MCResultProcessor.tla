------------------------- MODULE MCResultProcessor -------------------------
(* ResultProcessor with rules like those of server/config.json, for TLC.    *)
EXTENDS ResultProcessor

OneAndTwo == [c \in Clients |-> IF c = "c1" THEN 1 ELSE 2]

Press(key, voters, supporters, rate) ==
  [kind |-> "PressKey", target |-> key, requireVoters |-> voters,
   requireSupporters |-> supporters, requireSupportRate |-> rate]

Output(id, rate) ==
  [kind |-> "Output", target |-> id, requireVoters |-> {}, requireSupporters |-> {},
   requireSupportRate |-> rate]

\* Half the votes, a negative rate, thresholds on the numbers, and an output
\* that two profiles drive.
SampleRules ==
  [p \in Profiles |->
     IF p = "jump"
     THEN <<Press("space", {}, {}, {50}), Output("antiJump", {-20})>>
     ELSE <<Press("a", {2}, {1}, {}), Output("antiJump", {50})>>]
=============================================================================
