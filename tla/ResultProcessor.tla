-------------------------- MODULE ResultProcessor --------------------------
(***************************************************************************)
(* ResultProcessor and KeyboardInjector (server), driven by the tallies of *)
(* VotingManager: each change of a tally is evaluated against the rules of *)
(* its profile, one rule after the other, with managerLock held, and a key *)
(* or an output line is sent when the state of a rule flips.               *)
(*                                                                         *)
(* Sending may get lost without a word (an unknown key, no display, a      *)
(* broken pipe) and, for a key, throw (no library and no xdotool).  The    *)
(* exception ends the handler that changed the tally: a ballot is then     *)
(* counted but not recorded, and a cleanup thread takes the process with   *)
(* it.  The operating system keeps the keys as they are when the process   *)
(* ends.                                                                   *)
(*                                                                         *)
(* A support rate is a number of hundredths.  Comparing the quotient as a  *)
(* double is comparing exactly for tallies below 2^31.                     *)
(***************************************************************************)
EXTENDS Integers, Sequences, FiniteSetsExt, Functions

CONSTANTS
  Clients,
  Weight,        \* VoteMultiplier of each client's user
  Ballots,       \* the votes clients send
  Profiles,      \* names of the profiles
  VoteResults,   \* the rules of each profile
  MaxFaults      \* bound on the actions that get lost or throw

\* An absent requirement is {}, a present one {r}.
Rules == [kind : {"PressKey", "Output"}, target : STRING, requireVoters : SUBSET Int,
          requireSupporters : SUBSET Int, requireSupportRate : SUBSET Int]

ASSUME RulesAssumption ==
  /\ IsFiniteSet(Clients) /\ Weight \in [Clients -> Int]
  /\ Ballots \subseteq {"Support", "Against", "Abstain"}
  /\ VoteResults \in [Profiles -> Seq(Rules)]
  /\ MaxFaults \in Nat

Rule(p, i) == VoteResults[p][i]
RuleIds == UNION {{p} \X DOMAIN VoteResults[p] : p \in Profiles}

\* The key of a rule in _keyStateCache or _outputStateCache, and what it drives.
StateKey(p, r) == <<p, r.kind, r.target>>
Device(r) == <<r.kind, r.target>>
StateKeys == {StateKey(id[1], Rule(id[1], id[2])) : id \in RuleIds}
Devices == {Device(Rule(id[1], id[2])) : id \in RuleIds}

NoVote == "none"
NoVotes == [p \in Profiles |-> NoVote]
Nobody == [handler |-> "idle", client |-> "", votes |-> NoVotes, profile |-> "", next |-> 0]

VARIABLES
  votes,       \* _clientVotes: the recorded ballots
  tally,       \* _tallies
  stateCache,  \* _keyStateCache and _outputStateCache; "none" is no entry
  device,      \* the last that each key or output was sent
  call,        \* the handler that has managerLock: [handler, client, votes, profile, next]
  missed,      \* devices that the last flip did not reach (history)
  skipped,     \* profiles whose last evaluation an exception cut short (history)
  lost,        \* number of actions lost so far (history)
  throws       \* number of exceptions of InjectKey so far (history)

ruleVars == <<votes, tally, stateCache, device, call, missed, skipped, lost, throws>>

Empty == [p \in Profiles |-> [voters |-> 0, supporters |-> 0]]
Unseen == [k \in StateKeys |-> "none"]

RuleInit ==
  /\ votes = [c \in Clients |-> NoVotes] /\ tally = Empty /\ stateCache = Unseen
  /\ call = Nobody /\ missed = {} /\ skipped = {}
  /\ device = [d \in Devices |-> "Release"]
  /\ lost = 0 /\ throws = 0

-----------------------------------------------------------------------------
(* What a rule says of a tally.                                            *)

CheckRule(value, requirement) ==
  \A r \in requirement : IF r < 0 THEN value <= r ELSE value >= r

\* A mutant of RateAtLeast: no test for a room without voters.
RateAtLeastUnguarded(t, r) == 100 * t.supporters >= r * t.voters

\* currentRate compared with r hundredths; without voters the rate is 0.
RateAtLeast(t, r) == IF t.voters > 0 THEN 100 * t.supporters >= r * t.voters ELSE 0 >= r
RateAtMost(t, r)  == IF t.voters > 0 THEN 100 * t.supporters <= r * t.voters ELSE 0 <= r

CheckRate(t, requirement) ==
  \A r \in requirement : IF r < 0 THEN RateAtMost(t, r) ELSE RateAtLeast(t, r)

\* An output rule without a rate is never met, and a negative rate is a minimum.
CurrentState(r, t) ==
  LET met == IF r.kind = "PressKey"
             THEN /\ CheckRule(t.voters, r.requireVoters)
                  /\ CheckRule(t.supporters, r.requireSupporters)
                  /\ CheckRate(t, r.requireSupportRate)
             ELSE \E q \in r.requireSupportRate : RateAtLeast(t, q)
  IN IF met THEN "Hold" ELSE "Release"

-----------------------------------------------------------------------------
(* The handlers of VotingManager that change a tally.                      *)

Counted(t, v, w) ==
  [voters     |-> t.voters     + (IF v \in {"Support", "Against"} THEN w ELSE 0),
   supporters |-> t.supporters + (IF v = "Support" THEN w ELSE 0)]

\* A mutant of HandleOperationReceived: the first rule is number 0.
ReceiveFromZero(c, p, v) ==
  /\ call = Nobody
  /\ tally' = [tally EXCEPT ![p] = Counted(Counted(@, votes[c][p], -Weight[c]), v, Weight[c])]
  /\ call' = [handler |-> "vote", client |-> c, votes |-> [NoVotes EXCEPT ![p] = v],
              profile |-> p, next |-> 0]
  /\ UNCHANGED <<votes, stateCache, device, missed, skipped, lost, throws>>

\* A mutant of HandleOperationReceived: the previous vote is not removed.
ReceiveAddsOnly(c, p, v) ==
  /\ call = Nobody
  /\ tally' = [tally EXCEPT ![p] = Counted(@, v, Weight[c])]
  /\ call' = [handler |-> "vote", client |-> c, votes |-> [NoVotes EXCEPT ![p] = v],
              profile |-> p, next |-> 1]
  /\ UNCHANGED <<votes, stateCache, device, missed, skipped, lost, throws>>

\* HandleOperationReceived counts the ballot; it is recorded when the
\* subscribers of OnOperationCountChanged have returned.
HandleOperationReceived(c, p, v) ==
  /\ call = Nobody
  /\ tally' = [tally EXCEPT ![p] = Counted(Counted(@, votes[c][p], -Weight[c]), v, Weight[c])]
  /\ call' = [handler |-> "vote", client |-> c, votes |-> [NoVotes EXCEPT ![p] = v],
              profile |-> p, next |-> 1]
  /\ UNCHANGED <<votes, stateCache, device, missed, skipped, lost, throws>>

\* HandleClientDisconnected takes the ballots of the client out ...
HandleClientDisconnected(c) ==
  /\ call = Nobody /\ votes[c] # NoVotes
  /\ votes' = [votes EXCEPT ![c] = NoVotes]
  /\ call' = [handler |-> "leave", client |-> c, votes |-> votes[c], profile |-> "", next |-> 0]
  /\ UNCHANGED <<tally, stateCache, device, missed, skipped, lost, throws>>

\* ... and out of the tallies, one operation after the other.
StripVote(p) ==
  /\ call.handler = "leave" /\ call.next = 0 /\ call.votes[p] # NoVote
  /\ tally' = [tally EXCEPT ![p] = Counted(@, call.votes[p], -Weight[call.client])]
  /\ call' = [call EXCEPT !.votes[p] = NoVote, !.profile = p, !.next = 1]
  /\ UNCHANGED <<votes, stateCache, device, missed, skipped, lost, throws>>

-----------------------------------------------------------------------------
(* ProcessMetricUpdate: rule call.next of profile call.profile.            *)

Evaluating == call.next > 0 /\ call.next <= Len(VoteResults[call.profile])
ThisRule == Rule(call.profile, call.next)
ThisKey == StateKey(call.profile, ThisRule)
ThisState == CurrentState(ThisRule, tally[call.profile])

SameState ==
  /\ Evaluating /\ stateCache[ThisKey] = ThisState
  /\ call' = [call EXCEPT !.next = @ + 1]
  /\ UNCHANGED <<votes, tally, stateCache, device, missed, skipped, lost, throws>>

\* A mutant of Trigger: the first evaluation only fills the cache.
TriggerFlipsOnly ==
  /\ Evaluating /\ stateCache[ThisKey] # ThisState
  /\ stateCache' = [stateCache EXCEPT ![ThisKey] = ThisState]
  /\ device' = [device EXCEPT ![Device(ThisRule)] =
                  IF stateCache[ThisKey] = "none" THEN @ ELSE ThisState]
  /\ call' = [call EXCEPT !.next = @ + 1]
  /\ UNCHANGED <<votes, tally, missed, skipped, lost, throws>>

\* The first evaluation or a flip: the cache is set and then the action is
\* triggered, which may get lost.
Trigger ==
  /\ Evaluating /\ stateCache[ThisKey] # ThisState
  /\ stateCache' = [stateCache EXCEPT ![ThisKey] = ThisState]
  /\ \/ /\ device' = [device EXCEPT ![Device(ThisRule)] = ThisState]
        /\ missed' = missed \ {Device(ThisRule)}
        /\ UNCHANGED lost
     \/ /\ lost + throws < MaxFaults
        /\ lost' = lost + 1
        /\ missed' = missed \cup {Device(ThisRule)}
        /\ UNCHANGED device
  /\ call' = [call EXCEPT !.next = @ + 1]
  /\ UNCHANGED <<votes, tally, skipped, throws>>

\* InjectKey throws out of the handler: an operation's exception is reported
\* and dropped, with the ballot unrecorded.
TriggerThrows ==
  /\ Evaluating /\ stateCache[ThisKey] # ThisState
  /\ ThisRule.kind = "PressKey" /\ lost + throws < MaxFaults /\ call.handler = "vote"
  /\ stateCache' = [stateCache EXCEPT ![ThisKey] = ThisState]
  /\ missed' = missed \cup {Device(ThisRule)}
  /\ skipped' = skipped \cup {call.profile}
  /\ throws' = throws + 1
  /\ call' = Nobody
  /\ UNCHANGED <<votes, tally, device, lost>>

\* A cleanup thread's exception ends the process, as the operator may; the
\* next process starts with what the keys were left at.
Stop ==
  /\ \/ call = Nobody
     \/ call.handler = "leave" /\ Evaluating /\ ThisRule.kind = "PressKey"
        /\ stateCache[ThisKey] # ThisState
  /\ votes' = [c \in Clients |-> NoVotes] /\ tally' = Empty /\ stateCache' = Unseen
  /\ call' = Nobody /\ missed' = {} /\ skipped' = {}
  /\ UNCHANGED <<device, lost, throws>>

\* The subscribers have returned.
EvaluationEnds ==
  /\ call.next > 0 /\ ~Evaluating
  /\ skipped' = skipped \ {call.profile}
  /\ \/ /\ call.handler = "vote"
        /\ votes' = [votes EXCEPT ![call.client][call.profile] = call.votes[call.profile]]
        /\ call' = Nobody
     \/ /\ call.handler = "leave"
        /\ call' = IF call.votes = NoVotes THEN Nobody ELSE [call EXCEPT !.next = 0]
        /\ UNCHANGED votes
  /\ UNCHANGED <<tally, stateCache, device, missed, lost, throws>>

RuleNext ==
  \/ \E c \in Clients, p \in Profiles, v \in Ballots : HandleOperationReceived(c, p, v)
  \/ \E c \in Clients : HandleClientDisconnected(c)
  \/ \E p \in Profiles : StripVote(p)
  \/ SameState \/ Trigger \/ TriggerThrows \/ Stop \/ EvaluationEnds

RuleSpec == RuleInit /\ [][RuleNext]_ruleVars

-----------------------------------------------------------------------------
Calls == [handler : {"idle", "vote", "leave"}, client : Clients \cup {""},
          votes : [Profiles -> Ballots \cup {NoVote}], profile : Profiles \cup {""},
          next : Nat]

\* A tally is a pair of numbers, a device has a state, and the call in
\* progress is at a rule of its profile or just behind the last.
RuleTypeOK ==
  /\ votes \in [Clients -> [Profiles -> Ballots \cup {NoVote}]]
  /\ tally \in [Profiles -> [voters : Int, supporters : Int]]
  /\ stateCache \in [StateKeys -> {"none", "Hold", "Release"}]
  /\ device \in [Devices -> {"Hold", "Release"}]
  /\ call \in Calls
  /\ call.handler = "idle" => call = Nobody
  /\ call.handler # "idle" => call.client \in Clients
  /\ call.handler = "vote" => call.next > 0
  /\ call.next > 0 => /\ call.profile \in Profiles
                      /\ call.next <= Len(VoteResults[call.profile]) + 1
  /\ missed \subseteq Devices /\ skipped \subseteq Profiles
  /\ lost \in 0 .. MaxFaults /\ throws \in 0 .. MaxFaults

\* No other rule drives the device of rule i of profile p.
Alone(p, i) ==
  \A id \in RuleIds : Device(Rule(id[1], id[2])) = Device(Rule(p, i)) => id = <<p, i>>

\* Once a profile has been evaluated, its key is down exactly when the tally
\* of the moment meets its rule: no flip is lost between two votes, and the
\* state a dead process left is put right by the first evaluation.  Excepted
\* are keys that several rules drive, flips that were lost on the way, and a
\* profile whose evaluation an exception cut short, until the next one.
KeysFollowTally ==
  call = Nobody =>
    \A id \in RuleIds :
      LET p == id[1] r == Rule(id[1], id[2]) IN
      /\ Alone(p, id[2]) /\ p \notin skipped /\ Device(r) \notin missed
      /\ stateCache[StateKey(p, r)] # "none"
      => device[Device(r)] = CurrentState(r, tally[p])

\* What the ballots b say of an operation: the weight of those of some kinds.
Sum(b, p, kinds) ==
  SumFunction([c \in Clients |-> IF b[c][p] \in kinds THEN Weight[c] ELSE 0])

Size(w) == IF w < 0 THEN -w ELSE w
Heaviest == Max({Size(Weight[c]) : c \in Clients} \cup {0})
Bounded(extra) == -(throws * Heaviest) <= extra /\ extra <= throws * Heaviest

\* The tallies are those of the ballots b up to one ballot per exception.
CountsUpToThrows(b) ==
  \A p \in Profiles :
    /\ Bounded(tally[p].voters - Sum(b, p, {"Support", "Against"}))
    /\ Bounded(tally[p].supporters - Sum(b, p, {"Support"}))

\* An exception of InjectKey costs the tally no more than the one ballot it
\* interrupted, however often that ballot is sent again.
PhantomsBounded == call = Nobody => CountsUpToThrows(votes)

\* The ballots that have been counted: those recorded, the one that a vote in
\* progress will record, and those that a departure has still to take out.
BallotOf(c, p) ==
  IF /\ call.client = c
     /\ \/ call.handler = "leave"
        \/ call.handler = "vote" /\ call.profile = p
  THEN call.votes[p] ELSE votes[c][p]
CountedBallots == [c \in Clients |-> [p \in Profiles |-> BallotOf(c, p)]]

\* PhantomsBounded at every step of a handler.
PhantomInv ==
  /\ CountsUpToThrows(CountedBallots)
  /\ call.handler = "leave" => votes[call.client] = NoVotes
  /\ throws = 0 => skipped = {}

\* When nobody has a ballot any more, no key is left down whose rule asks for
\* a supporter, a voter or a positive rate: after the last one leaves, the
\* game is left alone.
EmptyRoomReleases ==
  (call = Nobody /\ throws = 0 /\ votes = [c \in Clients |-> NoVotes]) =>
    \A id \in RuleIds :
      LET p == id[1] r == Rule(id[1], id[2]) IN
      /\ r.kind = "PressKey" /\ Alone(p, id[2]) /\ Device(r) \notin missed
      /\ stateCache[StateKey(p, r)] # "none"
      /\ \E q \in r.requireVoters \cup r.requireSupporters \cup r.requireSupportRate : q > 0
      => device[Device(r)] = "Release"
=============================================================================
