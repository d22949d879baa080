----------------------- MODULE ResultProcessor_proofs -----------------------
(***************************************************************************)
(* KeysFollowTally for any clients, weights, profiles and rules.  A device *)
(* follows the cache at every step; the cache follows the tally for every  *)
(* rule that the evaluation in progress has passed.                        *)
(*                                                                         *)
(* And PhantomsBounded: what a tally is more or less than its ballots, the *)
(* one under way included, changes with an exception only, by one weight.  *)
(* Sums over the clients are those of SumTheorems.                         *)
(***************************************************************************)
EXTENDS ResultProcessor, SumTheorems

\* What a rule that drives its device alone has last cached is what the device
\* was sent, unless that got lost.
DeviceFollowsCache ==
  \A p \in Profiles : \A i \in DOMAIN VoteResults[p] :
    /\ Alone(p, i) /\ Device(Rule(p, i)) \notin missed
    /\ stateCache[StateKey(p, Rule(p, i))] # "none"
    => device[Device(Rule(p, i))] = stateCache[StateKey(p, Rule(p, i))]

\* The rule is cached as the tally has it.
Current(p, i) ==
  stateCache[StateKey(p, Rule(p, i))] # "none" =>
    stateCache[StateKey(p, Rule(p, i))] = CurrentState(Rule(p, i), tally[p])

EvaluatingProfile(p) == call.next > 0 /\ call.profile = p

CacheFollowsTally ==
  \A p \in Profiles : \A i \in DOMAIN VoteResults[p] :
    /\ Alone(p, i)
    /\ IF EvaluatingProfile(p) THEN i < call.next ELSE p \notin skipped
    => Current(p, i)

RuleInv == RuleTypeOK /\ DeviceFollowsCache /\ CacheFollowsTally

-----------------------------------------------------------------------------
(* Facts about the rules.                                                  *)

LEMMA RuleMembers ==
  ASSUME NEW p \in Profiles, NEW i \in DOMAIN VoteResults[p]
  PROVE  /\ <<p, i>> \in RuleIds
         /\ StateKey(p, Rule(p, i)) \in StateKeys
         /\ Device(Rule(p, i)) \in Devices
  <1>1. <<p, i>> \in RuleIds  BY DEF RuleIds
  <1>2. StateKey(<<p, i>>[1], Rule(<<p, i>>[1], <<p, i>>[2])) \in StateKeys  BY <1>1 DEF StateKeys
  <1>3. Device(Rule(<<p, i>>[1], <<p, i>>[2])) \in Devices  BY <1>1 DEF Devices
  <1> QED  BY <1>1, <1>2, <1>3

LEMMA AloneIsUnique ==
  ASSUME NEW p \in Profiles, NEW i \in DOMAIN VoteResults[p],
         NEW q \in Profiles, NEW j \in DOMAIN VoteResults[q],
         Alone(p, i), Device(Rule(q, j)) = Device(Rule(p, i))
  PROVE  q = p /\ j = i
  <1>1. <<q, j>> \in RuleIds  BY RuleMembers
  <1>2. Device(Rule(<<q, j>>[1], <<q, j>>[2])) = Device(Rule(p, i)) => <<q, j>> = <<p, i>>
    BY <1>1 DEF Alone
  <1> QED  BY <1>2

LEMMA KeyHasDevice ==
  ASSUME NEW p, NEW q, NEW r, NEW s, StateKey(p, r) = StateKey(q, s)
  PROVE  Device(r) = Device(s)
  BY DEF StateKey, Device

LEMMA StateIsState == \A r, t : CurrentState(r, t) \in {"Hold", "Release"}
  BY DEF CurrentState

LEMMA RulesAreNumbered ==
  ASSUME NEW p \in Profiles
  PROVE  Len(VoteResults[p]) \in Nat /\ DOMAIN VoteResults[p] = 1 .. Len(VoteResults[p])
  <1>1. VoteResults[p] \in Seq(Rules)  BY RulesAssumption
  <1> QED  BY <1>1

LEMMA Numbers == IsFiniteSet(Clients) /\ Weight \in [Clients -> Int] /\ MaxFaults \in Nat
  BY RulesAssumption

LEMMA WeightIsInt == \A c \in Clients : Weight[c] \in Int /\ -Weight[c] \in Int
  <1>1. \A c \in Clients : Weight[c] \in Int  BY Numbers
  <1> QED  BY <1>1

LEMMA CountedIsTally ==
  ASSUME NEW t \in [voters : Int, supporters : Int], NEW v, NEW w \in Int
  PROVE  Counted(t, v, w) \in [voters : Int, supporters : Int]
  BY DEF Counted

LEMMA NobodyIsCall == Nobody.next = 0 /\ Nobody.handler = "idle" /\ Nobody \in Calls
  BY DEF Nobody, NoVotes, Calls

\* The rule that is evaluated is a rule of a profile.
LEMMA EvaluatedRule ==
  ASSUME RuleTypeOK, Evaluating
  PROVE  /\ call.profile \in Profiles
         /\ call.next \in DOMAIN VoteResults[call.profile]
         /\ ThisKey \in StateKeys /\ Device(ThisRule) \in Devices
         /\ ThisState \in {"Hold", "Release"} /\ ThisState # "none"
         /\ call.handler # "idle"
  <1>1. call.profile \in Profiles  BY DEF RuleTypeOK, Evaluating
  <1>2. call.next \in DOMAIN VoteResults[call.profile]
    <2>1. call.next \in Nat  BY DEF RuleTypeOK, Calls
    <2>2. call.next > 0 /\ call.next <= Len(VoteResults[call.profile])  BY DEF Evaluating
    <2> QED  BY <1>1, <2>1, <2>2, RulesAreNumbered
  <1>3. call.handler # "idle"
    <2>1. SUFFICES ASSUME call = Nobody PROVE FALSE  BY DEF RuleTypeOK
    <2>2. call.next = 0  BY <2>1, NobodyIsCall
    <2> QED  BY <2>2 DEF Evaluating
  <1>4. ThisKey \in StateKeys /\ Device(ThisRule) \in Devices
    BY <1>1, <1>2, RuleMembers DEF ThisKey, ThisRule
  <1>5. ThisState \in {"Hold", "Release"}  BY StateIsState DEF ThisState
  <1> QED  BY <1>1, <1>2, <1>3, <1>4, <1>5

-----------------------------------------------------------------------------
(* The type invariant.                                                     *)

\* The part of the type invariant that is about the call in progress.
CallOK ==
  /\ call \in Calls
  /\ call.handler = "idle" => call = Nobody
  /\ call.handler # "idle" => call.client \in Clients
  /\ call.handler = "vote" => call.next > 0
  /\ call.next > 0 => /\ call.profile \in Profiles
                      /\ call.next <= Len(VoteResults[call.profile]) + 1

LEMMA NobodyOK == ASSUME call' = Nobody PROVE CallOK'
  <1>1. /\ call' \in Calls /\ call'.handler = "idle" /\ call'.next = 0  BY NobodyIsCall
  <1> QED  BY <1>1 DEF CallOK

LEMMA NextIsSet ==
  ASSUME NEW x \in Calls, NEW n \in Nat, NEW y, y = [x EXCEPT !.next = n]
  PROVE  /\ y \in Calls /\ y.handler = x.handler /\ y.client = x.client
         /\ y.profile = x.profile /\ y.next = n
  BY DEF Calls

LEMMA CallKept == ASSUME RuleTypeOK, RuleNext PROVE CallOK'
  <1>0. CallOK  BY DEF RuleTypeOK, CallOK
  <1>1. ASSUME NEW c \in Clients, NEW p \in Profiles, NEW v \in Ballots,
               HandleOperationReceived(c, p, v)
        PROVE  CallOK'
    <2>1. /\ call'.handler = "vote" /\ call'.client = c /\ call'.profile = p /\ call'.next = 1
          /\ call' \in Calls
      BY <1>1 DEF HandleOperationReceived, NoVotes, Calls
    <2>2. 1 <= Len(VoteResults[p]) + 1 /\ 1 > 0
      <3>1. Len(VoteResults[p]) \in Nat  BY RulesAreNumbered
      <3> QED  BY <3>1
    <2> QED  BY <2>1, <2>2 DEF CallOK
  <1>2. ASSUME NEW c \in Clients, HandleClientDisconnected(c) PROVE CallOK'
    <2>1. votes[c] \in [Profiles -> Ballots \cup {NoVote}]  BY DEF RuleTypeOK
    <2>2. /\ call'.handler = "leave" /\ call'.client = c /\ call'.next = 0
          /\ call' \in Calls
      BY <1>2, <2>1 DEF HandleClientDisconnected, Calls
    <2> QED  BY <2>2 DEF CallOK
  <1>3. ASSUME NEW p \in Profiles, StripVote(p) PROVE CallOK'
    <2>1. call \in Calls /\ call.handler = "leave" /\ call.client \in Clients
      BY <1>0, <1>3 DEF StripVote, CallOK
    <2>2. /\ call'.handler = "leave" /\ call'.client = call.client
          /\ call'.profile = p /\ call'.next = 1
          /\ call' \in Calls
      BY <1>3, <2>1 DEF StripVote, Calls
    <2>3. 1 <= Len(VoteResults[p]) + 1
      <3>1. Len(VoteResults[p]) \in Nat  BY RulesAreNumbered
      <3> QED  BY <3>1
    <2> QED  BY <2>1, <2>2, <2>3 DEF CallOK
  <1>4. ASSUME Evaluating, call' = [call EXCEPT !.next = @ + 1] PROVE CallOK'
    <2>1. call \in Calls /\ call.next \in Nat  BY <1>0 DEF CallOK, Calls
    <2>2. /\ call' \in Calls
          /\ call'.handler = call.handler /\ call'.client = call.client
          /\ call'.profile = call.profile /\ call'.next = call.next + 1
      <3>1. call.next + 1 \in Nat  BY <2>1
      <3>2. call' = [call EXCEPT !.next = call.next + 1]  BY <1>4
      <3> QED  BY <2>1, <3>1, <3>2, NextIsSet
    <2>3. /\ call.profile \in Profiles /\ call.next <= Len(VoteResults[call.profile])
          /\ call.next > 0 /\ call.handler # "idle"
      BY <1>4, EvaluatedRule DEF Evaluating
    <2>4. Len(VoteResults[call.profile]) \in Nat  BY <2>3, RulesAreNumbered
    <2>5. call.next + 1 > 0 /\ call.next + 1 <= Len(VoteResults[call.profile]) + 1
      BY <2>1, <2>3, <2>4
    <2> QED  BY <1>0, <2>2, <2>3, <2>5 DEF CallOK
  <1>5. CASE EvaluationEnds
    <2>1. call \in Calls /\ call.next > 0  BY <1>0, <1>5 DEF EvaluationEnds, CallOK
    <2>2. CASE call' = Nobody  BY <2>2, NobodyOK
    <2>3. CASE call.handler = "leave" /\ call' = [call EXCEPT !.next = 0]
      <3>1. /\ call' \in Calls /\ call'.handler = "leave" /\ call'.client = call.client
            /\ call'.next = 0
        BY <2>1, <2>3 DEF Calls
      <3> QED  BY <1>0, <2>3, <3>1 DEF CallOK
    <2> QED  BY <1>5, <2>2, <2>3 DEF EvaluationEnds
  <1>6. CASE SameState  BY <1>4, <1>6 DEF SameState
  <1>7. CASE Trigger  BY <1>4, <1>7 DEF Trigger
  <1>8. CASE TriggerThrows  BY <1>8, NobodyOK DEF TriggerThrows
  <1>9. CASE Stop  BY <1>9, NobodyOK DEF Stop
  <1> QED  BY <1>1, <1>2, <1>3, <1>5, <1>6, <1>7, <1>8, <1>9 DEF RuleNext

LEMMA TypeKept == ASSUME RuleTypeOK, RuleNext PROVE RuleTypeOK'
  <1> DEFINE Tallies == [voters : Int, supporters : Int]
  <1>0. CallOK'  BY CallKept
  <1>1. ASSUME NEW c \in Clients, NEW p \in Profiles, NEW v \in Ballots,
               HandleOperationReceived(c, p, v)
        PROVE  RuleTypeOK'
    <2>1. tally[p] \in Tallies  BY DEF RuleTypeOK
    <2>2. Counted(tally[p], votes[c][p], -Weight[c]) \in Tallies
      BY <2>1, WeightIsInt, CountedIsTally
    <2>3. Counted(Counted(tally[p], votes[c][p], -Weight[c]), v, Weight[c]) \in Tallies
      BY <2>2, WeightIsInt, CountedIsTally
    <2>4. tally' \in [Profiles -> Tallies]
      BY <1>1, <2>3 DEF HandleOperationReceived, RuleTypeOK
    <2> QED  BY <1>0, <1>1, <2>4 DEF HandleOperationReceived, RuleTypeOK, CallOK
  <1>2. ASSUME NEW c \in Clients, HandleClientDisconnected(c) PROVE RuleTypeOK'
    <2>1. votes' \in [Clients -> [Profiles -> Ballots \cup {NoVote}]]
      BY <1>2 DEF HandleClientDisconnected, RuleTypeOK, NoVotes
    <2> QED  BY <1>0, <1>2, <2>1 DEF HandleClientDisconnected, RuleTypeOK, CallOK
  <1>3. ASSUME NEW p \in Profiles, StripVote(p) PROVE RuleTypeOK'
    <2>1. call.client \in Clients  BY <1>3 DEF StripVote, RuleTypeOK
    <2>2. tally[p] \in Tallies  BY DEF RuleTypeOK
    <2>3. Counted(tally[p], call.votes[p], -Weight[call.client]) \in Tallies
      BY <2>1, <2>2, WeightIsInt, CountedIsTally
    <2>4. tally' \in [Profiles -> Tallies]  BY <1>3, <2>3 DEF StripVote, RuleTypeOK
    <2> QED  BY <1>0, <1>3, <2>4 DEF StripVote, RuleTypeOK, CallOK
  <1>4. CASE SameState  BY <1>0, <1>4 DEF SameState, RuleTypeOK, CallOK
  <1>5. ASSUME NEW n \in 0 .. MaxFaults, NEW m \in 0 .. MaxFaults, n + m < MaxFaults
        PROVE  n + 1 \in 0 .. MaxFaults
    <2>1. MaxFaults \in Nat  BY Numbers
    <2> QED  BY <1>5, <2>1
  <1>6. CASE Trigger
    <2>1. stateCache' \in [StateKeys -> {"none", "Hold", "Release"}]
      BY <1>6, EvaluatedRule DEF Trigger, RuleTypeOK
    <2>2. device' \in [Devices -> {"Hold", "Release"}] /\ missed' \subseteq Devices
      BY <1>6, EvaluatedRule DEF Trigger, RuleTypeOK
    <2>3. lost' \in 0 .. MaxFaults
      BY <1>5, <1>6 DEF Trigger, RuleTypeOK
    <2> QED  BY <1>0, <1>6, <2>1, <2>2, <2>3 DEF Trigger, RuleTypeOK, CallOK
  <1>7. CASE TriggerThrows
    <2>1. /\ stateCache' \in [StateKeys -> {"none", "Hold", "Release"}]
          /\ missed' \subseteq Devices /\ skipped' \subseteq Profiles
      BY <1>7, EvaluatedRule DEF TriggerThrows, RuleTypeOK
    <2>2. throws' \in 0 .. MaxFaults
      <3>1. lost \in 0 .. MaxFaults /\ throws \in 0 .. MaxFaults  BY DEF RuleTypeOK
      <3>2. throws + lost < MaxFaults
        BY <1>7, <3>1 DEF TriggerThrows
      <3> QED  BY <1>5, <1>7, <3>1, <3>2 DEF TriggerThrows
    <2> QED  BY <1>0, <1>7, <2>1, <2>2 DEF TriggerThrows, RuleTypeOK, CallOK
  <1>8. CASE Stop
    <2>1. /\ votes' \in [Clients -> [Profiles -> Ballots \cup {NoVote}]]
          /\ tally' \in [Profiles -> Tallies]
          /\ stateCache' \in [StateKeys -> {"none", "Hold", "Release"}]
          /\ missed' = {} /\ skipped' = {}
      BY <1>8 DEF Stop, NoVotes, Empty, Unseen
    <2> QED  BY <1>0, <1>8, <2>1 DEF Stop, RuleTypeOK, CallOK
  <1>9. CASE EvaluationEnds
    <2>1. call.client \in Clients /\ call.profile \in Profiles
      BY <1>9 DEF EvaluationEnds, RuleTypeOK
    <2>2. call.votes[call.profile] \in Ballots \cup {NoVote}
      <3>1. call.votes \in [Profiles -> Ballots \cup {NoVote}]  BY DEF RuleTypeOK, Calls
      <3> QED  BY <2>1, <3>1
    <2>3. votes' \in [Clients -> [Profiles -> Ballots \cup {NoVote}]]
      <3>1. CASE UNCHANGED votes  BY <3>1 DEF RuleTypeOK
      <3>2. CASE votes' = [votes EXCEPT ![call.client][call.profile] = call.votes[call.profile]]
        <4> DEFINE row == [votes[call.client] EXCEPT ![call.profile] = call.votes[call.profile]]
        <4>1. row \in [Profiles -> Ballots \cup {NoVote}]  BY <2>1, <2>2 DEF RuleTypeOK
        <4>2. votes' = [votes EXCEPT ![call.client] = row]  BY <3>2
        <4> HIDE DEF row
        <4> QED  BY <2>1, <4>1, <4>2 DEF RuleTypeOK
      <3> QED  BY <1>9, <3>1, <3>2 DEF EvaluationEnds
    <2>4. skipped' \subseteq Profiles  BY <1>9 DEF EvaluationEnds, RuleTypeOK
    <2> QED  BY <1>0, <1>9, <2>3, <2>4 DEF EvaluationEnds, RuleTypeOK, CallOK
  <1> QED  BY <1>1, <1>2, <1>3, <1>4, <1>6, <1>7, <1>8, <1>9 DEF RuleNext

-----------------------------------------------------------------------------
(* A device follows the cache.                                             *)

\* Setting the cache of the rule under evaluation: another rule that drives
\* its device alone has another key and another device.
LEMMA OtherRule ==
  ASSUME RuleTypeOK, Evaluating,
         NEW p \in Profiles, NEW i \in DOMAIN VoteResults[p], Alone(p, i),
         ~(p = call.profile /\ i = call.next)
  PROVE  Device(Rule(p, i)) # Device(ThisRule) /\ StateKey(p, Rule(p, i)) # ThisKey
  <1>1. call.profile \in Profiles /\ call.next \in DOMAIN VoteResults[call.profile]
    BY EvaluatedRule
  <1>2. Device(Rule(p, i)) # Device(ThisRule)
    BY <1>1, AloneIsUnique DEF ThisRule
  <1>3. StateKey(p, Rule(p, i)) # ThisKey
    BY <1>2, KeyHasDevice DEF ThisKey
  <1> QED  BY <1>2, <1>3

LEMMA DeviceKept ==
  ASSUME RuleTypeOK, DeviceFollowsCache, RuleNext
  PROVE  DeviceFollowsCache'
  <1>1. CASE UNCHANGED <<stateCache, device, missed>>
    BY <1>1 DEF DeviceFollowsCache, Alone
  <1>2. CASE Stop
    <2>1. \A k \in StateKeys : stateCache'[k] = "none"  BY <1>2 DEF Stop, Unseen
    <2> QED  BY <2>1, RuleMembers DEF DeviceFollowsCache
  <1>3. CASE Trigger \/ TriggerThrows
    <2> SUFFICES ASSUME NEW p \in Profiles, NEW i \in DOMAIN VoteResults[p],
                        Alone(p, i), Device(Rule(p, i)) \notin missed',
                        stateCache'[StateKey(p, Rule(p, i))] # "none"
                 PROVE  device'[Device(Rule(p, i))] = stateCache'[StateKey(p, Rule(p, i))]
      BY DEF DeviceFollowsCache, Alone
    <2>1. Evaluating /\ stateCache' = [stateCache EXCEPT ![ThisKey] = ThisState]
      BY <1>3 DEF Trigger, TriggerThrows
    <2>2. \/ /\ device' = [device EXCEPT ![Device(ThisRule)] = ThisState]
             /\ missed' = missed \ {Device(ThisRule)}
          \/ device' = device /\ missed' = missed \cup {Device(ThisRule)}
      BY <1>3 DEF Trigger, TriggerThrows
    <2>3. /\ ThisKey \in StateKeys /\ Device(ThisRule) \in Devices
          /\ StateKey(p, Rule(p, i)) \in StateKeys /\ Device(Rule(p, i)) \in Devices
      BY <2>1, EvaluatedRule, RuleMembers
    <2>4. device \in [Devices -> {"Hold", "Release"}]
          /\ stateCache \in [StateKeys -> {"none", "Hold", "Release"}]
      BY DEF RuleTypeOK
    <2>5. CASE p = call.profile /\ i = call.next
      <3>1. Device(Rule(p, i)) = Device(ThisRule) /\ StateKey(p, Rule(p, i)) = ThisKey
        BY <2>5 DEF ThisRule, ThisKey
      <3> QED  BY <2>1, <2>2, <2>3, <2>4, <3>1
    <2>6. CASE ~(p = call.profile /\ i = call.next)
      <3>1. Device(Rule(p, i)) # Device(ThisRule) /\ StateKey(p, Rule(p, i)) # ThisKey
        BY <2>1, <2>6, OtherRule
      <3>2. /\ device'[Device(Rule(p, i))] = device[Device(Rule(p, i))]
            /\ stateCache'[StateKey(p, Rule(p, i))] = stateCache[StateKey(p, Rule(p, i))]
            /\ Device(Rule(p, i)) \notin missed
        BY <2>1, <2>2, <2>3, <2>4, <3>1
      <3> QED  BY <3>2 DEF DeviceFollowsCache
    <2> QED  BY <2>5, <2>6
  <1> QED  BY <1>1, <1>2, <1>3
        DEF RuleNext, HandleOperationReceived, HandleClientDisconnected, StripVote, SameState,
            EvaluationEnds

-----------------------------------------------------------------------------
(* The cache follows the tally.                                            *)

LEMMA CacheKept ==
  ASSUME RuleTypeOK, CacheFollowsTally, RuleNext
  PROVE  CacheFollowsTally'
  <1> SUFFICES ASSUME NEW p \in Profiles, NEW i \in DOMAIN VoteResults[p], Alone(p, i),
                      IF EvaluatingProfile(p)' THEN i < call'.next ELSE p \notin skipped'
               PROVE  Current(p, i)'
    BY DEF CacheFollowsTally, Alone, EvaluatingProfile
  <1> DEFINE Exact == IF EvaluatingProfile(p) THEN i < call.next ELSE p \notin skipped
  <1>0. Exact => Current(p, i)  BY DEF CacheFollowsTally
  <1>n. i \in Nat /\ i > 0 /\ i <= Len(VoteResults[p]) /\ Len(VoteResults[p]) \in Nat
    BY RulesAreNumbered
  <1>c. /\ call \in Calls /\ call.next \in Nat
        /\ stateCache \in [StateKeys -> {"none", "Hold", "Release"}]
        /\ tally \in [Profiles -> [voters : Int, supporters : Int]]
        /\ StateKey(p, Rule(p, i)) \in StateKeys
    BY RuleMembers DEF RuleTypeOK, Calls
  <1>u. ASSUME Exact, stateCache' = stateCache, tally'[p] = tally[p] PROVE Current(p, i)'
    BY <1>0, <1>u DEF Current
  <1>1. ASSUME NEW c \in Clients, NEW q \in Profiles, NEW v \in Ballots,
               HandleOperationReceived(c, q, v)
        PROVE  Current(p, i)'
    <2>1. call = Nobody /\ call.next = 0 /\ call'.profile = q /\ call'.next = 1
      BY <1>1, NobodyIsCall DEF HandleOperationReceived
    <2>2. p # q  BY <1>n, <2>1 DEF EvaluatingProfile
    <2>3. tally'[p] = tally[p] /\ UNCHANGED <<stateCache, skipped>>
      BY <1>1, <1>c, <2>2 DEF HandleOperationReceived
    <2>4. Exact  BY <2>1, <2>2, <2>3 DEF EvaluatingProfile
    <2> QED  BY <1>u, <2>3, <2>4
  <1>2. ASSUME NEW c \in Clients, HandleClientDisconnected(c) PROVE Current(p, i)'
    <2>1. call.next = 0 /\ call'.next = 0 /\ UNCHANGED <<stateCache, skipped, tally>>
      BY <1>2, NobodyIsCall DEF HandleClientDisconnected
    <2>2. Exact  BY <2>1 DEF EvaluatingProfile
    <2> QED  BY <1>u, <2>1, <2>2
  <1>3. ASSUME NEW q \in Profiles, StripVote(q) PROVE Current(p, i)'
    <2>1. call.next = 0 /\ call'.profile = q /\ call'.next = 1
      BY <1>3, <1>c DEF StripVote, Calls
    <2>2. p # q  BY <1>n, <2>1 DEF EvaluatingProfile
    <2>3. tally'[p] = tally[p] /\ UNCHANGED <<stateCache, skipped>>
      BY <1>3, <1>c, <2>2 DEF StripVote
    <2>4. Exact  BY <2>1, <2>2, <2>3 DEF EvaluatingProfile
    <2> QED  BY <1>u, <2>3, <2>4
  <1>4. ASSUME call' = [call EXCEPT !.next = @ + 1], Evaluating, UNCHANGED <<tally, skipped>>,
               stateCache'[ThisKey] = ThisState,
               \/ UNCHANGED stateCache
               \/ stateCache' = [stateCache EXCEPT ![ThisKey] = ThisState]
        PROVE  Current(p, i)'
    <2>1. call.next + 1 \in Nat  BY <1>c
    <2>2. call'.profile = call.profile /\ call'.next = call.next + 1
      BY <1>4, <1>c, <2>1, NextIsSet
    <2>3. call.next > 0  BY <1>4 DEF Evaluating
    <2>4. CASE p = call.profile /\ i = call.next
      <3>1. StateKey(p, Rule(p, i)) = ThisKey /\ ThisState = CurrentState(Rule(p, i), tally[p])
        BY <2>4 DEF ThisRule, ThisKey, ThisState
      <3>2. stateCache'[StateKey(p, Rule(p, i))] = CurrentState(Rule(p, i), tally'[p])
        BY <1>4, <3>1
      <3> QED  BY <3>2 DEF Current
    <2>5. CASE ~(p = call.profile /\ i = call.next)
      <3>1. Exact
        <4>1. CASE p = call.profile
          <5>1. i < call.next + 1  BY <1>c, <2>2, <2>3, <4>1 DEF EvaluatingProfile
          <5>2. i < call.next  BY <1>n, <1>c, <2>5, <4>1, <5>1
          <5> QED  BY <2>3, <4>1, <5>2 DEF EvaluatingProfile
        <4>2. CASE p # call.profile
          BY <1>4, <2>2, <4>2 DEF EvaluatingProfile
        <4> QED  BY <4>1, <4>2
      <3>2. StateKey(p, Rule(p, i)) # ThisKey  BY <1>4, <2>5, OtherRule
      <3>3. stateCache'[StateKey(p, Rule(p, i))] = stateCache[StateKey(p, Rule(p, i))]
        BY <1>4, <1>c, <3>2
      <3> QED  BY <1>0, <1>4, <3>1, <3>3 DEF Current
    <2> QED  BY <2>4, <2>5
  <1>5. CASE SameState
    BY <1>4, <1>5 DEF SameState
  <1>6. CASE Trigger
    <2>1. stateCache'[ThisKey] = ThisState
      BY <1>6, <1>c, EvaluatedRule DEF Trigger
    <2> QED  BY <1>4, <1>6, <2>1 DEF Trigger
  <1>7. CASE TriggerThrows
    <2>1. call'.next = 0 /\ Evaluating /\ call.next > 0 /\ skipped' = skipped \cup {call.profile}
          /\ stateCache' = [stateCache EXCEPT ![ThisKey] = ThisState] /\ tally' = tally
      BY <1>7, NobodyIsCall DEF TriggerThrows, Evaluating
    <2>2. p # call.profile /\ p \notin skipped  BY <2>1 DEF EvaluatingProfile
    <2>3. StateKey(p, Rule(p, i)) # ThisKey  BY <2>1, <2>2, OtherRule
    <2>4. stateCache'[StateKey(p, Rule(p, i))] = stateCache[StateKey(p, Rule(p, i))]
      BY <1>c, <2>1, <2>3
    <2>5. Exact  BY <2>2 DEF EvaluatingProfile
    <2> QED  BY <1>0, <2>1, <2>4, <2>5 DEF Current
  <1>8. CASE Stop
    <2>1. stateCache'[StateKey(p, Rule(p, i))] = "none"  BY <1>8, <1>c DEF Stop, Unseen
    <2> QED  BY <2>1 DEF Current
  <1>9. CASE EvaluationEnds
    <2>1. /\ call.next > 0 /\ ~Evaluating /\ skipped' = skipped \ {call.profile}
          /\ UNCHANGED <<stateCache, tally>>
      BY <1>9 DEF EvaluationEnds
    <2>2. call'.next = 0
      <3>1. CASE call' = Nobody  BY <3>1, NobodyIsCall
      <3>2. CASE call' = [call EXCEPT !.next = 0]  BY <1>c, <3>2, NextIsSet
      <3> QED  BY <1>9, <3>1, <3>2 DEF EvaluationEnds
    <2>3. p \notin skipped'  BY <2>2 DEF EvaluatingProfile
    <2>4. Exact
      <3>1. CASE p = call.profile
        <4>1. ~(call.next <= Len(VoteResults[p]))  BY <2>1, <3>1 DEF Evaluating
        <4>2. i < call.next  BY <1>n, <1>c, <4>1
        <4> QED  BY <2>1, <3>1, <4>2 DEF EvaluatingProfile
      <3>2. CASE p # call.profile  BY <2>1, <2>3, <3>2 DEF EvaluatingProfile
      <3> QED  BY <3>1, <3>2
    <2> QED  BY <1>u, <2>1, <2>4
  <1> QED  BY <1>1, <1>2, <1>3, <1>5, <1>6, <1>7, <1>8, <1>9 DEF RuleNext

-----------------------------------------------------------------------------
(* The theorems.                                                           *)

LEMMA InitHolds == RuleInit => RuleInv
  <1> SUFFICES ASSUME RuleInit PROVE RuleInv  OBVIOUS
  <1>1. call = Nobody /\ call.next = 0 /\ call.handler = "idle" /\ call \in Calls
    BY NobodyIsCall DEF RuleInit
  <1>2. lost \in 0 .. MaxFaults /\ throws \in 0 .. MaxFaults  BY Numbers DEF RuleInit
  <1>3. RuleTypeOK
    BY <1>1, <1>2 DEF RuleInit, RuleTypeOK, NoVotes, Empty, Unseen
  <1>4. \A k \in StateKeys : stateCache[k] = "none"  BY DEF RuleInit, Unseen
  <1>5. DeviceFollowsCache  BY <1>4, RuleMembers DEF DeviceFollowsCache
  <1>6. CacheFollowsTally  BY <1>4, RuleMembers DEF CacheFollowsTally, Current
  <1> QED  BY <1>3, <1>5, <1>6 DEF RuleInv

LEMMA StutterKeeps == RuleInv /\ UNCHANGED ruleVars => RuleInv'
  <1> SUFFICES ASSUME RuleInv, UNCHANGED ruleVars PROVE RuleInv'  OBVIOUS
  <1>1. UNCHANGED <<votes, tally, stateCache, device, call, missed, skipped, lost, throws>>
    BY DEF ruleVars
  <1>2. RuleTypeOK'  BY <1>1 DEF RuleInv, RuleTypeOK
  <1>3. DeviceFollowsCache'  BY <1>1 DEF RuleInv, DeviceFollowsCache, Alone
  <1>4. CacheFollowsTally'
    BY <1>1 DEF RuleInv, CacheFollowsTally, Alone, Current, EvaluatingProfile
  <1> QED  BY <1>2, <1>3, <1>4 DEF RuleInv

\* The invariant of the evaluation holds in every reachable state.
THEOREM RuleInvariant == RuleSpec => []RuleInv
  <1>1. RuleInv /\ [RuleNext]_ruleVars => RuleInv'
    <2> SUFFICES ASSUME RuleInv, [RuleNext]_ruleVars PROVE RuleInv'  OBVIOUS
    <2>1. CASE RuleNext  BY <2>1, TypeKept, DeviceKept, CacheKept DEF RuleInv
    <2>2. CASE UNCHANGED ruleVars  BY <2>2, StutterKeeps
    <2> QED  BY <2>1, <2>2
  <1> QED  BY <1>1, InitHolds, PTL DEF RuleSpec

\* The evaluation of ProcessMetricUpdate stays within the rules of a profile
\* and the state it keeps has its type, for any rules and weights.
THEOREM RuleTypeCorrect == RuleSpec => []RuleTypeOK
  <1>1. RuleInv => RuleTypeOK  BY DEF RuleInv
  <1> QED  BY <1>1, RuleInvariant, PTL

\* Between two votes the key or output that one rule drives alone is in the
\* state that its rule says of the tally, whatever the rules, the weights and
\* the order of votes, departures, losses and restarts.
THEOREM DevicesFollowVotes == RuleSpec => []KeysFollowTally
  <1>1. RuleInv => KeysFollowTally
    <2> SUFFICES ASSUME RuleInv, call = Nobody, NEW id \in RuleIds,
                        Alone(id[1], id[2]), id[1] \notin skipped,
                        Device(Rule(id[1], id[2])) \notin missed,
                        stateCache[StateKey(id[1], Rule(id[1], id[2]))] # "none"
                 PROVE  device[Device(Rule(id[1], id[2]))]
                          = CurrentState(Rule(id[1], id[2]), tally[id[1]])
      BY DEF KeysFollowTally
    <2>1. PICK p \in Profiles : id \in {p} \X DOMAIN VoteResults[p]  BY DEF RuleIds
    <2>2. id[1] \in Profiles /\ id[2] \in DOMAIN VoteResults[id[1]]  BY <2>1
    <2>3. call.next = 0  BY NobodyIsCall
    <2>4. Current(id[1], id[2])
      BY <2>2, <2>3 DEF RuleInv, CacheFollowsTally, EvaluatingProfile
    <2>5. device[Device(Rule(id[1], id[2]))] = stateCache[StateKey(id[1], Rule(id[1], id[2]))]
      BY <2>2 DEF RuleInv, DeviceFollowsCache
    <2> QED  BY <2>4, <2>5 DEF Current
  <1> QED  BY <1>1, RuleInvariant, PTL

-----------------------------------------------------------------------------
(* The tallies and the ballots.                                            *)

\* The largest of finitely many sizes exists.
LEMMA HeaviestIsLargest ==
  /\ Heaviest \in Nat
  /\ \A c \in Clients : Weight[c] <= Heaviest /\ -Weight[c] <= Heaviest
  <1> DEFINE sizes == {Size(Weight[c]) : c \in Clients} \cup {0}
             Largest(A, m) == /\ m >= 0 /\ (m = 0 \/ \E c \in A : m = Size(Weight[c]))
                              /\ \A c \in A : m >= Size(Weight[c])
             G == {A \in SUBSET Clients : \E m \in Int : Largest(A, m)}
  <1>1. \A c \in Clients : /\ Size(Weight[c]) \in Int /\ Size(Weight[c]) >= 0
                           /\ Weight[c] <= Size(Weight[c]) /\ -Weight[c] <= Size(Weight[c])
    BY WeightIsInt DEF Size
  <1>2. ASSUME NEW A \in SUBSET Clients, \A B \in SUBSET A : B # A => B \in G
        PROVE  A \in G
    <2>1. CASE A = {}
      <3>1. Largest(A, 0)  BY <2>1
      <3> QED  BY <3>1
    <2>2. CASE A # {}
      <3>1. PICK c \in A : TRUE  BY <2>2
      <3>2. A \ {c} \in SUBSET A /\ A \ {c} # A  BY <3>1
      <3>3. A \ {c} \in G  BY <1>2, <3>2
      <3>4. PICK m \in Int : Largest(A \ {c}, m)  BY <3>3
      <3>5. Size(Weight[c]) \in Int /\ Size(Weight[c]) >= 0  BY <1>1
      <3>6. CASE m >= Size(Weight[c])
        <4>1. Largest(A, m)  BY <3>4, <3>6
        <4> QED  BY <4>1
      <3>7. CASE ~(m >= Size(Weight[c]))
        <4>1. \A x \in A : Size(Weight[c]) >= Size(Weight[x])  BY <1>1, <3>4, <3>5, <3>7
        <4>2. Largest(A, Size(Weight[c]))  BY <3>5, <4>1
        <4> QED  BY <3>5, <4>2
      <3> QED  BY <3>6, <3>7
    <2> QED  BY <2>1, <2>2
  <1>3. Clients \in G
    <2>1. IsFiniteSet(Clients)  BY Numbers
    <2>2. G \in SUBSET SUBSET Clients  OBVIOUS
    <2> HIDE DEF G
    <2>3. G = SUBSET Clients  BY <1>2, <2>1, <2>2, SubsetInduction
    <2> QED  BY <2>3
  <1>4. PICK m \in Int : Largest(Clients, m)  BY <1>3
  <1>5. m \in sizes /\ \A y \in sizes : m >= y  BY <1>4
  <1>6. Heaviest \in sizes /\ \A y \in sizes : Heaviest >= y
    BY <1>5 DEF Heaviest, Max
  <1>7. Heaviest \in Int /\ Heaviest >= 0  BY <1>1, <1>6
  <1>8. \A c \in Clients : Heaviest >= Size(Weight[c])  BY <1>6
  <1> QED  BY <1>1, <1>7, <1>8, WeightIsInt

\* The weight of a client's ballot b for the ballots of some kinds.
Share(c, v, kinds) == IF v \in kinds THEN Weight[c] ELSE 0

LEMMA ShareIsBounded ==
  ASSUME NEW c \in Clients, NEW v, NEW u, NEW kinds
  PROVE  /\ Share(c, v, kinds) \in Int /\ Share(c, u, kinds) \in Int
         /\ -Heaviest <= Share(c, v, kinds) - Share(c, u, kinds)
         /\ Share(c, v, kinds) - Share(c, u, kinds) <= Heaviest
  <1>1. Weight[c] \in Int /\ Heaviest \in Nat /\ Weight[c] <= Heaviest /\ -Weight[c] <= Heaviest
    BY WeightIsInt, HeaviestIsLargest
  <1> QED  BY <1>1 DEF Share

\* The ballots of an operation that differ for one client.
LEMMA SumMoves ==
  ASSUME NEW b, NEW d, NEW p, NEW kinds, NEW c \in Clients,
         \A x \in Clients \ {c} : d[x][p] = b[x][p]
  PROVE  /\ Sum(b, p, kinds) \in Int /\ Sum(d, p, kinds) \in Int
         /\ Sum(d, p, kinds) = Sum(b, p, kinds)
                                 + (Share(c, d[c][p], kinds) - Share(c, b[c][p], kinds))
  <1> DEFINE w == [x \in Clients |-> IF b[x][p] \in kinds THEN Weight[x] ELSE 0]
             v == [x \in Clients |-> IF d[x][p] \in kinds THEN Weight[x] ELSE 0]
  <1>1. Sum(b, p, kinds) = SumFunctionOnSet(w, Clients)
        /\ Sum(d, p, kinds) = SumFunctionOnSet(v, Clients)
    BY DEF Sum, SumFunction
  <1>2. \A x \in Clients : w[x] \in Int /\ v[x] \in Int  BY WeightIsInt
  <1>3. \A x \in Clients \ {c} : v[x] = w[x]  OBVIOUS
  <1>4. w[c] = Share(c, b[c][p], kinds) /\ v[c] = Share(c, d[c][p], kinds)  BY DEF Share
  <1>5. IsFiniteSet(Clients)  BY Numbers
  <1> HIDE DEF w, v
  <1>6. SumFunctionOnSet(w, Clients) \in Int /\ SumFunctionOnSet(v, Clients) \in Int
    BY <1>2, <1>5, SumType
  <1>7. SumFunctionOnSet(v, Clients) = SumFunctionOnSet(w, Clients) + (v[c] - w[c])
    BY <1>2, <1>3, <1>5, SumChangeOne
  <1> QED  BY <1>1, <1>4, <1>6, <1>7

LEMMA SumIsSame ==
  ASSUME NEW b, NEW d, NEW p, NEW kinds, \A x \in Clients : d[x][p] = b[x][p]
  PROVE  Sum(d, p, kinds) = Sum(b, p, kinds)
  <1>1. [x \in Clients |-> IF b[x][p] \in kinds THEN Weight[x] ELSE 0]
          = [x \in Clients |-> IF d[x][p] \in kinds THEN Weight[x] ELSE 0]
    OBVIOUS
  <1> QED  BY <1>1 DEF Sum

LEMMA SumIsInt == ASSUME NEW b, NEW p, NEW kinds PROVE Sum(b, p, kinds) \in Int
  <1> DEFINE w == [x \in Clients |-> IF b[x][p] \in kinds THEN Weight[x] ELSE 0]
  <1>1. Sum(b, p, kinds) = SumFunctionOnSet(w, Clients)  BY DEF Sum, SumFunction
  <1>2. \A x \in Clients : w[x] \in Int  BY WeightIsInt
  <1>3. IsFiniteSet(Clients)  BY Numbers
  <1> HIDE DEF w
  <1> QED  BY <1>1, <1>2, <1>3, SumType

LEMMA NobodyVotes ==
  ASSUME NEW b, NEW p, NEW kinds, NoVote \notin kinds, \A x \in Clients : b[x][p] = NoVote
  PROVE  Sum(b, p, kinds) = 0
  <1> DEFINE w == [x \in Clients |-> IF b[x][p] \in kinds THEN Weight[x] ELSE 0]
  <1>1. Sum(b, p, kinds) = SumFunctionOnSet(w, Clients)  BY DEF Sum, SumFunction
  <1>2. \A x \in Clients : w[x] = 0  OBVIOUS
  <1>3. IsFiniteSet(Clients)  BY Numbers
  <1> HIDE DEF w
  <1> QED  BY <1>1, <1>2, <1>3, SumZero

\* What Counted adds to a tally is the share of the ballot.
LEMMA CountedShare ==
  ASSUME NEW t \in [voters : Int, supporters : Int], NEW v, NEW c \in Clients
  PROVE  /\ Counted(t, v, Weight[c]).voters = t.voters + Share(c, v, {"Support", "Against"})
         /\ Counted(t, v, Weight[c]).supporters = t.supporters + Share(c, v, {"Support"})
         /\ Counted(t, v, -Weight[c]).voters = t.voters - Share(c, v, {"Support", "Against"})
         /\ Counted(t, v, -Weight[c]).supporters = t.supporters - Share(c, v, {"Support"})
  <1>1. Weight[c] \in Int /\ -Weight[c] \in Int /\ t.voters \in Int /\ t.supporters \in Int
    BY WeightIsInt
  <1> QED  BY <1>1 DEF Counted, Share

\* CountsUpToThrows of tallies t, ballots b and a number of exceptions n.
Near(n, x) == -(n * Heaviest) <= x /\ x <= n * Heaviest
Counts(t, b, n) ==
  \A p \in Profiles :
    /\ Near(n, t[p].voters - Sum(b, p, {"Support", "Against"}))
    /\ Near(n, t[p].supporters - Sum(b, p, {"Support"}))

Tallies == [Profiles -> [voters : Int, supporters : Int]]

LEMMA CountsIsCounts ==
  /\ CountsUpToThrows(CountedBallots) <=> Counts(tally, CountedBallots, throws)
  /\ CountsUpToThrows(CountedBallots)' <=> Counts(tally', CountedBallots', throws')
  /\ CountsUpToThrows(votes) <=> Counts(tally, votes, throws)
  BY DEF CountsUpToThrows, Counts, Near, Bounded

\* The ballots are the same.
LEMMA CountsSame ==
  ASSUME NEW t, NEW n, NEW b, NEW d, Counts(t, b, n),
         \A p \in Profiles : \A x \in Clients : d[x][p] = b[x][p]
  PROVE  Counts(t, d, n)
  BY SumIsSame DEF Counts

\* One ballot changes, in the tally too.
LEMMA CountsMoved ==
  ASSUME NEW t \in Tallies, NEW u \in Tallies, NEW n, NEW b, NEW d, Counts(t, b, n),
         NEW c \in Clients, NEW p \in Profiles,
         \A q \in Profiles \ {p} : u[q] = t[q] /\ \A x \in Clients : d[x][q] = b[x][q],
         \A x \in Clients \ {c} : d[x][p] = b[x][p],
         u[p].voters = t[p].voters - Share(c, b[c][p], {"Support", "Against"})
                                   + Share(c, d[c][p], {"Support", "Against"}),
         u[p].supporters = t[p].supporters - Share(c, b[c][p], {"Support"})
                                           + Share(c, d[c][p], {"Support"})
  PROVE  Counts(u, d, n)
  <1>1. ASSUME NEW q \in Profiles, q # p
        PROVE  /\ Near(n, u[q].voters - Sum(d, q, {"Support", "Against"}))
               /\ Near(n, u[q].supporters - Sum(d, q, {"Support"}))
    <2>1. u[q] = t[q] /\ \A x \in Clients : d[x][q] = b[x][q]  BY <1>1
    <2>2. /\ Sum(d, q, {"Support", "Against"}) = Sum(b, q, {"Support", "Against"})
          /\ Sum(d, q, {"Support"}) = Sum(b, q, {"Support"})
      BY <2>1, SumIsSame
    <2> QED  BY <2>1, <2>2 DEF Counts
  <1>2. ASSUME NEW kinds, NEW y \in Int, NEW z \in Int,
               z = y - Share(c, b[c][p], kinds) + Share(c, d[c][p], kinds)
        PROVE  z - Sum(d, p, kinds) = y - Sum(b, p, kinds)
    <2>1. /\ Sum(b, p, kinds) \in Int /\ Sum(d, p, kinds) \in Int
          /\ Sum(d, p, kinds) = Sum(b, p, kinds)
                                  + (Share(c, d[c][p], kinds) - Share(c, b[c][p], kinds))
      BY SumMoves
    <2>2. Share(c, d[c][p], kinds) \in Int /\ Share(c, b[c][p], kinds) \in Int  BY ShareIsBounded
    <2> QED  BY <1>2, <2>1, <2>2
  <1>3. /\ t[p].voters \in Int /\ u[p].voters \in Int
        /\ t[p].supporters \in Int /\ u[p].supporters \in Int
    BY DEF Tallies
  <1>4. /\ u[p].voters - Sum(d, p, {"Support", "Against"})
             = t[p].voters - Sum(b, p, {"Support", "Against"})
        /\ u[p].supporters - Sum(d, p, {"Support"}) = t[p].supporters - Sum(b, p, {"Support"})
    BY <1>2, <1>3
  <1> QED  BY <1>1, <1>4 DEF Counts

\* One ballot is forgotten by an exception.
LEMMA CountsForgotten ==
  ASSUME NEW t \in Tallies, NEW n \in Nat, NEW b, NEW d, Counts(t, b, n),
         NEW c \in Clients, \A p \in Profiles : \A x \in Clients \ {c} : d[x][p] = b[x][p]
  PROVE  Counts(t, d, n + 1)
  <1>1. ASSUME NEW p \in Profiles, NEW kinds, NEW y \in Int, Near(n, y - Sum(b, p, kinds))
        PROVE  Near(n + 1, y - Sum(d, p, kinds))
    <2>1. /\ Sum(b, p, kinds) \in Int /\ Sum(d, p, kinds) \in Int
          /\ Sum(d, p, kinds) = Sum(b, p, kinds)
                                  + (Share(c, d[c][p], kinds) - Share(c, b[c][p], kinds))
      BY SumMoves
    <2> DEFINE e == Share(c, d[c][p], kinds) - Share(c, b[c][p], kinds)
               m == n * Heaviest
    <2>2. e \in Int /\ -Heaviest <= e /\ e <= Heaviest  BY ShareIsBounded
    <2>3. Heaviest \in Nat  BY HeaviestIsLargest
    <2>4. m \in Int /\ (n + 1) * Heaviest = m + Heaviest  BY <2>3
    <2>5. -m <= y - Sum(b, p, kinds) /\ y - Sum(b, p, kinds) <= m  BY <1>1 DEF Near
    <2>6. Sum(d, p, kinds) = Sum(b, p, kinds) + e  BY <2>1
    <2> HIDE DEF e, m
    <2>7. -(m + Heaviest) <= y - Sum(d, p, kinds) /\ y - Sum(d, p, kinds) <= m + Heaviest
      BY <2>1, <2>2, <2>3, <2>4, <2>5, <2>6
    <2> QED  BY <2>4, <2>7 DEF Near
  <1>2. \A p \in Profiles : t[p].voters \in Int /\ t[p].supporters \in Int  BY DEF Tallies
  <1> QED  BY <1>1, <1>2 DEF Counts

\* Tallies and ballots of a room that nobody has voted in.
LEMMA CountsNothing ==
  ASSUME NEW n \in Nat, NEW b, \A p \in Profiles : \A x \in Clients : b[x][p] = NoVote
  PROVE  Counts(Empty, b, n)
  <1>1. n * Heaviest \in Nat
    <2>1. Heaviest \in Nat  BY HeaviestIsLargest
    <2> QED  BY <2>1
  <1> SUFFICES ASSUME NEW p \in Profiles
               PROVE  /\ Near(n, Empty[p].voters - Sum(b, p, {"Support", "Against"}))
                      /\ Near(n, Empty[p].supporters - Sum(b, p, {"Support"}))
    BY DEF Counts
  <1>2. NoVote \notin {"Support", "Against"} /\ NoVote \notin {"Support"}  BY DEF NoVote
  <1>3. Sum(b, p, {"Support", "Against"}) = 0 /\ Sum(b, p, {"Support"}) = 0  BY <1>2, NobodyVotes
  <1>4. Empty[p].voters = 0 /\ Empty[p].supporters = 0  BY DEF Empty
  <1> QED  BY <1>1, <1>3, <1>4 DEF Near

LEMMA CountedBallotsAre ==
  /\ \A c \in Clients, p \in Profiles : CountedBallots[c][p] = BallotOf(c, p)
  /\ \A c \in Clients, p \in Profiles : CountedBallots'[c][p] = BallotOf(c, p)'
  BY DEF CountedBallots

\* Between two handlers the ballots counted are those recorded.
LEMMA IdleCountsRecorded ==
  ASSUME call = Nobody
  PROVE  \A c \in Clients, p \in Profiles : BallotOf(c, p) = votes[c][p]
  <1>1. call.handler = "idle"  BY NobodyIsCall
  <1> QED  BY <1>1 DEF BallotOf

LEMMA IdleCountsRecordedNext ==
  ASSUME call' = Nobody
  PROVE  \A c \in Clients, p \in Profiles : BallotOf(c, p)' = votes'[c][p]
  <1>1. call'.handler = "idle"  BY NobodyIsCall
  <1> QED  BY <1>1 DEF BallotOf

\* A step that leaves the call at the same ballots.
LEMMA CallMovesOn ==
  ASSUME PhantomInv, UNCHANGED <<tally, votes, throws>>,
         \/ skipped' = skipped
         \/ skipped' \subseteq skipped,
         call'.handler = call.handler, call'.client = call.client, call'.votes = call.votes,
         call'.profile = call.profile
  PROVE  PhantomInv'
  <1>1. \A c \in Clients, p \in Profiles : BallotOf(c, p)' = BallotOf(c, p)  BY DEF BallotOf
  <1>2. \A p \in Profiles : \A c \in Clients : CountedBallots'[c][p] = CountedBallots[c][p]
    BY <1>1, CountedBallotsAre
  <1>3. Counts(tally, CountedBallots', throws)
    BY <1>2, CountsSame, CountsIsCounts DEF PhantomInv
  <1>4. CountsUpToThrows(CountedBallots)'  BY <1>3, CountsIsCounts
  <1> QED  BY <1>4 DEF PhantomInv

LEMMA PhantomKept ==
  ASSUME RuleTypeOK, RuleTypeOK', PhantomInv, RuleNext
  PROVE  PhantomInv'
  <1>0. /\ Counts(tally, CountedBallots, throws) /\ tally \in Tallies /\ tally' \in Tallies
        /\ call \in Calls /\ throws \in Nat
        /\ votes \in [Clients -> [Profiles -> Ballots \cup {NoVote}]]
    BY CountsIsCounts, Numbers DEF PhantomInv, RuleTypeOK, Tallies
  <1>1. ASSUME NEW c \in Clients, NEW p \in Profiles, NEW v \in Ballots,
               HandleOperationReceived(c, p, v)
        PROVE  PhantomInv'
    <2>1. /\ call = Nobody /\ UNCHANGED <<votes, skipped, throws>>
          /\ call'.handler = "vote" /\ call'.client = c /\ call'.profile = p
          /\ call'.votes[p] = v
      BY <1>1 DEF HandleOperationReceived, NoVotes
    <2>2. \A x \in Clients, q \in Profiles :
            /\ BallotOf(x, q) = votes[x][q]
            /\ BallotOf(x, q)' = IF x = c /\ q = p THEN v ELSE votes[x][q]
      BY <2>1, IdleCountsRecorded DEF BallotOf
    <2>3. \A x \in Clients, q \in Profiles :
            /\ CountedBallots[x][q] = votes[x][q]
            /\ CountedBallots'[x][q] = IF x = c /\ q = p THEN v ELSE votes[x][q]
      BY <2>2, CountedBallotsAre
    <2> DEFINE t == Counted(tally[p], votes[c][p], -Weight[c])
               u == Counted(t, v, Weight[c])
    <2>4. tally[p] \in [voters : Int, supporters : Int]  BY <1>0 DEF Tallies
    <2>5. /\ t \in [voters : Int, supporters : Int]
          /\ t.voters = tally[p].voters - Share(c, votes[c][p], {"Support", "Against"})
          /\ t.supporters = tally[p].supporters - Share(c, votes[c][p], {"Support"})
      BY <2>4, CountedShare, CountedIsTally, WeightIsInt
    <2> HIDE DEF t
    <2>6. /\ u.voters = t.voters + Share(c, v, {"Support", "Against"})
          /\ u.supporters = t.supporters + Share(c, v, {"Support"})
      BY <2>5, CountedShare
    <2>7. tally' = [tally EXCEPT ![p] = u]  BY <1>1 DEF HandleOperationReceived, t
    <2> HIDE DEF u
    <2>8. tally'[p] = u /\ \A q \in Profiles \ {p} : tally'[q] = tally[q]
      BY <1>0, <2>7 DEF Tallies
    <2>9. /\ CountedBallots[c][p] = votes[c][p] /\ CountedBallots'[c][p] = v
          /\ \A x \in Clients \ {c} : CountedBallots'[x][p] = CountedBallots[x][p]
          /\ \A q \in Profiles \ {p} : \A x \in Clients :
               CountedBallots'[x][q] = CountedBallots[x][q]
      BY <2>3
    <2>10. Counts(tally', CountedBallots', throws)
      BY <1>0, <2>5, <2>6, <2>8, <2>9, CountsMoved
    <2>11. CountsUpToThrows(CountedBallots)'  BY <2>1, <2>10, CountsIsCounts
    <2> QED  BY <2>1, <2>11 DEF PhantomInv
  <1>2. ASSUME NEW c \in Clients, HandleClientDisconnected(c) PROVE PhantomInv'
    <2>1. /\ call = Nobody /\ UNCHANGED <<tally, skipped, throws>>
          /\ votes' = [votes EXCEPT ![c] = NoVotes]
          /\ call'.handler = "leave" /\ call'.client = c /\ call'.votes = votes[c]
      BY <1>2 DEF HandleClientDisconnected
    <2>2. \A x \in Clients, q \in Profiles : BallotOf(x, q)' = BallotOf(x, q)
      BY <1>0, <2>1, IdleCountsRecorded DEF BallotOf
    <2>3. \A q \in Profiles : \A x \in Clients : CountedBallots'[x][q] = CountedBallots[x][q]
      BY <2>2, CountedBallotsAre
    <2>4. Counts(tally', CountedBallots', throws')  BY <1>0, <2>1, <2>3, CountsSame
    <2>5. votes'[call'.client] = NoVotes  BY <1>0, <2>1
    <2> QED  BY <2>1, <2>4, <2>5, CountsIsCounts DEF PhantomInv
  <1>3. ASSUME NEW p \in Profiles, StripVote(p) PROVE PhantomInv'
    <2> DEFINE c == call.client
    <2>1. /\ c \in Clients /\ call.handler = "leave" /\ UNCHANGED <<votes, skipped, throws>>
          /\ call.votes \in [Profiles -> Ballots \cup {NoVote}]
      BY <1>3 DEF StripVote, RuleTypeOK, Calls
    <2>2. /\ call'.handler = "leave" /\ call'.client = c
          /\ call'.votes = [call.votes EXCEPT ![p] = NoVote]
      BY <1>3, <1>0 DEF StripVote, Calls
    <2> HIDE DEF c
    <2>3. \A x \in Clients, q \in Profiles :
            /\ BallotOf(x, q) = IF x = c THEN call.votes[q] ELSE votes[x][q]
            /\ BallotOf(x, q)' = IF x = c THEN (IF q = p THEN NoVote ELSE call.votes[q])
                                          ELSE votes[x][q]
      BY <2>1, <2>2 DEF BallotOf, c
    <2>4. \A x \in Clients, q \in Profiles :
            /\ CountedBallots[x][q] = IF x = c THEN call.votes[q] ELSE votes[x][q]
            /\ CountedBallots'[x][q] = IF x = c THEN (IF q = p THEN NoVote ELSE call.votes[q])
                                                ELSE votes[x][q]
      BY <2>3, CountedBallotsAre
    <2> DEFINE u == Counted(tally[p], call.votes[p], -Weight[c])
    <2>5. tally[p] \in [voters : Int, supporters : Int]  BY <1>0 DEF Tallies
    <2>6. /\ u.voters = tally[p].voters - Share(c, call.votes[p], {"Support", "Against"})
          /\ u.supporters = tally[p].supporters - Share(c, call.votes[p], {"Support"})
      BY <2>1, <2>5, CountedShare
    <2>7. tally' = [tally EXCEPT ![p] = u]  BY <1>3 DEF StripVote, c
    <2> HIDE DEF u
    <2>8. tally'[p] = u /\ \A q \in Profiles \ {p} : tally'[q] = tally[q]
      BY <1>0, <2>7 DEF Tallies
    <2>9. /\ CountedBallots[c][p] = call.votes[p] /\ CountedBallots'[c][p] = NoVote
          /\ \A x \in Clients \ {c} : CountedBallots'[x][p] = CountedBallots[x][p]
          /\ \A q \in Profiles \ {p} : \A x \in Clients :
               CountedBallots'[x][q] = CountedBallots[x][q]
      BY <2>1, <2>4
    <2>10. Share(c, NoVote, {"Support", "Against"}) = 0 /\ Share(c, NoVote, {"Support"}) = 0
      BY DEF Share, NoVote
    <2>11. /\ tally[p].voters \in Int /\ tally[p].supporters \in Int
           /\ Share(c, call.votes[p], {"Support", "Against"}) \in Int
           /\ Share(c, call.votes[p], {"Support"}) \in Int
      BY <2>1, <2>5, ShareIsBounded
    <2>12. /\ tally'[p].voters = tally[p].voters - Share(c, CountedBallots[c][p], {"Support", "Against"})
                                    + Share(c, CountedBallots'[c][p], {"Support", "Against"})
           /\ tally'[p].supporters = tally[p].supporters - Share(c, CountedBallots[c][p], {"Support"})
                                       + Share(c, CountedBallots'[c][p], {"Support"})
      BY <2>6, <2>8, <2>9, <2>10, <2>11
    <2>13. Counts(tally', CountedBallots', throws)
      BY <1>0, <2>1, <2>8, <2>9, <2>12, CountsMoved
    <2>14. CountsUpToThrows(CountedBallots)'  BY <2>1, <2>13, CountsIsCounts
    <2> QED  BY <2>1, <2>2, <2>14 DEF PhantomInv, c
  <1>4. ASSUME Evaluating, call' = [call EXCEPT !.next = @ + 1],
               UNCHANGED <<votes, tally, skipped, throws>>
        PROVE  PhantomInv'
    <2>1. /\ call'.handler = call.handler /\ call'.client = call.client
          /\ call'.votes = call.votes /\ call'.profile = call.profile
      BY <1>0, <1>4 DEF Calls
    <2> QED  BY <1>4, <2>1, CallMovesOn
  <1>5. CASE SameState  BY <1>4, <1>5 DEF SameState
  <1>6. CASE Trigger  BY <1>4, <1>6 DEF Trigger
  <1>7. CASE TriggerThrows
    <2> DEFINE c == call.client
    <2>1. /\ call.handler = "vote" /\ call' = Nobody /\ UNCHANGED <<votes, tally>>
          /\ throws' = throws + 1 /\ c \in Clients
      BY <1>7 DEF TriggerThrows, RuleTypeOK
    <2>2. \A x \in Clients \ {c}, q \in Profiles : BallotOf(x, q)' = BallotOf(x, q)
      BY <2>1, IdleCountsRecordedNext DEF BallotOf
    <2>3. \A q \in Profiles : \A x \in Clients \ {c} :
            CountedBallots'[x][q] = CountedBallots[x][q]
      BY <2>2, CountedBallotsAre
    <2> HIDE DEF c
    <2>4. Counts(tally, CountedBallots', throws + 1)  BY <1>0, <2>1, <2>3, CountsForgotten
    <2>5. CountsUpToThrows(CountedBallots)'  BY <2>1, <2>4, CountsIsCounts
    <2>6. throws' # 0  BY <1>0, <2>1
    <2>7. call'.handler = "idle"  BY <2>1, NobodyIsCall
    <2> QED  BY <2>5, <2>6, <2>7 DEF PhantomInv
  <1>8. CASE Stop
    <2>1. /\ votes' = [c \in Clients |-> NoVotes] /\ tally' = Empty /\ call' = Nobody
          /\ skipped' = {} /\ throws' = throws
      BY <1>8 DEF Stop
    <2>2. \A q \in Profiles : \A x \in Clients : CountedBallots'[x][q] = NoVote
      BY <2>1, IdleCountsRecordedNext, CountedBallotsAre DEF NoVotes
    <2>3. Counts(Empty, CountedBallots', throws)  BY <1>0, <2>2, CountsNothing
    <2>4. CountsUpToThrows(CountedBallots)'  BY <2>1, <2>3, CountsIsCounts
    <2>5. call'.handler = "idle"  BY <2>1, NobodyIsCall
    <2> QED  BY <2>1, <2>4, <2>5 DEF PhantomInv
  <1>9. CASE EvaluationEnds
    <2> DEFINE c == call.client
               q == call.profile
    <2>1. /\ c \in Clients /\ q \in Profiles /\ UNCHANGED <<tally, throws>>
          /\ skipped' \subseteq skipped
      BY <1>9 DEF EvaluationEnds, RuleTypeOK
    <2>2. CASE /\ call.handler = "vote" /\ call' = Nobody
               /\ votes' = [votes EXCEPT ![c][q] = call.votes[q]]
      <3>1. \A x \in Clients, p \in Profiles :
              votes'[x][p] = IF x = c /\ p = q THEN call.votes[q] ELSE votes[x][p]
        BY <1>0, <2>1, <2>2
      <3>2. \A x \in Clients, p \in Profiles : BallotOf(x, p)' = BallotOf(x, p)
        BY <2>1, <2>2, <3>1, IdleCountsRecordedNext DEF BallotOf
      <3>3. \A p \in Profiles : \A x \in Clients : CountedBallots'[x][p] = CountedBallots[x][p]
        BY <3>2, CountedBallotsAre
      <3>4. Counts(tally', CountedBallots', throws')  BY <1>0, <2>1, <3>3, CountsSame
      <3>5. call'.handler = "idle"  BY <2>2, NobodyIsCall
      <3> QED  BY <2>1, <3>4, <3>5, CountsIsCounts DEF PhantomInv
    <2>3. CASE /\ call.handler = "leave" /\ call.votes = NoVotes /\ call' = Nobody
               /\ votes' = votes
      <3>1. votes[c] = NoVotes  BY <2>3 DEF PhantomInv
      <3>2. \A x \in Clients, p \in Profiles : BallotOf(x, p)' = BallotOf(x, p)
        BY <2>1, <2>3, <3>1, IdleCountsRecordedNext DEF BallotOf
      <3>3. \A p \in Profiles : \A x \in Clients : CountedBallots'[x][p] = CountedBallots[x][p]
        BY <3>2, CountedBallotsAre
      <3>4. Counts(tally', CountedBallots', throws')  BY <1>0, <2>1, <3>3, CountsSame
      <3>5. call'.handler = "idle"  BY <2>3, NobodyIsCall
      <3> QED  BY <2>1, <3>4, <3>5, CountsIsCounts DEF PhantomInv
    <2>4. CASE call.handler = "leave" /\ call' = [call EXCEPT !.next = 0] /\ votes' = votes
      <3>1. /\ call'.handler = call.handler /\ call'.client = call.client
            /\ call'.votes = call.votes /\ call'.profile = call.profile
        BY <1>0, <2>4 DEF Calls
      <3> QED  BY <2>1, <2>4, <3>1, CallMovesOn
    <2> QED  BY <1>9, <2>2, <2>3, <2>4 DEF EvaluationEnds
  <1> QED  BY <1>1, <1>2, <1>3, <1>5, <1>6, <1>7, <1>8, <1>9 DEF RuleNext

LEMMA PhantomInit == RuleInit => PhantomInv
  <1> SUFFICES ASSUME RuleInit PROVE PhantomInv  OBVIOUS
  <1>1. /\ call = Nobody /\ votes = [c \in Clients |-> NoVotes] /\ tally = Empty
        /\ throws = 0 /\ skipped = {}
    BY DEF RuleInit
  <1>2. \A q \in Profiles : \A x \in Clients : CountedBallots[x][q] = NoVote
    BY <1>1, IdleCountsRecorded, CountedBallotsAre DEF NoVotes
  <1>3. Counts(Empty, CountedBallots, 0)  BY <1>2, CountsNothing
  <1>4. CountsUpToThrows(CountedBallots)  BY <1>1, <1>3, CountsIsCounts
  <1>5. call.handler = "idle"  BY <1>1, NobodyIsCall
  <1> QED  BY <1>1, <1>4, <1>5 DEF PhantomInv

LEMMA PhantomStutters == PhantomInv /\ UNCHANGED ruleVars => PhantomInv'
  <1> SUFFICES ASSUME PhantomInv, UNCHANGED ruleVars PROVE PhantomInv'  OBVIOUS
  <1>1. UNCHANGED <<votes, tally, call, skipped, throws>>  BY DEF ruleVars
  <1> QED  BY <1>1, CallMovesOn

\* What the tallies are more or less than the ballots is bounded at every step
\* of every handler, whatever the weights, the rules and the exceptions.
THEOREM PhantomInvariance == RuleSpec => [](RuleInv /\ PhantomInv)
  <1>1. RuleInv /\ PhantomInv /\ [RuleNext]_ruleVars => PhantomInv'
    <2> SUFFICES ASSUME RuleInv, PhantomInv, [RuleNext]_ruleVars PROVE PhantomInv'  OBVIOUS
    <2>1. CASE RuleNext  BY <2>1, TypeKept, PhantomKept DEF RuleInv
    <2>2. CASE UNCHANGED ruleVars  BY <2>2, PhantomStutters
    <2> QED  BY <2>1, <2>2
  <1> QED  BY <1>1, PhantomInit, RuleInvariant, PTL DEF RuleSpec

\* Between two handlers a tally differs from its recorded ballots by no more
\* than the heaviest weight for each exception of InjectKey, voters and
\* supporters alike.
THEOREM PhantomsAreBounded == RuleSpec => []PhantomsBounded
  <1>1. PhantomInv => PhantomsBounded
    <2> SUFFICES ASSUME PhantomInv, call = Nobody PROVE CountsUpToThrows(votes)
      BY DEF PhantomsBounded
    <2>1. \A q \in Profiles : \A x \in Clients : votes[x][q] = CountedBallots[x][q]
      BY IdleCountsRecorded, CountedBallotsAre
    <2>2. Counts(tally, votes, throws)  BY <2>1, CountsSame, CountsIsCounts DEF PhantomInv
    <2> QED  BY <2>2, CountsIsCounts
  <1> QED  BY <1>1, PhantomInvariance, PTL

\* An exact tally without ballots is zero, and no rule that asks for something
\* positive is met by it: when the last ballot is gone the key is released.
THEOREM EmptyRoomLeavesKeys == RuleSpec => []EmptyRoomReleases
  <1>1. RuleInv /\ PhantomInv /\ KeysFollowTally /\ PhantomsBounded => EmptyRoomReleases
    <2> SUFFICES ASSUME RuleInv, PhantomInv, KeysFollowTally, PhantomsBounded,
                        call = Nobody, throws = 0, votes = [c \in Clients |-> NoVotes],
                        NEW id \in RuleIds,
                        Rule(id[1], id[2]).kind = "PressKey",
                        Alone(id[1], id[2]), Device(Rule(id[1], id[2])) \notin missed,
                        stateCache[StateKey(id[1], Rule(id[1], id[2]))] # "none",
                        NEW q \in Rule(id[1], id[2]).requireVoters
                                    \cup Rule(id[1], id[2]).requireSupporters
                                    \cup Rule(id[1], id[2]).requireSupportRate,
                        q > 0
                 PROVE  device[Device(Rule(id[1], id[2]))] = "Release"
      BY DEF EmptyRoomReleases
    <2> DEFINE p == id[1]
               r == Rule(id[1], id[2])
    <2>1. p \in Profiles /\ id[2] \in DOMAIN VoteResults[p]
      <3>1. PICK o \in Profiles : id \in {o} \X DOMAIN VoteResults[o]  BY DEF RuleIds
      <3> QED  BY <3>1
    <2>2. device[Device(r)] = CurrentState(r, tally[p])
      <3>1. p \notin skipped  BY DEF PhantomInv
      <3> QED  BY <3>1 DEF KeysFollowTally
    <2>3. Sum(votes, p, {"Support", "Against"}) = 0 /\ Sum(votes, p, {"Support"}) = 0
      <3>1. \A x \in Clients : votes[x][p] = NoVote  BY <2>1 DEF NoVotes
      <3>2. NoVote \notin {"Support", "Against"} /\ NoVote \notin {"Support"}  BY DEF NoVote
      <3> HIDE DEF p
      <3> QED  BY <3>1, <3>2, NobodyVotes
    <2>4. tally[p].voters = 0 /\ tally[p].supporters = 0
      <3>1. throws * Heaviest = 0  BY HeaviestIsLargest
      <3>2. /\ Bounded(tally[p].voters - Sum(votes, p, {"Support", "Against"}))
            /\ Bounded(tally[p].supporters - Sum(votes, p, {"Support"}))
        BY <2>1 DEF PhantomsBounded, CountsUpToThrows
      <3>3. tally[p].voters \in Int /\ tally[p].supporters \in Int
        BY <2>1 DEF RuleInv, RuleTypeOK
      <3>4. /\ tally[p].voters - 0 <= 0 /\ 0 <= tally[p].voters - 0
            /\ tally[p].supporters - 0 <= 0 /\ 0 <= tally[p].supporters - 0
        BY <2>3, <3>1, <3>2 DEF Bounded
      <3> QED  BY <3>3, <3>4
    <2>5. q \in Int
      <3>1. VoteResults[p] \in Seq(Rules)  BY <2>1, RulesAssumption
      <3>2. r \in Rules  BY <2>1, <3>1 DEF Rule
      <3> QED  BY <3>2 DEF Rules
    <2>6. ~(q < 0) /\ ~(0 >= q) /\ ~(0 > 0)  BY <2>5
    <2> HIDE DEF p, r
    <2>7. CASE q \in r.requireVoters
      <3>1. ~CheckRule(tally[p].voters, r.requireVoters)  BY <2>4, <2>6, <2>7 DEF CheckRule
      <3> QED  BY <2>2, <3>1 DEF CurrentState, r
    <2>8. CASE q \in r.requireSupporters
      <3>1. ~CheckRule(tally[p].supporters, r.requireSupporters)
        BY <2>4, <2>6, <2>8 DEF CheckRule
      <3> QED  BY <2>2, <3>1 DEF CurrentState, r
    <2>9. CASE q \in r.requireSupportRate
      <3>1. ~RateAtLeast(tally[p], q)  BY <2>4, <2>6 DEF RateAtLeast
      <3>2. ~CheckRate(tally[p], r.requireSupportRate)  BY <2>6, <2>9, <3>1 DEF CheckRate
      <3> QED  BY <2>2, <3>2 DEF CurrentState, r
    <2> QED  BY <2>7, <2>8, <2>9 DEF r
  <1> QED  BY <1>1, PhantomInvariance, DevicesFollowVotes, PhantomsAreBounded, PTL
=============================================================================
