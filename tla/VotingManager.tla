---------------------------- MODULE VotingManager ----------------------------
(***************************************************************************)
(* VotingManager (core/Server) over the sessions of VotingServer: votes    *)
(* are weighed with the multiplier of the voter's user and added to one    *)
(* tally per operation type, under managerLock.  A vote arrives on the     *)
(* client's receive loop, a disconnected client's votes are removed by a   *)
(* thread of their own, a multiplier change is applied by the console      *)
(* thread inside User.Set, and the session events of Sessions reach the    *)
(* handlers of the constructor.                                            *)
(*                                                                         *)
(* Every multiplier is read through User.infoLock (and the client's user   *)
(* through ClientInfo.userLock), so a handler can stop between two reads   *)
(* with managerLock in hand.  Tallies are mathematical integers: the code  *)
(* adds and subtracts 32-bit ints, which agrees modulo 2^32.               *)
(*                                                                         *)
(* The listeners of OnOperationCountChanged and OnClientVoteCleared are    *)
(* assumed to return.  One that throws leaves the factory of AddOrUpdate   *)
(* before the ballot is recorded, a cleanup or a multiplier change half    *)
(* done; the module ResultProcessor has the listener of the preset server  *)
(* with its exceptions, and bounds what they cost.                         *)
(***************************************************************************)
EXTENDS Sessions, FiniteSetsExt

CONSTANTS
  Ops,        \* operation types of the server's templates
  Ballots     \* the vote types the clients send

VoteTypes == {"Support", "Against", "Abstain"}
NoVote == "none"                        \* no entry in the client's map

ASSUME ManagerAssumption == Ops # {} /\ Ballots \subseteq VoteTypes

VARIABLES
  votes,       \* _clientVotes: the recorded vote of each client and operation
  tally,       \* _tallies: Voters and Supporters of each operation
  managerLock, \* its writer and its upgradeable reader
  op,          \* HandleOperationReceived on each client's receive loop
  cleanup,     \* the thread HandleClientDisconnected starts for each client
  disturbed    \* history: a weight changed in a way the handlers cannot see

managerVars == <<votes, tally, managerLock, op, cleanup, disturbed>>
vars == <<mult, registered, userOf, connected, mover, loop, auth, operator, deletion,
          commands, crashed, votes, tally, managerLock, op, cleanup, disturbed>>

\* Threads, as owners of managerLock.
NoThread == <<>>
Loop(c) == <<"loop", c>>
Auth(c) == <<"auth", c>>
Cleaner(c) == <<"cleaner", c>>
Operator == <<"operator">>
Deleter(u) == IF deletion[u].pool THEN <<"pool", u>> ELSE Operator

NoVotes == [o \in Ops |-> NoVote]
NoOperation == [pc |-> "idle", type |-> CHOOSE o \in Ops : TRUE, vote |-> "Abstain"]

ManagerInit ==
  /\ votes = [c \in Clients |-> NoVotes]
  /\ tally = [o \in Ops |-> [voters |-> 0, supporters |-> 0]]
  /\ managerLock = [writer |-> NoThread, upgradeable |-> NoThread]
  /\ op = [c \in Clients |-> NoOperation]
  /\ cleanup = [c \in Clients |-> [pc |-> "none", map |-> NoVotes]]
  /\ disturbed = FALSE

Init == SessionInit /\ ManagerInit

-----------------------------------------------------------------------------
(* ReaderWriterLockSlim without recursion: a writer excludes everybody but *)
(* its own upgradeable hold; there is one upgradeable reader, and it may   *)
(* enter only while nobody writes.                                         *)

CanWrite(t) == managerLock.writer = NoThread /\ managerLock.upgradeable \in {NoThread, t}
CanUpgradeable == managerLock.writer = NoThread /\ managerLock.upgradeable = NoThread

EnterWrite(t) == CanWrite(t) /\ managerLock' = [managerLock EXCEPT !.writer = t]
ExitWrite == managerLock' = [managerLock EXCEPT !.writer = NoThread]

\* VoteType -> what one vote of the given weight adds (Apply) or takes (Remove).
ApplyVoteTally(t, vote, weight) ==
  [voters     |-> t.voters + (IF vote \in {"Support", "Against"} THEN weight ELSE 0),
   supporters |-> t.supporters + (IF vote = "Support" THEN weight ELSE 0)]

RemoveVoteTally(t, vote, weight) == ApplyVoteTally(t, vote, -weight)

\* e.Client.User.VoteMultiplier can be read: neither lock on the way is held.
CanReadMultiplier(c) == ~UserLocked(c) /\ ~InfoWritten(userOf[c])

(***************************************************************************)
(* Mutated forms of the actions below, each a plausible slip in the code.  *)
(***************************************************************************)

\* An operation frame whose vote byte was never decoded.
ReceiveUndecoded(c, o, v) ==
  /\ loop[c].pc = "serving"
  /\ op[c].pc = "idle"
  /\ op' = [op EXCEPT ![c] = [pc |-> "wait", type |-> o, vote |-> NoVote]]
  /\ UNCHANGED <<sessionVars, votes, tally, managerLock, cleanup, disturbed>>

\* A second vote on an operation is added without removing the first.
EnterTallyAddsOnly(c) ==
  /\ op[c].pc = "wait"
  /\ EnterWrite(Loop(c))
  /\ op' = [op EXCEPT ![c].pc = "apply"]
  /\ UNCHANGED <<sessionVars, votes, tally, cleanup, disturbed>>

\* The new vote is removed instead of the one on record.
RemoveNewVote(c) ==
  /\ op[c].pc = "remove"
  /\ CanReadMultiplier(c)
  /\ tally' = [tally EXCEPT ![op[c].type] = RemoveVoteTally(@, op[c].vote, mult[userOf[c]])]
  /\ op' = [op EXCEPT ![c].pc = "apply"]
  /\ UNCHANGED <<sessionVars, votes, managerLock, cleanup, disturbed>>

\* A vote that is recorded leaves without ExitWriteLock.
ApplyNewVoteLocked(c) ==
  /\ op[c].pc = "apply"
  /\ CanReadMultiplier(c)
  /\ tally' = [tally EXCEPT ![op[c].type] = ApplyVoteTally(@, op[c].vote, mult[userOf[c]])]
  /\ votes' = [votes EXCEPT ![c][op[c].type] = op[c].vote]
  /\ op' = [op EXCEPT ![c] = NoOperation]
  /\ UNCHANGED <<sessionVars, managerLock, cleanup, disturbed>>

\* The cleanup forgets the map without taking its weights out.
StripNothing(c, o) ==
  /\ cleanup[c].pc = "strip"
  /\ cleanup[c].map[o] # NoVote
  /\ CanReadMultiplier(c)
  /\ cleanup' = [cleanup EXCEPT ![c].map[o] = NoVote]
  /\ UNCHANGED <<sessionVars, votes, tally, managerLock, op, disturbed>>

\* The cleanup thread leaves without ExitWriteLock.
EndCleanupLocked(c) ==
  /\ cleanup[c].pc = "strip"
  /\ cleanup[c].map = NoVotes
  /\ cleanup' = [cleanup EXCEPT ![c].pc = "done"]
  /\ UNCHANGED <<sessionVars, votes, tally, managerLock, op, disturbed>>

\* The receive loop does not wait for the operation handler to return.
LoopNeverBusy(c) == op[c].pc \in {"idle", "wait"}

\* HandleClientDisconnected does not start its thread.
ClosingWithoutCleanup(c) == (CloseLock(c) \/ CloseRemove(c)) /\ UNCHANGED managerVars

-----------------------------------------------------------------------------
(* HandleOperationReceived, on the receive loop of the client.             *)

ReceiveOperation(c, o, v) ==
  /\ loop[c].pc = "serving"
  /\ op[c].pc = "idle"
  /\ op' = [op EXCEPT ![c] = [pc |-> "wait", type |-> o, vote |-> v]]
  /\ UNCHANGED <<sessionVars, votes, tally, managerLock, cleanup, disturbed>>

EnterTally(c) ==
  /\ op[c].pc = "wait"
  /\ EnterWrite(Loop(c))
  /\ op' = [op EXCEPT ![c].pc = IF votes[c][op[c].type] = NoVote THEN "apply" ELSE "remove"]
  /\ UNCHANGED <<sessionVars, votes, tally, cleanup, disturbed>>

RemoveOldVote(c) ==
  /\ op[c].pc = "remove"
  /\ CanReadMultiplier(c)
  /\ tally' = [tally EXCEPT ![op[c].type] =
                 RemoveVoteTally(@, votes[c][op[c].type], mult[userOf[c]])]
  /\ op' = [op EXCEPT ![c].pc = "apply"]
  /\ UNCHANGED <<sessionVars, votes, managerLock, cleanup, disturbed>>

ApplyNewVote(c) ==
  /\ op[c].pc = "apply"
  /\ CanReadMultiplier(c)
  /\ tally' = [tally EXCEPT ![op[c].type] = ApplyVoteTally(@, op[c].vote, mult[userOf[c]])]
  /\ votes' = [votes EXCEPT ![c][op[c].type] = op[c].vote]
  /\ op' = [op EXCEPT ![c] = NoOperation]
  /\ ExitWrite
  /\ UNCHANGED <<sessionVars, cleanup, disturbed>>

OperationStep(c) == EnterTally(c) \/ RemoveOldVote(c) \/ ApplyNewVote(c)

-----------------------------------------------------------------------------
(* HandleClientDisconnected: the thread that strips a client's votes.      *)

TakeVotes(c) ==
  /\ cleanup[c].pc = "wait"
  /\ EnterWrite(Cleaner(c))
  /\ cleanup' = [cleanup EXCEPT ![c] = [pc |-> "strip", map |-> votes[c]]]
  /\ votes' = [votes EXCEPT ![c] = NoVotes]
  /\ UNCHANGED <<sessionVars, tally, op, disturbed>>

StripVote(c, o) ==
  /\ cleanup[c].pc = "strip"
  /\ cleanup[c].map[o] # NoVote
  /\ CanReadMultiplier(c)
  /\ tally' = [tally EXCEPT ![o] = RemoveVoteTally(@, cleanup[c].map[o], mult[userOf[c]])]
  /\ cleanup' = [cleanup EXCEPT ![c].map[o] = NoVote]
  /\ UNCHANGED <<sessionVars, votes, managerLock, op, disturbed>>

EndCleanup(c) ==
  /\ cleanup[c].pc = "strip"
  /\ cleanup[c].map = NoVotes
  /\ cleanup' = [cleanup EXCEPT ![c].pc = "done"]
  /\ ExitWrite
  /\ UNCHANGED <<sessionVars, votes, tally, op, disturbed>>

CleanupStep(c) == TakeVotes(c) \/ (\E o \in Ops : StripVote(c, o)) \/ EndCleanup(c)

-----------------------------------------------------------------------------
(* History.  A vote on record is one whose weight is part of a tally, or   *)
(* is being added or taken out right now.                                  *)

OnRecord(c) ==
  \/ votes[c] # NoVotes
  \/ cleanup[c].map # NoVotes
  \/ op[c].pc \in {"remove", "apply"}

\* Client c changes user with votes on record, or while a multiplier change
\* works from a copy of one of the two lists.
Reseats(c) ==
  /\ userOf'[c] # userOf[c]
  /\ OnRecord(c) \/ InfoWritten(userOf[c]) \/ InfoWritten(userOf'[c])

\* The copy misses a client whose votes still weigh in: it is being moved, or
\* it is off the list and its cleanup thread has not run yet.
Missed == {c \in Clients : userOf[c] = operator.user /\ c \notin connected[operator.user] /\ OnRecord(c)}

NoteReseats == disturbed' = (disturbed \/ \E c \in Clients : Reseats(c))

-----------------------------------------------------------------------------
(* The session handlers with their VotingManager listeners.                *)

ManagerUnchangedButNote == NoteReseats /\ UNCHANGED <<votes, tally, managerLock, op, cleanup>>

\* The receive loop handles one frame at a time: it does not end, nor start
\* a login, while it is inside HandleOperationReceived.
LoopFree(c) == op[c].pc = "idle"

ClientConnects(c) == Connect(c) /\ UNCHANGED managerVars
ClientLogsIn(c, u) == LoopFree(c) /\ Authenticate(c, u) /\ UNCHANGED managerVars
ClientCloses(c) == LoopFree(c) /\ CloseRead(c) /\ UNCHANGED managerVars

Closing(c) ==
  \/ CloseLock(c) /\ UNCHANGED managerVars
  \/ /\ CloseRemove(c)
     /\ cleanup' = [cleanup EXCEPT ![c].pc = "wait"]
     /\ UNCHANGED <<votes, tally, managerLock, op, disturbed>>

\* The OnClientUserChange handler after a login.
UserChangeEnter(c) ==
  /\ auth[c].pc = "event"
  /\ CanUpgradeable
  /\ managerLock' = [managerLock EXCEPT !.upgradeable = Auth(c)]
  /\ UNCHANGED <<sessionVars, votes, tally, op, cleanup, disturbed>>

\* Mutated form of UserChangeRun: the handler never leaves its upgradeable lock.
UserChangeRunLeaks(c) ==
  /\ managerLock.upgradeable = Auth(c)
  /\ ~InfoWritten(auth[c].user) /\ ~InfoWritten(Anon)
  /\ AuthEvent(c)
  /\ UNCHANGED managerVars

\* It reads both multipliers.  If they differ it enters the write lock, and
\* ProcessVoteMultiplierChange enters it once more for the first vote on
\* record: LockRecursionException.  With no vote it finds nothing to do.
\* Either way no tally changes and both holds are released.
UserChangeRun(c) ==
  /\ managerLock.upgradeable = Auth(c)
  /\ ~InfoWritten(auth[c].user) /\ ~InfoWritten(Anon)
  /\ AuthEvent(c)
  /\ managerLock' = [managerLock EXCEPT !.upgradeable = NoThread]
  /\ UNCHANGED <<votes, tally, op, cleanup, disturbed>>

LoginStep(c) ==
  \/ AddLock(c) /\ UNCHANGED managerVars
  \/ AddCheck(c) /\ UNCHANGED managerVars
  \/ AddRemove(c) /\ UNCHANGED managerVars
  \/ AddSet(c) /\ ManagerUnchangedButNote
  \/ UserChangeEnter(c)
  \/ UserChangeRun(c)

\* HandleUserVoteMultiplierChange: the copy, then the difference for every
\* recorded vote of every client of the copy, under one write lock.
Voting(S, o, kinds) == Cardinality({c \in S : votes[c][o] \in kinds})

\* Mutated form of ApplyMultiplierChange: the difference with its sign lost.
ApplyMultiplierChangeBackwards ==
  LET delta == operator.orig - mult[operator.user] IN
  /\ CanWrite(Operator)
  /\ SetReturns
  /\ tally' = [o \in Ops |->
       [voters     |-> tally[o].voters + delta * Voting(operator.todo, o, {"Support", "Against"}),
        supporters |-> tally[o].supporters + delta * Voting(operator.todo, o, {"Support"})]]
  /\ UNCHANGED <<votes, managerLock, op, cleanup, disturbed>>

ApplyMultiplierChange ==
  LET delta == mult[operator.user] - operator.orig IN
  /\ CanWrite(Operator)
  /\ SetReturns
  /\ tally' = [o \in Ops |->
       [voters     |-> tally[o].voters + delta * Voting(operator.todo, o, {"Support", "Against"}),
        supporters |-> tally[o].supporters + delta * Voting(operator.todo, o, {"Support"})]]
  /\ UNCHANGED <<votes, managerLock, op, cleanup, disturbed>>

MultiplierStep ==
  \/ /\ SetSnapshot
     /\ disturbed' = (disturbed \/ Missed # {})
     /\ UNCHANGED <<votes, tally, managerLock, op, cleanup>>
  \/ ApplyMultiplierChange

\* VotingServer.ExchangeUser raises OnClientUserChange with Anonymous as old
\* and as new user: the handler enters, finds no difference, and leaves.  If
\* the console thread still holds the upgradeable lock, entering throws.
UnauthorizeManagerStep ==
  \/ (\E c \in Clients : UnauthorizeRemove(c)) /\ UNCHANGED managerVars
  \/ (\E c \in Clients : UnauthorizeMove(c)) /\ ManagerUnchangedButNote
  \/ CanUpgradeable /\ UnauthorizeEvent(FALSE) /\ UNCHANGED managerVars
  \/ managerLock.upgradeable = Operator /\ UnauthorizeEvent(TRUE) /\ UNCHANGED managerVars
  \/ UnauthorizeEnd /\ UNCHANGED managerVars

\* The OnUserDeleted handler enters the upgradeable lock and never leaves it;
\* entering it twice on one thread throws.
LeakUpgradeable(u) ==
  /\ CanUpgradeable
  /\ DeleteEvent(u, FALSE)
  /\ managerLock' = [managerLock EXCEPT !.upgradeable = Deleter(u)]
  /\ UNCHANGED <<votes, tally, op, cleanup, disturbed>>

DeletionManagerStep(u) ==
  \/ (\E c \in Clients : DeleteYield(u, c) \/ DeleteRemove(u, c) \/ AgainYield(u, c)) /\ UNCHANGED managerVars
  \/ (\E c \in Clients : DeleteMove(u, c)) /\ ManagerUnchangedButNote
  \/ DeleteEnumerated(u) /\ UNCHANGED managerVars
  \/ LeakUpgradeable(u)
  \/ managerLock.upgradeable = Deleter(u) /\ DeleteEvent(u, TRUE) /\ UNCHANGED managerVars
  \/ (\E c \in Clients : DeleteAgain(u, c, TRUE)) /\ ManagerUnchangedButNote
  \/ DeleteEnd(u) /\ UNCHANGED managerVars

-----------------------------------------------------------------------------
ClientRequest ==
  \/ \E c \in Clients : ClientConnects(c) \/ ClientCloses(c)
  \/ \E c \in Clients, u \in Users : ClientLogsIn(c, u)
  \/ \E c \in Clients, o \in Ops, v \in Ballots : ReceiveOperation(c, o, v)

OperatorRequest ==
  /\ \/ \E u \in AllUsers, m \in Multipliers : SetMultiplier(u, m)
     \/ \E u \in Users : Unauthorize(u) \/ DeleteUser(u)
  /\ UNCHANGED managerVars

ConnectionStep(c) == OperationStep(c) \/ Closing(c) \/ CleanupStep(c)

Next ==
  /\ ~crashed
  /\ \/ ClientRequest
     \/ OperatorRequest
     \/ \E c \in Clients : ConnectionStep(c) \/ LoginStep(c)
     \/ MultiplierStep
     \/ UnauthorizeManagerStep
     \/ \E u \in Users : DeletionManagerStep(u)

Spec == Init /\ [][Next]_vars

(***************************************************************************)
(* Every started thread goes on when it can.  The fairness is strong:      *)
(* ReaderWriterLockSlim wakes a waiting writer or upgradeable reader when  *)
(* the lock is released, so none of them is passed over for ever.  The     *)
(* receive loop of a client and the cleanup thread it starts at its end    *)
(* never run at once, and make one condition.                              *)
(***************************************************************************)
FairSpec ==
  /\ Spec
  /\ \A c \in Clients :
       /\ SF_vars(~crashed /\ ConnectionStep(c))
       /\ SF_vars(~crashed /\ LoginStep(c))
  /\ SF_vars(~crashed /\ (MultiplierStep \/ UnauthorizeManagerStep))
  /\ \A u \in Users : SF_vars(~crashed /\ DeletionManagerStep(u))

-----------------------------------------------------------------------------
Threads ==
  {NoThread, Operator} \cup {Loop(c) : c \in Clients} \cup {Auth(c) : c \in Clients}
    \cup {Cleaner(c) : c \in Clients} \cup {<<"pool", u>> : u \in Users}

ManagerTypeOK ==
  /\ votes \in [Clients -> [Ops -> VoteTypes \cup {NoVote}]]
  /\ tally \in [Ops -> [voters : Int, supporters : Int]]
  /\ managerLock \in [writer : Threads, upgradeable : Threads]
  /\ op \in [Clients -> [pc : {"idle", "wait", "remove", "apply"}, type : Ops, vote : VoteTypes]]
  /\ cleanup \in [Clients -> [pc : {"none", "wait", "strip", "done"},
                              map : [Ops -> VoteTypes \cup {NoVote}]]]
  /\ disturbed \in BOOLEAN

TypeOK == SessionTypeOK /\ ManagerTypeOK

(* A thread that is about to change a tally or a client's map holds the    *)
(* write lock, and the write lock is held by such a thread: no update of   *)
(* HandleOperationReceived or HandleClientDisconnected is ever interleaved *)
(* with another, and no handler leaves with the write lock.                *)
WriterOwnsTally ==
  /\ \A c \in Clients :
       /\ op[c].pc \in {"remove", "apply"} <=> managerLock.writer = Loop(c)
       /\ cleanup[c].pc = "strip" <=> managerLock.writer = Cleaner(c)
  /\ managerLock.writer # NoThread =>
       \E c \in Clients : managerLock.writer \in {Loop(c), Cleaner(c)}

(* Once the cleanup thread of a connection is through, nothing of that     *)
(* connection is recorded any more: no operation of it is still under way  *)
(* and none of its votes comes back (HandleClientDisconnected, "strip the  *)
(* user's choices out permanently").                                       *)
GoneClientHasNoVotes ==
  \A c \in Clients :
    cleanup[c].pc = "done" => votes[c] = NoVotes /\ op[c].pc = "idle" /\ loop[c].pc = "closed"

\* The weight the tallies should give a client: while a multiplier change is
\* on its way to the tallies, still the old one.
WeightOf(c) == IF InfoWritten(userOf[c]) THEN operator.orig ELSE mult[userOf[c]]

Weights == [c \in Clients |-> WeightOf(c)]

\* What the tallies are when client c has ballots b[c] and weighs w[c].
Weighed(b, w, o, kinds) ==
  SumFunction([c \in Clients |-> IF b[c][o] \in kinds THEN w[c] ELSE 0])

Tallied(b, w) ==
  [o \in Ops |-> [voters     |-> Weighed(b, w, o, {"Support", "Against"}),
                  supporters |-> Weighed(b, w, o, {"Support"})]]

(* Between two updates every tally is the sum of the weights of the votes  *)
(* on record, unless a user change or a disconnect has slipped past the    *)
(* handlers in one of the ways Reseats and Missed name.  As long as the    *)
(* count listeners return (VotingManager.cs:161, 173, 204, 238), no order  *)
(* of votes, revotes, logins, departures and multiplier changes makes      *)
(* VotingManager miscount in another way.                                  *)
TallyExactUnlessDisturbed ==
  ~disturbed /\ managerLock.writer = NoThread => tally = Tallied(votes, Weights)

(* When everybody has left and every cleanup is through, every tally is    *)
(* back at zero: "strip the user's choices out permanently".  A cleanup    *)
(* whose count listener throws is outside the module, as said above.       *)
EmptyRoomCountsNothing ==
  (\A c \in Clients : cleanup[c].pc = "done") =>
    \A o \in Ops : tally[o] = [voters |-> 0, supporters |-> 0]

\* The ballots whose weight is in the tallies right now: a revote has none
\* between removal and application, a cleanup those it has not stripped.
CountedBallots ==
  [c \in Clients |-> [o \in Ops |->
     IF op[c].pc = "apply" /\ op[c].type = o THEN NoVote
     ELSE IF cleanup[c].pc = "strip" THEN cleanup[c].map[o] ELSE votes[c][o]]]

Box == INSTANCE BallotBox WITH Weight <- FirstMult[Anon], ballots <- CountedBallots

\* No user weighs more than another, and the operator changes nothing of it.
EqualWeights ==
  /\ \A u \in AllUsers : FirstMult[u] = FirstMult[Anon]
  /\ Multipliers \subseteq {FirstMult[Anon]}

(* Where all votes weigh the same, VotingManager is a ballot box: every    *)
(* step of HandleOperationReceived and HandleClientDisconnected puts in,   *)
(* changes or takes out one ballot, and the tallies are its count, given   *)
(* that the count listeners return.                                        *)
CountsEachBallotOnce == Box!Spec

(* The console thread, inside User.Set, never waits for managerLock while  *)
(* its owner waits for the infoLock the console thread holds (the copy     *)
(* under ConnectedClientsLock is there to avoid "the lock-order inversion  *)
(* deadlock").                                                             *)
NoLockInversion ==
  operator.pc = "set_wait" =>
    \A c \in Clients :
      /\ managerLock.writer = Loop(c) => ~InfoWritten(userOf[c])
      /\ managerLock.writer = Cleaner(c) /\ cleanup[c].map # NoVotes => ~InfoWritten(userOf[c])
      /\ managerLock.upgradeable = Auth(c) => ~InfoWritten(auth[c].user) /\ ~InfoWritten(Anon)

(* Every operation that is received is counted sooner or later             *)
(* (VotingManager is "responsible for counting the votes").                *)
VoteCounted == \A c \in Clients : (op[c].pc = "wait") ~> (op[c].pc = "idle" \/ crashed)

(* The votes of a client whose socket has ended are taken out sooner or    *)
(* later.                                                                  *)
CleanupRuns == \A c \in Clients : (loop[c].pc = "close_wait") ~> (cleanup[c].pc = "done" \/ crashed)

-----------------------------------------------------------------------------
(* The inductive invariant.  An operation is under way only while the      *)
(* client is served, its cleanup only after the loop has ended, and from   *)
(* then on nothing is recorded for it.                                     *)
CleanupAfterLoop ==
  \A c \in Clients :
    /\ op[c].pc # "idle" => loop[c].pc = "serving"
    /\ cleanup[c].pc # "none" => loop[c].pc = "closed"
    /\ cleanup[c].pc \in {"strip", "done"} => votes[c] = NoVotes

ManagerInv == ManagerTypeOK /\ WriterOwnsTally /\ CleanupAfterLoop

(* What makes the tallies exact.  At every moment, in the middle of an     *)
(* update too, they are the weights of the counted ballots; and a          *)
(* multiplier change that waits for the write lock has a copy of exactly   *)
(* those clients of the user that have votes, because nobody of that user  *)
(* votes while infoLock is held.                                           *)
TallyFollowsBallots == ~disturbed => tally = Tallied(CountedBallots, Weights)

CopyHasVoters ==
  ~disturbed /\ operator.pc = "set_wait" =>
    /\ \A c \in operator.todo : userOf[c] = operator.user
    /\ \A c \in Clients : userOf[c] = operator.user /\ votes[c] # NoVotes => c \in operator.todo

TallyInv == TallyFollowsBallots /\ CopyHasVoters
=============================================================================
