------------------------- MODULE VotingManager_proofs -------------------------
(***************************************************************************)
(* TLAPS proofs about VotingManager, for every set of clients, users and   *)
(* operations: the sessions under VotingManager behave as Sessions says,   *)
(* the tallies are only updated by the owner of the write lock, a          *)
(* connection whose cleanup is through leaves no vote behind, the tallies  *)
(* are the weighed ballots until a change of weights meets a ballot in     *)
(* flight, and with equal weights the server is a ballot box.  Sums over   *)
(* the clients are those of SumTheorems.                                   *)
(***************************************************************************)
EXTENDS VotingManager, Sessions_proofs, SumTheorems

-----------------------------------------------------------------------------
(* The listeners of VotingManager add to the session handlers and take     *)
(* nothing away: a step of the whole is a step of Sessions or leaves the   *)
(* sessions alone.                                                         *)
LEMMA SessionStep == [Next]_vars => [SessionNext]_sessionVars
<1> SUFFICES ASSUME [Next]_vars PROVE [SessionNext]_sessionVars
  OBVIOUS
<1>1. CASE UNCHANGED vars
  BY <1>1 DEF vars, sessionVars
<1>2. CASE Next
  <2>0. ~crashed
    BY <1>2 DEF Next
  <2>1. CASE ClientRequest
    BY <2>0, <2>1
    DEF ClientRequest, ClientConnects, ClientCloses, ClientLogsIn, ReceiveOperation, SessionNext, Request
  <2>2. CASE OperatorRequest
    BY <2>0, <2>2 DEF OperatorRequest, SessionNext, Request
  <2>3. ASSUME NEW c \in Clients, ConnectionStep(c) PROVE [SessionNext]_sessionVars
    BY <2>0, <2>3
    DEF ConnectionStep, OperationStep, EnterTally, RemoveOldVote, ApplyNewVote, Closing,
        CleanupStep, TakeVotes, StripVote, EndCleanup, SessionNext, CloseStep
  <2>4. ASSUME NEW c \in Clients, LoginStep(c) PROVE [SessionNext]_sessionVars
    BY <2>0, <2>4 DEF LoginStep, UserChangeEnter, UserChangeRun, SessionNext, AuthStep
  <2>5. CASE MultiplierStep
    BY <2>0, <2>5 DEF MultiplierStep, ApplyMultiplierChange, SessionNext, SetStep
  <2>6. CASE UnauthorizeManagerStep
    BY <2>0, <2>6 DEF UnauthorizeManagerStep, SessionNext, UnauthorizeStep
  <2>7. ASSUME NEW u \in Users, DeletionManagerStep(u) PROVE [SessionNext]_sessionVars
    BY <2>0, <2>7 DEF DeletionManagerStep, LeakUpgradeable, SessionNext, DeleteStep
  <2> QED
    BY <1>2, <2>1, <2>2, <2>3, <2>4, <2>5, <2>6, <2>7 DEF Next
<1> QED
  BY <1>1, <1>2

(* The server with its VotingManager implements Sessions.                  *)
THEOREM ServerImplementsSessions == Spec => SessionSpec
<1>1. Init => SessionInit
  BY DEF Init
<1> QED
  BY <1>1, SessionStep, PTL DEF Spec, SessionSpec

(* What is proved of Sessions therefore holds of the whole server, with    *)
(* VotingManager listening: no client is counted under two users, and a    *)
(* served client is on its user's list or is just being put on one.        *)
THEOREM ServerKeepsSessions == Spec => [](ListedOnlyAsSelf /\ ServedIsListed)
  BY ServerImplementsSessions, NeverCountedTwice, ServedAlwaysListed, PTL

(* With VotingManager listening there are no ghosts either, where answers  *)
(* are in time and nobody is deleted: HandleClientDisconnected is the last *)
(* word on a connection.                                                   *)
THEOREM ServerHasNoGhosts == ASSUME InTime PROVE Spec => []NoGhostSession
<1>1. SessionSpec => []NoGhostSession
  BY NoGhosts
<1> QED BY <1>1, ServerImplementsSessions, PTL

-----------------------------------------------------------------------------
(* A receive loop that is in no operation; the template it names is some   *)
(* operation, because the server has at least one.                         *)
LEMMA NoOperationType ==
  /\ NoOperation \in [pc : {"idle", "wait", "remove", "apply"}, type : Ops, vote : VoteTypes]
  /\ NoOperation.pc = "idle"
<1>1. (CHOOSE o \in Ops : TRUE) \in Ops
  BY ManagerAssumption
<1> QED
  BY <1>1 DEF NoOperation, VoteTypes

(* The initial state of VotingManager.                                     *)
LEMMA InitManagerInv == Init => ManagerInv
<1> SUFFICES ASSUME Init PROVE ManagerInv
  OBVIOUS
<1>1. ManagerTypeOK
  <2>1. managerLock \in [writer : Threads, upgradeable : Threads]
    BY DEF Init, ManagerInit, Threads
  <2>2. op \in [Clients -> [pc : {"idle", "wait", "remove", "apply"}, type : Ops, vote : VoteTypes]]
    BY NoOperationType DEF Init, ManagerInit
  <2>3. NoVotes \in [Ops -> VoteTypes \cup {NoVote}]
    BY DEF NoVotes
  <2>4. votes \in [Clients -> [Ops -> VoteTypes \cup {NoVote}]]
    BY <2>3 DEF Init, ManagerInit
  <2>5. cleanup \in [Clients -> [pc : {"none", "wait", "strip", "done"},
                                map : [Ops -> VoteTypes \cup {NoVote}]]]
    BY <2>3 DEF Init, ManagerInit
  <2>6. tally \in [Ops -> [voters : Int, supporters : Int]]
    BY DEF Init, ManagerInit
  <2>7. disturbed \in BOOLEAN
    BY DEF Init, ManagerInit
  <2> QED
    BY <2>1, <2>2, <2>4, <2>5, <2>6, <2>7 DEF ManagerTypeOK
<1>2. WriterOwnsTally
  BY DEF Init, ManagerInit, WriterOwnsTally, NoOperation, NoThread, Loop, Cleaner
<1>3. CleanupAfterLoop
  BY DEF Init, ManagerInit, CleanupAfterLoop, NoOperation
<1> QED
  BY <1>1, <1>2, <1>3 DEF ManagerInv

(* The owners of managerLock are told apart.                               *)
LEMMA ThreadsDiffer ==
  ASSUME NEW c \in Clients, NEW d \in Clients
  PROVE  /\ Loop(c) # NoThread /\ Cleaner(c) # NoThread /\ Loop(c) # Cleaner(d)
         /\ c # d => Loop(c) # Loop(d) /\ Cleaner(c) # Cleaner(d)
         /\ Loop(c) \in Threads /\ Cleaner(c) \in Threads /\ Auth(c) \in Threads
         /\ NoThread \in Threads
  BY DEF NoThread, Loop, Cleaner, Auth, Threads

(* A step that touches neither the recorded votes nor the writer keeps the *)
(* invariant, if it ends no loop that is inside an operation and reopens   *)
(* none.                                                                   *)
LEMMA QuietManager ==
  ASSUME ManagerInv,
         votes' = votes, op' = op, cleanup' = cleanup,
         tally' \in [Ops -> [voters : Int, supporters : Int]],
         managerLock' \in [writer : Threads, upgradeable : Threads],
         managerLock'.writer = managerLock.writer,
         disturbed' \in BOOLEAN,
         \A c \in Clients : loop[c].pc = "closed" => loop'[c].pc = "closed",
         \A c \in Clients : op[c].pc # "idle" => loop'[c].pc = loop[c].pc
  PROVE  ManagerInv'
<1>1. ManagerTypeOK'
  BY DEF ManagerInv, ManagerTypeOK
<1>2. WriterOwnsTally'
  BY DEF ManagerInv, WriterOwnsTally
<1>3. CleanupAfterLoop'
  BY DEF ManagerInv, CleanupAfterLoop
<1> QED
  BY <1>1, <1>2, <1>3 DEF ManagerInv

(* What the quiet steps have in common.                                    *)
LEMMA UnchangedManager ==
  ASSUME ManagerInv, UNCHANGED managerVars,
         \A c \in Clients : loop[c].pc = "closed" => loop'[c].pc = "closed",
         \A c \in Clients : op[c].pc # "idle" => loop'[c].pc = loop[c].pc
  PROVE  ManagerInv'
  BY QuietManager DEF ManagerInv, ManagerTypeOK, managerVars

LEMMA NotedManager ==
  ASSUME ManagerInv, ManagerUnchangedButNote, loop' = loop
  PROVE  ManagerInv'
<1>1. disturbed' \in BOOLEAN
  BY DEF ManagerUnchangedButNote, NoteReseats
<1> QED
  BY <1>1, QuietManager DEF ManagerInv, ManagerTypeOK, ManagerUnchangedButNote

-----------------------------------------------------------------------------
(* HandleOperationReceived.                                                *)

(* The tally of an operation stays a pair of integers.                     *)
LEMMA TallyType ==
  ASSUME SessionTypeOK, ManagerTypeOK, NEW c \in Clients, NEW o \in Ops, NEW vote
  PROVE  /\ [tally EXCEPT ![o] = ApplyVoteTally(@, vote, mult[userOf[c]])]
               \in [Ops -> [voters : Int, supporters : Int]]
         /\ [tally EXCEPT ![o] = RemoveVoteTally(@, vote, mult[userOf[c]])]
               \in [Ops -> [voters : Int, supporters : Int]]
<1>1. mult[userOf[c]] \in Int
  BY DEF SessionTypeOK
<1>2. tally[o].voters \in Int /\ tally[o].supporters \in Int
  BY DEF ManagerTypeOK
<1>3. ApplyVoteTally(tally[o], vote, mult[userOf[c]]) \in [voters : Int, supporters : Int]
  BY <1>1, <1>2 DEF ApplyVoteTally
<1>4. RemoveVoteTally(tally[o], vote, mult[userOf[c]]) \in [voters : Int, supporters : Int]
  BY <1>1, <1>2 DEF ApplyVoteTally, RemoveVoteTally
<1> QED
  BY <1>3, <1>4 DEF ManagerTypeOK

(* The handler of an operation keeps the invariant: it enters the write    *)
(* lock before it touches a tally and leaves it with its last step.        *)
LEMMA OperationPreserves ==
  ASSUME SessionInv, ManagerInv, NEW c \in Clients,
         \/ \E o \in Ops, v \in Ballots : ReceiveOperation(c, o, v)
         \/ OperationStep(c)
  PROVE  ManagerInv'
<1> USE DEF ManagerInv
<1>0. SessionTypeOK
  BY DEF SessionInv
<1>1. ASSUME NEW o \in Ops, NEW v \in Ballots, ReceiveOperation(c, o, v) PROVE ManagerInv'
  <2>1. /\ op' = [op EXCEPT ![c] = [pc |-> "wait", type |-> o, vote |-> v]]
        /\ loop[c].pc = "serving" /\ op[c].pc = "idle"
        /\ UNCHANGED <<loop, votes, tally, managerLock, cleanup, disturbed>>
    BY <1>1 DEF ReceiveOperation, sessionVars
  <2>2. ManagerTypeOK'
    BY <2>1, ManagerAssumption DEF ManagerTypeOK
  <2>3. op'[c].pc = "wait" /\ \A d \in Clients : d # c => op'[d] = op[d]
    BY <2>1 DEF ManagerTypeOK
  <2>4. WriterOwnsTally'
    BY <2>1, <2>3 DEF WriterOwnsTally
  <2>5. CleanupAfterLoop'
    BY <2>1, <2>3 DEF CleanupAfterLoop
  <2> QED BY <2>2, <2>4, <2>5
<1>2. CASE EnterTally(c)
  <2>1. /\ op[c].pc = "wait"
        /\ managerLock.writer = NoThread /\ managerLock' = [managerLock EXCEPT !.writer = Loop(c)]
        /\ UNCHANGED <<loop, votes, tally, cleanup, disturbed>>
    BY <1>2 DEF EnterTally, EnterWrite, CanWrite, sessionVars
  <2>2. /\ op'[c].pc \in {"remove", "apply"} /\ \A d \in Clients : d # c => op'[d] = op[d]
        /\ op' \in [Clients -> [pc : {"idle", "wait", "remove", "apply"}, type : Ops, vote : VoteTypes]]
    <3>1. PICK p \in {"remove", "apply"} : op' = [op EXCEPT ![c].pc = p]
      BY <1>2 DEF EnterTally
    <3> QED BY <3>1 DEF ManagerTypeOK
  <2>3. /\ managerLock' \in [writer : Threads, upgradeable : Threads]
        /\ managerLock'.writer = Loop(c)
    BY <2>1, ThreadsDiffer DEF ManagerTypeOK
  <2>4. WriterOwnsTally'
    BY <2>1, <2>2, <2>3, ThreadsDiffer DEF WriterOwnsTally
  <2>5. CleanupAfterLoop'
    BY <2>1, <2>2 DEF CleanupAfterLoop
  <2> QED BY <2>1, <2>2, <2>3, <2>4, <2>5 DEF ManagerTypeOK
<1>3. CASE RemoveOldVote(c)
  <2>1. op[c].pc = "remove" /\ UNCHANGED <<loop, votes, managerLock, cleanup, disturbed>>
    BY <1>3 DEF RemoveOldVote, sessionVars
  <2>2. /\ op'[c].pc = "apply" /\ \A d \in Clients : d # c => op'[d] = op[d]
        /\ op' \in [Clients -> [pc : {"idle", "wait", "remove", "apply"}, type : Ops, vote : VoteTypes]]
    BY <1>3 DEF RemoveOldVote, ManagerTypeOK
  <2>3. tally' \in [Ops -> [voters : Int, supporters : Int]]
    <3>1. op[c].type \in Ops
      BY DEF ManagerTypeOK
    <3> QED BY <1>0, <1>3, <3>1, TallyType DEF RemoveOldVote
  <2>4. WriterOwnsTally'
    BY <2>1, <2>2 DEF WriterOwnsTally
  <2>5. CleanupAfterLoop'
    BY <2>1, <2>2 DEF CleanupAfterLoop
  <2> QED BY <2>1, <2>2, <2>3, <2>4, <2>5 DEF ManagerTypeOK
<1>4. CASE ApplyNewVote(c)
  <2>1. /\ op[c].pc = "apply" /\ managerLock.writer = Loop(c) /\ loop[c].pc = "serving"
        /\ managerLock' = [managerLock EXCEPT !.writer = NoThread]
        /\ UNCHANGED <<loop, cleanup, disturbed>>
    BY <1>4 DEF ApplyNewVote, ExitWrite, sessionVars, WriterOwnsTally, CleanupAfterLoop
  <2>2. /\ op'[c].pc = "idle" /\ \A d \in Clients : d # c => op'[d] = op[d]
        /\ op' \in [Clients -> [pc : {"idle", "wait", "remove", "apply"}, type : Ops, vote : VoteTypes]]
    BY <1>4, NoOperationType DEF ApplyNewVote, ManagerTypeOK
  <2>3. tally' \in [Ops -> [voters : Int, supporters : Int]]
    <3>1. op[c].type \in Ops
      BY DEF ManagerTypeOK
    <3> QED BY <1>0, <1>4, <3>1, TallyType DEF ApplyNewVote
  <2>4. /\ votes' \in [Clients -> [Ops -> VoteTypes \cup {NoVote}]]
        /\ \A d \in Clients : d # c => votes'[d] = votes[d]
    BY <1>4 DEF ApplyNewVote, ManagerTypeOK
  <2>5. /\ managerLock' \in [writer : Threads, upgradeable : Threads]
        /\ managerLock'.writer = NoThread
    BY <2>1, ThreadsDiffer DEF ManagerTypeOK
  <2>6. WriterOwnsTally'
    BY <2>1, <2>2, <2>5, ThreadsDiffer DEF WriterOwnsTally
  <2>7. CleanupAfterLoop'
    BY <2>1, <2>2, <2>4 DEF CleanupAfterLoop
  <2> QED BY <2>1, <2>2, <2>3, <2>4, <2>5, <2>6, <2>7 DEF ManagerTypeOK
<1> QED
  BY <1>1, <1>2, <1>3, <1>4 DEF OperationStep

-----------------------------------------------------------------------------
(* HandleClientDisconnected: the loop starts the cleanup thread as it      *)
(* ends, and the thread strips the votes under the write lock.             *)
LEMMA CleanupPreserves ==
  ASSUME SessionInv, ManagerInv, NEW c \in Clients, Closing(c) \/ CleanupStep(c)
  PROVE  ManagerInv'
<1> USE DEF ManagerInv
<1>0. SessionTypeOK
  BY DEF SessionInv
<1>1. CASE CloseLock(c) /\ UNCHANGED managerVars
  <2>1. /\ loop[c].pc = "close_wait" /\ loop'[c].pc = "closing"
        /\ \A d \in Clients : d # c => loop'[d] = loop[d]
    BY <1>0, <1>1 DEF CloseLock, SessionTypeOK
  <2> QED BY <1>1, <2>1, UnchangedManager DEF CleanupAfterLoop
<1>2. ASSUME CloseRemove(c), cleanup' = [cleanup EXCEPT ![c].pc = "wait"],
             UNCHANGED <<votes, tally, managerLock, op, disturbed>>
      PROVE  ManagerInv'
  <2>1. /\ loop[c].pc = "closing" /\ loop'[c].pc = "closed"
        /\ \A d \in Clients : d # c => loop'[d] = loop[d]
    BY <1>0, <1>2 DEF CloseRemove, SessionTypeOK
  <2>2. cleanup[c].pc = "none" /\ op[c].pc = "idle"
    BY <2>1 DEF CleanupAfterLoop, ManagerTypeOK
  <2>3. /\ cleanup'[c].pc = "wait" /\ \A d \in Clients : d # c => cleanup'[d] = cleanup[d]
        /\ cleanup' \in [Clients -> [pc : {"none", "wait", "strip", "done"},
                                     map : [Ops -> VoteTypes \cup {NoVote}]]]
    BY <1>2 DEF ManagerTypeOK
  <2>4. WriterOwnsTally'
    BY <1>2, <2>2, <2>3 DEF WriterOwnsTally
  <2>5. CleanupAfterLoop'
    BY <1>2, <2>1, <2>2, <2>3 DEF CleanupAfterLoop
  <2> QED BY <1>2, <2>3, <2>4, <2>5 DEF ManagerTypeOK
<1>3. CASE TakeVotes(c)
  <2>1. /\ cleanup[c].pc = "wait"
        /\ managerLock.writer = NoThread /\ managerLock' = [managerLock EXCEPT !.writer = Cleaner(c)]
        /\ UNCHANGED <<loop, tally, op, disturbed>>
    BY <1>3 DEF TakeVotes, EnterWrite, CanWrite, sessionVars
  <2>2. /\ cleanup'[c].pc = "strip" /\ \A d \in Clients : d # c => cleanup'[d] = cleanup[d]
        /\ cleanup' \in [Clients -> [pc : {"none", "wait", "strip", "done"},
                                     map : [Ops -> VoteTypes \cup {NoVote}]]]
    BY <1>3 DEF TakeVotes, ManagerTypeOK
  <2>3. /\ votes'[c] = NoVotes /\ \A d \in Clients : d # c => votes'[d] = votes[d]
        /\ votes' \in [Clients -> [Ops -> VoteTypes \cup {NoVote}]]
    BY <1>3 DEF TakeVotes, ManagerTypeOK, NoVotes
  <2>4. /\ managerLock' \in [writer : Threads, upgradeable : Threads]
        /\ managerLock'.writer = Cleaner(c)
    BY <2>1, ThreadsDiffer DEF ManagerTypeOK
  <2>5. WriterOwnsTally'
    BY <2>1, <2>2, <2>4, ThreadsDiffer DEF WriterOwnsTally
  <2>6. CleanupAfterLoop'
    BY <2>1, <2>2, <2>3 DEF CleanupAfterLoop
  <2> QED BY <2>1, <2>2, <2>3, <2>4, <2>5, <2>6 DEF ManagerTypeOK
<1>4. ASSUME NEW o \in Ops, StripVote(c, o) PROVE ManagerInv'
  <2>1. cleanup[c].pc = "strip" /\ UNCHANGED <<loop, votes, managerLock, op, disturbed>>
    BY <1>4 DEF StripVote, sessionVars
  <2>2. /\ \A d \in Clients : cleanup'[d].pc = cleanup[d].pc
        /\ cleanup' \in [Clients -> [pc : {"none", "wait", "strip", "done"},
                                     map : [Ops -> VoteTypes \cup {NoVote}]]]
    BY <1>4 DEF StripVote, ManagerTypeOK
  <2>3. tally' \in [Ops -> [voters : Int, supporters : Int]]
    BY <1>0, <1>4, TallyType DEF StripVote
  <2>4. WriterOwnsTally'
    BY <2>1, <2>2 DEF WriterOwnsTally
  <2>5. CleanupAfterLoop'
    BY <2>1, <2>2 DEF CleanupAfterLoop
  <2> QED BY <2>1, <2>2, <2>3, <2>4, <2>5 DEF ManagerTypeOK
<1>5. CASE EndCleanup(c)
  <2>1. /\ cleanup[c].pc = "strip" /\ managerLock.writer = Cleaner(c)
        /\ managerLock' = [managerLock EXCEPT !.writer = NoThread]
        /\ UNCHANGED <<loop, votes, tally, op, disturbed>>
    BY <1>5 DEF EndCleanup, ExitWrite, sessionVars, WriterOwnsTally
  <2>2. /\ cleanup'[c].pc = "done" /\ \A d \in Clients : d # c => cleanup'[d] = cleanup[d]
        /\ cleanup' \in [Clients -> [pc : {"none", "wait", "strip", "done"},
                                     map : [Ops -> VoteTypes \cup {NoVote}]]]
    BY <1>5 DEF EndCleanup, ManagerTypeOK
  <2>3. /\ managerLock' \in [writer : Threads, upgradeable : Threads]
        /\ managerLock'.writer = NoThread
    BY <2>1, ThreadsDiffer DEF ManagerTypeOK
  <2>4. WriterOwnsTally'
    BY <2>1, <2>2, <2>3, ThreadsDiffer DEF WriterOwnsTally
  <2>5. CleanupAfterLoop'
    BY <2>1, <2>2 DEF CleanupAfterLoop
  <2> QED BY <2>1, <2>2, <2>3, <2>4, <2>5 DEF ManagerTypeOK
<1> QED
  BY <1>1, <1>2, <1>3, <1>4, <1>5 DEF Closing, CleanupStep
-----------------------------------------------------------------------------
(* Connecting, logging in and starting a console command leave the manager *)
(* alone, and a loop does not end inside an operation (LoopFree).          *)
LEMMA RequestPreserves ==
  ASSUME SessionInv, ManagerInv,
         \/ \E c \in Clients : ClientConnects(c) \/ ClientCloses(c)
         \/ \E c \in Clients, u \in Users : ClientLogsIn(c, u)
         \/ OperatorRequest
  PROVE  ManagerInv'
<1> USE DEF SessionInv, SessionTypeOK
<1>1. ASSUME NEW c \in Clients, ClientConnects(c) PROVE ManagerInv'
  <2>1. /\ loop[c].pc = "offline" /\ loop'[c].pc = "serving"
        /\ \A d \in Clients : d # c => loop'[d] = loop[d]
    BY <1>1 DEF ClientConnects, Connect
  <2>2. op[c].pc = "idle"
    BY <2>1 DEF ManagerInv, CleanupAfterLoop
  <2> QED BY <1>1, <2>1, <2>2, UnchangedManager DEF ClientConnects
<1>2. ASSUME NEW c \in Clients, ClientCloses(c) PROVE ManagerInv'
  <2>1. /\ loop[c].pc = "serving" /\ op[c].pc = "idle"
        /\ \A d \in Clients : d # c => loop'[d] = loop[d]
    BY <1>2 DEF ClientCloses, CloseRead, LoopFree
  <2> QED BY <1>2, <2>1, UnchangedManager DEF ClientCloses
<1>3. ASSUME NEW c \in Clients, NEW u \in Users, ClientLogsIn(c, u) PROVE ManagerInv'
  BY <1>3, UnchangedManager DEF ClientLogsIn, Authenticate
<1>4. CASE OperatorRequest
  <2>1. loop' = loop /\ UNCHANGED managerVars
    BY <1>4 DEF OperatorRequest, SetMultiplier, Unauthorize, DeleteUser
  <2> QED BY <2>1, UnchangedManager
<1> QED
  BY <1>1, <1>2, <1>3, <1>4

(* The listeners that hold the upgradeable lock only.                      *)
LEMMA UpgradeableManager ==
  ASSUME ManagerInv, NEW t \in Threads, managerLock' = [managerLock EXCEPT !.upgradeable = t],
         loop' = loop, UNCHANGED <<votes, tally, op, cleanup, disturbed>>
  PROVE  ManagerInv'
<1>1. /\ managerLock' \in [writer : Threads, upgradeable : Threads]
      /\ managerLock'.writer = managerLock.writer
  BY DEF ManagerInv, ManagerTypeOK
<1> QED
  BY <1>1, QuietManager DEF ManagerInv, ManagerTypeOK

(* The login handler with the OnClientUserChange listener.                 *)
LEMMA LoginPreserves ==
  ASSUME SessionInv, ManagerInv, NEW c \in Clients, LoginStep(c)
  PROVE  ManagerInv'
<1>1. CASE AddLock(c) /\ UNCHANGED managerVars
  BY <1>1, UnchangedManager DEF AddLock
<1>2. CASE AddCheck(c) /\ UNCHANGED managerVars
  BY <1>2, UnchangedManager DEF AddCheck
<1>3. CASE AddSet(c) /\ ManagerUnchangedButNote
  BY <1>3, NotedManager DEF AddSet
<1>6. CASE AddRemove(c) /\ UNCHANGED managerVars
  BY <1>6, UnchangedManager DEF AddRemove
<1>4. CASE UserChangeEnter(c)
  BY <1>4, UpgradeableManager, ThreadsDiffer DEF UserChangeEnter, sessionVars
<1>5. CASE UserChangeRun(c)
  BY <1>5, UpgradeableManager, ThreadsDiffer DEF UserChangeRun, AuthEvent
<1> QED
  BY <1>1, <1>2, <1>3, <1>4, <1>5, <1>6 DEF LoginStep

(* HandleUserVoteMultiplierChange: the number of votes it reweighs is a    *)
(* number, because the clients are finitely many.                          *)
LEMMA MultiplierPreserves ==
  ASSUME SessionInv, ManagerInv, MultiplierStep
  PROVE  ManagerInv'
<1> USE DEF SessionInv, SessionTypeOK
<1>1. CASE SetSnapshot /\ disturbed' = (disturbed \/ Missed # {})
           /\ UNCHANGED <<votes, tally, managerLock, op, cleanup>>
  <2>1. disturbed' \in BOOLEAN /\ loop' = loop
    BY <1>1 DEF SetSnapshot
  <2> QED BY <1>1, <2>1, QuietManager DEF ManagerInv, ManagerTypeOK
<1>2. CASE ApplyMultiplierChange
  <2>1. mult[operator.user] - operator.orig \in Int
    OBVIOUS
  <2>2. \A kinds : \A o \in Ops : Voting(operator.todo, o, kinds) \in Nat
    <3>1. SUFFICES ASSUME NEW kinds, NEW o \in Ops PROVE Voting(operator.todo, o, kinds) \in Nat
      OBVIOUS
    <3>2. {c \in operator.todo : votes[c][o] \in kinds} \subseteq Clients
      OBVIOUS
    <3> QED BY <3>2, SessionsAssumption, FS_Subset, FS_CardinalityType DEF Voting
  <2>3. \A o \in Ops : tally[o].voters \in Int /\ tally[o].supporters \in Int
    BY DEF ManagerInv, ManagerTypeOK
  <2>4. tally' \in [Ops -> [voters : Int, supporters : Int]]
    <3> DEFINE delta == mult[operator.user] - operator.orig
               n(o, kinds) == Voting(operator.todo, o, kinds)
    <3>1. \A o \in Ops : /\ tally[o].voters + delta * n(o, {"Support", "Against"}) \in Int
                         /\ tally[o].supporters + delta * n(o, {"Support"}) \in Int
      <4>1. delta \in Int
        BY <2>1
      <4>2. \A o \in Ops : n(o, {"Support", "Against"}) \in Nat /\ n(o, {"Support"}) \in Nat
        BY <2>2
      <4> HIDE DEF delta, n
      <4> QED BY <2>3, <4>1, <4>2
    <3>2. tally' = [o \in Ops |-> [voters |-> tally[o].voters + delta * n(o, {"Support", "Against"}),
                                  supporters |-> tally[o].supporters + delta * n(o, {"Support"})]]
      BY <1>2 DEF ApplyMultiplierChange
    <3> HIDE DEF delta, n
    <3> QED BY <3>1, <3>2
  <2>5. loop' = loop /\ UNCHANGED <<votes, managerLock, op, cleanup, disturbed>>
    BY <1>2 DEF ApplyMultiplierChange, SetReturns
  <2> QED BY <2>4, <2>5, QuietManager DEF ManagerInv, ManagerTypeOK
<1> QED
  BY <1>1, <1>2 DEF MultiplierStep

(* Unauthorize with its listener.                                          *)
LEMMA UnauthorizePreserves ==
  ASSUME SessionInv, ManagerInv, UnauthorizeManagerStep
  PROVE  ManagerInv'
<1>1. ASSUME NEW c \in Clients, UnauthorizeMove(c), ManagerUnchangedButNote PROVE ManagerInv'
  BY <1>1, NotedManager DEF UnauthorizeMove
<1>4. ASSUME NEW c \in Clients, UnauthorizeRemove(c), UNCHANGED managerVars PROVE ManagerInv'
  BY <1>4, UnchangedManager DEF UnauthorizeRemove
<1>2. ASSUME NEW throws \in BOOLEAN, UnauthorizeEvent(throws), UNCHANGED managerVars PROVE ManagerInv'
  BY <1>2, UnchangedManager DEF UnauthorizeEvent
<1>3. CASE UnauthorizeEnd /\ UNCHANGED managerVars
  BY <1>3, UnchangedManager DEF UnauthorizeEnd
<1> QED
  BY <1>1, <1>2, <1>3, <1>4 DEF UnauthorizeManagerStep

(* Deleting a user with its listeners: the upgradeable lock that stays     *)
(* behind is not the write lock.                                           *)
LEMMA DeletionPreserves ==
  ASSUME SessionInv, ManagerInv, NEW u \in Users, DeletionManagerStep(u)
  PROVE  ManagerInv'
<1>1. ASSUME NEW c \in Clients, DeleteYield(u, c) \/ DeleteRemove(u, c) \/ AgainYield(u, c),
             UNCHANGED managerVars
      PROVE  ManagerInv'
  BY <1>1, UnchangedManager DEF DeleteYield, DeleteRemove, AgainYield
<1>2. ASSUME NEW c \in Clients, DeleteMove(u, c), ManagerUnchangedButNote PROVE ManagerInv'
  BY <1>2, NotedManager DEF DeleteMove
<1>3. CASE DeleteEnumerated(u) /\ UNCHANGED managerVars
  BY <1>3, UnchangedManager DEF DeleteEnumerated
<1>4. CASE LeakUpgradeable(u)
  <2>1. Deleter(u) \in Threads
    BY DEF Deleter, Threads
  <2> QED BY <1>4, <2>1, UpgradeableManager DEF LeakUpgradeable, DeleteEvent
<1>5. CASE DeleteEvent(u, TRUE) /\ UNCHANGED managerVars
  BY <1>5, UnchangedManager DEF DeleteEvent
<1>6. ASSUME NEW c \in Clients, DeleteAgain(u, c, TRUE), ManagerUnchangedButNote PROVE ManagerInv'
  BY <1>6, NotedManager DEF DeleteAgain
<1>7. CASE DeleteEnd(u) /\ UNCHANGED managerVars
  BY <1>7, UnchangedManager DEF DeleteEnd
<1> QED
  BY <1>1, <1>2, <1>3, <1>4, <1>5, <1>6, <1>7 DEF DeletionManagerStep

-----------------------------------------------------------------------------
(* Every step keeps the invariant of VotingManager.                        *)
LEMMA NextManagerInv == SessionInv /\ ManagerInv /\ [Next]_vars => ManagerInv'
<1> SUFFICES ASSUME SessionInv, ManagerInv, [Next]_vars PROVE ManagerInv'
  OBVIOUS
<1>1. CASE UNCHANGED vars
  <2>1. UNCHANGED managerVars /\ loop' = loop
    BY <1>1 DEF vars, managerVars
  <2> QED BY <2>1, UnchangedManager
<1>2. CASE Next
  <2>1. CASE ClientRequest
    BY <2>1, RequestPreserves, OperationPreserves DEF ClientRequest
  <2>2. ASSUME NEW c \in Clients, ConnectionStep(c) PROVE ManagerInv'
    BY <2>2, OperationPreserves, CleanupPreserves DEF ConnectionStep
  <2> QED
    BY <1>2, <2>1, <2>2, RequestPreserves, LoginPreserves, MultiplierPreserves,
       UnauthorizePreserves, DeletionPreserves
    DEF Next
<1> QED
  BY <1>1, <1>2

(* Both invariants hold in every reachable state of the server.            *)
THEOREM ManagerInvariance == Spec => [](SessionInv /\ ManagerInv)
<1>1. Init => SessionInv /\ ManagerInv
  BY InitSessionInv, InitManagerInv DEF Init
<1>2. SessionInv /\ ManagerInv /\ [Next]_vars => (SessionInv /\ ManagerInv)'
  BY SessionStep, NextSessionInv, NextManagerInv
<1> QED
  BY <1>1, <1>2, PTL DEF Spec

(* The variables of the server keep their types.                           *)
THEOREM ServerTypeCorrect == Spec => []TypeOK
<1>1. SessionInv /\ ManagerInv => TypeOK
  BY DEF SessionInv, ManagerInv, TypeOK
<1> QED BY <1>1, ManagerInvariance, PTL

(* However many voters, cleanups, logins and console commands interleave,  *)
(* whoever is about to change a tally owns the write lock of managerLock,  *)
(* and nobody keeps the write lock beyond its handler.                     *)
THEOREM TallyHasOneWriter == Spec => []WriterOwnsTally
<1>1. ManagerInv => WriterOwnsTally
  BY DEF ManagerInv
<1> QED BY <1>1, ManagerInvariance, PTL

(* When the cleanup thread of a connection is through, no vote of it is on *)
(* record and none can come any more (HandleClientDisconnected).           *)
THEOREM VotesGoWithTheClient == Spec => []GoneClientHasNoVotes
<1>1. ManagerInv => GoneClientHasNoVotes
  BY DEF ManagerInv, ManagerTypeOK, CleanupAfterLoop, GoneClientHasNoVotes
<1> QED BY <1>1, ManagerInvariance, PTL

-----------------------------------------------------------------------------
(* What the tallies should be, as a function of the ballots and of the     *)
(* weights of the clients.                                                 *)

(* The sum is the one SumTheorems is about.                                *)
LEMMA WeighedIsSum ==
  ASSUME NEW b, NEW w, NEW o, NEW kinds
  PROVE  Weighed(b, w, o, kinds) =
           SumFunctionOnSet([c \in Clients |-> IF b[c][o] \in kinds THEN w[c] ELSE 0], Clients)
  BY DEF Weighed, SumFunction

(* A weighed sum of integer weights is an integer.                         *)
LEMMA WeighedType ==
  ASSUME NEW b, NEW w \in [Clients -> Int], NEW o, NEW kinds
  PROVE  Weighed(b, w, o, kinds) \in Int
<1> DEFINE f == [c \in Clients |-> IF b[c][o] \in kinds THEN w[c] ELSE 0]
<1>1. \A c \in Clients : f[c] \in Int
  OBVIOUS
<1>2. Weighed(b, w, o, kinds) = SumFunctionOnSet(f, Clients)
  BY WeighedIsSum
<1> HIDE DEF f
<1> QED
  BY <1>1, <1>2, SumType, SessionsAssumption

(* The sum depends on the weights of those who voted only.                 *)
LEMMA WeighedSame ==
  ASSUME NEW b, NEW b2, NEW w, NEW w2, NEW o, NEW kinds, NoVote \notin kinds,
         \A c \in Clients : b2[c][o] = b[c][o] /\ (b[c][o] # NoVote => w2[c] = w[c])
  PROVE  Weighed(b2, w2, o, kinds) = Weighed(b, w, o, kinds)
<1> DEFINE f == [c \in Clients |-> IF b[c][o] \in kinds THEN w[c] ELSE 0]
           g == [c \in Clients |-> IF b2[c][o] \in kinds THEN w2[c] ELSE 0]
<1>1. \A c \in Clients : f[c] = g[c]
  OBVIOUS
<1>2. Weighed(b, w, o, kinds) = SumFunctionOnSet(f, Clients)
  BY WeighedIsSum
<1>3. Weighed(b2, w2, o, kinds) = SumFunctionOnSet(g, Clients)
  BY WeighedIsSum
<1> HIDE DEF f, g
<1> QED
  BY <1>1, <1>2, <1>3, SumSame, SessionsAssumption

(* One ballot that is put in, changed or taken out adds its weight and     *)
(* takes the weight of the one it replaces.                                *)
LEMMA WeighedPut ==
  ASSUME NEW b, NEW b2, NEW w \in [Clients -> Int], NEW o, NEW kinds, NEW c \in Clients,
         \A d \in Clients : d # c => b2[d][o] = b[d][o]
  PROVE  Weighed(b2, w, o, kinds) =
           Weighed(b, w, o, kinds) + ((IF b2[c][o] \in kinds THEN w[c] ELSE 0)
                                       - (IF b[c][o] \in kinds THEN w[c] ELSE 0))
<1> DEFINE f == [d \in Clients |-> IF b[d][o] \in kinds THEN w[d] ELSE 0]
           g == [d \in Clients |-> IF b2[d][o] \in kinds THEN w[d] ELSE 0]
<1>1. /\ \A d \in Clients : f[d] \in Int /\ g[d] \in Int
      /\ \A d \in Clients \ {c} : g[d] = f[d]
  OBVIOUS
<1>2. Weighed(b, w, o, kinds) = SumFunctionOnSet(f, Clients)
  BY WeighedIsSum
<1>3. Weighed(b2, w, o, kinds) = SumFunctionOnSet(g, Clients)
  BY WeighedIsSum
<1>4. SumFunctionOnSet(g, Clients) = SumFunctionOnSet(f, Clients) + (g[c] - f[c])
  <2> HIDE DEF f, g
  <2> QED BY <1>1, SumChangeOne, SessionsAssumption
<1> QED
  BY <1>2, <1>3, <1>4

(* Where the weight of some voters changes by d, each of their votes       *)
(* counts d more.                                                          *)
LEMMA WeighedShift ==
  ASSUME NEW b, NEW w \in [Clients -> Int], NEW w2, NEW o, NEW kinds, NEW d \in Int,
         NEW U \in SUBSET Clients,
         \A c \in U : b[c][o] \in kinds /\ w2[c] = w[c] + d,
         \A c \in Clients \ U : b[c][o] \in kinds => w2[c] = w[c]
  PROVE  Weighed(b, w2, o, kinds) = Weighed(b, w, o, kinds) + d * Cardinality(U)
<1> DEFINE f == [c \in Clients |-> IF b[c][o] \in kinds THEN w[c] ELSE 0]
           g == [c \in Clients |-> IF b[c][o] \in kinds THEN w2[c] ELSE 0]
<1>1. /\ \A c \in Clients : f[c] \in Int
      /\ \A c \in Clients : g[c] = f[c] + (IF c \in U THEN d ELSE 0)
  OBVIOUS
<1>2. Weighed(b, w, o, kinds) = SumFunctionOnSet(f, Clients)
  BY WeighedIsSum
<1>3. Weighed(b, w2, o, kinds) = SumFunctionOnSet(g, Clients)
  BY WeighedIsSum
<1>4. SumFunctionOnSet(g, Clients) = SumFunctionOnSet(f, Clients) + d * Cardinality(U)
  <2> HIDE DEF f, g
  <2> QED BY <1>1, SumShift, SessionsAssumption
<1> QED
  BY <1>2, <1>3, <1>4

(* Without ballots every tally is zero.                                    *)
LEMMA WeighedNone ==
  ASSUME NEW b, NEW w, NEW o, NEW kinds, \A c \in Clients : b[c][o] \notin kinds
  PROVE  Weighed(b, w, o, kinds) = 0
<1> DEFINE f == [c \in Clients |-> IF b[c][o] \in kinds THEN w[c] ELSE 0]
<1>1. \A c \in Clients : f[c] = 0
  OBVIOUS
<1>2. Weighed(b, w, o, kinds) = SumFunctionOnSet(f, Clients)
  BY WeighedIsSum
<1> HIDE DEF f
<1> QED
  BY <1>1, <1>2, SumZero, SessionsAssumption

(* The tallies of the same ballots and weights are the same.               *)
LEMMA TalliedSame ==
  ASSUME NEW b, NEW b2, NEW w, NEW w2,
         \A c \in Clients, o \in Ops : b2[c][o] = b[c][o] /\ (b[c][o] # NoVote => w2[c] = w[c])
  PROVE  Tallied(b2, w2) = Tallied(b, w)
<1>1. ASSUME NEW o \in Ops, NEW kinds \in {{"Support", "Against"}, {"Support"}}
      PROVE  Weighed(b2, w2, o, kinds) = Weighed(b, w, o, kinds)
  <2>1. NoVote \notin kinds
    BY DEF NoVote
  <2> QED BY <2>1, WeighedSame
<1> QED
  BY <1>1 DEF Tallied

(* A ballot that is put in or taken out changes one tally, by the weight   *)
(* of its client.                                                          *)
LEMMA TalliedAdd ==
  ASSUME NEW b, NEW b2, NEW w \in [Clients -> Int], NEW c \in Clients, NEW o \in Ops,
         \A d \in Clients, q \in Ops : d # c \/ q # o => b2[d][q] = b[d][q],
         b[c][o] = NoVote
  PROVE  Tallied(b2, w) = [Tallied(b, w) EXCEPT ![o] = ApplyVoteTally(@, b2[c][o], w[c])]
<1>1. ASSUME NEW q \in Ops, q # o, NEW kinds PROVE Weighed(b2, w, q, kinds) = Weighed(b, w, q, kinds)
  <2>1. \A d \in Clients : b2[d][q] = b[d][q]
    BY <1>1
  <2> HIDE DEF NoVote
  <2>2. Weighed(b2, w, q, kinds) = Weighed(b, w, q, kinds) +
           ((IF b2[c][q] \in kinds THEN w[c] ELSE 0) - (IF b[c][q] \in kinds THEN w[c] ELSE 0))
    BY <2>1, WeighedPut
  <2>3. Weighed(b, w, q, kinds) \in Int /\ w[c] \in Int
    BY WeighedType
  <2> QED BY <2>1, <2>2, <2>3
<1>2. ASSUME NEW kinds, NoVote \notin kinds
      PROVE  Weighed(b2, w, o, kinds) =
               Weighed(b, w, o, kinds) + (IF b2[c][o] \in kinds THEN w[c] ELSE 0)
  <2>1. Weighed(b2, w, o, kinds) = Weighed(b, w, o, kinds) +
           ((IF b2[c][o] \in kinds THEN w[c] ELSE 0) - (IF b[c][o] \in kinds THEN w[c] ELSE 0))
    BY WeighedPut
  <2>2. Weighed(b, w, o, kinds) \in Int /\ w[c] \in Int
    BY WeighedType
  <2> QED BY <1>2, <2>1, <2>2
<1>3. NoVote \notin {"Support", "Against"} /\ NoVote \notin {"Support"}
  BY DEF NoVote
<1> DEFINE X == {"Support", "Against"}
           Y == {"Support"}
<1>4. \A q \in Ops : q # o => Tallied(b2, w)[q] = Tallied(b, w)[q]
  BY <1>1 DEF Tallied
<1>5. Tallied(b2, w)[o] = ApplyVoteTally(Tallied(b, w)[o], b2[c][o], w[c])
  <2>1. Weighed(b2, w, o, X) = Weighed(b, w, o, X) + (IF b2[c][o] \in X THEN w[c] ELSE 0)
    BY <1>2, <1>3
  <2>2. Weighed(b2, w, o, Y) = Weighed(b, w, o, Y) + (IF b2[c][o] = "Support" THEN w[c] ELSE 0)
    BY <1>2, <1>3
  <2> QED BY <2>1, <2>2 DEF Tallied, ApplyVoteTally
<1> QED
  BY <1>4, <1>5 DEF Tallied

LEMMA TalliedRemove ==
  ASSUME NEW b, NEW b2, NEW w \in [Clients -> Int], NEW c \in Clients, NEW o \in Ops,
         \A d \in Clients, q \in Ops : d # c \/ q # o => b2[d][q] = b[d][q],
         b2[c][o] = NoVote
  PROVE  Tallied(b2, w) = [Tallied(b, w) EXCEPT ![o] = RemoveVoteTally(@, b[c][o], w[c])]
<1>1. Tallied(b, w) = [Tallied(b2, w) EXCEPT ![o] = ApplyVoteTally(@, b[c][o], w[c])]
  BY TalliedAdd
<1>2. \A q \in Ops : /\ Tallied(b, w)[q] \in [voters : Int, supporters : Int]
                     /\ Tallied(b2, w)[q] \in [voters : Int, supporters : Int]
  BY WeighedType DEF Tallied
<1>3. \A q \in Ops : q # o => Tallied(b2, w)[q] = Tallied(b, w)[q]
  BY <1>1 DEF Tallied
<1>4. Tallied(b, w)[o] = ApplyVoteTally(Tallied(b2, w)[o], b[c][o], w[c])
  BY <1>1 DEF Tallied
<1>5. Tallied(b2, w)[o] = RemoveVoteTally(Tallied(b, w)[o], b[c][o], w[c])
  <2> DEFINE t == Tallied(b, w)[o]
             t2 == Tallied(b2, w)[o]
  <2>1. /\ t2 \in [voters : Int, supporters : Int]
        /\ t = ApplyVoteTally(t2, b[c][o], w[c])
        /\ w[c] \in Int
    BY <1>2, <1>4
  <2> HIDE DEF t, t2
  <2>2. t2 = RemoveVoteTally(t, b[c][o], w[c])
    BY <2>1 DEF RemoveVoteTally, ApplyVoteTally
  <2> QED BY <2>2 DEF t, t2
<1> QED
  BY <1>3, <1>5 DEF Tallied

-----------------------------------------------------------------------------
(* The ballots that are counted.                                           *)

\* One ballot of client c goes in or comes out, with the weight read by its
\* handler.
BallotMoved(c) ==
  \E o \in Ops, v \in VoteTypes \cup {NoVote} :
    /\ CountedBallots' = [CountedBallots EXCEPT ![c][o] = v]
    /\ \/ /\ CountedBallots[c][o] = NoVote
          /\ tally' = [tally EXCEPT ![o] = ApplyVoteTally(@, v, mult[userOf[c]])]
       \/ /\ v = NoVote
          /\ tally' = [tally EXCEPT ![o] =
                         RemoveVoteTally(@, CountedBallots[c][o], mult[userOf[c]])]

BallotsKept == CountedBallots' = CountedBallots /\ tally' = tally

(* What is counted of one client.                                          *)
LEMMA CountedValue ==
  ASSUME NEW c \in Clients, NEW o \in Ops
  PROVE  /\ CountedBallots[c][o] =
              IF op[c].pc = "apply" /\ op[c].type = o THEN NoVote
              ELSE IF cleanup[c].pc = "strip" THEN cleanup[c].map[o] ELSE votes[c][o]
         /\ CountedBallots'[c][o] =
              IF op'[c].pc = "apply" /\ op'[c].type = o THEN NoVote
              ELSE IF cleanup'[c].pc = "strip" THEN cleanup'[c].map[o] ELSE votes'[c][o]
  BY DEF CountedBallots

(* The counted ballots are functions, and equal when they agree.           *)
LEMMA CountedEqual ==
  /\ (\A d \in Clients, q \in Ops : CountedBallots'[d][q] = CountedBallots[d][q])
       => CountedBallots' = CountedBallots
  /\ \A v : \A c \in Clients, o \in Ops :
       (\A d \in Clients, q \in Ops :
          CountedBallots'[d][q] = IF d = c /\ q = o THEN v ELSE CountedBallots[d][q])
       => CountedBallots' = [CountedBallots EXCEPT ![c][o] = v]
<1>1. /\ CountedBallots = [c \in Clients |-> [o \in Ops |-> CountedBallots[c][o]]]
      /\ CountedBallots' = [c \in Clients |-> [o \in Ops |-> CountedBallots'[c][o]]]
  BY DEF CountedBallots
<1> HIDE DEF CountedBallots
<1> QED BY <1>1

(* A step that leaves the votes, the operations and the cleanups alone.    *)
LEMMA CountedQuiet == ASSUME UNCHANGED <<votes, op, cleanup>> PROVE CountedBallots' = CountedBallots
  BY DEF CountedBallots

(* HandleOperationReceived takes the old ballot out and puts the new one   *)
(* in; between the two the client has none.                                *)
LEMMA OperationMovesBallot ==
  ASSUME SessionInv, ManagerInv, NEW c \in Clients,
         \/ \E o \in Ops, v \in Ballots : ReceiveOperation(c, o, v)
         \/ OperationStep(c)
  PROVE  BallotsKept \/ (BallotMoved(c) /\ ~InfoWritten(userOf[c]))
<1> USE DEF ManagerInv
<1>0. /\ op[c].type \in Ops /\ op[c].vote \in VoteTypes
      /\ op \in [Clients -> [pc : {"idle", "wait", "remove", "apply"}, type : Ops, vote : VoteTypes]]
      /\ votes \in [Clients -> [Ops -> VoteTypes \cup {NoVote}]]
  BY DEF ManagerTypeOK
<1>1. op[c].pc # "idle" => cleanup[c].pc # "strip"
  BY DEF CleanupAfterLoop
<1>2. ASSUME NEW o \in Ops, NEW v \in Ballots, ReceiveOperation(c, o, v) PROVE BallotsKept
  <2>1. /\ op[c].pc = "idle" /\ op'[c].pc = "wait" /\ \A d \in Clients : d # c => op'[d] = op[d]
        /\ UNCHANGED <<votes, tally, cleanup>>
    BY <1>0, <1>2 DEF ReceiveOperation
  <2>2. \A d \in Clients, q \in Ops : CountedBallots'[d][q] = CountedBallots[d][q]
    BY <2>1, CountedValue
  <2> QED BY <2>1, <2>2, CountedEqual DEF BallotsKept
<1>3. CASE EnterTally(c)
  <2>1. /\ op[c].pc = "wait" /\ \A d \in Clients : d # c => op'[d] = op[d]
        /\ op'[c].type = op[c].type
        /\ op'[c].pc = "apply" => votes[c][op[c].type] = NoVote
        /\ UNCHANGED <<votes, tally, cleanup>>
    BY <1>0, <1>3 DEF EnterTally
  <2>2. \A d \in Clients, q \in Ops : CountedBallots'[d][q] = CountedBallots[d][q]
    BY <1>1, <2>1, CountedValue
  <2> QED BY <2>1, <2>2, CountedEqual DEF BallotsKept
<1>4. CASE RemoveOldVote(c)
  <2> DEFINE o == op[c].type
  <2>1. /\ op[c].pc = "remove" /\ op'[c].pc = "apply" /\ \A d \in Clients : d # c => op'[d] = op[d]
        /\ op'[c].type = op[c].type
        /\ UNCHANGED <<votes, cleanup>>
    BY <1>0, <1>4 DEF RemoveOldVote
  <2>2. tally' = [tally EXCEPT ![o] = RemoveVoteTally(@, votes[c][o], mult[userOf[c]])]
    BY <1>4 DEF RemoveOldVote
  <2>3. \A d \in Clients, q \in Ops :
          CountedBallots'[d][q] = IF d = c /\ q = o THEN NoVote ELSE CountedBallots[d][q]
    BY <1>0, <1>1, <2>1, CountedValue
  <2>4. CountedBallots[c][o] = votes[c][o]
    BY <1>0, <1>1, <2>1, CountedValue
  <2>5. o \in Ops /\ ~InfoWritten(userOf[c])
    BY <1>0, <1>4 DEF RemoveOldVote, CanReadMultiplier
  <2> HIDE DEF o
  <2>6. CountedBallots' = [CountedBallots EXCEPT ![c][o] = NoVote]
    BY <2>3, <2>5, CountedEqual
  <2> QED BY <2>2, <2>4, <2>5, <2>6 DEF BallotMoved
<1>5. CASE ApplyNewVote(c)
  <2> DEFINE o == op[c].type
             v == op[c].vote
  <2>1. /\ op[c].pc = "apply" /\ op'[c].pc = "idle" /\ \A d \in Clients : d # c => op'[d] = op[d]
        /\ UNCHANGED cleanup
    BY <1>0, <1>5, NoOperationType DEF ApplyNewVote
  <2>2. tally' = [tally EXCEPT ![o] = ApplyVoteTally(@, v, mult[userOf[c]])]
    BY <1>5 DEF ApplyNewVote
  <2>3. \A d \in Clients, q \in Ops : votes'[d][q] = IF d = c /\ q = o THEN v ELSE votes[d][q]
    BY <1>0, <1>5 DEF ApplyNewVote
  <2>4. \A d \in Clients, q \in Ops :
          CountedBallots'[d][q] = IF d = c /\ q = o THEN v ELSE CountedBallots[d][q]
    BY <1>0, <1>1, <2>1, <2>3, CountedValue
  <2>5. CountedBallots[c][o] = NoVote
    BY <1>0, <1>1, <2>1, CountedValue
  <2>6. o \in Ops /\ v \in VoteTypes /\ ~InfoWritten(userOf[c])
    BY <1>0, <1>5 DEF ApplyNewVote, CanReadMultiplier
  <2> HIDE DEF o, v
  <2>7. CountedBallots' = [CountedBallots EXCEPT ![c][o] = v]
    BY <2>4, <2>6, CountedEqual
  <2> QED BY <2>2, <2>5, <2>6, <2>7 DEF BallotMoved
<1> QED
  BY <1>2, <1>3, <1>4, <1>5 DEF OperationStep

(* The end of a connection and HandleClientDisconnected: the map that is   *)
(* taken off the record stays counted until it is stripped.                *)
LEMMA CleanupMovesBallot ==
  ASSUME SessionInv, ManagerInv, NEW c \in Clients, Closing(c) \/ CleanupStep(c)
  PROVE  BallotsKept \/ (BallotMoved(c) /\ ~InfoWritten(userOf[c]))
<1> USE DEF ManagerInv
<1>0. /\ cleanup \in [Clients -> [pc : {"none", "wait", "strip", "done"},
                                  map : [Ops -> VoteTypes \cup {NoVote}]]]
      /\ votes \in [Clients -> [Ops -> VoteTypes \cup {NoVote}]]
  BY DEF ManagerTypeOK
<1>1. cleanup[c].pc # "none" => op[c].pc = "idle"
  BY DEF CleanupAfterLoop
<1>2. CASE CloseLock(c) /\ UNCHANGED managerVars
  BY <1>2, CountedQuiet DEF managerVars, BallotsKept
<1>3. ASSUME CloseRemove(c), cleanup' = [cleanup EXCEPT ![c].pc = "wait"],
             UNCHANGED <<votes, tally, managerLock, op, disturbed>>
      PROVE  BallotsKept
  <2>1. cleanup[c].pc # "strip"
    BY <1>3 DEF CloseRemove, CleanupAfterLoop
  <2>2. cleanup'[c].pc = "wait" /\ \A d \in Clients : d # c => cleanup'[d] = cleanup[d]
    BY <1>0, <1>3
  <2>3. \A d \in Clients, q \in Ops : CountedBallots'[d][q] = CountedBallots[d][q]
    BY <1>3, <2>1, <2>2, CountedValue
  <2> QED BY <1>3, <2>3, CountedEqual DEF BallotsKept
<1>4. CASE TakeVotes(c)
  <2>1. /\ cleanup[c].pc = "wait" /\ cleanup'[c].pc = "strip" /\ cleanup'[c].map = votes[c]
        /\ \A d \in Clients : d # c => cleanup'[d] = cleanup[d] /\ votes'[d] = votes[d]
        /\ UNCHANGED <<tally, op>>
    BY <1>0, <1>4 DEF TakeVotes
  <2>2. \A d \in Clients, q \in Ops : CountedBallots'[d][q] = CountedBallots[d][q]
    BY <1>1, <2>1, CountedValue
  <2> QED BY <2>1, <2>2, CountedEqual DEF BallotsKept
<1>5. ASSUME NEW o \in Ops, StripVote(c, o) PROVE BallotMoved(c) /\ ~InfoWritten(userOf[c])
  <2>1. /\ cleanup[c].pc = "strip" /\ cleanup'[c].pc = "strip"
        /\ \A q \in Ops : cleanup'[c].map[q] = IF q = o THEN NoVote ELSE cleanup[c].map[q]
        /\ \A d \in Clients : d # c => cleanup'[d] = cleanup[d]
        /\ UNCHANGED <<votes, op>>
    BY <1>0, <1>5 DEF StripVote
  <2>2. tally' = [tally EXCEPT ![o] = RemoveVoteTally(@, cleanup[c].map[o], mult[userOf[c]])]
    BY <1>5 DEF StripVote
  <2>3. \A d \in Clients, q \in Ops :
          CountedBallots'[d][q] = IF d = c /\ q = o THEN NoVote ELSE CountedBallots[d][q]
    BY <1>1, <2>1, CountedValue
  <2>4. CountedBallots[c][o] = cleanup[c].map[o]
    BY <1>1, <2>1, CountedValue
  <2>5. ~InfoWritten(userOf[c])
    BY <1>5 DEF StripVote, CanReadMultiplier
  <2>6. CountedBallots' = [CountedBallots EXCEPT ![c][o] = NoVote]
    BY <2>3, CountedEqual
  <2> QED BY <2>2, <2>4, <2>5, <2>6 DEF BallotMoved
<1>6. CASE EndCleanup(c)
  <2>1. /\ cleanup[c].pc = "strip" /\ cleanup'[c].pc = "done" /\ cleanup[c].map = NoVotes
        /\ \A d \in Clients : d # c => cleanup'[d] = cleanup[d]
        /\ UNCHANGED <<votes, tally, op>>
    BY <1>0, <1>6 DEF EndCleanup
  <2>2. votes[c] = NoVotes
    BY <2>1 DEF CleanupAfterLoop
  <2>3. \A d \in Clients, q \in Ops : CountedBallots'[d][q] = CountedBallots[d][q]
    BY <1>1, <2>1, <2>2, CountedValue
  <2> QED BY <2>1, <2>3, CountedEqual DEF BallotsKept
<1> QED
  BY <1>2, <1>3, <1>4, <1>5, <1>6 DEF Closing, CleanupStep

-----------------------------------------------------------------------------
(* The weights, and the copy a multiplier change works from.               *)

Setting(o) == o.pc \in {"set_snap", "set_wait"}

LEMMA WeightsType == ASSUME SessionInv PROVE Weights \in [Clients -> Int]
  BY DEF SessionInv, SessionTypeOK, Weights, WeightOf

(* Weights only move with the user of the client and with the operator.    *)
LEMMA WeightsQuiet ==
  ASSUME mult' = mult, operator' = operator \/ (~Setting(operator) /\ ~Setting(operator')),
         NEW c \in Clients, userOf'[c] = userOf[c]
  PROVE  Weights'[c] = Weights[c]
  BY DEF Weights, WeightOf, InfoWritten, Setting

(* A step that moves no ballot of a client whose weight it changes.        *)
LEMMA QuietTally ==
  ASSUME TallyFollowsBallots, BallotsKept, ~disturbed' => ~disturbed,
         ~disturbed' => \A c \in Clients : \A o \in Ops :
                          CountedBallots[c][o] # NoVote => Weights'[c] = Weights[c]
  PROVE  TallyFollowsBallots'
<1> SUFFICES ASSUME ~disturbed' PROVE tally' = Tallied(CountedBallots', Weights')
  BY DEF TallyFollowsBallots
<1>1. tally = Tallied(CountedBallots, Weights)
  BY DEF TallyFollowsBallots
<1>2. CountedBallots' = CountedBallots /\ tally' = tally
  BY DEF BallotsKept
<1>3. \A c \in Clients, o \in Ops : CountedBallots[c][o] # NoVote => Weights'[c] = Weights[c]
  OBVIOUS
<1> DEFINE b == CountedBallots
           w == Weights
           w2 == Weights'
<1>4. Tallied(b, w2) = Tallied(b, w)
  <2>1. \A c \in Clients, o \in Ops : b[c][o] # NoVote => w2[c] = w[c]
    BY <1>3
  <2> HIDE DEF b, w, w2
  <2> QED BY <2>1, TalliedSame
<1> QED
  BY <1>1, <1>2, <1>4

(* A step that leaves the copy and the membership of its user alone.       *)
LEMMA QuietCopy ==
  ASSUME CopyHasVoters, ~disturbed' => ~disturbed,
         ~disturbed' /\ operator'.pc = "set_wait" => operator' = operator,
         ~disturbed' /\ operator'.pc = "set_wait" =>
           \A c \in Clients : (userOf'[c] = operator.user) <=> (userOf[c] = operator.user),
         ~disturbed' /\ operator'.pc = "set_wait" =>
           \A c \in Clients : userOf'[c] = operator.user /\ votes'[c] # NoVotes => votes[c] # NoVotes,
         operator.todo \subseteq Clients
  PROVE  CopyHasVoters'
<1> SUFFICES ASSUME ~disturbed', operator'.pc = "set_wait"
             PROVE  /\ \A c \in operator'.todo : userOf'[c] = operator'.user
                    /\ \A c \in Clients : userOf'[c] = operator'.user /\ votes'[c] # NoVotes
                                         => c \in operator'.todo
  BY DEF CopyHasVoters
<1>1. operator' = operator
  OBVIOUS
<1>2. /\ \A c \in operator.todo : userOf[c] = operator.user
      /\ \A c \in Clients : userOf[c] = operator.user /\ votes[c] # NoVotes => c \in operator.todo
  BY <1>1 DEF CopyHasVoters
<1>3. \A c \in Clients : userOf'[c] = operator.user <=> userOf[c] = operator.user
  OBVIOUS
<1>4. \A c \in Clients : userOf'[c] = operator.user /\ votes'[c] # NoVotes => votes[c] # NoVotes
  OBVIOUS
<1>5. \A c \in operator.todo : userOf'[c] = operator.user
  BY <1>2, <1>3
<1>6. \A c \in Clients : userOf'[c] = operator.user /\ votes'[c] # NoVotes => c \in operator.todo
  BY <1>2, <1>3, <1>4
<1> QED
  BY <1>1, <1>5, <1>6

(* One ballot that moves moves its weight.                                 *)
LEMMA MovedBallot ==
  ASSUME NEW w \in [Clients -> Int], NEW c \in Clients, w[c] = mult[userOf[c]],
         tally = Tallied(CountedBallots, w), BallotMoved(c)
  PROVE  tally' = Tallied(CountedBallots', w)
<1>1. PICK o \in Ops, v \in VoteTypes \cup {NoVote} :
        /\ CountedBallots' = [CountedBallots EXCEPT ![c][o] = v]
        /\ \/ /\ CountedBallots[c][o] = NoVote
              /\ tally' = [tally EXCEPT ![o] = ApplyVoteTally(@, v, mult[userOf[c]])]
           \/ /\ v = NoVote
              /\ tally' = [tally EXCEPT ![o] =
                             RemoveVoteTally(@, CountedBallots[c][o], mult[userOf[c]])]
  BY DEF BallotMoved
<1> DEFINE b == CountedBallots
           b2 == CountedBallots'
<1>2. /\ \A d \in Clients, q \in Ops : d # c \/ q # o => b2[d][q] = b[d][q]
      /\ b2[c][o] = v
  <2>1. b = [d \in Clients |-> [q \in Ops |-> b[d][q]]]
    BY DEF CountedBallots
  <2> HIDE DEF b
  <2>2. b2 = [b EXCEPT ![c][o] = v]
    BY <1>1 DEF b
  <2> HIDE DEF b2
  <2> QED BY <2>1, <2>2
<1>3. CASE b[c][o] = NoVote /\ tally' = [tally EXCEPT ![o] = ApplyVoteTally(@, v, mult[userOf[c]])]
  <2>1. tally' = [tally EXCEPT ![o] = ApplyVoteTally(@, b2[c][o], w[c])]
    BY <1>2, <1>3
  <2> HIDE DEF b, b2
  <2>2. Tallied(b2, w) = [Tallied(b, w) EXCEPT ![o] = ApplyVoteTally(@, b2[c][o], w[c])]
    BY <1>2, <1>3, TalliedAdd
  <2> QED BY <2>1, <2>2 DEF b, b2
<1>4. CASE v = NoVote /\ tally' = [tally EXCEPT ![o] =
                                    RemoveVoteTally(@, CountedBallots[c][o], mult[userOf[c]])]
  <2>1. tally' = [tally EXCEPT ![o] = RemoveVoteTally(@, b[c][o], w[c])]
    BY <1>4
  <2> HIDE DEF b, b2
  <2>2. Tallied(b2, w) = [Tallied(b, w) EXCEPT ![o] = RemoveVoteTally(@, b[c][o], w[c])]
    BY <1>2, <1>4, TalliedRemove
  <2> QED BY <2>1, <2>2 DEF b, b2
<1> QED
  BY <1>1, <1>3, <1>4

(* The handlers that move ballots read the weight the tallies are kept in. *)
LEMMA MovedTally ==
  ASSUME SessionInv, TallyFollowsBallots, NEW c \in Clients,
         BallotsKept \/ (BallotMoved(c) /\ ~InfoWritten(userOf[c])),
         disturbed' = disturbed, Weights' = Weights
  PROVE  TallyFollowsBallots'
<1> SUFFICES ASSUME ~disturbed PROVE tally' = Tallied(CountedBallots', Weights)
  BY DEF TallyFollowsBallots
<1>1. tally = Tallied(CountedBallots, Weights)
  BY DEF TallyFollowsBallots
<1>2. CASE BallotsKept
  BY <1>1, <1>2 DEF BallotsKept
<1>3. ASSUME BallotMoved(c), ~InfoWritten(userOf[c])
      PROVE  tally' = Tallied(CountedBallots', Weights)
  <2>1. Weights[c] = mult[userOf[c]] /\ Weights \in [Clients -> Int]
    BY <1>3, WeightsType DEF Weights, WeightOf
  <2> QED BY <1>1, <1>3, <2>1, MovedBallot
<1> QED
  BY <1>2, <1>3

-----------------------------------------------------------------------------
(* The steps of the sessions.                                              *)

(* A step that moves no client and changes no multiplier.                  *)
LEMMA SessionTally ==
  ASSUME SessionInv, TallyInv, UNCHANGED <<votes, tally, op, cleanup, disturbed>>,
         userOf' = userOf, mult' = mult,
         operator' = operator \/ (~Setting(operator) /\ ~Setting(operator'))
  PROVE  TallyInv'
<1>1. BallotsKept
  BY CountedQuiet DEF BallotsKept
<1>2. TallyFollowsBallots'
  BY <1>1, WeightsQuiet, QuietTally DEF TallyInv
<1>3. operator.todo \subseteq Clients
  BY DEF SessionInv, SessionTypeOK
<1>4. CopyHasVoters'
  BY <1>3, QuietCopy DEF TallyInv, Setting
<1> QED
  BY <1>2, <1>4 DEF TallyInv

(* A client that changes user without being noted has nothing counted, and *)
(* neither leaves nor joins the user whose multiplier changes.             *)
LEMMA MoveTally ==
  ASSUME SessionInv, TallyInv, ManagerUnchangedButNote, mult' = mult,
         operator' = operator \/ (~Setting(operator) /\ ~Setting(operator'))
  PROVE  TallyInv'
<1>1. UNCHANGED <<votes, tally, op, cleanup>> /\ (~disturbed' => ~disturbed)
  BY DEF ManagerUnchangedButNote, NoteReseats
<1>2. ASSUME ~disturbed', NEW c \in Clients, userOf'[c] # userOf[c]
      PROVE  ~OnRecord(c) /\ ~InfoWritten(userOf[c]) /\ ~InfoWritten(userOf'[c])
  BY <1>2 DEF ManagerUnchangedButNote, NoteReseats, Reseats
<1>3. BallotsKept
  BY <1>1, CountedQuiet DEF BallotsKept
<1>4. ASSUME ~disturbed', NEW c \in Clients, NEW o \in Ops, CountedBallots[c][o] # NoVote
      PROVE  Weights'[c] = Weights[c]
  <2>1. CASE userOf'[c] = userOf[c]
    BY <2>1, WeightsQuiet
  <2>2. CASE userOf'[c] # userOf[c]
    <3>1. votes[c] = NoVotes /\ cleanup[c].map = NoVotes
      BY <1>2, <1>4, <2>2 DEF OnRecord
    <3> QED BY <1>4, <3>1, CountedValue DEF NoVotes
  <2> QED BY <2>1, <2>2
<1>5. TallyFollowsBallots'
  BY <1>1, <1>3, <1>4, QuietTally DEF TallyInv
<1>6. operator.todo \subseteq Clients
  BY DEF SessionInv, SessionTypeOK
<1>7. ASSUME ~disturbed', operator'.pc = "set_wait"
      PROVE  operator' = operator /\ \A c \in Clients : (userOf'[c] = operator.user) <=> (userOf[c] = operator.user)
  <2>1. operator' = operator
    BY <1>7 DEF Setting
  <2>2. ASSUME NEW c \in Clients, userOf'[c] # userOf[c]
        PROVE  userOf'[c] # operator.user /\ userOf[c] # operator.user
    BY <1>2, <1>7, <2>1, <2>2 DEF InfoWritten
  <2> QED BY <2>1, <2>2
<1>8. CopyHasVoters'
  BY <1>1, <1>6, <1>7, QuietCopy DEF TallyInv
<1> QED
  BY <1>5, <1>8 DEF TallyInv

(* User.Set: the new multiplier is written while infoLock is held, and the *)
(* tallies keep the old weight until the handler has applied it.           *)
LEMMA StartSetTally ==
  ASSUME SessionInv, TallyInv, NEW u \in AllUsers, NEW m \in Multipliers, SetMultiplier(u, m),
         UNCHANGED managerVars
  PROVE  TallyInv'
<1> USE DEF SessionInv, SessionTypeOK
<1>1. /\ UNCHANGED <<votes, tally, op, cleanup, disturbed>>
      /\ operator.pc = "idle" /\ userOf' = userOf
      /\ mult' = [mult EXCEPT ![u] = m]
      /\ operator'.pc = "set_snap" /\ operator'.user = u /\ operator'.orig = mult[u]
  BY DEF SetMultiplier, CanCommand, managerVars, IdleOperator
<1>2. BallotsKept
  BY <1>1, CountedQuiet DEF BallotsKept
<1>3. \A c \in Clients : Weights'[c] = Weights[c]
  BY <1>1 DEF Weights, WeightOf, InfoWritten
<1>4. TallyFollowsBallots'
  BY <1>1, <1>2, <1>3, QuietTally DEF TallyInv
<1>5. CopyHasVoters'
  BY <1>1 DEF CopyHasVoters
<1> QED
  BY <1>4, <1>5 DEF TallyInv

(* The copy has every client of the user with votes, unless one is missed. *)
LEMMA SnapshotTally ==
  ASSUME SessionInv, TallyInv, SetSnapshot, disturbed' = (disturbed \/ Missed # {}),
         UNCHANGED <<votes, tally, managerLock, op, cleanup>>
  PROVE  TallyInv'
<1> USE DEF SessionInv, SessionTypeOK
<1>1. /\ operator.pc = "set_snap" /\ userOf' = userOf /\ mult' = mult
      /\ operator'.pc = "set_wait" /\ operator'.user = operator.user /\ operator'.orig = operator.orig
      /\ operator'.todo = connected[operator.user]
  BY DEF SetSnapshot
<1>2. BallotsKept
  BY <1>1, CountedQuiet DEF BallotsKept
<1>3. \A c \in Clients : Weights'[c] = Weights[c]
  BY <1>1 DEF Weights, WeightOf, InfoWritten
<1>4. ~disturbed' => ~disturbed /\ Missed = {}
  OBVIOUS
<1>5. TallyFollowsBallots'
  BY <1>2, <1>3, <1>4, QuietTally DEF TallyInv
<1>6. CopyHasVoters'
  <2> SUFFICES ASSUME ~disturbed'
               PROVE  /\ \A c \in operator'.todo : userOf'[c] = operator'.user
                      /\ \A c \in Clients : userOf'[c] = operator'.user /\ votes'[c] # NoVotes
                                           => c \in operator'.todo
    BY DEF CopyHasVoters
  <2>1. \A c \in connected[operator.user] : userOf[c] = operator.user
    BY DEF ListedOnlyAsSelf
  <2>2. ASSUME NEW c \in Clients, userOf[c] = operator.user, votes[c] # NoVotes
        PROVE  c \in connected[operator.user]
    BY <1>4, <2>2 DEF Missed, OnRecord
  <2> QED BY <1>1, <2>1, <2>2
<1> QED
  BY <1>5, <1>6 DEF TallyInv

(* While nobody writes, what is counted is what is on record.              *)
LEMMA CountedAtRest ==
  ASSUME ManagerInv, managerLock.writer = NoThread
  PROVE  CountedBallots = votes
<1>1. \A c \in Clients : op[c].pc # "apply" /\ cleanup[c].pc # "strip"
  BY ThreadsDiffer DEF ManagerInv, WriterOwnsTally
<1>2. votes \in [Clients -> [Ops -> VoteTypes \cup {NoVote}]]
  BY DEF ManagerInv, ManagerTypeOK
<1>3. CountedBallots = [c \in Clients |-> [o \in Ops |-> votes[c][o]]]
  BY <1>1 DEF CountedBallots
<1> QED
  BY <1>2, <1>3

(* HandleUserVoteMultiplierChange: the difference, once for every vote of  *)
(* the copy, is what the new weight changes.                               *)
LEMMA ApplyTally ==
  ASSUME SessionInv, ManagerInv, TallyInv, ApplyMultiplierChange
  PROVE  TallyInv'
<1> USE DEF SessionInv, SessionTypeOK
<1> DEFINE delta == mult[operator.user] - operator.orig
           n(o, kinds) == Voting(operator.todo, o, kinds)
           w == Weights
           w2 == Weights'
<1>1. /\ operator.pc = "set_wait" /\ operator'.pc = "idle" /\ managerLock.writer = NoThread
      /\ mult' = mult /\ userOf' = userOf
      /\ UNCHANGED <<votes, managerLock, op, cleanup, disturbed>>
  BY DEF ApplyMultiplierChange, SetReturns, CanWrite, IdleOperator
<1>2. tally' = [o \in Ops |-> [voters |-> tally[o].voters + delta * n(o, {"Support", "Against"}),
                               supporters |-> tally[o].supporters + delta * n(o, {"Support"})]]
  BY DEF ApplyMultiplierChange
<1>3. CopyHasVoters'
  BY <1>1 DEF CopyHasVoters
<1>4. TallyFollowsBallots'
  <2> SUFFICES ASSUME ~disturbed PROVE tally' = Tallied(CountedBallots', w2)
    BY <1>1 DEF TallyFollowsBallots
  <2>1. CountedBallots = votes /\ CountedBallots' = votes
    BY <1>1, CountedAtRest, CountedQuiet
  <2>2. tally = Tallied(votes, w)
    BY <2>1 DEF TallyInv, TallyFollowsBallots
  <2>3. delta \in Int /\ w \in [Clients -> Int] /\ operator.todo \in SUBSET Clients
    BY WeightsType
  <2>4. ASSUME NEW c \in Clients, NEW o \in Ops, NEW kinds, NoVote \notin kinds, votes[c][o] \in kinds
        PROVE  w2[c] = w[c] + (IF c \in operator.todo THEN delta ELSE 0)
    <3>1. votes[c] # NoVotes
      BY <2>4 DEF NoVotes
    <3>2. c \in operator.todo <=> userOf[c] = operator.user
      BY <1>1, <3>1 DEF TallyInv, CopyHasVoters
    <3>3. w2[c] = mult[userOf[c]]
      BY <1>1 DEF Weights, WeightOf, InfoWritten
    <3>4. w[c] = IF userOf[c] = operator.user THEN operator.orig ELSE mult[userOf[c]]
      BY <1>1 DEF Weights, WeightOf, InfoWritten
    <3>5. mult[userOf[c]] \in Int /\ operator.orig \in Int
      OBVIOUS
    <3> QED BY <3>2, <3>3, <3>4, <3>5
  <2>5. ASSUME NEW o \in Ops, NEW kinds, NoVote \notin kinds
        PROVE  Weighed(votes, w2, o, kinds) = Weighed(votes, w, o, kinds) + delta * n(o, kinds)
    <3>1. \A c \in Clients : votes[c][o] \in kinds
                            => w2[c] = w[c] + (IF c \in operator.todo THEN delta ELSE 0)
      BY <2>4, <2>5
    <3> DEFINE T == operator.todo
               b == votes
               U == {c \in T : b[c][o] \in kinds}
    <3>2. n(o, kinds) = Cardinality(U)
      BY DEF Voting
    <3>3. /\ delta \in Int /\ w \in [Clients -> Int] /\ T \in SUBSET Clients /\ U \in SUBSET Clients
          /\ \A c \in U : b[c][o] \in kinds /\ w2[c] = w[c] + delta
          /\ \A c \in Clients \ U : b[c][o] \in kinds => w2[c] = w[c]
      BY <2>3, <3>1
    <3> HIDE DEF w, w2, delta, T, b, U, n, SessionInv, SessionTypeOK
    <3>4. Weighed(b, w2, o, kinds) = Weighed(b, w, o, kinds) + delta * Cardinality(U)
      BY <3>3, WeighedShift
    <3> QED BY <3>2, <3>4 DEF b
  <2>6. NoVote \notin {"Support", "Against"} /\ NoVote \notin {"Support"}
    BY DEF NoVote
  <2> HIDE DEF w, w2, delta, n
  <2> QED
    BY <1>2, <2>1, <2>2, <2>5, <2>6 DEF Tallied
<1> QED
  BY <1>3, <1>4 DEF TallyInv

-----------------------------------------------------------------------------
(* Every step keeps the tallies exact.                                     *)

(* The handlers of votes and disconnects.                                  *)
LEMMA ConnectionTally ==
  ASSUME SessionInv, ManagerInv, TallyInv, NEW c \in Clients,
         ConnectionStep(c) \/ \E o \in Ops, v \in Ballots : ReceiveOperation(c, o, v)
  PROVE  TallyInv'
<1> USE DEF SessionInv, SessionTypeOK
<1>1. mult' = mult /\ userOf' = userOf /\ operator' = operator /\ disturbed' = disturbed
  BY DEF ConnectionStep, OperationStep, EnterTally, RemoveOldVote, ApplyNewVote, Closing, CloseLock,
         CloseRemove, CleanupStep, TakeVotes, StripVote, EndCleanup, ReceiveOperation, sessionVars,
         managerVars
<1>2. Weights' = Weights
  BY <1>1 DEF Weights, WeightOf, InfoWritten
<1>3. BallotsKept \/ (BallotMoved(c) /\ ~InfoWritten(userOf[c]))
  BY OperationMovesBallot, CleanupMovesBallot DEF ConnectionStep
<1>4. TallyFollowsBallots'
  BY <1>1, <1>2, <1>3, MovedTally DEF TallyInv
<1>5. ASSUME operator.pc = "set_wait", NEW d \in Clients, userOf[d] = operator.user, votes'[d] # NoVotes
      PROVE  votes[d] # NoVotes
  <2>1. CASE ApplyNewVote(c)
    <3>1. ~InfoWritten(userOf[c])
      BY <2>1 DEF ApplyNewVote, CanReadMultiplier
    <3>2. d # c
      BY <1>5, <3>1 DEF InfoWritten
    <3> QED BY <1>5, <2>1, <3>2 DEF ApplyNewVote, ManagerInv, ManagerTypeOK
  <2>2. CASE TakeVotes(c)
    BY <1>5, <2>2 DEF TakeVotes, ManagerInv, ManagerTypeOK
  <2>3. CASE votes' = votes
    BY <1>5, <2>3
  <2> QED
    BY <2>1, <2>2, <2>3
    DEF ConnectionStep, OperationStep, EnterTally, RemoveOldVote, Closing, CleanupStep, StripVote,
        EndCleanup, ReceiveOperation, managerVars
<1>6. CopyHasVoters'
  BY <1>1, <1>5, QuietCopy DEF TallyInv
<1> QED
  BY <1>4, <1>6 DEF TallyInv

(* Connecting, logging in, and the commands of the console.                *)
LEMMA RequestTally ==
  ASSUME SessionInv, TallyInv,
         \/ \E c \in Clients : ClientConnects(c) \/ ClientCloses(c) \/ LoginStep(c)
         \/ \E c \in Clients, u \in Users : ClientLogsIn(c, u)
         \/ OperatorRequest
  PROVE  TallyInv'
<1>1. ASSUME NEW c \in Clients, ClientConnects(c) \/ ClientCloses(c) \/ \E u \in Users : ClientLogsIn(c, u)
      PROVE  TallyInv'
  <2>1. /\ UNCHANGED <<votes, tally, op, cleanup, disturbed>>
        /\ userOf' = userOf /\ mult' = mult /\ operator' = operator
    BY <1>1 DEF ClientConnects, Connect, ClientCloses, CloseRead, ClientLogsIn, Authenticate, managerVars
  <2> QED BY <2>1, SessionTally
<1>2. ASSUME NEW c \in Clients, LoginStep(c) PROVE TallyInv'
  <2>1. CASE AddSet(c) /\ ManagerUnchangedButNote
    BY <2>1, MoveTally DEF AddSet
  <2>2. CASE ~(AddSet(c) /\ ManagerUnchangedButNote)
    <3>1. /\ UNCHANGED <<votes, tally, op, cleanup, disturbed>>
          /\ userOf' = userOf /\ mult' = mult /\ operator' = operator
      BY <1>2, <2>2 DEF LoginStep, AddLock, AddCheck, AddRemove, MoveOut, UserChangeEnter, UserChangeRun, AuthEvent,
                        managerVars, sessionVars
    <3> QED BY <3>1, SessionTally
  <2> QED BY <2>1, <2>2
<1>3. CASE OperatorRequest
  <2>1. ASSUME NEW u \in AllUsers, NEW m \in Multipliers, SetMultiplier(u, m) PROVE TallyInv'
    BY <1>3, <2>1, StartSetTally DEF OperatorRequest
  <2>2. ASSUME NEW u \in Users, Unauthorize(u) \/ DeleteUser(u) PROVE TallyInv'
    <3>1. userOf' = userOf /\ mult' = mult /\ ~Setting(operator) /\ ~Setting(operator')
      BY <2>2 DEF Unauthorize, DeleteUser, CanCommand, Setting, IdleOperator
    <3>2. UNCHANGED <<votes, tally, op, cleanup, disturbed>>
      BY <1>3 DEF OperatorRequest, managerVars
    <3> QED BY <3>1, <3>2, SessionTally
  <2> QED BY <1>3, <2>1, <2>2 DEF OperatorRequest
<1> QED
  BY <1>1, <1>2, <1>3

(* Unauthorize and delete, with their listeners.                           *)
LEMMA ConsoleTally ==
  ASSUME SessionInv, TallyInv,
         UnauthorizeManagerStep \/ \E u \in Users : DeletionManagerStep(u)
  PROVE  TallyInv'
<1>0. DeleterIsConsole
  BY DEF SessionInv
<1>7. ASSUME NEW c \in Clients, UnauthorizeRemove(c), UNCHANGED managerVars PROVE TallyInv'
  <2>1. /\ UNCHANGED <<votes, tally, op, cleanup, disturbed>>
        /\ userOf' = userOf /\ mult' = mult /\ operator' = operator
    BY <1>7 DEF UnauthorizeRemove, MoveOut, managerVars
  <2> QED BY <2>1, SessionTally
<1>1. ASSUME NEW c \in Clients, UnauthorizeMove(c), ManagerUnchangedButNote PROVE TallyInv'
  <2>1. mult' = mult /\ ~Setting(operator) /\ ~Setting(operator')
    BY <1>1 DEF UnauthorizeMove, Setting, SessionInv, SessionTypeOK
  <2> QED BY <1>1, <2>1, MoveTally
<1>2. ASSUME (\E throws \in BOOLEAN : UnauthorizeEvent(throws)) \/ UnauthorizeEnd,
             UNCHANGED managerVars
      PROVE  TallyInv'
  <2>1. /\ UNCHANGED <<votes, tally, op, cleanup, disturbed>>
        /\ userOf' = userOf /\ mult' = mult
    BY <1>2 DEF UnauthorizeEvent, UnauthorizeEnd, managerVars
  <2>2. operator.pc \in {"un_next", "un_event"} /\ operator'.pc \in {"un_next", "idle"}
    <3>1. CASE UnauthorizeEnd
      BY <3>1 DEF UnauthorizeEnd, IdleOperator
    <3>2. ASSUME NEW throws \in BOOLEAN, UnauthorizeEvent(throws)
          PROVE  operator.pc = "un_event" /\ operator'.pc = "un_next"
      <4> DEFINE f == operator.fault \/ throws
      <4>1. operator.pc = "un_event" /\ operator' = [operator EXCEPT !.pc = "un_next", !.fault = f]
        BY <3>2 DEF UnauthorizeEvent
      <4> HIDE DEF f
      <4> QED BY <4>1 DEF SessionInv, SessionTypeOK
    <3> QED BY <1>2, <3>1, <3>2
  <2> QED BY <2>1, <2>2, SessionTally DEF Setting
<1>3. ASSUME NEW u \in Users, NEW c \in Clients, DeleteMove(u, c), ManagerUnchangedButNote
      PROVE  TallyInv'
  <2>1. mult' = mult
    BY <1>3 DEF DeleteMove
  <2>2. operator' = operator \/ (~Setting(operator) /\ ~Setting(operator'))
    BY <1>0, <1>3 DEF DeleteMove, DeleterIsConsole, Setting, IdleOperator
  <2> QED BY <1>3, <2>1, <2>2, MoveTally
<1>4. ASSUME NEW u \in Users, NEW c \in Clients, DeleteAgain(u, c, TRUE), ManagerUnchangedButNote
      PROVE  TallyInv'
  BY <1>4, MoveTally DEF DeleteAgain
<1>5. ASSUME NEW u \in Users, DeleteEnd(u), UNCHANGED managerVars PROVE TallyInv'
  <2>1. /\ UNCHANGED <<votes, tally, op, cleanup, disturbed>>
        /\ userOf' = userOf /\ mult' = mult
    BY <1>5 DEF DeleteEnd, managerVars
  <2>2. operator' = operator \/ (~Setting(operator) /\ ~Setting(operator'))
    BY <1>0, <1>5 DEF DeleteEnd, DeleterIsConsole, Setting, IdleOperator
  <2> QED BY <2>1, <2>2, SessionTally
<1>6. ASSUME NEW u \in Users,
             \/ \E c \in Clients : DeleteYield(u, c) \/ DeleteRemove(u, c) \/ AgainYield(u, c)
             \/ DeleteEnumerated(u)
             \/ \E throws \in BOOLEAN : DeleteEvent(u, throws),
             UNCHANGED <<votes, tally, op, cleanup, disturbed>>
      PROVE  TallyInv'
  <2>1. userOf' = userOf /\ mult' = mult /\ operator' = operator
    BY <1>6 DEF DeleteYield, DeleteRemove, MoveOut, AgainYield, DeleteEnumerated, DeleteEvent
  <2> QED BY <1>6, <2>1, SessionTally
<1> QED
  BY <1>1, <1>2, <1>3, <1>4, <1>5, <1>6, <1>7
  DEF UnauthorizeManagerStep, DeletionManagerStep, LeakUpgradeable, managerVars

(* The initial tallies are those of no ballots.                            *)
LEMMA InitTally ==
  ASSUME Init, NEW w
  PROVE  tally = Tallied(CountedBallots, w) /\ CountedBallots = [c \in Clients |-> NoVotes]
<1>1. CountedBallots = [c \in Clients |-> NoVotes]
  BY NoOperationType DEF Init, ManagerInit, CountedBallots, NoVotes
<1>2. \A o \in Ops, c \in Clients : CountedBallots[c][o] \notin {"Support", "Against"}
  BY <1>1 DEF NoVotes, NoVote
<1> HIDE DEF CountedBallots
<1>3. \A o \in Ops : /\ Weighed(CountedBallots, w, o, {"Support", "Against"}) = 0
                    /\ Weighed(CountedBallots, w, o, {"Support"}) = 0
  BY <1>2, WeighedNone
<1>4. tally = [o \in Ops |-> [voters |-> 0, supporters |-> 0]]
  BY DEF Init, ManagerInit
<1> QED
  BY <1>1, <1>3, <1>4 DEF Tallied

(* Every step of the server keeps the tallies exact.                       *)
LEMMA NextTallyInv ==
  SessionInv /\ ManagerInv /\ TallyInv /\ [Next]_vars => TallyInv'
<1> SUFFICES ASSUME SessionInv, ManagerInv, TallyInv, [Next]_vars
             PROVE  TallyInv'
  OBVIOUS
<1>1. CASE UNCHANGED vars
  BY <1>1, SessionTally DEF vars
<1>2. CASE Next
  <2>1. CASE MultiplierStep
    BY <2>1, SnapshotTally, ApplyTally DEF MultiplierStep
  <2>2. ASSUME NEW c \in Clients, ConnectionStep(c) PROVE TallyInv'
    BY <2>2, ConnectionTally
  <2>3. ASSUME NEW c \in Clients, LoginStep(c) PROVE TallyInv'
    BY <2>3, RequestTally
  <2>4. CASE ClientRequest
    BY <2>4, ConnectionTally, RequestTally DEF ClientRequest
  <2>5. CASE OperatorRequest
    BY <2>5, RequestTally
  <2>6. ASSUME UnauthorizeManagerStep \/ \E u \in Users : DeletionManagerStep(u) PROVE TallyInv'
    BY <2>6, ConsoleTally
  <2> QED
    BY <1>2, <2>1, <2>2, <2>3, <2>4, <2>5, <2>6 DEF Next
<1> QED
  BY <1>1, <1>2

(* All the invariants of the server, together.                             *)
THEOREM TallyInvariance == Spec => [](SessionInv /\ ManagerInv /\ TallyInv)
<1>2. Init => TallyInv
  <2> SUFFICES ASSUME Init PROVE TallyInv
    OBVIOUS
  <2>1. TallyFollowsBallots
    BY InitTally DEF TallyFollowsBallots
  <2>2. operator.pc = "idle"
    BY DEF Init, SessionInit, IdleOperator
  <2> QED BY <2>1, <2>2 DEF TallyInv, CopyHasVoters
<1> DEFINE I == SessionInv /\ ManagerInv /\ TallyInv
<1>4. Init => I
  BY <1>2, InitSessionInv, InitManagerInv DEF Init
<1>5. I /\ [Next]_vars => I'
  BY SessionStep, NextSessionInv, NextManagerInv, NextTallyInv
<1> QED
  BY <1>4, <1>5, PTL DEF Spec

(* As long as the count listeners return, which the module assumes, votes, *)
(* revotes, logins, departures and multiplier changes of any number of     *)
(* clients never make VotingManager miscount, unless a client changes user *)
(* with votes on record, or a multiplier change misses one that is leaving *)
(* or between two lists: between two updates every tally is exactly the    *)
(* sum of the weights of the votes on record.                              *)
THEOREM TallyIsExact == Spec => []TallyExactUnlessDisturbed
<1>1. ManagerInv /\ TallyInv => TallyExactUnlessDisturbed
  BY CountedAtRest DEF TallyInv, TallyFollowsBallots, TallyExactUnlessDisturbed
<1> QED
  BY <1>1, TallyInvariance, PTL

(* A cleanup that is through has nothing counted.                          *)
LEMMA EmptyRoom ==
  ASSUME ManagerInv, NEW w, tally = Tallied(CountedBallots, w),
         \A c \in Clients : cleanup[c].pc = "done"
  PROVE  \A o \in Ops : tally[o] = [voters |-> 0, supporters |-> 0]
<1>1. \A c \in Clients : votes[c] = NoVotes /\ op[c].pc = "idle"
  BY DEF ManagerInv, CleanupAfterLoop
<1>2. \A c \in Clients, o \in Ops : CountedBallots[c][o] \notin {"Support", "Against"}
  BY <1>1, CountedValue DEF NoVotes, NoVote
<1>3. \A o \in Ops : /\ Weighed(CountedBallots, w, o, {"Support", "Against"}) = 0
                    /\ Weighed(CountedBallots, w, o, {"Support"}) = 0
  BY <1>2, WeighedNone
<1> QED
  BY <1>3 DEF Tallied

(* With any weights: when everybody has left and every cleanup is through, *)
(* the tallies are back at zero, unless a weight changed unseen.           *)
THEOREM UndisturbedRoomEmpties == Spec => [](~disturbed => EmptyRoomCountsNothing)
<1>1. ManagerInv /\ TallyInv => (~disturbed => EmptyRoomCountsNothing)
  BY EmptyRoom DEF TallyInv, TallyFollowsBallots, EmptyRoomCountsNothing
<1> QED
  BY <1>1, TallyInvariance, PTL

-----------------------------------------------------------------------------
(* Equal weights.                                                          *)

Even == [c \in Clients |-> FirstMult[Anon]]

\* The multipliers are never touched, and the tallies count ballots.
EvenInv ==
  /\ mult = FirstMult
  /\ ~Setting(operator)
  /\ tally = Tallied(CountedBallots, Even)

(* Every step of the server puts in or takes out one ballot at most, or    *)
(* applies a multiplier change.                                            *)
LEMMA OneBallotAtATime ==
  SessionInv /\ ManagerInv /\ [Next]_vars
    => BallotsKept \/ (\E c \in Clients : BallotMoved(c)) \/ ApplyMultiplierChange
<1> SUFFICES ASSUME SessionInv, ManagerInv, [Next]_vars
             PROVE  BallotsKept \/ (\E c \in Clients : BallotMoved(c)) \/ ApplyMultiplierChange
  OBVIOUS
<1>0. UNCHANGED <<votes, op, cleanup, tally>> => BallotsKept
  BY CountedQuiet DEF BallotsKept
<1>1. CASE UNCHANGED vars
  BY <1>0, <1>1 DEF vars
<1>2. CASE Next
  <2>1. CASE ClientRequest
    BY <1>0, <2>1, OperationMovesBallot
    DEF ClientRequest, ClientConnects, ClientCloses, ClientLogsIn, managerVars
  <2>2. CASE OperatorRequest
    BY <1>0, <2>2 DEF OperatorRequest, managerVars
  <2>3. ASSUME NEW c \in Clients, ConnectionStep(c) PROVE BallotsKept \/ BallotMoved(c)
    BY <2>3, OperationMovesBallot, CleanupMovesBallot DEF ConnectionStep
  <2>4. ASSUME NEW c \in Clients, LoginStep(c) PROVE BallotsKept
    BY <1>0, <2>4 DEF LoginStep, UserChangeEnter, UserChangeRun, ManagerUnchangedButNote, managerVars
  <2>5. CASE MultiplierStep
    BY <1>0, <2>5 DEF MultiplierStep
  <2>6. CASE UnauthorizeManagerStep
    BY <1>0, <2>6 DEF UnauthorizeManagerStep, ManagerUnchangedButNote, managerVars
  <2>7. ASSUME NEW u \in Users, DeletionManagerStep(u) PROVE BallotsKept
    BY <1>0, <2>7 DEF DeletionManagerStep, LeakUpgradeable, ManagerUnchangedButNote, managerVars
  <2> QED
    BY <1>2, <2>1, <2>2, <2>3, <2>4, <2>5, <2>6, <2>7 DEF Next
<1> QED
  BY <1>1, <1>2

(* With equal weights no multiplier change is ever started.                *)
LEMMA NoSetStarts ==
  ASSUME EqualWeights, SessionInv, mult = FirstMult, ~Setting(operator), [Next]_vars
  PROVE  mult' = FirstMult /\ ~Setting(operator') /\ ~ApplyMultiplierChange
<1>1. [SessionNext]_sessionVars
  BY SessionStep
<1>2. ~SetStep
  BY DEF SetStep, SetSnapshot, SetReturns, Setting
<1>3. \A u \in AllUsers, m \in Multipliers : ~SetMultiplier(u, m)
  BY DEF EqualWeights, SetMultiplier
<1>4. ~ApplyMultiplierChange
  BY DEF ApplyMultiplierChange, SetReturns, Setting
<1>5. mult' = mult
  BY <1>1, <1>2, <1>3
  DEF SessionNext, sessionVars, Request, Connect, CloseRead, Authenticate, Unauthorize, DeleteUser,
      CloseStep, CloseLock, CloseRemove, AuthStep, AddLock, AddCheck, AddRemove, AddSet,
      AuthEvent, UnauthorizeStep, UnauthorizeRemove, UnauthorizeMove, UnauthorizeEvent,
      UnauthorizeEnd, DeleteStep, DeleteYield,
      DeleteRemove, DeleteMove, DeleteEnumerated, DeleteEvent, AgainYield, DeleteAgain, DeleteEnd
<1>6. ~Setting(operator')
  <2>0. IdleOperator.pc = "idle"
    BY DEF IdleOperator
  <2>1. CASE operator' \in {operator, IdleOperator}
    BY <2>0, <2>1 DEF Setting
  <2>2. ASSUME NEW u \in Users, Unauthorize(u) \/ DeleteUser(u) PROVE ~Setting(operator')
    BY <2>2 DEF Unauthorize, DeleteUser, Setting, IdleOperator
  <2>3. ASSUME NEW c \in Clients, UnauthorizeMove(c) PROVE ~Setting(operator')
    BY <2>3 DEF UnauthorizeMove, Setting, SessionInv, SessionTypeOK
  <2>4. ASSUME NEW throws \in BOOLEAN, UnauthorizeEvent(throws) PROVE ~Setting(operator')
    <3> DEFINE f == operator.fault \/ throws
    <3>1. operator' = [operator EXCEPT !.pc = "un_next", !.fault = f]
      BY <2>4 DEF UnauthorizeEvent
    <3> HIDE DEF f
    <3> QED BY <3>1 DEF Setting, SessionInv, SessionTypeOK
  <2> QED
    BY <1>1, <1>2, <1>3, <2>1, <2>2, <2>3, <2>4
    DEF SessionNext, sessionVars, Request, Connect, CloseRead, Authenticate,
        CloseStep, CloseLock, CloseRemove, AuthStep, AddLock, AddCheck, AddRemove, AddSet,
      AuthEvent, UnauthorizeStep, UnauthorizeRemove, UnauthorizeEnd, DeleteStep, DeleteYield,
        DeleteRemove, DeleteMove, DeleteEnumerated, DeleteEvent, AgainYield, DeleteAgain, DeleteEnd
<1> QED
  BY <1>4, <1>5, <1>6

(* The tallies of equal weights count ballots.                             *)
LEMMA NextEven == ASSUME EqualWeights PROVE SessionInv /\ ManagerInv /\ EvenInv /\ [Next]_vars => EvenInv'
<1> SUFFICES ASSUME SessionInv, ManagerInv, EvenInv, [Next]_vars PROVE EvenInv'
  OBVIOUS
<1>1. mult' = FirstMult /\ ~Setting(operator') /\ ~ApplyMultiplierChange
  BY NoSetStarts DEF EvenInv
<1>2. Even \in [Clients -> Int] /\ \A c \in Clients : Even[c] = mult[userOf[c]]
  BY SessionsAssumption DEF Even, EvenInv, EqualWeights, AllUsers, SessionInv, SessionTypeOK
<1>3. CASE BallotsKept
  BY <1>1, <1>3 DEF EvenInv, BallotsKept
<1>4. ASSUME NEW c \in Clients, BallotMoved(c) PROVE EvenInv'
  <2>1. tally' = Tallied(CountedBallots', Even)
    BY <1>2, <1>4, MovedBallot DEF EvenInv
  <2> QED BY <1>1, <2>1 DEF EvenInv
<1> QED
  BY <1>1, <1>3, <1>4, OneBallotAtATime

LEMMA EvenInvariance == ASSUME EqualWeights PROVE Spec => [](SessionInv /\ ManagerInv /\ EvenInv)
<1>1. Init => EvenInv
  <2> SUFFICES ASSUME Init PROVE EvenInv
    OBVIOUS
  <2>1. tally = Tallied(CountedBallots, Even)
    BY InitTally
  <2>2. mult = FirstMult /\ ~Setting(operator)
    BY DEF Init, SessionInit, IdleOperator, Setting
  <2> QED BY <2>1, <2>2 DEF EvenInv
<1> DEFINE I == SessionInv /\ ManagerInv /\ EvenInv
<1>2. Init => I
  BY <1>1, InitSessionInv, InitManagerInv DEF Init
<1>3. I /\ [Next]_vars => I'
  BY SessionStep, NextSessionInv, NextManagerInv, NextEven
<1> QED
  BY <1>2, <1>3, PTL DEF Spec

(* Where all weigh the same and the count listeners return, every tally is *)
(* back at zero when everybody has left and every cleanup is through,      *)
(* whoever logged in, was unauthorized or deleted while voting.            *)
THEOREM RoomEmpties == ASSUME EqualWeights PROVE Spec => []EmptyRoomCountsNothing
<1>1. ManagerInv /\ EvenInv => EmptyRoomCountsNothing
  BY EmptyRoom DEF EvenInv, EmptyRoomCountsNothing
<1> QED
  BY <1>1, EvenInvariance, PTL

(* The sum of equal weights is the weight times the number of ballots.     *)
LEMMA TalliedEven == ASSUME NEW b PROVE Tallied(b, Even) = Box!Count(b)
<1> DEFINE W == FirstMult[Anon]
           zero == [c \in Clients |-> 0]
           U(o, kinds) == {c \in Clients : b[c][o] \in kinds}
<1>0. W \in Int
  BY SessionsAssumption DEF AllUsers
<1>1. ASSUME NEW o \in Ops, NEW kinds
      PROVE  Weighed(b, Even, o, kinds) = W * Cardinality(U(o, kinds))
  <2> DEFINE T == U(o, kinds)
             w == zero
             w2 == Even
  <2>1. /\ T \in SUBSET Clients /\ w \in [Clients -> Int]
        /\ \A c \in T : b[c][o] \in kinds /\ w2[c] = w[c] + W
        /\ \A c \in Clients \ T : b[c][o] \in kinds => w2[c] = w[c]
    BY <1>0 DEF Even
  <2>2. Weighed(b, w, o, kinds) = 0
    <3> DEFINE f == [c \in Clients |-> IF b[c][o] \in kinds THEN w[c] ELSE 0]
    <3>1. \A c \in Clients : f[c] = 0
      OBVIOUS
    <3>2. Weighed(b, w, o, kinds) = SumFunctionOnSet(f, Clients)
      BY WeighedIsSum
    <3> HIDE DEF f
    <3> QED BY <3>1, <3>2, SumZero, SessionsAssumption
  <2>3. W * Cardinality(T) \in Int
    <3>1. Cardinality(T) \in Nat
      BY <2>1, SessionsAssumption, FS_Subset, FS_CardinalityType
    <3> HIDE DEF W, T
    <3> QED BY <1>0, <3>1
  <2> HIDE DEF T, w, w2, W
  <2>4. Weighed(b, w2, o, kinds) = Weighed(b, w, o, kinds) + W * Cardinality(T)
    BY <1>0, <2>1, WeighedShift
  <2>5. Weighed(b, w2, o, kinds) = W * Cardinality(T)
    BY <2>2, <2>3, <2>4
  <2> QED BY <2>5 DEF w2, T
<1>2. ASSUME NEW o \in Ops, NEW kinds PROVE Box!Votes(b, o, kinds) = W * Cardinality(U(o, kinds))
  <2>1. Box!Cardinality(U(o, kinds)) = Cardinality(U(o, kinds))
    BY DEF Box!Cardinality, Cardinality
  <2> QED BY <2>1 DEF Box!Votes
<1>3. Box!Count(b) = [o \in Ops |-> [voters |-> Box!Votes(b, o, {"Support", "Against"}),
                                     supporters |-> Box!Votes(b, o, {"Support"})]]
  BY DEF Box!Count
<1> HIDE DEF W, U
<1> QED
  BY <1>1, <1>2, <1>3 DEF Tallied

(* With equal weights VotingManager implements the ballot box: its tallies *)
(* are at every moment, in the middle of a revote or of a cleanup too, the *)
(* count of a box with at most one ballot per client and operation, and    *)
(* every step puts in or takes out one ballot or leaves the box alone.     *)
THEOREM ServerImplementsBallotBox == ASSUME EqualWeights PROVE Spec => CountsEachBallotOnce
<1>1. Init => Box!Init
  <2> SUFFICES ASSUME Init PROVE Box!Init
    OBVIOUS
  <2>1. CountedBallots = [c \in Clients |-> [o \in Ops |-> NoVote]]
    BY InitTally DEF NoVotes
  <2>2. tally = Box!Count(CountedBallots)
    BY InitTally, TalliedEven
  <2> QED BY <2>1, <2>2 DEF Box!Init
<1>2. SessionInv /\ ManagerInv /\ EvenInv /\ [Next]_vars => [Box!Next]_(Box!vars)
  <2> SUFFICES ASSUME SessionInv, ManagerInv, EvenInv, [Next]_vars PROVE [Box!Next]_(Box!vars)
    OBVIOUS
  <2>1. ~ApplyMultiplierChange
    BY NoSetStarts DEF EvenInv
  <2>2. CASE BallotsKept
    BY <2>2 DEF BallotsKept, Box!vars
  <2>3. ASSUME NEW c \in Clients, BallotMoved(c) PROVE Box!Next
    <3>1. PICK o \in Ops, v \in VoteTypes \cup {NoVote} :
            CountedBallots' = [CountedBallots EXCEPT ![c][o] = v]
      BY <2>3 DEF BallotMoved
    <3>2. tally' = Tallied(CountedBallots', Even)
      BY NextEven DEF EvenInv
    <3>3. tally' = Box!Count(CountedBallots')
      BY <3>2, TalliedEven
    <3> QED BY <3>1, <3>3 DEF Box!Next, Box!Put
  <2> QED BY <2>1, <2>2, <2>3, OneBallotAtATime
<1> QED
  BY <1>1, <1>2, EvenInvariance, PTL DEF Spec, CountsEachBallotOnce, Box!Spec
=============================================================================
