------------------------------ MODULE Sessions ------------------------------
(***************************************************************************)
(* Who is connected as whom: User and ClientInfo (core/Server), the        *)
(* connect, disconnect, login, delete and exchange handlers of             *)
(* VotingServer, and the console commands of UserDatabase that drive them. *)
(* The threads are, per client, the channel's receive loop and the login   *)
(* handler it starts; the console operator; and, per deleted user, the     *)
(* async handler of the deletion.  A lock that is held across steps is a   *)
(* state function of the threads' positions (UserLocked, InfoWritten,      *)
(* InfoRead, ListLocked); a lock taken and released inside one step is     *)
(* that step's guard.                                                      *)
(*                                                                         *)
(* The module is open towards VotingManager, which listens to the events   *)
(* of these handlers: where a handler raises one, a step of the thread is  *)
(* left for the listener, and the module VotingManager says what it does.  *)
(***************************************************************************)
EXTENDS Integers, FiniteSets

CONSTANTS
  Clients,        \* connections: a ClientInfo lives from accept to disconnect
  Users,          \* registered accounts
  Anon,           \* the separate anonymous user (UnauthorizedUser)
  Multipliers,    \* vote multipliers the operator may set
  FirstMult,      \* the multiplier of each user at start
  Limit,          \* sessionsLimit of each registered user
  NoLimit,        \* the null limit
  Commands,       \* the console commands the operator uses
  MaxCommands,    \* bound on the commands of one behaviour
  LateAnswers     \* may a login answer be consumed later than the frame that carried it?

AllUsers == Users \cup {Anon}

ASSUME SessionsAssumption ==
  /\ IsFiniteSet(Clients)
  /\ Anon \notin Users
  /\ Users \cap {"nobody", "login", "console"} = {}
  /\ Multipliers \subseteq Int
  /\ FirstMult \in [AllUsers -> Int]
  /\ Limit \in [Users -> Int \cup {NoLimit}]
  /\ NoLimit \notin Int
  /\ Commands \subseteq {"set", "delete", "unauthorize"}
  /\ MaxCommands \in Nat
  /\ LateAnswers \in BOOLEAN

VARIABLES
  mult,        \* User.voteMultiplier
  registered,  \* the names the user container still knows
  userOf,      \* ClientInfo.user
  connected,   \* User.ConnectedClients
  mover,       \* who is between TryRemove and TryAdd of a client: a login, the console,
               \* the deletion of a user
  loop,        \* the receive loop of each client, with the user whose list it locks
  auth,        \* the login handler of each client, with the user it asks for
  operator,    \* the console thread
  deletion,    \* HandleUserDeleted of each user
  commands,    \* console commands started
  crashed      \* an exception left an async void handler or Main

sessionVars == <<mult, registered, userOf, connected, mover, loop, auth, operator,
                 deletion, commands, crashed>>

LoopPCs == {"offline", "serving", "close_wait", "closing", "closed"}
AuthPCs == {"none", "verify", "add", "set", "event", "done"}
OperatorPCs == {"idle", "set_snap", "set_wait", "un_next", "un_event", "deleting"}
DeletionPCs == {"none", "enum", "move", "event", "again", "done"}

IdleOperator == [pc |-> "idle", user |-> Anon, orig |-> 0, todo |-> {}, fault |-> FALSE]

NoDeletion == [pc |-> "none", todo |-> {}, seen |-> {}, item |-> {}, pool |-> FALSE]

SessionInit ==
  /\ mult = FirstMult
  /\ registered = Users
  /\ userOf = [c \in Clients |-> Anon]
  /\ connected = [u \in AllUsers |-> {}]
  /\ mover = [c \in Clients |-> "nobody"]
  /\ loop = [c \in Clients |-> [pc |-> "offline", user |-> Anon]]
  /\ auth = [c \in Clients |-> [pc |-> "none", user |-> Anon]]
  /\ operator = IdleOperator
  /\ deletion = [u \in Users |-> NoDeletion]
  /\ commands = 0
  /\ crashed = FALSE

-----------------------------------------------------------------------------
(* The locks, as functions of where the threads are.                       *)

\* ClientInfo.userLock is write-held: inside TryAddClient, or while the
\* console or a deletion moves the client.
UserLocked(c) == auth[c].pc \in {"add", "set"} \/ mover[c] # "nobody"

\* User.infoLock is write-held: User.Set raises its events inside it.
InfoWritten(u) == operator.user = u /\ operator.pc \in {"set_snap", "set_wait"}

\* User.infoLock is read-held between the limit test and the move.
InfoRead(u) == \E c \in Clients : auth[c].pc = "set" /\ auth[c].user = u

\* User.ConnectedClientsLock is write-held: a disconnect or an unauthorize.
ListLocked(u) ==
  \/ \E c \in Clients : loop[c].pc = "closing" /\ loop[c].user = u
  \/ operator.user = u /\ operator.pc \in {"un_next", "un_event"}

(***************************************************************************)
(* A client changes lists in two steps under its userLock (the setter of   *)
(* ClientInfo.User and ExchangeUser): TryRemove, then TryAdd and the new   *)
(* user.  The lists are read without userLock, so the moment in between,   *)
(* with the client on no list, is seen by the session limit, by the copy   *)
(* of a multiplier change and by a deletion.  TryAdd and the assignment    *)
(* stay one step: user is read under userLock only.                        *)
(***************************************************************************)

Moves(who) == \E c \in Clients : mover[c] = who

\* Mutated forms: the old list keeps the client; the client gets to no list;
\* it is left with no user.
MoveOutKeepsEntry(c, who) ==
  /\ mover' = [mover EXCEPT ![c] = who]
  /\ UNCHANGED <<userOf, connected>>

MoveInDropsEntry(c, u) ==
  /\ userOf' = [userOf EXCEPT ![c] = u]
  /\ mover' = [mover EXCEPT ![c] = "nobody"]
  /\ UNCHANGED connected

MoveInClearsUser(c, u) ==
  /\ connected' = [connected EXCEPT ![u] = @ \cup {c}]
  /\ userOf' = [userOf EXCEPT ![c] = NoLimit]
  /\ mover' = [mover EXCEPT ![c] = "nobody"]

MoveOut(c, who) ==
  /\ connected' = [connected EXCEPT ![userOf[c]] = @ \ {c}]
  /\ mover' = [mover EXCEPT ![c] = who]
  /\ UNCHANGED userOf

MoveIn(c, u) ==
  /\ connected' = [connected EXCEPT ![u] = @ \cup {c}]
  /\ userOf' = [userOf EXCEPT ![c] = u]
  /\ mover' = [mover EXCEPT ![c] = "nobody"]

-----------------------------------------------------------------------------
(* The receive loop of a client.                                           *)

\* OnChannelClientConnected: a fresh ClientInfo is listed under Anonymous.
Connect(c) ==
  /\ loop[c].pc = "offline"
  /\ ~ListLocked(Anon)
  /\ connected' = [connected EXCEPT ![Anon] = @ \cup {c}]
  /\ loop' = [loop EXCEPT ![c].pc = "serving"]
  /\ UNCHANGED <<mult, registered, userOf, mover, auth, operator, deletion, commands, crashed>>

\* The socket ends.  The handler reads e.Client.User for the lock it takes,
\* waits for that lock, and reads e.Client.User again for the list.  When
\* the login handler was already waiting, TrySetResult runs it on the loop's
\* own thread, and the loop cannot end before TryAddClient is through.
CloseRead(c) ==
  /\ loop[c].pc = "serving"
  /\ ~UserLocked(c)
  /\ LateAnswers \/ auth[c].pc # "verify"
  /\ loop' = [loop EXCEPT ![c] = [pc |-> "close_wait", user |-> userOf[c]]]
  /\ UNCHANGED <<mult, registered, userOf, mover, connected, auth, operator, deletion, commands, crashed>>

CloseLock(c) ==
  /\ loop[c].pc = "close_wait"
  /\ ~ListLocked(loop[c].user)
  /\ loop' = [loop EXCEPT ![c].pc = "closing"]
  /\ UNCHANGED <<mult, registered, userOf, mover, connected, auth, operator, deletion, commands, crashed>>

\* Mutated forms of CloseRemove: the user read for the lock is used for the
\* list as well; the lock is not released.
CloseRemoveStale(c) ==
  /\ loop[c].pc = "closing"
  /\ ~UserLocked(c)
  /\ connected' = [connected EXCEPT ![loop[c].user] = @ \ {c}]
  /\ loop' = [loop EXCEPT ![c] = [pc |-> "closed", user |-> Anon]]
  /\ UNCHANGED <<mult, registered, userOf, mover, auth, operator, deletion, commands, crashed>>

CloseRemoveKeepsLock(c) ==
  /\ loop[c].pc = "closing"
  /\ ~UserLocked(c)
  /\ connected' = [connected EXCEPT ![userOf[c]] = @ \ {c}]
  /\ UNCHANGED <<mult, registered, userOf, mover, loop, auth, operator, deletion, commands, crashed>>

CloseRemove(c) ==
  /\ loop[c].pc = "closing"
  /\ ~UserLocked(c)
  /\ connected' = [connected EXCEPT ![userOf[c]] = @ \ {c}]
  /\ loop' = [loop EXCEPT ![c] = [pc |-> "closed", user |-> Anon]]
  /\ UNCHANGED <<mult, registered, userOf, mover, auth, operator, deletion, commands, crashed>>

-----------------------------------------------------------------------------
(* Login.  UserAuthenticationResult is completed once per connection, so   *)
(* one answer at most can carry a valid signature.                         *)

\* AUTH_RES names a user the container knows; a wrong signature still leaves
\* `user` set, so the handler goes on to its events.
Authenticate(c, u) ==
  /\ loop[c].pc = "serving"
  /\ auth[c].pc = "none"
  /\ u \in registered
  /\ \E signed \in BOOLEAN :
       auth' = [auth EXCEPT ![c] = [pc |-> IF signed THEN "verify" ELSE "event", user |-> u]]
  /\ UNCHANGED <<mult, registered, userOf, mover, connected, loop, operator, deletion, commands, crashed>>

\* TryAddClient takes userLock.  Its early return cannot happen: the client
\* has never been this user.
AddLock(c) ==
  /\ auth[c].pc = "verify"
  /\ ~UserLocked(c)
  /\ auth' = [auth EXCEPT ![c].pc = "add"]
  /\ UNCHANGED <<mult, registered, userOf, mover, connected, loop, operator, deletion, commands, crashed>>

OverLimit(u) ==
  /\ Limit[u] # NoLimit
  /\ Cardinality(connected[u]) + 1 > Limit[u]

\* Mutated form of AddCheck: a login over the limit leaves userLock held.
AddCheckKeepsLock(c) ==
  /\ auth[c].pc = "add"
  /\ ~InfoWritten(auth[c].user)
  /\ ~OverLimit(auth[c].user)
  /\ auth' = [auth EXCEPT ![c].pc = "set"]
  /\ UNCHANGED <<mult, registered, userOf, mover, connected, loop, operator, deletion, commands, crashed>>

\* The limit is tested under a READ lock of infoLock: logins of other
\* clients may be between their test and their move.
AddCheck(c) ==
  /\ auth[c].pc = "add"
  /\ ~InfoWritten(auth[c].user)
  /\ auth' = [auth EXCEPT ![c].pc = IF OverLimit(auth[c].user) THEN "event" ELSE "set"]
  /\ UNCHANGED <<mult, registered, userOf, mover, connected, loop, operator, deletion, commands, crashed>>

\* client.User = this, in its two steps.
AddRemove(c) ==
  /\ auth[c].pc = "set"
  /\ mover[c] = "nobody"
  /\ MoveOut(c, "login")
  /\ UNCHANGED <<mult, registered, loop, auth, operator, deletion, commands, crashed>>

AddSet(c) ==
  /\ auth[c].pc = "set"
  /\ mover[c] = "login"
  /\ MoveIn(c, auth[c].user)
  /\ auth' = [auth EXCEPT ![c].pc = "event"]
  /\ UNCHANGED <<mult, registered, loop, operator, deletion, commands, crashed>>

\* OnClientAuthorized and OnClientUserChange are raised; the handler ends.
AuthEvent(c) ==
  /\ auth[c].pc = "event"
  /\ auth' = [auth EXCEPT ![c] = [pc |-> "done", user |-> Anon]]
  /\ UNCHANGED <<mult, registered, userOf, mover, connected, loop, operator, deletion, commands, crashed>>

-----------------------------------------------------------------------------
(* The console operator.                                                   *)

CanCommand(name) ==
  /\ operator.pc = "idle"
  /\ name \in Commands
  /\ commands < MaxCommands
  /\ commands' = commands + 1

\* User.Set or User.VoteMultiplier with a new value: the events are raised
\* while infoLock stays write-held.
SetMultiplier(u, m) ==
  /\ CanCommand("set")
  /\ u \in registered \cup {Anon}
  /\ ~InfoRead(u)
  /\ m # mult[u]
  /\ mult' = [mult EXCEPT ![u] = m]
  /\ operator' = [IdleOperator EXCEPT !.pc = "set_snap", !.user = u, !.orig = mult[u]]
  /\ UNCHANGED <<registered, userOf, mover, connected, loop, auth, deletion, crashed>>

\* HandleUserVoteMultiplierChange copies the list under ConnectedClientsLock.
SetSnapshot ==
  /\ operator.pc = "set_snap"
  /\ ~ListLocked(operator.user)
  /\ operator' = [operator EXCEPT !.pc = "set_wait", !.todo = connected[operator.user]]
  /\ UNCHANGED <<mult, registered, userOf, mover, connected, loop, auth, deletion, commands, crashed>>

SetReturns ==
  /\ operator.pc = "set_wait"
  /\ operator' = IdleOperator
  /\ UNCHANGED <<mult, registered, userOf, mover, connected, loop, auth, deletion, commands, crashed>>

\* UnauthorizeUserConnections holds the user's ConnectedClientsLock over
\* ExchangeUser of every client that is listed.
Unauthorize(u) ==
  /\ CanCommand("unauthorize")
  /\ u \in registered
  /\ ~ListLocked(u)
  /\ operator' = [IdleOperator EXCEPT !.pc = "un_next", !.user = u, !.todo = connected[u]]
  /\ UNCHANGED <<mult, registered, userOf, mover, connected, loop, auth, deletion, crashed>>

UnauthorizeRemove(c) ==
  /\ operator.pc = "un_next"
  /\ c \in operator.todo
  /\ ~Moves("console")
  /\ userOf[c] # Anon
  /\ ~UserLocked(c)
  /\ MoveOut(c, "console")
  /\ UNCHANGED <<mult, registered, loop, auth, operator, deletion, commands, crashed>>

\* ClientInfo.ExchangeUser returns early when nothing changes.
ExchangeUser(c, u) ==
  \/ mover[c] = "console" /\ MoveIn(c, u)
  \/ /\ ~Moves("console")
     /\ ~UserLocked(c)
     /\ userOf[c] = u
     /\ UNCHANGED <<userOf, mover, connected>>

UnauthorizeMove(c) ==
  /\ operator.pc = "un_next"
  /\ c \in operator.todo
  /\ ExchangeUser(c, Anon)
  /\ operator' = [operator EXCEPT !.pc = "un_event", !.todo = @ \ {c}]
  /\ UNCHANGED <<mult, registered, loop, auth, deletion, commands, crashed>>

\* OnClientUserChange is raised; what a listener throws is kept in the Task.
UnauthorizeEvent(throws) ==
  /\ operator.pc = "un_event"
  /\ operator' = [operator EXCEPT !.pc = "un_next", !.fault = @ \/ throws]
  /\ UNCHANGED <<mult, registered, userOf, mover, connected, loop, auth, deletion, commands, crashed>>

\* Task.WaitAll rethrows a kept exception, which nothing catches up to Main.
UnauthorizeEnd ==
  /\ operator.pc = "un_next"
  /\ operator.todo = {}
  /\ crashed' = operator.fault
  /\ operator' = IdleOperator
  /\ UNCHANGED <<mult, registered, userOf, mover, connected, loop, auth, deletion, commands>>

-----------------------------------------------------------------------------
(* Deleting a user.  HandleUserDeleted builds a lazy query under the lock  *)
(* and enumerates it after the lock is released: once to move the clients  *)
(* and tell them, once more to raise OnClientUserChange.  Awaiting a send  *)
(* may put the rest on a pool thread and let the console go on.            *)

DeleteUser(u) ==
  /\ CanCommand("delete")
  /\ u \in registered
  /\ ~ListLocked(u)
  /\ registered' = registered \ {u}
  /\ operator' = [IdleOperator EXCEPT !.pc = "deleting", !.user = u]
  /\ deletion' = [deletion EXCEPT ![u] = [NoDeletion EXCEPT !.pc = "enum", !.todo = connected[u]]]
  /\ UNCHANGED <<mult, userOf, mover, connected, loop, auth, crashed>>

\* The enumerator yields a listed client; the move comes a step later.
DeleteYield(u, c) ==
  /\ deletion[u].pc = "enum"
  /\ c \in connected[u] \ deletion[u].seen
  /\ deletion' = [deletion EXCEPT ![u].pc = "move", ![u].seen = @ \cup {c}, ![u].item = {c}]
  /\ UNCHANGED <<mult, registered, userOf, mover, connected, loop, auth, operator, commands, crashed>>

\* client.Key.User = UnauthorizedUser, in its two steps.
DeleteRemove(u, c) ==
  /\ deletion[u].pc \in {"move", "again"}
  /\ c \in deletion[u].item
  /\ ~Moves(u) /\ ~UserLocked(c)
  /\ MoveOut(c, u)
  /\ UNCHANGED <<mult, registered, loop, auth, operator, deletion, commands, crashed>>

DeleteMove(u, c) ==
  /\ deletion[u].pc = "move"
  /\ c \in deletion[u].item
  /\ mover[c] = u
  /\ MoveIn(c, Anon)
  /\ \E suspends \in BOOLEAN :
       /\ deletion' = [deletion EXCEPT ![u].pc = "enum", ![u].item = {},
                                       ![u].pool = IF suspends THEN TRUE ELSE @]
       /\ operator' = IF suspends /\ ~deletion[u].pool THEN IdleOperator ELSE operator
  /\ UNCHANGED <<mult, registered, loop, auth, commands, crashed>>

\* The enumeration has passed every client listed when it began; a client
\* listed since may be missed.  The enumerator, with what it has seen, is gone.
DeleteEnumerated(u) ==
  /\ deletion[u].pc = "enum"
  /\ deletion[u].todo \cap connected[u] \subseteq deletion[u].seen
  /\ deletion' = [deletion EXCEPT ![u].pc = "event", ![u].todo = {}, ![u].seen = {}]
  /\ UNCHANGED <<mult, registered, userOf, mover, connected, loop, auth, operator, commands, crashed>>

\* OnUserDeleted is raised; what a listener throws ends the process, because
\* the handler is async void.
DeleteEvent(u, throws) ==
  /\ deletion[u].pc = "event"
  /\ deletion' = [deletion EXCEPT ![u].pc = "again", ![u].todo = connected[u]]
  /\ crashed' = throws
  /\ UNCHANGED <<mult, registered, userOf, mover, connected, loop, auth, operator, commands>>

\* The second enumeration runs the query anew: it sees the clients that are
\* listed now, moves each and raises OnClientUserChange for it.
AgainYield(u, c) ==
  /\ deletion[u].pc = "again"
  /\ deletion[u].item = {}
  /\ c \in connected[u]
  /\ deletion' = [deletion EXCEPT ![u].item = {c}]
  /\ UNCHANGED <<mult, registered, userOf, mover, connected, loop, auth, operator, commands, crashed>>

DeleteAgain(u, c, throws) ==
  /\ deletion[u].pc = "again"
  /\ c \in deletion[u].item
  /\ mover[c] = u
  /\ MoveIn(c, Anon)
  /\ deletion' = [deletion EXCEPT ![u].item = {}]
  /\ crashed' = throws
  /\ UNCHANGED <<mult, registered, loop, auth, operator, commands>>

DeleteEnd(u) ==
  /\ deletion[u].pc = "again"
  /\ deletion[u].item = {}
  /\ deletion[u].todo \cap connected[u] = {}
  /\ deletion' = [deletion EXCEPT ![u] = [NoDeletion EXCEPT !.pc = "done"]]
  /\ operator' = IF deletion[u].pool THEN operator ELSE IdleOperator
  /\ UNCHANGED <<mult, registered, userOf, mover, connected, loop, auth, commands, crashed>>

-----------------------------------------------------------------------------
(* What the threads do once started, and what starts them.                 *)

CloseStep(c) == CloseLock(c) \/ CloseRemove(c)

AuthStep(c) == AddLock(c) \/ AddCheck(c) \/ AddRemove(c) \/ AddSet(c) \/ AuthEvent(c)

UnauthorizeStep ==
  \/ \E c \in Clients : UnauthorizeRemove(c) \/ UnauthorizeMove(c)
  \/ \E throws \in BOOLEAN : UnauthorizeEvent(throws)
  \/ UnauthorizeEnd

SetStep == SetSnapshot \/ SetReturns

DeleteStep(u) ==
  \/ \E c \in Clients : DeleteYield(u, c) \/ DeleteRemove(u, c) \/ DeleteMove(u, c) \/ AgainYield(u, c)
  \/ DeleteEnumerated(u)
  \/ \E throws \in BOOLEAN : DeleteEvent(u, throws)
  \/ \E c \in Clients, throws \in BOOLEAN : DeleteAgain(u, c, throws)
  \/ DeleteEnd(u)

Request ==
  \/ \E c \in Clients : Connect(c) \/ CloseRead(c)
  \/ \E c \in Clients, u \in Users : Authenticate(c, u)
  \/ \E u \in AllUsers, m \in Multipliers : SetMultiplier(u, m)
  \/ \E u \in Users : Unauthorize(u) \/ DeleteUser(u)

SessionNext ==
  /\ ~crashed
  /\ \/ Request
     \/ \E c \in Clients : CloseStep(c) \/ AuthStep(c)
     \/ SetStep
     \/ UnauthorizeStep
     \/ \E u \in Users : DeleteStep(u)

SessionSpec == SessionInit /\ [][SessionNext]_sessionVars

(***************************************************************************)
(* A started thread goes on when it can: the OS and the pool schedule      *)
(* every runnable thread.                                                  *)
(***************************************************************************)
FairSessionSpec ==
  /\ SessionSpec
  /\ \A c \in Clients : WF_sessionVars(~crashed /\ CloseStep(c)) /\ WF_sessionVars(~crashed /\ AuthStep(c))
  /\ WF_sessionVars(~crashed /\ (SetStep \/ UnauthorizeStep))
  /\ \A u \in Users : WF_sessionVars(~crashed /\ DeleteStep(u))

-----------------------------------------------------------------------------
SessionTypeOK ==
  /\ mult \in [AllUsers -> Int]
  /\ registered \subseteq Users
  /\ userOf \in [Clients -> AllUsers]
  /\ connected \in [AllUsers -> SUBSET Clients]
  /\ mover \in [Clients -> {"nobody", "login", "console"} \cup Users]
  /\ loop \in [Clients -> [pc : LoopPCs, user : AllUsers]]
  /\ auth \in [Clients -> [pc : AuthPCs, user : AllUsers]]
  /\ operator \in [pc : OperatorPCs, user : AllUsers, orig : Int, todo : SUBSET Clients,
                   fault : BOOLEAN]
  /\ deletion \in [Users -> [pc : DeletionPCs, todo : SUBSET Clients, seen : SUBSET Clients,
                             item : SUBSET Clients, pool : BOOLEAN]]
  /\ commands \in Nat
  /\ crashed \in BOOLEAN

(* A client is listed under no user but its own: the per-user lists, from  *)
(* which weights and session counts are taken, never count a connection    *)
(* twice, whoever moves it (ClientInfo.User, ExchangeUser, TryAddClient).  *)
ListedOnlyAsSelf ==
  \A c \in Clients, u \in AllUsers : c \in connected[u] => userOf[c] = u

\* The thread that has taken client c off its old list is about to put it on
\* the new one.
MovedBy(c) ==
  \/ mover[c] = "login" /\ auth[c].pc = "set"
  \/ mover[c] = "console" /\ operator.pc = "un_next" /\ c \in operator.todo
  \/ \E u \in Users : /\ mover[c] = u
                       /\ deletion[u].pc \in {"move", "again"}
                       /\ c \in deletion[u].item

(* A served client is on its user's list, or a thread is between its       *)
(* TryRemove and its TryAdd and about to put it on one: no interleaving of *)
(* logins, unauthorize, deletions and disconnects leaves a live connection *)
(* on no list.  In between, a multiplier change, an unauthorize or a       *)
(* deletion that reads the list misses the client.                         *)
ServedIsListed ==
  \A c \in Clients : loop[c].pc \in {"serving", "close_wait", "closing"}
                    => c \in connected[userOf[c]] \/ MovedBy(c)

(* A connection that is gone is on no list (what the console prints as     *)
(* "active connections", and what the limit counts), once its login        *)
(* handler, if any, is through.                                            *)
NoGhostSession ==
  \A c \in Clients :
    loop[c].pc = "closed" /\ auth[c].pc \in {"none", "event", "done"}
      => \A u \in AllUsers : c \notin connected[u]

(* The console comes back: no command waits for ever on the session locks. *)
ConsoleReturns == (operator.pc # "idle") ~> (operator.pc = "idle" \/ crashed)

(* A socket that ended is taken off the lists sooner or later.             *)
ClosedEventually ==
  \A c \in Clients : (loop[c].pc = "close_wait") ~> (loop[c].pc = "closed" \/ crashed)

-----------------------------------------------------------------------------
(* The inductive invariant.  The lists stay right because every step that  *)
(* moves a client names one that has connected: a client that has not is   *)
(* Anonymous, and no thread knows it yet.                                  *)
OfflineIsUnknown ==
  \A c \in Clients : loop[c].pc = "offline" =>
    /\ userOf[c] = Anon
    /\ auth[c].pc = "none"
    /\ mover[c] = "nobody"
    /\ c \notin operator.todo
    /\ \A u \in AllUsers : c \notin connected[u]
    /\ \A u \in Users : c \notin deletion[u].item

\* While a deletion has not been handed to the pool, the console is inside it.
DeleterIsConsole ==
  \A u \in Users : deletion[u].pc \notin {"none", "done"} /\ ~deletion[u].pool
                  => operator.pc = "deleting" /\ operator.user = u

\* A user that can still be deleted is not being deleted.
DeletedOnce == \A u \in registered : deletion[u].pc = "none"

\* A client that is being moved is on no list, and its mover is at that
\* place; the console and each deletion move one client at a time.
MovesInOrder ==
  /\ \A c \in Clients : mover[c] # "nobody" =>
       MovedBy(c) /\ \A u \in AllUsers : c \notin connected[u]
  /\ \A c, d \in Clients : mover[c] = mover[d] /\ mover[c] \notin {"nobody", "login"} => c = d

SessionInv ==
  /\ SessionTypeOK
  /\ ListedOnlyAsSelf
  /\ ServedIsListed
  /\ OfflineIsUnknown
  /\ DeleterIsConsole
  /\ DeletedOnce
  /\ MovesInOrder

(* Why there is no ghost when login answers are consumed in time and no    *)
(* user is deleted.  An account is left only through unauthorize, which    *)
(* holds the account's list over the whole loop; a closing connection      *)
(* holds the list it read, which is that of its account until unauthorize  *)
(* has made it Anonymous.  So a client that unauthorize has still to move  *)
(* is never one that has been taken off the lists.                         *)
Unauthorizing == operator.pc \in {"un_next", "un_event"}

NoDeletionRuns == \A u \in Users : deletion[u].pc = "none"

LeavesInOrder(c) ==
  /\ auth[c].pc \notin {"event", "done"} => userOf[c] = Anon
  /\ loop[c].pc \in {"close_wait", "closing", "closed"} => auth[c].pc \in {"none", "event", "done"}
  /\ loop[c].pc \in {"close_wait", "closing"} => userOf[c] \in {loop[c].user, Anon}
  /\ loop[c].pc = "closed" =>
       mover[c] = "nobody" /\ \A u \in AllUsers : c \notin connected[u]

UnauthorizeHasList ==
  Unauthorizing =>
    /\ operator.user \in Users
    /\ \A c \in operator.todo : c \in connected[operator.user] \/ mover[c] = "console"
    /\ \A c \in Clients : loop[c].pc = "closing" => loop[c].user # operator.user

GhostInv == NoDeletionRuns /\ (\A c \in Clients : LeavesInOrder(c)) /\ UnauthorizeHasList
=============================================================================
