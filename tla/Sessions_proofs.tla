--------------------------- MODULE Sessions_proofs ---------------------------
(***************************************************************************)
(* TLAPS proofs about Sessions, for every set of clients and users, every  *)
(* limit and every number of commands: the variables keep their types, no  *)
(* client is counted under a user that is not its own, and every client    *)
(* that is served is on the list of its user or is just being put on one.  *)
(***************************************************************************)
EXTENDS Sessions, TLAPS

\* What the lists have to satisfy, apart from the types.
Lists == ListedOnlyAsSelf /\ ServedIsListed /\ OfflineIsUnknown /\ MovesInOrder

\* The values of the console thread and of a deletion.
OperatorStates == [pc : OperatorPCs, user : AllUsers, orig : Int, todo : SUBSET Clients,
                   fault : BOOLEAN]
DeletionStates == [pc : DeletionPCs, todo : SUBSET Clients, seen : SUBSET Clients,
                   item : SUBSET Clients, pool : BOOLEAN]

(* The console thread between two commands, and a deletion not started.    *)
LEMMA IdleType == IdleOperator \in OperatorStates /\ NoDeletion \in DeletionStates
  BY DEF IdleOperator, OperatorStates, OperatorPCs, AllUsers, NoDeletion, DeletionStates, DeletionPCs

(* A command that starts replaces some fields of the idle console.         *)
LEMMA StartType ==
  ASSUME NEW r \in OperatorStates, NEW p \in OperatorPCs, NEW u \in AllUsers,
         NEW m \in Int, NEW S \in SUBSET Clients
  PROVE  /\ [r EXCEPT !.pc = p, !.user = u] \in OperatorStates
         /\ [r EXCEPT !.pc = p, !.user = u, !.orig = m] \in OperatorStates
         /\ [r EXCEPT !.pc = p, !.user = u, !.todo = S] \in OperatorStates
  BY DEF OperatorStates

(* Starting a command counts it.                                           *)
LEMMA CommandType == ASSUME SessionTypeOK, NEW name, CanCommand(name) PROVE commands' \in Nat
  BY DEF SessionTypeOK, CanCommand

(* A deletion that starts, and one that has moved a client.                *)
LEMMA DeletionType ==
  ASSUME NEW r \in DeletionStates, NEW p \in DeletionPCs, NEW S \in SUBSET Clients,
         NEW T \in SUBSET Clients, NEW b \in BOOLEAN
  PROVE  /\ [r EXCEPT !.pc = p, !.todo = S] \in DeletionStates
         /\ [r EXCEPT !.pc = p, !.item = S, !.pool = b] \in DeletionStates
         /\ [r EXCEPT !.pc = p, !.seen = T, !.item = S] \in DeletionStates
         /\ [r EXCEPT !.pc = p, !.todo = S, !.seen = T] \in DeletionStates
         /\ [r EXCEPT !.item = S] \in DeletionStates
  BY DEF DeletionStates

(* The initial state has empty lists and satisfies the invariant.          *)
LEMMA InitSessionInv == SessionInit => SessionInv
<1> SUFFICES ASSUME SessionInit PROVE SessionInv
  OBVIOUS
<1>1. SessionTypeOK
  <2>1. mult \in [AllUsers -> Int]
    BY SessionsAssumption DEF SessionInit
  <2>2. /\ loop \in [Clients -> [pc : LoopPCs, user : AllUsers]]
        /\ auth \in [Clients -> [pc : AuthPCs, user : AllUsers]]
    BY DEF SessionInit, LoopPCs, AuthPCs, AllUsers
  <2>3. operator \in OperatorStates /\ deletion \in [Users -> DeletionStates]
    BY IdleType DEF SessionInit
  <2> QED
    BY <2>1, <2>2, <2>3
    DEF SessionInit, SessionTypeOK, AllUsers, OperatorStates, DeletionStates
<1>2. ListedOnlyAsSelf /\ ServedIsListed
  BY DEF SessionInit, ListedOnlyAsSelf, ServedIsListed, AllUsers
<1>3. OfflineIsUnknown
  BY DEF SessionInit, OfflineIsUnknown, IdleOperator, NoDeletion
<1>4. DeleterIsConsole /\ DeletedOnce /\ MovesInOrder
  BY DEF SessionInit, DeleterIsConsole, DeletedOnce, MovesInOrder, NoDeletion
<1> QED
  BY <1>1, <1>2, <1>3, <1>4 DEF SessionInv

-----------------------------------------------------------------------------
(* The types.                                                              *)

\* Who may be moving a client.
Movers == {"nobody", "login", "console"} \cup Users

(* The two steps of the setter of ClientInfo.User keep the types of what   *)
(* they write.                                                             *)
LEMMA MoveOutType ==
  ASSUME SessionTypeOK, NEW c \in Clients, NEW who \in Movers, MoveOut(c, who)
  PROVE  /\ userOf' \in [Clients -> AllUsers]
         /\ connected' \in [AllUsers -> SUBSET Clients]
         /\ mover' \in [Clients -> {"nobody", "login", "console"} \cup Users]
  BY DEF SessionTypeOK, MoveOut, Movers

LEMMA MoveInType ==
  ASSUME SessionTypeOK, NEW c \in Clients, NEW u \in AllUsers, MoveIn(c, u)
  PROVE  /\ userOf' \in [Clients -> AllUsers]
         /\ connected' \in [AllUsers -> SUBSET Clients]
         /\ mover' \in [Clients -> {"nobody", "login", "console"} \cup Users]
  BY DEF SessionTypeOK, MoveIn

(* The receive loop and the login handler keep the types.                  *)
LEMMA ClientStepType ==
  ASSUME SessionTypeOK, NEW c \in Clients,
         \/ Connect(c) \/ CloseRead(c) \/ CloseStep(c) \/ AuthStep(c)
         \/ \E u \in Users : Authenticate(c, u)
  PROVE  SessionTypeOK'
<1> USE DEF SessionTypeOK, LoopPCs
<1>1. CASE Connect(c)
  <2>1. Anon \in AllUsers
    BY DEF AllUsers
  <2>2. connected' \in [AllUsers -> SUBSET Clients]
    BY <1>1, <2>1 DEF Connect
  <2>3. loop' \in [Clients -> [pc : LoopPCs, user : AllUsers]]
    BY <1>1 DEF Connect
  <2> QED BY <1>1, <2>2, <2>3 DEF Connect
<1>2. CASE CloseRead(c)
  BY <1>2 DEF CloseRead
<1>3. CASE CloseLock(c)
  BY <1>3 DEF CloseLock
<1>4. CASE CloseRemove(c)
  <2>1. userOf[c] \in AllUsers /\ Anon \in AllUsers
    BY DEF AllUsers
  <2> QED BY <1>4, <2>1 DEF CloseRemove
<1>5. ASSUME NEW u \in Users, Authenticate(c, u) PROVE SessionTypeOK'
  BY <1>5 DEF Authenticate, AuthPCs, AllUsers
<1>6. CASE AddLock(c)
  BY <1>6 DEF AddLock, AuthPCs
<1>7. CASE AddCheck(c)
  BY <1>7 DEF AddCheck, AuthPCs
<1>8. CASE AddSet(c)
  <2>1. auth[c].user \in AllUsers
    OBVIOUS
  <2>2. MoveIn(c, auth[c].user)
    BY <1>8 DEF AddSet
  <2>3. /\ userOf' \in [Clients -> AllUsers]
        /\ connected' \in [AllUsers -> SUBSET Clients]
        /\ mover' \in [Clients -> {"nobody", "login", "console"} \cup Users]
    BY <2>1, <2>2, MoveInType
  <2> QED BY <1>8, <2>3 DEF AddSet, AuthPCs
<1>10. CASE AddRemove(c)
  <2>1. MoveOut(c, "login") /\ "login" \in Movers
    BY <1>10 DEF AddRemove, Movers
  <2>2. /\ userOf' \in [Clients -> AllUsers]
        /\ connected' \in [AllUsers -> SUBSET Clients]
        /\ mover' \in [Clients -> {"nobody", "login", "console"} \cup Users]
    BY <2>1, MoveOutType
  <2> QED BY <1>10, <2>2 DEF AddRemove
<1>9. CASE AuthEvent(c)
  BY <1>9 DEF AuthEvent, AuthPCs, AllUsers
<1> QED
  BY <1>1, <1>2, <1>3, <1>4, <1>5, <1>6, <1>7, <1>8, <1>9, <1>10 DEF CloseStep, AuthStep

(* The console commands keep the types.                                    *)
LEMMA OperatorStepType ==
  ASSUME SessionTypeOK,
         \/ SetStep \/ UnauthorizeStep
         \/ \E u \in AllUsers, m \in Multipliers : SetMultiplier(u, m)
         \/ \E u \in Users : Unauthorize(u)
  PROVE  SessionTypeOK'
<1> USE DEF SessionTypeOK, OperatorPCs, IdleOperator
<1>0. Anon \in AllUsers /\ Users \subseteq AllUsers
  BY DEF AllUsers
<1>1. ASSUME NEW u \in AllUsers, NEW m \in Multipliers, SetMultiplier(u, m) PROVE SessionTypeOK'
  <2>1. mult' \in [AllUsers -> Int] /\ commands' \in Nat
    <3>1. mult' = [mult EXCEPT ![u] = m] /\ m \in Int
      BY <1>1, SessionsAssumption DEF SetMultiplier
    <3>2. commands' \in Nat
      BY <1>1, CommandType DEF SetMultiplier
    <3> QED BY <3>1, <3>2
  <2>2. operator' \in OperatorStates
    <3>1. mult[u] \in Int /\ "set_snap" \in OperatorPCs
      OBVIOUS
    <3>2. operator' = [IdleOperator EXCEPT !.pc = "set_snap", !.user = u, !.orig = mult[u]]
      BY <1>1 DEF SetMultiplier
    <3> HIDE DEF IdleOperator, OperatorPCs
    <3> QED BY <3>1, <3>2, IdleType, StartType
  <2> QED BY <1>1, <2>1, <2>2 DEF SetMultiplier, OperatorStates
<1>2. CASE SetSnapshot
  BY <1>2 DEF SetSnapshot
<1>3. CASE SetReturns
  BY <1>0, <1>3 DEF SetReturns
<1>4. ASSUME NEW u \in Users, Unauthorize(u) PROVE SessionTypeOK'
  <2>1. commands' \in Nat
    BY <1>4, CommandType DEF Unauthorize
  <2>2. operator' \in OperatorStates
    <3>1. connected[u] \in SUBSET Clients /\ "un_next" \in OperatorPCs
      BY <1>0
    <3>2. operator' = [IdleOperator EXCEPT !.pc = "un_next", !.user = u, !.todo = connected[u]]
      BY <1>4 DEF Unauthorize
    <3> HIDE DEF IdleOperator, OperatorPCs
    <3> QED BY <1>0, <3>1, <3>2, IdleType, StartType
  <2> QED BY <1>4, <2>1, <2>2 DEF Unauthorize, OperatorStates
<1>5. ASSUME NEW c \in Clients, UnauthorizeMove(c) PROVE SessionTypeOK'
  <2>1. /\ userOf' \in [Clients -> AllUsers]
        /\ connected' \in [AllUsers -> SUBSET Clients]
        /\ mover' \in [Clients -> {"nobody", "login", "console"} \cup Users]
    BY <1>0, <1>5, MoveInType DEF UnauthorizeMove, ExchangeUser
  <2> QED BY <1>5, <2>1 DEF UnauthorizeMove
<1>8. ASSUME NEW c \in Clients, UnauthorizeRemove(c) PROVE SessionTypeOK'
  <2>1. MoveOut(c, "console") /\ "console" \in Movers
    BY <1>8 DEF UnauthorizeRemove, Movers
  <2>2. /\ userOf' \in [Clients -> AllUsers]
        /\ connected' \in [AllUsers -> SUBSET Clients]
        /\ mover' \in [Clients -> {"nobody", "login", "console"} \cup Users]
    BY <2>1, MoveOutType
  <2> QED BY <1>8, <2>2 DEF UnauthorizeRemove
<1>6. ASSUME NEW throws \in BOOLEAN, UnauthorizeEvent(throws) PROVE SessionTypeOK'
  BY <1>6 DEF UnauthorizeEvent
<1>7. CASE UnauthorizeEnd
  BY <1>0, <1>7 DEF UnauthorizeEnd
<1> QED
  BY <1>1, <1>2, <1>3, <1>4, <1>5, <1>6, <1>7, <1>8 DEF SetStep, UnauthorizeStep

(* The deletion of a user keeps the types.                                 *)
LEMMA DeleteStepType ==
  ASSUME SessionTypeOK, NEW u \in Users, DeleteUser(u) \/ DeleteStep(u)
  PROVE  SessionTypeOK'
<1> USE DEF SessionTypeOK, DeletionPCs
<1>0. Anon \in AllUsers /\ u \in AllUsers
  BY DEF AllUsers
<1>a. deletion \in [Users -> DeletionStates] /\ deletion[u] \in DeletionStates
  BY DEF DeletionStates
<1>1. CASE DeleteUser(u)
  <2>1. commands' \in Nat /\ registered' \subseteq Users
    BY <1>1, CommandType DEF DeleteUser
  <2>2. operator' \in OperatorStates
    <3>1. operator' = [IdleOperator EXCEPT !.pc = "deleting", !.user = u]
      BY <1>1 DEF DeleteUser
    <3>2. "deleting" \in OperatorPCs /\ 0 \in Int /\ {} \in SUBSET Clients
      BY DEF OperatorPCs
    <3> QED BY <1>0, <3>1, <3>2, IdleType, StartType
  <2>3. deletion' \in [Users -> DeletionStates]
    <3>1. connected[u] \in SUBSET Clients
      BY <1>0
    <3>2. deletion' = [deletion EXCEPT ![u] = [NoDeletion EXCEPT !.pc = "enum", !.todo = connected[u]]]
      BY <1>1 DEF DeleteUser
    <3>3. [NoDeletion EXCEPT !.pc = "enum", !.todo = connected[u]] \in DeletionStates
      <4>1. "enum" \in DeletionPCs
        OBVIOUS
      <4> HIDE DEF DeletionPCs
      <4> QED BY <3>1, <4>1, IdleType, DeletionType
    <3> QED BY <3>2, <3>3 DEF DeletionStates
  <2> QED BY <1>1, <2>1, <2>2, <2>3 DEF DeleteUser, OperatorStates, DeletionStates
<1>2. ASSUME NEW c \in Clients, DeleteYield(u, c) PROVE SessionTypeOK'
  <2>1. deletion' = [deletion EXCEPT ![u] = [deletion[u] EXCEPT !.pc = "move",
                       !.seen = deletion[u].seen \cup {c}, !.item = {c}]]
    BY <1>2 DEF DeleteYield
  <2>2. /\ "move" \in DeletionPCs /\ {c} \in SUBSET Clients
        /\ deletion[u].seen \cup {c} \in SUBSET Clients
    OBVIOUS
  <2> HIDE DEF DeletionPCs
  <2>3. [deletion[u] EXCEPT !.pc = "move", !.seen = deletion[u].seen \cup {c}, !.item = {c}]
          \in DeletionStates
    BY <1>a, <2>2, DeletionType
  <2>4. deletion' \in [Users -> DeletionStates]
    BY <1>a, <2>1, <2>3
  <2> QED BY <1>2, <2>4 DEF DeleteYield, DeletionStates
<1>3. ASSUME NEW c \in Clients, DeleteMove(u, c) PROVE SessionTypeOK'
  <2>1. /\ userOf' \in [Clients -> AllUsers]
        /\ connected' \in [AllUsers -> SUBSET Clients]
        /\ mover' \in [Clients -> {"nobody", "login", "console"} \cup Users]
    BY <1>0, <1>3, MoveInType DEF DeleteMove
  <2>2. PICK suspends \in BOOLEAN :
          /\ deletion' = [deletion EXCEPT ![u].pc = "enum", ![u].item = {},
                                         ![u].pool = IF suspends THEN TRUE ELSE @]
          /\ operator' = IF suspends /\ ~deletion[u].pool THEN IdleOperator ELSE operator
    BY <1>3 DEF DeleteMove
  <2>3. operator' \in OperatorStates
    BY <2>2, IdleType DEF OperatorStates
  <2>4. deletion' \in [Users -> DeletionStates]
    <3>1. deletion[u] \in DeletionStates /\ "enum" \in DeletionPCs /\ {} \in SUBSET Clients
      BY DEF DeletionStates
    <3>2. (IF suspends THEN TRUE ELSE deletion[u].pool) \in BOOLEAN
      OBVIOUS
    <3> DEFINE b == IF suspends THEN TRUE ELSE deletion[u].pool
    <3>3. deletion' = [deletion EXCEPT ![u] = [deletion[u] EXCEPT !.pc = "enum", !.item = {}, !.pool = b]]
      BY <2>2
    <3> HIDE DEF DeletionPCs, b
    <3>4. [deletion[u] EXCEPT !.pc = "enum", !.item = {}, !.pool = b] \in DeletionStates
      BY <3>1, <3>2, DeletionType DEF b
    <3> QED BY <3>3, <3>4 DEF DeletionStates
  <2> QED BY <1>3, <2>1, <2>3, <2>4 DEF DeleteMove, OperatorStates, DeletionStates
<1>4. CASE DeleteEnumerated(u)
  <2>1. deletion' = [deletion EXCEPT ![u] =
                       [deletion[u] EXCEPT !.pc = "event", !.todo = {}, !.seen = {}]]
    BY <1>4 DEF DeleteEnumerated
  <2>2. "event" \in DeletionPCs /\ {} \in SUBSET Clients
    OBVIOUS
  <2> HIDE DEF DeletionPCs
  <2>3. deletion' \in [Users -> DeletionStates]
    BY <1>a, <2>1, <2>2, DeletionType
  <2> QED BY <1>4, <2>3 DEF DeleteEnumerated, DeletionStates
<1>5. ASSUME NEW throws \in BOOLEAN, DeleteEvent(u, throws) PROVE SessionTypeOK'
  <2>1. deletion' = [deletion EXCEPT ![u] = [deletion[u] EXCEPT !.pc = "again", !.todo = connected[u]]]
    BY <1>5 DEF DeleteEvent
  <2>2. "again" \in DeletionPCs /\ connected[u] \in SUBSET Clients
    BY <1>0
  <2> HIDE DEF DeletionPCs
  <2>3. deletion' \in [Users -> DeletionStates]
    BY <1>a, <2>1, <2>2, DeletionType
  <2> QED BY <1>5, <2>3 DEF DeleteEvent, DeletionStates
<1>6. ASSUME NEW c \in Clients, NEW throws \in BOOLEAN, DeleteAgain(u, c, throws)
      PROVE SessionTypeOK'
  <2>1. /\ userOf' \in [Clients -> AllUsers]
        /\ connected' \in [AllUsers -> SUBSET Clients]
        /\ mover' \in [Clients -> {"nobody", "login", "console"} \cup Users]
    BY <1>0, <1>6, MoveInType DEF DeleteAgain
  <2>2. deletion' = [deletion EXCEPT ![u] = [deletion[u] EXCEPT !.item = {}]]
    BY <1>6 DEF DeleteAgain
  <2>3. deletion' \in [Users -> DeletionStates]
    BY <1>a, <2>2, DeletionType
  <2> QED BY <1>6, <2>1, <2>3 DEF DeleteAgain, DeletionStates
<1>8. ASSUME NEW c \in Clients, DeleteRemove(u, c) PROVE SessionTypeOK'
  <2>1. MoveOut(c, u) /\ u \in Movers
    BY <1>8 DEF DeleteRemove, Movers
  <2>2. /\ userOf' \in [Clients -> AllUsers]
        /\ connected' \in [AllUsers -> SUBSET Clients]
        /\ mover' \in [Clients -> {"nobody", "login", "console"} \cup Users]
    BY <2>1, MoveOutType
  <2> QED BY <1>8, <2>2 DEF DeleteRemove
<1>9. ASSUME NEW c \in Clients, AgainYield(u, c) PROVE SessionTypeOK'
  <2>1. deletion' = [deletion EXCEPT ![u] = [deletion[u] EXCEPT !.item = {c}]]
    BY <1>9 DEF AgainYield
  <2>2. {c} \in SUBSET Clients
    OBVIOUS
  <2>3. [deletion[u] EXCEPT !.item = {c}] \in DeletionStates
    BY <1>a, <2>2 DEF DeletionStates
  <2>4. deletion' \in [Users -> DeletionStates]
    BY <1>a, <2>1, <2>3
  <2> QED BY <1>9, <2>4 DEF AgainYield, DeletionStates
<1>7. CASE DeleteEnd(u)
  BY <1>7, IdleType DEF DeleteEnd, NoDeletion, OperatorStates
<1> QED
  BY <1>1, <1>2, <1>3, <1>4, <1>5, <1>6, <1>7, <1>8, <1>9 DEF DeleteStep

-----------------------------------------------------------------------------
(* The lists.                                                              *)

(* TryRemove takes the client off every list and touches no other client.  *)
LEMMA MoveOutEffect ==
  ASSUME SessionInv, NEW c \in Clients, NEW who, MoveOut(c, who)
  PROVE  /\ userOf' = userOf
         /\ \A v \in AllUsers : c \notin connected'[v]
         /\ \A d \in Clients, v \in AllUsers : d # c => (d \in connected'[v] <=> d \in connected[v])
         /\ mover'[c] = who
         /\ \A d \in Clients : d # c => mover'[d] = mover[d]
<1> USE DEF SessionInv, SessionTypeOK
<1>1. connected' = [connected EXCEPT ![userOf[c]] = @ \ {c}] /\ userOf[c] \in AllUsers
  BY DEF MoveOut
<1>2. \A v \in AllUsers : c \notin connected'[v]
  BY <1>1 DEF ListedOnlyAsSelf
<1>3. \A d \in Clients, v \in AllUsers : d # c => (d \in connected'[v] <=> d \in connected[v])
  BY <1>1
<1> QED
  BY <1>2, <1>3 DEF MoveOut

(* TryAdd puts the client that is being moved on the list of its new user  *)
(* and on no other, and leaves every other client where it is.             *)
LEMMA MoveInEffect ==
  ASSUME SessionInv, NEW c \in Clients, NEW u \in AllUsers, MoveIn(c, u), mover[c] # "nobody"
  PROVE  /\ userOf'[c] = u
         /\ \A d \in Clients : d # c => userOf'[d] = userOf[d]
         /\ \A v \in AllUsers : c \in connected'[v] <=> v = u
         /\ \A d \in Clients, v \in AllUsers : d # c => (d \in connected'[v] <=> d \in connected[v])
         /\ mover'[c] = "nobody"
         /\ \A d \in Clients : d # c => mover'[d] = mover[d]
<1> USE DEF SessionInv, SessionTypeOK
<1>1. connected' = [connected EXCEPT ![u] = @ \cup {c}]
  BY DEF MoveIn
<1>2. \A v \in AllUsers : c \notin connected[v]
  BY DEF MovesInOrder
<1>3. \A v \in AllUsers : c \in connected'[v] <=> v = u
  BY <1>1, <1>2
<1>4. \A d \in Clients, v \in AllUsers : d # c => (d \in connected'[v] <=> d \in connected[v])
  BY <1>1
<1> QED
  BY <1>3, <1>4 DEF MoveIn

(* The first step keeps the lists right: the client is off them only while *)
(* its mover is about to put it on one.                                    *)
LEMMA MoveOutLists ==
  ASSUME SessionInv, NEW c \in Clients, NEW who \in Movers, MoveOut(c, who), MovedBy(c)',
         loop[c].pc # "offline", who = "login" \/ ~Moves(who),
         loop' = loop, auth' = auth, operator' = operator, deletion' = deletion
  PROVE  Lists'
<1>1. /\ userOf' = userOf
      /\ \A v \in AllUsers : c \notin connected'[v]
      /\ \A d \in Clients, v \in AllUsers : d # c => (d \in connected'[v] <=> d \in connected[v])
      /\ mover'[c] = who
      /\ \A d \in Clients : d # c => mover'[d] = mover[d]
  BY MoveOutEffect
<1>2. \A d \in Clients : d # c /\ MovedBy(d) => MovedBy(d)'
  BY <1>1 DEF MovedBy
<1>3. ListedOnlyAsSelf'
  BY <1>1 DEF SessionInv, ListedOnlyAsSelf
<1>4. ServedIsListed'
  <2>1. \A d \in Clients : userOf[d] \in AllUsers
    BY DEF SessionInv, SessionTypeOK
  <2> QED BY <1>1, <1>2, <2>1 DEF SessionInv, ServedIsListed
<1>5. OfflineIsUnknown'
  BY <1>1 DEF SessionInv, OfflineIsUnknown
<1>6. MovesInOrder'
  <2>1. \A d \in Clients : mover'[d] # "nobody" =>
          MovedBy(d)' /\ \A v \in AllUsers : d \notin connected'[v]
    BY <1>1, <1>2 DEF SessionInv, MovesInOrder
  <2>2. \A d, e \in Clients : mover'[d] = mover'[e] /\ mover'[d] \notin {"nobody", "login"} => d = e
    BY <1>1 DEF SessionInv, MovesInOrder, Moves
  <2> QED BY <2>1, <2>2 DEF MovesInOrder
<1> QED
  BY <1>3, <1>4, <1>5, <1>6 DEF Lists

(* The second step keeps the lists right, as long as no loop, login or     *)
(* snapshot gets ahead and the other movers stay where they are.           *)
LEMMA MoveInLists ==
  ASSUME SessionInv, NEW c \in Clients, NEW u \in AllUsers, MoveIn(c, u), mover[c] # "nobody",
         loop' = loop,
         \A d \in Clients : auth[d].pc = "none" => auth'[d].pc = "none",
         operator'.todo \subseteq operator.todo,
         \A v \in Users : deletion'[v].item \subseteq deletion[v].item,
         \A d \in Clients : d # c /\ MovedBy(d) => MovedBy(d)'
  PROVE  Lists'
<1>1. /\ userOf'[c] = u
      /\ \A d \in Clients : d # c => userOf'[d] = userOf[d]
      /\ \A v \in AllUsers : c \in connected'[v] <=> v = u
      /\ \A d \in Clients, v \in AllUsers : d # c => (d \in connected'[v] <=> d \in connected[v])
      /\ mover'[c] = "nobody"
      /\ \A d \in Clients : d # c => mover'[d] = mover[d]
  BY MoveInEffect
<1>0. loop[c].pc # "offline"
  BY DEF SessionInv, OfflineIsUnknown
<1>2. ListedOnlyAsSelf'
  BY <1>1 DEF SessionInv, ListedOnlyAsSelf
<1>3. ServedIsListed'
  <2>1. \A d \in Clients : userOf[d] \in AllUsers
    BY DEF SessionInv, SessionTypeOK
  <2> QED BY <1>1, <2>1 DEF SessionInv, ServedIsListed
<1>4. OfflineIsUnknown'
  BY <1>0, <1>1 DEF SessionInv, OfflineIsUnknown
<1>5. MovesInOrder'
  <2>1. \A d \in Clients : mover'[d] # "nobody" =>
          MovedBy(d)' /\ \A v \in AllUsers : d \notin connected'[v]
    BY <1>1 DEF SessionInv, MovesInOrder
  <2>2. \A d, e \in Clients : mover'[d] = mover'[e] /\ mover'[d] \notin {"nobody", "login"} => d = e
    BY <1>1 DEF SessionInv, MovesInOrder
  <2> QED BY <2>1, <2>2 DEF MovesInOrder
<1> QED
  BY <1>2, <1>3, <1>4, <1>5 DEF Lists

(* A step that changes no list and no client's user keeps the lists right  *)
(* if it serves nobody new, lets no thread know a client that has not      *)
(* connected, and leaves every mover where it is.                          *)
LEMMA QuietLists ==
  ASSUME SessionInv, userOf' = userOf, connected' = connected, mover' = mover,
         \A d \in Clients : loop'[d].pc = "offline" => loop[d].pc = "offline",
         \A d \in Clients : loop'[d].pc \in {"serving", "close_wait", "closing"}
                            => loop[d].pc \in {"serving", "close_wait", "closing"},
         \A d \in Clients : loop[d].pc = "offline" /\ auth[d].pc = "none" => auth'[d].pc = "none",
         \A d \in Clients : d \in operator'.todo =>
                             d \in operator.todo \/ \E v \in AllUsers : d \in connected[v],
         \A v \in Users, d \in Clients : d \in deletion'[v].item =>
                             d \in deletion[v].item \/ \E w \in AllUsers : d \in connected[w],
         \A d \in Clients : MovedBy(d) => MovedBy(d)'
  PROVE  Lists'
<1>1. ListedOnlyAsSelf'
  BY DEF SessionInv, ListedOnlyAsSelf
<1>2. ServedIsListed'
  BY DEF SessionInv, ServedIsListed
<1>3. OfflineIsUnknown'
  BY DEF SessionInv, OfflineIsUnknown
<1>4. MovesInOrder'
  BY DEF SessionInv, MovesInOrder
<1> QED
  BY <1>1, <1>2, <1>3, <1>4 DEF Lists

(* A mover stays where it is while its thread does.                        *)
LEMMA MoversStay ==
  ASSUME mover' = mover, auth' = auth, operator' = operator, deletion' = deletion
  PROVE  \A d \in Clients : MovedBy(d) => MovedBy(d)'
  BY DEF MovedBy

(* The receive loop keeps the lists right.                                 *)
LEMMA LoopLists ==
  ASSUME SessionInv, NEW c \in Clients, Connect(c) \/ CloseRead(c) \/ CloseStep(c)
  PROVE  Lists'
<1> USE DEF SessionInv, SessionTypeOK
<1>1. CASE Connect(c)
  <2>1. /\ loop[c].pc = "offline"
        /\ connected' = [connected EXCEPT ![Anon] = @ \cup {c}]
        /\ loop' = [loop EXCEPT ![c].pc = "serving"]
        /\ userOf' = userOf /\ auth' = auth /\ operator' = operator /\ deletion' = deletion
        /\ mover' = mover
    BY <1>1 DEF Connect
  <2>2. userOf[c] = Anon /\ Anon \in AllUsers
    BY <2>1 DEF OfflineIsUnknown, AllUsers
  <2>3. ListedOnlyAsSelf'
    BY <2>1, <2>2 DEF ListedOnlyAsSelf
  <2>4. loop'[c].pc = "serving" /\ \A d \in Clients : d # c => loop'[d] = loop[d]
    BY <2>1
  <2>7. \A d \in Clients : MovedBy(d) => MovedBy(d)'
    BY <2>1, MoversStay
  <2>5. ServedIsListed'
    BY <2>1, <2>2, <2>4, <2>7 DEF ServedIsListed
  <2>6. OfflineIsUnknown'
    BY <2>1, <2>4 DEF OfflineIsUnknown
  <2>8. MovesInOrder'
    BY <2>1, <2>2, <2>7 DEF MovesInOrder, OfflineIsUnknown
  <2> QED BY <2>3, <2>5, <2>6, <2>8 DEF Lists
<1>2. CASE CloseRead(c)
  <2>1. /\ loop[c].pc = "serving" /\ loop'[c].pc = "close_wait"
        /\ \A d \in Clients : d # c => loop'[d] = loop[d]
    BY <1>2 DEF CloseRead
  <2> QED BY <1>2, <2>1, MoversStay, QuietLists DEF CloseRead
<1>3. CASE CloseLock(c)
  <2>1. /\ loop[c].pc = "close_wait" /\ loop'[c].pc = "closing"
        /\ \A d \in Clients : d # c => loop'[d] = loop[d]
    BY <1>3 DEF CloseLock
  <2> QED BY <1>3, <2>1, MoversStay, QuietLists DEF CloseLock
<1>4. CASE CloseRemove(c)
  <2>1. /\ loop[c].pc = "closing" /\ loop'[c].pc = "closed"
        /\ \A d \in Clients : d # c => loop'[d] = loop[d]
    BY <1>4 DEF CloseRemove
  <2>2. /\ connected' = [connected EXCEPT ![userOf[c]] = @ \ {c}]
        /\ userOf' = userOf /\ auth' = auth /\ operator' = operator /\ deletion' = deletion
        /\ mover' = mover
    BY <1>4 DEF CloseRemove
  <2>3. \A d \in Clients, v \in AllUsers :
          /\ d \in connected'[v] => d \in connected[v]
          /\ d # c /\ d \in connected[v] => d \in connected'[v]
    BY <2>2
  <2>4. ListedOnlyAsSelf'
    BY <2>2, <2>3 DEF ListedOnlyAsSelf
  <2>7. \A d \in Clients : MovedBy(d) => MovedBy(d)'
    BY <2>2, MoversStay
  <2>5. ServedIsListed'
    BY <2>1, <2>2, <2>3, <2>7 DEF ServedIsListed
  <2>6. OfflineIsUnknown'
    BY <2>1, <2>2, <2>3 DEF OfflineIsUnknown
  <2>8. MovesInOrder'
    BY <2>2, <2>3, <2>7 DEF MovesInOrder
  <2> QED BY <2>4, <2>5, <2>6, <2>8 DEF Lists
<1> QED
  BY <1>1, <1>2, <1>3, <1>4 DEF CloseStep

(* The login handler keeps the lists right.                                *)
LEMMA LoginLists ==
  ASSUME SessionInv, NEW c \in Clients, AuthStep(c) \/ \E u \in Users : Authenticate(c, u)
  PROVE  Lists'
<1> USE DEF SessionInv, SessionTypeOK
<1>0. ASSUME mover' = mover, operator' = operator, deletion' = deletion,
             \A d \in Clients : auth[d].pc = "set" => auth'[d].pc = "set"
      PROVE  \A d \in Clients : MovedBy(d) => MovedBy(d)'
  BY <1>0 DEF MovedBy
<1>1. ASSUME NEW u \in Users, Authenticate(c, u) PROVE Lists'
  <2>1. /\ \A d \in Clients : loop[d].pc = "offline" => auth'[d] = auth[d]
        /\ \A d \in Clients : auth[d].pc = "set" => auth'[d].pc = "set"
    BY <1>1 DEF Authenticate
  <2> QED BY <1>0, <1>1, <2>1, QuietLists DEF Authenticate
<1>2. CASE AddLock(c)
  <2>1. /\ \A d \in Clients : auth[d].pc = "none" => auth'[d].pc = "none"
        /\ \A d \in Clients : auth[d].pc = "set" => auth'[d].pc = "set"
    BY <1>2 DEF AddLock
  <2> QED BY <1>0, <1>2, <2>1, QuietLists DEF AddLock
<1>3. CASE AddCheck(c)
  <2>1. /\ \A d \in Clients : auth[d].pc = "none" => auth'[d] = auth[d]
        /\ \A d \in Clients : auth[d].pc = "set" => auth'[d].pc = "set"
    BY <1>3 DEF AddCheck
  <2> QED BY <1>0, <1>3, <2>1, QuietLists DEF AddCheck
<1>4. CASE AddRemove(c)
  <2>1. auth[c].pc = "set" /\ MoveOut(c, "login") /\ "login" \in Movers
    BY <1>4 DEF AddRemove, Movers
  <2>2. loop[c].pc # "offline"
    BY <2>1 DEF OfflineIsUnknown
  <2>3. loop' = loop /\ auth' = auth /\ operator' = operator /\ deletion' = deletion
    BY <1>4 DEF AddRemove
  <2>4. MovedBy(c)'
    BY <2>1, <2>3 DEF MovedBy, MoveOut
  <2> QED BY <2>1, <2>2, <2>3, <2>4, MoveOutLists
<1>5. CASE AddSet(c)
  <2>1. /\ auth[c].pc = "set" /\ auth[c].user \in AllUsers /\ mover[c] = "login"
        /\ MoveIn(c, auth[c].user)
    BY <1>5 DEF AddSet
  <2>2. /\ loop' = loop /\ operator' = operator /\ deletion' = deletion
        /\ \A d \in Clients : d # c => auth'[d] = auth[d]
    BY <1>5 DEF AddSet
  <2>3. \A d \in Clients : auth[d].pc = "none" => auth'[d].pc = "none"
    BY <2>1, <2>2
  <2>4. \A d \in Clients : d # c /\ MovedBy(d) => MovedBy(d)'
    BY <2>1, <2>2 DEF MovedBy, MoveIn
  <2> QED BY <2>1, <2>2, <2>3, <2>4, MoveInLists
<1>6. CASE AuthEvent(c)
  <2>1. /\ \A d \in Clients : auth[d].pc = "none" => auth'[d] = auth[d]
        /\ \A d \in Clients : auth[d].pc = "set" => auth'[d].pc = "set"
    BY <1>6 DEF AuthEvent
  <2> QED BY <1>0, <1>6, <2>1, QuietLists DEF AuthEvent
<1> QED
  BY <1>1, <1>2, <1>3, <1>4, <1>5, <1>6 DEF AuthStep

(* A step of the console alone leaves the movers where they are if it is  *)
(* not inside the loop of unauthorize.                                     *)
LEMMA ConsoleMoversStay ==
  ASSUME mover' = mover, auth' = auth, deletion' = deletion,
         operator.pc # "un_next" \/ operator.todo = {}
  PROVE  \A d \in Clients : MovedBy(d) => MovedBy(d)'
  BY DEF MovedBy

(* The console commands keep the lists right.                              *)
LEMMA OperatorLists ==
  ASSUME SessionInv,
         \/ SetStep \/ UnauthorizeStep
         \/ \E u \in AllUsers, m \in Multipliers : SetMultiplier(u, m)
         \/ \E u \in Users : Unauthorize(u)
  PROVE  Lists'
<1> USE DEF SessionInv, SessionTypeOK, IdleOperator
<1>1. ASSUME NEW u \in AllUsers, NEW m \in Multipliers, SetMultiplier(u, m) PROVE Lists'
  <2>1. operator'.todo = {} /\ operator.pc = "idle"
    BY <1>1 DEF SetMultiplier, CanCommand
  <2> QED BY <1>1, <2>1, ConsoleMoversStay, QuietLists DEF SetMultiplier
<1>2. CASE SetSnapshot
  <2>1. /\ operator'.todo = connected[operator.user] /\ operator.user \in AllUsers
        /\ operator.pc = "set_snap"
    BY <1>2 DEF SetSnapshot
  <2> QED BY <1>2, <2>1, ConsoleMoversStay, QuietLists DEF SetSnapshot
<1>3. CASE SetReturns
  <2>1. operator'.todo = {} /\ operator.pc = "set_wait"
    BY <1>3 DEF SetReturns
  <2> QED BY <1>3, <2>1, ConsoleMoversStay, QuietLists DEF SetReturns
<1>4. ASSUME NEW u \in Users, Unauthorize(u) PROVE Lists'
  <2>1. operator'.todo = connected[u] /\ u \in AllUsers /\ operator.pc = "idle"
    BY <1>4 DEF Unauthorize, AllUsers, CanCommand
  <2> QED BY <1>4, <2>1, ConsoleMoversStay, QuietLists DEF Unauthorize
<1>5. ASSUME NEW c \in Clients, UnauthorizeRemove(c) PROVE Lists'
  <2>1. /\ operator.pc = "un_next" /\ c \in operator.todo /\ ~Moves("console")
        /\ MoveOut(c, "console") /\ "console" \in Movers
    BY <1>5 DEF UnauthorizeRemove, Movers
  <2>2. loop[c].pc # "offline"
    BY <2>1 DEF OfflineIsUnknown
  <2>3. loop' = loop /\ auth' = auth /\ operator' = operator /\ deletion' = deletion
    BY <1>5 DEF UnauthorizeRemove
  <2>4. MovedBy(c)'
    BY <2>1, <2>3 DEF MovedBy, MoveOut
  <2> QED BY <2>1, <2>2, <2>3, <2>4, MoveOutLists
<1>6. ASSUME NEW c \in Clients, UnauthorizeMove(c) PROVE Lists'
  <2>1. /\ c \in operator.todo /\ operator'.todo = operator.todo \ {c}
        /\ loop' = loop /\ auth' = auth /\ deletion' = deletion
    BY <1>6 DEF UnauthorizeMove
  <2>2. CASE mover[c] = "console" /\ MoveIn(c, Anon)
    <3>1. \A d \in Clients : d # c => mover[d] # "console"
      BY <2>2 DEF MovesInOrder
    <3>2. \A d \in Clients : d # c /\ MovedBy(d) => MovedBy(d)'
      BY <2>1, <2>2, <3>1 DEF MovedBy, MoveIn
    <3>3. Anon \in AllUsers
      BY DEF AllUsers
    <3> QED BY <2>1, <2>2, <3>2, <3>3, MoveInLists
  <2>3. CASE ~Moves("console") /\ UNCHANGED <<userOf, mover, connected>>
    <3>1. \A d \in Clients : MovedBy(d) => MovedBy(d)'
      BY <2>1, <2>3 DEF MovedBy, Moves
    <3> QED BY <2>1, <2>3, <3>1, QuietLists
  <2> QED BY <1>6, <2>2, <2>3 DEF UnauthorizeMove, ExchangeUser
<1>7. ASSUME NEW throws \in BOOLEAN, UnauthorizeEvent(throws) PROVE Lists'
  <2>1. operator'.todo = operator.todo /\ operator.pc = "un_event"
    BY <1>7 DEF UnauthorizeEvent
  <2> QED BY <1>7, <2>1, ConsoleMoversStay, QuietLists DEF UnauthorizeEvent
<1>8. CASE UnauthorizeEnd
  <2>1. operator'.todo = {} /\ operator.todo = {}
    BY <1>8 DEF UnauthorizeEnd
  <2> QED BY <1>8, <2>1, ConsoleMoversStay, QuietLists DEF UnauthorizeEnd
<1> QED
  BY <1>1, <1>2, <1>3, <1>4, <1>5, <1>6, <1>7, <1>8 DEF SetStep, UnauthorizeStep

(* A step of the deletion of u leaves the other movers where they are; a   *)
(* deletion that ends or hands itself to the pool has the console.         *)
LEMMA DeletionMoversStay ==
  ASSUME SessionInv, NEW u \in Users, NEW S \in SUBSET Clients,
         \A d \in Clients : d \notin S => mover'[d] = mover[d], auth' = auth,
         \A v \in Users : v # u => deletion'[v] = deletion[v],
         operator' = operator \/ operator.pc \in {"idle", "deleting"},
         \A d \in Clients : mover[d] = u /\ MovedBy(d) =>
             d \in S \/ (deletion'[u].pc \in {"move", "again"} /\ d \in deletion'[u].item)
  PROVE  \A d \in Clients : d \notin S /\ MovedBy(d) => MovedBy(d)'
<1> SUFFICES ASSUME NEW d \in Clients, d \notin S, MovedBy(d) PROVE MovedBy(d)'
  OBVIOUS
<1>1. mover'[d] = mover[d]
  OBVIOUS
<1>2. CASE mover[d] = "login" /\ auth[d].pc = "set"
  BY <1>1, <1>2 DEF MovedBy
<1>3. CASE mover[d] = "console" /\ operator.pc = "un_next" /\ d \in operator.todo
  BY <1>1, <1>3 DEF MovedBy
<1>4. ASSUME NEW v \in Users, mover[d] = v, deletion[v].pc \in {"move", "again"},
             d \in deletion[v].item
      PROVE  MovedBy(d)'
  BY <1>1, <1>4 DEF MovedBy
<1> QED
  BY <1>2, <1>3, <1>4 DEF MovedBy

(* The deletion of a user keeps the lists right: whatever the lazy query   *)
(* yields was listed, so it had connected.                                 *)
LEMMA DeleteLists ==
  ASSUME SessionInv, NEW u \in Users, DeleteUser(u) \/ DeleteStep(u)
  PROVE  Lists'
<1> USE DEF SessionInv, SessionTypeOK
<1>0. Anon \in AllUsers /\ u \in AllUsers /\ IdleOperator.todo = {}
  BY DEF AllUsers, IdleOperator
<1>a. ASSUME NEW c \in Clients, mover[c] = u PROVE \A d \in Clients : mover[d] = u => d = c
  <2>1. u \notin {"nobody", "login"}
    BY SessionsAssumption
  <2> QED BY <1>a, <2>1 DEF MovesInOrder
<1>b. ~deletion[u].pool /\ deletion[u].pc \notin {"none", "done"} => operator.pc = "deleting"
  BY DEF DeleterIsConsole
<1>c. \A d \in Clients : mover[d] = u /\ MovedBy(d) =>
         deletion[u].pc \in {"move", "again"} /\ d \in deletion[u].item
  BY SessionsAssumption DEF MovedBy
<1>d. ASSUME mover' = mover, auth' = auth, operator' = operator,
             \A v \in Users : v # u => deletion'[v] = deletion[v],
             \A d \in Clients : ~(mover[d] = u /\ MovedBy(d))
      PROVE  \A d \in Clients : MovedBy(d) => MovedBy(d)'
  <2>1. {} \in SUBSET Clients /\ \A d \in Clients : d \notin {} => mover'[d] = mover[d]
    BY <1>d
  <2> HIDE DEF SessionInv, SessionTypeOK
  <2> QED BY <1>d, <2>1, DeletionMoversStay
<1>1. CASE DeleteUser(u)
  <2>1. operator'.todo = {} /\ operator.pc = "idle" /\ deletion[u].pc = "none"
    BY <1>1 DEF DeleteUser, CanCommand, IdleOperator, DeletedOnce
  <2>2. \A v \in Users : deletion'[v].item \subseteq deletion[v].item
    BY <1>1 DEF DeleteUser, NoDeletion
  <2>3. \A v \in Users : v # u => deletion'[v] = deletion[v]
    BY <1>1 DEF DeleteUser
  <2>4. \A d \in Clients : MovedBy(d) => MovedBy(d)'
    BY <1>1, <1>c, <2>1, <2>3, DeletionMoversStay DEF DeleteUser
  <2> QED BY <1>1, <2>1, <2>2, <2>4, QuietLists DEF DeleteUser
<1>2. ASSUME NEW c \in Clients, DeleteYield(u, c) \/ AgainYield(u, c) PROVE Lists'
  <2>1. /\ deletion'[u].item = {c} /\ c \in connected[u]
        /\ \A v \in Users : v # u => deletion'[v] = deletion[v]
        /\ deletion[u].pc = "enum" \/ deletion[u].item = {}
    BY <1>2 DEF DeleteYield, AgainYield
  <2>2. /\ userOf' = userOf /\ connected' = connected /\ mover' = mover
        /\ loop' = loop /\ auth' = auth /\ operator' = operator
    BY <1>2 DEF DeleteYield, AgainYield
  <2>3. \A d \in Clients : MovedBy(d) => MovedBy(d)'
    BY <1>c, <1>d, <2>1, <2>2
  <2>4. \A v \in Users, d \in Clients : d \in deletion'[v].item =>
          d \in deletion[v].item \/ \E w \in AllUsers : d \in connected[w]
    BY <1>0, <2>1
  <2> HIDE DEF SessionInv, SessionTypeOK
  <2> QED BY <2>2, <2>3, <2>4, QuietLists
<1>3. ASSUME NEW c \in Clients, DeleteRemove(u, c) PROVE Lists'
  <2>1. /\ deletion[u].pc \in {"move", "again"} /\ c \in deletion[u].item /\ ~Moves(u)
        /\ MoveOut(c, u) /\ u \in Movers
    BY <1>3 DEF DeleteRemove, Movers
  <2>2. loop[c].pc # "offline"
    BY <2>1 DEF OfflineIsUnknown
  <2>3. loop' = loop /\ auth' = auth /\ operator' = operator /\ deletion' = deletion
    BY <1>3 DEF DeleteRemove
  <2>4. MovedBy(c)'
    BY <2>1, <2>3 DEF MovedBy, MoveOut
  <2> QED BY <2>1, <2>2, <2>3, <2>4, MoveOutLists
<1>4. ASSUME NEW c \in Clients, mover[c] = u, MoveIn(c, Anon), loop' = loop, auth' = auth,
             operator' = operator \/ (operator.pc = "deleting" /\ operator' = IdleOperator),
             deletion'[u].item = {}, \A v \in Users : v # u => deletion'[v] = deletion[v]
      PROVE  Lists'
  <2>1. \A d \in Clients : d \notin {c} => mover'[d] = mover[d]
    BY <1>4 DEF MoveIn
  <2>2. \A d \in Clients : d \notin {c} /\ MovedBy(d) => MovedBy(d)'
    <3>1. operator' = operator \/ operator.pc \in {"idle", "deleting"}
      BY <1>4
    <3>2. {c} \in SUBSET Clients /\ \A d \in Clients : mover[d] = u => d \in {c}
      BY <1>4, <1>a
    <3> HIDE DEF SessionInv, SessionTypeOK
    <3> QED BY <1>4, <2>1, <3>1, <3>2, DeletionMoversStay
  <2>3. operator'.todo \subseteq operator.todo
    BY <1>0, <1>4
  <2>4. mover[c] # "nobody"
    BY <1>4, SessionsAssumption
  <2> QED BY <1>0, <1>4, <2>2, <2>3, <2>4, MoveInLists
<1>5. ASSUME NEW c \in Clients, DeleteMove(u, c) PROVE Lists'
  <2>1. /\ deletion'[u].item = {} /\ \A v \in Users : v # u => deletion'[v] = deletion[v]
    BY <1>5 DEF DeleteMove
  <2>2. operator' = operator \/ (operator.pc = "deleting" /\ operator' = IdleOperator)
    BY <1>5, <1>b DEF DeleteMove
  <2> QED BY <1>4, <1>5, <2>1, <2>2 DEF DeleteMove
<1>6. CASE DeleteEnumerated(u)
  <2>1. /\ \A v \in Users : deletion'[v].item = deletion[v].item
        /\ \A v \in Users : v # u => deletion'[v] = deletion[v]
        /\ deletion[u].pc = "enum"
    BY <1>6 DEF DeleteEnumerated
  <2>2. \A d \in Clients : MovedBy(d) => MovedBy(d)'
    BY <1>6, <1>c, <1>d, <2>1 DEF DeleteEnumerated
  <2> QED BY <1>6, <2>1, <2>2, QuietLists DEF DeleteEnumerated
<1>7. ASSUME NEW throws \in BOOLEAN, DeleteEvent(u, throws) PROVE Lists'
  <2>1. /\ \A v \in Users : deletion'[v].item = deletion[v].item
        /\ \A v \in Users : v # u => deletion'[v] = deletion[v]
        /\ deletion[u].pc = "event"
    BY <1>7 DEF DeleteEvent
  <2>2. \A d \in Clients : MovedBy(d) => MovedBy(d)'
    BY <1>7, <1>c, <1>d, <2>1 DEF DeleteEvent
  <2> QED BY <1>7, <2>1, <2>2, QuietLists DEF DeleteEvent
<1>8. ASSUME NEW c \in Clients, NEW throws \in BOOLEAN, DeleteAgain(u, c, throws) PROVE Lists'
  <2>1. deletion'[u].item = {} /\ \A v \in Users : v # u => deletion'[v] = deletion[v]
    BY <1>8 DEF DeleteAgain
  <2> QED BY <1>4, <1>8, <2>1 DEF DeleteAgain
<1>9. CASE DeleteEnd(u)
  <2>1. \A v \in Users : deletion'[v].item \subseteq deletion[v].item
    BY <1>9 DEF DeleteEnd, NoDeletion
  <2>2. operator'.todo \subseteq operator.todo
    BY <1>0, <1>9 DEF DeleteEnd
  <2>3. /\ \A v \in Users : v # u => deletion'[v] = deletion[v]
        /\ deletion[u].pc = "again" /\ deletion[u].item = {}
        /\ mover' = mover /\ auth' = auth
    BY <1>9 DEF DeleteEnd
  <2>4. operator' = operator \/ operator.pc = "deleting"
    BY <1>9, <1>b DEF DeleteEnd
  <2>5. \A d \in Clients : MovedBy(d) => MovedBy(d)'
    BY <1>c, <2>3, <2>4, DeletionMoversStay
  <2> QED BY <1>9, <2>1, <2>2, <2>5, QuietLists DEF DeleteEnd
<1> QED
  BY <1>1, <1>2, <1>3, <1>5, <1>6, <1>7, <1>8, <1>9 DEF DeleteStep

-----------------------------------------------------------------------------
(* The console and the deletions.                                          *)

(* A step that starts no deletion and takes none back from the pool, and   *)
(* leaves the console alone while it deletes.                              *)
LEMMA QuietDeleter ==
  ASSUME DeleterIsConsole, operator' = operator \/ operator.pc # "deleting",
         \A v \in Users : deletion'[v].pc \notin {"none", "done"} /\ ~deletion'[v].pool
                         => deletion[v].pc \notin {"none", "done"} /\ ~deletion[v].pool
  PROVE  DeleterIsConsole'
  BY DEF DeleterIsConsole

(* The console leaves a deletion only by handing it to the pool or by      *)
(* finishing it.                                                           *)
LEMMA NextDeleter == SessionTypeOK /\ DeleterIsConsole /\ [SessionNext]_sessionVars => DeleterIsConsole'
<1> SUFFICES ASSUME SessionTypeOK, DeleterIsConsole, [SessionNext]_sessionVars
             PROVE  DeleterIsConsole'
  OBVIOUS
<1> USE DEF SessionTypeOK
<1>1. CASE UNCHANGED sessionVars
  BY <1>1, QuietDeleter DEF sessionVars
<1>2. ASSUME NEW c \in Clients,
             \/ Connect(c) \/ CloseRead(c) \/ CloseStep(c) \/ AuthStep(c)
             \/ \E u \in Users : Authenticate(c, u)
      PROVE  DeleterIsConsole'
  <2>1. operator' = operator /\ deletion' = deletion
    BY <1>2 DEF Connect, CloseRead, CloseStep, CloseLock, CloseRemove, AuthStep, AddLock, AddCheck,
                AddRemove, AddSet, AuthEvent, Authenticate
  <2> QED BY <2>1, QuietDeleter
<1>3. ASSUME \/ SetStep \/ UnauthorizeStep
             \/ \E u \in AllUsers, m \in Multipliers : SetMultiplier(u, m)
             \/ \E u \in Users : Unauthorize(u)
      PROVE  DeleterIsConsole'
  <2>1. operator.pc # "deleting" /\ deletion' = deletion
    BY <1>3 DEF SetStep, SetSnapshot, SetReturns, UnauthorizeStep, UnauthorizeRemove, UnauthorizeMove, UnauthorizeEvent,
                UnauthorizeEnd, SetMultiplier, Unauthorize, CanCommand
  <2> QED BY <2>1, QuietDeleter
<1>4. ASSUME NEW u \in Users, DeleteUser(u) PROVE DeleterIsConsole'
  <2>1. operator.pc = "idle" /\ operator'.pc = "deleting" /\ operator'.user = u
    BY <1>4 DEF DeleteUser, CanCommand, IdleOperator
  <2>2. \A v \in Users : v # u => deletion'[v] = deletion[v]
    BY <1>4 DEF DeleteUser
  <2> QED BY <2>1, <2>2 DEF DeleterIsConsole
<1>5. ASSUME NEW u \in Users, DeleteStep(u) PROVE DeleterIsConsole'
  <2>1. ASSUME NEW c \in Clients, DeleteMove(u, c) PROVE DeleterIsConsole'
    <3>1. PICK suspends \in BOOLEAN :
            /\ deletion' = [deletion EXCEPT ![u].pc = "enum", ![u].item = {},
                                         ![u].pool = IF suspends THEN TRUE ELSE @]
            /\ operator' = IF suspends /\ ~deletion[u].pool THEN IdleOperator ELSE operator
      BY <2>1 DEF DeleteMove
    <3>2. \A v \in Users : v # u => deletion'[v] = deletion[v]
      BY <3>1
    <3>4. suspends => deletion'[u].pool
      BY <3>1
    <3>5. ~suspends => deletion'[u].pool = deletion[u].pool
      BY <3>1
    <3>3. deletion[u].pc = "move"
      BY <2>1 DEF DeleteMove
    <3> QED BY <3>1, <3>2, <3>3, <3>4, <3>5 DEF DeleterIsConsole
  <2>2. CASE DeleteEnd(u)
    <3>1. /\ \A v \in Users : v # u => deletion'[v] = deletion[v]
          /\ deletion'[u].pc = "done" /\ deletion[u].pc = "again"
          /\ operator' = IF deletion[u].pool THEN operator ELSE IdleOperator
      BY <2>2 DEF DeleteEnd, NoDeletion
    <3> QED BY <3>1 DEF DeleterIsConsole
  <2>3. ASSUME NEW c \in Clients, DeleteYield(u, c) PROVE DeleterIsConsole'
    BY <2>3, QuietDeleter DEF DeleteYield
  <2>4. CASE DeleteEnumerated(u)
    BY <2>4, QuietDeleter DEF DeleteEnumerated
  <2>5. ASSUME NEW throws \in BOOLEAN, DeleteEvent(u, throws) PROVE DeleterIsConsole'
    BY <2>5, QuietDeleter DEF DeleteEvent
  <2>6. ASSUME NEW c \in Clients, NEW throws \in BOOLEAN, DeleteAgain(u, c, throws)
        PROVE  DeleterIsConsole'
    BY <2>6, QuietDeleter DEF DeleteAgain
  <2>7. ASSUME NEW c \in Clients, DeleteRemove(u, c) \/ AgainYield(u, c) PROVE DeleterIsConsole'
    BY <2>7, QuietDeleter DEF DeleteRemove, AgainYield
  <2> QED
    BY <1>5, <2>1, <2>2, <2>3, <2>4, <2>5, <2>6, <2>7 DEF DeleteStep
<1> QED
  BY <1>1, <1>2, <1>3, <1>4, <1>5 DEF SessionNext, Request

(* A deletion under way goes on from where it is, and one that starts is   *)
(* of a user that is not registered any more.                              *)
LEMMA NextDeletedOnce == SessionTypeOK /\ DeletedOnce /\ [SessionNext]_sessionVars => DeletedOnce'
<1> SUFFICES ASSUME SessionTypeOK, DeletedOnce, [SessionNext]_sessionVars PROVE DeletedOnce'
  OBVIOUS
<1> USE DEF SessionTypeOK
<1>1. CASE registered' = registered /\ deletion' = deletion
  BY <1>1 DEF DeletedOnce
<1>2. ASSUME NEW u \in Users, DeleteUser(u) PROVE DeletedOnce'
  BY <1>2 DEF DeletedOnce, DeleteUser
<1>3. ASSUME NEW u \in Users, DeleteStep(u) PROVE DeletedOnce'
  <2>1. /\ registered' = registered /\ deletion[u].pc # "none"
        /\ \A v \in Users : v # u => deletion'[v] = deletion[v]
    BY <1>3 DEF DeleteStep, DeleteYield, DeleteRemove, DeleteMove, DeleteEnumerated, DeleteEvent,
                AgainYield, DeleteAgain, DeleteEnd
  <2> QED BY <2>1 DEF DeletedOnce
<1>4. ASSUME NEW c \in Clients,
             \/ Connect(c) \/ CloseRead(c) \/ CloseStep(c) \/ AuthStep(c)
             \/ \E u \in Users : Authenticate(c, u)
      PROVE  DeletedOnce'
  BY <1>1, <1>4 DEF Connect, CloseRead, CloseStep, CloseLock, CloseRemove, AuthStep, AddLock,
                    AddCheck, AddRemove, AddSet, AuthEvent, Authenticate
<1>5. ASSUME \/ SetStep \/ UnauthorizeStep
             \/ \E u \in AllUsers, m \in Multipliers : SetMultiplier(u, m)
             \/ \E u \in Users : Unauthorize(u)
      PROVE  DeletedOnce'
  BY <1>1, <1>5 DEF SetStep, SetSnapshot, SetReturns, UnauthorizeStep, UnauthorizeRemove,
                    UnauthorizeMove, UnauthorizeEvent, UnauthorizeEnd, SetMultiplier, Unauthorize
<1> QED
  BY <1>1, <1>2, <1>3, <1>4, <1>5 DEF SessionNext, Request, sessionVars

-----------------------------------------------------------------------------
(* Every step keeps the invariant.                                         *)
LEMMA NextSessionInv == SessionInv /\ [SessionNext]_sessionVars => SessionInv'
<1> SUFFICES ASSUME SessionInv, [SessionNext]_sessionVars PROVE SessionInv'
  OBVIOUS
<1>1. CASE UNCHANGED sessionVars
  BY <1>1
  DEF sessionVars, SessionInv, SessionTypeOK, ListedOnlyAsSelf, ServedIsListed, OfflineIsUnknown,
      DeleterIsConsole, DeletedOnce, MovesInOrder, MovedBy
<1>2. CASE SessionNext
  <2>1. SessionTypeOK
    BY DEF SessionInv
  <2>6. DeleterIsConsole' /\ DeletedOnce'
    BY NextDeleter, NextDeletedOnce DEF SessionInv
  <2>2. ASSUME NEW c \in Clients, Connect(c) \/ CloseRead(c) \/ CloseStep(c) PROVE SessionInv'
    BY <2>1, <2>6, <2>2, ClientStepType, LoopLists DEF SessionInv, Lists
  <2>3. ASSUME NEW c \in Clients, AuthStep(c) \/ \E u \in Users : Authenticate(c, u)
        PROVE  SessionInv'
    BY <2>1, <2>6, <2>3, ClientStepType, LoginLists DEF SessionInv, Lists
  <2>4. ASSUME \/ SetStep \/ UnauthorizeStep
               \/ \E u \in AllUsers, m \in Multipliers : SetMultiplier(u, m)
               \/ \E u \in Users : Unauthorize(u)
        PROVE  SessionInv'
    BY <2>1, <2>6, <2>4, OperatorStepType, OperatorLists DEF SessionInv, Lists
  <2>5. ASSUME NEW u \in Users, DeleteUser(u) \/ DeleteStep(u) PROVE SessionInv'
    BY <2>1, <2>6, <2>5, DeleteStepType, DeleteLists DEF SessionInv, Lists
  <2> QED
    BY <1>2, <2>2, <2>3, <2>4, <2>5 DEF SessionNext, Request
<1> QED
  BY <1>1, <1>2

(* The inductive invariant holds in every reachable state.                 *)
THEOREM SessionInvariance == SessionSpec => []SessionInv
  BY InitSessionInv, NextSessionInv, PTL DEF SessionSpec

(* The variables keep their types: in particular no client is ever left    *)
(* without a user (ClientInfo.User is never null).                         *)
THEOREM SessionTypeCorrect == SessionSpec => []SessionTypeOK
<1>1. SessionInv => SessionTypeOK
  BY DEF SessionInv
<1> QED BY <1>1, SessionInvariance, PTL

(* Whoever moves a client, and however logins, disconnects, unauthorize    *)
(* and delete interleave, the client is on no list but that of its user.   *)
THEOREM NeverCountedTwice == SessionSpec => []ListedOnlyAsSelf
<1>1. SessionInv => ListedOnlyAsSelf
  BY DEF SessionInv
<1> QED BY <1>1, SessionInvariance, PTL

(* A client whose connection lives is on the list of its user, except      *)
(* between the TryRemove and the TryAdd of the setter of ClientInfo.User   *)
(* (or ExchangeUser), when the login, the console or the deletion that     *)
(* holds its userLock is at the step that lists it again: whatever the     *)
(* interleaving, no live connection is dropped from the lists.             *)
THEOREM ServedAlwaysListed == SessionSpec => []ServedIsListed
<1>1. SessionInv => ServedIsListed
  BY DEF SessionInv
<1> QED BY <1>1, SessionInvariance, PTL

-----------------------------------------------------------------------------
(* Connections that are gone are on no list, when no answer is late and no *)
(* user is deleted.                                                        *)

InTime == ~LateAnswers /\ "delete" \notin Commands

(* A client that a step leaves as it is.                                   *)
LEMMA StaysInOrder ==
  ASSUME NEW d \in Clients, LeavesInOrder(d), loop'[d] = loop[d], auth'[d] = auth[d],
         userOf'[d] = userOf[d], mover'[d] = mover[d],
         \A v \in AllUsers : d \in connected'[v] => d \in connected[v]
  PROVE  LeavesInOrder(d)'
  BY DEF LeavesInOrder

(* A client that unauthorize has not begun to move is of the account's, and *)
(* its connection is not past the lock of the account's list.              *)
LEMMA TodoIsServed ==
  ASSUME SessionInv, GhostInv, Unauthorizing, NEW c \in operator.todo, mover[c] # "console"
  PROVE  /\ c \in Clients /\ c \in connected[operator.user] /\ userOf[c] = operator.user
         /\ operator.user \in AllUsers /\ operator.user # Anon
         /\ loop[c].pc \notin {"offline", "closing", "closed"}
         /\ auth[c].pc \in {"event", "done"}
<1> USE DEF SessionInv
<1>1. /\ operator.user \in Users /\ c \in connected[operator.user]
      /\ \A d \in Clients : loop[d].pc = "closing" => loop[d].user # operator.user
  BY DEF GhostInv, UnauthorizeHasList
<1>2. operator.user \in AllUsers /\ operator.user # Anon
  BY <1>1, SessionsAssumption DEF AllUsers
<1>3. c \in connected[operator.user] /\ c \in Clients
  BY <1>1, <1>2 DEF SessionTypeOK
<1>4. userOf[c] = operator.user
  BY <1>2, <1>3 DEF ListedOnlyAsSelf
<1>5. LeavesInOrder(c)
  BY <1>3 DEF GhostInv
<1>6. auth[c].pc \in {"event", "done"}
  BY <1>2, <1>4, <1>5 DEF LeavesInOrder
<1>7. loop[c].pc # "offline"
  BY <1>2, <1>3 DEF OfflineIsUnknown
<1>8. loop[c].pc # "closed"
  BY <1>2, <1>3, <1>5 DEF LeavesInOrder
<1>9. loop[c].pc # "closing"
  BY <1>1, <1>2, <1>3, <1>4, <1>5 DEF LeavesInOrder
<1> QED
  BY <1>2, <1>3, <1>4, <1>6, <1>7, <1>8, <1>9

LEMMA GhostLoop ==
  ASSUME InTime, SessionInv, GhostInv, NEW c \in Clients, Connect(c) \/ CloseRead(c) \/ CloseStep(c)
  PROVE  GhostInv'
<1> USE DEF SessionInv, SessionTypeOK, GhostInv
<1>0. /\ operator' = operator /\ deletion' = deletion /\ auth' = auth /\ userOf' = userOf
      /\ mover' = mover
      /\ \A d \in Clients : d # c => loop'[d] = loop[d]
  BY DEF Connect, CloseRead, CloseStep, CloseLock, CloseRemove
<1>1. NoDeletionRuns'
  BY <1>0 DEF NoDeletionRuns
<1>2. LeavesInOrder(c) /\ userOf[c] \in AllUsers /\ Anon \in AllUsers
  BY DEF AllUsers
<1>3. \A d \in Clients, v \in AllUsers : d # c => (d \in connected'[v] <=> d \in connected[v])
  <2>1. CASE Connect(c)
    BY <1>2, <2>1 DEF Connect
  <2>2. CASE CloseRemove(c)
    BY <1>2, <2>2 DEF CloseRemove
  <2>3. CASE CloseRead(c) \/ CloseLock(c)
    BY <2>3 DEF CloseRead, CloseLock
  <2> QED BY <2>1, <2>2, <2>3 DEF CloseStep
<1>4. \A d \in Clients : d # c => LeavesInOrder(d)'
  BY <1>0, <1>3, StaysInOrder
<1>5. CASE Connect(c)
  <2>1. loop'[c].pc = "serving" /\ connected' = [connected EXCEPT ![Anon] = @ \cup {c}]
    BY <1>5 DEF Connect
  <2>2. LeavesInOrder(c)'
    BY <1>0, <1>2, <2>1 DEF LeavesInOrder
  <2>3. UnauthorizeHasList'
    <3>1. \A v \in AllUsers : connected[v] \subseteq connected'[v]
      BY <1>2, <2>1
    <3>2. \A d \in Clients : loop'[d].pc = "closing" => d # c
      BY <2>1
    <3>3. operator.user \in AllUsers
      OBVIOUS
    <3> QED BY <1>0, <3>1, <3>2, <3>3 DEF UnauthorizeHasList, Unauthorizing
  <2> QED BY <1>1, <1>4, <2>2, <2>3
<1>6. CASE CloseRead(c)
  <2>1. /\ loop'[c].pc = "close_wait" /\ loop'[c].user = userOf[c] /\ connected' = connected
        /\ auth[c].pc \notin {"add", "set", "verify"}
    BY <1>6 DEF CloseRead, InTime, UserLocked
  <2>2. auth[c].pc \in {"none", "event", "done"}
    BY <2>1 DEF AuthPCs
  <2>3. LeavesInOrder(c)'
    BY <1>0, <1>2, <2>1, <2>2 DEF LeavesInOrder
  <2>4. UnauthorizeHasList'
    BY <1>0, <2>1 DEF UnauthorizeHasList, Unauthorizing
  <2> QED BY <1>1, <1>4, <2>3, <2>4
<1>7. CASE CloseLock(c)
  <2>1. /\ loop[c].pc = "close_wait" /\ loop'[c].pc = "closing" /\ loop'[c].user = loop[c].user
        /\ connected' = connected /\ ~ListLocked(loop[c].user)
    BY <1>7 DEF CloseLock
  <2>2. LeavesInOrder(c)'
    BY <1>0, <1>2, <2>1 DEF LeavesInOrder
  <2>3. UnauthorizeHasList'
    BY <1>0, <2>1 DEF UnauthorizeHasList, Unauthorizing, ListLocked
  <2> QED BY <1>1, <1>4, <2>2, <2>3
<1>8. CASE CloseRemove(c)
  <2>1. /\ loop[c].pc = "closing" /\ loop'[c].pc = "closed" /\ mover[c] = "nobody"
        /\ connected' = [connected EXCEPT ![userOf[c]] = @ \ {c}]
    BY <1>8 DEF CloseRemove, UserLocked
  <2>2. \A v \in AllUsers : c \notin connected'[v]
    BY <1>2, <2>1 DEF ListedOnlyAsSelf
  <2>3. LeavesInOrder(c)'
    BY <1>0, <1>2, <2>1, <2>2 DEF LeavesInOrder
  <2>4. UnauthorizeHasList'
    <3> SUFFICES ASSUME Unauthorizing PROVE UnauthorizeHasList'
      BY <1>0 DEF UnauthorizeHasList, Unauthorizing
    <3>1. c \notin operator.todo
      BY <2>1, TodoIsServed
    <3>2. /\ operator.user \in AllUsers /\ operator.todo \subseteq Clients
          /\ \A d \in operator.todo : d \in connected[operator.user] \/ mover[d] = "console"
      BY DEF UnauthorizeHasList
    <3>3. \A d \in operator.todo : d \in connected'[operator.user] \/ mover[d] = "console"
      BY <1>3, <3>1, <3>2
    <3>4. \A d \in Clients : loop'[d].pc = "closing" => loop'[d].user # operator.user
      BY <1>0, <2>1 DEF UnauthorizeHasList
    <3> QED BY <1>0, <3>3, <3>4 DEF UnauthorizeHasList
  <2> QED BY <1>1, <1>4, <2>3, <2>4
<1> QED
  BY <1>5, <1>6, <1>7, <1>8 DEF CloseStep

LEMMA GhostLogin ==
  ASSUME InTime, SessionInv, GhostInv, NEW c \in Clients,
         AuthStep(c) \/ \E u \in Users : Authenticate(c, u)
  PROVE  GhostInv'
<1> USE DEF SessionInv, SessionTypeOK, GhostInv
<1>0. /\ operator' = operator /\ deletion' = deletion /\ loop' = loop
      /\ \A d \in Clients : d # c => auth'[d] = auth[d]
  BY DEF AuthStep, AddLock, AddCheck, AddRemove, AddSet, AuthEvent, Authenticate
<1>1. NoDeletionRuns'
  BY <1>0 DEF NoDeletionRuns
<1>2. LeavesInOrder(c) /\ auth[c].user \in AllUsers
  OBVIOUS
<1>3. ASSUME auth[c].pc = "set", mover[c] # "console",
             \A d \in Clients, v \in AllUsers : d # c => (d \in connected'[v] <=> d \in connected[v]),
             \A d \in Clients : d # c => mover'[d] = mover[d]
      PROVE  UnauthorizeHasList'
  <2> SUFFICES ASSUME Unauthorizing PROVE UnauthorizeHasList'
    BY <1>0 DEF UnauthorizeHasList, Unauthorizing
  <2>1. c \notin operator.todo
    BY <1>3, TodoIsServed
  <2>2. /\ operator.user \in AllUsers /\ operator.todo \subseteq Clients
        /\ \A d \in operator.todo : d \in connected[operator.user] \/ mover[d] = "console"
    BY DEF UnauthorizeHasList
  <2>3. \A d \in operator.todo : d \in connected'[operator.user] \/ mover'[d] = "console"
    BY <1>3, <2>1, <2>2
  <2> QED BY <1>0, <2>3 DEF UnauthorizeHasList
<1>4. CASE AddRemove(c)
  <2>1. auth[c].pc = "set" /\ mover[c] = "nobody" /\ MoveOut(c, "login") /\ auth' = auth
    BY <1>4 DEF AddRemove
  <2>2. /\ userOf' = userOf
        /\ \A d \in Clients, v \in AllUsers : d # c => (d \in connected'[v] <=> d \in connected[v])
        /\ \A d \in Clients : d # c => mover'[d] = mover[d]
    BY <2>1, MoveOutEffect
  <2>3. \A d \in Clients : d # c => LeavesInOrder(d)'
    BY <1>0, <2>2, StaysInOrder
  <2>4. LeavesInOrder(c)'
    BY <1>0, <1>2, <2>1, <2>2 DEF LeavesInOrder
  <2>5. UnauthorizeHasList'
    BY <1>3, <2>1, <2>2
  <2> QED BY <1>1, <2>3, <2>4, <2>5
<1>5. CASE AddSet(c)
  <2>1. /\ auth[c].pc = "set" /\ auth'[c].pc = "event" /\ mover[c] = "login"
        /\ MoveIn(c, auth[c].user)
    BY <1>5 DEF AddSet
  <2> DEFINE u == auth[c].user
  <2>2. /\ userOf'[c] = u
        /\ \A d \in Clients : d # c => userOf'[d] = userOf[d]
        /\ \A d \in Clients, v \in AllUsers : d # c => (d \in connected'[v] <=> d \in connected[v])
        /\ \A d \in Clients : d # c => mover'[d] = mover[d]
    BY <1>2, <2>1, MoveInEffect
  <2> HIDE DEF u
  <2>3. \A d \in Clients : d # c => LeavesInOrder(d)'
    BY <1>0, <2>2, StaysInOrder
  <2>4. LeavesInOrder(c)'
    BY <1>0, <1>2, <2>1 DEF LeavesInOrder
  <2>5. UnauthorizeHasList'
    BY <1>3, <2>1, <2>2
  <2> QED BY <1>1, <2>3, <2>4, <2>5
<1>6. CASE ~AddRemove(c) /\ ~AddSet(c)
  <2>1. userOf' = userOf /\ connected' = connected /\ mover' = mover
    BY <1>6 DEF AuthStep, AddLock, AddCheck, AuthEvent, Authenticate
  <2>2. \A d \in Clients : d # c => LeavesInOrder(d)'
    BY <1>0, <2>1, StaysInOrder
  <2>3. LeavesInOrder(c)'
    <3>1. auth[c].pc \in {"event", "done"} => auth'[c].pc \in {"event", "done"}
      BY <1>6 DEF AuthStep, AddLock, AddCheck, AuthEvent, Authenticate
    <3>2. loop[c].pc \in {"close_wait", "closing", "closed"} => auth'[c].pc \in {"event", "done"}
      BY <1>2, <1>6 DEF AuthStep, AddLock, AddCheck, AuthEvent, Authenticate, LeavesInOrder
    <3> QED BY <1>0, <1>2, <2>1, <3>1, <3>2 DEF LeavesInOrder
  <2>4. UnauthorizeHasList'
    BY <1>0, <2>1 DEF UnauthorizeHasList, Unauthorizing
  <2> QED BY <1>1, <2>2, <2>3, <2>4
<1> QED
  BY <1>4, <1>5, <1>6

LEMMA GhostConsole ==
  ASSUME InTime, SessionInv, GhostInv,
         \/ SetStep \/ UnauthorizeStep
         \/ \E u \in AllUsers, m \in Multipliers : SetMultiplier(u, m)
         \/ \E u \in Users : Unauthorize(u)
  PROVE  GhostInv'
<1> USE DEF SessionInv, SessionTypeOK, GhostInv
<1>0. deletion' = deletion /\ loop' = loop /\ auth' = auth
  BY DEF SetStep, SetSnapshot, SetReturns, UnauthorizeStep, UnauthorizeRemove, UnauthorizeMove,
         UnauthorizeEvent,
         UnauthorizeEnd, SetMultiplier, Unauthorize
<1>1. NoDeletionRuns'
  BY <1>0 DEF NoDeletionRuns
<1>2. ASSUME userOf' = userOf, connected' = connected, mover' = mover PROVE \A d \in Clients : LeavesInOrder(d)'
  BY <1>0, <1>2, StaysInOrder
<1>3. ASSUME operator'.pc \notin {"un_next", "un_event"} PROVE UnauthorizeHasList'
  BY <1>3 DEF UnauthorizeHasList, Unauthorizing
<1>4. CASE SetStep \/ \E u \in AllUsers, m \in Multipliers : SetMultiplier(u, m)
  <2>1. userOf' = userOf /\ connected' = connected /\ mover' = mover /\ operator'.pc \notin {"un_next", "un_event"}
    <3>1. CASE SetSnapshot
      BY <3>1 DEF SetSnapshot
    <3>2. CASE SetReturns
      BY <3>2 DEF SetReturns, IdleOperator
    <3>3. ASSUME NEW u \in AllUsers, NEW m \in Multipliers, SetMultiplier(u, m)
          PROVE  /\ userOf' = userOf /\ connected' = connected /\ mover' = mover
                 /\ operator'.pc \notin {"un_next", "un_event"}
      BY <3>3 DEF SetMultiplier, IdleOperator
    <3> QED BY <1>4, <3>1, <3>2, <3>3 DEF SetStep
  <2> QED BY <1>1, <1>2, <1>3, <2>1
<1>5. ASSUME NEW u \in Users, Unauthorize(u) PROVE GhostInv'
  <2>1. /\ userOf' = userOf /\ connected' = connected /\ mover' = mover /\ ~ListLocked(u)
        /\ operator'.user = u /\ operator'.todo = connected[u]
    BY <1>5 DEF Unauthorize, IdleOperator
  <2>2. UnauthorizeHasList'
    BY <1>0, <2>1 DEF UnauthorizeHasList, ListLocked
  <2> QED BY <1>1, <1>2, <2>1, <2>2
<1>6. ASSUME NEW c \in Clients, UnauthorizeMove(c) PROVE GhostInv'
  <2>1. /\ Unauthorizing /\ c \in operator.todo /\ ExchangeUser(c, Anon)
        /\ operator'.user = operator.user /\ operator'.todo = operator.todo \ {c}
    BY <1>6 DEF UnauthorizeMove, Unauthorizing
  <2>2. mover[c] = "console" /\ MoveIn(c, Anon) /\ Anon \in AllUsers
    BY <2>1, TodoIsServed DEF ExchangeUser, Moves, AllUsers
  <2>3. /\ userOf'[c] = Anon
        /\ \A d \in Clients : d # c => userOf'[d] = userOf[d]
        /\ \A d \in Clients, v \in AllUsers : d # c => (d \in connected'[v] <=> d \in connected[v])
        /\ \A d \in Clients : d # c => mover'[d] = mover[d]
    BY <2>2, MoveInEffect
  <2>4. \A d \in Clients : d # c => LeavesInOrder(d)'
    BY <1>0, <2>3, StaysInOrder
  <2>5. LeavesInOrder(c)'
    BY <1>0, <2>2, <2>3 DEF LeavesInOrder
  <2>6. UnauthorizeHasList'
    <3>1. /\ operator.user \in AllUsers /\ operator.todo \subseteq Clients
          /\ \A d \in operator.todo : d \in connected[operator.user] \/ mover[d] = "console"
      BY <2>1 DEF UnauthorizeHasList
    <3>2. \A d \in operator'.todo : d \in connected'[operator'.user] \/ mover'[d] = "console"
      BY <2>1, <2>3, <3>1
    <3> QED BY <1>0, <2>1, <3>2 DEF UnauthorizeHasList
  <2> QED BY <1>1, <2>4, <2>5, <2>6
<1>9. ASSUME NEW c \in Clients, UnauthorizeRemove(c) PROVE GhostInv'
  <2>1. /\ Unauthorizing /\ c \in operator.todo /\ MoveOut(c, "console") /\ operator' = operator
        /\ mover[c] = "nobody"
    BY <1>9 DEF UnauthorizeRemove, Unauthorizing, UserLocked
  <2>2. /\ userOf' = userOf
        /\ \A d \in Clients, v \in AllUsers : d # c => (d \in connected'[v] <=> d \in connected[v])
        /\ mover'[c] = "console"
        /\ \A d \in Clients : d # c => mover'[d] = mover[d]
    BY <2>1, MoveOutEffect
  <2>3. \A d \in Clients : d # c => LeavesInOrder(d)'
    BY <1>0, <2>2, StaysInOrder
  <2>4. loop[c].pc # "closed"
    BY <2>1, TodoIsServed
  <2>5. LeavesInOrder(c)'
    BY <1>0, <2>2, <2>4 DEF LeavesInOrder
  <2>6. UnauthorizeHasList'
    <3>1. /\ operator.user \in AllUsers /\ operator.todo \subseteq Clients
          /\ \A d \in operator.todo : d \in connected[operator.user] \/ mover[d] = "console"
      BY <2>1 DEF UnauthorizeHasList
    <3>2. \A d \in operator.todo : d \in connected'[operator.user] \/ mover'[d] = "console"
      BY <2>2, <3>1
    <3> QED BY <1>0, <2>1, <3>2 DEF UnauthorizeHasList
  <2> QED BY <1>1, <2>3, <2>5, <2>6
<1>7. ASSUME NEW throws \in BOOLEAN, UnauthorizeEvent(throws) PROVE GhostInv'
  <2>1. /\ userOf' = userOf /\ connected' = connected /\ mover' = mover /\ Unauthorizing
        /\ operator'.user = operator.user /\ operator'.todo = operator.todo
    BY <1>7 DEF UnauthorizeEvent, Unauthorizing
  <2>2. UnauthorizeHasList'
    BY <1>0, <2>1 DEF UnauthorizeHasList
  <2> QED BY <1>1, <1>2, <2>1, <2>2
<1>8. CASE UnauthorizeEnd
  <2>1. userOf' = userOf /\ connected' = connected /\ mover' = mover /\ operator'.pc = "idle"
    BY <1>8 DEF UnauthorizeEnd, IdleOperator
  <2> QED BY <1>1, <1>2, <1>3, <2>1
<1> QED
  BY <1>4, <1>5, <1>6, <1>7, <1>8, <1>9 DEF UnauthorizeStep

(* No deletion starts.                                                     *)
LEMMA NoDeletionStarts ==
  ASSUME InTime, GhostInv, NEW u \in Users
  PROVE  ~DeleteUser(u) /\ ~DeleteStep(u)
<1>1. deletion[u].pc = "none"
  BY DEF GhostInv, NoDeletionRuns
<1>2. ~DeleteUser(u)
  BY DEF DeleteUser, CanCommand, InTime
<1>3. ~DeleteStep(u)
  BY <1>1 DEF DeleteStep, DeleteYield, DeleteRemove, DeleteMove, DeleteEnumerated, DeleteEvent,
              AgainYield, DeleteAgain, DeleteEnd
<1> QED
  BY <1>2, <1>3

LEMMA NextGhostInv ==
  ASSUME InTime, SessionInv, GhostInv, [SessionNext]_sessionVars
  PROVE  GhostInv'
<1>1. CASE UNCHANGED sessionVars
  BY <1>1 DEF sessionVars, GhostInv, NoDeletionRuns, LeavesInOrder, UnauthorizeHasList, Unauthorizing
<1>2. CASE SessionNext
  <2>1. ASSUME NEW c \in Clients, Connect(c) \/ CloseRead(c) \/ CloseStep(c) PROVE GhostInv'
    BY <2>1, GhostLoop
  <2>2. ASSUME NEW c \in Clients, AuthStep(c) \/ \E u \in Users : Authenticate(c, u)
        PROVE  GhostInv'
    BY <2>2, GhostLogin
  <2>3. ASSUME \/ SetStep \/ UnauthorizeStep
               \/ \E u \in AllUsers, m \in Multipliers : SetMultiplier(u, m)
               \/ \E u \in Users : Unauthorize(u)
        PROVE  GhostInv'
    BY <2>3, GhostConsole
  <2> QED
    BY <1>2, <2>1, <2>2, <2>3, NoDeletionStarts DEF SessionNext, Request
<1> QED
  BY <1>1, <1>2

LEMMA InitGhostInv == SessionInit => GhostInv
<1> SUFFICES ASSUME SessionInit PROVE GhostInv
  OBVIOUS
<1>1. NoDeletionRuns
  BY DEF SessionInit, NoDeletionRuns, NoDeletion
<1>2. \A c \in Clients : LeavesInOrder(c)
  BY DEF SessionInit, LeavesInOrder
<1>3. UnauthorizeHasList
  BY DEF SessionInit, UnauthorizeHasList, Unauthorizing, IdleOperator
<1> QED
  BY <1>1, <1>2, <1>3 DEF GhostInv

LEMMA NoGhost == GhostInv => NoGhostSession
  BY DEF GhostInv, LeavesInOrder, NoGhostSession

(* Where a login answer is consumed by the frame that carried it and no    *)
(* account is deleted, a connection that is gone is on no user's list:     *)
(* disconnects, logins and unauthorize in any order leave no ghost that    *)
(* the session limit would count.                                          *)
THEOREM NoGhosts == ASSUME InTime PROVE SessionSpec => []NoGhostSession
<1>1. SessionInv /\ GhostInv /\ [SessionNext]_sessionVars => GhostInv'
  BY NextGhostInv
<1> QED BY <1>1, InitGhostInv, NoGhost, SessionInvariance, PTL DEF SessionSpec
=============================================================================
