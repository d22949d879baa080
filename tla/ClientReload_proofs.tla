------------------------ MODULE ClientReload_proofs ------------------------
(***************************************************************************)
(* A client's connection lock excludes, its key lock has an owner, and its *)
(* conversation with the server keeps its order, for any sockets, senders  *)
(* and numbers of attempts, tasks and faults.                              *)
(*                                                                         *)
(* The locks: whoever is inside _connectionLock is its holder, unless   *)
(* the semaphore was disposed under it; nobody enters a disposed           *)
(* semaphore, so the one inside at that time stays alone.  keyOpReady      *)
(* follows the reconnect loop, of which there is one because the flag is   *)
(* reset only by the loop that set it.                                     *)
(*                                                                         *)
(* The conversation: INIT is sent once on a socket, so its answer is under *)
(* way only for the attempt that waits for it, and a handshake completed   *)
(* since the source was made is that of the socket the handler holds.  A   *)
(* sender, alone inside the lock, finds a socket that is registered or no  *)
(* longer up.                                                              *)
(***************************************************************************)
EXTENDS ClientReload, TLAPS

\* The types of what the locks depend on.
ControlTypes ==
  /\ pc \in [Connectors -> PCs]
  /\ sender \in [Senders -> {"idle", "wait", "sending"}]
  /\ disposed \in BOOLEAN /\ flag \in BOOLEAN

\* Who is inside _connectionLock holds it, or it is gone.
InsideHolds ==
  /\ \A w \in Connectors : InsideLock(w) => lock \in {w, "gone"}
  /\ \A x \in Senders : sender[x] = "sending" => lock \in {x, "gone"}

\* No loop is under way without the flag.
LoopHasFlag == ~flag => pc["loop"] = "idle"

\* The lock is disposed, and a thread waits for Dispose_, only after disposal.
DisposedFirst ==
  /\ lock = "gone" => disposed
  /\ teardown # "no" => disposed
  /\ pc["loop"] = "closing" => disposed

ClientInv == ControlTypes /\ InsideHolds /\ OneAtATime /\ LoopHasFlag /\ DisposedFirst

\* The steps of a connection attempt that leave the locks alone.
AttemptStep(w) ==
  \/ Dial(w) \/ DialEnds(w) \/ Greet(w) \/ Handshake(w) \/ LoginStep(w) \/ LoggedIn(w)
  \/ Register(w)

\* An attempt stays inside the lock and goes on, fails, or waits for Dispose_.
LEMMA AttemptEffect ==
  ASSUME NEW w \in Connectors, ClientInv, AttemptStep(w)
  PROVE  /\ pc[w] \in Connecting
         /\ \E next \in Connecting \cup {"finish", "closing"} :
              /\ pc' = [pc EXCEPT ![w] = next]
              /\ next = "closing" => disposed'
         /\ UNCHANGED <<lock, flag, sender>>
         /\ disposed' \in BOOLEAN /\ (disposed => disposed') /\ (teardown' # "no" => disposed')
<1> USE DEF ClientInv, ControlTypes, DisposedFirst, Connecting, Goto
<1>1. CASE Dial(w) BY <1>1 DEF Dial
<1>2. CASE DialEnds(w) BY <1>2 DEF DialEnds
<1>3. CASE Greet(w) BY <1>3 DEF Greet
<1>4. CASE Handshake(w) BY <1>4 DEF Handshake
<1>5. CASE LoginStep(w) BY <1>5 DEF LoginStep
<1>6. CASE LoggedIn(w) BY <1>6 DEF LoggedIn
<1>7. CASE Register(w) BY <1>7 DEF Register
<1> QED BY <1>1, <1>2, <1>3, <1>4, <1>5, <1>6, <1>7 DEF AttemptStep

LEMMA AttemptKeepsLock ==
  ASSUME NEW w \in Connectors, ClientInv, AttemptStep(w) PROVE ClientInv'
<1>1. PICK next \in Connecting \cup {"finish", "closing"} :
        /\ pc' = [pc EXCEPT ![w] = next]
        /\ next = "closing" => disposed'
  BY AttemptEffect
<1>2. /\ pc[w] \in Connecting /\ UNCHANGED <<lock, flag, sender>>
      /\ disposed' \in BOOLEAN /\ (disposed => disposed') /\ (teardown' # "no" => disposed')
  BY AttemptEffect
<1>3. \A v \in Connectors : InsideLock(v)' => InsideLock(v)
  BY <1>1, <1>2 DEF InsideLock, ClientInv, ControlTypes
<1>4. ControlTypes'
  BY <1>1, <1>2 DEF ClientInv, ControlTypes, PCs
<1>5. InsideHolds' /\ OneAtATime'
  BY <1>2, <1>3 DEF ClientInv, InsideHolds, OneAtATime, Connectors
<1>6. LoopHasFlag' /\ DisposedFirst'
  BY <1>1, <1>2 DEF ClientInv, ControlTypes, LoopHasFlag, DisposedFirst, Connectors, Connecting
<1> QED BY <1>4, <1>5, <1>6 DEF ClientInv

\* The steps of ConnectAsync and of the loop around its attempts.
LEMMA ConnectorsKeepLock ==
  ASSUME ClientInv,
         \/ \E w \in Connectors : Finish(w)
         \/ ConnectAsync \/ ConnectFails \/ ConnectReturns
         \/ LoopBefore \/ LoopLocks \/ LoopTop \/ AttemptFails \/ LoopUnlocks \/ LoopEnds
  PROVE  ClientInv'
<1> USE ClientAssumption DEF ClientAssumption, ClientInv, ControlTypes, InsideHolds, OneAtATime,
      LoopHasFlag, DisposedFirst, InsideLock, Connecting, PCs, Connectors, Goto, Released
<1>1. CASE \E w \in Connectors : Finish(w) BY <1>1 DEF Finish
<1>2. CASE ConnectAsync BY <1>2 DEF ConnectAsync
<1>3. CASE ConnectFails BY <1>3 DEF ConnectFails
<1>4. CASE ConnectReturns BY <1>4 DEF ConnectReturns
<1>5. CASE LoopBefore BY <1>5 DEF LoopBefore
<1>6. CASE LoopLocks BY <1>6 DEF LoopLocks
<1>7. CASE LoopTop BY <1>7 DEF LoopTop
<1>8. CASE AttemptFails BY <1>8 DEF AttemptFails
<1>9. CASE LoopUnlocks BY <1>9 DEF LoopUnlocks
<1>10. CASE LoopEnds BY <1>10 DEF LoopEnds
<1> QED BY <1>1, <1>2, <1>3, <1>4, <1>5, <1>6, <1>7, <1>8, <1>9, <1>10

\* The steps of the senders.
LEMMA SendersKeepLock ==
  ASSUME NEW x \in Senders, ClientInv, SendStarts(x) \/ SendLocks(x) \/ SendEnds(x)
  PROVE  ClientInv'
<1> USE ClientAssumption DEF ClientAssumption, ClientInv, ControlTypes, InsideHolds, OneAtATime,
      LoopHasFlag, DisposedFirst, InsideLock, Connectors, Released
<1>1. CASE SendStarts(x) BY <1>1 DEF SendStarts
<1>2. CASE SendLocks(x) BY <1>2 DEF SendLocks
<1>3. CASE SendEnds(x) BY <1>3 DEF SendEnds
<1> QED BY <1>1, <1>2, <1>3

\* Tasks, disposal, the listeners, the network and the server.
LEMMA OthersKeepLock ==
  ASSUME ClientInv,
         \/ TaskTests \/ TaskEnters
         \/ Dispose \/ TeardownSend \/ TeardownLock \/ SetTargetURI
         \/ \E s \in Sockets : ListenStarts(s) \/ Receive(s) \/ ListenEnds(s)
         \/ \E s \in Sockets : Drop(s) \/ Reply(s) \/ Announce(s)
  PROVE  ClientInv'
<1> USE DEF ClientInv, ControlTypes, InsideHolds, OneAtATime, LoopHasFlag, DisposedFirst,
      InsideLock, Connecting, PCs, Connectors
<1>1. CASE TaskTests BY <1>1 DEF TaskTests
<1>2. CASE TaskEnters BY <1>2 DEF TaskEnters, Goto
<1>3. CASE Dispose BY <1>3 DEF Dispose
<1>4. CASE TeardownSend BY <1>4 DEF TeardownSend
<1>5. CASE TeardownLock BY <1>5 DEF TeardownLock
<1>6. CASE SetTargetURI BY <1>6 DEF SetTargetURI
<1>7. ASSUME NEW s \in Sockets, ListenStarts(s) \/ Receive(s) \/ ListenEnds(s)
      PROVE  ClientInv'
  <2>1. UNCHANGED <<pc, sender, lock, flag>>
    BY <1>7 DEF ListenStarts, Receive, ListenEnds
  <2>2. /\ disposed' \in BOOLEAN
        /\ disposed => disposed'
        /\ teardown' # "no" => disposed'
    BY <1>7 DEF ListenStarts, Receive, ListenEnds, HandleIncomingData
  <2> QED BY <2>1, <2>2
<1>8. ASSUME NEW s \in Sockets, Drop(s) \/ Reply(s) \/ Announce(s)
      PROVE  ClientInv'
  BY <1>8 DEF Drop, Reply, Announce
<1> QED BY <1>1, <1>2, <1>3, <1>4, <1>5, <1>6, <1>7, <1>8

LEMMA StepKeepsLock == ClientInv /\ [ClientNext]_clientVars => ClientInv'
<1>1. ASSUME ClientInv, UNCHANGED clientVars PROVE ClientInv'
  BY <1>1 DEF clientVars, ClientInv, ControlTypes, InsideHolds, OneAtATime, LoopHasFlag,
              DisposedFirst, InsideLock
<1>2. ASSUME ClientInv, ClientNext PROVE ClientInv'
  BY <1>2, AttemptKeepsLock, ConnectorsKeepLock, SendersKeepLock, OthersKeepLock
  DEF ClientNext, AttemptStep
<1> QED BY <1>1, <1>2

LEMMA ClientInvariant == ClientSpec => []ClientInv
<1>1. ClientInit => ClientInv
  <2> SUFFICES ASSUME ClientInit PROVE ClientInv OBVIOUS
  <2>1. ControlTypes BY DEF ClientInit, ControlTypes, PCs
  <2>2. \A w \in Connectors : ~InsideLock(w) BY DEF ClientInit, InsideLock, Connecting
  <2>3. \A x \in Senders : sender[x] # "sending" BY DEF ClientInit
  <2>4. InsideHolds /\ OneAtATime BY <2>2, <2>3 DEF InsideHolds, OneAtATime, Connectors
  <2>5. LoopHasFlag /\ DisposedFirst
    BY DEF ClientInit, LoopHasFlag, DisposedFirst, Connectors
  <2> QED BY <2>1, <2>4, <2>5 DEF ClientInv
<1> QED BY <1>1, StepKeepsLock, PTL DEF ClientSpec

\* However many sockets, senders, attempts and faults there are, ConnectAsync,
\* the reconnect loop and SendOperationAsync are never inside _connectionLock
\* together, even when Dispose_ disposes the semaphore under its holder.
THEOREM ConnectionLockExcludes == ClientSpec => []OneAtATime
BY ClientInvariant, PTL DEF ClientInv

-----------------------------------------------------------------------------
(* The client with its manager.                                            *)

\* A step of the composition is a step of the client, or leaves it alone.
LEMMA StepIsClients == [ReloadNext]_reloadVars => [ClientNext]_clientVars
<1> USE DEF Connectors
<1>1. ASSUME UNCHANGED reloadVars PROVE UNCHANGED clientVars
  BY <1>1 DEF reloadVars
<1>2. ASSUME ConnectThread PROVE ClientNext
  BY <1>2 DEF ConnectThread, FinishReload, ClientNext
<1>3. ASSUME LoopThread PROVE ClientNext
  BY <1>3 DEF LoopThread, HandleBeforeOperationsReload, FinishReload, FailReload, ClientNext
<1>4. ASSUME PoolTasks \/ DisposeThread PROVE ClientNext
  BY <1>4 DEF PoolTasks, DisposeThread, ClientNext
<1>5. ASSUME KeyThread PROVE [ClientNext]_clientVars
  BY <1>5, ReloadAssumption DEF KeyThread, KeyLocks, KeyUnlocks, ReloadAssumption, ClientNext
<1>6. ASSUME \E x \in Senders : SendThread(x) PROVE ClientNext
  BY <1>6 DEF SendThread, ClientNext
<1>7. ASSUME \E s \in Sockets : ListenThread(s) \/ ServerThread(s) PROVE ClientNext
  BY <1>7 DEF ListenThread, ServerThread, ClientNext
<1>8. ASSUME Surprises PROVE [ClientNext]_clientVars
  BY <1>8 DEF Surprises, KeyEvent, ClientNext
<1> QED BY <1>1, <1>2, <1>3, <1>4, <1>5, <1>6, <1>7, <1>8 DEF ReloadNext

\* ClientManager's listeners only hold the client back: the client with its
\* manager implements the client alone, so what is proved of VotingClient
\* holds of the composition.
THEOREM ManagedClientIsClient == ReloadSpec => ClientSpec
<1>1. ReloadInit => ClientInit BY DEF ReloadInit
<1> QED BY <1>1, StepIsClients, PTL DEF ReloadSpec, ClientSpec

\* The stages of the loop between BeforeOperationsReload and AfterOperationsReload.
Reloading == Connecting \cup {"enter", "wait", "top", "finish"}

\* Two sections of keyOpReady are told apart: the key event's and the loop's.
KeyInv ==
  /\ keyLock \in {"free", "read", "write"}
  /\ (ui = "sending") <=> (keyLock = "read")
  /\ KeyLockHasOwner

\* A step that leaves keyOpReady and the stage of the loop alone.
LEMMA QuietKeys ==
  ASSUME KeyInv, UNCHANGED <<keyLock, ui>>, disposed => disposed',
         disposed' \/ (pc["loop"] \in Reloading <=> pc'["loop"] \in Reloading)
  PROVE  KeyInv'
BY DEF KeyInv, KeyLockHasOwner, Reloading

\* The loop's steps: BeforeOperationsReload takes the lock, both forms of
\* AfterOperationsReload give it back.
LEMMA LoopKeepsKeys ==
  ASSUME ClientInv, KeyInv, LoopThread PROVE KeyInv'
<1> USE DEF Connectors
<1>1. pc \in [Connectors -> PCs] BY DEF ClientInv, ControlTypes
<1>2. CASE HandleBeforeOperationsReload
  BY <1>1, <1>2 DEF HandleBeforeOperationsReload, LoopBefore, Goto, KeyInv, KeyLockHasOwner,
                    Connecting
<1>3. CASE FinishReload("loop")
  BY <1>1, <1>3 DEF FinishReload, Finish, HandleAfterOperationsReload, Goto, KeyInv,
                    KeyLockHasOwner, Connecting
<1>4. CASE FailReload
  BY <1>1, <1>4 DEF FailReload, AttemptFails, HandleAfterOperationsReload, Goto, KeyInv,
                    KeyLockHasOwner, Connecting
<1>5. CASE AttemptStep("loop") /\ UNCHANGED <<keyLock, ui>>
  <2>1. PICK next \in Connecting \cup {"finish", "closing"} :
          pc' = [pc EXCEPT !["loop"] = next] /\ (next = "closing" => disposed')
    BY <1>5, AttemptEffect
  <2>2. pc["loop"] \in Connecting /\ (disposed => disposed')
    BY <1>5, AttemptEffect
  <2>3. disposed' \/ (pc["loop"] \in Reloading <=> pc'["loop"] \in Reloading)
    BY <1>1, <2>1, <2>2 DEF Reloading
  <2> QED BY <1>5, <2>2, <2>3, QuietKeys
<1>6. CASE LoopLocks /\ UNCHANGED <<keyLock, ui>>
  <2>1. disposed' = disposed BY <1>6 DEF LoopLocks
  <2>2. disposed \/ (pc["loop"] \in Reloading /\ pc'["loop"] \in Reloading)
    BY <1>1, <1>6 DEF LoopLocks, Goto, Reloading, ClientInv, DisposedFirst
  <2> QED BY <1>6, <2>1, <2>2, QuietKeys
<1>7. CASE LoopTop /\ UNCHANGED <<keyLock, ui>>
  <2>1. disposed' = disposed BY <1>7 DEF LoopTop
  <2>2. disposed \/ (pc["loop"] \in Reloading /\ pc'["loop"] \in Reloading)
    BY <1>1, <1>7 DEF LoopTop, Goto, Reloading, Connecting
  <2> QED BY <1>7, <2>1, <2>2, QuietKeys
<1>8. CASE (LoopUnlocks \/ LoopEnds) /\ UNCHANGED <<keyLock, ui>>
  <2>1. disposed' = disposed BY <1>8 DEF LoopUnlocks, LoopEnds
  <2>2. pc["loop"] \notin Reloading /\ pc'["loop"] \notin Reloading
    BY <1>1, <1>8 DEF LoopUnlocks, LoopEnds, Goto, Reloading, Connecting
  <2> QED BY <1>8, <2>1, <2>2, QuietKeys
<1> QED BY <1>2, <1>3, <1>4, <1>5, <1>6, <1>7, <1>8 DEF LoopThread, AttemptStep

\* The other threads' steps.
LEMMA OthersKeepKeys ==
  ASSUME ClientInv, KeyInv, ReloadNext, ~LoopThread PROVE KeyInv'
<1> USE DEF Connectors
<1>1. pc \in [Connectors -> PCs] BY DEF ClientInv, ControlTypes
<1>2. CASE ConnectThread
  <2>1. CASE AttemptStep("main")
    <3>1. (disposed => disposed') /\ pc'["loop"] = pc["loop"]
      BY <1>1, <2>1, AttemptEffect
    <3>2. UNCHANGED <<keyLock, ui>>
      BY <1>2, <2>1, <1>1 DEF ConnectThread, FinishReload, Finish, AttemptStep, Dial, DialEnds,
        Greet, Handshake, LoginStep, LoggedIn, Register
    <3> QED BY <3>1, <3>2, QuietKeys
  <2>2. CASE FinishReload("main")
    BY <1>1, <2>2, QuietKeys DEF FinishReload, Finish, Goto
  <2>3. CASE (ConnectFails \/ ConnectReturns) /\ UNCHANGED <<keyLock, ui>>
    BY <1>1, <2>3, QuietKeys DEF ConnectFails, ConnectReturns, Goto
  <2> QED BY <1>2, <2>1, <2>2, <2>3 DEF ConnectThread, AttemptStep
<1>3. CASE PoolTasks
  <2>1. UNCHANGED <<keyLock, ui, disposed>> BY <1>3 DEF PoolTasks, TaskTests, TaskEnters
  <2>2. pc["loop"] \in Reloading <=> pc'["loop"] \in Reloading
    BY <1>1, <1>3 DEF PoolTasks, TaskTests, TaskEnters, Goto, ClientInv, LoopHasFlag, Reloading,
                      Connecting
  <2> QED BY <2>1, <2>2, QuietKeys
<1>4. CASE KeyThread
  BY <1>4 DEF KeyThread, KeyLocks, KeyUnlocks, SendStarts, clientVars, KeyInv, KeyLockHasOwner
<1>5. CASE DisposeThread
  <2>1. UNCHANGED <<keyLock, ui, pc, disposed>>
    BY <1>5 DEF DisposeThread, TeardownSend, TeardownLock
  <2> QED BY <2>1, QuietKeys
<1>6. CASE \E x \in Senders : SendThread(x)
  BY <1>6, QuietKeys DEF SendThread, SendLocks, SendEnds
<1>7. ASSUME NEW s \in Sockets, ListenThread(s) \/ ServerThread(s) PROVE KeyInv'
  <2>1. UNCHANGED <<keyLock, ui, pc>>
    BY <1>7 DEF ListenThread, ServerThread, ListenStarts, Receive, ListenEnds, Reply
  <2>2. disposed => disposed'
    BY <1>7 DEF ListenThread, ServerThread, ListenStarts, Receive, ListenEnds, Reply,
                HandleIncomingData
  <2> QED BY <2>1, <2>2, QuietKeys
<1>8. CASE Surprises
  <2>1. disposed => disposed'
    BY <1>8 DEF Surprises, KeyEvent, clientVars, ConnectAsync, Dispose, SetTargetURI, SendStarts,
                Drop, Announce
  <2>2. pc'["loop"] = pc["loop"]
    BY <1>1, <1>8 DEF Surprises, KeyEvent, clientVars, ConnectAsync, Dispose, SetTargetURI,
                SendStarts, Drop, Announce, Goto
  <2>3. CASE KeyEvent
    BY <2>1, <2>2, <2>3 DEF KeyEvent, KeyInv, KeyLockHasOwner
  <2>4. CASE UNCHANGED <<keyLock, ui>>
    BY <2>1, <2>2, <2>4, QuietKeys
  <2> QED BY <1>8, <2>3, <2>4 DEF Surprises
<1> QED BY <1>2, <1>3, <1>4, <1>5, <1>6, <1>7, <1>8 DEF ReloadNext

\* keyOpReady is write-held exactly while a reload is under way, for any
\* senders, sockets and faults, until the client is disposed: no exit of the
\* reconnect loop of a living client leaves the window's key events locked out.
THEOREM KeyLockAlwaysOwned == ReloadSpec => []KeyLockHasOwner
<1>1. ReloadInit => KeyInv
  BY DEF ReloadInit, ClientInit, KeyInv, KeyLockHasOwner, Connecting, Connectors
<1>2. ClientInv /\ KeyInv /\ [ReloadNext]_reloadVars => KeyInv'
  <2>1. ASSUME KeyInv, UNCHANGED reloadVars PROVE KeyInv'
    BY <2>1 DEF reloadVars, clientVars, KeyInv, KeyLockHasOwner
  <2>2. ASSUME ClientInv, KeyInv, ReloadNext PROVE KeyInv'
    BY <2>2, LoopKeepsKeys, OthersKeepKeys
  <2> QED BY <2>1, <2>2
<1>3. KeyInv => KeyLockHasOwner BY DEF KeyInv
<1> QED BY <1>1, <1>2, <1>3, ManagedClientIsClient, ClientInvariant, PTL DEF ReloadSpec

-----------------------------------------------------------------------------
(* The types of the sockets and of what travels on them.                   *)

SocketTypes ==
  /\ held \in Sockets \cup {NoSocket}
  /\ net \in [Sockets -> NetStates]
  /\ inbox \in [Sockets -> Seq(Frames)]
  /\ asked \in [Sockets -> {"nothing", "init", "challenge", "result"}]
  /\ inited \subseteq Sockets /\ registered \subseteq Sockets

ListenerTypes ==
  /\ listener \in [Sockets -> [pc : {"none", "queued", "reading", "ending", "done"},
                               on : Sockets \cup {NoSocket}]]
  /\ ListenersRead

CountTypes == attempts \in Nat /\ faults \in Nat /\ tasks \in [queued : Nat, tested : Nat]

OtherTypes ==
  /\ early \in BOOLEAN /\ missed \in BOOLEAN
  /\ teardown \in {"no", "send", "lock", "done"}
  /\ lock \in {"free", "gone"} \cup Connectors \cup Senders
  /\ answer \in [{"handshake", "token", "result"} -> Answers]

ClientTypes == SocketTypes /\ ListenerTypes /\ CountTypes /\ OtherTypes

LEMMA TypesAre == ControlTypes /\ ClientTypes <=> ClientTypeOK /\ ListenersRead
BY DEF ControlTypes, ClientTypes, SocketTypes, ListenerTypes, CountTypes, OtherTypes, ClientTypeOK

LEMMA ForgetTypes ==
  ASSUME SocketTypes, NEW s \in Sockets, Forget(s)
  PROVE  /\ inbox' \in [Sockets -> Seq(Frames)]
         /\ asked' \in [Sockets -> {"nothing", "init", "challenge", "result"}]
         /\ inited' \subseteq Sockets /\ registered' \subseteq Sockets
<1>1. <<>> \in Seq(Frames) OBVIOUS
<1> QED BY <1>1 DEF SocketTypes, Forget

LEMMA SendTypes ==
  ASSUME SocketTypes, early \in BOOLEAN, NEW kind, NEW ok, SendAsync(kind, ok),
         UNCHANGED <<held, inbox>>
  PROVE  SocketTypes' /\ early' \in BOOLEAN
<1>1. IsConnected => held \in Sockets BY DEF SocketTypes, IsConnected
<1>2. CASE UNCHANGED <<net, serverVars>> BY <1>2 DEF serverVars, SocketTypes
<1>3. CASE IsConnected /\ Arrives(held, kind) /\ UNCHANGED net
  <2>1. SocketTypes' BY <1>1, <1>3 DEF Arrives, SocketTypes
  <2>2. early' \in BOOLEAN BY <1>3 DEF Arrives
  <2> QED BY <2>1, <2>2
<1>4. CASE IsConnected /\ net' = [net EXCEPT ![held] = "broken"] /\ UNCHANGED serverVars
  BY <1>1, <1>4 DEF serverVars, SocketTypes, NetStates
<1> QED BY <1>2, <1>3, <1>4 DEF SendAsync

LEMMA ReconnectTypes ==
  ASSUME CountTypes, StartReconnect PROVE tasks' \in [queued : Nat, tested : Nat]
<1>1. tasks.queued \in Nat /\ tasks.queued + 1 \in Nat BY DEF CountTypes
<1> QED BY <1>1 DEF CountTypes, StartReconnect

LEMMA DisconnectTypes ==
  ASSUME SocketTypes, CountTypes, HandleDisconnect
  PROVE  SocketTypes' /\ tasks' \in [queued : Nat, tested : Nat]
<1>1. CASE held = NoSocket
  BY <1>1 DEF HandleDisconnect, handlerVars, connectionVars, SocketTypes, CountTypes
<1>2. CASE held # NoSocket
  <2>1. /\ held \in Sockets /\ net' = [net EXCEPT ![held] = "closed"] /\ held' = NoSocket
        /\ Forget(held) /\ RaiseDisconnected
    BY <1>2 DEF HandleDisconnect, SocketTypes
  <2>2. SocketTypes' BY <2>1, ForgetTypes DEF SocketTypes, NetStates
  <2>3. tasks' \in [queued : Nat, tested : Nat]
    BY <2>1, ReconnectTypes DEF RaiseDisconnected, CountTypes
  <2> QED BY <2>2, <2>3
<1> QED BY <1>1, <1>2

LEMMA FaultType == ASSUME CountTypes, Fault PROVE faults' \in Nat
BY DEF CountTypes, Fault

\* A connection attempt keeps the types.
LEMMA AttemptTypes ==
  ASSUME ClientTypes, NEW w \in Connectors, AttemptStep(w) \/ Finish(w)
  PROVE  ClientTypes'
<1> USE DEF ClientTypes
<1>1. CASE Dial(w)
  <2> DEFINE fresh == {s \in Sockets : Unreferenced(s)}
             t == CHOOSE s \in fresh : TRUE
  <2>1. t \in Sockets BY <1>1 DEF Dial
  <2>2. /\ held' = t /\ net' = [net EXCEPT ![t] = "dialing"]
        /\ listener' = [listener EXCEPT ![t] = NoListener] /\ Forget(t)
        /\ UNCHANGED <<teardown, lock, attempts, answer, tasks, early, missed, faults>>
    BY <1>1 DEF Dial
  <2> HIDE DEF t
  <2>3. SocketTypes' BY <2>1, <2>2, ForgetTypes DEF SocketTypes, NetStates
  <2>4. ListenerTypes' BY <2>1, <2>2 DEF ListenerTypes, ListenersRead, NoListener
  <2> QED BY <2>2, <2>3, <2>4 DEF CountTypes, OtherTypes
<1>2. CASE DialEnds(w)
  <2>1. SocketTypes' BY <1>2 DEF DialEnds, SocketTypes, NetStates, serverVars
  <2>2. faults' \in Nat BY <1>2, FaultType DEF DialEnds, CountTypes
  <2> QED BY <1>2, <2>1, <2>2
          DEF DialEnds, ListenerTypes, ListenersRead, CountTypes, OtherTypes, serverVars
<1>3. CASE Greet(w)
  <2>1. SocketTypes' /\ early' \in BOOLEAN
    BY <1>3, SendTypes DEF Greet, OtherTypes
  <2>2. ListenerTypes'
    BY <1>3 DEF Greet, ListenerTypes, ListenersRead, SocketTypes
  <2>3. CountTypes' BY <1>3 DEF Greet, CountTypes
  <2>4. answer' \in [{"handshake", "token", "result"} -> Answers]
    BY <1>3 DEF Greet, OtherTypes, Answers
  <2> QED BY <1>3, <2>1, <2>2, <2>3, <2>4 DEF Greet, OtherTypes
<1>4. CASE Handshake(w)
  <2>1. SocketTypes' /\ tasks' \in [queued : Nat, tested : Nat]
    <3>1. CASE HandleDisconnect BY <3>1, DisconnectTypes
    <3>2. CASE UNCHANGED <<handlerVars, tasks, connectionVars>>
      BY <3>2 DEF handlerVars, connectionVars, SocketTypes, CountTypes
    <3> QED BY <1>4, <3>1, <3>2 DEF Handshake
  <2>2. teardown' \in {"no", "send", "lock", "done"}
    BY <1>4 DEF Handshake, OtherTypes
  <2>3. UNCHANGED <<lock, attempts, answer, listener, early, missed, faults>>
    BY <1>4 DEF Handshake
  <2> QED BY <2>1, <2>2, <2>3
          DEF ListenerTypes, ListenersRead, CountTypes, OtherTypes
<1>5. CASE LoginStep(w)
  <2>1. SocketTypes' /\ early' \in BOOLEAN
    BY <1>5, SendTypes DEF LoginStep, OtherTypes
  <2>2. answer' \in [{"handshake", "token", "result"} -> Answers]
    BY <1>5 DEF LoginStep, OtherTypes, Answers
  <2> QED BY <1>5, <2>1, <2>2 DEF LoginStep, ListenerTypes, ListenersRead, CountTypes, OtherTypes
<1>6. CASE LoggedIn(w) \/ Finish(w)
  <2>1. attempts' \in Nat BY <1>6 DEF LoggedIn, Finish, CountTypes
  <2> QED BY <1>6, <2>1 DEF LoggedIn, Finish, handlerVars, serverVars, SocketTypes, ListenerTypes,
                ListenersRead, CountTypes, OtherTypes
<1>7. CASE Register(w)
  <2>1. SocketTypes' /\ early' \in BOOLEAN
    BY <1>7, SendTypes DEF Register, OtherTypes
  <2> QED BY <1>7, <2>1 DEF Register, ListenerTypes, ListenersRead, CountTypes, OtherTypes
<1> QED BY <1>1, <1>2, <1>3, <1>4, <1>5, <1>6, <1>7 DEF AttemptStep

\* So do the steps that touch no socket.
LEMMA ControlStepTypes ==
  ASSUME ClientTypes, ClientInv,
         \/ ConnectAsync \/ ConnectFails \/ ConnectReturns
         \/ TaskTests \/ TaskEnters
         \/ LoopBefore \/ LoopLocks \/ AttemptFails \/ LoopUnlocks \/ LoopEnds
         \/ \E x \in Senders : SendStarts(x) \/ SendLocks(x)
         \/ Dispose \/ TeardownLock \/ SetTargetURI
  PROVE  ClientTypes'
<1> USE DEF ClientTypes, Connectors
<1>1. UNCHANGED <<handlerVars, listener, inbox, serverVars>>
  BY DEF ConnectAsync, ConnectFails, ConnectReturns, TaskTests, TaskEnters, LoopBefore, LoopLocks,
         AttemptFails, LoopUnlocks, LoopEnds, SendStarts, SendLocks, Dispose, TeardownLock,
         SetTargetURI
<1>2. SocketTypes' /\ ListenerTypes'
  BY <1>1 DEF handlerVars, serverVars, SocketTypes, ListenerTypes, ListenersRead
<1>3. early' \in BOOLEAN BY <1>1 DEF serverVars, OtherTypes
<1>4. lock' \in {"free", "gone"} \cup Connectors \cup Senders
  BY DEF ConnectAsync, ConnectFails, ConnectReturns, TaskTests, TaskEnters, LoopBefore, LoopLocks,
         AttemptFails, LoopUnlocks, LoopEnds, SendStarts, SendLocks, Dispose, TeardownLock,
         SetTargetURI, OtherTypes, Released
<1>5. answer' \in [{"handshake", "token", "result"} -> Answers]
  BY DEF ConnectAsync, ConnectFails, ConnectReturns, TaskTests, TaskEnters, LoopBefore, LoopLocks,
         AttemptFails, LoopUnlocks, LoopEnds, SendStarts, SendLocks, Dispose, TeardownLock,
         SetTargetURI, OtherTypes, Answers
<1>6. teardown' \in {"no", "send", "lock", "done"}
  BY DEF ConnectAsync, ConnectFails, ConnectReturns, TaskTests, TaskEnters, LoopBefore, LoopLocks,
         AttemptFails, LoopUnlocks, LoopEnds, SendStarts, SendLocks, Dispose, TeardownLock,
         SetTargetURI, OtherTypes
<1>7. missed' \in BOOLEAN
  BY DEF ConnectAsync, ConnectFails, ConnectReturns, TaskTests, TaskEnters, LoopBefore, LoopLocks,
         AttemptFails, LoopUnlocks, LoopEnds, SendStarts, SendLocks, Dispose, TeardownLock,
         SetTargetURI, OtherTypes
<1>8. attempts' \in Nat
  BY DEF ConnectAsync, ConnectFails, ConnectReturns, TaskTests, TaskEnters, LoopBefore, LoopLocks,
         AttemptFails, LoopUnlocks, LoopEnds, SendStarts, SendLocks, Dispose, TeardownLock,
         SetTargetURI, CountTypes
<1>9. tasks' \in [queued : Nat, tested : Nat] /\ faults' \in Nat
  <2>1. CASE TaskTests BY <2>1 DEF TaskTests, CountTypes
  <2>2. CASE TaskEnters
    <3>1. tasks.tested \in Nat /\ tasks.tested - 1 \in Nat BY <2>2 DEF TaskEnters, CountTypes
    <3> QED BY <2>2, <3>1 DEF TaskEnters, CountTypes
  <2>3. CASE SetTargetURI BY <2>3, ReconnectTypes, FaultType DEF SetTargetURI
  <2>4. CASE UNCHANGED <<tasks, faults>> BY <2>4 DEF CountTypes
  <2> QED BY <2>1, <2>2, <2>3, <2>4
      DEF ConnectAsync, ConnectFails, ConnectReturns, LoopBefore, LoopLocks, AttemptFails,
          LoopUnlocks, LoopEnds, SendStarts, SendLocks, Dispose, TeardownLock
<1> QED BY <1>2, <1>3, <1>4, <1>5, <1>6, <1>7, <1>8, <1>9 DEF CountTypes, OtherTypes

\* And the steps that close a socket, send an operation, or are a listener's,
\* the network's or the server's.
LEMMA SocketStepTypes ==
  ASSUME ClientTypes,
         \/ LoopTop \/ TeardownSend
         \/ \E x \in Senders : SendEnds(x)
         \/ \E s \in Sockets : ListenStarts(s) \/ Receive(s) \/ ListenEnds(s)
         \/ \E s \in Sockets : Drop(s) \/ Reply(s) \/ Announce(s)
  PROVE  ClientTypes'
<1> USE DEF ClientTypes
<1>1. CASE LoopTop
  <2>1. SocketTypes' /\ tasks' \in [queued : Nat, tested : Nat]
    <3>1. CASE HandleDisconnect BY <3>1, DisconnectTypes
    <3>2. CASE UNCHANGED <<handlerVars, tasks, connectionVars>>
      BY <3>2 DEF handlerVars, connectionVars, SocketTypes, CountTypes
    <3> QED BY <1>1, <3>1, <3>2 DEF LoopTop
  <2> QED BY <1>1, <2>1 DEF LoopTop, ListenerTypes, ListenersRead, CountTypes, OtherTypes
<1>2. CASE TeardownSend
  <2>1. answer' \in [{"handshake", "token", "result"} -> Answers]
    BY <1>2 DEF TeardownSend, OtherTypes, Answers
  <2>2. SocketTypes' /\ early' \in BOOLEAN
    <3>1. CASE /\ IsConnected /\ net' = [net EXCEPT ![held] = "closed"] /\ held' = NoSocket
               /\ Forget(held) /\ UNCHANGED early
      <4>1. held \in Sockets BY <3>1 DEF IsConnected, SocketTypes
      <4> QED BY <3>1, <4>1, ForgetTypes DEF SocketTypes, NetStates, OtherTypes
    <3>2. CASE SendAsync("register", FALSE) /\ UNCHANGED <<held, inbox>>
      BY <3>2, SendTypes DEF OtherTypes
    <3> QED BY <1>2, <3>1, <3>2 DEF TeardownSend
  <2> QED BY <1>2, <2>1, <2>2
          DEF TeardownSend, ListenerTypes, ListenersRead, CountTypes, OtherTypes
<1>3. ASSUME NEW x \in Senders, SendEnds(x) PROVE ClientTypes'
  <2>1. SocketTypes' /\ early' \in BOOLEAN
    BY <1>3, SendTypes DEF SendEnds, OtherTypes
  <2> QED BY <1>3, <2>1
          DEF SendEnds, Released, ListenerTypes, ListenersRead, CountTypes, OtherTypes
<1>4. ASSUME NEW s \in Sockets, ListenStarts(s) PROVE ClientTypes'
  <2>1. IsConnected => held \in Sockets BY DEF IsConnected, SocketTypes
  <2>2. ListenerTypes'
    BY <1>4, <2>1 DEF ListenStarts, ListenerTypes, ListenersRead
  <2> QED BY <1>4, <2>2
          DEF ListenStarts, handlerVars, serverVars, SocketTypes, CountTypes, OtherTypes
<1>5. ASSUME NEW s \in Sockets, Receive(s) PROVE ClientTypes'
  <2> DEFINE on == listener[s].on
  <2>1. on \in Sockets /\ inbox[on] \in Seq(Frames) /\ inbox[on] # <<>>
    BY <1>5 DEF Receive, ListenerTypes, ListenersRead, SocketTypes
  <2>2. inbox' = [inbox EXCEPT ![on] = Tail(inbox[on])] /\ Tail(inbox[on]) \in Seq(Frames)
    BY <1>5, <2>1 DEF Receive
  <2>3. /\ \/ HandleIncomingData(Head(inbox[on])) \/ UNCHANGED <<answer, disposed, teardown>>
        /\ listener' \in {listener, [listener EXCEPT ![s].pc = "ending"]}
        /\ UNCHANGED <<lock, attempts, tasks, handlerVars, serverVars, missed, faults>>
    BY <1>5 DEF Receive
  <2> HIDE DEF on
  <2>4. SocketTypes' BY <2>1, <2>2, <2>3 DEF SocketTypes, handlerVars, serverVars
  <2>5. ListenerTypes' BY <2>3 DEF ListenerTypes, ListenersRead
  <2>6. /\ answer' \in [{"handshake", "token", "result"} -> Answers]
        /\ teardown' \in {"no", "send", "lock", "done"}
    BY <2>3 DEF HandleIncomingData, Complete, OtherTypes, Answers
  <2> QED BY <2>3, <2>4, <2>5, <2>6 DEF serverVars, CountTypes, OtherTypes
<1>6. ASSUME NEW s \in Sockets, ListenEnds(s) PROVE ClientTypes'
  <2>1. SocketTypes' /\ tasks' \in [queued : Nat, tested : Nat]
    BY <1>6, DisconnectTypes DEF ListenEnds
  <2>2. ListenerTypes' BY <1>6 DEF ListenEnds, ListenerTypes, ListenersRead
  <2> QED BY <1>6, <2>1, <2>2 DEF ListenEnds, CountTypes, OtherTypes
<1>7. ASSUME NEW s \in Sockets, Drop(s) \/ Reply(s) \/ Announce(s) PROVE ClientTypes'
  <2>1. faults' \in Nat BY <1>7, FaultType DEF Drop, Reply, Announce, CountTypes
  <2>2. inbox' \in [Sockets -> Seq(Frames)]
    <3>1. inbox[s] \in Seq(Frames) /\ <<>> \in Seq(Frames)
          /\ asked[s] \in {"nothing", "init", "challenge", "result"}
      BY DEF SocketTypes
    <3>2. CASE Drop(s) BY <3>1, <3>2 DEF Drop, SocketTypes
    <3>3. CASE Reply(s)
      <4>1. PICK f \in Frames : inbox' = [inbox EXCEPT ![s] = Append(inbox[s], f)]
        BY <3>1, <3>3 DEF Reply, Frames
      <4>2. Append(inbox[s], f) \in Seq(Frames) BY <3>1
      <4> QED BY <4>1, <4>2 DEF SocketTypes
    <3>4. CASE Announce(s)
      <4>1. PICK f \in {"end", "short_status"} : inbox' = [inbox EXCEPT ![s] = <<f>>]
        BY <3>4 DEF Announce
      <4>2. <<f>> \in Seq(Frames) BY DEF Frames
      <4> QED BY <4>1, <4>2 DEF SocketTypes
    <3> QED BY <1>7, <3>2, <3>3, <3>4
  <2>3. SocketTypes'
    BY <1>7, <2>2 DEF Drop, Reply, Announce, SocketTypes, NetStates, handlerVars, serverVars
  <2> QED BY <1>7, <2>1, <2>3
          DEF Drop, Reply, Announce, serverVars, ListenerTypes, ListenersRead, CountTypes, OtherTypes
<1> QED BY <1>1, <1>2, <1>3, <1>4, <1>5, <1>6, <1>7

LEMMA TypesStep == ClientInv /\ ClientTypes /\ [ClientNext]_clientVars => ClientTypes'
<1>1. ASSUME ClientTypes, UNCHANGED clientVars PROVE ClientTypes'
  BY <1>1 DEF clientVars, ClientTypes, SocketTypes, ListenerTypes, ListenersRead, CountTypes,
              OtherTypes
<1>2. ASSUME ClientInv, ClientTypes, ClientNext PROVE ClientTypes'
  BY <1>2, AttemptTypes, ControlStepTypes, SocketStepTypes DEF ClientNext, AttemptStep
<1> QED BY <1>1, <1>2

LEMMA TypesInit == ClientInit => ClientTypes
<1> SUFFICES ASSUME ClientInit PROVE ClientTypes OBVIOUS
<1>1. SocketTypes BY DEF ClientInit, SocketTypes, NetStates
<1>2. ListenerTypes BY DEF ClientInit, ListenerTypes, ListenersRead, NoListener
<1>3. CountTypes BY DEF ClientInit, CountTypes
<1>4. answer \in [{"handshake", "token", "result"} -> Answers]
  <2>1. answer = [handshake |-> "pending", token |-> "pending", result |-> "pending"]
    BY DEF ClientInit
  <2>2. answer = [k \in {"handshake", "token", "result"} |-> "pending"]
    BY <2>1
  <2> QED BY <2>2 DEF Answers
<1>5. OtherTypes BY <1>4 DEF ClientInit, OtherTypes
<1> QED BY <1>1, <1>2, <1>3, <1>5 DEF ClientTypes

\* The fields of VotingClient and of its request handler keep their types, and
\* the listeners read from sockets, for any sockets, senders and bounds.
THEOREM ClientTypeCorrect == ClientSpec => []ClientTypeOK
<1>1. ClientSpec => []ClientTypes
  BY TypesInit, TypesStep, ClientInvariant, PTL DEF ClientSpec
<1>2. ClientInv /\ ClientTypes => ClientTypeOK BY TypesAre DEF ClientInv
<1> QED BY <1>1, <1>2, ClientInvariant, PTL

-----------------------------------------------------------------------------
(* Whose answer completes a handshake, and who may send an operation.      *)

Dialled == {"dial", "dialing", "greet"}
PastInit == {"login", "token", "result", "register"}

\* No connector enters or leaves the wait for the handshake, or comes to a
\* stage of an attempt from elsewhere.
StagesKept ==
  /\ \A w \in Connectors :
       /\ pc[w] = "handshake" <=> pc'[w] = "handshake"
       /\ pc'[w] \in {"dialing", "greet"} => pc[w] \in {"dialing", "greet"}
       /\ pc'[w] \in PastInit => pc[w] \in PastInit
  /\ pc'["main"] \in Dialled => pc["main"] \in Dialled

\* Two stages inside the lock are those of one thread.
LEMMA OneInside ==
  ASSUME ClientInv, NEW v \in Connectors, NEW w \in Connectors, InsideLock(v), InsideLock(w)
  PROVE  v = w
BY DEF ClientInv, OneAtATime, Connectors

\* While somebody is inside and does not wait for the handshake, no INIT is
\* being answered.
LEMMA NothingUnderWay ==
  ASSUME ClientInv, HandshakeInv, ~disposed, NEW w \in Connectors, InsideLock(w),
         pc[w] # "handshake"
  PROVE  \A s \in Sockets : asked[s] # "init" /\ ~HasInit(s)
<1> SUFFICES ASSUME NEW s \in Sockets, asked[s] = "init" \/ HasInit(s) PROVE FALSE
  OBVIOUS
<1>1. PICK v \in Connectors : pc[v] = "handshake" BY DEF HandshakeInv, AnswerUnderWay
<1>2. InsideLock(v) BY <1>1 DEF InsideLock, Connecting
<1> QED BY <1>1, <1>2, OneInside

\* What one message does.
LEMMA SendEffect ==
  ASSUME SocketTypes, early \in BOOLEAN, NEW kind, NEW ok \in BOOLEAN, SendAsync(kind, ok)
  PROVE  /\ inited' = inited
         /\ \A s \in Sockets : net'[s] = "up" => net[s] = "up"
         /\ ~ok => held = NoSocket \/ net'[held] # "up"
         /\ \/ asked' = asked
            \/ /\ held \in Sockets /\ kind \in {"init", "challenge", "result"}
               /\ asked' = [asked EXCEPT ![held] = kind]
         /\ \/ registered' = registered
            \/ held \in Sockets /\ kind = "register" /\ registered' = registered \cup {held}
         /\ ok /\ kind = "register" => held \in Sockets /\ (net'[held] = "up" => held \in registered')
         /\ early' = early \/ (kind = "operation" /\ held \in Sockets /\ net[held] = "up")
<1>1. IsConnected => held \in Sockets BY DEF IsConnected, SocketTypes
<1>2. CASE ~IsConnected /\ ~ok /\ UNCHANGED <<net, serverVars>>
  <2>1. held = NoSocket \/ net[held] # "up" BY <1>2 DEF IsConnected
  <2> QED BY <1>2, <2>1 DEF serverVars
<1>3. CASE IsConnected /\ net[held] = "up" /\ ok /\ Arrives(held, kind) /\ UNCHANGED net
  <2>1. /\ inited' = inited
        /\ asked' = IF kind \in {"init", "challenge", "result"}
                    THEN [asked EXCEPT ![held] = kind] ELSE asked
        /\ registered' = IF kind = "register" THEN registered \cup {held} ELSE registered
    BY <1>3 DEF Arrives
  <2>2. kind # "operation" => early' = early
    <3>1. early' = (early \/ (kind = "operation" /\ held \notin registered /\ ~disposed))
      BY <1>3 DEF Arrives
    <3> QED BY <3>1
  <2> QED BY <1>1, <1>3, <2>1, <2>2
<1>4. CASE /\ IsConnected /\ net[held] = "lost" /\ UNCHANGED serverVars
           /\ net' = IF ok THEN net ELSE [net EXCEPT ![held] = "broken"]
  BY <1>1, <1>4 DEF serverVars, SocketTypes
<1> QED BY <1>2, <1>3, <1>4 DEF SendAsync

\* A step that leaves the sockets and the handshake's source alone, and takes
\* nobody to a stage that asks for more.
LEMMA QuietHandshake ==
  ASSUME HandshakeInv, ~disposed, UNCHANGED <<held, net, inbox, asked, inited, registered>>,
         answer'.handshake = answer.handshake,
         StagesKept,
         InAttempt => InAttempt'
  PROVE  HandshakeInv'
<1>1. \A s \in Sockets : HasInit(s)' <=> HasInit(s) BY DEF HasInit
<1>2. \A s \in Sockets : AnswerUnderWay(s)'
  BY <1>1 DEF HandshakeInv, AnswerUnderWay, StagesKept
<1>3. \A w \in Connectors : Attempt(w)' BY DEF HandshakeInv, Attempt, PastInit, StagesKept
<1>4. held # NoSocket /\ net[held] = "up" => held \in registered \/ InAttempt'
  BY DEF HandshakeInv
<1> QED BY <1>2, <1>3, <1>4 DEF HandshakeInv, Dialled, StagesKept

\* The socket that the handler holds is closed and forgotten.
LEMMA ClosedHandshake ==
  ASSUME SocketTypes, HandshakeInv, ~disposed, held \in Sockets, held' = NoSocket, Forget(held),
         answer' = answer, pc'["main"] \in Dialled => pc["main"] \in Dialled
  PROVE  HandshakeInv'
<1>1. ASSUME NEW s \in Sockets PROVE AnswerUnderWay(s)'
  <2>1. CASE s = held
    <3>1. inbox'[s] = <<>> /\ asked'[s] = "nothing" BY <2>1 DEF Forget, SocketTypes
    <3>2. ~HasInit(s)' BY <3>1 DEF HasInit
    <3> QED BY <3>1, <3>2 DEF AnswerUnderWay
  <2>2. CASE s # held
    <3>1. asked[s] # "init" /\ ~HasInit(s) BY <2>2 DEF HandshakeInv, AnswerUnderWay
    <3>2. inbox'[s] = inbox[s] /\ asked'[s] = asked[s] BY <2>2 DEF Forget, SocketTypes
    <3>3. ~HasInit(s)' BY <3>1, <3>2 DEF HasInit
    <3> QED BY <3>1, <3>2, <3>3 DEF AnswerUnderWay
  <2> QED BY <2>1, <2>2
<1>2. \A w \in Connectors : Attempt(w)' BY DEF Attempt
<1>3. registered' \subseteq inited' BY DEF HandshakeInv, Forget
<1> QED BY <1>1, <1>2, <1>3 DEF HandshakeInv, Dialled

LEMMA DisconnectHandshake ==
  ASSUME SocketTypes, HandshakeInv, ~disposed, HandleDisconnect, answer' = answer,
         StagesKept,
         InAttempt => InAttempt' \/ IsConnected
  PROVE  HandshakeInv'
<1>1. CASE held = NoSocket
  <2>1. UNCHANGED <<held, net, inbox, asked, inited, registered>>
    BY <1>1 DEF HandleDisconnect, handlerVars, connectionVars
  <2>2. ~IsConnected BY <1>1 DEF IsConnected
  <2> QED BY <2>1, <2>2, QuietHandshake
<1>2. CASE held # NoSocket
  BY <1>2, ClosedHandshake DEF HandleDisconnect, SocketTypes, StagesKept
<1> QED BY <1>1, <1>2

\* A message other than INIT.
LEMMA SendHandshake ==
  ASSUME SocketTypes, HandshakeInv, ~disposed, early \in BOOLEAN,
         NEW kind, kind # "init", NEW ok \in BOOLEAN, SendAsync(kind, ok),
         UNCHANGED <<held, inbox>>, answer'.handshake = answer.handshake, StagesKept,
         kind \in {"challenge", "result"} =>
           /\ \A s \in Sockets : asked[s] # "init" /\ ~HasInit(s)
           /\ \A w \in Connectors : pc'[w] \notin {"dialing", "greet"},
         kind = "register" => held = NoSocket \/ held \in inited,
         InAttempt => InAttempt' \/ held = NoSocket \/ net'[held] # "up" \/ held \in registered'
  PROVE  HandshakeInv'
<1>1. /\ inited' = inited
      /\ \A s \in Sockets : net'[s] = "up" => net[s] = "up"
      /\ \/ asked' = asked
         \/ /\ held \in Sockets /\ kind \in {"challenge", "result"}
            /\ asked' = [asked EXCEPT ![held] = kind]
      /\ \/ registered' = registered
         \/ held \in Sockets /\ kind = "register" /\ registered' = registered \cup {held}
  BY SendEffect
<1>2. \A s \in Sockets : HasInit(s)' <=> HasInit(s) BY DEF HasInit
<1>3. ASSUME NEW s \in Sockets PROVE AnswerUnderWay(s)'
  <2>1. AnswerUnderWay(s) BY DEF HandshakeInv
  <2>2. CASE asked' = asked BY <1>1, <1>2, <2>1, <2>2 DEF AnswerUnderWay, StagesKept
  <2>3. CASE kind \in {"challenge", "result"} /\ asked' = [asked EXCEPT ![held] = kind]
    <3>1. asked[s] # "init" /\ ~HasInit(s) BY <2>3
    <3>2. asked'[s] # "init" BY <2>3, <3>1 DEF SocketTypes
    <3> QED BY <1>2, <3>1, <3>2 DEF AnswerUnderWay
  <2> QED BY <1>1, <2>2, <2>3
<1>4. ASSUME NEW w \in Connectors PROVE Attempt(w)'
  <2>1. Attempt(w) BY DEF HandshakeInv
  <2>2. pc'[w] \in {"dialing", "greet"} => asked' = asked BY <1>1
  <2> QED BY <1>1, <2>1, <2>2 DEF Attempt, StagesKept, PastInit
<1>5. registered' \subseteq inited'
  <2>1. registered \subseteq inited BY DEF HandshakeInv
  <2>2. held \in Sockets => held # NoSocket BY ClientAssumption DEF ClientAssumption
  <2> QED BY <1>1, <2>1, <2>2
<1>6. held # NoSocket /\ net'[held] = "up" => held \in registered' \/ InAttempt'
  <2>1. held # NoSocket => held \in Sockets BY DEF SocketTypes
  <2> QED BY <1>1, <2>1 DEF HandshakeInv
<1>7. pc'["main"] \in {"dial", "dialing", "greet"} => answer'.handshake = "pending"
  BY DEF HandshakeInv, StagesKept, Dialled
<1> QED BY <1>3, <1>4, <1>5, <1>6, <1>7 DEF HandshakeInv

LEMMA DialHandshake ==
  ASSUME ClientInv, ClientTypes, HandshakeInv, ~disposed, NEW w \in Connectors, Dial(w)
  PROVE  HandshakeInv'
<1> DEFINE fresh == {s \in Sockets : Unreferenced(s)}
           t == CHOOSE s \in fresh : TRUE
<1>1. t \in Sockets BY DEF Dial
<1>2. /\ pc[w] = "dial" /\ pc' = [pc EXCEPT ![w] = "dialing"]
      /\ held' = t /\ net' = [net EXCEPT ![t] = "dialing"] /\ Forget(t) /\ answer' = answer
  BY DEF Dial, Goto
<1> HIDE DEF t
<1>3. SocketTypes /\ pc \in [Connectors -> PCs] BY DEF ClientTypes, ClientInv, ControlTypes
<1>4. InsideLock(w) BY <1>2 DEF InsideLock, Connecting
<1>5. \A s \in Sockets : asked[s] # "init" /\ ~HasInit(s) BY <1>2, <1>4, NothingUnderWay
<1>6. \A s \in Sockets :
        /\ inbox'[s] = IF s = t THEN <<>> ELSE inbox[s]
        /\ asked'[s] = IF s = t THEN "nothing" ELSE asked[s]
  BY <1>1, <1>2, <1>3 DEF Forget, SocketTypes
<1>7. \A s \in Sockets : asked'[s] # "init" /\ ~HasInit(s)'
  BY <1>5, <1>6 DEF HasInit
<1>8. \A s \in Sockets : AnswerUnderWay(s)' BY <1>7 DEF AnswerUnderWay
<1>9. \A v \in Connectors : v # w => ~InsideLock(v) BY <1>4, OneInside
<1>10. \A v \in Connectors : pc'[v] \in {"dialing", "greet", "handshake"} \cup PastInit
                             => v = w /\ pc'[v] = "dialing"
  BY <1>2, <1>3, <1>9 DEF InsideLock, Connecting, PastInit
<1>11. \A v \in Connectors : Attempt(v)'
  BY <1>1, <1>2, <1>6, <1>10 DEF Attempt, PastInit, Forget
<1>12. registered' \subseteq inited' BY <1>2 DEF Forget, HandshakeInv
<1>13. net'[held'] # "up" BY <1>1, <1>2, <1>3 DEF SocketTypes
<1>14. pc'["main"] \in {"dial", "dialing", "greet"} => answer'.handshake = "pending"
  <2>1. pc'["main"] \in Dialled => pc["main"] \in Dialled
    BY <1>2, <1>3 DEF Dialled, Connectors
  <2> QED BY <1>2, <2>1 DEF HandshakeInv, Dialled
<1> QED BY <1>8, <1>11, <1>12, <1>13, <1>14 DEF HandshakeInv

LEMMA DialEndsHandshake ==
  ASSUME ClientInv, ClientTypes, HandshakeInv, ~disposed, NEW w \in Connectors, DialEnds(w)
  PROVE  HandshakeInv'
<1>1. SocketTypes /\ pc \in [Connectors -> PCs] BY DEF ClientTypes, ClientInv, ControlTypes
<1>2. /\ pc[w] = "dialing" /\ UNCHANGED <<held, inbox, asked, inited, registered, answer>>
      /\ \E next \in {"greet", "fail"} : pc' = [pc EXCEPT ![w] = next]
  BY DEF DialEnds, Goto, serverVars
<1>3. \A s \in Sockets : HasInit(s)' <=> HasInit(s) BY <1>2 DEF HasInit
<1>4. StagesKept
  BY <1>1, <1>2 DEF StagesKept, PastInit, Dialled, Connectors
<1>5. \A s \in Sockets : AnswerUnderWay(s)'
  BY <1>2, <1>3, <1>4 DEF HandshakeInv, AnswerUnderWay, StagesKept
<1>6. \A v \in Connectors : Attempt(v)'
  BY <1>2, <1>4 DEF HandshakeInv, Attempt, PastInit, StagesKept
<1>7. held # NoSocket /\ net'[held] = "up" => held \in registered \/ InAttempt'
  <2>1. CASE held # NoSocket /\ pc' = [pc EXCEPT ![w] = "greet"]
    BY <1>1, <2>1 DEF InAttempt
  <2>2. CASE held # NoSocket /\ net' = [net EXCEPT ![held] = "closed"]
    BY <1>1, <2>2 DEF SocketTypes
  <2> QED BY <2>1, <2>2 DEF DialEnds, Goto
<1> QED BY <1>2, <1>4, <1>5, <1>6, <1>7 DEF HandshakeInv, StagesKept, Dialled

\* INIT goes out on a fresh socket, and nothing else is being answered.
LEMMA GreetHandshake ==
  ASSUME ClientInv, ClientTypes, HandshakeInv, ~disposed, NEW w \in Connectors, Greet(w)
  PROVE  HandshakeInv'
<1>1. SocketTypes /\ pc \in [Connectors -> PCs] /\ early \in BOOLEAN
      /\ answer \in [{"handshake", "token", "result"} -> Answers]
  BY DEF ClientTypes, ClientInv, ControlTypes, OtherTypes
<1>2. PICK ok \in BOOLEAN :
        SendAsync("init", ok) /\ pc' = [pc EXCEPT ![w] = IF ok THEN "handshake" ELSE "fail"]
  BY DEF Greet, Goto
<1>3. /\ pc[w] = "greet" /\ UNCHANGED <<held, inbox>>
      /\ answer' = IF w = "loop" THEN [answer EXCEPT !.handshake = "pending"] ELSE answer
  BY DEF Greet
<1>4. answer'.handshake = "pending"
  <2>1. CASE w = "main" BY <1>3, <2>1 DEF HandshakeInv
  <2>2. CASE w = "loop" BY <1>1, <1>3, <2>2
  <2> QED BY <2>1, <2>2 DEF Connectors
<1>5. /\ inited' = inited /\ registered' = registered
      /\ \A s \in Sockets : net'[s] = "up" => net[s] = "up"
      /\ ~ok => (held = NoSocket \/ net'[held] # "up") /\ asked' = asked
      /\ \/ asked' = asked
         \/ held \in Sockets /\ asked' = [asked EXCEPT ![held] = "init"]
  <2>1. ~ok => asked' = asked BY <1>2 DEF SendAsync, serverVars
  <2> QED BY <1>1, <1>2, <2>1, SendEffect
<1>6. InsideLock(w) BY <1>3 DEF InsideLock, Connecting
<1>7. \A s \in Sockets : asked[s] # "init" /\ ~HasInit(s) BY <1>3, <1>6, NothingUnderWay
<1>8. \A s \in Sockets : ~HasInit(s)' BY <1>3, <1>7 DEF HasInit
<1>9. ASSUME NEW s \in Sockets PROVE AnswerUnderWay(s)'
  <2>1. CASE asked'[s] # "init" BY <1>8, <2>1 DEF AnswerUnderWay
  <2>2. CASE asked'[s] = "init"
    <3>1. ok /\ s = held /\ held \in Sockets BY <1>1, <1>5, <1>7, <2>2 DEF SocketTypes
    <3>2. pc'[w] = "handshake" BY <1>1, <1>2, <3>1
    <3>3. held # NoSocket BY <3>1, ClientAssumption DEF ClientAssumption
    <3>4. inbox[held] = <<>> /\ held \notin inited
      BY <1>3, <3>3 DEF HandshakeInv, Attempt
    <3> QED BY <1>3, <1>4, <1>5, <1>8, <3>1, <3>2, <3>4 DEF AnswerUnderWay
  <2> QED BY <2>1, <2>2
<1>10. \A v \in Connectors : v # w => ~InsideLock(v) BY <1>6, OneInside
<1>11. \A v \in Connectors : pc'[v] \notin {"dialing", "greet"} \cup PastInit
  BY <1>1, <1>2, <1>10 DEF InsideLock, Connecting, PastInit
<1>12. \A v \in Connectors : Attempt(v)'
  BY <1>4, <1>11 DEF Attempt, PastInit
<1>13. held # NoSocket /\ net'[held] = "up" => held \in registered' \/ InAttempt'
  <2>1. ok => InAttempt' BY <1>1, <1>2 DEF InAttempt
  <2> QED BY <1>5, <2>1
<1>14. registered' \subseteq inited' BY <1>5 DEF HandshakeInv
<1> QED BY <1>3, <1>4, <1>9, <1>12, <1>13, <1>14 DEF HandshakeInv

\* The wait for the handshake ends with the answer to this attempt's INIT.
LEMMA HandshakeHandshake ==
  ASSUME ClientInv, ClientTypes, HandshakeInv, ~disposed', ~disposed,
         NEW w \in Connectors, Handshake(w)
  PROVE  HandshakeInv'
<1>1. SocketTypes /\ pc \in [Connectors -> PCs] BY DEF ClientTypes, ClientInv, ControlTypes
<1>2. /\ pc[w] = "handshake" /\ UNCHANGED <<answer, held, net, inbox, asked, inited, registered>>
      /\ \/ /\ answer.handshake = "ok"
            /\ \E next \in {"login", "register"} : pc' = [pc EXCEPT ![w] = next]
         \/ answer.handshake = "failed" /\ w = "loop" /\ pc' = [pc EXCEPT ![w] = "fail"]
  BY DEF Handshake, Goto, handlerVars, connectionVars
<1>3. \A s \in Sockets : asked[s] # "init" /\ ~HasInit(s)
  BY <1>2 DEF HandshakeInv, AnswerUnderWay
<1>4. \A s \in Sockets : AnswerUnderWay(s)'
  BY <1>2, <1>3 DEF AnswerUnderWay, HasInit
<1>5. InsideLock(w) BY <1>2 DEF InsideLock, Connecting
<1>6. \A v \in Connectors : v # w => ~InsideLock(v) BY <1>5, OneInside
<1>7. \A v \in Connectors : pc'[v] \in {"dialing", "greet", "handshake"} \cup PastInit
                            => v = w /\ answer.handshake = "ok" /\ pc'[v] \in PastInit
  BY <1>1, <1>2, <1>6 DEF InsideLock, Connecting, PastInit
<1>8. answer.handshake = "ok" => held = NoSocket \/ held \in inited
  BY <1>2 DEF HandshakeInv, Attempt
<1>9. \A v \in Connectors : Attempt(v)'
  BY <1>2, <1>7, <1>8 DEF Attempt, PastInit
<1>10. InAttempt' BY <1>1, <1>2 DEF InAttempt, Connectors
<1>11. pc'["main"] \notin Dialled
  BY <1>1, <1>2, <1>6 DEF Dialled, InsideLock, Connecting, Connectors
<1>12. registered' \subseteq inited' BY <1>2 DEF HandshakeInv
<1> QED BY <1>4, <1>9, <1>10, <1>11, <1>12 DEF HandshakeInv, Dialled

LEMMA LoginHandshake ==
  ASSUME ClientInv, ClientTypes, HandshakeInv, ~disposed, NEW w \in Connectors, LoginStep(w)
  PROVE  HandshakeInv'
<1>1. SocketTypes /\ pc \in [Connectors -> PCs] /\ early \in BOOLEAN
      /\ answer \in [{"handshake", "token", "result"} -> Answers]
  BY DEF ClientTypes, ClientInv, ControlTypes, OtherTypes
<1>2. PICK ok \in BOOLEAN, kind \in {"challenge", "result"} :
        /\ SendAsync(kind, ok)
        /\ \E next \in {"token", "result"} : pc' = [pc EXCEPT ![w] = IF ok THEN next ELSE "fail"]
  BY DEF LoginStep, Goto
<1>3. pc[w] \in {"login", "token"} /\ UNCHANGED <<held, inbox>>
  BY DEF LoginStep
<1>4. answer'.handshake = answer.handshake
  BY <1>1 DEF LoginStep
<1>5. InsideLock(w) BY <1>3 DEF InsideLock, Connecting
<1>6. \A s \in Sockets : asked[s] # "init" /\ ~HasInit(s) BY <1>3, <1>5, NothingUnderWay
<1>7. \A v \in Connectors : v # w => ~InsideLock(v) BY <1>5, OneInside
<1>8. \A v \in Connectors : pc'[v] \notin {"dialing", "greet"}
  BY <1>1, <1>2, <1>7 DEF InsideLock, Connecting
<1>9. StagesKept
  BY <1>1, <1>2, <1>3 DEF StagesKept, PastInit, Dialled, Connectors
<1>10. InAttempt' \/ held = NoSocket \/ net'[held] # "up"
  <2>1. ok => InAttempt' BY <1>1, <1>2 DEF InAttempt
  <2>2. ~ok => held = NoSocket \/ net'[held] # "up" BY <1>1, <1>2, SendEffect
  <2> QED BY <2>1, <2>2
<1>11. kind # "init" /\ kind # "register" OBVIOUS
<1> QED BY <1>1, <1>2, <1>3, <1>4, <1>6, <1>8, <1>9, <1>10, <1>11, SendHandshake

LEMMA RegisterHandshake ==
  ASSUME ClientInv, ClientTypes, HandshakeInv, ~disposed, NEW w \in Connectors, Register(w)
  PROVE  HandshakeInv'
<1>1. SocketTypes /\ pc \in [Connectors -> PCs] /\ early \in BOOLEAN
  BY DEF ClientTypes, ClientInv, ControlTypes, OtherTypes
<1>2. PICK ok \in BOOLEAN :
        /\ SendAsync("register", ok)
        /\ pc' = [pc EXCEPT ![w] = IF ok THEN "finish" ELSE "fail"]
  BY DEF Register, Goto
<1>3. pc[w] = "register" /\ UNCHANGED <<held, inbox, answer>>
  BY DEF Register
<1>4. StagesKept
  BY <1>1, <1>2, <1>3 DEF StagesKept, PastInit, Dialled, Connectors
<1>5. held = NoSocket \/ held \in inited BY <1>3 DEF HandshakeInv, Attempt
<1>6. held = NoSocket \/ net'[held] # "up" \/ held \in registered'
  BY <1>1, <1>2, SendEffect
<1>7. "register" # "init" /\ "register" \notin {"challenge", "result"} OBVIOUS
<1> QED BY <1>1, <1>2, <1>3, <1>4, <1>5, <1>6, <1>7, SendHandshake

\* A sender is alone inside the lock: the connection it sends on has registered.
LEMMA OperationHandshake ==
  ASSUME ClientInv, ClientTypes, HandshakeInv, ~disposed, NEW x \in Senders, SendEnds(x)
  PROVE  HandshakeInv' /\ (early' = early)
<1>1. SocketTypes /\ early \in BOOLEAN BY DEF ClientTypes, OtherTypes
<1>2. PICK ok \in BOOLEAN : SendAsync("operation", ok) BY DEF SendEnds
<1>3. UNCHANGED <<held, inbox, answer, pc>> BY DEF SendEnds
<1>4. StagesKept BY <1>3 DEF StagesKept
<1>5. ~InsideLock("main") /\ ~InsideLock("loop")
  BY DEF SendEnds, ClientInv, OneAtATime
<1>6. ~InAttempt BY <1>5 DEF InAttempt, InsideLock, Connecting, Connectors
<1>7. "operation" # "init" /\ "operation" \notin {"challenge", "result"}
      /\ "operation" # "register"
  OBVIOUS
<1>8. HandshakeInv' BY <1>1, <1>2, <1>3, <1>4, <1>6, <1>7, SendHandshake
<1>9. early' = early
  <2>1. CASE UNCHANGED serverVars BY <2>1 DEF serverVars
  <2>2. CASE IsConnected /\ net[held] = "up" /\ Arrives(held, "operation")
    <3>1. held \in registered BY <1>6, <2>2 DEF HandshakeInv, IsConnected
    <3>2. early' = (early \/ ("operation" = "operation" /\ held \notin registered /\ ~disposed))
      BY <2>2 DEF Arrives
    <3> QED BY <1>1, <3>1, <3>2
  <2> QED BY <1>2, <2>1, <2>2 DEF SendAsync
<1> QED BY <1>8, <1>9

\* The steps of ConnectAsync, the loop, the tasks and the senders that touch
\* no socket.
LEMMA ControlHandshake ==
  ASSUME ClientInv, ClientTypes, HandshakeInv, ~disposed, ~disposed',
         \/ ConnectAsync \/ ConnectFails \/ ConnectReturns
         \/ TaskTests \/ TaskEnters
         \/ LoopBefore \/ LoopLocks \/ AttemptFails \/ LoopUnlocks \/ LoopEnds
         \/ \E x \in Senders : SendStarts(x) \/ SendLocks(x)
         \/ \E w \in Connectors : LoggedIn(w) \/ Finish(w)
         \/ \E s \in Sockets : ListenStarts(s)
         \/ Dispose \/ TeardownLock \/ SetTargetURI
  PROVE  HandshakeInv' /\ early' = early
<1> USE DEF Connectors
<1>1. pc \in [Connectors -> PCs] /\ answer \in [{"handshake", "token", "result"} -> Answers]
  BY DEF ClientInv, ControlTypes, ClientTypes, OtherTypes
<1>2. UNCHANGED <<held, net, inbox, asked, inited, registered, early>>
  BY DEF ConnectAsync, ConnectFails, ConnectReturns, TaskTests, TaskEnters, LoopBefore, LoopLocks,
         AttemptFails, LoopUnlocks, LoopEnds, SendStarts, SendLocks, Dispose, TeardownLock,
         SetTargetURI, LoggedIn, Finish, ListenStarts, handlerVars, serverVars
<1>3. CASE ConnectAsync
  <2>1. /\ pc["main"] = "idle" /\ lock = "free" /\ answer'.handshake = "pending"
        /\ pc' = [pc EXCEPT !["main"] = "dial"]
    BY <1>1, <1>3 DEF ConnectAsync, Goto
  <2>2. \A s \in Sockets : AnswerUnderWay(s)'
    <3>1. \A s \in Sockets : HasInit(s)' <=> HasInit(s) BY <1>2 DEF HasInit
    <3>2. \A w \in Connectors : pc[w] = "handshake" => pc'[w] = "handshake" BY <1>1, <2>1
    <3> QED BY <1>2, <2>1, <3>1, <3>2 DEF HandshakeInv, AnswerUnderWay
  <2>3. \A w \in Connectors : Attempt(w)'
    BY <1>1, <1>2, <2>1 DEF HandshakeInv, Attempt
  <2>4. InAttempt => InAttempt' BY <1>1, <2>1 DEF InAttempt
  <2> QED BY <1>2, <2>1, <2>2, <2>3, <2>4 DEF HandshakeInv
<1>4. CASE ConnectFails
  <2>1. /\ pc["main"] \in {"fail", "closing"} /\ pc' = [pc EXCEPT !["main"] = "failed"]
        /\ answer'.handshake \in {answer.handshake, "failed"}
    BY <1>1, <1>4 DEF ConnectFails, Goto
  <2>2. InsideLock("main") BY <2>1 DEF InsideLock, Connecting
  <2>3. \A s \in Sockets : asked[s] # "init" /\ ~HasInit(s) BY <2>1, <2>2, NothingUnderWay
  <2>4. \A s \in Sockets : AnswerUnderWay(s)'
    BY <1>2, <2>3 DEF AnswerUnderWay, HasInit
  <2>5. \A w \in Connectors : Attempt(w)'
    BY <1>1, <1>2, <2>1 DEF HandshakeInv, Attempt
  <2>6. InAttempt => InAttempt' BY <1>1, <2>1 DEF InAttempt
  <2>7. pc'["main"] \notin Dialled BY <1>1, <2>1 DEF Dialled
  <2> QED BY <1>2, <2>4, <2>5, <2>6, <2>7 DEF HandshakeInv, Dialled
<1>5. CASE ~ConnectAsync /\ ~ConnectFails
  <2>1. answer' = answer
    BY <1>5 DEF ConnectReturns, TaskTests, TaskEnters, LoopBefore, LoopLocks, AttemptFails,
         LoopUnlocks, LoopEnds, SendStarts, SendLocks, Dispose, TeardownLock, SetTargetURI,
         LoggedIn, Finish, ListenStarts
  <2>2. CASE UNCHANGED pc
    <3>1. StagesKept /\ (InAttempt => InAttempt') BY <2>2 DEF StagesKept, InAttempt
    <3> QED BY <1>2, <2>1, <3>1, QuietHandshake
  <2>3. CASE ConnectReturns \/ TaskEnters \/ LoopBefore \/ LoopLocks \/ LoopUnlocks \/ LoopEnds
    <3>1. StagesKept
      BY <1>1, <2>3 DEF StagesKept, ConnectReturns, TaskEnters, LoopBefore, LoopLocks,
           LoopUnlocks, LoopEnds, Goto, PastInit, Dialled, ClientInv, LoopHasFlag
    <3>2. InAttempt => InAttempt'
      BY <1>1, <2>3 DEF InAttempt, ConnectReturns, TaskEnters, LoopBefore, LoopLocks,
           LoopUnlocks, LoopEnds, Goto, ClientInv, LoopHasFlag
    <3> QED BY <1>2, <2>1, <3>1, <3>2, QuietHandshake
  <2>4. CASE AttemptFails
    <3>1. pc["loop"] = "fail" /\ pc' = [pc EXCEPT !["loop"] = "top"]
      BY <2>4 DEF AttemptFails, Goto
    <3>2. StagesKept BY <1>1, <3>1 DEF StagesKept, PastInit, Dialled
    <3>3. InAttempt' BY <1>1, <3>1 DEF InAttempt
    <3> QED BY <1>2, <2>1, <3>2, <3>3, QuietHandshake
  <2>5. ASSUME NEW w \in Connectors, LoggedIn(w) PROVE HandshakeInv'
    <3>1. pc[w] = "result" /\ pc' = [pc EXCEPT ![w] = "register"]
      BY <2>5 DEF LoggedIn, Goto
    <3>2. StagesKept BY <1>1, <3>1 DEF StagesKept, PastInit, Dialled
    <3>3. InAttempt' BY <1>1, <3>1 DEF InAttempt
    <3> QED BY <1>2, <2>1, <3>2, <3>3, QuietHandshake
  <2>6. ASSUME NEW w \in Connectors, Finish(w) PROVE HandshakeInv'
    <3>1. pc[w] = "finish" /\ pc' = [pc EXCEPT ![w] = "unlock"]
      BY <2>6 DEF Finish, Goto
    <3>2. StagesKept BY <1>1, <3>1 DEF StagesKept, PastInit, Dialled
    <3>3. InAttempt => InAttempt' BY <1>1, <3>1 DEF InAttempt
    <3> QED BY <1>2, <2>1, <3>2, <3>3, QuietHandshake
  <2> QED BY <1>2, <1>5, <2>2, <2>3, <2>4, <2>5, <2>6
      DEF TaskTests, SendStarts, SendLocks, Dispose, TeardownLock, SetTargetURI, ListenStarts
<1> QED BY <1>2, <1>3, <1>4, <1>5

\* The old connection is closed before the loop dials.
LEMMA TopHandshake ==
  ASSUME ClientInv, ClientTypes, HandshakeInv, ~disposed, LoopTop
  PROVE  HandshakeInv'
<1> USE DEF Connectors
<1>1. SocketTypes /\ pc \in [Connectors -> PCs] BY DEF ClientTypes, ClientInv, ControlTypes
<1>2. pc["loop"] = "top" /\ pc' = [pc EXCEPT !["loop"] = "dial"] /\ answer' = answer
  BY DEF LoopTop, Goto
<1>3. StagesKept BY <1>1, <1>2 DEF StagesKept, PastInit, Dialled
<1>4. CASE IsConnected
  <2>1. HandleDisconnect BY <1>4 DEF LoopTop
  <2> QED BY <1>1, <1>2, <1>3, <1>4, <2>1, DisconnectHandshake
<1>5. CASE ~IsConnected
  <2>1. UNCHANGED <<held, net, inbox, asked, inited, registered>>
    BY <1>5 DEF LoopTop, handlerVars, connectionVars
  <2>2. held = NoSocket \/ net[held] # "up" BY <1>5 DEF IsConnected
  <2>3. \A s \in Sockets : HasInit(s)' <=> HasInit(s) BY <2>1 DEF HasInit
  <2>4. \A s \in Sockets : AnswerUnderWay(s)'
    BY <1>2, <1>3, <2>1, <2>3 DEF HandshakeInv, AnswerUnderWay, StagesKept
  <2>5. \A w \in Connectors : Attempt(w)'
    BY <1>2, <1>3, <2>1 DEF HandshakeInv, Attempt, PastInit, StagesKept
  <2> QED BY <1>2, <1>3, <2>1, <2>2, <2>4, <2>5 DEF HandshakeInv, StagesKept, Dialled
<1> QED BY <1>4, <1>5

\* A frame that completes the handshake is the one answer to the INIT of the
\* connection that the handler holds.
LEMMA ReceiveHandshake ==
  ASSUME ClientInv, ClientTypes, HandshakeInv, ~disposed, ~disposed', NEW s \in Sockets, Receive(s)
  PROVE  HandshakeInv'
<1>1. SocketTypes /\ answer \in [{"handshake", "token", "result"} -> Answers]
  BY DEF ClientTypes, OtherTypes
<1>0. PICK on \in Sockets : on = listener[s].on
  BY DEF Receive, ClientTypes, ListenerTypes, ListenersRead
<1> DEFINE frame == Head(inbox[on])
<1>2. on \in Sockets /\ inbox[on] \in Seq(Frames) /\ inbox[on] # <<>>
  BY <1>0, <1>1 DEF Receive, SocketTypes
<1>3. /\ inbox' = [inbox EXCEPT ![on] = Tail(inbox[on])]
      /\ HandleIncomingData(frame) \/ UNCHANGED answer
      /\ UNCHANGED <<pc, held, net, asked, inited, registered, early>>
  BY <1>0 DEF Receive, handlerVars, serverVars
<1>4. frame \in InitFrames => HasInit(on)
  <2>1. 1 \in DOMAIN inbox[on] /\ inbox[on][1] = frame BY <1>2
  <2> QED BY <2>1 DEF HasInit
<1>5. HasInit(on) => Len(inbox[on]) = 1 /\ asked[on] = "nothing" /\ on \in inited /\ on = held
                     /\ \E w \in Connectors : pc[w] = "handshake"
  BY <1>2 DEF HandshakeInv, AnswerUnderWay
<1>6. \A t \in Sockets : inbox'[t] = IF t = on THEN Tail(inbox[on]) ELSE inbox[t]
  BY <1>1, <1>2, <1>3 DEF SocketTypes
<1>7. ~HasInit(on)'
  <2>1. CASE HasInit(on)
    <3>1. Len(inbox[on]) = 1 BY <1>5, <2>1
    <3>2. ASSUME NEW i \in DOMAIN Tail(inbox[on]) PROVE FALSE
      <4>1. i \in 1..(Len(inbox[on]) - 1) BY <1>2
      <4> QED BY <3>1, <4>1
    <3>3. DOMAIN inbox'[on] = {} BY <1>2, <1>6, <3>2
    <3> QED BY <3>3 DEF HasInit
  <2>2. CASE ~HasInit(on)
    <3>1. \A i \in DOMAIN Tail(inbox[on]) : i + 1 \in DOMAIN inbox[on]
                                            /\ Tail(inbox[on])[i] = inbox[on][i + 1]
      BY <1>2
    <3> QED BY <1>2, <1>6, <2>2, <3>1 DEF HasInit
  <2> QED BY <2>1, <2>2
<1>8. \A t \in Sockets : t # on => (HasInit(t)' <=> HasInit(t)) BY <1>6 DEF HasInit
<1>9. \/ answer'.handshake = answer.handshake
      \/ frame \in InitFrames
  BY <1>1, <1>3 DEF HandleIncomingData, Complete, InitFrames
<1>10. CASE HasInit(on)
  <2>1. \A t \in Sockets : asked[t] # "init" /\ (t # on => ~HasInit(t))
    BY <1>2, <1>5, <1>10 DEF HandshakeInv, AnswerUnderWay
  <2>2. \A t \in Sockets : AnswerUnderWay(t)'
    BY <1>3, <1>7, <1>8, <2>1 DEF AnswerUnderWay
  <2>3. PICK w \in Connectors : pc[w] = "handshake" BY <1>5, <1>10
  <2>4. InsideLock(w) BY <2>3 DEF InsideLock, Connecting
  <2>5. \A v \in Connectors : v # w => ~InsideLock(v) BY <2>4, OneInside
  <2>6. \A v \in Connectors : pc[v] \notin Dialled
    BY <2>3, <2>5 DEF Dialled, InsideLock, Connecting
  <2>7. \A v \in Connectors : Attempt(v)'
    BY <1>3, <1>5, <1>10, <2>6 DEF Attempt, Dialled
  <2>8. InAttempt => InAttempt' BY <1>3 DEF InAttempt
  <2> QED BY <1>3, <2>2, <2>6, <2>7, <2>8 DEF HandshakeInv, Dialled, Connectors
<1>11. CASE ~HasInit(on)
  <2>1. answer'.handshake = answer.handshake BY <1>4, <1>9, <1>11
  <2>2. \A t \in Sockets : (HasInit(t)' <=> HasInit(t))
    BY <1>7, <1>8, <1>11
  <2>3. \A t \in Sockets : inbox[t] = <<>> => t # on /\ inbox'[t] = <<>>
    BY <1>2, <1>6
  <2>4. \A t \in Sockets : HasInit(t) => inbox'[t] = inbox[t]
    BY <1>6, <1>11
  <2>5. \A t \in Sockets : AnswerUnderWay(t)'
    BY <1>3, <2>1, <2>2, <2>3, <2>4 DEF HandshakeInv, AnswerUnderWay
  <2>6. \A v \in Connectors : Attempt(v)'
    BY <1>1, <1>3, <2>1, <2>3 DEF HandshakeInv, Attempt, SocketTypes
  <2>7. InAttempt => InAttempt' BY <1>3 DEF InAttempt
  <2> QED BY <1>3, <2>1, <2>5, <2>6, <2>7 DEF HandshakeInv
<1> QED BY <1>10, <1>11

LEMMA ListenEndsHandshake ==
  ASSUME ClientTypes, HandshakeInv, ~disposed, NEW s \in Sockets, ListenEnds(s)
  PROVE  HandshakeInv'
<1>1. SocketTypes BY DEF ClientTypes
<1>2. HandleDisconnect /\ answer' = answer /\ pc' = pc BY DEF ListenEnds
<1>3. StagesKept /\ (InAttempt => InAttempt') BY <1>2 DEF StagesKept, InAttempt
<1> QED BY <1>1, <1>2, <1>3, DisconnectHandshake

\* The network and the server.
LEMMA DropHandshake ==
  ASSUME ClientTypes, HandshakeInv, ~disposed, NEW s \in Sockets, Drop(s)
  PROVE  HandshakeInv'
<1>1. SocketTypes BY DEF ClientTypes
<1>2. /\ net' = [net EXCEPT ![s] = "lost"] /\ UNCHANGED <<held, asked, inited, registered, answer, pc>>
      /\ inbox' = inbox \/ inbox' = [inbox EXCEPT ![s] = <<>>]
  BY DEF Drop, serverVars
<1>3. \A t \in Sockets : inbox'[t] = inbox[t] \/ inbox'[t] = <<>> BY <1>1, <1>2 DEF SocketTypes
<1>4. \A t \in Sockets : HasInit(t)' => HasInit(t) /\ inbox'[t] = inbox[t]
  BY <1>3 DEF HasInit
<1>5. \A t \in Sockets : AnswerUnderWay(t)'
  BY <1>2, <1>3, <1>4 DEF HandshakeInv, AnswerUnderWay
<1>6. \A w \in Connectors : Attempt(w)'
  BY <1>1, <1>2, <1>3 DEF HandshakeInv, Attempt, SocketTypes
<1>7. held # NoSocket /\ net'[held] = "up" => net[held] = "up" BY <1>1, <1>2 DEF SocketTypes
<1>8. InAttempt => InAttempt' BY <1>2 DEF InAttempt
<1> QED BY <1>2, <1>5, <1>6, <1>7, <1>8 DEF HandshakeInv

LEMMA ReplyHandshake ==
  ASSUME ClientTypes, HandshakeInv, ~disposed, NEW s \in Sockets, Reply(s)
  PROVE  HandshakeInv'
<1>1. SocketTypes BY DEF ClientTypes
<1>2. /\ UNCHANGED <<held, net, registered, answer, pc>> /\ asked[s] # "nothing"
      /\ asked' = [asked EXCEPT ![s] = "nothing"]
      /\ inited' = IF asked[s] = "init" THEN inited \cup {s} ELSE inited
  BY DEF Reply, handlerVars
<1>3. PICK f \in Frames : /\ inbox' = [inbox EXCEPT ![s] = Append(inbox[s], f)]
                          /\ f \in InitFrames <=> asked[s] = "init"
  BY <1>1, <1>2 DEF Reply, Frames, InitFrames, SocketTypes
<1>4. inbox[s] \in Seq(Frames) BY <1>1 DEF SocketTypes
<1>5. \A t \in Sockets : t # s => /\ inbox'[t] = inbox[t] /\ asked'[t] = asked[t]
                                 /\ (HasInit(t)' <=> HasInit(t)) /\ (t \in inited' <=> t \in inited)
  BY <1>1, <1>2, <1>3 DEF SocketTypes, HasInit
<1>6. inbox'[s] = Append(inbox[s], f) /\ asked'[s] = "nothing"
  BY <1>1, <1>2, <1>3 DEF SocketTypes
<1>7. ~HasInit(s) BY <1>2 DEF HandshakeInv, AnswerUnderWay
<1>8. HasInit(s)' => asked[s] = "init"
  <2> SUFFICES ASSUME NEW i \in DOMAIN Append(inbox[s], f), Append(inbox[s], f)[i] \in InitFrames
               PROVE  asked[s] = "init"
    BY <1>6 DEF HasInit
  <2>1. i \in DOMAIN inbox[s] => Append(inbox[s], f)[i] = inbox[s][i] BY <1>4
  <2>2. i \notin DOMAIN inbox[s] => Append(inbox[s], f)[i] = f BY <1>4
  <2> QED BY <1>3, <1>7, <2>1, <2>2 DEF HasInit
<1>9. ASSUME NEW t \in Sockets PROVE AnswerUnderWay(t)'
  <2>1. CASE t # s BY <1>2, <1>5, <2>1 DEF HandshakeInv, AnswerUnderWay
  <2>2. CASE t = s
    <3>1. CASE HasInit(s)'
      <4>1. asked[s] = "init" BY <1>8, <3>1
      <4>2. inbox[s] = <<>> BY <4>1 DEF HandshakeInv, AnswerUnderWay
      <4>3. Len(inbox'[s]) = 1 BY <1>6, <4>2
      <4> QED BY <1>2, <1>6, <2>2, <4>1, <4>3 DEF HandshakeInv, AnswerUnderWay
    <3>2. CASE ~HasInit(s)' BY <1>6, <2>2, <3>2 DEF AnswerUnderWay
    <3> QED BY <3>1, <3>2
  <2> QED BY <2>1, <2>2
<1>10. ASSUME NEW w \in Connectors PROVE Attempt(w)'
  <2>1. Attempt(w) BY DEF HandshakeInv
  <2>2. inited \subseteq inited' BY <1>2
  <2>3. held # NoSocket => held \in Sockets BY <1>1 DEF SocketTypes
  <2>4. held # NoSocket /\ pc[w] \in {"dialing", "greet"} => held # s
    BY <1>2, <2>1 DEF Attempt
  <2> QED BY <1>2, <1>5, <2>1, <2>2, <2>3, <2>4 DEF Attempt
<1>11. registered' \subseteq inited' BY <1>2 DEF HandshakeInv
<1>12. InAttempt => InAttempt' BY <1>2 DEF InAttempt
<1> QED BY <1>2, <1>9, <1>10, <1>11, <1>12 DEF HandshakeInv

LEMMA AnnounceHandshake ==
  ASSUME ClientTypes, HandshakeInv, ~disposed, NEW s \in Sockets, Announce(s)
  PROVE  HandshakeInv'
<1>1. SocketTypes BY DEF ClientTypes
<1>2. UNCHANGED <<held, net, asked, inited, registered, answer, pc>> /\ s \in registered
  BY DEF Announce, handlerVars, serverVars
<1>3. PICK f \in {"end", "short_status"} : inbox' = [inbox EXCEPT ![s] = <<f>>]
  BY DEF Announce
<1>4. s \in inited BY <1>2 DEF HandshakeInv
<1>5. \A t \in Sockets : t # s => inbox'[t] = inbox[t] /\ (HasInit(t)' <=> HasInit(t))
  BY <1>1, <1>3 DEF SocketTypes, HasInit
<1>6. ~HasInit(s)'
  <2>1. inbox'[s] = <<f>> BY <1>1, <1>3 DEF SocketTypes
  <2>2. \A i \in DOMAIN <<f>> : <<f>>[i] = f OBVIOUS
  <2> QED BY <2>1, <2>2 DEF HasInit, InitFrames
<1>7. asked[s] # "init" BY <1>4 DEF HandshakeInv, AnswerUnderWay
<1>8. \A t \in Sockets : AnswerUnderWay(t)'
  BY <1>2, <1>5, <1>6, <1>7 DEF HandshakeInv, AnswerUnderWay
<1>9. ASSUME NEW w \in Connectors PROVE Attempt(w)'
  <2>1. Attempt(w) BY DEF HandshakeInv
  <2>2. held # NoSocket => held \in Sockets BY <1>1 DEF SocketTypes
  <2>3. held # NoSocket /\ pc[w] \in {"dialing", "greet"} => held # s
    BY <1>4, <2>1 DEF Attempt
  <2> QED BY <1>2, <1>5, <2>1, <2>2, <2>3 DEF Attempt
<1>10. InAttempt => InAttempt' BY <1>2 DEF InAttempt
<1> QED BY <1>2, <1>8, <1>9, <1>10 DEF HandshakeInv

\* Disposal is for good.
LEMMA StaysDisposed == ASSUME ClientInv, disposed, ClientNext PROVE disposed'
<1>1. CASE \E w \in Connectors :
             \/ Dial(w) \/ DialEnds(w) \/ Greet(w) \/ Handshake(w) \/ LoginStep(w) \/ LoggedIn(w)
             \/ Register(w) \/ Finish(w)
  BY <1>1 DEF Dial, DialEnds, Greet, Handshake, LoginStep, LoggedIn, Register, Finish
<1>2. CASE \/ ConnectAsync \/ ConnectFails \/ ConnectReturns \/ TaskTests \/ TaskEnters
           \/ LoopBefore \/ LoopLocks \/ LoopTop \/ AttemptFails \/ LoopUnlocks \/ LoopEnds
  BY <1>2 DEF ConnectAsync, ConnectFails, ConnectReturns, TaskTests, TaskEnters, LoopBefore,
              LoopLocks, LoopTop, AttemptFails, LoopUnlocks, LoopEnds
<1>3. CASE \E x \in Senders : SendStarts(x) \/ SendLocks(x) \/ SendEnds(x)
  BY <1>3 DEF SendStarts, SendLocks, SendEnds
<1>4. CASE Dispose \/ TeardownSend \/ TeardownLock \/ SetTargetURI
  BY <1>4 DEF Dispose, TeardownSend, TeardownLock, SetTargetURI
<1>5. CASE \E s \in Sockets : ListenStarts(s) \/ Receive(s) \/ ListenEnds(s)
  BY <1>5 DEF ListenStarts, Receive, HandleIncomingData, ListenEnds
<1>6. CASE \E s \in Sockets : Drop(s) \/ Reply(s) \/ Announce(s)
  BY <1>6 DEF Drop, Reply, Announce
<1> QED BY <1>1, <1>2, <1>3, <1>4, <1>5, <1>6 DEF ClientNext

\* An operation that is sent after disposal is nobody's vote.
LEMMA LateOperation ==
  ASSUME disposed, early \in BOOLEAN, NEW x \in Senders, SendEnds(x)
  PROVE  early' = early
<1>1. PICK ok \in BOOLEAN : SendAsync("operation", ok) BY DEF SendEnds
<1>2. CASE UNCHANGED serverVars BY <1>2 DEF serverVars
<1>3. CASE Arrives(held, "operation")
  <2>1. early' = (early \/ ("operation" = "operation" /\ held \notin registered /\ ~disposed))
    BY <1>3 DEF Arrives
  <2> QED BY <2>1
<1> QED BY <1>1, <1>2, <1>3 DEF SendAsync

\* No operation arrives too early.
LEMMA NothingEarly ==
  ASSUME ClientInv, ClientTypes, HandshakeInv, ClientNext
  PROVE  early' = early
<1>1. SocketTypes /\ early \in BOOLEAN BY DEF ClientTypes, OtherTypes
<1>2. ASSUME NEW kind \in {"init", "challenge", "result", "register"}, NEW ok \in BOOLEAN,
             SendAsync(kind, ok)
      PROVE  early' = early
  <2>1. early' = early \/ (kind = "operation" /\ held \in Sockets /\ net[held] = "up")
    BY <1>1, <1>2, SendEffect
  <2> QED BY <2>1
<1>3. CASE \E w \in Connectors : Greet(w) \/ LoginStep(w) \/ Register(w)
  <2>1. \E kind \in {"init", "challenge", "result", "register"}, ok \in BOOLEAN :
          SendAsync(kind, ok)
    BY <1>3 DEF Greet, LoginStep, Register
  <2> QED BY <1>2, <2>1
<1>4. CASE \E w \in Connectors : Dial(w) \/ DialEnds(w) \/ Handshake(w) \/ LoggedIn(w) \/ Finish(w)
  BY <1>4 DEF Dial, DialEnds, Handshake, LoggedIn, Finish, serverVars
<1>5. CASE \/ ConnectAsync \/ ConnectFails \/ ConnectReturns \/ TaskTests \/ TaskEnters
           \/ LoopBefore \/ LoopLocks \/ LoopTop \/ AttemptFails \/ LoopUnlocks \/ LoopEnds
  BY <1>5 DEF ConnectAsync, ConnectFails, ConnectReturns, TaskTests, TaskEnters, LoopBefore,
              LoopLocks, LoopTop, AttemptFails, LoopUnlocks, LoopEnds, serverVars
<1>6. CASE \E x \in Senders : SendStarts(x) \/ SendLocks(x)
  BY <1>6 DEF SendStarts, SendLocks, serverVars
<1>7. CASE \E x \in Senders : SendEnds(x)
  <2>1. PICK x \in Senders : SendEnds(x) BY <1>7
  <2>2. CASE disposed BY <1>1, <2>1, <2>2, LateOperation
  <2>3. CASE ~disposed BY <2>1, <2>3, OperationHandshake
  <2> QED BY <2>2, <2>3
<1>8. CASE Dispose \/ TeardownLock \/ SetTargetURI
  BY <1>8 DEF Dispose, TeardownLock, SetTargetURI, serverVars
<1>9. CASE TeardownSend
  <2>1. CASE SendAsync("register", FALSE) BY <1>2, <2>1
  <2>2. CASE UNCHANGED early BY <2>2
  <2> QED BY <1>9, <2>1, <2>2 DEF TeardownSend
<1>10. CASE \E s \in Sockets : ListenStarts(s) \/ Receive(s) \/ ListenEnds(s)
  BY <1>10 DEF ListenStarts, Receive, ListenEnds, serverVars
<1>11. CASE \E s \in Sockets : Drop(s) \/ Reply(s) \/ Announce(s)
  BY <1>11 DEF Drop, Reply, Announce, serverVars
<1> QED BY <1>3, <1>4, <1>5, <1>6, <1>7, <1>8, <1>9, <1>10, <1>11 DEF ClientNext

\* Every step of a client that is not disposed keeps the handshake in order.
LEMMA HandshakeKept ==
  ASSUME ClientInv, ClientTypes, HandshakeInv, ~disposed, ~disposed', ClientNext
  PROVE  HandshakeInv'
<1>1. ASSUME NEW w \in Connectors,
             \/ Dial(w) \/ DialEnds(w) \/ Greet(w) \/ Handshake(w) \/ LoginStep(w) \/ Register(w)
      PROVE  HandshakeInv'
  BY <1>1, DialHandshake, DialEndsHandshake, GreetHandshake, HandshakeHandshake,
     LoginHandshake, RegisterHandshake
<1>2. ASSUME NEW s \in Sockets,
             Receive(s) \/ ListenEnds(s) \/ Drop(s) \/ Reply(s) \/ Announce(s)
      PROVE  HandshakeInv'
  BY <1>2, ReceiveHandshake, ListenEndsHandshake, DropHandshake, ReplyHandshake,
     AnnounceHandshake
<1>3. CASE LoopTop BY <1>3, TopHandshake
<1>4. CASE \E x \in Senders : SendEnds(x) BY <1>4, OperationHandshake
<1>5. CASE TeardownSend BY <1>5 DEF TeardownSend, ClientInv, DisposedFirst
<1>6. \/ ConnectAsync \/ ConnectFails \/ ConnectReturns
      \/ TaskTests \/ TaskEnters
      \/ LoopBefore \/ LoopLocks \/ AttemptFails \/ LoopUnlocks \/ LoopEnds
      \/ \E x \in Senders : SendStarts(x) \/ SendLocks(x)
      \/ \E w \in Connectors : LoggedIn(w) \/ Finish(w)
      \/ \E s \in Sockets : ListenStarts(s)
      \/ Dispose \/ TeardownLock \/ SetTargetURI
      \/ LoopTop \/ TeardownSend \/ \E x \in Senders : SendEnds(x)
      \/ \E w \in Connectors :
           Dial(w) \/ DialEnds(w) \/ Greet(w) \/ Handshake(w) \/ LoginStep(w) \/ Register(w)
      \/ \E s \in Sockets : Receive(s) \/ ListenEnds(s) \/ Drop(s) \/ Reply(s) \/ Announce(s)
  BY DEF ClientNext
<1> QED BY <1>1, <1>2, <1>3, <1>4, <1>5, <1>6, ControlHandshake

LEMMA HandshakeStep ==
  ASSUME ClientInv, ClientTypes, HandshakeInv, OperationsAfterRegister, [ClientNext]_clientVars
  PROVE  HandshakeInv' /\ OperationsAfterRegister'
<1>0. disposed \in BOOLEAN BY DEF ClientInv, ControlTypes
<1>1. CASE UNCHANGED clientVars
  <2>1. UNCHANGED <<held, net, inbox, asked, inited, registered, answer, pc, disposed, early>>
    BY <1>1 DEF clientVars
  <2>2. StagesKept /\ (InAttempt => InAttempt') BY <2>1 DEF StagesKept, InAttempt
  <2>3. CASE disposed BY <2>1, <2>3 DEF HandshakeInv, OperationsAfterRegister
  <2>4. CASE ~disposed BY <2>1, <2>2, <2>4, QuietHandshake DEF OperationsAfterRegister
  <2> QED BY <2>3, <2>4
<1>2. CASE ClientNext
  <2>1. OperationsAfterRegister' BY <1>2, NothingEarly DEF OperationsAfterRegister
  <2>2. CASE disposed' BY <2>1, <2>2 DEF HandshakeInv
  <2>3. CASE ~disposed' BY <1>2, <2>1, <2>3, StaysDisposed, HandshakeKept
  <2> QED BY <2>2, <2>3
<1> QED BY <1>1, <1>2

LEMMA HandshakeInit == ClientInit => HandshakeInv /\ OperationsAfterRegister
<1> SUFFICES ASSUME ClientInit PROVE HandshakeInv /\ OperationsAfterRegister OBVIOUS
<1>1. held = NoSocket /\ registered = {} BY DEF ClientInit
<1>2. \A s \in Sockets : ~HasInit(s) /\ asked[s] = "nothing" BY DEF ClientInit, HasInit
<1>3. \A s \in Sockets : AnswerUnderWay(s) BY <1>2 DEF AnswerUnderWay
<1>4. \A w \in Connectors : Attempt(w) BY <1>1 DEF Attempt
<1>5. pc["main"] = "idle" BY DEF ClientInit, Connectors
<1>6. OperationsAfterRegister BY DEF ClientInit, OperationsAfterRegister
<1> QED BY <1>1, <1>3, <1>4, <1>5, <1>6 DEF HandshakeInv

\* The conversation of a client with its server stays in order: the answer to
\* an INIT is under way only for the attempt that waits for it, on the socket
\* the handler holds, whatever is dropped, retried or closed meanwhile.
THEOREM ConversationInvariance == ClientSpec => []ConversationInv
<1>1. ClientSpec => [](HandshakeInv /\ OperationsAfterRegister /\ ClientTypes)
  BY HandshakeInit, HandshakeStep, TypesInit, TypesStep, ClientInvariant, PTL DEF ClientSpec
<1>2. ClientInv /\ ClientTypes => ClientTypeOK /\ ListenersRead BY TypesAre DEF ClientInv
<1>3. ClientInv /\ HandshakeInv /\ OperationsAfterRegister /\ ClientTypes => ConversationInv
  BY <1>2 DEF ConversationInv
<1> QED BY <1>1, <1>3, ClientInvariant, PTL

\* A client registers on a connection only after the server has answered the
\* handshake on that very connection, whatever late answers of an earlier one
\* are still read.
THEOREM RegistersAfterInit == ClientSpec => []RegisterAfterInit
<1>1. ConversationInv => RegisterAfterInit
  BY DEF ConversationInv, HandshakeInv, RegisterAfterInit
<1> QED BY <1>1, ConversationInvariance, PTL

\* SendOperationAsync never votes on a connection that has not registered: the
\* connection it finds once it has the lock is one whose attempt has finished.
THEOREM OperatesAfterRegister == ClientSpec => []OperationsAfterRegister
<1>1. ConversationInv => OperationsAfterRegister BY DEF ConversationInv
<1> QED BY <1>1, ConversationInvariance, PTL
=============================================================================
