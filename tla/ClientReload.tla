---------------------------- MODULE ClientReload ----------------------------
(***************************************************************************)
(* VotingClient with the part of ClientManager (shared) that reloads the   *)
(* key map: keyOpReady, a CrossThreadReaderWriterLock, is write-held from  *)
(* BeforeOperationsReload to AfterOperationsReload and read-held by every  *)
(* key event over the sending of its vote.  The lock is used through its   *)
(* specification (ReaderWriterLock).  The key event of the window runs as  *)
(* the sender "key"; the AFK thread sends without keyOpReady.              *)
(***************************************************************************)
EXTENDS VotingClient

ASSUME ReloadAssumption == "key" \in Senders

VARIABLES
  keyLock,   \* keyOpReady
  ui         \* RunWithOpType of the window's key handler

reloadVars == <<clientVars, keyLock, ui>>

ReloadInit ==
  /\ ClientInit
  /\ keyLock = "free"
  /\ ui = "idle"

-----------------------------------------------------------------------------
(* The handlers of the client's events.                                    *)

\* HandleBeforeOperationsReload waits for the write lock and keeps it.
HandleBeforeOperationsReload ==
  /\ LoopBefore
  /\ keyLock = "free"
  /\ keyLock' = "write"
  /\ UNCHANGED ui

\* HandleAfterOperationsReload reads the new key map and gives it back.
HandleAfterOperationsReload == keyLock' = IF keyLock = "write" THEN "free" ELSE keyLock

\* Mutated form of FinishReload: a successful reload keeps the lock.
FinishKeepsLock(w) == Finish(w) /\ UNCHANGED <<keyLock, ui>>

\* HandleConnectionFinished takes the lock and gives it back.
FinishReload(w) ==
  /\ Finish(w)
  /\ IF w = "loop" THEN HandleAfterOperationsReload ELSE keyLock = "free" /\ UNCHANGED keyLock
  /\ UNCHANGED ui

\* AfterOperationsReload(false) is raised when the client gives up.
FailReload ==
  /\ AttemptFails
  /\ IF attempts' >= RECONNECT_LIMIT THEN HandleAfterOperationsReload ELSE UNCHANGED keyLock
  /\ UNCHANGED ui

-----------------------------------------------------------------------------
(* A key event.  The window is shown once ConnectAsync has returned.       *)

KeyEvent ==
  /\ pc["main"] = "done"
  /\ ui = "idle"
  /\ ui' = "wait"
  /\ UNCHANGED <<clientVars, keyLock>>

\* RunWithOpType enters the read lock, then calls SendOperationAsync, which
\* returns at once when the client is disposed.
KeyLocks ==
  /\ ui = "wait"
  /\ keyLock = "free"
  /\ keyLock' = "read"
  /\ ui' = "sending"
  /\ IF disposed THEN UNCHANGED clientVars ELSE SendStarts("key")

KeyUnlocks ==
  /\ ui = "sending"
  /\ sender["key"] = "idle"
  /\ ui' = "idle"
  /\ keyLock' = "free"
  /\ UNCHANGED clientVars

-----------------------------------------------------------------------------
(* The steps of each thread.                                               *)

ConnectThread ==
  \/ FinishReload("main")
  \/ /\ \/ Dial("main") \/ DialEnds("main") \/ Greet("main") \/ Handshake("main")
        \/ LoginStep("main") \/ LoggedIn("main") \/ Register("main")
        \/ ConnectFails \/ ConnectReturns
     /\ UNCHANGED <<keyLock, ui>>

LoopThread ==
  \/ HandleBeforeOperationsReload \/ FinishReload("loop") \/ FailReload
  \/ /\ \/ Dial("loop") \/ DialEnds("loop") \/ Greet("loop") \/ Handshake("loop")
        \/ LoginStep("loop") \/ LoggedIn("loop") \/ Register("loop")
        \/ LoopLocks \/ LoopTop \/ LoopUnlocks \/ LoopEnds
     /\ UNCHANGED <<keyLock, ui>>

PoolTasks == (TaskTests \/ TaskEnters) /\ UNCHANGED <<keyLock, ui>>

SendThread(x) == (SendLocks(x) \/ SendEnds(x)) /\ UNCHANGED <<keyLock, ui>>

KeyThread == KeyLocks \/ KeyUnlocks

DisposeThread == (TeardownSend \/ TeardownLock) /\ UNCHANGED <<keyLock, ui>>

ListenThread(s) == (ListenStarts(s) \/ Receive(s) \/ ListenEnds(s)) /\ UNCHANGED <<keyLock, ui>>

ServerThread(s) == Reply(s) /\ UNCHANGED <<keyLock, ui>>

\* What nothing forces to happen.
Surprises ==
  \/ KeyEvent
  \/ /\ \/ ConnectAsync \/ Dispose \/ SetTargetURI
        \/ \E x \in Senders \ {"key"} : SendStarts(x)
        \/ \E s \in Sockets : Drop(s) \/ Announce(s)
     /\ UNCHANGED <<keyLock, ui>>

ReloadNext ==
  \/ ConnectThread \/ LoopThread \/ PoolTasks \/ KeyThread \/ DisposeThread
  \/ \E x \in Senders : SendThread(x)
  \/ \E s \in Sockets : ListenThread(s) \/ ServerThread(s)
  \/ Surprises

ReloadSpec == ReloadInit /\ [][ReloadNext]_reloadVars

\* A thread that can go on does.  Semaphores serve their waiters in turn, so
\* the loop and a sender get a lock that is free again and again.
FairReloadSpec ==
  /\ ReloadSpec
  /\ SF_reloadVars(LoopThread)
  /\ WF_reloadVars(PoolTasks) /\ WF_reloadVars(KeyThread)
  /\ \A x \in Senders : SF_reloadVars(SendThread(x))
  /\ \A s \in Sockets : WF_reloadVars(ListenThread(s)) /\ WF_reloadVars(ServerThread(s))

-----------------------------------------------------------------------------
\* The key lock is write-held exactly while a reload is under way, so a key
\* event waits for a thread that will release it.  Only a reload that meets
\* the disposal of its client leaves the lock behind.
KeyLockHasOwner ==
  \/ disposed
  \/ (keyLock = "write") <=> (pc["loop"] \in Connecting \cup {"enter", "wait", "top", "finish"})

Working == IsConnected /\ net[held] = "up" /\ held \in registered

\* A connection attempt waits for an answer that no socket can bring.
Orphaned ==
  \E w \in Connectors :
    /\ pc[w] \in Waiting
    /\ held = NoSocket \/ net[held] # "up"

=============================================================================
