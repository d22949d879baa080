---------------------------- MODULE VotingClient ----------------------------
(***************************************************************************)
(* A client's connection: VotingClient (core/Client) over its TCP request  *)
(* handler, with the network and the server as its surroundings.  Threads: *)
(* the caller of ConnectAsync ("main"), the one ReconnectLoopAsync that    *)
(* got past the _isReconnecting flag ("loop"), the reconnect tasks still   *)
(* on the pool, the callers of SendOperationAsync, a listener per    *)
(* socket, and whoever runs Dispose_.  The handler's fields are shared by  *)
(* all of them without a lock; `held` is its _tcpClient.                   *)
(*                                                                         *)
(* A socket name is used again once nothing refers to it, so a behaviour   *)
(* may reconnect any number of times.  A frame is a kind, its payload is   *)
(* left out.  Cancelling the caller's token is left out: it only ends      *)
(* waits when the program exits.                                           *)
(***************************************************************************)
EXTENDS Integers, Sequences, FiniteSets

CONSTANTS
  Sockets,          \* TcpClient objects that may exist at a time
  NoSocket,         \* the null _tcpClient
  Senders,          \* callers of SendOperationAsync
  Login,            \* is authenticationData set?
  RECONNECT_LIMIT,  \* failed attempts before the client gives up
  MaxTasks,         \* bound on reconnect tasks waiting on the pool
  MaxFaults         \* bound on drops, refusals, bad frames and new addresses

ASSUME ClientAssumption ==
  /\ IsFiniteSet(Sockets)
  /\ NoSocket \notin Sockets
  /\ Senders \cap {"free", "gone", "main", "loop"} = {}
  /\ Login \in BOOLEAN
  /\ RECONNECT_LIMIT \in Nat \ {0}
  /\ MaxTasks \in Nat
  /\ MaxFaults \in Nat

Connectors == {"main", "loop"}

\* The stages of one connection attempt, inside _connectionLock.
Connecting == {"dial", "dialing", "greet", "handshake", "login", "token",
               "result", "register", "fail"}
Waiting == {"handshake", "token", "result"}
PCs == Connecting \cup {"idle", "before", "enter", "wait", "top", "closing",
                        "finish", "unlock", "clear", "done", "failed"}
NetStates == {"closed", "dialing", "up", "lost", "broken"}
Frames == {"init", "bad_init", "challenge", "result", "end", "short_status"}
Answers == {"pending", "ok", "failed"}

VARIABLES
  disposed,    \* _isDisposedState
  teardown,    \* how far Dispose_ is
  lock,        \* _connectionLock: free, gone (disposed) or its holder
  flag,        \* _isReconnecting
  attempts,    \* _reconnectAttempts
  answer,      \* the three TaskCompletionSources
  pc,          \* main and loop
  sender,      \* SendOperationAsync
  tasks,       \* ReconnectLoopAsync tasks: before and after the Disconnected test
  held,        \* SocketRequestHandlerTCP._tcpClient
  net,         \* each socket
  listener,    \* StartListeningAsync of each socket, with the socket it reads
  inbox,       \* frames on their way to the client
  asked,       \* the server's side: the request it has not answered yet
  inited,      \* sockets on which the server answered INIT
  registered,  \* sockets on which the server received REG
  early,       \* an operation arrived on a socket that had not registered
  missed,      \* a drop was reported to a loop that no longer looks
  faults       \* how many of those there were so far

handlerVars == <<held, net>>
serverVars == <<asked, inited, registered, early>>
clientVars == <<disposed, teardown, lock, flag, attempts, answer, pc, sender, tasks,
                held, net, listener, inbox, asked, inited, registered, early, missed, faults>>

NoListener == [pc |-> "none", on |-> NoSocket]

ClientInit ==
  /\ disposed = FALSE /\ teardown = "no"
  /\ lock = "free" /\ flag = FALSE /\ attempts = 0
  /\ answer = [handshake |-> "pending", token |-> "pending", result |-> "pending"]
  /\ pc = [w \in Connectors |-> "idle"]
  /\ sender = [x \in Senders |-> "idle"]
  /\ tasks = [queued |-> 0, tested |-> 0]
  /\ held = NoSocket
  /\ net = [s \in Sockets |-> "closed"]
  /\ listener = [s \in Sockets |-> NoListener]
  /\ inbox = [s \in Sockets |-> <<>>]
  /\ asked = [s \in Sockets |-> "nothing"]
  /\ inited = {} /\ registered = {} /\ early = FALSE
  /\ missed = FALSE /\ faults = 0

-----------------------------------------------------------------------------
(* The request handler.                                                    *)

\* TcpClient.Connected stays true until an operation on the socket fails.
IsConnected == held # NoSocket /\ net[held] \in {"up", "lost"}

\* Which events the server sees when a frame of this kind arrives on a socket.
Arrives(s, kind) ==
  /\ asked' = IF kind \in {"init", "challenge", "result"}
              THEN [asked EXCEPT ![s] = kind] ELSE asked
  /\ registered' = IF kind = "register" THEN registered \cup {s} ELSE registered
  /\ early' = (early \/ (kind = "operation" /\ s \notin registered /\ ~disposed))
  /\ UNCHANGED inited

\* SendAsync throws without a connection.  On a connection the peer dropped
\* it may throw or write into the void.
SendAsync(kind, ok) ==
  \/ /\ ~IsConnected /\ ~ok
     /\ UNCHANGED <<net, serverVars>>
  \/ /\ IsConnected /\ net[held] = "up" /\ ok
     /\ Arrives(held, kind)
     /\ UNCHANGED net
  \/ /\ IsConnected /\ net[held] = "lost"
     /\ net' = IF ok THEN net ELSE [net EXCEPT ![held] = "broken"]
     /\ UNCHANGED serverVars

\* HandleSocketDisconnection starts a reconnect task unless the client is disposed.
StartReconnect ==
  /\ tasks.queued + tasks.tested < MaxTasks
  /\ tasks' = [tasks EXCEPT !.queued = @ + 1]

RaiseDisconnected == IF disposed THEN UNCHANGED tasks ELSE StartReconnect

\* What was known of a connection goes with it, on both sides.
Forget(s) ==
  /\ inbox' = [inbox EXCEPT ![s] = <<>>]
  /\ asked' = [asked EXCEPT ![s] = "nothing"]
  /\ inited' = inited \ {s}
  /\ registered' = registered \ {s}

connectionVars == <<inbox, asked, inited, registered>>


\* HandleDisconnect closes whatever socket the handler holds by now.
HandleDisconnect ==
  IF held = NoSocket THEN UNCHANGED <<handlerVars, tasks, connectionVars>>
  ELSE /\ net' = [net EXCEPT ![held] = "closed"]
       /\ held' = NoSocket
       /\ Forget(held)
       /\ RaiseDisconnected

\* A socket nothing refers to any more: its name can be used again.
Unreferenced(s) ==
  /\ net[s] \notin {"dialing", "up", "lost"}
  /\ listener[s].pc \in {"none", "done"}
  /\ \A t \in Sockets : listener[t].pc \in {"reading", "ending"} => listener[t].on # s

-----------------------------------------------------------------------------
(* One connection attempt, the same in ConnectAsync and in                 *)
(* ReconnectLoopAsync: dial, listen, handshake, login, register.           *)

Fault == faults < MaxFaults /\ faults' = faults + 1

Goto(w, next) == pc' = [pc EXCEPT ![w] = next]

\* SocketRequestHandler.ConnectAsync: a new TcpClient takes the field's place.
Dial(w) ==
  LET fresh == {s \in Sockets : Unreferenced(s)}
      s == CHOOSE s \in fresh : TRUE
  IN
  /\ pc[w] = "dial"
  /\ fresh # {}
  /\ held' = s
  /\ net' = [net EXCEPT ![s] = "dialing"]
  /\ listener' = [listener EXCEPT ![s] = NoListener]
  /\ Forget(s)
  /\ Goto(w, "dialing")
  /\ UNCHANGED <<disposed, teardown, lock, flag, attempts, answer, sender, tasks, early,
                 missed, faults>>

\* The dial ends: connected, refused, or closed under our hands.
DialEnds(w) ==
  /\ pc[w] = "dialing"
  /\ \/ /\ held # NoSocket /\ net[held] = "dialing"
        /\ \/ /\ net' = [net EXCEPT ![held] = "up"]
              /\ Goto(w, "greet")
              /\ UNCHANGED faults
           \/ /\ Fault
              /\ net' = [net EXCEPT ![held] = "closed"]
              /\ Goto(w, "fail")
     \/ /\ held = NoSocket
        /\ Goto(w, "fail")
        /\ UNCHANGED <<net, faults>>
  /\ UNCHANGED <<disposed, teardown, lock, flag, attempts, answer, sender, tasks, held,
                 listener, inbox, serverVars, missed>>

\* Mutated form of Greet: the loop keeps the old completion source.
GreetKeepsSource(w) ==
  /\ pc[w] = "greet"
  /\ attempts' = IF w = "main" THEN 0 ELSE attempts
  /\ listener' = IF held = NoSocket THEN listener
                 ELSE [listener EXCEPT ![held] = [pc |-> "queued", on |-> NoSocket]]
  /\ \E ok \in BOOLEAN :
       SendAsync("init", ok) /\ Goto(w, IF ok THEN "handshake" ELSE "fail")
  /\ UNCHANGED <<disposed, teardown, lock, flag, answer, sender, tasks, held, inbox, missed,
                 faults>>

\* The listener is started and INIT is sent.  ConnectAsync has made the
\* handshake's completion source before it dialled, the loop makes it now.
Greet(w) ==
  /\ pc[w] = "greet"
  /\ attempts' = IF w = "main" THEN 0 ELSE attempts
  /\ answer' = IF w = "loop" THEN [answer EXCEPT !.handshake = "pending"] ELSE answer
  /\ listener' = IF held = NoSocket THEN listener
                 ELSE [listener EXCEPT ![held] = [pc |-> "queued", on |-> NoSocket]]
  /\ \E ok \in BOOLEAN :
       SendAsync("init", ok) /\ Goto(w, IF ok THEN "handshake" ELSE "fail")
  /\ UNCHANGED <<disposed, teardown, lock, flag, sender, tasks, held, inbox, missed, faults>>

\* The handshake is answered.  When it failed, ConnectAsync disconnects and
\* disposes the client; the loop counts a failed attempt.
Handshake(w) ==
  /\ pc[w] = "handshake"
  /\ \/ /\ answer.handshake = "ok"
        /\ Goto(w, IF Login THEN "login" ELSE "register")
        /\ UNCHANGED <<disposed, teardown, tasks, handlerVars, connectionVars>>
     \/ /\ answer.handshake = "failed" /\ w = "loop"
        /\ Goto(w, "fail")
        /\ UNCHANGED <<disposed, teardown, tasks, handlerVars, connectionVars>>
     \/ /\ answer.handshake = "failed" /\ w = "main"
        /\ IF IsConnected THEN HandleDisconnect
           ELSE UNCHANGED <<handlerVars, tasks, connectionVars>>
        /\ Goto(w, IF disposed THEN "fail" ELSE "closing")
        /\ disposed' = TRUE
        /\ teardown' = IF disposed THEN teardown ELSE "send"
  /\ UNCHANGED <<lock, flag, attempts, answer, sender, listener, early, missed, faults>>

\* AuthenticateAsync: ask for a challenge, answer it, wait for the result.
LoginStep(w) ==
  \E ok \in BOOLEAN :
    /\ \/ /\ pc[w] = "login"
          /\ answer' = [answer EXCEPT !.token = "pending", !.result = "pending"]
          /\ SendAsync("challenge", ok)
          /\ Goto(w, IF ok THEN "token" ELSE "fail")
       \/ /\ pc[w] = "token" /\ answer.token = "ok"
          /\ SendAsync("result", ok)
          /\ Goto(w, IF ok THEN "result" ELSE "fail")
          /\ UNCHANGED answer
    /\ UNCHANGED <<disposed, teardown, lock, flag, attempts, sender, tasks, held, listener,
                   inbox, missed, faults>>

\* Accepted or not, the client goes on to register.
LoggedIn(w) ==
  /\ pc[w] = "result"
  /\ answer.result = "ok"
  /\ Goto(w, "register")
  /\ UNCHANGED <<disposed, teardown, lock, flag, attempts, answer, sender, tasks, handlerVars,
                 listener, inbox, serverVars, missed, faults>>

\* Mutated form of Register: the registration is forgotten.
RegisterForgotten(w) ==
  /\ pc[w] = "register"
  /\ Goto(w, "finish")
  /\ UNCHANGED <<disposed, teardown, lock, flag, attempts, answer, sender, tasks, handlerVars,
                 listener, inbox, serverVars, missed, faults>>

Register(w) ==
  /\ pc[w] = "register"
  /\ \E ok \in BOOLEAN :
       SendAsync("register", ok) /\ Goto(w, IF ok THEN "finish" ELSE "fail")
  /\ UNCHANGED <<disposed, teardown, lock, flag, attempts, answer, sender, tasks, held,
                 listener, inbox, missed, faults>>

\* OnConnectionFinished of ConnectAsync, AfterOperationsReload(true) of the loop.
Finish(w) ==
  /\ pc[w] = "finish"
  /\ attempts' = IF w = "loop" THEN 0 ELSE attempts
  /\ Goto(w, "unlock")
  /\ UNCHANGED <<disposed, teardown, lock, flag, answer, sender, tasks, handlerVars,
                 listener, inbox, serverVars, missed, faults>>

Released == IF lock = "gone" THEN "gone" ELSE "free"

-----------------------------------------------------------------------------
(* ConnectAsync.                                                           *)

\* It is called once, before anything else; a new completion source is made
\* once the lock is held.
ConnectAsync ==
  /\ pc["main"] = "idle"
  /\ \/ /\ ~disposed /\ lock = "free"
        /\ lock' = "main"
        /\ answer' = [answer EXCEPT !.handshake = "pending"]
        /\ Goto("main", "dial")
     \/ /\ disposed
        /\ Goto("main", "failed")
        /\ UNCHANGED <<lock, answer>>
  /\ UNCHANGED <<disposed, teardown, flag, attempts, sender, tasks, handlerVars, listener,
                 inbox, serverVars, missed, faults>>

\* An exception: the completion source fails with it, and the caller sees it.
ConnectFails ==
  /\ \/ pc["main"] = "fail"
     \/ pc["main"] = "closing" /\ teardown = "done"
  /\ answer' = IF answer.handshake = "pending"
               THEN [answer EXCEPT !.handshake = "failed"] ELSE answer
  /\ lock' = Released
  /\ Goto("main", "failed")
  /\ UNCHANGED <<disposed, teardown, flag, attempts, sender, tasks, handlerVars, listener,
                 inbox, serverVars, missed, faults>>

ConnectReturns ==
  /\ pc["main"] = "unlock"
  /\ lock' = Released
  /\ Goto("main", "done")
  /\ UNCHANGED <<disposed, teardown, flag, attempts, answer, sender, tasks, handlerVars,
                 listener, inbox, serverVars, missed, faults>>

-----------------------------------------------------------------------------
(* ReconnectLoopAsync.                                                     *)

TaskTests ==
  /\ tasks.queued > 0
  /\ tasks' = [queued |-> tasks.queued - 1,
               tested |-> IF disposed THEN tasks.tested ELSE tasks.tested + 1]
  /\ UNCHANGED <<disposed, teardown, lock, flag, attempts, answer, pc, sender, handlerVars,
                 listener, inbox, serverVars, missed, faults>>

\* Mutated form of TaskEnters: a task enters that was never started.
TaskEntersUnasked ==
  /\ tasks' = [tasks EXCEPT !.tested = @ - 1]
  /\ flag' = TRUE
  /\ IF flag THEN UNCHANGED pc ELSE Goto("loop", "before")
  /\ UNCHANGED <<disposed, teardown, lock, attempts, answer, sender, handlerVars, listener,
                 inbox, serverVars, missed, faults>>

\* Only one loop gets past the flag.  A task that is turned away reports
\* nothing: when the loop is already past its last send, the drop is missed.
TaskEnters ==
  /\ tasks.tested > 0
  /\ tasks' = [tasks EXCEPT !.tested = @ - 1]
  /\ flag' = TRUE
  /\ IF flag THEN UNCHANGED pc ELSE Goto("loop", "before")
  /\ missed' = (missed \/ (flag /\ pc["loop"] \in {"finish", "unlock", "clear"}))
  /\ UNCHANGED <<disposed, teardown, lock, attempts, answer, sender, handlerVars, listener,
                 inbox, serverVars, faults>>

\* BeforeOperationsReload is raised before the lock is asked for.
LoopBefore ==
  /\ pc["loop"] = "before"
  /\ Goto("loop", "enter")
  /\ UNCHANGED <<disposed, teardown, lock, flag, attempts, answer, sender, tasks, handlerVars,
                 listener, inbox, serverVars, missed, faults>>

\* Mutated form of LoopLocks: the loop does not wait for the lock.
LoopBarges ==
  /\ pc["loop"] = "enter"
  /\ lock' = "loop" /\ Goto("loop", "top")
  /\ UNCHANGED <<disposed, teardown, flag, attempts, answer, sender, tasks, handlerVars,
                 listener, inbox, serverVars, missed, faults>>

\* Waiting for a semaphore that is disposed throws; a wait that began before
\* the disposal never ends.
LoopLocks ==
  /\ \/ /\ pc["loop"] \in {"enter", "wait"} /\ lock = "free"
        /\ lock' = "loop" /\ Goto("loop", "top")
     \/ /\ pc["loop"] = "enter" /\ lock \notin {"free", "gone"}
        /\ Goto("loop", "wait") /\ UNCHANGED lock
     \/ /\ pc["loop"] = "enter" /\ lock = "gone"
        /\ Goto("loop", "clear") /\ UNCHANGED lock
  /\ UNCHANGED <<disposed, teardown, flag, attempts, answer, sender, tasks, handlerVars,
                 listener, inbox, serverVars, missed, faults>>

\* The head of the loop: a disposed client leaves it without
\* AfterOperationsReload; an old connection is closed.
LoopTop ==
  /\ pc["loop"] = "top"
  /\ \/ /\ disposed
        /\ Goto("loop", "unlock")
        /\ UNCHANGED <<handlerVars, tasks, connectionVars>>
     \/ /\ ~disposed
        /\ IF IsConnected THEN HandleDisconnect
           ELSE UNCHANGED <<handlerVars, tasks, connectionVars>>
        /\ Goto("loop", "dial")
  /\ UNCHANGED <<disposed, teardown, lock, flag, attempts, answer, sender, listener, early,
                 missed, faults>>

\* An attempt failed: wait a second and try again, or, at the limit, raise
\* AfterOperationsReload(false) and dispose the client.
AttemptFails ==
  /\ pc["loop"] = "fail"
  /\ attempts' = attempts + 1
  /\ IF attempts + 1 >= RECONNECT_LIMIT
     THEN /\ Goto("loop", IF disposed THEN "unlock" ELSE "closing")
          /\ disposed' = TRUE
          /\ teardown' = IF disposed THEN teardown ELSE "send"
     ELSE /\ Goto("loop", "top")
          /\ UNCHANGED <<disposed, teardown>>
  /\ UNCHANGED <<lock, flag, answer, sender, tasks, handlerVars, listener, inbox, serverVars,
                 missed, faults>>

LoopUnlocks ==
  /\ \/ pc["loop"] = "unlock"
     \/ pc["loop"] = "closing" /\ teardown = "done"
  /\ lock' = Released
  /\ Goto("loop", "clear")
  /\ UNCHANGED <<disposed, teardown, flag, attempts, answer, sender, tasks, handlerVars,
                 listener, inbox, serverVars, missed, faults>>

LoopEnds ==
  /\ pc["loop"] = "clear"
  /\ flag' = FALSE
  /\ Goto("loop", "idle")
  /\ UNCHANGED <<disposed, teardown, lock, attempts, answer, sender, tasks, handlerVars,
                 listener, inbox, serverVars, missed, faults>>

-----------------------------------------------------------------------------
(* SendOperationAsync of each caller, one call at a time.                  *)

\* The Disconnected test and the wait for the lock.
SendStarts(x) ==
  /\ sender[x] = "idle"
  /\ ~disposed
  /\ IF lock = "free"
     THEN lock' = x /\ sender' = [sender EXCEPT ![x] = "sending"]
     ELSE UNCHANGED lock /\ sender' = [sender EXCEPT ![x] = "wait"]
  /\ UNCHANGED <<disposed, teardown, flag, attempts, answer, pc, tasks, handlerVars,
                 listener, inbox, serverVars, missed, faults>>

\* The wait ends; one that began before the lock was disposed never does.
SendLocks(x) ==
  /\ sender[x] = "wait"
  /\ lock = "free"
  /\ lock' = x
  /\ sender' = [sender EXCEPT ![x] = "sending"]
  /\ UNCHANGED <<disposed, teardown, flag, attempts, answer, pc, tasks, handlerVars,
                 listener, inbox, serverVars, missed, faults>>

\* The frame is written, the lock released; an exception goes to the caller.
SendEnds(x) ==
  /\ sender[x] = "sending"
  /\ \E ok \in BOOLEAN : SendAsync("operation", ok)
  /\ sender' = [sender EXCEPT ![x] = "idle"]
  /\ lock' = Released
  /\ UNCHANGED <<disposed, teardown, flag, attempts, answer, pc, tasks, held, listener,
                 inbox, missed, faults>>

-----------------------------------------------------------------------------
(* Dispose.                                                                *)

\* Somebody who uses the client disposes it.
Dispose ==
  /\ ~disposed
  /\ disposed' = TRUE
  /\ teardown' = "send"
  /\ UNCHANGED <<lock, flag, attempts, answer, pc, sender, tasks, handlerVars, listener,
                 inbox, serverVars, missed, faults>>

\* Dispose_: a pending handshake ends as if it had succeeded; REG is sent once
\* more; only when that worked is the handler disposed.
TeardownSend ==
  /\ teardown = "send"
  /\ teardown' = "lock"
  /\ answer' = IF answer.handshake = "pending"
               THEN [answer EXCEPT !.handshake = "ok"] ELSE answer
  /\ \/ /\ IsConnected
        /\ net' = [net EXCEPT ![held] = "closed"]
        /\ held' = NoSocket
        /\ Forget(held)
        /\ UNCHANGED early
     \/ /\ ~(IsConnected /\ net[held] = "up")
        /\ SendAsync("register", FALSE)
        /\ UNCHANGED <<held, inbox>>
  /\ UNCHANGED <<disposed, lock, flag, attempts, pc, sender, tasks, listener, missed, faults>>

TeardownLock ==
  /\ teardown = "lock"
  /\ teardown' = "done"
  /\ lock' = "gone"
  /\ UNCHANGED <<disposed, flag, attempts, answer, pc, sender, tasks, handlerVars, listener,
                 inbox, serverVars, missed, faults>>

\* TargetURI gets another value: a reconnect task is started.
SetTargetURI ==
  /\ pc["main"] = "done"
  /\ Fault
  /\ StartReconnect
  /\ UNCHANGED <<disposed, teardown, lock, flag, attempts, answer, pc, sender, handlerVars,
                 listener, inbox, serverVars, missed>>

-----------------------------------------------------------------------------
(* The listeners.                                                          *)

\* StartListeningAsync reads the handler's fields when the pool runs it; with
\* no connection it throws, and nobody looks at the task.
ListenStarts(s) ==
  /\ listener[s].pc = "queued"
  /\ listener' = [listener EXCEPT ![s] = IF IsConnected THEN [pc |-> "reading", on |-> held]
                                                        ELSE [pc |-> "done", on |-> NoSocket]]
  /\ UNCHANGED <<disposed, teardown, lock, flag, attempts, answer, pc, sender, tasks,
                 handlerVars, inbox, serverVars, missed, faults>>

Complete(source, result) ==
  answer' = IF answer[source] = "pending" THEN [answer EXCEPT ![source] = result] ELSE answer

\* HandleIncomingData.  A reply that cannot be parsed (here "bad_init", when
\* its version is right) still completes the handshake; another version fails
\* it.  A status update that is too short throws, which ends the listener.
HandleIncomingData(frame) ==
  IF disposed THEN UNCHANGED <<answer, disposed, teardown>>
  ELSE /\ CASE frame = "init" -> Complete("handshake", "ok")
            [] frame = "bad_init" -> \E r \in {"ok", "failed"} : Complete("handshake", r)
            [] frame = "challenge" -> Complete("token", "ok")
            [] frame = "result" -> Complete("result", "ok")
            [] OTHER -> UNCHANGED answer
       /\ disposed' = (frame = "end")
       /\ teardown' = IF frame = "end" THEN "send" ELSE teardown

\* With two listeners on one stream a frame may be torn, which ends in an
\* exception as well.
Receive(s) ==
  LET on == listener[s].on
      shared == \E t \in Sockets \ {s} : listener[t].pc = "reading" /\ listener[t].on = on
  IN
  /\ listener[s].pc = "reading"
  /\ net[on] # "closed"
  /\ inbox[on] # <<>>
  /\ inbox' = [inbox EXCEPT ![on] = Tail(@)]
  /\ \/ /\ HandleIncomingData(Head(inbox[on]))
        /\ listener' = IF Head(inbox[on]) = "short_status" /\ ~disposed
                       THEN [listener EXCEPT ![s].pc = "ending"] ELSE listener
     \/ /\ shared
        /\ listener' = [listener EXCEPT ![s].pc = "ending"]
        /\ UNCHANGED <<answer, disposed, teardown>>
  /\ UNCHANGED <<lock, flag, attempts, pc, sender, tasks, handlerVars, serverVars, missed, faults>>

\* The stream ended, was closed, or the handler threw: the listener runs
\* HandleDisconnect, which closes the socket the handler holds by now.
ListenEnds(s) ==
  /\ \/ listener[s].pc = "ending"
     \/ /\ listener[s].pc = "reading"
        /\ \/ net[listener[s].on] \in {"closed", "broken"}
           \/ net[listener[s].on] = "lost" /\ inbox[listener[s].on] = <<>>
  /\ listener' = [listener EXCEPT ![s] = [pc |-> "done", on |-> NoSocket]]
  /\ HandleDisconnect
  /\ UNCHANGED <<disposed, teardown, lock, flag, attempts, answer, pc, sender, early, missed, faults>>

-----------------------------------------------------------------------------
(* The network and the server.                                             *)

\* The peer drops the connection; what is under way may be lost with it.
Drop(s) ==
  /\ net[s] = "up"
  /\ Fault
  /\ net' = [net EXCEPT ![s] = "lost"]
  /\ \/ UNCHANGED inbox
     \/ inbox' = [inbox EXCEPT ![s] = <<>>]
  /\ UNCHANGED <<disposed, teardown, lock, flag, attempts, answer, pc, sender, tasks, held,
                 listener, serverVars, missed>>

\* The server answers a request.
Reply(s) ==
  /\ net[s] = "up"
  /\ asked[s] # "nothing"
  /\ \/ /\ inbox' = [inbox EXCEPT ![s] = Append(@, asked[s])]
        /\ UNCHANGED faults
     \/ /\ asked[s] = "init" /\ Fault
        /\ inbox' = [inbox EXCEPT ![s] = Append(@, "bad_init")]
  /\ asked' = [asked EXCEPT ![s] = "nothing"]
  /\ inited' = IF asked[s] = "init" THEN inited \cup {s} ELSE inited
  /\ UNCHANGED <<disposed, teardown, lock, flag, attempts, answer, pc, sender, tasks,
                 handlerVars, listener, registered, early, missed>>

\* The server says END when it stops, or tells a client that its account is
\* gone with an update that has no multiplier (VotingServer.HandleUserDeleted).
Announce(s) ==
  /\ net[s] = "up" /\ s \in registered
  /\ inbox[s] = <<>>
  /\ Fault
  /\ \E f \in {"end", "short_status"} : inbox' = [inbox EXCEPT ![s] = <<f>>]
  /\ UNCHANGED <<disposed, teardown, lock, flag, attempts, answer, pc, sender, tasks,
                 handlerVars, listener, serverVars, missed>>

-----------------------------------------------------------------------------
ClientNext ==
  \/ \E w \in Connectors :
       \/ Dial(w) \/ DialEnds(w) \/ Greet(w) \/ Handshake(w) \/ LoginStep(w) \/ LoggedIn(w)
       \/ Register(w) \/ Finish(w)
  \/ ConnectAsync \/ ConnectFails \/ ConnectReturns
  \/ TaskTests \/ TaskEnters
  \/ LoopBefore \/ LoopLocks \/ LoopTop \/ AttemptFails \/ LoopUnlocks \/ LoopEnds
  \/ \E x \in Senders : SendStarts(x) \/ SendLocks(x) \/ SendEnds(x)
  \/ Dispose \/ TeardownSend \/ TeardownLock \/ SetTargetURI
  \/ \E s \in Sockets : ListenStarts(s) \/ Receive(s) \/ ListenEnds(s)
  \/ \E s \in Sockets : Drop(s) \/ Reply(s) \/ Announce(s)

ClientSpec == ClientInit /\ [][ClientNext]_clientVars

-----------------------------------------------------------------------------
(* Properties.                                                             *)

InsideLock(w) == pc[w] \in Connecting \cup {"top", "closing", "finish", "unlock"}

ClientTypeOK ==
  /\ disposed \in BOOLEAN /\ flag \in BOOLEAN /\ early \in BOOLEAN /\ missed \in BOOLEAN
  /\ teardown \in {"no", "send", "lock", "done"}
  /\ lock \in {"free", "gone"} \cup Connectors \cup Senders
  /\ attempts \in Nat /\ faults \in Nat
  /\ answer \in [{"handshake", "token", "result"} -> Answers]
  /\ pc \in [Connectors -> PCs]
  /\ sender \in [Senders -> {"idle", "wait", "sending"}]
  /\ tasks \in [queued : Nat, tested : Nat]
  /\ held \in Sockets \cup {NoSocket}
  /\ net \in [Sockets -> NetStates]
  /\ listener \in [Sockets -> [pc : {"none", "queued", "reading", "ending", "done"},
                               on : Sockets \cup {NoSocket}]]
  /\ inbox \in [Sockets -> Seq(Frames)]
  /\ asked \in [Sockets -> {"nothing", "init", "challenge", "result"}]
  /\ inited \subseteq Sockets /\ registered \subseteq Sockets

\* Connecting, reconnecting and sending exclude each other, also once the
\* semaphore that serialises them has been disposed under its holder.
OneAtATime ==
  /\ ~(InsideLock("main") /\ InsideLock("loop"))
  /\ \A x \in Senders : sender[x] = "sending" =>
       /\ ~InsideLock("main") /\ ~InsideLock("loop")
       /\ \A y \in Senders \ {x} : sender[y] # "sending"

\* The client registers on a connection only after the server has answered
\* the handshake on that very connection.  (Dispose sends REG regardless.)
RegisterAfterInit == ~disposed => registered \subseteq inited

\* No operation reaches the server on a connection that has not registered.
OperationsAfterRegister == ~early

-----------------------------------------------------------------------------
(* Why these hold.  A stale answer cannot complete the handshake of a new  *)
(* connection: INIT is sent once on a socket, and its answer is under way  *)
(* only while the attempt that sent it waits, on the socket the handler    *)
(* holds.  And a socket that is up, unregistered and in nobody's hands     *)
(* does not outlive the attempt that dialled it.                           *)

ListenersRead ==
  \A s \in Sockets : listener[s].pc = "reading" => listener[s].on \in Sockets

InitFrames == {"init", "bad_init"}
HasInit(s) == \E i \in DOMAIN inbox[s] : inbox[s][i] \in InitFrames

AnswerUnderWay(s) ==
  /\ asked[s] = "init" \/ HasInit(s) =>
       /\ s = held /\ answer.handshake = "pending"
       /\ \E w \in Connectors : pc[w] = "handshake"
  /\ asked[s] = "init" => inbox[s] = <<>> /\ s \notin inited
  /\ HasInit(s) => Len(inbox[s]) = 1 /\ asked[s] = "nothing" /\ s \in inited

Attempt(w) ==
  held # NoSocket =>
    /\ pc[w] \in {"dialing", "greet"} =>
         inbox[held] = <<>> /\ asked[held] = "nothing" /\ held \notin inited
    /\ pc[w] = "handshake" /\ answer.handshake = "ok" => held \in inited
    /\ pc[w] \in {"login", "token", "result", "register"} => held \in inited

InAttempt ==
  \/ \E w \in Connectors : pc[w] \in {"greet", "handshake", "login", "token", "result", "register"}
  \/ pc["loop"] \in {"fail", "top"}

HandshakeInv ==
  ~disposed =>
    /\ \A s \in Sockets : AnswerUnderWay(s)
    /\ \A w \in Connectors : Attempt(w)
    /\ pc["main"] \in {"dial", "dialing", "greet"} => answer.handshake = "pending"
    /\ held # NoSocket /\ net[held] = "up" => held \in registered \/ InAttempt
    /\ registered \subseteq inited

ConversationInv == ClientTypeOK /\ ListenersRead /\ HandshakeInv /\ OperationsAfterRegister
=============================================================================
