---------------------------- MODULE AfkProcessor ----------------------------
(***************************************************************************)
(* The AFK processor of ClientManager (shared): a thread that abstains for *)
(* a user who was idle for longer than the AfkLimit of an operation, and   *)
(* LockClient, which every input of the window and every reload of the     *)
(* operations goes through.                                                *)
(*                                                                         *)
(* They share AfkSignal and IsNotAfkLock (semaphores of at most one),      *)
(* IsNotAfkState, LastClickTime, AfkTypes and SendOperationCts.  Sends     *)
(* queue for the client's _connectionLock, which a reload holds while it   *)
(* calls SetTimeouts.  Operations are numbered in the order of their       *)
(* limits; time is the number of limits that have passed since the last    *)
(* input.  Votes for and against are not told apart.                       *)
(***************************************************************************)
EXTENDS Integers, Sequences, SequencesExt

CONSTANTS
  Limits,       \* number of operations with an AfkLimit
  MaxReloads,   \* bound: reloads of the operations
  MaxSends      \* bound: votes of the user waiting to be sent

ASSUME AfkAssumption == Limits \in Nat \ {0} /\ MaxReloads \in Nat \ {0} /\ MaxSends \in Nat

Ops  == 1..Limits
Gens == 1..MaxReloads
\* A reload makes new OperationType objects: AfkTypes has entries of their own for them.
Types == Gens \X Ops
None == 0

VARIABLES
  signal,     \* count of AfkSignal
  gate,       \* count of IsNotAfkLock
  notAfk,     \* IsNotAfkState
  marked,     \* the operations AfkTypes has as idle
  keyMap,     \* the reload the key map is of; 0 before the first
  gen,        \* the reload _timeouts is of
  age,        \* limits passed since LastClickTime
  seen,       \* limits passed since the time the thread has read
  fresh,      \* no input has come since it was read
  cancelled,  \* the current SendOperationCts is cancelled
  afk,        \* the thread: [pc, i, gen, allAfk, past]
  task,       \* PendingSendTask: "idle" | "sending" | "failed"
  queue,      \* sends waiting for _connectionLock: [op, vote, by, live]
  counted,    \* operations with a vote of this client at the server
  ui,         \* an input of the window: [pc, op]
  reload,     \* the connecting thread
  window,     \* the window takes inputs
  disposed,   \* the client is disposed
  closing     \* Dispose of the manager has cancelled AfkCts

semaphores == <<signal, gate>>
maps    == <<keyMap, gen>>
clock   == <<age, seen, fresh>>
sends   == <<task, queue, counted>>
callers == <<ui, reload>>
ends    == <<window, disposed, closing>>
afkVars == <<semaphores, notAfk, marked, maps, clock, cancelled, afk, sends, callers, ends>>

\* LaunchClientManager has called SetTimeouts with no operations.
AfkInit ==
  /\ signal = 1 /\ gate = 1 /\ notAfk = FALSE
  /\ marked = {}
  /\ keyMap = 0 /\ gen = 0 /\ age = 0 /\ seen = Limits /\ fresh = FALSE
  /\ cancelled = FALSE
  /\ afk = [pc |-> "top", i |-> 1, gen |-> 0, allAfk |-> TRUE, past |-> TRUE]
  /\ task = "idle" /\ queue = <<>>
  /\ counted = {}
  /\ ui = [pc |-> "idle", op |-> None]
  /\ reload = [pc |-> "idle", ok |-> FALSE]
  /\ window = FALSE /\ disposed = FALSE /\ closing = FALSE

AfkTypeOK ==
  /\ signal \in 0..1 /\ gate \in 0..1
  /\ notAfk \in BOOLEAN /\ cancelled \in BOOLEAN 
  /\ window \in BOOLEAN /\ disposed \in BOOLEAN /\ closing \in BOOLEAN
  /\ marked \subseteq Types
  /\ keyMap \in 0..MaxReloads /\ gen \in 0..MaxReloads
  /\ age \in 0..Limits /\ seen \in 0..Limits /\ fresh \in BOOLEAN
  /\ afk \in [pc : {"top", "each", "remaining", "gate", "mark", "join", "after",
                    "none", "again", "rest", "ended"},
              i : 1..Limits + 1, gen : 0..MaxReloads, allAfk : BOOLEAN, past : BOOLEAN]
  /\ task \in {"idle", "sending", "failed"}
  /\ queue \in Seq([op : Ops, vote : {"Vote", "Abstain"}, by : {"ui", "task"}, live : BOOLEAN])
  /\ counted \subseteq Ops
  /\ ui \in [pc : {"idle", "wait", "in", "sent"}, op : Ops \cup {None}]
  /\ reload \in [pc : {"idle", "loading", "parsed", "wait", "in"}, ok : BOOLEAN]

-----------------------------------------------------------------------------
(* The thread.                                                             *)

AfkGoto(pc) == afk' = [afk EXCEPT !.pc = pc]

\* The pass is over: its local variables are gone.
PassEnds(pc) ==
  /\ afk' = [pc |-> pc, i |-> 1, gen |-> 0, allAfk |-> TRUE, past |-> TRUE]
  /\ seen' = Limits
  /\ fresh' = FALSE

\* The thread reads the limits and the time of the last input.
Top ==
  /\ afk.pc = "top"
  /\ ~closing
  /\ IF gen = 0
     THEN /\ gate' = 1
          /\ AfkGoto("none")
          /\ UNCHANGED <<seen, fresh>>
     ELSE /\ afk' = [pc |-> "each", i |-> 1, gen |-> gen, allAfk |-> TRUE, past |-> TRUE]
          /\ seen' = age
          /\ fresh' = TRUE
          /\ UNCHANGED gate
  /\ UNCHANGED <<signal, notAfk, marked, maps, age, cancelled, sends, callers, ends>>

\* The sends at these places of the queue go on waiting, in their order.
KeepSends(places) ==
  \E f \in Bijection(1..Cardinality(places), places) :
    /\ \A i, j \in DOMAIN f : i < j => f[i] < f[j]
    /\ queue' = [i \in DOMAIN f |-> queue[f[i]]]

\* Cancel of the current SendOperationCts: the sends that wait with its token
\* end, and an input whose send returns false may dispose the client.
Cancel ==
  /\ cancelled' = TRUE
  /\ KeepSends({k \in DOMAIN queue : ~queue[k].live})
  /\ disposed' \in IF queue' = queue THEN {disposed} ELSE {disposed, TRUE}

\* The limit of the operation has passed: the thread cancels the sends of the
\* user and, unless it has it already, takes IsNotAfkLock.
Timeout ==
  /\ Cancel
  /\ notAfk' = FALSE
  /\ AfkGoto(IF notAfk THEN "gate" ELSE "mark")
  /\ UNCHANGED signal

\* One operation of the pass: its limit has passed, or the thread will wait.
Each ==
  /\ afk.pc = "each" /\ afk.i <= Limits
  /\ IF seen >= afk.i
     THEN Timeout
     ELSE /\ afk' = [afk EXCEPT !.pc = "remaining", !.past = FALSE]
          /\ UNCHANGED <<signal, cancelled, queue, notAfk, disposed>>
  /\ UNCHANGED <<gate, marked, maps, clock, task, counted, callers, window, closing>>

\* An input ends the wait for the limit, and the pass.
Remaining ==
  /\ afk.pc = "remaining"
  /\ \/ /\ signal = 1
        /\ signal' = 0
        /\ afk' = [afk EXCEPT !.pc = "after", !.allAfk = FALSE]
        /\ UNCHANGED <<cancelled, queue, notAfk, disposed>>
     \/ /\ seen >= afk.i
        /\ Timeout
  /\ UNCHANGED <<gate, marked, maps, clock, task, counted, callers, window, closing>>

Gate ==
  /\ afk.pc = "gate"
  /\ gate = 1
  /\ gate' = 0
  /\ AfkGoto("mark")
  /\ UNCHANGED <<signal, notAfk, marked, maps, clock, cancelled, sends, callers, ends>>

Advance == afk' = [afk EXCEPT !.pc = "each", !.i = @ + 1]

\* The operation is marked, and abstained once.
Mark ==
  /\ afk.pc = "mark"
  /\ marked' = marked \cup {<<afk.gen, afk.i>>}
  /\ IF <<afk.gen, afk.i>> \in marked THEN Advance ELSE AfkGoto("join")
  /\ UNCHANGED <<semaphores, notAfk, maps, clock, cancelled, sends, callers, ends>>

\* SendOperationAsync of the task: false from a disposed client; nothing is
\* sent, and true returned, when the token is cancelled.  The abstention queues
\* as the task starts; that a vote overtakes the new thread is left out.
StartTask(messages) ==
  /\ task' = IF disposed THEN "failed" ELSE IF closing THEN "idle" ELSE "sending"
  /\ queue' = IF disposed \/ closing THEN queue ELSE queue \o messages

TaskSend(o, v) == [op |-> o, vote |-> v, by |-> "task", live |-> FALSE]

\* The thread joins the task before it starts the next.
Join ==
  /\ afk.pc = "join"
  /\ task = "idle"
  /\ StartTask(<<TaskSend(afk.i, "Abstain")>>)
  /\ Advance
  /\ UNCHANGED <<semaphores, notAfk, marked, maps, clock, cancelled, counted, callers, ends>>

\* Mutated form of After: a thread that goes to rest keeps IsNotAfkLock.
AfterKeepsGate ==
  /\ \/ afk.pc = "after"
     \/ afk.pc = "each" /\ afk.i > Limits
  /\ \/ /\ ~afk.allAfk
        /\ notAfk' = TRUE
        /\ gate' = IF notAfk THEN gate ELSE 1
        /\ PassEnds("again")
     \/ /\ afk.allAfk
        /\ PassEnds(IF afk.past THEN "rest" ELSE "top")
        /\ UNCHANGED <<notAfk, gate>>
  /\ UNCHANGED <<signal, marked, maps, age, cancelled, sends, callers, ends>>

\* The end of a pass: an input was seen, or all limits had passed when the
\* pass began, or the pass is made again.
After ==
  /\ \/ afk.pc = "after"
     \/ afk.pc = "each" /\ afk.i > Limits
  /\ \/ /\ ~afk.allAfk
        /\ notAfk' = TRUE
        /\ gate' = IF notAfk THEN gate ELSE 1
        /\ PassEnds("again")
     \/ /\ afk.allAfk
        /\ gate' = IF afk.past THEN 1 ELSE gate
        /\ PassEnds(IF afk.past THEN "rest" ELSE "top")
        /\ UNCHANGED notAfk
  /\ UNCHANGED <<signal, marked, maps, age, cancelled, sends, callers, ends>>

\* TryRestore: a task sends the recorded votes of the operations marked.
TryRestore ==
  IF notAfk
  THEN UNCHANGED <<notAfk, marked, task, queue>>
  ELSE /\ task = "idle"
       /\ notAfk' = TRUE
       /\ marked' = {}
       /\ StartTask([k \in 1..Len(SetToSeq(marked)) |-> TaskSend(SetToSeq(marked)[k][2], "Vote")])

\* The waits for an input without a limit.
Wake ==
  /\ afk.pc \in {"none", "again", "rest"}
  /\ signal = 1
  /\ signal' = 0
  /\ AfkGoto("top")
  /\ IF afk.pc = "again" THEN TryRestore ELSE UNCHANGED <<notAfk, marked, task, queue>>
  /\ UNCHANGED <<gate, maps, clock, cancelled, counted, callers, ends>>

\* Mutated form of Stop: the waits for an input are not given AfkCts.
StopUnlessAsleep ==
  /\ closing
  /\ afk.pc \in {"top", "remaining", "gate"}
  /\ PassEnds("ended")
  /\ gate' = IF afk.pc \in {"remaining", "gate"} /\ ~notAfk THEN 1 ELSE gate
  /\ notAfk' = (notAfk \/ afk.pc \in {"remaining", "gate"})
  /\ Cancel
  /\ UNCHANGED <<signal, marked, maps, age, task, counted, callers, window, closing>>

\* AfkCts ends every wait of the thread but the join of the task.
Stop ==
  /\ closing
  /\ afk.pc \in {"top", "remaining", "gate", "none", "again", "rest"}
  /\ PassEnds("ended")
  /\ gate' = IF afk.pc \in {"remaining", "gate"} /\ ~notAfk THEN 1 ELSE gate
  /\ notAfk' = (notAfk \/ afk.pc \in {"remaining", "gate"})
  /\ Cancel
  /\ UNCHANGED <<signal, marked, maps, age, task, counted, callers, window, closing>>

AfkThread == Top \/ Each \/ Remaining \/ Gate \/ Mark \/ Join \/ After \/ Wake \/ Stop

-----------------------------------------------------------------------------
(* LockClient, called by an input of the window and by SetTimeouts.        *)

\* A new SendOperationCts, and the signal, before IsNotAfkLock is awaited.
SignalInput ==
  /\ cancelled' = FALSE
  /\ queue' = [k \in DOMAIN queue |-> [queue[k] EXCEPT !.live = FALSE]]
  /\ signal' = 1

\* An input of the window, which votes on an operation or on none.  A reload
\* keeps the key map locked.
Input(o) ==
  /\ window /\ ui.pc = "idle" /\ reload.pc # "loading"
  /\ Cardinality({k \in DOMAIN queue : queue[k].by = "ui"}) < MaxSends
  /\ ui' = [pc |-> "wait", op |-> o]
  /\ SignalInput
  /\ UNCHANGED <<gate, notAfk, marked, maps, clock, afk, task, counted, reload, ends>>

InputLocks ==
  /\ ui.pc = "wait"
  /\ gate = 1
  /\ gate' = 0
  /\ ui' = [ui EXCEPT !.pc = "in"]
  /\ UNCHANGED <<signal, notAfk, marked, maps, clock, cancelled, afk, sends, reload, ends>>

\* sendRequest: nothing is sent by a disposed client or with a cancelled token.
InputSends ==
  /\ ui.pc = "in"
  /\ ui' = [ui EXCEPT !.pc = "sent"]
  /\ queue' = IF ui.op = None \/ disposed \/ cancelled THEN queue
              ELSE Append(queue, [op |-> ui.op, vote |-> "Vote", by |-> "ui", live |-> TRUE])
  /\ UNCHANGED <<semaphores, notAfk, marked, maps, clock, cancelled, afk, task, counted,
                 reload, ends>>

\* Mutated form of InputEnds: the token releases a semaphore that may be full.
InputReleases ==
  /\ ui.pc = "sent"
  /\ age' = 0
  /\ fresh' = FALSE
  /\ ui' = [pc |-> "idle", op |-> None]
  /\ marked' = marked \ {<<keyMap, ui.op>>}
  /\ gate' = gate + 1
  /\ UNCHANGED <<signal, notAfk, maps, seen, cancelled, afk, sends, reload, ends>>

\* Mutated form of InputEnds: the overload of LockClient without an operation.
InputUnrecorded ==
  /\ ui.pc = "sent"
  /\ age' = 0
  /\ fresh' = FALSE
  /\ ui' = [pc |-> "idle", op |-> None]
  /\ gate' = 1
  /\ UNCHANGED <<signal, notAfk, marked, maps, seen, cancelled, afk, sends, reload, ends>>

\* LastClickTime and then AfkTypes; the token gives IsNotAfkLock back if it can.
InputEnds ==
  /\ ui.pc = "sent"
  /\ age' = 0
  /\ fresh' = FALSE
  /\ ui' = [pc |-> "idle", op |-> None]
  /\ marked' = marked \ {<<keyMap, ui.op>>}
  /\ gate' = 1
  /\ UNCHANGED <<signal, notAfk, maps, seen, cancelled, afk, sends, reload, ends>>

WindowThread == InputLocks \/ InputSends \/ InputEnds

-----------------------------------------------------------------------------
(* ConnectAsync and the reconnect loop: they hold _connectionLock until    *)
(* SetTimeouts has returned, and the key map's lock until they have read   *)
(* the operations.  They get the latter once no input is at work.          *)

\* The session at the server ends with the connection.
ReloadStarts ==
  /\ reload.pc = "idle" /\ ~disposed /\ ~closing
  /\ ui.pc = "idle" /\ \A k \in DOMAIN queue : queue[k].by # "ui"
  /\ reload' = [pc |-> "loading", ok |-> FALSE]
  /\ counted' = {}
  /\ UNCHANGED <<semaphores, notAfk, marked, maps, clock, cancelled, afk, task, queue, ui, ends>>

\* ParseInstructions of new operations, or of the old ones when the reconnect
\* loop gives up.
ReloadParses ==
  /\ reload.pc = "loading"
  /\ \E ok \in BOOLEAN :
       /\ IF ok THEN keyMap < MaxReloads ELSE keyMap > 0
       /\ reload' = [pc |-> "parsed", ok |-> ok]
       /\ keyMap' = IF ok THEN keyMap + 1 ELSE keyMap
  /\ UNCHANGED <<semaphores, notAfk, marked, gen, clock, cancelled, afk, sends, ui, ends>>

SetTimeouts ==
  /\ reload.pc = "parsed"
  /\ reload' = [reload EXCEPT !.pc = "wait"]
  /\ gen' = keyMap
  /\ SignalInput
  /\ UNCHANGED <<gate, notAfk, marked, keyMap, clock, afk, task, counted, ui, ends>>

ReloadLocks ==
  /\ reload.pc = "wait"
  /\ gate = 1
  /\ gate' = 0
  /\ reload' = [reload EXCEPT !.pc = "in"]
  /\ UNCHANGED <<signal, notAfk, marked, maps, clock, cancelled, afk, sends, ui, ends>>

\* LastClickTime, IsNotAfkLock and the return of the connecting thread, which
\* disposes the client when it gives up, and tells the window.
ReloadEnds ==
  /\ reload.pc = "in"
  /\ reload' = [pc |-> "idle", ok |-> FALSE]
  /\ age' = 0
  /\ fresh' = FALSE
  /\ gate' = 1
  /\ disposed' = (disposed \/ ~reload.ok)
  /\ window' = (reload.ok /\ ~closing /\ (window \/ keyMap = 1))
  /\ UNCHANGED <<signal, notAfk, marked, maps, seen, cancelled, afk, sends, ui, closing>>

ReloadThread == ReloadParses \/ SetTimeouts \/ ReloadLocks \/ ReloadEnds

-----------------------------------------------------------------------------
(* The sends, the end of the manager and time.                             *)

\* The first send in the queue gets _connectionLock.  The semaphore of a
\* disposed client wakes nobody.
Deliver ==
  /\ queue # <<>> /\ reload.pc = "idle" /\ ~disposed
  /\ counted' = IF Head(queue).vote = "Vote" THEN counted \cup {Head(queue).op}
                ELSE counted \ {Head(queue).op}
  /\ queue' = Tail(queue)
  /\ task' = IF Head(queue).by = "task" /\ \A k \in 2..Len(queue) : queue[k].by = "ui"
             THEN "idle" ELSE task
  /\ UNCHANGED <<semaphores, notAfk, marked, maps, clock, cancelled, afk, callers, ends>>

\* Dispose of the manager cancels AfkCts and the sends of the user.  A send of
\* the task that still waits returns false.
Dispose ==
  /\ ~closing
  /\ closing' = TRUE
  /\ cancelled' = TRUE
  /\ KeepSends({k \in DOMAIN queue : queue[k].by = "ui" /\ ~queue[k].live})
  /\ task' = IF task = "sending" THEN "failed" ELSE task
  /\ UNCHANGED <<semaphores, notAfk, marked, maps, clock, afk, counted, callers>>

\* The window is closed.
Close == Dispose /\ keyMap > 0 /\ ui.pc = "idle" /\ window' = FALSE /\ UNCHANGED disposed

\* A task whose send failed disposes the client and the manager, and waits for
\* the thread to end.
TaskFails ==
  /\ task = "failed"
  /\ Dispose
  /\ disposed' = TRUE
  /\ UNCHANGED window

TaskEnds ==
  /\ task = "failed" /\ closing /\ afk.pc = "ended"
  /\ task' = "idle"
  /\ UNCHANGED <<semaphores, notAfk, marked, maps, clock, cancelled, afk, queue, counted,
                 callers, ends>>

\* Limits pass; the time the thread has read is not later than the last input.
\* No wait ends by a limit once AfkCts is cancelled.
Tick ==
  /\ ~closing
  /\ \E a \in age..Limits, s \in seen..Limits :
       /\ a <= s /\ (fresh => a = s) /\ <<a, s>> # <<age, seen>>
       /\ age' = a /\ seen' = s
  /\ UNCHANGED <<fresh, semaphores, notAfk, marked, maps, cancelled, afk, sends, callers, ends>>

AfkNext ==
  \/ AfkThread \/ WindowThread \/ ReloadThread
  \/ \E o \in Ops \cup {None} : Input(o)
  \/ ReloadStarts \/ Deliver \/ Close \/ TaskFails \/ TaskEnds \/ Tick

AfkSpec == AfkInit /\ [][AfkNext]_afkVars

\* Threads that can go on do, and time passes.  Semaphores serve their waiters
\* in turn.
FairAfkSpec ==
  /\ AfkSpec
  /\ WF_afkVars(AfkThread) /\ SF_afkVars(Gate)
  /\ WF_afkVars(WindowThread) /\ SF_afkVars(InputLocks)
  /\ WF_afkVars(ReloadThread) /\ SF_afkVars(ReloadLocks)
  /\ WF_afkVars(Deliver) /\ WF_afkVars(TaskFails \/ TaskEnds) /\ WF_afkVars(Tick)

-----------------------------------------------------------------------------
\* IsNotAfkLock is taken only while an input or a reload is inside LockClient
\* or the thread is in a pass that began with the user active; a thread that
\* waits for an input has given it back, whatever TryRelease has done to it.
GateHasOwner ==
  gate = 0 =>
    \/ ui.pc \in {"in", "sent"} \/ reload.pc = "in"
    \/ ~notAfk /\ afk.pc \in {"top", "each", "remaining", "mark", "join", "after"}
    \/ closing

\* The server will count a vote once the queue is sent: one that it has or that
\* is under way, and that no abstention follows.
Abstains(k, o) == queue[k].op = o /\ queue[k].vote = "Abstain"
WillCount(o) ==
  \/ o \in counted /\ \A k \in DOMAIN queue : ~Abstains(k, o)
  \/ \E k \in DOMAIN queue :
       /\ queue[k].op = o /\ queue[k].vote = "Vote"
       /\ \A j \in DOMAIN queue : j > k => ~Abstains(j, o)

\* A user marked idle on an operation has no vote left on it, once the sends
\* under way arrive: an input that is slower than the thread is marked again.
MarkedIdleHasNoVote ==
  \A o \in Ops :
    <<keyMap, o>> \in marked =>
      \/ ~WillCount(o)
      \/ ui.op = o /\ ui.pc = "sent"
      \/ afk.pc = "join" /\ afk.i = o
      \/ disposed \/ closing

\* What this takes: only votes of the user can be cancelled, so that a cancelled
\* send never uncovers a vote; the limits the thread works on are not newer than
\* the key map; and the key map is not replaced under an input.
IdleInv ==
  /\ AfkTypeOK /\ MarkedIdleHasNoVote
  /\ \A k \in DOMAIN queue : queue[k].live => queue[k].vote = "Vote"
  /\ afk.gen <= gen /\ gen <= keyMap /\ \A t \in marked : t[1] <= keyMap
  /\ afk.pc \in {"each", "remaining", "gate", "mark", "join"} => afk.gen > 0
  /\ afk.pc \in {"remaining", "gate", "mark", "join"} => afk.i <= Limits
  /\ reload.pc = "loading" => ui.pc = "idle"

\* The thread joins a task that cannot end: the task waits for the thread, or
\* for a client that is disposed, or for a reload that waits for IsNotAfkLock.
Jammed ==
  /\ afk.pc = "join"
  /\ \/ task = "failed"
     \/ task = "sending" /\ (disposed \/ reload.pc = "wait")

\* LockClient returns to an input and to a reload, unless the thread is jammed.
LockClientReturns ==
  /\ (ui.pc = "wait") ~> (ui.pc # "wait" \/ Jammed \/ closing)
  /\ (reload.pc = "wait") ~> (reload.pc # "wait" \/ Jammed \/ closing)

\* The thread ends after Dispose of the manager, which waits for it, unless it
\* joins a task whose send failed and which waits for it in turn.
DisposeEndsThread == closing ~> (afk.pc = "ended" \/ Jammed)

\* A user who stays idle is abstained.
Quiet == window /\ ui.pc = "idle" /\ reload.pc = "idle" /\ ~disposed /\ ~closing
IdleAbstains == <>[]Quiet => <>[](counted = {})
=============================================================================
