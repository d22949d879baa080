------------------------ MODULE AfkProcessor_proofs ------------------------
(***************************************************************************)
(* IsNotAfkLock has an owner, and a user marked idle is without a vote,    *)
(* for any number of operations, reloads and sends.                        *)
(*                                                                         *)
(* The lock: the thread waits for IsNotAfkLock and sends abstentions   *)
(* only with IsNotAfkState reset, and whenever it goes to a wait for an    *)
(* input it has released the semaphore or IsNotAfkState was set all along, *)
(* so that whoever holds it then is inside LockClient.                     *)
(*                                                                         *)
(* The votes: an operation is abstained right after it is marked, an input *)
(* that votes on it takes the mark away, and what is cancelled meanwhile   *)
(* is votes only, so that no older vote comes to count again.              *)
(***************************************************************************)
EXTENDS AfkProcessor, FiniteSetTheorems, TLAPS

\* The thread that is taking IsNotAfkLock, or has it, has reset IsNotAfkState.
GateWantsIdle == afk.pc \in {"gate", "mark", "join"} => ~notAfk

\* A thread that waits for the input after an input has set IsNotAfkState.
AgainIsActive == afk.pc = "again" => notAfk

\* The thread and the callers are records.
Threads ==
  /\ notAfk \in BOOLEAN
  /\ DOMAIN afk = {"pc", "i", "gen", "allAfk", "past"} /\ afk = [f \in DOMAIN afk |-> afk[f]]
  /\ DOMAIN ui = {"pc", "op"} /\ ui = [f \in DOMAIN ui |-> ui[f]]
  /\ DOMAIN reload = {"pc", "ok"} /\ reload = [f \in DOMAIN reload |-> reload[f]]

AfkInv == Threads /\ GateWantsIdle /\ AgainIsActive /\ GateHasOwner

\* The thread goes on to IsNotAfkLock, or has it already.
LEMMA TimeoutEffect ==
  ASSUME AfkInv, Timeout
  PROVE  /\ notAfk' = FALSE
         /\ afk' = [afk EXCEPT !.pc = IF notAfk THEN "gate" ELSE "mark"]
BY DEF Timeout, AfkGoto, AfkInv, Threads

\* The steps of the thread.
LEMMA ThreadKeepsGate ==
  ASSUME AfkInv, AfkThread PROVE AfkInv'
<1> USE DEF AfkInv, Threads, GateWantsIdle, AgainIsActive, GateHasOwner, callers, ends
<1>1. CASE Top
  BY <1>1 DEF Top, AfkGoto
<1>2. CASE Each
  <2>1. CASE seen >= afk.i
    <3>1. Timeout BY <1>2, <2>1 DEF Each
    <3>2. UNCHANGED <<gate, ui, reload, closing>> BY <1>2 DEF Each
    <3>3. afk.pc = "each" BY <1>2 DEF Each
    <3> QED BY <3>1, <3>2, <3>3, TimeoutEffect
  <2>2. CASE ~(seen >= afk.i)
    BY <1>2, <2>2 DEF Each
  <2> QED BY <2>1, <2>2
<1>3. CASE Remaining
  <2>1. UNCHANGED <<gate, ui, reload, closing>> BY <1>3 DEF Remaining
  <2>2. afk.pc = "remaining" BY <1>3 DEF Remaining
  <2>3. CASE Timeout
    BY <2>1, <2>2, <2>3, TimeoutEffect
  <2>4. CASE ~Timeout
    <3>1. afk' = [afk EXCEPT !.pc = "after", !.allAfk = FALSE] /\ UNCHANGED notAfk
      BY <1>3, <2>4 DEF Remaining
    <3> QED BY <2>1, <2>2, <3>1
  <2> QED BY <2>3, <2>4
<1>4. CASE Gate
  BY <1>4 DEF Gate, AfkGoto
<1>5. CASE Mark
  BY <1>5 DEF Mark, AfkGoto, Advance, semaphores
<1>6. CASE Join
  BY <1>6 DEF Join, Advance, semaphores
<1>7. CASE After
  <2>1. UNCHANGED <<ui, reload, closing>> BY <1>7 DEF After
  <2>2. PICK next \in {"again", "rest", "top"} :
          /\ PassEnds(next)
          /\ \/ next = "again" /\ notAfk' = TRUE /\ gate' = (IF notAfk THEN gate ELSE 1)
             \/ next = "rest" /\ gate' = 1 /\ UNCHANGED notAfk
             \/ next = "top" /\ UNCHANGED <<gate, notAfk>>
    BY <1>7 DEF After
  <2>3. afk.pc \in {"after", "each"} BY <1>7 DEF After
  <2>4. afk' = [pc |-> next, i |-> 1, gen |-> 0, allAfk |-> TRUE, past |-> TRUE]
    BY <2>2 DEF PassEnds
  <2>5. Threads' BY <2>1, <2>2, <2>4
  <2>6. afk'.pc = next BY <2>4
  <2>7. GateWantsIdle' /\ AgainIsActive' BY <2>2, <2>6
  <2>8. GateHasOwner' BY <2>1, <2>2, <2>3, <2>6
  <2> QED BY <2>5, <2>7, <2>8
<1>8. CASE Wake
  BY <1>8 DEF Wake, AfkGoto, TryRestore
<1>9. CASE Stop
  BY <1>9 DEF Stop, PassEnds, Cancel
<1> QED BY <1>1, <1>2, <1>3, <1>4, <1>5, <1>6, <1>7, <1>8, <1>9 DEF AfkThread

\* The steps of an input, of a reload and of everything else.
LEMMA CallersKeepGate ==
  ASSUME AfkInv, AfkNext, ~AfkThread PROVE AfkInv'
<1> USE DEF AfkInv, Threads, GateWantsIdle, AgainIsActive, GateHasOwner, callers, ends, semaphores
<1>1. CASE InputLocks
  BY <1>1 DEF InputLocks
<1>2. CASE InputSends
  BY <1>2 DEF InputSends
<1>3. CASE InputEnds
  BY <1>3 DEF InputEnds
<1>4. CASE \E o \in Ops \cup {None} : Input(o)
  BY <1>4 DEF Input, SignalInput
<1>5. CASE ReloadStarts
  BY <1>5 DEF ReloadStarts
<1>6. CASE ReloadParses
  BY <1>6 DEF ReloadParses
<1>7. CASE SetTimeouts
  BY <1>7 DEF SetTimeouts, SignalInput
<1>8. CASE ReloadLocks
  BY <1>8 DEF ReloadLocks
<1>9. CASE ReloadEnds
  BY <1>9 DEF ReloadEnds
<1>10. CASE Deliver
  BY <1>10 DEF Deliver
<1>11. CASE Close \/ TaskFails
  BY <1>11 DEF Close, TaskFails, Dispose
<1>12. CASE TaskEnds \/ Tick
  BY <1>12 DEF TaskEnds, Tick
<1> QED BY <1>1, <1>2, <1>3, <1>4, <1>5, <1>6, <1>7, <1>8, <1>9, <1>10, <1>11, <1>12
        DEF AfkNext, WindowThread, ReloadThread

\* Inputs, reloads, the AFK thread and Dispose keep IsNotAfkLock accounted for.
LEMMA AfkInvariant == AfkSpec => []AfkInv
<1>1. AfkInit => AfkInv
  <2> SUFFICES ASSUME AfkInit PROVE AfkInv OBVIOUS
  <2>1. Threads BY DEF AfkInit, Threads
  <2>2. GateWantsIdle /\ AgainIsActive /\ GateHasOwner
    BY DEF AfkInit, GateWantsIdle, AgainIsActive, GateHasOwner
  <2> QED BY <2>1, <2>2 DEF AfkInv
<1>2. AfkInv /\ [AfkNext]_afkVars => AfkInv'
  <2>1. CASE UNCHANGED afkVars
    BY <2>1 DEF AfkInv, Threads, GateWantsIdle, AgainIsActive, GateHasOwner, afkVars, callers,
                ends, semaphores
  <2>2. CASE AfkNext
    BY <2>2, ThreadKeepsGate, CallersKeepGate
  <2> QED BY <2>1, <2>2
<1> QED BY <1>1, <1>2, PTL DEF AfkSpec

\* For any number of operations and reloads, IsNotAfkLock is taken only while
\* an input or a reload is inside LockClient or the AFK thread is in a pass
\* for an idle user: no use of TryRelease leaves it taken by nobody.
THEOREM GateAlwaysOwned == AfkSpec => []GateHasOwner
BY AfkInvariant, PTL DEF AfkInv

\* The waits of the thread for an input end without TryRestore sending a vote
\* again: what was abstained for an idle user stays abstained until the user
\* presses the key again.
NothingRestored == [][Wake => UNCHANGED <<notAfk, marked, task, queue>>]_afkVars

\* IsNotAfkState is set whenever the thread calls TryRestore, whose body is
\* never run.
THEOREM RestoreNeverRuns == AfkSpec => NothingRestored
<1>1. AfkInv => (Wake => UNCHANGED <<notAfk, marked, task, queue>>)
  BY DEF AfkInv, AgainIsActive, Wake, TryRestore
<1> QED BY <1>1, AfkInvariant, PTL DEF AfkSpec, NothingRestored

-----------------------------------------------------------------------------
(* The queue of the sends.                                                 *)

Sends == [op : Ops, vote : {"Vote", "Abstain"}, by : {"ui", "task"}, live : BOOLEAN]

\* The sends that are kept are in the queue in their order.
LEMMA KeptSends ==
  ASSUME queue \in Seq(Sends), NEW places \in SUBSET DOMAIN queue, KeepSends(places)
  PROVE  \E n \in Nat : \E f \in [1..n -> places] :
           /\ \A k \in places : \E i \in 1..n : f[i] = k
           /\ \A i, j \in 1..n : i < j => f[i] < f[j]
           /\ queue' = [i \in 1..n |-> queue[f[i]]]
<1>1. IsFiniteSet(DOMAIN queue)
  <2>1. DOMAIN queue = 1..Len(queue) /\ Len(queue) \in Nat OBVIOUS
  <2> QED BY <2>1, FS_Interval
<1>2. Cardinality(places) \in Nat BY <1>1, FS_Subset, FS_CardinalityType
<1>3. PICK f \in Bijection(1..Cardinality(places), places) :
        /\ \A i, j \in DOMAIN f : i < j => f[i] < f[j]
        /\ queue' = [i \in DOMAIN f |-> queue[f[i]]]
  BY DEF KeepSends
<1>4. /\ f \in [1..Cardinality(places) -> places]
      /\ \A k \in places : \E i \in 1..Cardinality(places) : f[i] = k
  BY <1>3 DEF Bijection, Injection, Surjection
<1>5. DOMAIN f = 1..Cardinality(places) BY <1>4
<1> QED BY <1>2, <1>3, <1>4, <1>5

LEMMA KeptTypes ==
  ASSUME queue \in Seq(Sends), NEW places \in SUBSET DOMAIN queue, KeepSends(places)
  PROVE  /\ queue' \in Seq(Sends)
         /\ \A i \in DOMAIN queue' : \E k \in DOMAIN queue : queue'[i] = queue[k]
<1>1. PICK n \in Nat : \E f \in [1..n -> places] :
        /\ \A k \in places : \E i \in 1..n : f[i] = k
        /\ \A i, j \in 1..n : i < j => f[i] < f[j]
        /\ queue' = [i \in 1..n |-> queue[f[i]]]
  BY KeptSends
<1>2. PICK f \in [1..n -> places] : queue' = [i \in 1..n |-> queue[f[i]]] BY <1>1
<1>3. \A i \in 1..n : f[i] \in DOMAIN queue /\ queue[f[i]] \in Sends OBVIOUS
<1> QED BY <1>2, <1>3

\* To take votes out of the queue never makes the server count one more.
LEMMA KeptCount ==
  ASSUME queue \in Seq(Sends), NEW places \in SUBSET DOMAIN queue, KeepSends(places),
         \A k \in DOMAIN queue : k \notin places => queue[k].vote = "Vote",
         counted' \subseteq counted, NEW o \in Ops, WillCount(o)'
  PROVE  WillCount(o)
<1>1. PICK n \in Nat : \E f \in [1..n -> places] :
        /\ \A k \in places : \E i \in 1..n : f[i] = k
        /\ \A i, j \in 1..n : i < j => f[i] < f[j]
        /\ queue' = [i \in 1..n |-> queue[f[i]]]
  BY KeptSends
<1>2. PICK f \in [1..n -> places] :
        /\ \A k \in places : \E i \in 1..n : f[i] = k
        /\ \A i, j \in 1..n : i < j => f[i] < f[j]
        /\ queue' = [i \in 1..n |-> queue[f[i]]]
  BY <1>1
<1>3. DOMAIN queue' = 1..n /\ \A i \in 1..n : queue'[i] = queue[f[i]] BY <1>2
<1>4. \A k \in DOMAIN queue : Abstains(k, o) => k \in places BY DEF Abstains
<1>5. CASE o \in counted' /\ \A i \in DOMAIN queue' : ~(queue'[i].op = o /\ queue'[i].vote = "Abstain")
  <2>1. \A k \in places : ~Abstains(k, o) BY <1>2, <1>3, <1>5 DEF Abstains
  <2> QED BY <1>4, <1>5, <2>1 DEF WillCount
<1>6. CASE \E i \in DOMAIN queue' :
             /\ queue'[i].op = o /\ queue'[i].vote = "Vote"
             /\ \A j \in DOMAIN queue' : j > i => ~(queue'[j].op = o /\ queue'[j].vote = "Abstain")
  <2>1. PICK i \in 1..n :
             /\ queue'[i].op = o /\ queue'[i].vote = "Vote"
             /\ \A j \in 1..n : j > i => ~(queue'[j].op = o /\ queue'[j].vote = "Abstain")
    BY <1>3, <1>6
  <2>2. f[i] \in DOMAIN queue /\ queue[f[i]].op = o /\ queue[f[i]].vote = "Vote" BY <1>3, <2>1
  <2>3. ASSUME NEW k \in DOMAIN queue, k > f[i], Abstains(k, o) PROVE FALSE
    <3>1. PICK j \in 1..n : f[j] = k BY <1>2, <1>4, <2>3
    <3>2. k \in Int /\ f[i] \in Int BY <2>2
    <3>3. ~(j < i) /\ j # i BY <1>2, <2>3, <3>1, <3>2
    <3>4. j > i BY <3>3
    <3> QED BY <1>3, <2>1, <2>3, <3>1, <3>4 DEF Abstains
  <2> QED BY <2>2, <2>3 DEF WillCount
<1> QED BY <1>5, <1>6 DEF WillCount, Abstains

\* The send at the head of the queue does what was to be expected of it.
LEMMA DeliverCount ==
  ASSUME queue \in Seq(Sends), Deliver, NEW o \in Ops, WillCount(o)'
  PROVE  WillCount(o)
<1> DEFINE first == queue[1]
           n == Len(queue)
<1>1. /\ n \in Nat \ {0} /\ DOMAIN queue = 1..n /\ first \in Sends /\ Head(queue) = first
      /\ DOMAIN queue' = 1..(n - 1) /\ \A i \in 1..(n - 1) : queue'[i] = queue[i + 1]
  BY DEF Deliver
<1>2. counted' = IF first.vote = "Vote" THEN counted \cup {first.op} ELSE counted \ {first.op}
  BY <1>1 DEF Deliver
<1> HIDE DEF n
<1>3. \A j \in 1..n : j > 1 => j - 1 \in 1..(n - 1) /\ queue'[j - 1] = queue[j]
  <2> SUFFICES ASSUME NEW j \in 1..n, j > 1
               PROVE  j - 1 \in 1..(n - 1) /\ queue'[j - 1] = queue[(j - 1) + 1]
    BY <1>1
  <2>1. j - 1 \in 1..(n - 1) BY <1>1
  <2> QED BY <1>1, <2>1
<1>4. CASE o \in counted' /\ \A i \in DOMAIN queue' : ~(queue'[i].op = o /\ queue'[i].vote = "Abstain")
  <2>1. \A j \in 1..n : j > 1 => ~Abstains(j, o) BY <1>1, <1>3, <1>4 DEF Abstains
  <2>2. CASE first.op = o /\ first.vote = "Vote" BY <1>1, <2>1, <2>2 DEF WillCount
  <2>3. CASE ~(first.op = o /\ first.vote = "Vote")
    <3>1. o \in counted /\ ~(first.op = o /\ first.vote = "Abstain")
      BY <1>1, <1>2, <1>4, <2>3 DEF Sends
    <3>2. \A j \in 1..n : ~Abstains(j, o) BY <1>1, <2>1, <3>1 DEF Abstains
    <3> QED BY <1>1, <3>1, <3>2 DEF WillCount
  <2> QED BY <2>2, <2>3
<1>5. CASE \E i \in DOMAIN queue' :
             /\ queue'[i].op = o /\ queue'[i].vote = "Vote"
             /\ \A j \in DOMAIN queue' : j > i => ~(queue'[j].op = o /\ queue'[j].vote = "Abstain")
  <2>1. PICK i \in 1..(n - 1) :
             /\ queue'[i].op = o /\ queue'[i].vote = "Vote"
             /\ \A j \in 1..(n - 1) : j > i => ~(queue'[j].op = o /\ queue'[j].vote = "Abstain")
    BY <1>1, <1>5
  <2>2. i + 1 \in 1..n /\ queue[i + 1].op = o /\ queue[i + 1].vote = "Vote" BY <1>1, <2>1
  <2>3. ASSUME NEW j \in 1..n, j > i + 1 PROVE ~Abstains(j, o)
    <3>1. j - 1 \in 1..(n - 1) /\ j - 1 > i /\ queue'[j - 1] = queue[j] BY <1>1, <1>3, <2>3
    <3> QED BY <2>1, <3>1 DEF Abstains
  <2> QED BY <1>1, <2>2, <2>3 DEF WillCount
<1> QED BY <1>4, <1>5 DEF WillCount, Abstains

LEMMA AppendSend ==
  ASSUME NEW q \in Seq(Sends), NEW e \in Sends
  PROVE  /\ Append(q, e) \in Seq(Sends)
         /\ \A k \in DOMAIN Append(q, e) :
              Append(q, e)[k] = e \/ (k \in DOMAIN q /\ Append(q, e)[k] = q[k])
<1>1. Append(q, e) \in Seq(Sends) OBVIOUS
<1>2. \A k \in DOMAIN Append(q, e) : k \in 1..Len(q) \/ k = Len(q) + 1 OBVIOUS
<1>3. \A k \in 1..Len(q) : k \in DOMAIN q /\ Append(q, e)[k] = q[k] OBVIOUS
<1>4. Append(q, e)[Len(q) + 1] = e OBVIOUS
<1> QED BY <1>1, <1>2, <1>3, <1>4

\* A send added to the queue changes what will be counted of its operation only,
\* and an abstention takes the vote back.
LEMMA AppendCount ==
  ASSUME queue \in Seq(Sends), NEW e \in Sends, queue' = Append(queue, e), counted' = counted,
         NEW o \in Ops, WillCount(o)'
  PROVE  IF e.op = o THEN e.vote = "Vote" ELSE WillCount(o)
<1> DEFINE n == Len(queue)
<1>1. /\ n \in Nat /\ DOMAIN queue = 1..n /\ DOMAIN queue' = 1..(n + 1)
      /\ \A i \in 1..n : queue'[i] = queue[i]
      /\ queue'[n + 1] = e
  OBVIOUS
<1> HIDE DEF n
<1>2. n + 1 \in 1..(n + 1) /\ \A i \in 1..(n + 1) : i = n + 1 \/ (i \in 1..n /\ n + 1 > i)
  BY <1>1
<1>3. CASE e.op = o
  <2>1. CASE e.vote = "Abstain" BY <1>1, <1>2, <1>3, <2>1 DEF WillCount, Abstains
  <2> QED BY <1>3, <2>1 DEF Sends
<1>4. CASE e.op # o
  <2>1. CASE o \in counted /\ \A i \in DOMAIN queue' : ~(queue'[i].op = o /\ queue'[i].vote = "Abstain")
    <3>1. \A i \in 1..n : ~Abstains(i, o) BY <1>1, <2>1 DEF Abstains
    <3> QED BY <1>1, <1>4, <2>1, <3>1 DEF WillCount
  <2>2. CASE \E i \in DOMAIN queue' :
               /\ queue'[i].op = o /\ queue'[i].vote = "Vote"
               /\ \A j \in DOMAIN queue' : j > i => ~(queue'[j].op = o /\ queue'[j].vote = "Abstain")
    <3>1. PICK i \in 1..(n + 1) :
               /\ queue'[i].op = o /\ queue'[i].vote = "Vote"
               /\ \A j \in 1..(n + 1) : j > i => ~(queue'[j].op = o /\ queue'[j].vote = "Abstain")
      BY <1>1, <2>2
    <3>2. i \in 1..n BY <1>1, <1>2, <1>4, <3>1
    <3>3. \A j \in 1..n : j > i => ~Abstains(j, o) BY <1>1, <3>1 DEF Abstains
    <3> QED BY <1>1, <1>4, <3>1, <3>2, <3>3 DEF WillCount
  <2> QED BY <1>4, <2>1, <2>2 DEF WillCount, Abstains
<1> QED BY <1>3, <1>4

-----------------------------------------------------------------------------
(* Types.                                                                  *)

Counts == signal \in 0..1 /\ gate \in 0..1
Flags ==
  /\ notAfk \in BOOLEAN /\ cancelled \in BOOLEAN
  /\ window \in BOOLEAN /\ disposed \in BOOLEAN /\ closing \in BOOLEAN
  /\ task \in {"idle", "sending", "failed"}
FieldTypes == Counts /\ Flags

ClockTypes == age \in 0..Limits /\ seen \in 0..Limits /\ fresh \in BOOLEAN

ThreadTypes ==
  /\ marked \subseteq Types
  /\ keyMap \in 0..MaxReloads /\ gen \in 0..MaxReloads
  /\ afk \in [pc : {"top", "each", "remaining", "gate", "mark", "join", "after",
                    "none", "again", "rest", "ended"},
              i : 1..Limits + 1, gen : 0..MaxReloads, allAfk : BOOLEAN, past : BOOLEAN]

CallerTypes ==
  /\ ui \in [pc : {"idle", "wait", "in", "sent"}, op : Ops \cup {None}]
  /\ reload \in [pc : {"idle", "loading", "parsed", "wait", "in"}, ok : BOOLEAN]

QueueTypes ==
  /\ queue \in Seq(Sends)
  /\ counted \subseteq Ops
  /\ \A k \in DOMAIN queue : queue[k].live => queue[k].vote = "Vote"

\* The reload a pass, the limits and the marks are of.
Generations ==
  /\ afk.gen <= gen /\ gen <= keyMap /\ \A t \in marked : t[1] <= keyMap
  /\ afk.pc \in {"each", "remaining", "gate", "mark", "join"} => afk.gen > 0
  /\ afk.pc \in {"remaining", "gate", "mark", "join"} => afk.i <= Limits
  /\ reload.pc = "loading" => ui.pc = "idle"

IdleTypes == FieldTypes /\ ClockTypes /\ ThreadTypes /\ CallerTypes /\ QueueTypes /\ Generations

LEMMA IdleIs == IdleInv <=> IdleTypes /\ MarkedIdleHasNoVote
BY DEF IdleInv, AfkTypeOK, IdleTypes, FieldTypes, ClockTypes, ThreadTypes, CallerTypes,
       Counts, Flags, QueueTypes, Generations, Sends

\* Whom the steps of the thread, of an input and of a reload concern.
LEMMA ClockStep == ASSUME IdleTypes, AfkNext PROVE ClockTypes'
<1> USE AfkAssumption DEF IdleTypes, ClockTypes
<1>0. Limits \in 0..Limits BY DEF AfkAssumption
<1>1. CASE AfkThread
  BY <1>0, <1>1 DEF AfkThread, Top, Each, Remaining, Gate, Mark, Join, After, Wake, Stop, clock,
                    PassEnds
<1>2. CASE WindowThread
  <2>1. UNCHANGED clock \/ (age' = 0 /\ fresh' = FALSE /\ seen' = seen)
    BY <1>2 DEF WindowThread, InputLocks, InputSends, InputEnds
  <2>2. age' \in 0..Limits /\ seen' \in 0..Limits BY <2>1 DEF clock, AfkAssumption
  <2>3. fresh' \in BOOLEAN BY <2>1 DEF clock
  <2> QED BY <2>2, <2>3
<1>3. CASE ReloadThread
  <2>1. UNCHANGED clock \/ (age' = 0 /\ fresh' = FALSE /\ seen' = seen)
    BY <1>3 DEF ReloadThread, ReloadParses, SetTimeouts, ReloadLocks, ReloadEnds
  <2>2. age' \in 0..Limits /\ seen' \in 0..Limits BY <2>1 DEF clock, AfkAssumption
  <2>3. fresh' \in BOOLEAN BY <2>1 DEF clock
  <2> QED BY <2>2, <2>3
<1>4. CASE \E o \in Ops \cup {None} : Input(o) BY <1>4 DEF Input, clock
<1>5. CASE ReloadStarts \/ Deliver \/ Close \/ TaskFails \/ TaskEnds
  BY <1>5 DEF ReloadStarts, Deliver, Close, TaskFails, TaskEnds, Dispose, clock
<1>6. CASE Tick BY <1>6 DEF Tick, AfkAssumption
<1> QED BY <1>1, <1>2, <1>3, <1>4, <1>5, <1>6 DEF AfkNext

LEMMA CallerStep == ASSUME IdleTypes, AfkNext PROVE CallerTypes'
<1> USE DEF IdleTypes, CallerTypes
<1>1. CASE AfkThread
  BY <1>1 DEF AfkThread, Top, Each, Remaining, Gate, Mark, Join, After, Wake, Stop, callers
<1>2. CASE WindowThread BY <1>2 DEF WindowThread, InputLocks, InputSends, InputEnds
<1>3. CASE ReloadThread
  <2>1. CASE ReloadParses
    <3>1. PICK ok \in BOOLEAN : reload' = [pc |-> "parsed", ok |-> ok] BY <2>1 DEF ReloadParses
    <3> QED BY <2>1, <3>1 DEF ReloadParses
  <2>2. CASE SetTimeouts \/ ReloadLocks
    <3>1. PICK pc \in {"wait", "in"} : reload' = [reload EXCEPT !.pc = pc]
      BY <2>2 DEF SetTimeouts, ReloadLocks
    <3>2. ui' = ui BY <2>2 DEF SetTimeouts, ReloadLocks
    <3> QED BY <3>1, <3>2
  <2>3. CASE ReloadEnds BY <2>3 DEF ReloadEnds
  <2> QED BY <1>3, <2>1, <2>2, <2>3 DEF ReloadThread
<1>4. CASE \E o \in Ops \cup {None} : Input(o) BY <1>4 DEF Input
<1>5. CASE Deliver \/ Close \/ TaskFails \/ TaskEnds \/ Tick
  BY <1>5 DEF Deliver, Close, TaskFails, TaskEnds, Dispose, Tick, callers
<1>6. CASE ReloadStarts BY <1>6 DEF ReloadStarts
<1> QED BY <1>1, <1>2, <1>3, <1>4, <1>5, <1>6 DEF AfkNext

LEMMA FieldStep == ASSUME IdleTypes, AfkNext PROVE FieldTypes'
<1> USE DEF IdleTypes, FieldTypes, ends, semaphores, sends
<1>1. CASE Top \/ Gate \/ Mark \/ Join
  BY <1>1 DEF Counts, Flags, Top, Gate, Mark, Join, StartTask
<1>2. CASE Each BY <1>2 DEF Counts, Flags, Each, Timeout, Cancel
<1>3. CASE Remaining
  <2>1. /\ signal' \in {signal, 0} /\ notAfk' \in {notAfk, FALSE}
        /\ cancelled' \in {cancelled, TRUE} /\ disposed' \in {disposed, TRUE}
        /\ UNCHANGED <<gate, task, window, closing>>
    BY <1>3 DEF Remaining, Timeout, Cancel
  <2>8. Counts' BY <2>1 DEF Counts
  <2>9. Flags' BY <2>1 DEF Flags
  <2> QED BY <2>8, <2>9
<1>4. CASE After
  <2>1. /\ gate' \in {gate, 1} /\ notAfk' \in {notAfk, TRUE}
        /\ UNCHANGED <<signal, cancelled, task, window, disposed, closing>>
    BY <1>4 DEF After
  <2>8. Counts' BY <2>1 DEF Counts
  <2>9. Flags' BY <2>1 DEF Flags
  <2> QED BY <2>8, <2>9
<1>5. CASE Wake
  <2>1. /\ signal' = 0 /\ notAfk' \in {notAfk, TRUE}
        /\ UNCHANGED <<gate, cancelled, window, disposed, closing>>
    BY <1>5 DEF Wake, TryRestore
  <2>2. task' = task \/ \E m : StartTask(m) BY <1>5 DEF Wake, TryRestore
  <2>3. task' \in {"idle", "sending", "failed"} BY <2>2 DEF StartTask, Flags
  <2>8. Counts' BY <2>1, <2>3 DEF Counts
  <2>9. Flags' BY <2>1, <2>3 DEF Flags
  <2> QED BY <2>8, <2>9
<1>6. CASE Stop
  <2>1. /\ gate' \in {gate, 1} /\ cancelled' = TRUE /\ disposed' \in {disposed, TRUE}
        /\ UNCHANGED <<signal, task, window, closing>>
    BY <1>6 DEF Stop, Cancel
  <2>2. notAfk' \in BOOLEAN BY <1>6 DEF Stop, Flags
  <2>8. Counts' BY <2>1, <2>2 DEF Counts
  <2>9. Flags' BY <2>1, <2>2 DEF Flags
  <2> QED BY <2>8, <2>9
<1>7. CASE WindowThread BY <1>7 DEF Counts, Flags, WindowThread, InputLocks, InputSends, InputEnds
<1>8. CASE ReloadParses \/ ReloadLocks
  BY <1>8 DEF Counts, Flags, ReloadParses, ReloadLocks
<1>13. CASE SetTimeouts
  <2>1. /\ signal' = 1 /\ cancelled' = FALSE
        /\ UNCHANGED <<gate, notAfk, task, window, disposed, closing>>
    BY <1>13 DEF SetTimeouts, SignalInput
  <2>8. Counts' BY <2>1 DEF Counts
  <2>9. Flags' BY <2>1 DEF Flags
  <2> QED BY <2>8, <2>9
<1>9. CASE ReloadEnds BY <1>9 DEF Counts, Flags, ReloadEnds
<1>10. CASE \E o \in Ops \cup {None} : Input(o)
  <2>1. /\ signal' = 1 /\ cancelled' = FALSE
        /\ UNCHANGED <<gate, notAfk, task, window, disposed, closing>>
    BY <1>10 DEF Input, SignalInput
  <2>8. Counts' BY <2>1 DEF Counts
  <2>9. Flags' BY <2>1 DEF Flags
  <2> QED BY <2>8, <2>9
<1>11. CASE ReloadStarts \/ Deliver \/ TaskEnds \/ Tick
  BY <1>11 DEF Counts, Flags, ReloadStarts, Deliver, TaskEnds, Tick
<1>12. CASE Close \/ TaskFails BY <1>12 DEF Counts, Flags, Close, TaskFails, Dispose
<1> QED BY <1>1, <1>2, <1>3, <1>4, <1>5, <1>6, <1>7, <1>8, <1>9, <1>10, <1>11, <1>12,
           <1>13 DEF AfkNext, AfkThread, ReloadThread

\* A pass stays with the limits it has read, and counts on to the last of them.
LEMMA PassStep == ASSUME IdleTypes, AfkThread PROVE ThreadTypes' /\ Generations'
<1> DEFINE Pcs == {"top", "each", "remaining", "gate", "mark", "join", "after",
                   "none", "again", "rest", "ended"}
           Pass == [pc : Pcs, i : 1..Limits + 1, gen : 0..MaxReloads,
                    allAfk : BOOLEAN, past : BOOLEAN]
<1>0. /\ Limits \in Nat \ {0} /\ MaxReloads \in Nat \ {0} BY AfkAssumption DEF AfkAssumption
<1>1. /\ afk \in Pass /\ keyMap \in 0..MaxReloads /\ gen \in 0..MaxReloads /\ marked \subseteq Types
      /\ Generations
  BY DEF IdleTypes, ThreadTypes
<1>2. UNCHANGED <<keyMap, gen, reload, ui>>
  BY DEF AfkThread, Top, Each, Remaining, Gate, Mark, Join, After, Wake, Stop, maps, callers
<1>3. SUFFICES /\ afk' \in Pass /\ afk'.gen \in {0, afk.gen, gen}
               /\ marked' \subseteq marked \/ (/\ marked' = marked \cup {<<afk.gen, afk.i>>}
                                               /\ afk.gen > 0 /\ afk.i <= Limits)
               /\ afk'.pc \in {"each", "remaining", "gate", "mark", "join"} => afk'.gen > 0
               /\ afk'.pc \in {"remaining", "gate", "mark", "join"} => afk'.i <= Limits
  <2> HIDE DEF Pcs
  <2>1. afk'.gen <= gen' /\ gen' <= keyMap'
    BY <1>0, <1>1, <1>2, <1>3 DEF Generations
  <2>2. marked' \subseteq Types
    <3>1. afk.gen \in 0..MaxReloads /\ afk.i \in 1..Limits + 1 BY <1>1
    <3>2. afk.gen > 0 /\ afk.i <= Limits => <<afk.gen, afk.i>> \in Types
      BY <1>0, <3>1 DEF Types, Gens, Ops
    <3> QED BY <1>1, <1>3, <3>2
  <2>3. ASSUME NEW t \in marked' PROVE t[1] <= keyMap'
    <3>1. t \in marked \/ t = <<afk.gen, afk.i>> BY <1>3, <2>3
    <3>2. CASE t \in marked BY <1>1, <1>2, <3>2 DEF Generations
    <3>3. CASE t = <<afk.gen, afk.i>>
      <4>1. t[1] = afk.gen BY <3>3
      <4> QED BY <1>0, <1>1, <1>2, <4>1 DEF Generations
    <3> QED BY <3>1, <3>2, <3>3
  <2>4. Generations' BY <1>1, <1>2, <1>3, <2>1, <2>3 DEF Generations
  <2>5. ThreadTypes' BY <1>1, <1>2, <1>3, <2>2 DEF ThreadTypes, Pcs
  <2> QED BY <2>4, <2>5
<1>4. ASSUME NEW p \in Pcs, PassEnds(p), p \notin {"each", "remaining", "gate", "mark", "join"},
             marked' = marked
      PROVE  /\ afk' \in Pass /\ afk'.gen \in {0, afk.gen, gen}
             /\ marked' \subseteq marked
             /\ afk'.pc \in {"each", "remaining", "gate", "mark", "join"} => afk'.gen > 0
             /\ afk'.pc \in {"remaining", "gate", "mark", "join"} => afk'.i <= Limits
  <2>1. afk' = [pc |-> p, i |-> 1, gen |-> 0, allAfk |-> TRUE, past |-> TRUE] BY <1>4 DEF PassEnds
  <2>2. 1 \in 1..Limits + 1 /\ 0 \in 0..MaxReloads BY <1>0
  <2> HIDE DEF Pcs
  <2> QED BY <1>4, <2>1, <2>2 DEF Pcs
<1>5. ASSUME NEW p \in Pcs, AfkGoto(p), marked' \subseteq marked,
             p \in {"each", "remaining", "gate", "mark", "join"} => afk.gen > 0,
             p \in {"remaining", "gate", "mark", "join"} => afk.i <= Limits
      PROVE  /\ afk' \in Pass /\ afk'.gen \in {0, afk.gen, gen}
             /\ marked' \subseteq marked
             /\ afk'.pc \in {"each", "remaining", "gate", "mark", "join"} => afk'.gen > 0
             /\ afk'.pc \in {"remaining", "gate", "mark", "join"} => afk'.i <= Limits
  <2> HIDE DEF Pcs
  <2> QED BY <1>1, <1>5 DEF AfkGoto
<1>6. CASE Top
  <2>1. CASE gen = 0 BY <1>5, <1>6, <2>1 DEF Top
  <2>2. CASE gen # 0
    <3>1. afk' = [pc |-> "each", i |-> 1, gen |-> gen, allAfk |-> TRUE, past |-> TRUE] /\ marked' = marked
      BY <1>6, <2>2 DEF Top
    <3>2. 1 \in 1..Limits + 1 /\ gen > 0 BY <1>0, <1>1, <2>2
    <3> QED BY <1>1, <3>1, <3>2
  <2> QED BY <2>1, <2>2
<1>7. CASE Each
  <2>1. afk.pc = "each" /\ afk.i <= Limits /\ marked' = marked BY <1>7 DEF Each
  <2>2. afk.gen > 0 BY <1>1, <2>1 DEF Generations
  <2>3. CASE Timeout BY <1>5, <2>1, <2>2, <2>3 DEF Timeout
  <2>4. CASE afk' = [afk EXCEPT !.pc = "remaining", !.past = FALSE]
    BY <1>1, <2>1, <2>2, <2>4
  <2> QED BY <1>7, <2>3, <2>4 DEF Each
<1>8. CASE Remaining
  <2>1. afk.pc = "remaining" /\ marked' = marked BY <1>8 DEF Remaining
  <2>2. afk.gen > 0 /\ afk.i <= Limits BY <1>1, <2>1 DEF Generations
  <2>3. CASE Timeout BY <1>5, <2>1, <2>2, <2>3 DEF Timeout
  <2>4. CASE afk' = [afk EXCEPT !.pc = "after", !.allAfk = FALSE] BY <1>1, <2>1, <2>4
  <2> QED BY <1>8, <2>3, <2>4 DEF Remaining
<1>9. CASE Gate
  <2>1. afk.gen > 0 /\ afk.i <= Limits BY <1>1, <1>9 DEF Gate, Generations
  <2> QED BY <1>5, <1>9, <2>1 DEF Gate
<1>10. CASE Mark \/ Join
  <2>1. afk.gen > 0 /\ afk.i <= Limits BY <1>1, <1>10 DEF Mark, Join, Generations
  <2>2. marked' = marked \/ marked' = marked \cup {<<afk.gen, afk.i>>} BY <1>10 DEF Mark, Join
  <2>3. afk' = [afk EXCEPT !.pc = "join"] \/ afk' = [afk EXCEPT !.pc = "each", !.i = afk.i + 1]
    BY <1>10 DEF Mark, Join, AfkGoto, Advance
  <2>4. afk.i + 1 \in 1..Limits + 1 BY <1>0, <1>1, <2>1
  <2> QED BY <1>1, <2>1, <2>2, <2>3, <2>4
<1>11. CASE After \/ Stop
  <2>1. marked' = marked BY <1>11 DEF After, Stop
  <2>2. PassEnds("again") \/ PassEnds("rest") \/ PassEnds("top") \/ PassEnds("ended")
    BY <1>11 DEF After, Stop
  <2> QED BY <1>4, <2>1, <2>2
<1>12. CASE Wake
  <2>1. marked' \subseteq marked BY <1>12 DEF Wake, TryRestore
  <2> QED BY <1>5, <1>12, <2>1 DEF Wake
<1> QED BY <1>6, <1>7, <1>8, <1>9, <1>10, <1>11, <1>12 DEF AfkThread

\* Nobody else moves the pass, and the key map is replaced under no input.
LEMMA OtherStep == ASSUME IdleTypes, AfkNext, ~AfkThread PROVE ThreadTypes' /\ Generations'
<1>0. MaxReloads \in Nat BY AfkAssumption DEF AfkAssumption
<1>1. ThreadTypes /\ Generations /\ CallerTypes BY DEF IdleTypes
<1>2. afk' = afk /\ marked' \subseteq marked
  BY DEF AfkNext, WindowThread, InputLocks, InputSends, InputEnds, Input,
         ReloadThread, ReloadParses, SetTimeouts, ReloadLocks, ReloadEnds,
         ReloadStarts, Deliver, Close, TaskFails, Dispose, TaskEnds, Tick
<1>3. \/ keyMap' = keyMap /\ gen' \in {gen, keyMap}
      \/ keyMap < MaxReloads /\ keyMap' = keyMap + 1 /\ gen' = gen
  BY DEF AfkNext, WindowThread, InputLocks, InputSends, InputEnds, Input,
         ReloadThread, ReloadParses, SetTimeouts, ReloadLocks, ReloadEnds,
         ReloadStarts, Deliver, Close, TaskFails, Dispose, TaskEnds, Tick, maps
<1>4. reload'.pc = "loading" => ui'.pc = "idle"
  <2>1. CASE WindowThread
    <3>1. ui.pc # "idle" /\ reload' = reload
      BY <2>1 DEF WindowThread, InputLocks, InputSends, InputEnds
    <3> QED BY <1>1, <3>1 DEF Generations
  <2>2. CASE \E o \in Ops \cup {None} : Input(o) BY <2>2 DEF Input
  <2>3. CASE ReloadParses \/ ReloadEnds BY <2>3 DEF ReloadParses, ReloadEnds
  <2>6. CASE SetTimeouts \/ ReloadLocks
    <3>1. \E p \in {"wait", "in"} : reload' = [reload EXCEPT !.pc = p]
      BY <2>6 DEF SetTimeouts, ReloadLocks
    <3> QED BY <1>1, <3>1 DEF CallerTypes
  <2>4. CASE ReloadStarts BY <2>4 DEF ReloadStarts
  <2>5. CASE Deliver \/ Close \/ TaskFails \/ TaskEnds \/ Tick
    <3>1. UNCHANGED <<ui, reload>>
      BY <2>5 DEF Deliver, Close, TaskFails, Dispose, TaskEnds, Tick, callers
    <3> QED BY <1>1, <3>1 DEF Generations
  <2> QED BY <2>1, <2>2, <2>3, <2>4, <2>5, <2>6 DEF AfkNext, ReloadThread
<1>5. keyMap \in 0..MaxReloads /\ gen \in 0..MaxReloads /\ afk.gen \in 0..MaxReloads
  BY <1>1 DEF ThreadTypes
<1>6. /\ keyMap' \in 0..MaxReloads /\ gen' \in 0..MaxReloads
      /\ afk.gen <= gen' /\ gen' <= keyMap' /\ keyMap <= keyMap'
  BY <1>0, <1>1, <1>3, <1>5 DEF Generations
<1>7. \A t \in marked' : t[1] <= keyMap'
  <2> SUFFICES ASSUME NEW t \in marked' PROVE t[1] <= keyMap' OBVIOUS
  <2>1. t[1] <= keyMap /\ t[1] \in Gens BY <1>1, <1>2 DEF Generations, ThreadTypes, Types
  <2> QED BY <1>0, <1>5, <1>6, <2>1 DEF Gens
<1>8. ThreadTypes' BY <1>1, <1>2, <1>6 DEF ThreadTypes
<1>9. Generations' BY <1>1, <1>2, <1>4, <1>6, <1>7 DEF Generations
<1> QED BY <1>8, <1>9

\* The sends that are cancelled are votes of the user.
LEMMA CancelEffect ==
  ASSUME IdleTypes, Cancel, counted' = counted
  PROVE  QueueTypes' /\ (disposed => disposed') /\ \A o \in Ops : WillCount(o)' => WillCount(o)
<1>1. PICK places \in SUBSET DOMAIN queue :
        KeepSends(places) /\ \A k \in DOMAIN queue : k \notin places => queue[k].live
  BY DEF Cancel
<1>2. QueueTypes BY DEF IdleTypes
<1>3. \A k \in DOMAIN queue : k \notin places => queue[k].vote = "Vote"
  BY <1>1, <1>2 DEF QueueTypes
<1>4. \A o \in Ops : WillCount(o)' => WillCount(o)
  BY <1>1, <1>2, <1>3, KeptCount DEF QueueTypes
<1>5. queue' \in Seq(Sends) /\ \A j \in DOMAIN queue' : \E k \in DOMAIN queue : queue'[j] = queue[k]
  BY <1>1, <1>2, KeptTypes DEF QueueTypes
<1>6. QueueTypes' BY <1>2, <1>5 DEF QueueTypes
<1>7. disposed => disposed' BY DEF Cancel
<1> QED BY <1>4, <1>6, <1>7

\* A new SendOperationCts: what waits with the old one can no longer be cancelled.
LEMMA SignalEffect ==
  ASSUME IdleTypes, SignalInput, counted' = counted
  PROVE  QueueTypes' /\ \A o \in Ops : WillCount(o)' => WillCount(o)
<1>1. queue \in Seq(Sends) /\ counted \subseteq Ops BY DEF IdleTypes, QueueTypes
<1>2. queue' = [k \in DOMAIN queue |-> [queue[k] EXCEPT !.live = FALSE]] BY DEF SignalInput
<1>3. \A k \in DOMAIN queue : queue[k] \in Sends BY <1>1
<1>4. \A k \in DOMAIN queue : /\ [queue[k] EXCEPT !.live = FALSE] \in Sends
                              /\ [queue[k] EXCEPT !.live = FALSE].op = queue[k].op
                              /\ [queue[k] EXCEPT !.live = FALSE].vote = queue[k].vote
                              /\ [queue[k] EXCEPT !.live = FALSE].live = FALSE
  BY <1>3 DEF Sends
<1>5. DOMAIN queue' = DOMAIN queue /\ \A k \in DOMAIN queue :
        /\ queue'[k] \in Sends /\ queue'[k].op = queue[k].op /\ queue'[k].vote = queue[k].vote
        /\ queue'[k].live = FALSE
  BY <1>2, <1>4
<1>6. queue' \in Seq(Sends) 
  <2>1. queue' \in [1..Len(queue) -> Sends] BY <1>1, <1>2, <1>5
  <2> QED BY <1>1, <2>1
<1>7. QueueTypes' BY <1>1, <1>5, <1>6 DEF QueueTypes
<1>8. \A o \in Ops : WillCount(o)' => WillCount(o) BY <1>5 DEF WillCount, Abstains
<1> QED BY <1>7, <1>8

LEMMA SendsKept ==
  ASSUME QueueTypes, queue' = queue, counted' \subseteq counted
  PROVE  QueueTypes' /\ \A o \in Ops : WillCount(o)' => WillCount(o)
BY DEF QueueTypes, WillCount, Abstains

\* A step that adds no send: whatever is marked idle and not being abstained or
\* voted on stays without a vote.
LEMMA QuietIdle ==
  ASSUME MarkedIdleHasNoVote, marked' \subseteq marked, keyMap' = keyMap,
         \A o \in Ops : WillCount(o)' => WillCount(o),
         ui.pc = "sent" => UNCHANGED ui,
         afk.pc = "join" => UNCHANGED afk,
         disposed => disposed', closing => closing'
  PROVE  MarkedIdleHasNoVote'
<1> SUFFICES ASSUME NEW o \in Ops, <<keyMap', o>> \in marked', WillCount(o)',
                    ~(ui'.op = o /\ ui'.pc = "sent"), ~(afk'.pc = "join" /\ afk'.i = o),
                    ~disposed', ~closing'
             PROVE  FALSE
  BY DEF MarkedIdleHasNoVote
<1> QED BY DEF MarkedIdleHasNoVote

\* The steps of the thread: what it marks it abstains next.
LEMMA ThreadKeepsIdle ==
  ASSUME AfkInv, IdleTypes, MarkedIdleHasNoVote, AfkThread
  PROVE  QueueTypes' /\ MarkedIdleHasNoVote'
<1>1. QueueTypes /\ Generations BY DEF IdleTypes
<1>2. UNCHANGED <<ui, reload, counted, keyMap, closing>>
  BY DEF AfkThread, Top, Each, Remaining, Gate, Mark, Join, After, Wake, Stop, maps, callers,
         sends, ends
<1>3. CASE Top \/ Gate \/ After
  <2>1. UNCHANGED <<queue, marked, disposed>> /\ afk.pc # "join"
    BY <1>3 DEF Top, Gate, After, sends, ends
  <2> QED BY <1>1, <1>2, <2>1, SendsKept, QuietIdle
<1>4. CASE Wake
  <2>1. UNCHANGED <<queue, marked, disposed>> /\ afk.pc # "join"
    BY <1>4 DEF Wake, TryRestore, AfkInv, AgainIsActive, ends
  <2> QED BY <1>1, <1>2, <2>1, SendsKept, QuietIdle
<1>5. CASE Each \/ Remaining \/ Stop
  <2>1. marked' = marked /\ afk.pc # "join" BY <1>5 DEF Each, Remaining, Stop
  <2>2. CASE Cancel BY <1>2, <2>1, <2>2, CancelEffect, QuietIdle
  <2>3. CASE UNCHANGED <<queue, disposed>> BY <1>1, <1>2, <2>1, <2>3, SendsKept, QuietIdle
  <2> QED BY <1>5, <2>2, <2>3 DEF Each, Remaining, Stop, Timeout
<1>6. CASE Mark
  <2>1. UNCHANGED <<queue, disposed>> /\ marked' = marked \cup {<<afk.gen, afk.i>>} /\ afk.pc = "mark"
    BY <1>6 DEF Mark, sends, ends
  <2>2. QueueTypes' /\ \A o \in Ops : WillCount(o)' => WillCount(o)
    BY <1>1, <1>2, <2>1, SendsKept
  <2>3. CASE <<afk.gen, afk.i>> \in marked
    <3>1. marked' \subseteq marked BY <2>1, <2>3
    <3> QED BY <1>2, <2>1, <2>2, <3>1, QuietIdle
  <2>4. CASE <<afk.gen, afk.i>> \notin marked
    <3>1. afk'.pc = "join" /\ afk'.i = afk.i
      BY <1>6, <2>4 DEF Mark, AfkGoto, IdleTypes, ThreadTypes
    <3>2. ASSUME NEW o \in Ops, <<keyMap', o>> \in marked', WillCount(o)',
                 ~(ui'.op = o /\ ui'.pc = "sent"), ~(afk'.pc = "join" /\ afk'.i = o),
                 ~disposed', ~closing'
          PROVE  FALSE
      <4>1. <<keyMap, o>> \in marked BY <1>2, <2>1, <3>1, <3>2
      <4> QED BY <1>2, <2>1, <2>2, <3>2, <4>1 DEF MarkedIdleHasNoVote
    <3>3. MarkedIdleHasNoVote' BY <3>2 DEF MarkedIdleHasNoVote
    <3> QED BY <2>2, <3>3
  <2> QED BY <2>3, <2>4
<1>7. CASE Join
  <2>1. UNCHANGED <<marked, disposed>> /\ afk.pc = "join" BY <1>7 DEF Join, ends
  <2>2. CASE disposed \/ closing
    <3>1. queue' = queue BY <1>7, <2>2 DEF Join, StartTask
    <3>2. QueueTypes' BY <1>1, <1>2, <3>1, SendsKept
    <3>3. MarkedIdleHasNoVote' BY <1>2, <2>1, <2>2 DEF MarkedIdleHasNoVote
    <3> QED BY <3>2, <3>3
  <2>3. CASE ~(disposed \/ closing)
    <3> DEFINE e == TaskSend(afk.i, "Abstain")
    <3>1. queue' = queue \o <<e>> BY <1>7, <2>3 DEF Join, StartTask
    <3>2. afk.i \in Ops
      BY <1>1, <2>1, AfkAssumption DEF Generations, IdleTypes, ThreadTypes, Ops, AfkAssumption
    <3>3. e \in Sends /\ e.op = afk.i /\ e.vote = "Abstain" /\ e.live = FALSE
      BY <3>2 DEF TaskSend, Sends
    <3> HIDE DEF e
    <3>4. queue' = Append(queue, e) BY <1>1, <3>1, <3>3 DEF QueueTypes
    <3>5. queue' \in Seq(Sends) /\ \A k \in DOMAIN queue' : queue'[k] = e \/ (k \in DOMAIN queue /\ queue'[k] = queue[k])
      BY <1>1, <3>3, <3>4, AppendSend DEF QueueTypes
    <3>6. QueueTypes' BY <1>1, <1>2, <3>3, <3>5 DEF QueueTypes
    <3>7. ASSUME NEW o \in Ops, <<keyMap', o>> \in marked', WillCount(o)',
                 ~(ui'.op = o /\ ui'.pc = "sent"), ~disposed', ~closing'
          PROVE  FALSE
      <4>1. IF e.op = o THEN e.vote = "Vote" ELSE WillCount(o)
        BY <1>1, <1>2, <3>3, <3>4, <3>7, AppendCount DEF QueueTypes
      <4>2. afk.i # o /\ WillCount(o) BY <3>3, <4>1
      <4> QED BY <1>2, <2>1, <3>7, <4>2 DEF MarkedIdleHasNoVote
    <3>8. MarkedIdleHasNoVote' BY <3>7 DEF MarkedIdleHasNoVote
    <3> QED BY <3>6, <3>8
  <2> QED BY <2>2, <2>3
<1> QED BY <1>3, <1>4, <1>5, <1>6, <1>7 DEF AfkThread

\* The steps of an input, of a reload and of everything else.
LEMMA CallersKeepIdle ==
  ASSUME AfkInv, IdleTypes, MarkedIdleHasNoVote, AfkNext, ~AfkThread
  PROVE  QueueTypes' /\ MarkedIdleHasNoVote'
<1>1. QueueTypes /\ Generations /\ CallerTypes BY DEF IdleTypes
<1>2. CASE InputLocks \/ ReloadLocks \/ ReloadEnds \/ ReloadStarts \/ TaskEnds \/ Tick
  <2>1. UNCHANGED <<queue, marked, keyMap, afk, closing>> /\ counted' \subseteq counted
    BY <1>2 DEF InputLocks, ReloadLocks, ReloadEnds, ReloadStarts, TaskEnds, Tick, sends, ends,
                maps
  <2>2. disposed => disposed'
    BY <1>2 DEF InputLocks, ReloadLocks, ReloadEnds, ReloadStarts, TaskEnds, Tick, ends
  <2>3. ui.pc = "sent" => ui' = ui
    BY <1>2 DEF InputLocks, ReloadLocks, ReloadEnds, ReloadStarts, TaskEnds, Tick, callers
  <2> QED BY <1>1, <2>1, <2>2, <2>3, SendsKept, QuietIdle
<1>3. CASE SetTimeouts \/ \E o \in Ops \cup {None} : Input(o)
  <2>1. /\ SignalInput /\ UNCHANGED <<marked, keyMap, afk, counted, closing, disposed>>
        /\ ui.pc = "sent" => ui' = ui
    BY <1>3 DEF SetTimeouts, Input, ends, maps
  <2> QED BY <2>1, SignalEffect, QuietIdle
<1>4. CASE InputSends
  <2>1. /\ UNCHANGED <<marked, keyMap, afk, counted, closing, disposed>>
        /\ ui' = [ui EXCEPT !.pc = "sent"] /\ ui.pc = "in"
    BY <1>4 DEF InputSends, ends, maps
  <2>2. ui'.pc = "sent" /\ ui'.op = ui.op BY <1>1, <2>1 DEF CallerTypes
  <2>3. QueueTypes' /\ \A o \in Ops : WillCount(o)' => o = ui.op \/ WillCount(o)
    <3>1. CASE queue' = queue BY <1>1, <2>1, <3>1, SendsKept
    <3>2. CASE queue' # queue
      <4> DEFINE e == [op |-> ui.op, vote |-> "Vote", by |-> "ui", live |-> TRUE]
      <4>1. ui.op # None /\ queue' = Append(queue, e) BY <1>4, <3>2 DEF InputSends
      <4>2. e \in Sends /\ e.op = ui.op /\ e.vote = "Vote"
        BY <1>1, <4>1 DEF CallerTypes, Sends
      <4> HIDE DEF e
      <4>3. queue' \in Seq(Sends)
            /\ \A k \in DOMAIN queue' : queue'[k] = e \/ (k \in DOMAIN queue /\ queue'[k] = queue[k])
        BY <1>1, <4>1, <4>2, AppendSend DEF QueueTypes
      <4>4. QueueTypes' BY <1>1, <2>1, <4>2, <4>3 DEF QueueTypes
      <4>5. ASSUME NEW o \in Ops, WillCount(o)', o # ui.op PROVE WillCount(o)
        <5>1. IF e.op = o THEN e.vote = "Vote" ELSE WillCount(o)
          BY <1>1, <2>1, <4>1, <4>2, <4>5, AppendCount DEF QueueTypes
        <5> QED BY <4>2, <4>5, <5>1
      <4> QED BY <4>4, <4>5
    <3> QED BY <3>1, <3>2
  <2>4. ASSUME NEW o \in Ops, <<keyMap', o>> \in marked', WillCount(o)',
               ~(ui'.op = o /\ ui'.pc = "sent"), ~(afk'.pc = "join" /\ afk'.i = o),
               ~disposed', ~closing'
        PROVE  FALSE
    <3>1. o # ui.op BY <2>2, <2>4
    <3>2. WillCount(o) BY <2>3, <2>4, <3>1
    <3> QED BY <2>1, <2>4, <3>1, <3>2 DEF MarkedIdleHasNoVote
  <2>5. MarkedIdleHasNoVote' BY <2>4 DEF MarkedIdleHasNoVote
  <2> QED BY <2>3, <2>5
<1>5. CASE InputEnds
  <2>1. /\ UNCHANGED <<queue, keyMap, afk, counted, closing, disposed>>
        /\ marked' = marked \ {<<keyMap, ui.op>>}
    BY <1>5 DEF InputEnds, ends, maps, sends
  <2>2. QueueTypes' /\ \A o \in Ops : WillCount(o)' => WillCount(o) BY <1>1, <2>1, SendsKept
  <2>3. ASSUME NEW o \in Ops, <<keyMap', o>> \in marked', WillCount(o)',
               ~(afk'.pc = "join" /\ afk'.i = o), ~disposed', ~closing'
        PROVE  FALSE
    <3>1. <<keyMap, o>> \in marked /\ o # ui.op BY <2>1, <2>3
    <3> QED BY <2>1, <2>2, <2>3, <3>1 DEF MarkedIdleHasNoVote
  <2>4. MarkedIdleHasNoVote' BY <2>3 DEF MarkedIdleHasNoVote
  <2> QED BY <2>2, <2>4
<1>6. CASE ReloadParses
  <2>1. /\ UNCHANGED <<queue, marked, afk, counted, closing, disposed, ui>>
        /\ keyMap' = keyMap \/ keyMap' = keyMap + 1
    BY <1>6 DEF ReloadParses, ends, sends
  <2>2. QueueTypes' /\ \A o \in Ops : WillCount(o)' => WillCount(o) BY <1>1, <2>1, SendsKept
  <2>3. CASE keyMap' = keyMap BY <2>1, <2>2, <2>3, QuietIdle
  <2>4. CASE keyMap' = keyMap + 1
    <3>1. \A o \in Ops : <<keyMap', o>> \notin marked'
      <4> SUFFICES ASSUME NEW o \in Ops, <<keyMap + 1, o>> \in marked PROVE FALSE BY <2>1, <2>4
      <4>1. <<keyMap + 1, o>>[1] <= keyMap BY <1>1 DEF Generations
      <4>2. keyMap \in Nat
        BY AfkAssumption DEF IdleTypes, ThreadTypes, AfkAssumption
      <4> QED BY <4>1, <4>2
    <3> QED BY <2>2, <3>1 DEF MarkedIdleHasNoVote
  <2> QED BY <2>1, <2>3, <2>4
<1>7. CASE Deliver
  <2>1. UNCHANGED <<marked, keyMap, afk, closing, disposed, ui>>
    BY <1>7 DEF Deliver, ends, maps, callers
  <2>2. \A o \in Ops : WillCount(o)' => WillCount(o) BY <1>1, <1>7, DeliverCount DEF QueueTypes
  <2>3. queue # <<>> /\ queue' = Tail(queue) /\ Head(queue) \in Sends BY <1>1, <1>7 DEF Deliver, QueueTypes
  <2>4. /\ queue' \in Seq(Sends)
        /\ \A k \in DOMAIN queue' : k + 1 \in DOMAIN queue /\ queue'[k] = queue[k + 1]
    BY <1>1, <2>3 DEF QueueTypes
  <2>5. counted' \subseteq Ops BY <1>1, <1>7, <2>3 DEF Deliver, QueueTypes, Sends
  <2>6. QueueTypes' BY <1>1, <2>4, <2>5 DEF QueueTypes
  <2> QED BY <2>1, <2>2, <2>6, QuietIdle
<1>8. CASE Close \/ TaskFails
  <2>1. closing' = TRUE /\ counted' = counted BY <1>8 DEF Close, TaskFails, Dispose
  <2>2. PICK places \in SUBSET DOMAIN queue : KeepSends(places)
    BY <1>8 DEF Close, TaskFails, Dispose
  <2>3. queue' \in Seq(Sends) /\ \A j \in DOMAIN queue' : \E k \in DOMAIN queue : queue'[j] = queue[k]
    BY <1>1, <2>2, KeptTypes DEF QueueTypes
  <2>4. QueueTypes' BY <1>1, <2>1, <2>3 DEF QueueTypes
  <2>5. MarkedIdleHasNoVote' BY <2>1 DEF MarkedIdleHasNoVote
  <2> QED BY <2>4, <2>5
<1> QED BY <1>2, <1>3, <1>4, <1>5, <1>6, <1>7, <1>8 DEF AfkNext, WindowThread, ReloadThread

LEMMA IdleStep ==
  ASSUME AfkInv, IdleTypes, MarkedIdleHasNoVote, [AfkNext]_afkVars
  PROVE  IdleTypes' /\ MarkedIdleHasNoVote'
<1>1. CASE AfkNext
  <2>1. ClockTypes' /\ CallerTypes' /\ FieldTypes' BY <1>1, ClockStep, CallerStep, FieldStep
  <2>2. ThreadTypes' /\ Generations' BY <1>1, PassStep, OtherStep
  <2>3. QueueTypes' /\ MarkedIdleHasNoVote' BY <1>1, ThreadKeepsIdle, CallersKeepIdle
  <2> QED BY <2>1, <2>2, <2>3 DEF IdleTypes
<1>2. CASE UNCHANGED afkVars
  <2> USE <1>2 DEF afkVars, semaphores, maps, clock, sends, callers, ends, IdleTypes
  <2>1. ClockTypes' BY DEF ClockTypes
  <2>2. CallerTypes' BY DEF CallerTypes
  <2>3. FieldTypes' BY DEF FieldTypes, Counts, Flags
  <2>4. ThreadTypes' BY DEF ThreadTypes
  <2>5. Generations' BY DEF Generations
  <2>6. QueueTypes' /\ \A o \in Ops : WillCount(o)' => WillCount(o) BY SendsKept
  <2>7. MarkedIdleHasNoVote' BY <2>6, QuietIdle
  <2> QED BY <2>1, <2>2, <2>3, <2>4, <2>5, <2>6, <2>7
<1> QED BY <1>1, <1>2

LEMMA IdleInit == AfkInit => IdleTypes /\ MarkedIdleHasNoVote
<1> SUFFICES ASSUME AfkInit PROVE IdleTypes /\ MarkedIdleHasNoVote OBVIOUS
<1>0. Limits \in Nat \ {0} /\ MaxReloads \in Nat \ {0} BY AfkAssumption DEF AfkAssumption
<1>9. age = 0 /\ seen = Limits /\ fresh = FALSE BY DEF AfkInit
<1>10. age \in 0..Limits /\ seen \in 0..Limits BY <1>0, <1>9
<1>1. ClockTypes BY <1>9, <1>10 DEF ClockTypes
<1>2. CallerTypes BY DEF AfkInit, CallerTypes
<1>3. Counts BY DEF AfkInit, Counts
<1>4. Flags BY DEF AfkInit, Flags
<1>5. ThreadTypes BY <1>0 DEF AfkInit, ThreadTypes
<1>6. Generations BY <1>0 DEF AfkInit, Generations
<1>7. QueueTypes BY DEF AfkInit, QueueTypes
<1>8. MarkedIdleHasNoVote BY DEF AfkInit, MarkedIdleHasNoVote
<1> QED BY <1>1, <1>2, <1>3, <1>4, <1>5, <1>6, <1>7, <1>8 DEF IdleTypes, FieldTypes

LEMMA IdleInvariance == AfkSpec => [](IdleTypes /\ MarkedIdleHasNoVote)
BY IdleInit, IdleStep, AfkInvariant, PTL DEF AfkSpec

\* The fields that the AFK thread, the window and the reloads share keep their
\* types: IsNotAfkLock and AfkSignal never exceed one, and the queue holds sends,
\* whatever is cancelled.
THEOREM AfkTypeCorrect == AfkSpec => []AfkTypeOK
<1>1. IdleTypes /\ MarkedIdleHasNoVote => AfkTypeOK BY IdleIs DEF IdleInv
<1> QED BY <1>1, IdleInvariance, PTL

\* For any number of operations, reloads and sends, a user whom AfkTypes has as
\* idle on an operation is left without a vote on it once the sends under way
\* arrive, unless the client is disposed or the manager closes.
THEOREM IdleUserHasNoVote == AfkSpec => []MarkedIdleHasNoVote
BY IdleInvariance, PTL
=============================================================================
