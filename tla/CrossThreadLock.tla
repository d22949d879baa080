--------------------------- MODULE CrossThreadLock ---------------------------
(***************************************************************************)
(* CrossThreadReaderWriterLock (core/Shared): a reader-writer lock built   *)
(* from two binary semaphores and a counter, whose exit may run on another *)
(* thread than its enter.  No step looks at a thread's identity, so the    *)
(* processes of the model are SECTIONS: one use of the lock, from the call *)
(* that enters it to the token's Dispose, whichever threads run the two.   *)
(* One action per semaphore operation, so that sections interleave inside  *)
(* EnterReadLock and ExitReadLock.                                         *)
(***************************************************************************)
EXTENDS Naturals, FiniteSets

CONSTANT Sections
ASSUME SectionsFinite == IsFiniteSet(Sections)

VARIABLES
  writeLock,     \* _writeLock: 1 free, 0 taken by a writer or by the readers together
  readLock,      \* _readLock: 1 free, 0 while a section updates the count
  readerCount,   \* _readerCount
  pc             \* where each section is in its enter or exit code

vars == <<writeLock, readLock, readerCount, pc>>

PCs == {"idle", "w_wait", "writing",
        "r_wait", "r_first", "r_leave", "reading", "x_wait", "x_leave"}

Init ==
  /\ writeLock = 1
  /\ readLock = 1
  /\ readerCount = 0
  /\ pc = [s \in Sections |-> "idle"]

(***************************************************************************)
(* Mutated forms of the actions below, each a plausible slip in the code:  *)
(* a project run with one of them must fail.                               *)
(***************************************************************************)
\* ExitReadLock releases the writers whenever a reader leaves.
CountReaderOutAlwaysReleases(s) ==
  /\ pc[s] = "x_wait"
  /\ readLock > 0
  /\ readLock' = readLock - 1
  /\ readerCount' = readerCount - 1
  /\ writeLock' = writeLock + 1
  /\ pc' = [pc EXCEPT ![s] = "x_leave"]

\* EnterReadLock releases _readLock before it waits for _writeLock.
CountReaderInEarlyRelease(s) ==
  /\ pc[s] = "r_wait"
  /\ readLock > 0
  /\ readerCount' = readerCount + 1
  /\ readLock' = IF readerCount' = 1 THEN readLock ELSE readLock - 1
  /\ pc' = [pc EXCEPT ![s] = IF readerCount' = 1 THEN "r_first" ELSE "r_leave"]
  /\ UNCHANGED writeLock

\* The last reader forgets to release the writers.
CountReaderOutNeverReleases(s) ==
  /\ pc[s] = "x_wait"
  /\ readLock > 0
  /\ readLock' = readLock - 1
  /\ readerCount' = readerCount - 1
  /\ pc' = [pc EXCEPT ![s] = "x_leave"]
  /\ UNCHANGED writeLock

-----------------------------------------------------------------------------
(***************************************************************************)
(* Writers: one Wait on the way in, one Release on the way out.            *)
(***************************************************************************)
CallEnterWriteLock(s) ==
  /\ pc[s] = "idle"
  /\ pc' = [pc EXCEPT ![s] = "w_wait"]
  /\ UNCHANGED <<writeLock, readLock, readerCount>>

EnterWriteLock(s) ==
  /\ pc[s] = "w_wait"
  /\ writeLock > 0
  /\ writeLock' = writeLock - 1
  /\ pc' = [pc EXCEPT ![s] = "writing"]
  /\ UNCHANGED <<readLock, readerCount>>

ExitWriteLock(s) ==
  /\ pc[s] = "writing"
  /\ writeLock' = writeLock + 1
  /\ pc' = [pc EXCEPT ![s] = "idle"]
  /\ UNCHANGED <<readLock, readerCount>>

(***************************************************************************)
(* Readers: the count is updated under _readLock, and the first reader     *)
(* keeps _readLock while it waits for the writers to go.                   *)
(***************************************************************************)
CallEnterReadLock(s) ==
  /\ pc[s] = "idle"
  /\ pc' = [pc EXCEPT ![s] = "r_wait"]
  /\ UNCHANGED <<writeLock, readLock, readerCount>>

CountReaderIn(s) ==
  /\ pc[s] = "r_wait"
  /\ readLock > 0
  /\ readLock' = readLock - 1
  /\ readerCount' = readerCount + 1
  /\ pc' = [pc EXCEPT ![s] = IF readerCount' = 1 THEN "r_first" ELSE "r_leave"]
  /\ UNCHANGED writeLock

FirstReaderBlocksWriters(s) ==
  /\ pc[s] = "r_first"
  /\ writeLock > 0
  /\ writeLock' = writeLock - 1
  /\ pc' = [pc EXCEPT ![s] = "r_leave"]
  /\ UNCHANGED <<readLock, readerCount>>

EnterReadLockReturns(s) ==
  /\ pc[s] = "r_leave"
  /\ readLock' = readLock + 1
  /\ pc' = [pc EXCEPT ![s] = "reading"]
  /\ UNCHANGED <<writeLock, readerCount>>

CallExitReadLock(s) ==
  /\ pc[s] = "reading"
  /\ pc' = [pc EXCEPT ![s] = "x_wait"]
  /\ UNCHANGED <<writeLock, readLock, readerCount>>

CountReaderOut(s) ==
  /\ pc[s] = "x_wait"
  /\ readLock > 0
  /\ readLock' = readLock - 1
  /\ readerCount' = readerCount - 1
  /\ writeLock' = IF readerCount' = 0 THEN writeLock + 1 ELSE writeLock
  /\ pc' = [pc EXCEPT ![s] = "x_leave"]

ExitReadLockReturns(s) ==
  /\ pc[s] = "x_leave"
  /\ readLock' = readLock + 1
  /\ pc' = [pc EXCEPT ![s] = "idle"]
  /\ UNCHANGED <<writeLock, readerCount>>

(***************************************************************************)
(* A call that has begun, and a critical section that was entered, go on   *)
(* when they can; nobody has to ask for the lock.                          *)
(***************************************************************************)
Proceed(s) ==
  \/ EnterWriteLock(s) \/ ExitWriteLock(s)
  \/ CountReaderIn(s) \/ FirstReaderBlocksWriters(s) \/ EnterReadLockReturns(s)
  \/ CallExitReadLock(s) \/ CountReaderOut(s) \/ ExitReadLockReturns(s)

Next == \E s \in Sections : CallEnterWriteLock(s) \/ CallEnterReadLock(s) \/ Proceed(s)

Spec == Init /\ [][Next]_vars

FairSpec == Spec /\ \A s \in Sections : WF_vars(Proceed(s))

-----------------------------------------------------------------------------
(* Each semaphore stays within the maximum count 1 it is created with      *)
(* (l.7-8): a Release above it throws SemaphoreFullException into whoever  *)
(* disposes the token, so this is also "no Dispose throws".                *)
TypeOK ==
  /\ writeLock \in {0, 1}
  /\ readLock \in {0, 1}
  /\ readerCount \in Nat
  /\ pc \in [Sections -> PCs]

\* The sections the count stands for: counted in and not yet counted out.
Counted == {s \in Sections : pc[s] \in {"r_first", "r_leave", "reading", "x_wait"}}

\* The sections that have passed the enter code and not yet given up the lock.
Readers == {s \in Counted : pc[s] # "r_first"}
Writers == {s \in Sections : pc[s] = "writing"}

(* A writer is alone: no other section writes and none reads, although the *)
(* readers share one unit of _writeLock that any of them may give back     *)
(* (EnterReadLock l.25-41, ExitReadLock l.43-59).                          *)
MutualExclusion ==
  \A s \in Writers : Writers = {s} /\ Readers = {}

(* Whenever a section waits for the lock, some section is inside sooner or *)
(* later: waiting for _writeLock with _readLock in hand (l.34) never stops *)
(* the readers' exits that would release it.                               *)
LockProgress ==
  (\E s \in Sections : pc[s] \in {"w_wait", "r_wait"})
     ~> (Readers \cup Writers # {})

\* The implementation seen as the abstract lock.
Abstract == INSTANCE ReaderWriterLock WITH readers <- Readers, writers <- Writers

\* The semaphores implement the reader-writer lock: every step enters or
\* leaves one section as the abstract lock allows, or changes nothing there.
ImplementsReaderWriterLock == Abstract!Spec

-----------------------------------------------------------------------------
(* The inductive invariant.  The count is exact, _readLock is held by at   *)
(* most one section, and _writeLock is taken exactly when a writer or the  *)
(* group of readers is inside.                                             *)
Counting == {s \in Sections : pc[s] \in {"r_first", "r_leave", "x_leave"}}

CountExact == readerCount = Cardinality(Counted)

ReadLockHeld ==
  /\ \A s, t \in Counting : s = t
  /\ readLock = 0 <=> Counting # {}

WriteLockHeld ==
  /\ writeLock = 0 <=> Writers # {} \/ Readers # {}
  /\ (\E s \in Sections : pc[s] = "r_first") => Readers = {}

IInv == TypeOK /\ CountExact /\ ReadLockHeld /\ WriteLockHeld /\ MutualExclusion
=============================================================================
