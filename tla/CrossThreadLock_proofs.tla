------------------------ MODULE CrossThreadLock_proofs ------------------------
(***************************************************************************)
(* TLAPS proofs about CrossThreadLock, for every finite set of sections:   *)
(* the semaphores never overflow, a writer is alone, and the two           *)
(* semaphores implement the abstract reader-writer lock.                   *)
(***************************************************************************)
EXTENDS CrossThreadLock, FiniteSetTheorems, TLAPS

(* The sets the invariant counts are finite, because the sections are.     *)
LEMMA CountedFinite == IsFiniteSet(Counted)
  BY SectionsFinite, FS_Subset DEF Counted

(* Counting a section in raises the cardinality of Counted by one, and     *)
(* counting it out lowers it (_readerCount++ l.30, _readerCount-- l.48).   *)
LEMMA CountIn ==
  ASSUME NEW s \in Sections, s \notin Counted, Counted' = Counted \cup {s}
  PROVE  Cardinality(Counted') = Cardinality(Counted) + 1
  BY CountedFinite, FS_AddElement

LEMMA CountOut ==
  ASSUME NEW s \in Sections, s \in Counted, Counted' = Counted \ {s}
  PROVE  Cardinality(Counted') = Cardinality(Counted) - 1
  BY CountedFinite, FS_RemoveElement

(* A count of zero means that no section is counted, and the other way.    *)
LEMMA CountZero == Cardinality(Counted) \in Nat /\ (Cardinality(Counted) = 0 <=> Counted = {})
  BY CountedFinite, FS_CardinalityType, FS_EmptySet

-----------------------------------------------------------------------------
(* The initial state satisfies the inductive invariant.                    *)
LEMMA InitIInv == Init => IInv
<1> SUFFICES ASSUME Init PROVE IInv
  OBVIOUS
<1>1. Counted = {} /\ Counting = {} /\ Writers = {} /\ Readers = {}
  BY DEF Init, Counted, Counting, Writers, Readers
<1>2. TypeOK
  BY DEF Init, TypeOK, PCs
<1>3. CountExact
  BY <1>1, FS_EmptySet DEF Init, CountExact
<1> QED
  BY <1>1, <1>2, <1>3
  DEF Init, IInv, ReadLockHeld, WriteLockHeld, MutualExclusion

-----------------------------------------------------------------------------
(* One lemma per action: it preserves the inductive invariant.             *)

LEMMA Type == ASSUME IInv, [Next]_vars PROVE TypeOK'
<1> USE DEF TypeOK, PCs, IInv
<1>1. CASE UNCHANGED vars
  BY <1>1 DEF vars
<1>2. ASSUME NEW s \in Sections, CallEnterWriteLock(s) PROVE TypeOK'
  BY <1>2 DEF CallEnterWriteLock
<1>3. ASSUME NEW s \in Sections, EnterWriteLock(s) PROVE TypeOK'
  BY <1>3 DEF EnterWriteLock
<1>4. ASSUME NEW s \in Sections, ExitWriteLock(s) PROVE TypeOK'
  <2>1. writeLock = 0
    BY <1>4 DEF ExitWriteLock, WriteLockHeld, Writers
  <2> QED BY <1>4, <2>1 DEF ExitWriteLock
<1>5. ASSUME NEW s \in Sections, CallEnterReadLock(s) PROVE TypeOK'
  BY <1>5 DEF CallEnterReadLock
<1>6. ASSUME NEW s \in Sections, CountReaderIn(s) PROVE TypeOK'
  BY <1>6 DEF CountReaderIn
<1>7. ASSUME NEW s \in Sections, FirstReaderBlocksWriters(s) PROVE TypeOK'
  BY <1>7 DEF FirstReaderBlocksWriters
<1>8. ASSUME NEW s \in Sections, EnterReadLockReturns(s) PROVE TypeOK'
  <2>1. readLock = 0
    BY <1>8 DEF EnterReadLockReturns, ReadLockHeld, Counting
  <2> QED BY <1>8, <2>1 DEF EnterReadLockReturns
<1>9. ASSUME NEW s \in Sections, CallExitReadLock(s) PROVE TypeOK'
  BY <1>9 DEF CallExitReadLock
<1>10. ASSUME NEW s \in Sections, CountReaderOut(s) PROVE TypeOK'
  <2>1. s \in Counted /\ s \in Readers
    BY <1>10 DEF CountReaderOut, Counted, Readers
  <2>2. readerCount > 0
    BY <2>1, CountZero DEF CountExact
  <2>3. writeLock = 0
    BY <2>1 DEF WriteLockHeld
  <2> QED BY <1>10, <2>2, <2>3 DEF CountReaderOut
<1>11. ASSUME NEW s \in Sections, ExitReadLockReturns(s) PROVE TypeOK'
  <2>1. readLock = 0
    BY <1>11 DEF ExitReadLockReturns, ReadLockHeld, Counting
  <2> QED BY <1>11, <2>1 DEF ExitReadLockReturns
<1> QED
  BY <1>1, <1>2, <1>3, <1>4, <1>5, <1>6, <1>7, <1>8, <1>9, <1>10, <1>11
  DEF Next, Proceed

(***************************************************************************)
(* How the sets of the invariant move.  Every action changes the pc of one *)
(* section, so it adds that section to a set, removes it, or leaves the    *)
(* set alone.                                                              *)
(***************************************************************************)
SetsUnchanged ==
  Counted' = Counted /\ Readers' = Readers /\ Writers' = Writers /\ Counting' = Counting

(* The first requests change no lock and no set.                           *)
LEMMA RequestsPreserve ==
  ASSUME IInv, NEW s \in Sections,
         CallEnterWriteLock(s) \/ CallEnterReadLock(s) \/ CallExitReadLock(s)
  PROVE  (CountExact /\ ReadLockHeld /\ WriteLockHeld /\ MutualExclusion)'
<1>1. SetsUnchanged
  BY DEF IInv, TypeOK, SetsUnchanged, Counted, Readers, Writers, Counting,
         CallEnterWriteLock, CallEnterReadLock, CallExitReadLock
<1>2. \A t \in Sections : pc'[t] = "r_first" <=> pc[t] = "r_first"
  BY DEF IInv, TypeOK, CallEnterWriteLock, CallEnterReadLock, CallExitReadLock
<1>3. UNCHANGED <<writeLock, readLock, readerCount>>
  BY DEF CallEnterWriteLock, CallEnterReadLock, CallExitReadLock
<1> QED
  BY <1>1, <1>2, <1>3
  DEF IInv, SetsUnchanged, CountExact, ReadLockHeld, WriteLockHeld, MutualExclusion

(* A writer enters only when nobody is inside, and nobody is after it.     *)
LEMMA EnterWritePreserves ==
  ASSUME IInv, NEW s \in Sections, EnterWriteLock(s)
  PROVE  (CountExact /\ ReadLockHeld /\ WriteLockHeld /\ MutualExclusion)'
<1>1. /\ Counted' = Counted /\ Readers' = Readers /\ Counting' = Counting
      /\ Writers' = Writers \cup {s}
  BY DEF IInv, TypeOK, Counted, Readers, Writers, Counting, EnterWriteLock
<1>2. Writers = {} /\ Readers = {}
  BY DEF IInv, WriteLockHeld, EnterWriteLock
<1>3. writeLock' = 0 /\ readLock' = readLock /\ readerCount' = readerCount
  BY DEF IInv, TypeOK, EnterWriteLock
<1> QED
  BY <1>1, <1>2, <1>3
  DEF IInv, CountExact, ReadLockHeld, WriteLockHeld, MutualExclusion

LEMMA ExitWritePreserves ==
  ASSUME IInv, NEW s \in Sections, ExitWriteLock(s)
  PROVE  (CountExact /\ ReadLockHeld /\ WriteLockHeld /\ MutualExclusion)'
<1>1. /\ Counted' = Counted /\ Readers' = Readers /\ Counting' = Counting
      /\ Writers' = Writers \ {s} /\ s \in Writers
  BY DEF IInv, TypeOK, Counted, Readers, Writers, Counting, ExitWriteLock
<1>2. Writers = {s} /\ Readers = {}
  BY <1>1 DEF IInv, MutualExclusion
<1>3. writeLock = 0
  BY <1>2 DEF IInv, WriteLockHeld
<1>4. writeLock' = 1 /\ readLock' = readLock /\ readerCount' = readerCount
  BY <1>3 DEF ExitWriteLock
<1> QED
  BY <1>1, <1>2, <1>4
  DEF IInv, CountExact, ReadLockHeld, WriteLockHeld, MutualExclusion

(* A section counted in is the only one that holds _readLock.  If the      *)
(* count was zero there is no reader yet; otherwise _readLock was free, so *)
(* no reader is still waiting for the writers and the group is inside.     *)
LEMMA CountInPreserves ==
  ASSUME IInv, NEW s \in Sections, CountReaderIn(s)
  PROVE  (CountExact /\ ReadLockHeld /\ WriteLockHeld /\ MutualExclusion)'
<1>1. /\ s \notin Counted /\ Counted' = Counted \cup {s}
      /\ Writers' = Writers /\ Counting' = Counting \cup {s}
  BY DEF IInv, TypeOK, Counted, Writers, Counting, CountReaderIn
<1>2. Counting = {} /\ readLock' = 0 /\ writeLock' = writeLock
  BY DEF IInv, TypeOK, ReadLockHeld, CountReaderIn
<1>3. Readers = Counted
  BY <1>2 DEF Counting, Readers, Counted
<1>4. readerCount' = Cardinality(Counted) + 1
  BY DEF IInv, CountExact, CountReaderIn
<1>5. CountExact'
  BY <1>1, <1>4, CountIn DEF CountExact
<1>6. CASE Counted = {}
  <2>1. pc'[s] = "r_first"
    BY <1>4, <1>6, CountZero DEF IInv, TypeOK, CountReaderIn
  <2>2. Readers' = {}
    BY <1>1, <1>6, <2>1 DEF Readers
  <2> QED
    BY <1>1, <1>2, <1>3, <1>5, <1>6, <2>2
    DEF IInv, ReadLockHeld, WriteLockHeld, MutualExclusion
<1>7. CASE Counted # {}
  <2>0. readerCount' # 1
    BY <1>4, <1>7, CountZero
  <2>1. pc' = [pc EXCEPT ![s] = "r_leave"]
    BY <2>0 DEF CountReaderIn
  <2>2. \A t \in Sections : pc'[t] # "r_first"
    BY <1>2, <2>1 DEF IInv, TypeOK, Counting
  <2>3. Readers' = Readers \cup {s}
    BY <1>1, <1>3, <2>2 DEF Readers, Counted
  <2>4. Writers = {}
    BY <1>3, <1>7 DEF IInv, MutualExclusion
  <2>5. writeLock = 0
    BY <1>3, <1>7 DEF IInv, WriteLockHeld
  <2> QED
    BY <1>1, <1>2, <1>5, <2>2, <2>3, <2>4, <2>5
    DEF IInv, ReadLockHeld, WriteLockHeld, MutualExclusion
<1> QED
  BY <1>6, <1>7

(* The first reader gets _writeLock, so no writer is inside.               *)
LEMMA FirstReaderPreserves ==
  ASSUME IInv, NEW s \in Sections, FirstReaderBlocksWriters(s)
  PROVE  (CountExact /\ ReadLockHeld /\ WriteLockHeld /\ MutualExclusion)'
<1>1. /\ Counted' = Counted /\ Writers' = Writers /\ Counting' = Counting
      /\ Readers' = Readers \cup {s}
  BY DEF IInv, TypeOK, Counted, Readers, Writers, Counting, FirstReaderBlocksWriters
<1>2. Writers = {}
  BY DEF IInv, WriteLockHeld, FirstReaderBlocksWriters
<1>3. writeLock' = 0 /\ readLock' = readLock /\ readerCount' = readerCount
  BY DEF IInv, TypeOK, FirstReaderBlocksWriters
<1>4. \A t \in Sections : pc'[t] # "r_first"
  BY DEF IInv, TypeOK, ReadLockHeld, Counting, FirstReaderBlocksWriters
<1> QED
  BY <1>1, <1>2, <1>3, <1>4
  DEF IInv, CountExact, ReadLockHeld, WriteLockHeld, MutualExclusion

(* Giving _readLock back changes neither the count nor who is inside.      *)
LEMMA ReturnsPreserve ==
  ASSUME IInv, NEW s \in Sections, EnterReadLockReturns(s) \/ ExitReadLockReturns(s)
  PROVE  (CountExact /\ ReadLockHeld /\ WriteLockHeld /\ MutualExclusion)'
<1>1. /\ Counted' = Counted /\ Readers' = Readers /\ Writers' = Writers
      /\ Counting' = Counting \ {s} /\ s \in Counting
  BY DEF IInv, TypeOK, Counted, Readers, Writers, Counting,
         EnterReadLockReturns, ExitReadLockReturns
<1>2. Counting = {s}
  BY <1>1 DEF IInv, ReadLockHeld
<1>3. readLock = 0
  BY <1>2 DEF IInv, ReadLockHeld
<1>4. readLock' = 1 /\ writeLock' = writeLock /\ readerCount' = readerCount
  BY <1>3 DEF EnterReadLockReturns, ExitReadLockReturns
<1>5. \A t \in Sections : pc'[t] = "r_first" => pc[t] = "r_first"
  BY DEF IInv, TypeOK, EnterReadLockReturns, ExitReadLockReturns
<1> QED
  BY <1>1, <1>2, <1>4, <1>5
  DEF IInv, CountExact, ReadLockHeld, WriteLockHeld, MutualExclusion

(* The last reader out gives _writeLock back; the others keep it.          *)
LEMMA CountOutPreserves ==
  ASSUME IInv, NEW s \in Sections, CountReaderOut(s)
  PROVE  (CountExact /\ ReadLockHeld /\ WriteLockHeld /\ MutualExclusion)'
<1>1. /\ s \in Counted /\ Counted' = Counted \ {s}
      /\ s \in Readers /\ Readers' = Readers \ {s}
      /\ Writers' = Writers /\ Counting' = Counting \cup {s}
  BY DEF IInv, TypeOK, Counted, Readers, Writers, Counting, CountReaderOut
<1>2. Counting = {} /\ readLock' = 0
  BY DEF IInv, TypeOK, ReadLockHeld, CountReaderOut
<1>3. Readers = Counted
  BY <1>2 DEF Counting, Readers, Counted
<1>4. Writers = {} /\ writeLock = 0
  BY <1>1 DEF IInv, MutualExclusion, WriteLockHeld
<1>5. readerCount' = Cardinality(Counted) - 1
  BY DEF IInv, CountExact, CountReaderOut
<1>6. CountExact'
  BY <1>1, <1>5, CountOut DEF CountExact
<1>7. \A t \in Sections : pc'[t] # "r_first"
  BY <1>2 DEF IInv, TypeOK, Counting, CountReaderOut
<1>8. Cardinality(Counted') = 0 <=> Counted' = {}
  <2>1. IsFiniteSet(Counted')
    BY <1>1, CountedFinite, FS_Subset
  <2> QED
    BY <2>1, FS_EmptySet
<1>9. writeLock' = 0 <=> Readers' # {}
  <2>1. Readers' = Counted'
    BY <1>1, <1>3
  <2>2. readerCount' = 0 <=> Counted' = {}
    BY <1>6, <1>8 DEF CountExact
  <2>3. writeLock' = IF readerCount' = 0 THEN 1 ELSE 0
    BY <1>4 DEF CountReaderOut
  <2> QED
    BY <2>1, <2>2, <2>3
<1> QED
  BY <1>1, <1>2, <1>4, <1>6, <1>7, <1>9
  DEF IInv, ReadLockHeld, WriteLockHeld, MutualExclusion

-----------------------------------------------------------------------------
(* The invariant is inductive.                                             *)
LEMMA NextIInv == IInv /\ [Next]_vars => IInv'
<1> SUFFICES ASSUME IInv, [Next]_vars PROVE IInv'
  OBVIOUS
<1>1. TypeOK'
  BY Type
<1>2. CASE UNCHANGED vars
  BY <1>2 DEF vars, IInv, TypeOK, CountExact, ReadLockHeld, WriteLockHeld,
              MutualExclusion, Counted, Counting, Readers, Writers
<1>3. CASE Next
  BY <1>1, <1>3, RequestsPreserve, EnterWritePreserves, ExitWritePreserves,
     CountInPreserves, FirstReaderPreserves, ReturnsPreserve, CountOutPreserves
  DEF Next, Proceed, IInv
<1> QED
  BY <1>2, <1>3

(* The invariant holds in every reachable state of the lock, for every     *)
(* finite set of sections (EnterWriteLock to ExitReadLock, l.12-59).       *)
THEOREM Invariance == Spec => []IInv
  BY InitIInv, NextIInv, PTL DEF Spec

(* No Release throws SemaphoreFullException: both semaphores of            *)
(* CrossThreadReaderWriterLock stay within their maximum count.            *)
THEOREM TypeCorrect == Spec => []TypeOK
<1>1. IInv => TypeOK
  BY DEF IInv
<1> QED
  BY <1>1, Invariance, PTL

(* A section that writes is alone, whatever sections enter and leave       *)
(* concurrently and whichever threads dispose their tokens.                *)
THEOREM WriterAlone == Spec => []MutualExclusion
<1>1. IInv => MutualExclusion
  BY DEF IInv
<1> QED
  BY <1>1, Invariance, PTL

-----------------------------------------------------------------------------
(* Every step of the semaphores is a step of the abstract lock or leaves   *)
(* it alone: a reader enters when it has both the count and _writeLock,    *)
(* and leaves when it is counted out.                                      *)
LEMMA StepSimulation == IInv /\ [Next]_vars => [Abstract!Next]_Abstract!vars
<1> SUFFICES ASSUME IInv, [Next]_vars
             PROVE  Abstract!Next \/ (Readers' = Readers /\ Writers' = Writers)
  BY DEF Abstract!vars
<1>1. CASE UNCHANGED vars
  BY <1>1 DEF vars, Readers, Writers, Counted
<1>2. ASSUME NEW s \in Sections,
             \/ CallEnterWriteLock(s) \/ CallEnterReadLock(s) \/ CallExitReadLock(s)
             \/ EnterReadLockReturns(s) \/ ExitReadLockReturns(s)
      PROVE  Readers' = Readers /\ Writers' = Writers
  BY <1>2 DEF IInv, TypeOK, Readers, Writers, Counted, CallEnterWriteLock,
              CallEnterReadLock, CallExitReadLock, EnterReadLockReturns, ExitReadLockReturns
<1>3. ASSUME NEW s \in Sections, EnterWriteLock(s) PROVE Abstract!EnterWrite(s)
  <2>1. Writers = {} /\ Readers = {}
    BY <1>3 DEF IInv, WriteLockHeld, EnterWriteLock
  <2>2. Readers' = Readers /\ Writers' = Writers \cup {s}
    BY <1>3 DEF IInv, TypeOK, Readers, Writers, Counted, EnterWriteLock
  <2> QED
    BY <2>1, <2>2 DEF Abstract!EnterWrite
<1>4. ASSUME NEW s \in Sections, ExitWriteLock(s) PROVE Abstract!ExitWrite(s)
  BY <1>4 DEF IInv, TypeOK, Readers, Writers, Counted, ExitWriteLock, Abstract!ExitWrite
<1>5. ASSUME NEW s \in Sections, CountReaderIn(s)
      PROVE  Abstract!EnterRead(s) \/ (Readers' = Readers /\ Writers' = Writers)
  <2>1. Counting = {} /\ Writers' = Writers /\ s \notin Readers
    BY <1>5 DEF IInv, TypeOK, ReadLockHeld, Writers, Readers, Counted, CountReaderIn
  <2>2. Readers = Counted
    BY <2>1 DEF Counting, Readers, Counted
  <2>3. CASE readerCount' = 1
    <3>1. pc' = [pc EXCEPT ![s] = "r_first"]
      BY <1>5, <2>3 DEF CountReaderIn
    <3> QED
      BY <1>5, <2>1, <3>1 DEF IInv, TypeOK, Readers, Counted, CountReaderIn
  <2>4. CASE readerCount' # 1
    <3>1. pc' = [pc EXCEPT ![s] = "r_leave"]
      BY <1>5, <2>4 DEF CountReaderIn
    <3>2. Readers' = Readers \cup {s}
      BY <1>5, <3>1 DEF IInv, TypeOK, Readers, Counted, CountReaderIn
    <3>3. readerCount # 0
      BY <1>5, <2>4 DEF IInv, TypeOK, CountReaderIn
    <3>4. Counted # {}
      BY <3>3, CountZero DEF IInv, CountExact
    <3>5. Writers = {}
      BY <2>2, <3>4 DEF IInv, MutualExclusion
    <3> QED
      BY <2>1, <3>2, <3>5 DEF Abstract!EnterRead
  <2> QED
    BY <2>3, <2>4
<1>6. ASSUME NEW s \in Sections, FirstReaderBlocksWriters(s) PROVE Abstract!EnterRead(s)
  <2>1. Writers = {}
    BY <1>6 DEF IInv, WriteLockHeld, FirstReaderBlocksWriters
  <2> QED
    BY <1>6, <2>1 DEF IInv, TypeOK, Readers, Writers, Counted,
                      FirstReaderBlocksWriters, Abstract!EnterRead
<1>7. ASSUME NEW s \in Sections, CountReaderOut(s) PROVE Abstract!ExitRead(s)
  BY <1>7 DEF IInv, TypeOK, Readers, Writers, Counted, CountReaderOut, Abstract!ExitRead
<1> QED
  BY <1>1, <1>2, <1>3, <1>4, <1>5, <1>6, <1>7 DEF Next, Proceed, Abstract!Next

(* CrossThreadReaderWriterLock implements the abstract reader-writer lock, *)
(* for every finite set of sections.                                       *)
THEOREM Refinement == Spec => ImplementsReaderWriterLock
<1>1. Init => Abstract!Init
  BY DEF Init, Abstract!Init, Readers, Writers, Counted
<1> QED
  BY <1>1, StepSimulation, Invariance, PTL
  DEF Spec, ImplementsReaderWriterLock, Abstract!Spec
=============================================================================
