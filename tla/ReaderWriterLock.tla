-------------------------- MODULE ReaderWriterLock --------------------------
(***************************************************************************)
(* What a reader-writer lock promises, without any implementation: a       *)
(* section enters as a reader only while nobody writes, and as a writer    *)
(* only while nobody else is inside.  CrossThreadReaderWriterLock          *)
(* (core/Shared) promises this to its users; the module CrossThreadLock    *)
(* shows how its two semaphores keep the promise.                          *)
(***************************************************************************)

CONSTANT Sections       \* uses of the lock, one per token handed out

VARIABLES readers,      \* sections inside as readers
          writers       \* sections inside as writers

vars == <<readers, writers>>

Init == readers = {} /\ writers = {}

EnterRead(s) ==
  /\ s \notin readers
  /\ writers = {}
  /\ readers' = readers \cup {s}
  /\ UNCHANGED writers

ExitRead(s) ==
  /\ s \in readers
  /\ readers' = readers \ {s}
  /\ UNCHANGED writers

EnterWrite(s) ==
  /\ readers = {}
  /\ writers = {}
  /\ writers' = {s}
  /\ UNCHANGED readers

ExitWrite(s) ==
  /\ s \in writers
  /\ writers' = writers \ {s}
  /\ UNCHANGED readers

Next == \E s \in Sections : EnterRead(s) \/ ExitRead(s) \/ EnterWrite(s) \/ ExitWrite(s)

Spec == Init /\ [][Next]_vars
=============================================================================
