------------------------ MODULE UserDatabase_proofs ------------------------
(***************************************************************************)
(* The invariants of UserDatabase, for any names, spellings, properties    *)
(* and values.  They are proved together: which rows are current follows   *)
(* from which user a pending write is of, and that from which rows exist.  *)
(***************************************************************************)
EXTENDS UserDatabase, TLAPS

\* A process that is down has nothing but the file.
DownIsBare ==
  ~up => console = Idle /\ write = NoWrite /\ \A k \in Keys : cache[k] = NoUser

\* A removal has emptied the entry of the name it deletes.
DeletedIsUncached ==
  console.pc = "delete" =>
    Fold[console.typed] = Fold[console.name] /\ cache[Fold[console.name]] = NoUser

\* A write that is not an orphan is of a cached user that is in the file, or
\* failed to get there, and has its latest value or one that is written again.
WriteIsCurrent ==
  write # NoWrite /\ ~write.orphan =>
    /\ Cached(write.name)
    /\ ~(console.pc = "insert" /\ console.name = write.name)
    /\ \/ cache[Fold[write.name]].user[write.column] = write.value
       \/ /\ console.pc = "raise" /\ console.name = write.name
          /\ \E i \in console.todo : Columns[i] = write.column

CachedHasRow ==
  \A n \in Names : Cached(n) /\ n \notin broken =>
    rows[n] # NoRow \/ (console.pc = "insert" /\ console.name = n)

RowHasUser ==
  up => \A n \in Names \ ghosts : rows[n] # NoRow =>
          Cached(n) \/ (console.pc = "delete" /\ console.name = n)

\* Nothing is inserted over a row but that of a ghost.
InsertIsNew ==
  console.pc = "insert" => rows[console.name] = NoRow \/ console.name \in ghosts

ServedIsCached ==
  \A n \in served \ ghosts : Cached(n) \/ (console.pc = "delete" /\ console.name = n)

DbInv ==
  /\ DbTypeOK
  /\ DownIsBare /\ DeletedIsUncached /\ WriteIsCurrent
  /\ CachedHasRow /\ RowHasUser /\ InsertIsNew /\ ServedIsCached
  /\ LossIsBounded
-----------------------------------------------------------------------------
(* Facts about the values.                                                 *)

LEMMA ColumnFacts ==
  /\ ColumnSet # {} /\ "" \notin ColumnSet
  /\ \A i \in DOMAIN Columns : Columns[i] \in ColumnSet
  <1>1. Columns \in Seq(STRING) /\ Len(Columns) > 0  BY DatabaseAssumption
  <1>2. 1 \in DOMAIN Columns  BY <1>1
  <1> QED  BY <1>2, DatabaseAssumption DEF ColumnSet

LEMMA UserIsNotNoRow == \A u \in Users : u # NoRow
  <1>2. DOMAIN NoRow = {}  BY DEF NoRow
  <1> QED  BY ColumnFacts, <1>2 DEF Users

LEMMA NoUserHasNoName == NoUser.name = "" /\ "" \notin Names /\ NoUser \notin Entries
  BY DatabaseAssumption DEF NoUser, Entries

LEMMA EntryWithUser ==
  \A e \in Entries, u \in Users : [e EXCEPT !.user = u] = [name |-> e.name, user |-> u]
  BY DEF Entries

LEMMA FoldIsKey == \A n \in Names : Fold[n] \in Keys
  BY DEF Keys

LEMMA NoWriteIsNobodys ==
  /\ NoWrite.name = "" /\ NoWrite.column = ""
  /\ NoWrite \notin [name : Names, column : ColumnSet, value : Vals, orphan : BOOLEAN]
  BY DatabaseAssumption DEF NoWrite

LEMMA IdleIsIdle == Idle.pc = "idle" /\ Idle.name = "" /\ Idle.todo = {}
  BY DEF Idle

\* The entry of a cached user is a user under its own name.
LEMMA CachedEntry ==
  ASSUME DbTypeOK, NEW n \in Names, Cached(n)
  PROVE  cache[Fold[n]] \in Entries /\ cache[Fold[n]].user \in Users
  BY FoldIsKey, NoUserHasNoName DEF DbTypeOK, Cached, Entries

-----------------------------------------------------------------------------
(* Every action keeps the invariant.                                       *)

LEMMA KeepsSetUser ==
  ASSUME DbInv, NEW k \in Keys, NEW u \in Users, SetUser(k, u) PROVE DbInv'
  <1> USE UserIsNotNoRow, NoUserHasNoName, FoldIsKey, NoWriteIsNobodys, IdleIsIdle DEF DbInv, SetUser, Ready
  <1> DEFINE old == cache[k].user  m == cache[k].name
  <1>a. cache[k] \in Entries /\ m \in Names /\ Fold[m] = k /\ old \in Users
    BY DEF DbTypeOK, Entries
  <1>b. /\ cache' = [cache EXCEPT ![k] = [name |-> m, user |-> u]]
        /\ cache'[k].name = m /\ cache'[k].user = u
        /\ \A j \in Keys \ {k} : cache'[j] = cache[j]
    <2>1. [cache[k] EXCEPT !.user = u] = [name |-> m, user |-> u]  BY <1>a, EntryWithUser
    <2>2. cache' = [cache EXCEPT ![k] = [cache[k] EXCEPT !.user = u]]  OBVIOUS
    <2> QED  BY <2>1, <2>2 DEF DbTypeOK
  <1>c. \A n \in Names : cache'[Fold[n]].name = cache[Fold[n]].name
    BY <1>a, <1>b
  <1>d. /\ console.pc = "idle" /\ console'.pc = "raise" /\ console'.name = m
        /\ console'.typed = m /\ console'.todo = Changed(old, u)
    BY <1>a
  <1>e. \A c \in ColumnSet : old[c] # u[c] => \E i \in Changed(old, u) : Columns[i] = c
    BY DEF ColumnSet, Changed
  <1>f. Changed(old, u) # {} /\ Changed(old, u) \in SUBSET DOMAIN Columns
    <2>1. \E c \in ColumnSet : old[c] # u[c]
      <3>1. old = [c \in ColumnSet |-> old[c]] /\ u = [c \in ColumnSet |-> u[c]]
        BY <1>a DEF Users
      <3> QED  BY <3>1
    <2> QED  BY <2>1, <1>e DEF Changed
  <1>1. DbTypeOK'
    <2>1. cache' \in [Keys -> Entries \cup {NoUser}]  BY <1>a, <1>b DEF DbTypeOK, Entries
    <2>2. ASSUME NEW j \in Keys PROVE cache'[j] = NoUser \/ Fold[cache'[j].name] = j
      <3>1. CASE j = k  BY <3>1, <1>a, <1>b
      <3>2. CASE j # k  BY <3>2, <1>b DEF DbTypeOK
      <3> QED  BY <3>1, <3>2
    <2>3. console' \in [pc : {"raise", "insert", "delete"}, name : Names, typed : Names,
                        todo : SUBSET DOMAIN Columns]
      BY <1>a, <1>f
    <2> QED  BY <2>1, <2>2, <2>3, <1>a, <1>b, <1>d, <1>f DEF DbTypeOK, Cached
  <1>2. DownIsBare'
    BY DEF DbTypeOK, DownIsBare, Cached
  <1>3. DeletedIsUncached'
    BY DEF DbTypeOK, DeletedIsUncached, Cached
  <1>4. WriteIsCurrent'
    <2> SUFFICES ASSUME write # NoWrite, ~write.orphan PROVE WriteIsCurrent'
      BY DEF WriteIsCurrent
    <2>1. write.name \in Names /\ write.column \in ColumnSet  BY DEF DbTypeOK
    <2>2. write' = write /\ Cached(write.name)
          /\ cache[Fold[write.name]].user[write.column] = write.value
      BY <2>1, <1>d DEF WriteIsCurrent
    <2>3. Cached(write.name)'  BY <2>1, <2>2, <1>c DEF Cached
    <2>4. CASE Fold[write.name] = k
      <3>1. write.name = m  BY <2>2, <2>4 DEF Cached
      <3>2. \/ cache'[Fold[write.name]].user[write.column] = write.value
            \/ \E i \in console'.todo : Columns[i] = write.column
        BY <2>1, <2>2, <2>4, <1>b, <1>d, <1>e
      <3> QED  BY <2>2, <2>3, <3>1, <3>2, <1>d DEF WriteIsCurrent
    <2>5. CASE Fold[write.name] # k
      <3>1. cache'[Fold[write.name]] = cache[Fold[write.name]]  BY <2>1, <2>5, <1>b
      <3> QED  BY <2>2, <2>3, <3>1, <1>d DEF WriteIsCurrent
    <2> QED  BY <2>4, <2>5
  <1>5. CachedHasRow'
    BY <1>c, <1>d DEF CachedHasRow, Cached
  <1>6. RowHasUser'
    BY <1>c, <1>d DEF RowHasUser, Cached
  <1>7. InsertIsNew'
    BY DEF DbTypeOK, InsertIsNew, Cached
  <1>8. ServedIsCached'
    BY <1>c, <1>d DEF DbTypeOK, ServedIsCached, Cached
  <1>9. LossIsBounded'
    <2> SUFFICES ASSUME NEW n \in Names \ (stale \cup ghosts), NEW c \in ColumnSet,
                        cache'[Fold[n]].name = n, rows[n] # NoRow,
                        rows[n][c] # cache'[Fold[n]].user[c]
                 PROVE  Unsaved(n, c)'
      BY DEF LossIsBounded, Cached
    <2>1. CASE Fold[n] = k
      <3>1. n = m  BY <2>1, <1>b
      <3>2. CASE old[c] # u[c]  BY <3>1, <3>2, <1>d, <1>e DEF Unsaved
      <3>3. CASE old[c] = u[c]
        BY <2>1, <3>1, <3>3, <1>b, <1>c, <1>d DEF LossIsBounded, Unsaved, Cached
      <3> QED  BY <3>2, <3>3
    <2>2. CASE Fold[n] # k
      <3>1. cache'[Fold[n]] = cache[Fold[n]]  BY <2>2, <1>b
      <3>2. Unsaved(n, c)  BY <3>1 DEF LossIsBounded, Cached
      <3> QED  BY <3>2, <1>d DEF Unsaved
    <2> QED  BY <2>1, <2>2
  <1> QED  BY <1>1, <1>2, <1>3, <1>4, <1>5, <1>6, <1>7, <1>8, <1>9 DEF DbInv

LEMMA KeepsRaiseChange ==
  ASSUME DbInv, RaiseChange PROVE DbInv'
  <1> USE UserIsNotNoRow, NoUserHasNoName, FoldIsKey, NoWriteIsNobodys, IdleIsIdle DEF DbInv, RaiseChange, Ready
  <1> DEFINE n0 == console.name
  <1>a. n0 \in Names /\ Cached(n0) /\ console.todo \in SUBSET DOMAIN Columns
        /\ cache[Fold[n0]] \in Entries /\ cache[Fold[n0]].user \in Users
    BY CachedEntry DEF DbTypeOK
  <1>b. PICK i \in console.todo :
          /\ write' = [name |-> n0, column |-> Columns[i],
                       value |-> cache[Fold[n0]].user[Columns[i]], orphan |-> FALSE]
          /\ console' = IF console.todo = {i} THEN Idle ELSE [console EXCEPT !.todo = @ \ {i}]
    OBVIOUS
  <1>c. Columns[i] \in ColumnSet /\ cache[Fold[n0]].user[Columns[i]] \in Vals
    BY <1>a, <1>b, ColumnFacts DEF Users
  <1>d. \/ console' = Idle /\ console.todo = {i}
        \/ /\ console'.pc = "raise" /\ console'.name = n0 /\ console'.typed = console.typed
           /\ console'.todo = console.todo \ {i} /\ console'.todo # {}
           /\ console' \in [pc : {"raise", "insert", "delete"}, name : Names, typed : Names,
                             todo : SUBSET DOMAIN Columns]
    BY <1>a, <1>b DEF DbTypeOK
  <1>e. \A n \in Names : Cached(n)' <=> Cached(n)  BY DEF Cached
  <1>1. DbTypeOK'
    BY <1>a, <1>b, <1>c, <1>d, <1>e DEF DbTypeOK
  <1>2. DownIsBare'
    BY DEF DbTypeOK, DownIsBare, Cached
  <1>3. DeletedIsUncached'
    BY DEF DbTypeOK, DeletedIsUncached, Cached
  <1>4. WriteIsCurrent'
    BY <1>a, <1>b, <1>c, <1>d DEF WriteIsCurrent, Cached
  <1>5. CachedHasRow'
    BY DEF DbTypeOK, CachedHasRow, Cached
  <1>6. RowHasUser'
    BY DEF DbTypeOK, RowHasUser, Cached
  <1>7. InsertIsNew'
    BY DEF DbTypeOK, InsertIsNew, Cached
  <1>8. ServedIsCached'
    BY DEF DbTypeOK, ServedIsCached, Cached
  <1>9. LossIsBounded'
    <2> SUFFICES ASSUME NEW n \in Names \ (stale \cup ghosts), NEW c \in ColumnSet,
                        Unsaved(n, c)
                 PROVE  Unsaved(n, c)'
      BY DEF LossIsBounded, Cached
    <2>1. n = n0 /\ \E j \in console.todo : Columns[j] = c
      BY DEF Unsaved
    <2> QED  BY <2>1, <1>b, <1>d DEF Unsaved
  <1> QED  BY <1>1, <1>2, <1>3, <1>4, <1>5, <1>6, <1>7, <1>8, <1>9 DEF DbInv

LEMMA KeepsAddUser ==
  ASSUME DbInv, NEW n \in Names, NEW u \in Users, AddUser(n, u) PROVE DbInv'
  <1> USE UserIsNotNoRow, NoUserHasNoName, FoldIsKey, NoWriteIsNobodys, IdleIsIdle DEF DbInv, AddUser, Ready
  <1>1. DbTypeOK'
    BY DEF DbTypeOK, Cached, Users, Entries, Keys, ColumnSet, Idle, NoWrite, Changed
  <1>2. DownIsBare'
    BY DEF DbTypeOK, DownIsBare, Cached
  <1>3. DeletedIsUncached'
    BY DEF DbTypeOK, DeletedIsUncached, Cached
  <1>4. WriteIsCurrent'
    BY DEF DbTypeOK, WriteIsCurrent, Cached
  <1>5. CachedHasRow'
    BY DEF DbTypeOK, CachedHasRow, Cached
  <1>6. RowHasUser'
    BY DEF DbTypeOK, RowHasUser, Cached
  <1>7. InsertIsNew'
    <2>1. ~Cached(n)  BY DEF Cached
    <2>2. rows[n] = NoRow \/ n \in ghosts  BY <2>1 DEF RowHasUser
    <2> QED  BY <2>2 DEF InsertIsNew
  <1>8. ServedIsCached'
    BY DEF DbTypeOK, ServedIsCached, Cached
  <1>9. LossIsBounded'
    <2> SUFFICES ASSUME NEW m \in Names \ (stale \cup ghosts), NEW c \in ColumnSet,
                        cache'[Fold[m]].name = m, rows[m] # NoRow,
                        rows[m][c] # cache'[Fold[m]].user[c]
                 PROVE  Unsaved(m, c)'
      BY DEF LossIsBounded, Cached
    <2>1. ~Cached(n)  BY DEF Cached
    <2>2. m # n  BY <2>1 DEF RowHasUser
    <2>3. Fold[m] # Fold[n]  BY <2>2 DEF DbTypeOK
    <2>4. cache'[Fold[m]] = cache[Fold[m]]  BY <2>3 DEF DbTypeOK
    <2> QED  BY <2>4 DEF LossIsBounded, Unsaved, Cached
  <1> QED  BY <1>1, <1>2, <1>3, <1>4, <1>5, <1>6, <1>7, <1>8, <1>9 DEF DbInv

LEMMA KeepsInsertRow ==
  ASSUME DbInv, InsertRow PROVE DbInv'
  <1> USE UserIsNotNoRow, NoUserHasNoName, FoldIsKey, NoWriteIsNobodys, IdleIsIdle DEF DbInv, InsertRow, Ready
  <1> DEFINE n0 == console.name  u0 == cache[Fold[n0]].user
  <1>a. n0 \in Names /\ Cached(n0) /\ u0 \in Users
    BY CachedEntry DEF DbTypeOK
  <1>b. PICK inserted \in BOOLEAN, returns \in BOOLEAN :
          /\ returns => inserted
          /\ rows' = IF inserted THEN [rows EXCEPT ![n0] = Upserted(n0, u0)] ELSE rows
          /\ served' = IF returns THEN served \cup {n0} ELSE served
          /\ broken' = IF inserted THEN broken ELSE broken \cup {n0}
    OBVIOUS
  <1>c. Upserted(n0, u0) \in Users
    BY <1>a DEF DbTypeOK, Upserted, Users
  <1>d. \A n \in Names : Cached(n)' <=> Cached(n)  BY DEF Cached
  <1>e. \A n \in Names : n # n0 => rows'[n] = rows[n]  BY <1>b DEF DbTypeOK
  <1>f. inserted => rows'[n0] = Upserted(n0, u0)  BY <1>a, <1>b DEF DbTypeOK
  <1>g. rows[n0] = NoRow => Upserted(n0, u0) = u0
    BY <1>a DEF Upserted, Users
  <1>1. DbTypeOK'
    <2>1. rows' \in [Names -> Users \cup {NoRow}]  BY <1>a, <1>b, <1>c DEF DbTypeOK
    <2> QED  BY <2>1, <1>a, <1>b, <1>d DEF DbTypeOK, Idle
  <1>2. DownIsBare'
    BY DEF DbTypeOK, DownIsBare, Cached
  <1>3. DeletedIsUncached'
    BY DEF DbTypeOK, DeletedIsUncached, Cached
  <1>4. WriteIsCurrent'
    BY DEF DbTypeOK, WriteIsCurrent, Cached
  <1>5. CachedHasRow'
    BY <1>a, <1>b, <1>c, <1>d, <1>e, <1>f DEF CachedHasRow
  <1>6. RowHasUser'
    BY DEF DbTypeOK, RowHasUser, Cached
  <1>7. InsertIsNew'
    BY DEF DbTypeOK, InsertIsNew, Cached
  <1>8. ServedIsCached'
    BY DEF DbTypeOK, ServedIsCached, Cached
  <1>9. LossIsBounded'
    <2> SUFFICES ASSUME NEW n \in Names \ (stale \cup ghosts), NEW c \in ColumnSet,
                        Cached(n), rows'[n] # NoRow, rows'[n][c] # cache[Fold[n]].user[c]
                 PROVE  Unsaved(n, c)'
      BY <1>d DEF LossIsBounded
    <2>1. n # n0
      BY <1>a, <1>b, <1>f, <1>g DEF InsertIsNew
    <2>2. Unsaved(n, c)  BY <2>1, <1>e DEF LossIsBounded
    <2> QED  BY <2>2 DEF Unsaved
  <1> QED  BY <1>1, <1>2, <1>3, <1>4, <1>5, <1>6, <1>7, <1>8, <1>9 DEF DbInv

LEMMA KeepsRemoveUser ==
  ASSUME DbInv, NEW t \in Names, RemoveUser(t) PROVE DbInv'
  <1> USE UserIsNotNoRow, NoUserHasNoName, FoldIsKey, NoWriteIsNobodys, IdleIsIdle DEF DbInv, RemoveUser, Ready
  <1> DEFINE m == cache[Fold[t]].name
  <1>a. m \in Names /\ Fold[m] = Fold[t] /\ Cached(m)
    BY DEF DbTypeOK, Entries, Cached
  <1>b. /\ write = NoWrite => write' = NoWrite
        /\ write # NoWrite => write' = [name |-> write.name, column |-> write.column,
                           value |-> write.value, orphan |-> write.orphan \/ write.name = m]
    <2>1. write = NoWrite => write' = NoWrite  BY <1>a
    <2>2. CASE write # NoWrite
      <3>1. write \in [name : Names, column : ColumnSet, value : Vals, orphan : BOOLEAN]
        BY <2>2 DEF DbTypeOK
      <3> QED  BY <3>1, <2>2
    <2> QED  BY <2>1, <2>2
  <1>c. \A n \in Names : Cached(n)' <=> Cached(n) /\ n # m
    BY <1>a DEF DbTypeOK, Cached
  <1>1. DbTypeOK'
    BY <1>a, <1>b DEF DbTypeOK, Cached
  <1>2. DownIsBare'
    BY DEF DbTypeOK, DownIsBare, Cached
  <1>3. DeletedIsUncached'
    BY DEF DbTypeOK, DeletedIsUncached, Cached
  <1>4. WriteIsCurrent'
    <2> SUFFICES ASSUME write' # NoWrite, ~write'.orphan PROVE WriteIsCurrent'
      BY DEF WriteIsCurrent
    <2>1. write # NoWrite /\ ~write.orphan /\ write.name # m /\ write.name \in Names
          /\ write'.name = write.name /\ write'.column = write.column /\ write'.value = write.value
      BY <1>b DEF DbTypeOK
    <2>2. Cached(write.name)  BY <2>1 DEF WriteIsCurrent
    <2>3. Fold[write.name] # Fold[t]  BY <2>1, <2>2, <1>a DEF Cached
    <2>4. cache'[Fold[write.name]] = cache[Fold[write.name]]  BY <2>1, <2>3 DEF DbTypeOK
    <2> QED  BY <2>1, <2>2, <2>4 DEF WriteIsCurrent, Cached
  <1>5. CachedHasRow'
    BY DEF DbTypeOK, CachedHasRow, Cached
  <1>6. RowHasUser'
    BY DEF DbTypeOK, RowHasUser, Cached
  <1>7. InsertIsNew'
    BY DEF DbTypeOK, InsertIsNew, Cached
  <1>8. ServedIsCached'
    BY DEF DbTypeOK, ServedIsCached, Cached
  <1>9. LossIsBounded'
    <2> SUFFICES ASSUME NEW n \in Names \ (stale \cup ghosts), NEW c \in ColumnSet,
                        Cached(n)', rows[n] # NoRow, rows[n][c] # cache'[Fold[n]].user[c]
                 PROVE  Unsaved(n, c)'
      BY DEF LossIsBounded
    <2>1. Cached(n) /\ n # m  BY <1>c
    <2>2. Fold[n] # Fold[t]  BY <2>1, <1>a DEF Cached
    <2>3. cache'[Fold[n]] = cache[Fold[n]]  BY <2>2 DEF DbTypeOK
    <2>4. Unsaved(n, c)  BY <2>1, <2>3 DEF LossIsBounded
    <2> QED  BY <2>4, <1>b DEF Unsaved
  <1> QED  BY <1>1, <1>2, <1>3, <1>4, <1>5, <1>6, <1>7, <1>8, <1>9 DEF DbInv

LEMMA KeepsDeleteRow ==
  ASSUME DbInv, DeleteRow PROVE DbInv'
  <1> USE UserIsNotNoRow, NoUserHasNoName, FoldIsKey, NoWriteIsNobodys, IdleIsIdle DEF DbInv, DeleteRow, Ready
  <1>a. console.typed \in Names /\ console.name \in Names  BY DEF DbTypeOK
  <1>b. \A n \in Names : Fold[n] = Fold[console.typed] => ~Cached(n)
    BY DEF DeletedIsUncached, Cached
  <1>1. DbTypeOK'
    BY DEF DbTypeOK, Cached, Users, Entries, Keys, ColumnSet, Idle, NoWrite, Changed
  <1>2. DownIsBare'
    BY DEF DbTypeOK, DownIsBare, Cached
  <1>3. DeletedIsUncached'
    BY DEF DbTypeOK, DeletedIsUncached, Cached
  <1>4. WriteIsCurrent'
    BY DEF DbTypeOK, WriteIsCurrent, Cached
  <1>5. CachedHasRow'
    <2> SUFFICES ASSUME NEW n \in Names, Cached(n), n \notin broken' PROVE rows'[n] # NoRow
      BY DEF CachedHasRow, Cached
    <2>1. n # console.typed /\ n # console.name
      BY <1>a, <1>b DEF DeletedIsUncached
    <2> QED  BY <2>1 DEF CachedHasRow, DbTypeOK
  <1>6. RowHasUser'
    BY DEF DbTypeOK, RowHasUser, Cached
  <1>7. InsertIsNew'
    BY DEF DbTypeOK, InsertIsNew, Cached
  <1>8. ServedIsCached'
    BY DEF DbTypeOK, ServedIsCached, Cached
  <1>9. LossIsBounded'
    BY DEF DbTypeOK, LossIsBounded, Unsaved, Cached
  <1> QED  BY <1>1, <1>2, <1>3, <1>4, <1>5, <1>6, <1>7, <1>8, <1>9 DEF DbInv

LEMMA KeepsGone ==
  ASSUME DbInv, Gone PROVE DbInv'
  <1> USE UserIsNotNoRow, NoUserHasNoName, FoldIsKey, NoWriteIsNobodys, IdleIsIdle DEF DbInv, Gone, Ready
  <1>1. DbTypeOK'
    BY DEF DbTypeOK, Cached, Users, Entries, Keys, ColumnSet, Idle, NoWrite, Changed
  <1>2. DownIsBare'
    BY DEF DbTypeOK, DownIsBare, Cached
  <1>3. DeletedIsUncached'
    BY DEF DbTypeOK, DeletedIsUncached, Cached
  <1>4. WriteIsCurrent'
    BY DEF DbTypeOK, WriteIsCurrent, Cached
  <1>5. CachedHasRow'
    BY DEF DbTypeOK, CachedHasRow, Cached
  <1>6. RowHasUser'
    BY DEF DbTypeOK, RowHasUser, Cached
  <1>7. InsertIsNew'
    BY DEF DbTypeOK, InsertIsNew, Cached
  <1>8. ServedIsCached'
    BY DEF DbTypeOK, ServedIsCached, Cached
  <1>9. LossIsBounded'
    BY DEF DbTypeOK, LossIsBounded, Unsaved, Cached
  <1> QED  BY <1>1, <1>2, <1>3, <1>4, <1>5, <1>6, <1>7, <1>8, <1>9 DEF DbInv

LEMMA KeepsWriteChange ==
  ASSUME DbInv, WriteChange PROVE DbInv'
  <1>1. CASE rows[write.name] = NoRow
    BY <1>1, KeepsGone DEF WriteChange
  <1>2. CASE rows[write.name] # NoRow
    <2> USE UserIsNotNoRow, NoUserHasNoName, FoldIsKey, NoWriteIsNobodys, <1>2 DEF DbInv, WriteChange
    <2> DEFINE n0 == write.name  c0 == write.column
    <2>a. /\ n0 \in Names /\ c0 \in ColumnSet /\ write.value \in Vals
          /\ rows[n0] \in Users /\ write' = NoWrite
      BY DEF DbTypeOK
    <2>b. rows' = [rows EXCEPT ![n0] = [rows[n0] EXCEPT ![c0] = write.value]]
      BY DEF DbTypeOK
    <2>c. [rows[n0] EXCEPT ![c0] = write.value] \in Users
      BY <2>a DEF Users
    <2>d. \A n \in Names : (rows'[n] = NoRow <=> rows[n] = NoRow) /\ (Cached(n)' <=> Cached(n))
      BY <2>a, <2>b, <2>c DEF DbTypeOK, Cached
    <2>e. UNCHANGED <<up, cache, console, served, broken, ghosts>>
      OBVIOUS
    <2>1. DbTypeOK'
      <3>1. rows' \in [Names -> Users \cup {NoRow}]  BY <2>a, <2>b, <2>c DEF DbTypeOK
      <3>2. stale' = stale \cup {n0} \/ stale' = stale  OBVIOUS
      <3>3. Cached(console.name)' <=> Cached(console.name)  BY DEF Cached
      <3> QED  BY <3>1, <3>2, <3>3, <2>a, <2>e DEF DbTypeOK
    <2>2. DownIsBare' /\ DeletedIsUncached'
      BY <2>a DEF DownIsBare, DeletedIsUncached
    <2>3. WriteIsCurrent'  BY <2>a DEF WriteIsCurrent
    <2>4. CachedHasRow' /\ RowHasUser'  BY <2>d, <2>e DEF CachedHasRow, RowHasUser
    <2>5. InsertIsNew'
      <3>1. console.pc = "insert" => console.name \in Names  BY IdleIsIdle DEF DbTypeOK
      <3> QED  BY <3>1, <2>d, <2>e DEF InsertIsNew
    <2>6. ServedIsCached'  BY <2>d, <2>e DEF ServedIsCached, DbTypeOK
    <2>7. LossIsBounded'
      <3> SUFFICES ASSUME NEW n \in Names \ (stale' \cup ghosts), NEW c \in ColumnSet,
                          Cached(n), rows'[n] # NoRow, rows'[n][c] # cache[Fold[n]].user[c]
                   PROVE  Unsaved(n, c)'
        BY <2>d, <2>e DEF LossIsBounded
      <3>1. n \notin stale  OBVIOUS
      <3>2. CASE n = n0 /\ c = c0
        <4>1. ~write.orphan  BY <3>2
        <4>2. rows'[n][c] = write.value  BY <3>2, <2>a, <2>b DEF DbTypeOK, Users
        <4> QED  BY <3>2, <4>1, <4>2 DEF WriteIsCurrent, Unsaved
      <3>3. CASE ~(n = n0 /\ c = c0)
        <4>1. rows'[n][c] = rows[n][c]  BY <3>3, <2>a, <2>b DEF DbTypeOK, Users
        <4>2. Unsaved(n, c)  BY <3>1, <4>1, <2>d DEF LossIsBounded
        <4> QED  BY <3>3, <4>2, <2>e DEF Unsaved
      <3> QED  BY <3>2, <3>3
    <2> QED  BY <2>1, <2>2, <2>3, <2>4, <2>5, <2>6, <2>7
  <1> QED  BY <1>1, <1>2

\* What the cache is after PreloadUserCache.
LEMMA PreloadFacts ==
  ASSUME NEW file \in [Names -> Users \cup {NoRow}], NEW loaded \in PreloadUserCache(file)
  PROVE  /\ loaded \in [Keys -> Entries \cup {NoUser}]
         /\ \A k \in Keys : loaded[k] = NoUser \/ Fold[loaded[k].name] = k
         /\ \A n \in Names : loaded[Fold[n]].name = n =>
              file[n] # NoRow /\ loaded[Fold[n]].user = file[n]
  <1>1. \A n \in Stored(file) : [name |-> n, user |-> file[n]] \in Entries
    BY DEF Stored, Entries
  <1>2. \A k \in Keys : loaded[k] = NoUser \/ \E n \in Stored(file) : loaded[k] = [name |-> n, user |-> file[n]]
    BY DEF PreloadUserCache
  <1>3. loaded \in [Keys -> Entries \cup {NoUser}]
    <2>1. loaded \in [Keys -> {[name |-> n, user |-> file[n]] : n \in Stored(file)} \cup {NoUser}]
      BY DEF PreloadUserCache
    <2>2. \A k \in Keys : loaded[k] \in Entries \cup {NoUser}  BY <1>1, <1>2
    <2> QED  BY <2>1, <2>2
  <1>4. \A k \in Keys : loaded[k] = NoUser \/ Fold[loaded[k].name] = k
    BY DEF PreloadUserCache
  <1>5. ASSUME NEW n \in Names, loaded[Fold[n]].name = n
        PROVE  file[n] # NoRow /\ loaded[Fold[n]].user = file[n]
    <2>1. loaded[Fold[n]] # NoUser  BY <1>5, NoUserHasNoName
    <2>2. PICK m \in Stored(file) : loaded[Fold[n]] = [name |-> m, user |-> file[m]]
      BY <2>1, <1>2, FoldIsKey
    <2>3. m = n  BY <2>2, <1>5
    <2> QED  BY <2>2, <2>3 DEF Stored
  <1> QED  BY <1>3, <1>4, <1>5

LEMMA KeepsRestart ==
  ASSUME DbInv, Restart PROVE DbInv'
  <1> USE UserIsNotNoRow, NoUserHasNoName, FoldIsKey, NoWriteIsNobodys, IdleIsIdle DEF DbInv, Restart, Ready
  <1>a. rows \in [Names -> Users \cup {NoRow}] /\ cache' \in PreloadUserCache(rows)
    BY DEF DbTypeOK
  <1>b. /\ cache' \in [Keys -> Entries \cup {NoUser}]
        /\ \A k \in Keys : cache'[k] = NoUser \/ Fold[cache'[k].name] = k
        /\ \A n \in Names : cache'[Fold[n]].name = n =>
             rows[n] # NoRow /\ cache'[Fold[n]].user = rows[n]
    BY <1>a, PreloadFacts
  <1>c. console' = Idle /\ write' = NoWrite  BY DEF DownIsBare
  <1> USE <1>a, <1>b, <1>c
  <1>1. DbTypeOK'
    BY DEF DbTypeOK, Stored
  <1>2. DownIsBare'
    BY DEF DownIsBare
  <1>3. DeletedIsUncached'
    BY DEF DeletedIsUncached
  <1>4. WriteIsCurrent'
    BY DEF WriteIsCurrent
  <1>5. CachedHasRow'
    BY DEF CachedHasRow, Cached
  <1>6. RowHasUser'
    BY DEF RowHasUser, Cached, Stored
  <1>7. InsertIsNew'
    BY DEF InsertIsNew
  <1>8. ServedIsCached'
    BY DEF ServedIsCached, Cached, Stored
  <1>9. LossIsBounded'
    BY DEF LossIsBounded, Cached
  <1> QED  BY <1>1, <1>2, <1>3, <1>4, <1>5, <1>6, <1>7, <1>8, <1>9 DEF DbInv

LEMMA StartsWell == DbInit => DbInv
  <1> SUFFICES ASSUME DbInit PROVE DbInv
    OBVIOUS
  <1> USE NoUserHasNoName, IdleIsIdle DEF DbInit
  <1>1. /\ cache \in [Keys -> Entries \cup {NoUser}]
        /\ \A k \in Keys : cache[k] = NoUser \/ Fold[cache[k].name] = k
        /\ \A n \in Names : cache[Fold[n]].name = n =>
             rows[n] # NoRow /\ cache[Fold[n]].user = rows[n]
    BY PreloadFacts
  <1>2. DbTypeOK  BY <1>1 DEF DbTypeOK, Stored
  <1>3. DownIsBare /\ DeletedIsUncached /\ WriteIsCurrent /\ InsertIsNew
    BY DEF DownIsBare, DeletedIsUncached, WriteIsCurrent, InsertIsNew
  <1>4. CachedHasRow /\ LossIsBounded
    BY <1>1 DEF CachedHasRow, LossIsBounded, Cached
  <1>5. RowHasUser /\ ServedIsCached
    BY DEF RowHasUser, ServedIsCached, Cached, Stored
  <1> QED  BY <1>2, <1>3, <1>4, <1>5 DEF DbInv

LEMMA StepKeeps == DbInv /\ [DbNext]_dbVars => DbInv'
  <1> SUFFICES ASSUME DbInv, [DbNext]_dbVars PROVE DbInv'
    OBVIOUS
  <1>1. ASSUME NEW k \in Keys, NEW u \in Users, SetUser(k, u) PROVE DbInv'
    BY <1>1, KeepsSetUser
  <1>2. ASSUME NEW n \in Names, NEW u \in Users, AddUser(n, u) PROVE DbInv'
    BY <1>2, KeepsAddUser
  <1>3. ASSUME NEW n \in Names, RemoveUser(n) PROVE DbInv'
    BY <1>3, KeepsRemoveUser
  <1>4. CASE RaiseChange  BY <1>4, KeepsRaiseChange
  <1>5. CASE InsertRow  BY <1>5, KeepsInsertRow
  <1>6. CASE DeleteRow  BY <1>6, KeepsDeleteRow
  <1>7. CASE WriteChange  BY <1>7, KeepsWriteChange
  <1>8. CASE Kill  BY <1>8, KeepsGone DEF Kill
  <1>9. CASE Restart  BY <1>9, KeepsRestart
  <1>10. CASE UNCHANGED dbVars
    BY <1>10 DEF dbVars, DbInv, DbTypeOK, DownIsBare, DeletedIsUncached, WriteIsCurrent,
       CachedHasRow, RowHasUser, InsertIsNew, ServedIsCached, LossIsBounded, Unsaved, Cached
  <1> QED  BY <1>1, <1>2, <1>3, <1>4, <1>5, <1>6, <1>7, <1>8, <1>9, <1>10 DEF DbNext

THEOREM DatabaseInvariant == DbSpec => []DbInv
  BY StartsWell, StepKeeps, PTL DEF DbSpec

-----------------------------------------------------------------------------
\* The cache, the file, the writing thread and the console keep their types
\* through kills and restarts (UserDatabase.cs).
THEOREM DatabaseTypeCorrect == DbSpec => []DbTypeOK
  <1>1. DbInv => DbTypeOK  BY DEF DbInv
  <1> QED  BY <1>1, DatabaseInvariant, PTL

\* A kill loses of a user only what is being written or still to be written
\* (HandleUserPropertyChange).
THEOREM KillLosesLittle == DbSpec => []LossIsBounded
  <1>1. DbInv => LossIsBounded  BY DEF DbInv
  <1> QED  BY <1>1, DatabaseInvariant, PTL

\* SqlUpsert of a property throws, and ends the process, only for a user that
\* was removed meanwhile or whose insertion had failed.
THEOREM WriterAlwaysFindsRow == DbSpec => []WriterFindsRow
  <1>1. DbInv => WriterFindsRow
    BY NoWriteIsNobodys DEF DbInv, DbTypeOK, WriteIsCurrent, CachedHasRow, WriterFindsRow
  <1> QED  BY <1>1, DatabaseInvariant, PTL

\* Between commands the file has exactly the users of the cache, but for failed
\* insertions and names removed under another spelling (Add, Remove).
THEOREM FileMatchesCache == DbSpec => []RowsMatchCache
  <1>1. DbInv => RowsMatchCache
    BY IdleIsIdle DEF DbInv, DbTypeOK, CachedHasRow, RowHasUser, ServedIsCached, RowsMatchCache, Ready
  <1> QED  BY <1>1, DatabaseInvariant, PTL
=============================================================================
