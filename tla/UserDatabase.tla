---------------------------- MODULE UserDatabase ----------------------------
(***************************************************************************)
(* UserDatabase (server): the users in memory (_cache) and their rows in   *)
(* the SQLite file, driven by the one thread of the operator's console.    *)
(* A change of a property is written by a thread of its own, started under *)
(* UserEventProcessLock, which that thread gives back; the console does    *)
(* not wait for it.  The process may be killed at any time and is started  *)
(* again from the file.                                                    *)
(*                                                                         *)
(* _cache compares names without regard to case (one entry per Fold[n]),   *)
(* the table with regard to it (one row per n).                            *)
(*                                                                         *)
(* SQLite is external: a statement is atomic, and the insertion of a user  *)
(* may fail before or after the row is there (the text of SqlUpsert goes   *)
(* on after a semicolon).                                                  *)
(***************************************************************************)
EXTENDS Integers, Sequences

CONSTANTS
  Names,     \* user names as they are spelt
  Fold,      \* a name without its case
  Columns,   \* the properties of a user, in the order in which Set raises their events
  Vals       \* values of a property

ASSUME DatabaseAssumption ==
  /\ Fold \in [Names -> STRING] /\ "" \notin Names
  /\ Columns \in Seq(STRING) /\ Len(Columns) > 0 /\ "" \notin {Columns[i] : i \in DOMAIN Columns}

ColumnSet == {Columns[i] : i \in DOMAIN Columns}
Keys   == {Fold[n] : n \in Names}
Users  == [ColumnSet -> Vals]
NoRow  == [c \in {} |-> 0]
NoUser == [name |-> "", user |-> NoRow]
Entries == [name : Names, user : Users]
NoWrite == [name |-> "", column |-> "", value |-> 0, orphan |-> FALSE]
Idle == [pc |-> "idle", name |-> "", typed |-> "", todo |-> {}]

VARIABLES
  up,       \* the process runs
  cache,    \* _cache: the user of each key
  rows,     \* the table Users
  write,    \* the thread that has UserEventProcessLock, or NoWrite
  console,  \* the console thread: [pc, name, typed, todo]
  served,   \* users whose registration the server was told of
  broken,   \* users that are not in the file because their insertion failed (history)
  stale,    \* users whose row got a value of a removed namesake (history)
  ghosts    \* names whose row outlived the user, or is hidden by another spelling (history)

dbVars == <<up, cache, rows, write, console, served, broken, stale, ghosts>>

Stored(file) == {n \in Names : file[n] # NoRow}
Cached(n) == cache[Fold[n]].name = n

\* PreloadUserCache: of the spellings of one name the last row read is kept.
PreloadUserCache(file) ==
  {loaded \in [Keys -> {[name |-> n, user |-> file[n]] : n \in Stored(file)} \cup {NoUser}] :
     \A k \in Keys :
       IF \E n \in Stored(file) : Fold[n] = k
       THEN loaded[k] # NoUser /\ Fold[loaded[k].name] = k
       ELSE loaded[k] = NoUser}

\* The server is started on any file.
DbInit ==
  /\ up = TRUE
  /\ rows \in [Names -> Users \cup {NoRow}]
  /\ cache \in PreloadUserCache(rows)
  /\ write = NoWrite /\ console = Idle
  /\ served = {n \in Names : Cached(n)}
  /\ broken = {} /\ stale = {}
  /\ ghosts = {n \in Stored(rows) : ~Cached(n)}

Ready == up /\ console = Idle

-----------------------------------------------------------------------------
(* The console.                                                            *)

\* The properties that differ, by their place in Columns.
Changed(old, new) == {i \in DOMAIN Columns : old[Columns[i]] # new[Columns[i]]}

\* A mutant of SetUser: only one event is raised.
SetUserFirstOnly(k, u) ==
  /\ Ready /\ cache[k] # NoUser /\ u # cache[k].user
  /\ cache' = [cache EXCEPT ![k].user = u]
  /\ console' = [pc |-> "raise", name |-> cache[k].name, typed |-> cache[k].name,
                 todo |-> {CHOOSE i \in Changed(cache[k].user, u) : TRUE}]
  /\ UNCHANGED <<up, rows, write, served, broken, stale, ghosts>>

\* UpdateExistingUser: Set changes the user and raises an event for each
\* property that changed, with the user locked.
SetUser(k, u) ==
  /\ Ready /\ cache[k] # NoUser /\ u # cache[k].user
  /\ cache' = [cache EXCEPT ![k].user = u]
  /\ console' = [pc |-> "raise", name |-> cache[k].name, typed |-> cache[k].name,
                 todo |-> Changed(cache[k].user, u)]
  /\ UNCHANGED <<up, rows, write, served, broken, stale, ghosts>>

\* A mutant of RaiseChange: the console stays in Set after the last event.
RaiseChangeAgain ==
  /\ up /\ console.pc = "raise" /\ write = NoWrite
  /\ \E i \in console.todo :
       /\ \A j \in console.todo : i <= j
       /\ write' = [name |-> console.name, column |-> Columns[i],
                    value |-> cache[Fold[console.name]].user[Columns[i]], orphan |-> FALSE]
       /\ console' = [console EXCEPT !.todo = @ \ {i}]
  /\ UNCHANGED <<up, cache, rows, served, broken, stale, ghosts>>

\* HandleUserPropertyChange waits for the last writer and starts the next.
RaiseChange ==
  /\ up /\ console.pc = "raise" /\ write = NoWrite
  /\ \E i \in console.todo :
       /\ \A j \in console.todo : i <= j
       /\ write' = [name |-> console.name, column |-> Columns[i],
                    value |-> cache[Fold[console.name]].user[Columns[i]], orphan |-> FALSE]
       /\ console' = IF console.todo = {i} THEN Idle ELSE [console EXCEPT !.todo = @ \ {i}]
  /\ UNCHANGED <<up, cache, rows, served, broken, stale, ghosts>>

\* A mutant of AddUser: a property is set after the monitor is registered.
AddUserThenSet(n, u) ==
  /\ Ready /\ cache[Fold[n]] = NoUser /\ write = NoWrite
  /\ cache' = [cache EXCEPT ![Fold[n]] = [name |-> n, user |-> u]]
  /\ write' = [name |-> n, column |-> Head(Columns), value |-> u[Head(Columns)], orphan |-> FALSE]
  /\ console' = [pc |-> "insert", name |-> n, typed |-> n, todo |-> {}]
  /\ UNCHANGED <<up, rows, served, broken, stale, ghosts>>

\* Add puts the user into the cache and then into the file.
AddUser(n, u) ==
  /\ Ready /\ cache[Fold[n]] = NoUser
  /\ cache' = [cache EXCEPT ![Fold[n]] = [name |-> n, user |-> u]]
  /\ console' = [pc |-> "insert", name |-> n, typed |-> n, todo |-> {}]
  /\ UNCHANGED <<up, rows, write, served, broken, stale, ghosts>>

\* ON CONFLICT leaves the SessionsLimit of the row that was there.
Upserted(n, u) ==
  [c \in ColumnSet |-> IF c = "SessionsLimit" /\ rows[n] # NoRow THEN rows[n][c] ELSE u[c]]

\* An exception of SqlUpsert is shown to the operator; the user stays in the
\* cache and the server is not told.
InsertRow ==
  /\ up /\ console.pc = "insert"
  /\ console' = Idle
  /\ \E inserted, returns \in BOOLEAN :
       LET n == console.name IN
       /\ returns => inserted
       /\ rows' = IF inserted THEN [rows EXCEPT ![n] = Upserted(n, cache[Fold[n]].user)] ELSE rows
       /\ served' = IF returns THEN served \cup {n} ELSE served
       /\ broken' = IF inserted THEN broken ELSE broken \cup {n}
  /\ UNCHANGED <<up, cache, write, stale, ghosts>>

\* A mutant of RemoveUser: the row is not deleted.
RemoveFromCacheOnly(typed) ==
  /\ Ready /\ cache[Fold[typed]] # NoUser
  /\ cache' = [cache EXCEPT ![Fold[typed]] = NoUser]
  /\ write' = IF write.name = cache[Fold[typed]].name THEN [write EXCEPT !.orphan = TRUE] ELSE write
  /\ UNCHANGED <<up, console, rows, served, broken, stale, ghosts>>

\* Remove takes the user out of the cache under any spelling of its name; a
\* write of one of its properties may be under way.
RemoveUser(typed) ==
  /\ Ready /\ cache[Fold[typed]] # NoUser
  /\ cache' = [cache EXCEPT ![Fold[typed]] = NoUser]
  /\ console' = [pc |-> "delete", name |-> cache[Fold[typed]].name, typed |-> typed,
                 todo |-> {}]
  /\ write' = IF write.name = cache[Fold[typed]].name THEN [write EXCEPT !.orphan = TRUE] ELSE write
  /\ UNCHANGED <<up, rows, served, broken, stale, ghosts>>

\* SqlDelete with the name as it was typed, then the server is told.
DeleteRow ==
  /\ up /\ console.pc = "delete"
  /\ console' = Idle
  /\ rows' = [rows EXCEPT ![console.typed] = NoRow]
  /\ served' = served \ {console.name}
  /\ broken' = broken \ {console.name}
  /\ stale' = stale \ {console.typed}
  /\ ghosts' = IF console.typed = console.name
               THEN ghosts \ {console.name}
               ELSE ghosts \cup {console.name}
  /\ UNCHANGED <<up, cache, write>>

-----------------------------------------------------------------------------
(* The writing thread, and the end and the start of the process.           *)

\* What is left of a process that has ended: the file.
Gone ==
  /\ up' = FALSE
  /\ cache' = [k \in Keys |-> NoUser]
  /\ write' = NoWrite /\ console' = Idle
  /\ served' = {} /\ broken' = {} /\ stale' = {} /\ ghosts' = {}
  /\ UNCHANGED rows

\* SqlUpsert of one property throws when there is no row, which ends the process.
WriteChange ==
  /\ up /\ write # NoWrite
  /\ IF rows[write.name] = NoRow
     THEN Gone
     ELSE /\ rows' = [rows EXCEPT ![write.name][write.column] = write.value]
          /\ write' = NoWrite
          /\ stale' = IF write.orphan THEN stale \cup {write.name} ELSE stale
          /\ UNCHANGED <<up, cache, console, served, broken, ghosts>>

Kill == up /\ Gone

\* The file is read, and the server subscribes to the users of the cache.
Restart ==
  /\ ~up
  /\ up' = TRUE
  /\ cache' \in PreloadUserCache(rows)
  /\ served' = {n \in Names : cache'[Fold[n]].name = n}
  /\ ghosts' = {n \in Stored(rows) : cache'[Fold[n]].name # n}
  /\ UNCHANGED <<rows, write, console, broken, stale>>

DbNext ==
  \/ \E k \in Keys, u \in Users : SetUser(k, u)
  \/ \E n \in Names, u \in Users : AddUser(n, u)
  \/ \E n \in Names : RemoveUser(n)
  \/ RaiseChange \/ InsertRow \/ DeleteRow \/ WriteChange \/ Kill \/ Restart

DbSpec == DbInit /\ [][DbNext]_dbVars

-----------------------------------------------------------------------------
\* Every entry of the cache is under its own key, a write names a user, a
\* property and a value, and a change in progress has something to write.
DbTypeOK ==
  /\ up \in BOOLEAN
  /\ cache \in [Keys -> Entries \cup {NoUser}]
  /\ \A k \in Keys : cache[k] = NoUser \/ Fold[cache[k].name] = k
  /\ rows \in [Names -> Users \cup {NoRow}]
  /\ \/ write = NoWrite
     \/ write \in [name : Names, column : ColumnSet, value : Vals, orphan : BOOLEAN]
  /\ \/ console = Idle
     \/ console \in [pc : {"raise", "insert", "delete"}, name : Names, typed : Names,
                     todo : SUBSET DOMAIN Columns]
  /\ console.pc = "raise" => console.todo # {} /\ Cached(console.name)
  /\ console.pc = "insert" => Cached(console.name)
  /\ served \subseteq Names /\ broken \subseteq Names
  /\ stale \subseteq Names /\ ghosts \subseteq Names

\* The property c of user n is still to be written.
Unsaved(n, c) ==
  \/ write.name = n /\ write.column = c
  \/ console.pc = "raise" /\ console.name = n /\ \E i \in console.todo : Columns[i] = c

\* What a kill loses of a user is the one write under way and what the change
\* in progress has still to write: writes are made in the order of the
\* changes.  The exceptions are a user whose removed namesake had a write
\* under way, which hits the new row, and one added over a row that a removal
\* under another spelling had left.
LossIsBounded ==
  \A n \in Names \ (stale \cup ghosts) : \A c \in ColumnSet :
    /\ Cached(n) /\ rows[n] # NoRow
    /\ rows[n][c] # cache[Fold[n]].user[c]
    => Unsaved(n, c)

\* The writing thread finds its row, and the process goes on, unless the user
\* was removed under it or could not be inserted.
WriterFindsRow ==
  write # NoWrite /\ rows[write.name] = NoRow =>
    write.orphan \/ write.name \in broken

\* When the console is idle, the file has the users of the cache, and the
\* server knows no other: a removed user does not come back with a restart and
\* an added one does, but for insertions that failed and rows that a removal
\* under another spelling left.
RowsMatchCache ==
  Ready =>
    /\ \A n \in Names \ (broken \cup ghosts) : (rows[n] # NoRow) <=> Cached(n)
    /\ \A n \in served \ ghosts : Cached(n)
=============================================================================
