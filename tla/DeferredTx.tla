------------------------------ MODULE DeferredTx ------------------------------
(****************************************************************************)
(* How handlers share the database.  Every handler runs in one transaction  *)
(* on a pooled connection (conn.transaction, or tx of util.rs).  Diesel     *)
(* begins it as a deferred transaction of SQLite, in WAL mode with a        *)
(* busy_timeout:                                                            *)
(*   - the first read fixes a snapshot of the database;                     *)
(*   - the first write after a read takes the one write lock, or fails at   *)
(*     once if another connection has it or has committed since;            *)
(*   - a write that comes first waits for the lock up to busy_timeout;      *)
(*   - an error, a panic or the end of the process rolls back.              *)
(* SQLite and diesel are external: this is what the handlers rely on.       *)
(****************************************************************************)
CONSTANTS
  Conns,         \* the connections of the pool
  NoConn,        \* nobody has the write lock
  Requests,      \* the requests that handlers serve
  WritesFirst,   \* those whose handler begins with a write
  Stores,        \* the contents of the database
  InitStore,     \* ... when the server is first started
  Effects(_, _)  \* Effects(r, s): the stores that serving r in s may leave

ASSUME DeferredTxAssumption ==
  /\ NoConn \notin Conns
  /\ WritesFirst \subseteq Requests
  /\ InitStore \in Stores
  /\ \A r \in Requests, s \in Stores : Effects(r, s) \subseteq Stores

VARIABLES
  db,       \* what has been committed
  writer,   \* the connection that has the write lock
  state,    \* how far the transaction of each connection is
  request,  \* the request it serves
  view,     \* the snapshot it reads
  stale,    \* the connections that read an overtaken snapshot
  pending   \* what it will commit

vars == <<db, writer, state, request, view, stale, pending>>

States == {"free", "begun", "reading", "writing"}

Init ==
  /\ db = InitStore
  /\ writer = NoConn
  /\ state = [c \in Conns |-> "free"]
  /\ request \in [Conns -> Requests]
  /\ view = [c \in Conns |-> InitStore]
  /\ stale = {}
  /\ pending = [c \in Conns |-> InitStore]

\* BEGIN (deferred): no lock and no snapshot yet.
Begin(c, r) ==
  /\ state[c] = "free"
  /\ state' = [state EXCEPT ![c] = "begun"]
  /\ request' = [request EXCEPT ![c] = r]
  /\ UNCHANGED <<db, writer, view, stale, pending>>

\* The first SELECT.
Read(c) ==
  /\ state[c] = "begun"
  /\ request[c] \notin WritesFirst
  /\ state' = [state EXCEPT ![c] = "reading"]
  /\ view' = [view EXCEPT ![c] = db]
  /\ stale' = stale \ {c}
  /\ UNCHANGED <<db, writer, request, pending>>

\* (For mutation testing: the snapshot is not compared with the database.)
UpgradeUnchecked(c) ==
  /\ state[c] = "reading"
  /\ writer = NoConn
  /\ state' = [state EXCEPT ![c] = "writing"]
  /\ writer' = c
  /\ pending' \in {[pending EXCEPT ![c] = s] : s \in Effects(request[c], view[c])}
  /\ UNCHANGED <<db, request, view, stale>>

\* The first INSERT, UPDATE or DELETE after a SELECT.
Upgrade(c) ==
  /\ state[c] = "reading"
  /\ writer = NoConn
  /\ c \notin stale
  /\ state' = [state EXCEPT ![c] = "writing"]
  /\ writer' = c
  /\ pending' \in {[pending EXCEPT ![c] = s] : s \in Effects(request[c], view[c])}
  /\ UNCHANGED <<db, request, view, stale>>

\* (For mutation testing: a write that comes first does not wait.)
WriteFirstUnlocked(c) ==
  /\ state[c] = "begun"
  /\ request[c] \in WritesFirst
  /\ state' = [state EXCEPT ![c] = "writing"]
  /\ writer' = c
  /\ view' = [view EXCEPT ![c] = db]
  /\ pending' \in {[pending EXCEPT ![c] = s] : s \in Effects(request[c], db)}
  /\ UNCHANGED <<db, request, stale>>

\* A write that comes first has waited for the lock, and reads what is then
\* committed.
WriteFirst(c) ==
  /\ state[c] = "begun"
  /\ request[c] \in WritesFirst
  /\ writer = NoConn
  /\ state' = [state EXCEPT ![c] = "writing"]
  /\ writer' = c
  /\ view' = [view EXCEPT ![c] = db]
  /\ stale' = stale \ {c}
  /\ pending' \in {[pending EXCEPT ![c] = s] : s \in Effects(request[c], db)}
  /\ UNCHANGED <<db, request>>

\* The transaction ends and leaves nothing behind.
Release(c) ==
  /\ state' = [state EXCEPT ![c] = "free"]
  /\ writer' = IF writer = c THEN NoConn ELSE writer
  /\ stale' = stale \ {c}
  /\ UNCHANGED <<db, request, view, pending>>

\* SQLITE_BUSY, or SQLITE_BUSY_SNAPSHOT: the write fails and the handler ends.
Busy(c) ==
  /\ \/ state[c] = "reading" /\ (writer # NoConn \/ c \in stale)
     \/ state[c] = "begun" /\ request[c] \in WritesFirst /\ writer # NoConn
  /\ Release(c)

\* The handler answers without having written.
Answer(c) ==
  /\ state[c] = "reading"
  /\ Release(c)

\* (For mutation testing: COMMIT keeps the write lock.)
CommitKeepsLock(c) ==
  /\ state[c] = "writing"
  /\ db' = pending[c]
  /\ state' = [state EXCEPT ![c] = "free"]
  /\ stale' = (stale \cup {k \in Conns : state[k] = "reading"}) \ {c}
  /\ UNCHANGED <<writer, request, view, pending>>

\* (For mutation testing: the readers do not notice a COMMIT.)
CommitUnnoticed(c) ==
  /\ state[c] = "writing"
  /\ db' = pending[c]
  /\ writer' = NoConn
  /\ state' = [state EXCEPT ![c] = "free"]
  /\ stale' = stale \ {c}
  /\ UNCHANGED <<request, view, pending>>

\* COMMIT of a transaction that has written: every snapshot is overtaken.
Commit(c) ==
  /\ state[c] = "writing"
  /\ db' = pending[c]
  /\ writer' = NoConn
  /\ state' = [state EXCEPT ![c] = "free"]
  /\ stale' = (stale \cup {k \in Conns : state[k] = "reading"}) \ {c}
  /\ UNCHANGED <<request, view, pending>>

\* The handler panics or returns an error: the transaction is rolled back, or
\* its connection is closed, which rolls it back.
Panic(c) ==
  /\ state[c] # "free"
  /\ Release(c)

\* The process ends with transactions under way.
Restart ==
  /\ \E c \in Conns : state[c] # "free"
  /\ state' = [c \in Conns |-> "free"]
  /\ writer' = NoConn
  /\ stale' = {}
  /\ UNCHANGED <<db, request, view, pending>>

Serve ==
  \E c \in Conns :
    \/ \E r \in Requests : Begin(c, r)
    \/ Read(c) \/ Upgrade(c) \/ WriteFirst(c) \/ Busy(c) \/ Answer(c) \/ Commit(c)

Next == Serve \/ (\E c \in Conns : Panic(c)) \/ Restart

Spec == Init /\ [][Next]_vars

\* Every transaction that has written goes on to commit unless it fails: no
\* handler waits for anything between its first write and its end.
FairSpec == Spec /\ \A c \in Conns : WF_vars(Commit(c))

-----------------------------------------------------------------------------
\* Every connection is in a known state.
TypeOK ==
  /\ db \in Stores
  /\ writer \in Conns \cup {NoConn}
  /\ state \in [Conns -> States]
  /\ request \in [Conns -> Requests]
  /\ view \in [Conns -> Stores]
  /\ stale \subseteq Conns
  /\ pending \in [Conns -> Stores]

\* Only the owner of the write lock writes.
LockIsHeld == \A c \in Conns : state[c] = "writing" <=> writer = c

\* A snapshot that is not stale is the database: nobody has committed since.
SnapshotsAreCurrent ==
  \A c \in Conns : state[c] = "reading" /\ c \notin stale => view[c] = db

\* What a handler is about to commit is what serving its request in the database
\* of this moment may leave, though it was computed from an older snapshot.
WriteIsOfLatest ==
  \A c \in Conns : state[c] = "writing" => pending[c] \in Effects(request[c], db)

Serial == INSTANCE SerialStore WITH store <- db

\* However the reads, writes, failures and crashes of the handlers interleave,
\* the database changes as if each request were served alone: this is why one
\* action stands for one handler in SparRound.
IsSerial == Serial!Spec

\* A transaction that has written ends (committed, or rolled back).
WriterEnds == \E c \in Conns : state[c] = "writing" /\ state'[c] = "free"

\* Requests that fail as busy do not just fail each other: if some fail for
\* ever, then for ever others get the write lock and end.
BusyMeansProgress ==
  []<><<\E c \in Conns : Busy(c)>>_vars => []<><<WriterEnds>>_vars
==============================================================================
