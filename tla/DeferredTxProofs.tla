--------------------------- MODULE DeferredTxProofs ---------------------------
(****************************************************************************)
(* Deferred transactions implement a serial store, for every pool, every    *)
(* set of requests and every effect they may have.                          *)
(****************************************************************************)
EXTENDS DeferredTx, TLAPS

\* The inductive invariant.  WriteIsOfLatest is not inductive by itself: it is
\* SnapshotsAreCurrent that makes it true when the lock is taken, and LockIsHeld
\* that keeps it true, because nobody else can commit meanwhile.
TxInv == TypeOK /\ LockIsHeld /\ SnapshotsAreCurrent /\ WriteIsOfLatest

LEMMA TxInit == Init => TxInv
BY DeferredTxAssumption
   DEF Init, TxInv, TypeOK, LockIsHeld, SnapshotsAreCurrent, WriteIsOfLatest, States

\* Ending a transaction without a commit preserves the invariant.
LEMMA ReleaseKeepsInv ==
  ASSUME TxInv, NEW c \in Conns, Release(c)
  PROVE  TxInv'
BY DeferredTxAssumption
   DEF Release, TxInv, TypeOK, LockIsHeld, SnapshotsAreCurrent, WriteIsOfLatest, States

LEMMA TxStep == TxInv /\ [Next]_vars => TxInv'
<1> USE DeferredTxAssumption
        DEF TxInv, TypeOK, LockIsHeld, SnapshotsAreCurrent, WriteIsOfLatest, States
<1> SUFFICES ASSUME TxInv, [Next]_vars
             PROVE  TxInv'
  OBVIOUS
<1>1. ASSUME NEW c \in Conns, NEW r \in Requests, Begin(c, r)
      PROVE  TxInv'
  BY <1>1 DEF Begin
<1>2. ASSUME NEW c \in Conns, Read(c)
      PROVE  TxInv'
  BY <1>2 DEF Read
<1>3. ASSUME NEW c \in Conns, Upgrade(c)
      PROVE  TxInv'
  <2>1. PICK s \in Effects(request[c], view[c]) : pending' = [pending EXCEPT ![c] = s]
    BY <1>3 DEF Upgrade
  <2>2. view[c] = db /\ s \in Stores
    BY <1>3, <2>1 DEF Upgrade
  <2> QED
    BY <1>3, <2>1, <2>2 DEF Upgrade
<1>4. ASSUME NEW c \in Conns, WriteFirst(c)
      PROVE  TxInv'
  <2>1. PICK s \in Effects(request[c], db) : pending' = [pending EXCEPT ![c] = s]
    BY <1>4 DEF WriteFirst
  <2>2. s \in Stores
    BY <2>1
  <2> QED
    BY <1>4, <2>1, <2>2 DEF WriteFirst
<1>5. ASSUME NEW c \in Conns, Busy(c) \/ Answer(c) \/ Panic(c)
      PROVE  TxInv'
  BY <1>5, ReleaseKeepsInv DEF Busy, Answer, Panic
<1>6. ASSUME NEW c \in Conns, Commit(c)
      PROVE  TxInv'
  <2>1. \A k \in Conns : state'[k] # "writing"
    BY <1>6 DEF Commit
  <2> QED
    BY <1>6, <2>1 DEF Commit
<1>7. CASE Restart
  BY <1>7 DEF Restart
<1>8. CASE UNCHANGED vars
  BY <1>8 DEF vars
<1> QED
  BY <1>1, <1>2, <1>3, <1>4, <1>5, <1>6, <1>7, <1>8 DEF Next, Serve

\* What is written and not committed belongs to the owner of the write lock, and
\* so at most one handler is between its first write and its COMMIT.
THEOREM OneWriterAtATime == Spec => []LockIsHeld
<1>1. TxInv => LockIsHeld
  BY DEF TxInv
<1> QED
  BY TxInit, TxStep, <1>1, PTL DEF Spec

\* What a handler is about to commit is an effect of its request on the database
\* of that moment, although it may have read long before it writes.
THEOREM WritesAreOfTheLatest == Spec => []WriteIsOfLatest
<1>1. TxInv => WriteIsOfLatest
  BY DEF TxInv
<1> QED
  BY TxInit, TxStep, <1>1, PTL DEF Spec

\* A handler's whole transaction is one step of the serial store, or leaves it
\* alone.
THEOREM SerialRefinement == Spec => IsSerial
<1>1. Init => Serial!Init
  BY DEF Init, Serial!Init
<1>2. TxInv /\ [Next]_vars => [Serial!Next]_db
  <2> SUFFICES ASSUME TxInv, [Next]_vars
               PROVE  Serial!Next \/ db' = db
    OBVIOUS
  <2>1. ASSUME NEW c \in Conns, Commit(c)
        PROVE  Serial!Next
    <3>1. request[c] \in Requests /\ db' \in Effects(request[c], db)
      BY <2>1 DEF Commit, TxInv, TypeOK, WriteIsOfLatest
    <3> QED
      BY <3>1 DEF Serial!Next
  <2>2. ASSUME NEW c \in Conns, Busy(c) \/ Answer(c) \/ Panic(c)
        PROVE  db' = db
    BY <2>2 DEF Busy, Answer, Panic, Release
  <2>3. ASSUME NEW c \in Conns,
               Read(c) \/ Upgrade(c) \/ WriteFirst(c) \/ \E r \in Requests : Begin(c, r)
        PROVE  db' = db
    BY <2>3 DEF Read, Upgrade, WriteFirst, Begin
  <2>4. CASE Restart \/ UNCHANGED vars
    BY <2>4 DEF Restart, vars
  <2> QED
    BY <2>1, <2>2, <2>3, <2>4 DEF Next, Serve
<1> QED
  BY TxInit, TxStep, <1>1, <1>2, PTL DEF Spec, IsSerial, Serial!Spec
==============================================================================
