----------------------- MODULE SubmissionAcceptProofs -----------------------
(***************************************************************************)
(* Proofs about SubmissionAccept, for every set of calls, keys, payloads   *)
(* and every hash function.                                                *)
(***************************************************************************)
EXTENDS SubmissionAccept, TLAPS

Held == {"find", "same", "clock", "match", "insert", "commit"}

(***************************************************************************)
(* A call between its lock and the end of its transaction holds the lock   *)
(* of its key; hence two calls with one key are never both there.          *)
(***************************************************************************)
LocksOK == \A c \in Calls : pc[c] \in Held => lock[LockOf(c)] = c

(***************************************************************************)
(* What a call has learnt about its row stays true until its transaction   *)
(* ends: there is none, or there is one with its payload, or it is its own.*)
(***************************************************************************)
RowsOK ==
    \A c \in Calls :
        /\ pc[c] = "same" => RowOf(c) # NoRow /\ RowOf(c).payload = PayloadOf[c]
        /\ pc[c] = "dispatch" => RowOf(c) = [payload |-> PayloadOf[c], id |-> c]
        /\ out[c] = Unanswered <=> pc[c] # "done"

IInv == TypeOK /\ LocksOK /\ RetriesResolve /\ RowsOK

LEMMA KeyTypes ==
    ASSUME NEW c \in Calls
    PROVE  KeyOf[c] \in Keys /\ PayloadOf[c] \in Payloads /\ LockOf(c) \in Locks
BY DEF Keys, Payloads, Locks, LockOf

LEMMA Exclusion ==
    ASSUME LocksOK, NEW c \in Calls, NEW d \in Calls, KeyOf[c] = KeyOf[d],
           pc[c] \in Held, pc[d] \in Held
    PROVE  c = d
BY DEF LocksOK, LockOf

LEMMA InitIInv == Init => IInv
<1> SUFFICES ASSUME Init PROVE IInv
  OBVIOUS
<1>1. TypeOK
  BY DEF Init, TypeOK, Rows, NoRow, Answers, Unanswered
<1>2. LocksOK /\ RetriesResolve
  BY DEF Init, LocksOK, RetriesResolve, Held
<1>3. RowsOK
  BY DEF Init, RowsOK
<1>4. QED
  BY <1>1, <1>2, <1>3 DEF IInv

-----------------------------------------------------------------------------
(* Steps that answer nothing and change no row.                            *)

Quiet(c) == Lock(c) \/ Find(c) \/ ReadClock(c) \/ LockMatch(c) \/ Insert(c)

LEMMA QuietIInv ==
    ASSUME IInv, NEW c \in Calls, Quiet(c)
    PROVE  IInv'
<1>1. TypeOK'
  BY KeyTypes DEF IInv, TypeOK, Quiet, Lock, Find, ReadClock, LockMatch, Insert, Goto,
     lockVars, matchVars
<1>2. UNCHANGED <<row, out>>
  BY DEF Quiet, Lock, Find, ReadClock, LockMatch, Insert
<1>3. LocksOK'
  <2>1. CASE Lock(c)
    <3> SUFFICES ASSUME NEW d \in Calls, pc'[d] \in Held
                 PROVE  lock'[LockOf(d)] = d
      BY DEF LocksOK, LockOf
    <3>1. LockOf(c) \in Locks /\ LockOf(d) \in Locks
      BY KeyTypes
    <3>2. CASE d = c
      BY <2>1, <3>1, <3>2 DEF IInv, TypeOK, Lock
    <3>3. CASE d # c
      <4>1. lock[LockOf(d)] = d
        BY <2>1, <3>3 DEF IInv, TypeOK, LocksOK, Lock, Goto
      <4>2. LockOf(d) # LockOf(c)
        BY <2>1, <4>1, CallsAssumption DEF Lock
      <4>3. QED
        BY <2>1, <3>1, <4>1, <4>2 DEF IInv, TypeOK, Lock
    <3>4. QED
      BY <3>2, <3>3
  <2>2. CASE Find(c) \/ ReadClock(c) \/ LockMatch(c) \/ Insert(c)
    BY <2>2 DEF IInv, TypeOK, LocksOK, Find, ReadClock, LockMatch, Insert, Goto, LockOf,
       Held, lockVars
  <2>3. QED
    BY <2>1, <2>2 DEF Quiet
<1>4. RetriesResolve'
  BY <1>2, CallsAssumption, KeyTypes DEF IInv, TypeOK, RetriesResolve, Quiet, Lock, Find,
     ReadClock, LockMatch, Insert, Goto, RowOf
<1>5. RowsOK'
  BY <1>2, CallsAssumption, KeyTypes DEF IInv, TypeOK, RowsOK, Quiet, Lock, Find,
     ReadClock, LockMatch, Insert, Goto, RowOf, NoRow
<1>6. QED
  BY <1>1, <1>3, <1>4, <1>5 DEF IInv

-----------------------------------------------------------------------------
(* Steps that answer a call and leave the rows alone.                      *)

LEMMA ReleaseLocks ==
    ASSUME IInv, NEW c \in Calls, Release(c), NEW d \in Calls, d # c, pc[d] \in Held
    PROVE  lock'[LockOf(d)] = d
BY KeyTypes DEF IInv, LocksOK, Release

LEMMA AnswerIInv ==
    ASSUME IInv, NEW c \in Calls, pc[c] # "done", NEW kind, NEW id,
           [kind |-> kind, id |-> id] \in Answers, kind # "none",
           Return(c, kind, id), UNCHANGED <<row, matchVars, early>>,
           Release(c) \/ (pc[c] = "dispatch" /\ UNCHANGED lockVars)
    PROVE  IInv'
<1>1. TypeOK'
  BY DEF IInv, TypeOK, Return, Release, matchVars, lockVars
<1>2. LocksOK'
  <2> SUFFICES ASSUME NEW d \in Calls, pc'[d] \in Held
               PROVE  lock'[LockOf(d)] = d
    BY DEF LocksOK, LockOf
  <2>1. d # c /\ pc[d] \in Held
    BY DEF IInv, TypeOK, Return, Held
  <2>2. QED
    BY <2>1, ReleaseLocks DEF IInv, LocksOK, lockVars
<1>3. RetriesResolve'
  BY DEF IInv, TypeOK, RetriesResolve, Return, RowOf
<1>4. RowsOK'
  BY DEF IInv, TypeOK, RowsOK, Return, RowOf, Unanswered
<1>5. QED
  BY <1>1, <1>2, <1>3, <1>4 DEF IInv

LEMMA AnsweringIInv ==
    ASSUME IInv, NEW c \in Calls,
           \/ FindConflict(c) \/ CommitSame(c) \/ Reject(c) \/ Dispatch(c) \/ Fail(c)
    PROVE  IInv'
<1>1. CASE FindConflict(c)
  BY <1>1, AnswerIInv DEF FindConflict, Answers
<1>2. CASE CommitSame(c)
  <2>1. RowOf(c).id \in Calls
    <3>1. RowOf(c) \in Rows
      BY KeyTypes DEF IInv, TypeOK, RowOf
    <3>2. RowOf(c) # NoRow
      BY <1>2 DEF IInv, RowsOK, CommitSame
    <3>3. QED
      BY <3>1, <3>2 DEF Rows
  <2>2. QED
    BY <1>2, <2>1, AnswerIInv DEF CommitSame, Answers
<1>3. CASE Reject(c)
  BY <1>3, AnswerIInv DEF Reject, Answers
<1>4. CASE Dispatch(c)
  BY <1>4, AnswerIInv DEF Dispatch, Answers
<1>5. CASE Fail(c)
  BY <1>5, AnswerIInv DEF Fail, Answers
<1>6. QED
  BY <1>1, <1>2, <1>3, <1>4, <1>5

-----------------------------------------------------------------------------
(* The commit.                                                             *)

(***************************************************************************)
(* A row appears only while the call that writes it holds the lock, so no  *)
(* other call with the same key has looked at the row or written it.       *)
(***************************************************************************)
LEMMA CommitIInv ==
    ASSUME IInv, NEW c \in Calls, Commit(c) \/ CommitFails(c)
    PROVE  IInv'
<1>1. pc[c] = "commit" /\ Release(c) /\ UNCHANGED <<matchVars, early>>
  BY DEF Commit, CommitFails, Goto
<1>2. RowOf(c) = NoRow
  BY <1>1 DEF IInv, RetriesResolve
<1>3. \A d \in Calls \ {c} : pc'[d] = pc[d] /\ out'[d] = out[d]
  BY DEF IInv, TypeOK, Commit, CommitFails, Goto, Return
<1>4. \/ pc'[c] = "dispatch" /\ out'[c] = out[c] /\ Store(c)
      \/ pc'[c] = "done" /\ out'[c] = [kind |-> "error", id |-> NoCall]
  BY DEF IInv, TypeOK, Commit, CommitFails, Goto, Return
<1>5. \A d \in Calls : KeyOf[d] # KeyOf[c] => RowOf(d)' = RowOf(d)
  BY KeyTypes DEF IInv, TypeOK, Commit, CommitFails, Store, RowOf
<1>6. TypeOK'
  <2>1. [payload |-> PayloadOf[c], id |-> c] \in Rows
    BY KeyTypes DEF Rows
  <2>2. row' \in [Keys -> Rows]
    BY <2>1 DEF IInv, TypeOK, Commit, CommitFails, Store
  <2>3. QED
    BY <2>2 DEF IInv, TypeOK, Commit, CommitFails, Release, Return, Goto, matchVars,
       Answers
<1>7. LocksOK'
  <2> SUFFICES ASSUME NEW d \in Calls, pc'[d] \in Held
               PROVE  lock'[LockOf(d)] = d
    BY DEF LocksOK, LockOf
  <2>1. d # c
    BY <1>4 DEF Held
  <2>2. QED
    BY <1>1, <1>3, <2>1, ReleaseLocks
<1>8. \A d \in Calls \ {c} : KeyOf[d] = KeyOf[c] => pc[d] \notin Held \cup {"dispatch"}
  <2> SUFFICES ASSUME NEW d \in Calls \ {c}, KeyOf[d] = KeyOf[c]
               PROVE  pc[d] \notin Held \cup {"dispatch"}
    OBVIOUS
  <2>1. pc[d] \notin Held
    BY <1>1, Exclusion DEF IInv, Held
  <2>2. pc[d] # "dispatch"
    <3>1. RowOf(d) = RowOf(c)
      BY DEF RowOf
    <3>2. RowOf(d).id = NoCall
      BY <1>2, <3>1 DEF NoRow
    <3>3. pc[d] = "dispatch" => RowOf(d).id = d
      BY DEF IInv, RowsOK
    <3>4. QED
      BY <3>2, <3>3, CallsAssumption
  <2>3. QED
    BY <2>1, <2>2
<1>9. RetriesResolve'
  <2> SUFFICES ASSUME NEW d \in Calls, pc'[d] \in {"clock", "match", "insert", "commit"}
               PROVE  RowOf(d)' = NoRow
    BY DEF RetriesResolve, NoRow
  <2>1. d # c /\ pc[d] \in {"clock", "match", "insert", "commit"}
    BY <1>3, <1>4
  <2>2. KeyOf[d] # KeyOf[c]
    BY <1>8, <2>1 DEF Held
  <2>3. QED
    BY <1>5, <2>1, <2>2 DEF IInv, RetriesResolve
<1>10. RowsOK'
  <2> SUFFICES ASSUME NEW d \in Calls
               PROVE  /\ pc'[d] = "same" =>
                           RowOf(d)' # NoRow /\ RowOf(d)'.payload = PayloadOf[d]
                      /\ pc'[d] = "dispatch" =>
                           RowOf(d)' = [payload |-> PayloadOf[d], id |-> d]
                      /\ out'[d] = Unanswered <=> pc'[d] # "done"
    BY DEF RowsOK, NoRow, Unanswered
  <2>1. CASE d = c
    <3>1. Store(c) => RowOf(c)' = [payload |-> PayloadOf[c], id |-> c]
      BY KeyTypes DEF IInv, TypeOK, Store, RowOf
    <3>2. out[c] = Unanswered
      BY <1>1 DEF IInv, RowsOK
    <3>3. QED
      BY <1>4, <2>1, <3>1, <3>2 DEF Unanswered
  <2>2. CASE d # c
    <3>1. pc[d] \in {"same", "dispatch"} => RowOf(d)' = RowOf(d)
      BY <1>5, <1>8, <2>2 DEF Held
    <3>2. QED
      BY <1>3, <2>2, <3>1 DEF IInv, RowsOK
  <2>3. QED
    BY <2>1, <2>2
<1>11. QED
  BY <1>6, <1>7, <1>9, <1>10 DEF IInv

LEMMA NextIInv == IInv /\ [Next]_vars => IInv'
<1> SUFFICES ASSUME IInv, [Next]_vars PROVE IInv'
  OBVIOUS
<1>1. CASE EndMatch \/ DeadlinePasses \/ UNCHANGED vars
  <2>1. UNCHANGED <<pc, lock, matchLock, row, early, out>>
    BY <1>1 DEF EndMatch, DeadlinePasses, vars, lockVars
  <2>2. TypeOK'
    BY <1>1, <2>1 DEF IInv, TypeOK, EndMatch, DeadlinePasses, vars
  <2>3. QED
    BY <2>1, <2>2 DEF IInv, LocksOK, RetriesResolve, RowsOK, RowOf, LockOf
<1>2. ASSUME NEW c \in Calls, CallStep(c) \/ Fail(c) PROVE IInv'
  BY <1>2, QuietIInv, AnsweringIInv, CommitIInv DEF CallStep, Quiet
<1>3. QED
  BY <1>1, <1>2 DEF Next

LEMMA Invariance == Spec => []IInv
BY InitIInv, NextIInv, PTL DEF Spec

(***************************************************************************)
(* Concurrent retries of a request resolve to one row and never run into   *)
(* the unique key, whatever keys collide in the advisory lock.             *)
(***************************************************************************)
THEOREM RetriesResolveAlways == Spec => [](TypeOK /\ RetriesResolve)
<1>1. IInv => TypeOK /\ RetriesResolve
  BY DEF IInv
<1>2. QED
  BY <1>1, Invariance, PTL

-----------------------------------------------------------------------------
(* Refinement.                                                             *)

LEMMA LogInit == Init => Log!Init
BY DEF Init, Log!Init, Log!Keys, Keys, Log!NoRow, NoRow, Log!Unanswered, Unanswered

LEMMA LogCall ==
    ASSUME IInv, NEW c \in Calls, CallStep(c) \/ Fail(c)
    PROVE  Log!Next \/ UNCHANGED <<row, out>>
<1> USE DEF Log!NoRow, NoRow, Log!Unanswered, Unanswered
<1>1. pc[c] # "done" => out[c] = Unanswered
  BY DEF IInv, RowsOK
<1>2. CASE Quiet(c)
  BY <1>2 DEF Quiet, Lock, Find, ReadClock, LockMatch, Insert
<1>3. CASE FindConflict(c)
  <2>1. Log!Conflict(c)
    BY <1>1, <1>3 DEF FindConflict, Return, RowOf, Log!Conflict, Log!Answer
  <2>2. QED
    BY <2>1 DEF Log!Next
<1>4. CASE CommitSame(c)
  <2>1. Log!Accept(c)
    BY <1>1, <1>4 DEF IInv, RowsOK, CommitSame, Return, RowOf, Log!Accept, Log!Answer
  <2>2. QED
    BY <2>1 DEF Log!Next
<1>5. CASE Reject(c)
  <2>1. Log!Reject(c)
    BY <1>1, <1>5 DEF IInv, RetriesResolve, Reject, Return, RowOf, Log!Reject, Log!Answer
  <2>2. QED
    BY <2>1 DEF Log!Next
<1>6. CASE Commit(c) \/ CommitFails(c)
  <2>1. RowOf(c) = NoRow /\ out[c] = Unanswered
    BY <1>1, <1>6 DEF IInv, RetriesResolve, Commit, CommitFails, Goto
  <2>2. Log!Record(c) \/ Log!Fail(c)
    BY <2>1, <1>6 DEF Commit, CommitFails, Store, Return, RowOf, Log!Record, Log!Fail,
       Log!Answer
  <2>3. QED
    BY <2>2 DEF Log!Next
<1>7. CASE Dispatch(c)
  <2>1. RowOf(c) = [payload |-> PayloadOf[c], id |-> c]
    BY <1>7 DEF IInv, RowsOK, Dispatch
  <2>2. RowOf(c) # NoRow /\ RowOf(c).payload = PayloadOf[c] /\ RowOf(c).id = c
    BY <2>1, CallsAssumption
  <2>3. Log!Accept(c)
    BY <1>1, <1>7, <2>2 DEF Dispatch, Return, RowOf, Log!Accept, Log!Answer
  <2>4. QED
    BY <2>3 DEF Log!Next
<1>8. CASE Fail(c)
  <2>1. Log!Fail(c)
    BY <1>1, <1>8 DEF Fail, Return, Log!Fail, Log!Answer
  <2>2. QED
    BY <2>1 DEF Log!Next
<1>9. QED
  BY <1>2, <1>3, <1>4, <1>5, <1>6, <1>7, <1>8 DEF CallStep, Quiet

LEMMA LogNext == IInv /\ [Next]_vars => [Log!Next]_(Log!vars)
<1> SUFFICES ASSUME IInv, [Next]_vars PROVE [Log!Next]_(Log!vars)
  OBVIOUS
<1>1. CASE EndMatch \/ DeadlinePasses \/ UNCHANGED vars
  BY <1>1 DEF EndMatch, DeadlinePasses, vars, Log!vars
<1>2. ASSUME NEW c \in Calls, CallStep(c) \/ Fail(c) PROVE [Log!Next]_(Log!vars)
  BY <1>2, LogCall DEF Log!vars
<1>3. QED
  BY <1>1, <1>2 DEF Next

(***************************************************************************)
(* Service.Accept implements the log of requests: one row for good per     *)
(* player and request ID, and every answer true of it.                     *)
(***************************************************************************)
THEOREM AcceptImplementsLog == Spec => ImplementsLog
BY Invariance, LogInit, LogNext, PTL DEF Spec, ImplementsLog, Log!Spec
=============================================================================
