-------------------------- MODULE SubmissionAccept --------------------------
(***************************************************************************)
(* Service.Accept (internal/submission/service.go), statement by           *)
(* statement: concurrent calls and retries with the same request ID, the   *)
(* advisory lock that serializes them, the row lock of the match, commits  *)
(* whose outcome is unknown, and the match ending meanwhile.               *)
(*                                                                         *)
(* Every call is about one match, or about one that it may not submit to.  *)
(* What follows an accepted submission is SubmissionPipeline's concern.    *)
(***************************************************************************)
CONSTANTS
    Calls,      \* calls of Accept, retries included
    KeyOf,      \* player and request ID of each call
    PayloadOf,  \* match, language and code of each call
    Hash,       \* hashtext of each key; keys may collide
    Foreign,    \* payloads for a match that is not there or not the player's
    NoCall      \* not a call

Keys == {KeyOf[c] : c \in Calls}
Payloads == {PayloadOf[c] : c \in Calls}
Locks == {Hash[k] : k \in Keys}

ASSUME CallsAssumption ==
    /\ NoCall \notin Calls \cup Payloads
    /\ Foreign \subseteq Payloads

VARIABLES
    pc,         \* the statement each call is at
    lock,       \* holder of each advisory lock
    matchLock,  \* holder of the match row
    row,        \* the committed row of each key
    active,     \* the match is active
    due,        \* its deadline has passed
    early,      \* whether the clock that each call read was before the deadline
    out         \* the answer to each call

vars == <<pc, lock, matchLock, row, active, due, early, out>>
lockVars == <<lock, matchLock>>
matchVars == <<active, due>>

-----------------------------------------------------------------------------
NoRow == [payload |-> NoCall, id |-> NoCall]
Rows == [payload : Payloads, id : Calls] \cup {NoRow}
Unanswered == [kind |-> "none", id |-> NoCall]
Answers == [kind : {"ok"}, id : Calls]
             \cup [kind : {"none", "conflict", "rejected", "error"}, id : {NoCall}]

TypeOK ==
    /\ pc \in [Calls -> {"begin", "find", "same", "clock", "match", "insert", "commit",
                         "dispatch", "done"}]
    /\ lock \in [Locks -> Calls \cup {NoCall}]
    /\ matchLock \in Calls \cup {NoCall}
    /\ row \in [Keys -> Rows]
    /\ active \in BOOLEAN /\ due \in BOOLEAN
    /\ early \in [Calls -> BOOLEAN]
    /\ out \in [Calls -> Answers]

Init ==
    /\ pc = [c \in Calls |-> "begin"]
    /\ lock = [l \in Locks |-> NoCall] /\ matchLock = NoCall
    /\ row = [k \in Keys |-> NoRow]
    /\ active = TRUE /\ due = FALSE
    /\ early = [c \in Calls |-> FALSE]
    /\ out = [c \in Calls |-> Unanswered]

LockOf(c) == Hash[KeyOf[c]]
RowOf(c) == row[KeyOf[c]]

Goto(c, from, to) == pc[c] = from /\ pc' = [pc EXCEPT ![c] = to]

\* Fault: the advisory lock belongs to the session, not to the transaction.
ReleaseMatchOnly(c) ==
    /\ UNCHANGED lock
    /\ matchLock' = IF matchLock = c THEN NoCall ELSE matchLock

\* The end of a transaction, by commit or rollback.
Release(c) ==
    /\ lock' = [l \in Locks |-> IF lock[l] = c THEN NoCall ELSE lock[l]]
    /\ matchLock' = IF matchLock = c THEN NoCall ELSE matchLock

Return(c, kind, id) ==
    /\ pc' = [pc EXCEPT ![c] = "done"]
    /\ out' = [out EXCEPT ![c] = [kind |-> kind, id |-> id]]

-----------------------------------------------------------------------------
(***************************************************************************)
(* Accept.                                                                 *)
(***************************************************************************)

\* Fault: the lock is not waited for.
LockUnwaited(c) ==
    /\ Goto(c, "begin", "find")
    /\ lock' = [lock EXCEPT ![LockOf(c)] = c]
    /\ UNCHANGED <<matchLock, row, matchVars, early, out>>

\* pg_advisory_xact_lock.
Lock(c) ==
    /\ Goto(c, "begin", "find")
    /\ lock[LockOf(c)] = NoCall
    /\ lock' = [lock EXCEPT ![LockOf(c)] = c]
    /\ UNCHANGED <<matchLock, row, matchVars, early, out>>

\* findRequest finds nothing, or the call's own payload.
Find(c) ==
    /\ \/ RowOf(c) = NoRow /\ Goto(c, "find", "clock")
       \/ RowOf(c).payload = PayloadOf[c] /\ Goto(c, "find", "same")
    /\ UNCHANGED <<lockVars, row, matchVars, early, out>>

\* Fault: the stored payload is not compared.
FindConflictNever(c) ==
    /\ RowOf(c) # NoRow /\ RowOf(c).payload # PayloadOf[c]
    /\ Goto(c, "find", "same")
    /\ UNCHANGED <<lockVars, row, matchVars, early, out>>

\* ErrIdempotencyConflict.
FindConflict(c) ==
    /\ pc[c] = "find"
    /\ RowOf(c) # NoRow /\ RowOf(c).payload # PayloadOf[c]
    /\ Return(c, "conflict", NoCall)
    /\ Release(c)
    /\ UNCHANGED <<row, matchVars, early>>

CommitSame(c) ==
    /\ pc[c] = "same"
    /\ Return(c, "ok", RowOf(c).id)
    /\ Release(c)
    /\ UNCHANGED <<row, matchVars, early>>

\* SELECT ... FOR UPDATE may evaluate clock_timestamp() before it has the row.
ReadClock(c) ==
    /\ Goto(c, "clock", "match")
    /\ early' = [early EXCEPT ![c] = ~due]
    /\ UNCHANGED <<lockVars, row, matchVars, out>>

Admissible(c) == PayloadOf[c] \notin Foreign /\ active /\ early[c]

LockMatch(c) ==
    /\ Goto(c, "match", "insert")
    /\ matchLock = NoCall
    /\ Admissible(c)
    /\ matchLock' = c
    /\ UNCHANGED <<lock, row, matchVars, early, out>>

\* ErrMatchNotFound, ErrNotMatchPlayer, ErrMatchNotActive, ErrDeadlinePassed.
Reject(c) ==
    /\ pc[c] = "match"
    /\ matchLock = NoCall
    /\ ~Admissible(c)
    /\ Return(c, "rejected", NoCall)
    /\ Release(c)
    /\ UNCHANGED <<row, matchVars, early>>

\* INSERT waits for another transaction that has inserted the same key, and
\* fails on the unique key when there is a row.
Insert(c) ==
    /\ \A d \in Calls \ {c} : pc[d] = "commit" => KeyOf[d] # KeyOf[c]
    /\ RowOf(c) = NoRow
    /\ Goto(c, "insert", "commit")
    /\ UNCHANGED <<lockVars, row, matchVars, early, out>>

Store(c) == row' = [row EXCEPT ![KeyOf[c]] = [payload |-> PayloadOf[c], id |-> c]]

Commit(c) ==
    /\ Goto(c, "commit", "dispatch")
    /\ Store(c)
    /\ Release(c)
    /\ UNCHANGED <<matchVars, early, out>>

\* The commit is reported as failed; it may have taken effect.
CommitFails(c) ==
    /\ pc[c] = "commit"
    /\ Store(c) \/ UNCHANGED row
    /\ Return(c, "error", NoCall)
    /\ Release(c)
    /\ UNCHANGED <<matchVars, early>>

\* Dispatch is attempted; its error is ignored.
Dispatch(c) ==
    /\ pc[c] = "dispatch"
    /\ Return(c, "ok", c)
    /\ UNCHANGED <<lockVars, row, matchVars, early>>

\* A statement fails, the unique key included, or the gateway goes away: the
\* transaction is rolled back and the client has no answer.
Fail(c) ==
    /\ pc[c] \in {"begin", "find", "same", "clock", "match", "insert"}
    /\ Return(c, "error", NoCall)
    /\ Release(c)
    /\ UNCHANGED <<row, matchVars, early>>

-----------------------------------------------------------------------------
\* A judge or the reaper ends the match, under the lock of its row.
EndMatch ==
    /\ active /\ matchLock = NoCall
    /\ active' = FALSE
    /\ UNCHANGED <<pc, lockVars, row, due, early, out>>

DeadlinePasses ==
    /\ ~due
    /\ due' = TRUE
    /\ UNCHANGED <<pc, lockVars, row, active, early, out>>

CallStep(c) ==
    \/ Lock(c) \/ Find(c) \/ FindConflict(c) \/ CommitSame(c)
    \/ ReadClock(c) \/ LockMatch(c) \/ Reject(c)
    \/ Insert(c) \/ Commit(c) \/ CommitFails(c) \/ Dispatch(c)

Next ==
    \/ \E c \in Calls : CallStep(c) \/ Fail(c)
    \/ EndMatch \/ DeadlinePasses

Spec == Init /\ [][Next]_vars

\* PostgreSQL answers and grants free locks.
FairSpec == Spec /\ \A c \in Calls : WF_vars(CallStep(c))

-----------------------------------------------------------------------------
(***************************************************************************)
(* Properties.                                                             *)
(***************************************************************************)

(***************************************************************************)
(* Concurrent retries resolve to the same row, as the comment on the       *)
(* advisory lock says: a call that has found no row has none all the way   *)
(* to its commit, and never runs into the unique key.                      *)
(***************************************************************************)
RetriesResolve ==
    \A c \in Calls :
        pc[c] \in {"clock", "match", "insert", "commit"} => RowOf(c) = NoRow

(***************************************************************************)
(* Accept implements the log of requests: one row per key for good, and    *)
(* answers that are true of it, although the log is read and written in    *)
(* several statements and commits may be ambiguous.                        *)
(***************************************************************************)
Log == INSTANCE RequestLog
ImplementsLog == Log!Spec

\* Every call is answered: nobody waits for ever for one of the two locks.
CallsAnswered == \A c \in Calls : <>(pc[c] = "done")
=============================================================================
