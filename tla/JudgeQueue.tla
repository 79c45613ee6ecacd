----------------------------- MODULE JudgeQueue -----------------------------
(***************************************************************************)
(* The judge job queue of internal/redisx/judge_queue.go: one Redis Stream *)
(* read through one consumer group.                                        *)
(*                                                                         *)
(*   stream   what was XADDed and not yet delivered to any consumer        *)
(*   pel      the group's pending-entries list: delivered, not yet         *)
(*            acknowledged, in entry-ID order                              *)
(*                                                                         *)
(* A payload is a submission ID, or junk: an entry that does not decode or *)
(* that names no submission.  The consumer an entry was delivered to is    *)
(* left out: neither XACK nor XAUTOCLAIM looks at it.  The server's idle   *)
(* clock is one flag, "idle for at least StreamMinIdle".                   *)
(*                                                                         *)
(* Redis never reuses an entry ID.  Here the place of an entry in the PEL  *)
(* is its ID, which keeps the IDs finite: a client refers to a delivered   *)
(* entry by its place, or by Gone once the entry has been removed, and     *)
(* when an entry leaves the PEL the references to the later ones move.     *)
(***************************************************************************)
EXTENDS Naturals, Sequences, FiniteSets, FiniteSetsExt, SequencesExt

CONSTANTS
    Payloads,   \* what an entry can carry
    BatchSize   \* ReaperConfig.BatchSize, the COUNT of XAUTOCLAIM

ASSUME BatchAssumption == BatchSize \in Nat \ {0}

VARIABLES
    stream,
    pel

queueVars == <<stream, pel>>

QueueTypeOK ==
    /\ stream \in Seq(Payloads)
    /\ pel \in Seq([load : Payloads, idle : BOOLEAN])

\* JudgeJob: what a consumer holds of a delivered entry.
Job == [at : Nat, load : Payloads]

Gone == 0

\* The entries that carry p, delivered or not.
Copies(p) ==
    Cardinality({i \in DOMAIN stream : stream[i] = p})
      + Cardinality({i \in DOMAIN pel : pel[i].load = p})

\* Enqueue: XADD.
Enqueue(p) ==
    /\ stream' = Append(stream, p)
    /\ UNCHANGED pel

\* Read: XREADGROUP with ">" and COUNT 1 delivers the oldest new entry.
Read ==
    /\ stream # << >>
    /\ stream' = Tail(stream)
    /\ pel' = Append(pel, [load |-> Head(stream), idle |-> FALSE])

\* The job Read hands to its caller.
JobRead == [at |-> Len(pel) + 1, load |-> Head(stream)]

\* Fault: the page is one entry short.
ShortPage ==
    LET idle == {i \in DOMAIN pel : pel[i].idle}
    IN  {i \in idle : Cardinality({k \in idle : k < i}) < BatchSize - 1}

\* The page XAUTOCLAIM returns from cursor 0-0: the first idle entries.
IdlePage ==
    LET idle == {i \in DOMAIN pel : pel[i].idle}
    IN  {i \in idle : Cardinality({k \in idle : k < i}) < BatchSize}

\* ReclaimIdle: XAUTOCLAIM takes the page over and restarts its idle clock.
ReclaimIdle ==
    /\ pel' = [i \in DOMAIN pel |->
                 [pel[i] EXCEPT !.idle = IF i \in IdlePage THEN FALSE ELSE @]]
    /\ UNCHANGED stream

JobsReclaimed == {[at |-> i, load |-> pel[i].load] : i \in IdlePage}

(***************************************************************************)
(* Finalize: XACK and XDEL in one script; an entry that is already gone    *)
(* counts as finalized.  The script's error, an entry that is in the       *)
(* stream but was never delivered, cannot occur: a job refers to a         *)
(* delivered entry.                                                        *)
(***************************************************************************)
Finalize(at) ==
    /\ pel' = IF at = Gone THEN pel ELSE RemoveAt(pel, at)
    /\ UNCHANGED stream

\* A reference r after the entry at a place has been finalized.
Moved(r, at) ==
    IF at = Gone \/ r < at THEN r
    ELSE IF r = at THEN Gone
    ELSE r - 1

\* The server's clock: an unacknowledged entry has been idle for MinIdle.
GoesIdle(i) ==
    /\ i \in DOMAIN pel
    /\ ~pel[i].idle
    /\ pel' = [pel EXCEPT ![i].idle = TRUE]
    /\ UNCHANGED stream
=============================================================================
