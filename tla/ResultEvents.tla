---------------------------- MODULE ResultEvents ----------------------------
(***************************************************************************)
(* The result events of internal/judge/result.go and                       *)
(* internal/reaper/events.go: SubmissionPipeline with a history of what    *)
(* has been published to the players about each submission.                *)
(***************************************************************************)
EXTENDS SubmissionPipeline

VARIABLE sent   \* the events published for each submission

\* proto.StableEventID hashes the kind, the submission and the recipient.  As
\* every event goes to both players, the kind stands for the event ID.
Event == [kind : {"submission-result", "winner-result", "infrastructure-failed"},
          result : Result,
          winner : Players \cup {NoPlayer}]

\* buildResultEvents: the kind depends on whether the match has a winner.
ResultEvent(w) ==
    [kind |-> IF wk[w].winner = NoPlayer THEN "submission-result" ELSE "winner-result",
     result |-> wk[w].result,
     winner |-> wk[w].winner]

\* buildFailedResultEvents: no winner, whatever the match has.
FailedEvent ==
    [kind |-> "infrastructure-failed",
     result |-> [verdict |-> "failed", tests |-> 0],
     winner |-> NoPlayer]

PublishEvent(w) ==
    /\ Publish(w)
    /\ sent' = [sent EXCEPT ![wk[w].job.load] = @ \cup {ResultEvent(w)}]

AnnounceEvents ==
    /\ AnnouncePoisoned
    /\ sent' = [s \in Submissions |->
                  IF s \in rp.poisoned THEN sent[s] \cup {FailedEvent} ELSE sent[s]]

\* Every other step of the pipeline.
SilentStep ==
    /\ Next
    /\ \A w \in Workers : ~Publish(w)
    /\ ~AnnouncePoisoned
    /\ UNCHANGED sent

EventsInit == Init /\ sent = [s \in Submissions |-> {}]

EventsNext == (\E w \in Workers : PublishEvent(w)) \/ AnnounceEvents \/ SilentStep

EventsSpec == EventsInit /\ [][EventsNext]_<<vars, sent>>

(***************************************************************************)
(* Repeated notifications can be recognised by their event_id: two events  *)
(* that tell a player the same about the same submission have the same ID. *)
(***************************************************************************)
RepeatsShareEventID ==
    \A s \in Submissions : \A d, e \in sent[s] :
        d.result = e.result /\ d.winner = e.winner => d.kind = e.kind
=============================================================================
