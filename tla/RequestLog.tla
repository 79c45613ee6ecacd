----------------------------- MODULE RequestLog -----------------------------
(***************************************************************************)
(* What Service.Accept (internal/submission/service.go) promises about     *)
(* request IDs: a key, that is a player and a request ID, has one row for  *)
(* good, and every answer is true of the row at one moment of the call.  A *)
(* call is answered with the row's ID if the row has the call's payload,   *)
(* with a conflict if it has another, and may be rejected for its match    *)
(* only while there is no row: a retry is never told that it is too late.  *)
(***************************************************************************)
CONSTANTS
    Calls,      \* calls of Accept, retries included
    KeyOf,      \* the key of each call
    PayloadOf,  \* match, language and code of each call
    NoCall      \* not a call

VARIABLES
    row,        \* for each key the payload and the ID of its row
    out         \* the answer to each call

vars == <<row, out>>

Keys == {KeyOf[c] : c \in Calls}
NoRow == [payload |-> NoCall, id |-> NoCall]
Unanswered == [kind |-> "none", id |-> NoCall]

Init ==
    /\ row = [k \in Keys |-> NoRow]
    /\ out = [c \in Calls |-> Unanswered]

Answer(c, kind, id) ==
    /\ out[c] = Unanswered
    /\ out' = [out EXCEPT ![c] = [kind |-> kind, id |-> id]]

\* The call that creates the row gives it its ID.
Record(c) ==
    /\ out[c] = Unanswered
    /\ row[KeyOf[c]] = NoRow
    /\ row' = [row EXCEPT ![KeyOf[c]] = [payload |-> PayloadOf[c], id |-> c]]
    /\ out' = out \/ Answer(c, "error", NoCall)

Accept(c) ==
    /\ row[KeyOf[c]] # NoRow
    /\ row[KeyOf[c]].payload = PayloadOf[c]
    /\ Answer(c, "ok", row[KeyOf[c]].id)
    /\ UNCHANGED row

Conflict(c) ==
    /\ row[KeyOf[c]] # NoRow
    /\ row[KeyOf[c]].payload # PayloadOf[c]
    /\ Answer(c, "conflict", NoCall)
    /\ UNCHANGED row

Reject(c) ==
    /\ row[KeyOf[c]] = NoRow
    /\ Answer(c, "rejected", NoCall)
    /\ UNCHANGED row

\* An error says nothing: the row may be there or not.
Fail(c) ==
    /\ Answer(c, "error", NoCall)
    /\ UNCHANGED row

Next == \E c \in Calls : Record(c) \/ Accept(c) \/ Conflict(c) \/ Reject(c) \/ Fail(c)

Spec == Init /\ [][Next]_vars
=============================================================================
