------------------------- MODULE GatewayConnections -------------------------
(***************************************************************************)
(* The WebSocket connections of one gateway process: their set-up in       *)
(* handleWS, the registry of the one active connection per user, the       *)
(* delivery of responses and of pub/sub events through the send buffer,    *)
(* the three goroutines of a connection (reader, writePump, fanout), its   *)
(* clean-up, and the drain of the process on shutdown (internal/gateway).  *)
(*                                                                         *)
(* close() runs in two steps, the channel and then the socket, and whoever *)
(* calls it, first or not, goes on only after both (closeOnce).            *)
(*                                                                         *)
(* deliveryMu is held by the reader from handleInbound to the end of the   *)
(* Send of the answer, that is while its handler is at "respond" or        *)
(* "drop"; fanout holds it within a step of its own, or as long as it is   *)
(* in close().  registered is the WaitGroup: Add(1) and Done() go with the *)
(* flag of that name.  A message the writer is about to write is still in  *)
(* the buffer here.                                                        *)
(***************************************************************************)
EXTENDS Naturals, Sequences

CONSTANTS
    Users,
    Conns,       \* connections, numbered in the order they are accepted
    NoConn,
    Owner,       \* the user of a connection
    Requests,    \* messages from clients, each sent once
    NoRequest,
    SendBuf,     \* sendBufSize
    MaxEvents,   \* bound: events published in a behaviour
    MaxFaults,   \* bound: failures of calls and expired tokens in a behaviour
    Crowd        \* bound: connections accepted in a behaviour with traffic

ASSUME GatewayAssumption ==
    /\ Owner \in [Conns -> Users]
    /\ Conns \subseteq Nat
    /\ NoConn \notin Conns
    /\ NoRequest \notin Requests
    /\ SendBuf \in Nat \ {0}
    /\ MaxEvents \in Nat
    /\ MaxFaults \in Nat
    /\ Crowd \in Nat

VARIABLES
    srv,         \* Run: its progress from serving to the end of the drain
    regClosed,   \* Registry.closed
    reg,         \* Registry.conns
    registered,  \* connections counted by the WaitGroup
    toClose,     \* CloseAll: connections of its copy still to be closed
    target,      \* CloseAll: the one it is closing
    h,           \* the handler goroutine of each connection
    prev,        \* Add: the connection that a new one replaces
    closed,      \* connections whose closed channel is closed
    shut,        \* connections whose socket is closed
    writer,      \* writePump of each connection; fanout starts with it
    presence,    \* presence keys in Redis; "stray": left to its TTL
    subs,        \* connections subscribed to the channel of their user
    inbox,       \* events that Redis has sent to a connection's subscription
    jammed,      \* connections closed by fanout, whose event found no room
    buf,         \* the send channel
    wire,        \* messages written to the socket
    asked,       \* the connection on which each request was read
    current,     \* the request in each reader's hands
    effective,   \* requests whose handling has taken effect
    told,        \* events that reached a subscription so far
    events,      \* number of events published
    faults

server == <<srv, regClosed, toClose, target>>
registry == <<reg, registered, prev>>
sockets == <<closed, shut, writer>>
redis == <<presence, subs, faults>>
pub == <<inbox, jammed, told, events>>
out == <<buf, wire>>
requests == <<asked, current, effective>>
vars == <<h, server, registry, sockets, redis, pub, out, requests>>

-----------------------------------------------------------------------------
Ready == [kind |-> "ready", of |-> NoRequest, n |-> 0]
Response(r) == [kind |-> "response", of |-> r, n |-> 0]
Event(r, n) == [kind |-> "event", of |-> r, n |-> n]
Message == [kind : {"ready", "response", "event"},
            of : Requests \cup {NoRequest}, n : 0 .. MaxEvents]
Queues == [Conns -> Seq(Message)]

IsEvent(m) == m.kind = "event"

SetUp == {"accepted", "subscribe", "register"}
Reading == {"serve", "received", "respond", "drop"}
Served == {"evict", "ready"} \cup Reading
Ending == {"remove", "unsubscribe", "forget", "close", "finish"}

TypeOK ==
    /\ srv \in {"serving", "stopping", "closing", "drained", "timedout", "failed"}
    /\ regClosed \in BOOLEAN
    /\ reg \in [Users -> Conns \cup {NoConn}]
    /\ registered \in SUBSET Conns
    /\ toClose \in SUBSET Conns
    /\ target \in Conns \cup {NoConn}
    /\ h \in [Conns -> {"none", "unset", "gone"} \cup SetUp \cup Served \cup Ending]
    /\ prev \in [Conns -> Conns \cup {NoConn}]
    /\ closed \in SUBSET Conns
    /\ shut \in SUBSET closed
    /\ writer \in [Conns -> {"off", "on", "expired", "closing", "ended"}]
    /\ presence \in [Conns -> {"none", "set", "stray"}]
    /\ subs \in SUBSET Conns
    /\ inbox \in Queues
    /\ jammed \in SUBSET Conns
    /\ buf \in Queues
    /\ wire \in Queues
    /\ told \in Queues
    /\ asked \in [Requests -> Conns \cup {NoConn}]
    /\ current \in [Conns -> Requests \cup {NoRequest}]
    /\ effective \in SUBSET Requests
    /\ events \in 0 .. MaxEvents
    /\ faults \in 0 .. MaxFaults

Init ==
    /\ srv = "serving"
    /\ regClosed = FALSE
    /\ reg = [u \in Users |-> NoConn]
    /\ registered = {}
    /\ toClose = {}
    /\ target = NoConn
    /\ h = [c \in Conns |-> "none"]
    /\ prev = [c \in Conns |-> NoConn]
    /\ closed = {}
    /\ shut = {}
    /\ writer = [c \in Conns |-> "off"]
    /\ presence = [c \in Conns |-> "none"]
    /\ subs = {}
    /\ inbox = [c \in Conns |-> <<>>]
    /\ jammed = {}
    /\ buf = [c \in Conns |-> <<>>]
    /\ wire = [c \in Conns |-> <<>>]
    /\ told = [c \in Conns |-> <<>>]
    /\ asked = [r \in Requests |-> NoConn]
    /\ current = [c \in Conns |-> NoRequest]
    /\ effective = {}
    /\ events = 0
    /\ faults = 0

Fault == faults < MaxFaults /\ faults' = faults + 1

\* The bound Crowd: traffic only as long as few connections have been accepted.
NoTraffic == events = 0 /\ \A r \in Requests : asked[r] = NoConn
NoCrowd == \A c \in Conns : c > Crowd => h[c] = "none"

Goes(c, from, to) == h[c] = from /\ h' = [h EXCEPT ![c] = to]

-----------------------------------------------------------------------------
(***************************************************************************)
(* conn.close().                                                           *)
(***************************************************************************)

\* A goroutine is in close() of c: Add's that replaces it, its reader (a full
\* buffer, or the clean-up), its fanout, its writer, or the loop of CloseAll.
InClose(c) ==
    \/ \E d \in Conns : h[d] = "evict" /\ prev[d] = c
    \/ h[c] \in {"drop", "close"}
    \/ c \in jammed
    \/ writer[c] = "closing"
    \/ target = c

CloseChannel(c) ==
    /\ InClose(c) /\ c \notin closed
    /\ closed' = closed \cup {c}
    /\ UNCHANGED <<server, registry, redis, pub, out, requests, h, shut, writer>>

CloseSocket(c) ==
    /\ c \in closed \ shut
    /\ shut' = shut \cup {c}
    /\ UNCHANGED <<server, registry, redis, pub, out, requests, h, closed, writer>>

\* close() of a connection no other goroutine knows of, after a failed set-up.
ClosedUnseen(c) == closed' = closed \cup {c} /\ shut' = shut \cup {c}

-----------------------------------------------------------------------------
(***************************************************************************)
(* Set-up (handleWS).                                                      *)
(***************************************************************************)

\* The server accepts new requests until Run's context is cancelled.
Accept(c) ==
    /\ srv = "serving"
    /\ \A d \in Conns : d < c => h[d] # "none"
    /\ c <= Crowd \/ NoTraffic
    /\ Goes(c, "none", "accepted")
    /\ UNCHANGED <<server, registry, sockets, redis, pub, out, requests>>

\* AuthenticateWebSocket or Upgrade fails: no connection comes to be.
AcceptFails(c) ==
    /\ Goes(c, "accepted", "gone")
    /\ UNCHANGED <<server, registry, sockets, redis, pub, out, requests>>

SetPresence(c) ==
    /\ Goes(c, "accepted", "subscribe")
    /\ presence' = [presence EXCEPT ![c] = "set"]
    /\ UNCHANGED <<server, registry, sockets, pub, out, requests, subs, faults>>

\* SET fails, perhaps after taking effect; the key is left to its TTL.
SetPresenceFails(c) ==
    /\ Fault
    /\ Goes(c, "accepted", "gone")
    /\ ClosedUnseen(c)
    /\ presence' = [presence EXCEPT ![c] = "stray"] \/ UNCHANGED presence
    /\ UNCHANGED <<server, registry, pub, out, requests, writer, subs>>

Subscribe(c) ==
    /\ Goes(c, "subscribe", "register")
    /\ subs' = subs \cup {c}
    /\ UNCHANGED <<server, registry, sockets, pub, out, requests, presence,
                   faults>>

SubscribeFails(c) ==
    /\ Fault
    /\ Goes(c, "subscribe", "unset")
    /\ ClosedUnseen(c)
    /\ UNCHANGED <<server, registry, pub, out, requests, writer, presence,
                   subs>>

\* Registry.Add while the registry is open; the replaced connection is closed
\* when the registry's lock has been released, while h is "evict".
AddAccepted(c) ==
    /\ ~regClosed
    /\ registered' = registered \cup {c}
    /\ reg' = [reg EXCEPT ![Owner[c]] = c]
    /\ prev' = [prev EXCEPT ![c] = reg[Owner[c]]]
    /\ Goes(c, "register", IF reg[Owner[c]] = NoConn THEN "ready" ELSE "evict")
    /\ UNCHANGED <<closed, shut>>

\* Registry.Add after CloseAll: closeSetupFailure, and handleWS cleans up.
AddRefused(c) ==
    /\ regClosed
    /\ ClosedUnseen(c)
    /\ Goes(c, "register", "remove")
    /\ UNCHANGED <<registered, reg, prev>>

\* Fault: Add does not test closed.
AddIgnoresClosed(c) ==
    /\ registered' = registered \cup {c}
    /\ reg' = [reg EXCEPT ![Owner[c]] = c]
    /\ prev' = [prev EXCEPT ![c] = reg[Owner[c]]]
    /\ Goes(c, "register", IF reg[Owner[c]] = NoConn THEN "ready" ELSE "evict")
    /\ UNCHANGED <<server, sockets, redis, pub, out, requests>>

Add(c) ==
    /\ AddAccepted(c) \/ AddRefused(c)
    /\ UNCHANGED <<server, redis, pub, out, requests, writer>>

\* Fault: Add forgets the connection it replaces.
EvictForgotten(c) ==
    /\ Goes(c, "evict", "ready")
    /\ UNCHANGED <<server, registry, sockets, redis, pub, out, requests>>

\* The end of Add: prev.close() has returned.
Evict(c) ==
    /\ prev[c] \in shut
    /\ Goes(c, "evict", "ready")
    /\ UNCHANGED <<server, registry, sockets, redis, pub, out, requests>>

-----------------------------------------------------------------------------
(***************************************************************************)
(* Delivery.                                                               *)
(***************************************************************************)

\* Fault: a full buffer loses the message and nothing else happens.
SendDrops(c, m) ==
    \/ Len(buf[c]) < SendBuf /\ buf' = [buf EXCEPT ![c] = Append(@, m)]
    \/ (Len(buf[c]) >= SendBuf \/ c \in closed) /\ UNCHANGED buf

\* conn.Send: the select takes either case that is ready ...
Send(c, m) ==
    \/ Len(buf[c]) < SendBuf /\ buf' = [buf EXCEPT ![c] = Append(@, m)]
    \/ c \in closed /\ UNCHANGED buf

\* ... or its default, which calls close().
Overflows(c) == Len(buf[c]) >= SendBuf /\ c \notin closed

\* handleWS sends "ready", then starts fanout and, in serve, writePump.
SendReady(c) ==
    /\ Goes(c, "ready", "serve")
    /\ Send(c, Ready)
    /\ writer' = [writer EXCEPT ![c] = "on"]
    /\ UNCHANGED <<server, registry, redis, pub, requests, wire, closed, shut>>

ReadMessage(c) ==
    /\ NoCrowd
    /\ c \notin shut
    /\ Goes(c, "serve", "received")
    /\ \E r \in Requests :
         /\ asked[r] = NoConn
         /\ asked' = [asked EXCEPT ![r] = c]
         /\ current' = [current EXCEPT ![c] = r]
    /\ UNCHANGED <<server, registry, sockets, redis, pub, out, effective>>

\* handleAndSend locks deliveryMu and calls handleInbound, whose effect others
\* can see from now on.
HandleInbound(c) ==
    /\ c \notin jammed
    /\ Goes(c, "received", "respond")
    /\ effective' = effective \cup {current[c]}
    /\ UNCHANGED <<server, registry, sockets, redis, pub, out, asked, current>>

\* The call has returned, with a result or an error: the answer is sent and
\* deliveryMu released.
Respond(c) ==
    /\ Goes(c, "respond", "serve")
    /\ Send(c, Response(current[c]))
    /\ current' = [current EXCEPT ![c] = NoRequest]
    /\ UNCHANGED <<server, registry, sockets, redis, pub, wire, asked, effective>>

\* There is no room for the answer: Send calls close(), under deliveryMu.
AnswerJams(c) ==
    /\ Overflows(c)
    /\ Goes(c, "respond", "drop")
    /\ UNCHANGED <<server, registry, sockets, redis, pub, out, requests>>

AnswerLost(c) ==
    /\ c \in shut
    /\ Goes(c, "drop", "serve")
    /\ current' = [current EXCEPT ![c] = NoRequest]
    /\ UNCHANGED <<server, registry, sockets, redis, pub, out, asked, effective>>

\* Another role publishes an event to a user's channel, as a consequence of a
\* request that took effect or of something else.  Pub/Sub promises nothing: a
\* subscription that is reconnecting, or whose Go channel stays full, misses it.
Publish(u) ==
    /\ NoCrowd
    /\ events < MaxEvents
    /\ events' = events + 1
    /\ \E r \in effective \cup {NoRequest},
          reached \in SUBSET {c \in subs : Owner[c] = u} :
         LET After(q) == [c \in Conns |-> IF c \in reached
                                          THEN Append(q[c], Event(r, events'))
                                          ELSE q[c]]
         IN  inbox' = After(inbox) /\ told' = After(told)
    /\ UNCHANGED <<server, registry, sockets, redis, out, requests, h, jammed>>

\* Fault: fanout sends without the delivery lock.
FanoutUnlocked(c) ==
    /\ writer[c] # "off" /\ c \notin jammed
    /\ inbox[c] # <<>>
    /\ Send(c, Head(inbox[c]))
    /\ inbox' = [inbox EXCEPT ![c] = Tail(@)]
    /\ UNCHANGED <<server, registry, sockets, redis, requests, h, jammed, told,
                   events, wire>>

FanoutReady(c) ==
    /\ writer[c] # "off" /\ c \notin jammed
    /\ inbox[c] # <<>>
    /\ h[c] \notin {"respond", "drop"}

Fanout(c) ==
    /\ FanoutReady(c)
    /\ Send(c, Head(inbox[c]))
    /\ inbox' = [inbox EXCEPT ![c] = Tail(@)]
    /\ UNCHANGED <<server, registry, sockets, redis, requests, h, jammed, told,
                   events, wire>>

\* There is no room for the event: Send calls close(), under deliveryMu.
EventJams(c) ==
    /\ FanoutReady(c)
    /\ Overflows(c)
    /\ jammed' = jammed \cup {c}
    /\ UNCHANGED <<server, registry, sockets, redis, out, requests, h, inbox,
                   told, events>>

EventLost(c) ==
    /\ c \in jammed \cap shut
    /\ jammed' = jammed \ {c}
    /\ inbox' = [inbox EXCEPT ![c] = Tail(@)]
    /\ UNCHANGED <<server, registry, sockets, redis, out, requests, h, told,
                   events>>

-----------------------------------------------------------------------------
(***************************************************************************)
(* writePump: its select takes any case that is ready.                     *)
(***************************************************************************)
Pumps(c) == writer[c] \in {"on", "expired"}

WriterGoes(c, to) ==
    /\ writer' = [writer EXCEPT ![c] = to]
    /\ UNCHANGED <<server, registry, pub, out, requests, h, closed, shut, presence,
                   subs>>

\* A message of the buffer, written; the closed channel may be ready as well.
WriteMessage(c) ==
    /\ Pumps(c)
    /\ c \notin shut
    /\ buf[c] # <<>>
    /\ wire' = [wire EXCEPT ![c] = Append(@, Head(buf[c]))]
    /\ buf' = [buf EXCEPT ![c] = Tail(@)]
    /\ UNCHANGED <<server, registry, sockets, redis, pub, requests, h>>

\* A message or a ping cannot be written.
WriteFails(c) == Fault /\ Pumps(c) /\ WriterGoes(c, "closing")

\* The timer of the token fires ...
TokenExpires(c) == Fault /\ writer[c] = "on" /\ WriterGoes(c, "expired")

\* Fault: ... and writePump returns without close().
ExpiryForgotten(c) ==
    /\ writer[c] = "expired"
    /\ WriterGoes(c, "ended")
    /\ UNCHANGED faults

\* ... and writePump's select takes its case.
ExpiryCloses(c) ==
    /\ writer[c] = "expired"
    /\ WriterGoes(c, "closing")
    /\ UNCHANGED faults

WriterClosed(c) ==
    /\ writer[c] = "closing" /\ c \in shut
    /\ WriterGoes(c, "ended")
    /\ UNCHANGED faults

\* The connection is found closed.
WritePumpEnds(c) ==
    /\ Pumps(c) /\ c \in closed
    /\ WriterGoes(c, "ended")
    /\ UNCHANGED faults

-----------------------------------------------------------------------------
(***************************************************************************)
(* The end of a connection: readPump returns, then cleanup.                *)
(***************************************************************************)

\* The socket is closed: the next read fails.
ReadFails(c) ==
    /\ c \in shut
    /\ Goes(c, "serve", "remove")
    /\ UNCHANGED <<server, registry, sockets, redis, pub, out, requests>>

\* The client hangs up, or sends nothing, not even a pong, for pongWait.
ClientLeaves(c) ==
    /\ c \notin shut
    /\ Goes(c, "serve", "remove")
    /\ UNCHANGED <<server, registry, sockets, redis, pub, out, requests>>

\* Fault: Remove deletes the user's entry whosever it is.
RemoveAny(c) ==
    /\ Goes(c, "remove", "unsubscribe")
    /\ reg' = [reg EXCEPT ![Owner[c]] = NoConn]
    /\ UNCHANGED <<server, sockets, redis, pub, out, requests, registered, prev>>

\* Fault: Done is called first and not last.
RemoveDone(c) ==
    /\ Goes(c, "remove", "unsubscribe")
    /\ reg' = [reg EXCEPT ![Owner[c]] = IF @ = c THEN NoConn ELSE @]
    /\ registered' = registered \ {c}
    /\ UNCHANGED <<server, sockets, redis, pub, out, requests, prev>>

Remove(c) ==
    /\ Goes(c, "remove", "unsubscribe")
    /\ reg' = [reg EXCEPT ![Owner[c]] = IF @ = c THEN NoConn ELSE @]
    /\ UNCHANGED <<server, sockets, redis, pub, out, requests, registered, prev>>

\* onClose: sub.Close().  fanout still gets what its channel holds by then, and
\* has the event it is in close() with.
Unsubscribe(c) ==
    /\ Goes(c, "unsubscribe", "forget")
    /\ subs' = subs \ {c}
    /\ \E k \in 0 .. Len(inbox[c]) :
         /\ c \in jammed => k > 0
         /\ inbox' = [inbox EXCEPT ![c] = SubSeq(@, 1, k)]
    /\ UNCHANGED <<server, registry, sockets, out, requests, presence, jammed,
                   told, events, faults>>

\* deletePresence, from onClose or when the subscription failed.  Its failure is
\* logged and the key is left to its TTL.
DeletePresence(c) ==
    /\ Goes(c, "forget", "close") \/ Goes(c, "unset", "gone")
    /\ \/ presence' = [presence EXCEPT ![c] = "none"] /\ UNCHANGED faults
       \/ Fault /\ presence' = [presence EXCEPT ![c] = "stray"]
    /\ UNCHANGED <<server, registry, sockets, pub, out, requests, subs>>

\* The clean-up's close() has returned.
Close(c) ==
    /\ c \in shut
    /\ Goes(c, "close", "finish")
    /\ UNCHANGED <<server, registry, sockets, redis, pub, out, requests>>

\* The deferred Registry.Done.
Done(c) ==
    /\ Goes(c, "finish", "gone")
    /\ registered' = registered \ {c}
    /\ UNCHANGED <<server, sockets, redis, pub, out, requests, reg, prev>>

-----------------------------------------------------------------------------
(***************************************************************************)
(* Run.                                                                    *)
(***************************************************************************)
ServerGoes(from, to) ==
    /\ srv = from
    /\ srv' = to
    /\ UNCHANGED <<registry, sockets, pub, out, requests, h, presence, subs>>

\* ctx is cancelled.  Shutdown keeps new requests out; it waits for handlers
\* that have not upgraded yet, but only for shutdownTimeout.
Cancel ==
    /\ ServerGoes("serving", "stopping")
    /\ UNCHANGED <<toClose, target, regClosed, faults>>

\* ListenAndServe fails: Run returns at once.
ListenFails ==
    /\ Fault
    /\ ServerGoes("serving", "failed")
    /\ UNCHANGED <<toClose, target, regClosed>>

\* CloseAll, under the registry's lock ...
CloseAll ==
    /\ ServerGoes("stopping", "closing")
    /\ regClosed' = TRUE
    /\ toClose' = {reg[u] : u \in Users} \ {NoConn}
    /\ UNCHANGED <<target, faults>>

\* ... and after it, one connection at a time, each when close() of the one
\* before has returned.
CloseNext ==
    /\ ServerGoes("closing", "closing")
    /\ target \in shut \cup {NoConn}
    /\ target' \in toClose
    /\ toClose' = toClose \ {target'}
    /\ UNCHANGED <<regClosed, faults>>

AllClosed == toClose = {} /\ target \in shut \cup {NoConn}

\* WaitWithTimeout: the WaitGroup is at zero, or connectionDrainTimeout is over.
Drained ==
    /\ AllClosed /\ registered = {}
    /\ ServerGoes("closing", "drained")
    /\ UNCHANGED <<toClose, target, regClosed, faults>>

DrainTimeout ==
    /\ AllClosed /\ registered # {}
    /\ ServerGoes("closing", "timedout")
    /\ UNCHANGED <<toClose, target, regClosed, faults>>

-----------------------------------------------------------------------------
\* What the process itself does next, on one connection.
HandlerStep(c) ==
    \/ SetPresence(c) \/ Subscribe(c) \/ Add(c) \/ Evict(c) \/ SendReady(c)
    \/ HandleInbound(c) \/ Respond(c) \/ AnswerJams(c) \/ AnswerLost(c)
    \/ ReadFails(c)
    \/ Remove(c) \/ Unsubscribe(c) \/ DeletePresence(c) \/ Close(c) \/ Done(c)

WriterStep(c) == WriteMessage(c) \/ WriterClosed(c) \/ WritePumpEnds(c)

FanoutStep(c) == Fanout(c) \/ EventJams(c) \/ EventLost(c)

CloseStep(c) == CloseChannel(c) \/ CloseSocket(c)

ServerStep == CloseAll \/ CloseNext \/ Drained

\* What clients, clocks, other roles and failures do.
EnvironmentStep ==
    \/ Cancel \/ ListenFails \/ DrainTimeout
    \/ \E c \in Conns :
         \/ Accept(c) \/ AcceptFails(c) \/ SetPresenceFails(c) \/ SubscribeFails(c)
         \/ ReadMessage(c) \/ ClientLeaves(c) \/ WriteFails(c) \/ TokenExpires(c)
    \/ \E u \in Users : Publish(u)

Next ==
    \/ ServerStep
    \/ EnvironmentStep
    \/ \E c \in Conns : \/ HandlerStep(c) \/ WriterStep(c) \/ ExpiryCloses(c)
                       \/ FanoutStep(c) \/ CloseStep(c)

Spec == Init /\ [][Next]_vars

(***************************************************************************)
(* Goroutines run; calls to PostgreSQL and Redis return, with a result or  *)
(* an error, since their context ends with the process at the latest.  A   *)
(* select picks at random among its ready cases: one that stays ready is   *)
(* taken in the end.                                                       *)
(***************************************************************************)
Fairness ==
    /\ WF_vars(ServerStep)
    /\ \A c \in Conns : /\ WF_vars(HandlerStep(c))
                        /\ WF_vars(WriterStep(c))
                        /\ WF_vars(ExpiryCloses(c))
                        /\ WF_vars(FanoutStep(c))
                        /\ WF_vars(CloseStep(c))

FairSpec == Spec /\ Fairness
-----------------------------------------------------------------------------
(***************************************************************************)
(* Properties.                                                             *)
(***************************************************************************)

(***************************************************************************)
(* A client never learns of a consequence of its request and then gets the *)
(* answer to it: "queued" comes before the match_start that joining led    *)
(* to, "judging" before the result, although the event may be published    *)
(* while handleInbound has not returned yet (deliveryMu in handleAndSend   *)
(* and fanout).  Only when close() has begun can it see the event without  *)
(* the answer: Send took <-c.closed for the answer and c.send for the      *)
(* event, and the socket was still open.                                   *)
(***************************************************************************)
AnswerComesFirst ==
    \A c \in Conns : \A i \in 1 .. Len(wire[c]) :
        LET m == wire[c][i]
            answer == Response(m.of)
            answers == {j \in 1 .. Len(wire[c]) : wire[c][j] = answer}
        IN  IsEvent(m) /\ m.of \in Requests /\ asked[m.of] = c
                => IF answers = {} THEN c \in closed
                                   ELSE \A j \in answers : j < i

\* The events in a sequence of messages, and whether they come in the order in
\* which they were published.
EventsOf(q) == {q[i] : i \in {j \in DOMAIN q : IsEvent(q[j])}}

InOrder(q) ==
    \A i, j \in DOMAIN q : i < j /\ IsEvent(q[i]) /\ IsEvent(q[j]) => q[i].n < q[j].n

\* The events of q are the first of those of t.
Gapless(q, t) ==
    \A e \in EventsOf(t), f \in EventsOf(q) : e.n <= f.n => e \in EventsOf(q)

(***************************************************************************)
(* The events a client sees were delivered to its subscription, each once  *)
(* and in order.  Until close() of its connection begins nothing is lost   *)
(* here: "ready" comes first, and what is written, buffered and still in   *)
(* the subscription is everything that was delivered, so a message that    *)
(* finds the send buffer full costs the connection and not the message     *)
(* (Send).  From then on Send may lose one event and keep the next while   *)
(* the socket is open; and what Pub/Sub does not deliver is lost in any    *)
(* case: the client fetches the snapshot when it reconnects.               *)
(***************************************************************************)
NoGap ==
    \A c \in Conns :
        /\ InOrder(wire[c])
        /\ EventsOf(wire[c]) \subseteq EventsOf(told[c])
        /\ c \notin closed =>
             /\ Len(wire[c]) > 0 => wire[c][1] = Ready
             /\ Gapless(wire[c], told[c])
             /\ c \in subs =>
                  LET line == wire[c] \o buf[c] \o inbox[c]
                  IN  InOrder(line) /\ EventsOf(line) = EventsOf(told[c])

\* A connection that a close() under way will reach: prev.close() of Add or the
\* loop of CloseAll.
Condemned(c) ==
    \/ c \in closed \cup toClose \cup {target}
    \/ \E d \in Conns : h[d] = "evict" /\ prev[d] = c

(***************************************************************************)
(* A user has one active connection: of two that are served, one is closed *)
(* or about to be.  A late Remove of the replaced connection must not take *)
(* the entry of its successor, or a third connection would not find it.    *)
(***************************************************************************)
OneActivePerUser ==
    \A c, d \in Conns :
        /\ c # d /\ Owner[c] = Owner[d]
        /\ h[c] \in Served /\ h[d] \in Served
        => Condemned(c) \/ Condemned(d)

(***************************************************************************)
(* Once CloseAll has taken its copy, no connection escapes it: whichever   *)
(* is still served is closed or about to be, also one that registered or   *)
(* was replaced around that moment.                                        *)
(***************************************************************************)
ShutdownReachesAll ==
    regClosed => \A c \in Conns : h[c] \in Served => Condemned(c)

(***************************************************************************)
(* When the WaitGroup lets Run go, nothing of a served connection is left: *)
(* no registry entry, subscription, open socket or running handler, and no *)
(* presence key but one that a failed call left to its TTL.                *)
(***************************************************************************)
CleanDrain ==
    srv = "drained" =>
        /\ \A u \in Users : reg[u] = NoConn
        /\ \A c \in Conns :
             /\ h[c] \notin Served
             /\ writer[c] # "off" => /\ h[c] = "gone"
                                     /\ c \in shut /\ c \notin subs
                                     /\ presence[c] # "set"

(***************************************************************************)
(* A connection that was replaced or closed (a full buffer, a failed       *)
(* write, the shutdown), or whose token has expired, ends: its socket is   *)
(* closed, its reader notices and cleans up, so that after CloseAll the    *)
(* WaitGroup can reach zero.                                               *)
(***************************************************************************)
DueConnectionsEnd ==
    \A c \in Conns :
        (h[c] \in Reading /\ (c \in closed \/ reg[Owner[c]] # c \/ writer[c] # "on"))
            ~> h[c] = "gone"
=============================================================================
