--------------------------- MODULE GatewayProofs ----------------------------
(***************************************************************************)
(* Proofs about GatewayConnections, for every number of users, connections *)
(* and requests, every size of the send buffer and any number of events    *)
(* and failures: the types, the registry and the drain, and the order in   *)
(* which a client sees answers and events.                                 *)
(***************************************************************************)
EXTENDS GatewayConnections, SequenceTheorems, TLAPS

-----------------------------------------------------------------------------
(* The types.                                                              *)

\* What a goroutine holds: the connection Add is about to close, the request
\* that the reader is handling, the event for which fanout finds no room.
HandsOK ==
    \A c \in Conns :
        /\ h[c] = "evict" => prev[c] \in Conns
        /\ h[c] \in {"received", "respond", "drop"} =>
             current[c] \in Requests /\ asked[current[c]] = c
        /\ c \in jammed => inbox[c] # <<>>

TypeInv == TypeOK /\ HandsOK

LEMMA TypeInit == Init => TypeInv
<1> SUFFICES ASSUME Init PROVE TypeInv
  OBVIOUS
<1>1. inbox \in Queues /\ buf \in Queues /\ wire \in Queues /\ told \in Queues
  BY DEF Init, Queues
<1>2. /\ h \in [Conns -> {"none", "unset", "gone"} \cup SetUp \cup Served \cup Ending]
      /\ prev \in [Conns -> Conns \cup {NoConn}]
      /\ writer \in [Conns -> {"off", "on", "expired", "closing", "ended"}]
      /\ presence \in [Conns -> {"none", "set", "stray"}]
      /\ asked \in [Requests -> Conns \cup {NoConn}]
      /\ current \in [Conns -> Requests \cup {NoRequest}]
      /\ reg \in [Users -> Conns \cup {NoConn}]
  BY DEF Init
<1>3. events \in 0 .. MaxEvents /\ faults \in 0 .. MaxFaults
  BY GatewayAssumption DEF Init, GatewayAssumption
<1>4. TypeOK
  BY <1>1, <1>2, <1>3 DEF Init, TypeOK
<1>5. HandsOK
  BY DEF Init, HandsOK
<1>6. QED
  BY <1>4, <1>5 DEF TypeInv

LEMMA MessageTypes ==
    /\ Ready \in Message
    /\ \A r \in Requests \cup {NoRequest} :
         /\ Response(r) \in Message
         /\ \A n \in 0 .. MaxEvents : Event(r, n) \in Message
BY GatewayAssumption DEF Ready, Response, Event, Message, GatewayAssumption

\* A handler moves on its own and to where its action says.
LEMMA GoesTypes ==
    ASSUME TypeOK, NEW c \in Conns, NEW from, NEW to, Goes(c, from, to),
           to \in {"none", "unset", "gone"} \cup SetUp \cup Served \cup Ending
    PROVE  /\ h' \in [Conns -> {"none", "unset", "gone"} \cup SetUp \cup Served \cup Ending]
           /\ h[c] = from /\ h'[c] = to
           /\ \A d \in Conns \ {c} : h'[d] = h[d]
BY DEF TypeOK, Goes

\* Send keeps the buffers typed, whichever case it takes.
LEMMA SendTypes ==
    ASSUME TypeOK, NEW c \in Conns, NEW m \in Message, Send(c, m)
    PROVE  buf' \in Queues
<1>1. Append(buf[c], m) \in Seq(Message)
  BY DEF TypeOK, Queues
<1>2. QED
  BY <1>1 DEF TypeOK, Queues, Send

LEMMA UnseenTypes ==
    ASSUME TypeOK, NEW c \in Conns, ClosedUnseen(c)
    PROVE  closed' \in SUBSET Conns /\ shut' \in SUBSET closed'
BY DEF TypeOK, ClosedUnseen

LEMMA SetUpKeepsTypes ==
    ASSUME TypeInv, NEW c \in Conns,
           \/ Accept(c) \/ AcceptFails(c) \/ SetPresence(c) \/ SetPresenceFails(c)
           \/ Subscribe(c) \/ SubscribeFails(c) \/ Add(c) \/ Evict(c)
    PROVE  TypeInv'
<1> USE GatewayAssumption DEF TypeInv, TypeOK, HandsOK, GatewayAssumption, Goes, Fault,
        server, registry, sockets, redis, pub, out, requests, SetUp, Served, Reading, Ending
<1>1. CASE Accept(c) BY <1>1 DEF Accept
<1>2. CASE AcceptFails(c) BY <1>2 DEF AcceptFails
<1>3. CASE SetPresence(c) BY <1>3 DEF SetPresence
<1>4. CASE SetPresenceFails(c)
  <2>0. closed' \in SUBSET Conns /\ shut' \in SUBSET closed'
    BY <1>4, UnseenTypes DEF SetPresenceFails
  <2>1. faults' \in 0 .. MaxFaults /\ closed' \in SUBSET Conns /\ shut' \in SUBSET closed'
    BY <1>4, <2>0 DEF SetPresenceFails
  <2>2. CASE presence' = [presence EXCEPT ![c] = "stray"]
    BY <1>4, <2>1, <2>2 DEF SetPresenceFails
  <2>3. CASE presence' = presence
    BY <1>4, <2>1, <2>3 DEF SetPresenceFails
  <2>4. QED
    BY <1>4, <2>2, <2>3 DEF SetPresenceFails
<1>5. CASE Subscribe(c) BY <1>5 DEF Subscribe
<1>6. CASE SubscribeFails(c)
  <2>1. closed' \in SUBSET Conns /\ shut' \in SUBSET closed'
    BY <1>6, UnseenTypes DEF SubscribeFails
  <2>2. QED
    BY <1>6, <2>1 DEF SubscribeFails
<1>7. CASE Add(c)
  <2>1. CASE AddAccepted(c) /\ reg[Owner[c]] = NoConn
    BY <1>7, <2>1 DEF Add, AddAccepted
  <2>2. CASE AddAccepted(c) /\ reg[Owner[c]] # NoConn
    <3>1. Owner[c] \in Users /\ reg[Owner[c]] \in Conns
      BY <2>2
    <3>2. QED
      BY <1>7, <2>2, <3>1 DEF Add, AddAccepted
  <2>3. CASE AddRefused(c)
    <3>1. closed' \in SUBSET Conns /\ shut' \in SUBSET closed'
      BY <2>3, UnseenTypes DEF AddRefused
    <3>2. QED
      BY <1>7, <2>3, <3>1 DEF Add, AddRefused
  <2>4. QED
    BY <1>7, <2>1, <2>2, <2>3 DEF Add
<1>8. CASE Evict(c) BY <1>8 DEF Evict
<1>9. QED BY <1>1, <1>2, <1>3, <1>4, <1>5, <1>6, <1>7, <1>8

\* Steps of the three goroutines of a connection: reader, fanout, writePump.
ReaderStep(c) ==
    \/ SendReady(c) \/ ReadMessage(c) \/ HandleInbound(c) \/ Respond(c)
    \/ AnswerJams(c) \/ AnswerLost(c)

\* writePump goes on to another state, and writes nothing.
WriterMoves(c) ==
    \/ WriteFails(c) \/ TokenExpires(c) \/ ExpiryCloses(c) \/ WriterClosed(c)
    \/ WritePumpEnds(c)

Delivery(c) == ReaderStep(c) \/ FanoutStep(c) \/ WriteMessage(c) \/ WriterMoves(c)

LEMMA ReaderKeepsTypes ==
    ASSUME TypeInv, NEW c \in Conns, ReaderStep(c)
    PROVE  TypeInv'
<1> USE GatewayAssumption DEF TypeInv, TypeOK, HandsOK, GatewayAssumption, Goes, Fault,
        server, registry, sockets, redis, pub, out, requests, SetUp, Served, Reading, Ending
<1>1. CASE SendReady(c)
  <2>1. buf' \in Queues
    BY <1>1, SendTypes, MessageTypes DEF SendReady
  <2>2. QED
    BY <1>1, <2>1 DEF SendReady
<1>2. CASE ReadMessage(c)
  BY <1>2 DEF ReadMessage
<1>3. CASE HandleInbound(c)
  BY <1>3 DEF HandleInbound
<1>4. CASE Respond(c)
  <2>1. buf' \in Queues
    BY <1>4, SendTypes, MessageTypes DEF Respond
  <2>2. QED
    BY <1>4, <2>1 DEF Respond
<1>5. CASE AnswerJams(c)
  BY <1>5 DEF AnswerJams
<1>6. CASE AnswerLost(c)
  BY <1>6 DEF AnswerLost
<1>7. QED
  BY <1>1, <1>2, <1>3, <1>4, <1>5, <1>6 DEF ReaderStep

LEMMA FanoutKeepsTypes ==
    ASSUME TypeInv, NEW c \in Conns, FanoutStep(c)
    PROVE  TypeInv'
<1> USE GatewayAssumption DEF TypeInv, TypeOK, HandsOK, GatewayAssumption,
        server, registry, sockets, redis, pub, out, requests
<1>1. CASE Fanout(c)
  <2>1. Head(inbox[c]) \in Message /\ Tail(inbox[c]) \in Seq(Message)
    BY <1>1 DEF Fanout, FanoutReady, Queues
  <2>2. buf' \in Queues
    BY <1>1, <2>1, SendTypes DEF Fanout
  <2>3. inbox' \in Queues
    BY <1>1, <2>1 DEF Fanout, Queues
  <2>4. \A d \in Conns \ {c} : inbox'[d] = inbox[d]
    BY <1>1 DEF Fanout, Queues
  <2>5. QED
    BY <1>1, <2>2, <2>3, <2>4 DEF Fanout, FanoutReady
<1>2. CASE EventJams(c)
  BY <1>2 DEF EventJams, FanoutReady
<1>3. CASE EventLost(c)
  <2>1. Tail(inbox[c]) \in Seq(Message)
    BY <1>3 DEF EventLost, Queues
  <2>2. inbox' \in Queues
    BY <1>3, <2>1 DEF EventLost, Queues
  <2>3. \A d \in Conns \ {c} : inbox'[d] = inbox[d]
    BY <1>3 DEF EventLost, Queues
  <2>4. QED
    BY <1>3, <2>2, <2>3 DEF EventLost
<1>4. QED
  BY <1>1, <1>2, <1>3 DEF FanoutStep

LEMMA WriterKeepsTypes ==
    ASSUME TypeInv, NEW c \in Conns, WriteMessage(c) \/ WriterMoves(c)
    PROVE  TypeInv'
<1> USE GatewayAssumption DEF TypeInv, TypeOK, HandsOK, GatewayAssumption, Fault,
        server, registry, sockets, redis, pub, out, requests
<1>1. CASE WriteMessage(c)
  <2>1. /\ Tail(buf[c]) \in Seq(Message)
        /\ Append(wire[c], Head(buf[c])) \in Seq(Message)
    BY <1>1 DEF WriteMessage, Queues
  <2>2. buf' \in Queues /\ wire' \in Queues
    BY <1>1, <2>1 DEF WriteMessage, Queues
  <2>3. QED
    BY <1>1, <2>2 DEF WriteMessage
<1>2. CASE WriterMoves(c)
  <2>1. PICK to \in {"expired", "closing", "ended"} : WriterGoes(c, to)
    BY <1>2 DEF WriterMoves, WriteFails, TokenExpires, ExpiryCloses, WriterClosed, WritePumpEnds
  <2>2. writer' \in [Conns -> {"off", "on", "expired", "closing", "ended"}]
    BY <2>1 DEF WriterGoes
  <2>3. faults' \in 0 .. MaxFaults
    BY <1>2 DEF WriterMoves, WriteFails, TokenExpires, ExpiryCloses, WriterClosed, WritePumpEnds
  <2>4. QED
    BY <2>1, <2>2, <2>3 DEF WriterGoes
<1>3. QED
  BY <1>1, <1>2

LEMMA CloseKeepsTypes ==
    ASSUME TypeInv, NEW c \in Conns, CloseStep(c)
    PROVE  TypeInv'
BY DEF TypeInv, TypeOK, HandsOK, CloseStep, CloseChannel, CloseSocket, server, registry, redis,
       pub, out, requests

LEMMA PublishKeepsTypes ==
    ASSUME TypeInv, NEW u \in Users, Publish(u)
    PROVE  TypeInv'
<1>1. PICK r \in effective \cup {NoRequest}, reached \in SUBSET {c \in subs : Owner[c] = u} :
        LET After(q) == [c \in Conns |-> IF c \in reached
                                         THEN Append(q[c], Event(r, events'))
                                         ELSE q[c]]
        IN  inbox' = After(inbox) /\ told' = After(told)
  BY DEF Publish
<1>2. events' \in 0 .. MaxEvents
  BY GatewayAssumption DEF Publish, TypeInv, TypeOK, GatewayAssumption
<1>3. Event(r, events') \in Message
  BY <1>2, MessageTypes DEF TypeInv, TypeOK
<1>4. inbox' \in Queues /\ told' \in Queues
  BY <1>1, <1>3 DEF TypeInv, TypeOK, Queues
<1>5. ASSUME NEW c \in Conns, inbox[c] # <<>> PROVE inbox'[c] # <<>>
  <2>1. inbox[c] \in Seq(Message)
    BY DEF TypeInv, TypeOK, Queues
  <2>2. Append(inbox[c], Event(r, events')) # <<>>
    BY <1>3, <2>1, AppendProperties
  <2>3. QED
    BY <1>1, <1>5, <2>2
<1>6. QED
  BY <1>2, <1>4, <1>5
     DEF Publish, TypeInv, TypeOK, HandsOK, server, registry, sockets, redis, out, requests

\* fanout gets a beginning of what is in the subscription.
LEMMA Kept ==
    ASSUME NEW q \in Seq(Message), NEW k \in 0 .. Len(q)
    PROVE  /\ SubSeq(q, 1, k) \in Seq(Message)
           /\ k > 0 => SubSeq(q, 1, k) # <<>>
<1>1. k <= Len(q) /\ k \in Nat /\ \A i \in 1 .. Len(q) : q[i] \in Message
  BY ElementOfSeq, LenProperties
<1>2. SubSeq(q, 1, k) \in Seq(Message) /\ Len(SubSeq(q, 1, k)) = k
  BY <1>1, SubSeqProperties
<1>3. QED
  BY <1>2

LEMMA UnsubscribeKeepsTypes ==
    ASSUME TypeInv, NEW c \in Conns, Unsubscribe(c)
    PROVE  TypeInv'
<1>1. PICK k \in 0 .. Len(inbox[c]) : /\ c \in jammed => k > 0
                                      /\ inbox' = [inbox EXCEPT ![c] = SubSeq(@, 1, k)]
  BY DEF Unsubscribe
<1>2. inbox[c] \in Seq(Message) /\ inbox \in [Conns -> Seq(Message)]
  BY DEF TypeInv, TypeOK, Queues
<1> DEFINE kept == SubSeq(inbox[c], 1, k)
<1>3. kept \in Seq(Message) /\ (k > 0 => kept # <<>>)
  BY <1>2, Kept
<1>4. inbox' = [inbox EXCEPT ![c] = kept]
  BY <1>1
<1> HIDE DEF kept
<1>5. inbox' \in [Conns -> Seq(Message)]
  BY <1>2, <1>3, <1>4
<1>6. \A d \in Conns : d \in jammed => inbox'[d] # <<>>
  BY <1>1, <1>2, <1>3, <1>4 DEF TypeInv, HandsOK
<1>7. /\ h[c] = "unsubscribe" /\ h' = [h EXCEPT ![c] = "forget"] /\ subs' = subs \ {c}
      /\ UNCHANGED <<server, registry, sockets, out, requests, presence, jammed, told, events,
                     faults>>
  BY DEF Unsubscribe, Goes
<1>8. HandsOK'
  BY <1>6, <1>7 DEF TypeInv, TypeOK, HandsOK, registry, requests
<1>9. TypeOK'
  <2>1. h' \in [Conns -> {"none", "unset", "gone"} \cup SetUp \cup Served \cup Ending]
    BY <1>7 DEF TypeInv, TypeOK, Ending
  <2>2. QED
    BY <1>5, <1>7, <2>1
       DEF TypeInv, TypeOK, Queues, server, registry, sockets, out, requests
<1>10. QED
  BY <1>8, <1>9 DEF TypeInv

LEMMA EndKeepsTypes ==
    ASSUME TypeInv, NEW c \in Conns,
           \/ ReadFails(c) \/ ClientLeaves(c) \/ Remove(c) \/ Unsubscribe(c)
           \/ DeletePresence(c) \/ Close(c) \/ Done(c)
    PROVE  TypeInv'
<1> USE GatewayAssumption DEF TypeInv, TypeOK, HandsOK, GatewayAssumption, Goes, Fault,
        server, registry, sockets, redis, pub, out, requests, SetUp, Served, Reading, Ending
<1>1. CASE ReadFails(c) BY <1>1 DEF ReadFails
<1>2. CASE ClientLeaves(c) BY <1>2 DEF ClientLeaves
<1>3. CASE Remove(c) BY <1>3 DEF Remove
<1>4. CASE Unsubscribe(c)
  BY <1>4, UnsubscribeKeepsTypes
<1>5. CASE DeletePresence(c)
  <2>a. presence' \in [Conns -> {"none", "set", "stray"}]
    BY <1>5 DEF DeletePresence
  <2>b. faults' = faults \/ (faults < MaxFaults /\ faults' = faults + 1)
    BY <1>5 DEF DeletePresence
  <2>1. presence' \in [Conns -> {"none", "set", "stray"}] /\ faults' \in 0 .. MaxFaults
    BY <2>a, <2>b
  <2>2. \/ h[c] = "forget" /\ h' = [h EXCEPT ![c] = "close"]
        \/ h[c] = "unset" /\ h' = [h EXCEPT ![c] = "gone"]
    BY <1>5 DEF DeletePresence
  <2>3. CASE h[c] = "forget" /\ h' = [h EXCEPT ![c] = "close"]
    BY <1>5, <2>1, <2>3 DEF DeletePresence
  <2>4. CASE h[c] = "unset" /\ h' = [h EXCEPT ![c] = "gone"]
    BY <1>5, <2>1, <2>4 DEF DeletePresence
  <2>5. QED
    BY <2>2, <2>3, <2>4
<1>6. CASE Close(c) BY <1>6 DEF Close
<1>7. CASE Done(c) BY <1>7 DEF Done
<1>8. QED BY <1>1, <1>2, <1>3, <1>4, <1>5, <1>6, <1>7

LEMMA RunKeepsTypes ==
    ASSUME TypeInv, ServerStep \/ Cancel \/ ListenFails \/ DrainTimeout
    PROVE  TypeInv'
<1> USE GatewayAssumption DEF TypeInv, TypeOK, HandsOK, GatewayAssumption, ServerGoes, Fault,
        registry, sockets, pub, out, requests
<1>1. CASE Cancel BY <1>1 DEF Cancel
<1>2. CASE ListenFails BY <1>2 DEF ListenFails
<1>3. CASE CloseAll BY <1>3 DEF CloseAll
<1>4. CASE CloseNext BY <1>4 DEF CloseNext
<1>5. CASE Drained BY <1>5 DEF Drained
<1>6. CASE DrainTimeout BY <1>6 DEF DrainTimeout
<1>7. QED BY <1>1, <1>2, <1>3, <1>4, <1>5, <1>6 DEF ServerStep

LEMMA TypeNext == TypeInv /\ [Next]_vars => TypeInv'
<1> SUFFICES ASSUME TypeInv, [Next]_vars PROVE TypeInv'
  OBVIOUS
<1>1. CASE UNCHANGED vars
  BY <1>1 DEF TypeInv, TypeOK, HandsOK, vars, server, registry, sockets, redis, pub, out,
              requests
<1>2. CASE Next
  BY <1>2, SetUpKeepsTypes, ReaderKeepsTypes, FanoutKeepsTypes, WriterKeepsTypes,
     CloseKeepsTypes, PublishKeepsTypes, EndKeepsTypes, RunKeepsTypes
     DEF Next, EnvironmentStep, HandlerStep, WriterStep, ReaderStep, WriterMoves
<1>3. QED
  BY <1>1, <1>2

(***************************************************************************)
(* Every variable keeps its type; in particular the connection that Add    *)
(* goes on to close is one that was registered, never nil.                 *)
(***************************************************************************)
THEOREM GatewayTypeCorrect == Spec => []TypeOK
<1>1. TypeInv => TypeOK
  BY DEF TypeInv
<1>2. QED
  BY <1>1, TypeInit, TypeNext, PTL DEF Spec

-----------------------------------------------------------------------------
(* The registry and the drain.                                             *)

\* An entry is that of a registered connection of its user, until Remove; who
\* is served has the entry of its user, or is closed or about to be, and has
\* no entry once CloseAll has seen it.
RegistryOK ==
    /\ \A u \in Users : reg[u] # NoConn =>
         /\ Owner[reg[u]] = u /\ reg[u] \in registered
         /\ h[reg[u]] \in Served \cup {"remove"}
    /\ \A c \in Conns : h[c] \in Served => reg[Owner[c]] = c \/ Condemned(c)
    /\ ShutdownReachesAll

\* The WaitGroup counts who is served until its clean-up is over.
CountOK ==
    \A c \in Conns :
        /\ c \in registered => h[c] \in Served \cup Ending
        /\ h[c] \in Served => c \in registered
        /\ h[c] \in Ending /\ writer[c] # "off" => c \in registered

\* How far the clean-up of a connection is.
CleanupOK ==
    \A c \in Conns :
        LET ended == h[c] = "gone" /\ writer[c] # "off" IN
        /\ writer[c] # "off" => h[c] \in Reading \cup Ending \cup {"gone"}
        /\ h[c] \in {"forget", "close", "finish"} \/ ended => c \notin subs
        /\ h[c] \in {"close", "finish"} \/ ended => presence[c] # "set"
        /\ h[c] = "finish" \/ ended => c \in shut

RunOK ==
    /\ srv \in {"closing", "drained", "timedout"} <=> regClosed
    /\ srv # "closing" => toClose = {}
    /\ srv = "drained" => registered = {}

RegInv == RegistryOK /\ CountOK /\ CleanupOK /\ RunOK

LEMMA RegInit == Init => RegInv
BY GatewayAssumption DEF Init, RegInv, RegistryOK, CountOK, CleanupOK, RunOK,
   ShutdownReachesAll, GatewayAssumption, Served, Reading, Ending

\* Once a close() is on its way to a connection it stays on its way, or has
\* reached it.
LEMMA CondemnedStays ==
    ASSUME TypeInv, NEW c \in Conns, Condemned(c),
           closed \subseteq closed', toClose \subseteq toClose' \cup {target'} \cup closed',
           target \in {NoConn, target'} \cup closed',
           \A d \in Conns : h[d] = "evict" =>
               (h'[d] = "evict" /\ prev'[d] = prev[d]) \/ prev[d] \in closed'
    PROVE  Condemned(c)'
<1>1. CASE c \in closed \cup toClose \cup {target}
  BY <1>1, GatewayAssumption DEF Condemned, GatewayAssumption
<1>2. CASE \E d \in Conns : h[d] = "evict" /\ prev[d] = c
  BY <1>2 DEF Condemned
<1>3. QED
  BY <1>1, <1>2 DEF Condemned

\* Before Add a handler concerns nobody but its own connection.
Early(c) ==
    \/ Accept(c) \/ AcceptFails(c) \/ SetPresence(c) \/ SetPresenceFails(c)
    \/ Subscribe(c) \/ SubscribeFails(c)

LEMMA EarlyFrame ==
    ASSUME TypeInv, NEW c \in Conns, Early(c)
    PROVE  /\ UNCHANGED <<srv, regClosed, toClose, target, reg, registered, prev, writer>>
           /\ closed \subseteq closed' /\ shut \subseteq shut'
           /\ h[c] \in {"none", "accepted", "subscribe"}
           /\ h'[c] \in {"accepted", "gone", "subscribe", "register", "unset"}
           /\ \A d \in Conns \ {c} : /\ h'[d] = h[d]
                                     /\ presence'[d] = presence[d]
                                     /\ d \in subs' <=> d \in subs
<1> USE DEF TypeInv, TypeOK, Goes, ClosedUnseen, server, registry, sockets, redis, pub, out,
        requests
<1>1. CASE Accept(c) BY <1>1 DEF Accept
<1>2. CASE AcceptFails(c) BY <1>2 DEF AcceptFails
<1>3. CASE SetPresence(c) BY <1>3 DEF SetPresence
<1>4. CASE SetPresenceFails(c) BY <1>4 DEF SetPresenceFails
<1>5. CASE Subscribe(c) BY <1>5 DEF Subscribe
<1>6. CASE SubscribeFails(c) BY <1>6 DEF SubscribeFails
<1>7. QED BY <1>1, <1>2, <1>3, <1>4, <1>5, <1>6 DEF Early

\* Delivery leaves the registry, the subscriptions and the server alone, and
\* closes nothing itself; SendReady starts the writer.
LEMMA DeliveryFrame ==
    ASSUME TypeInv, NEW c \in Conns, Delivery(c)
    PROVE  /\ UNCHANGED <<server, registry, presence, subs, closed, shut>>
           /\ \/ UNCHANGED h
              \/ /\ h[c] \in Served \ {"evict"} /\ h'[c] \in Reading
                 /\ \A d \in Conns \ {c} : h'[d] = h[d]
           /\ \A d \in Conns : writer'[d] # "off" =>
                writer[d] # "off" \/ (h[d] \in Served /\ h'[d] \in Reading)
<1>1. CASE SendReady(c)
  <2>1. h[c] = "ready" /\ h'[c] = "serve" /\ writer' = [writer EXCEPT ![c] = "on"]
    BY <1>1 DEF SendReady, Goes, TypeInv, TypeOK
  <2>2. \A d \in Conns \ {c} : h'[d] = h[d]
    BY <1>1 DEF SendReady, Goes, TypeInv, TypeOK
  <2>3. QED
    BY <1>1, <2>1, <2>2
       DEF SendReady, redis, server, registry, TypeInv, TypeOK, Served, Reading
<1>2. CASE ReadMessage(c) \/ HandleInbound(c) \/ Respond(c) \/ AnswerJams(c) \/ AnswerLost(c)
  <2>1. UNCHANGED <<server, registry, sockets, redis>>
    BY <1>2 DEF ReadMessage, HandleInbound, Respond, AnswerJams, AnswerLost
  <2>2. /\ h[c] \in Served \ {"evict"} /\ h'[c] \in Reading
        /\ \A d \in Conns \ {c} : h'[d] = h[d]
    BY <1>2 DEF ReadMessage, HandleInbound, Respond, AnswerJams, AnswerLost, Goes, TypeInv,
                TypeOK, Served, Reading
  <2>3. QED
    BY <2>1, <2>2 DEF sockets, redis, server, registry
<1>3. CASE FanoutStep(c) \/ WriteMessage(c)
  BY <1>3 DEF FanoutStep, Fanout, EventJams, EventLost, WriteMessage, sockets, redis
<1>4. CASE WriterMoves(c)
  <2>1. PICK to \in {"expired", "closing", "ended"} : WriterGoes(c, to) /\ writer[c] # "off"
    BY <1>4 DEF WriterMoves, WriteFails, TokenExpires, ExpiryCloses, WriterClosed, WritePumpEnds,
                Pumps
  <2>2. QED
    BY <2>1 DEF WriterGoes, TypeInv, TypeOK
<1>5. QED
  BY <1>1, <1>2, <1>3, <1>4 DEF Delivery, ReaderStep

LEMMA EarlyKeepsReg ==
    ASSUME TypeInv, RegInv, NEW c \in Conns, Early(c)
    PROVE  RegInv'
<1> USE EarlyFrame DEF Served, Reading, Ending
<1>1. ASSUME NEW d \in Conns, Condemned(d) PROVE Condemned(d)'
  BY <1>1, CondemnedStays
<1>2. \A d \in Conns : h'[d] \in Served \cup {"remove"} <=> h[d] \in Served \cup {"remove"}
  OBVIOUS
<1>3. RegistryOK'
  BY <1>1, <1>2 DEF RegInv, RegistryOK, ShutdownReachesAll, TypeInv, TypeOK
<1>4. CountOK'
  BY DEF RegInv, CountOK, CleanupOK
<1>5. CleanupOK'
  BY DEF RegInv, CleanupOK
<1>6. RunOK'
  BY DEF RegInv, RunOK
<1>7. QED
  BY <1>3, <1>4, <1>5, <1>6 DEF RegInv

LEMMA DeliveryKeepsReg ==
    ASSUME TypeInv, RegInv, NEW c \in Conns, Delivery(c)
    PROVE  RegInv'
<1> USE DeliveryFrame DEF server, registry, Served, Reading, Ending
<1>1. ASSUME NEW d \in Conns, Condemned(d) PROVE Condemned(d)'
  BY <1>1, CondemnedStays
<1>2. \A d \in Conns : h'[d] \in Served <=> h[d] \in Served
  OBVIOUS
<1>3. \A d \in Conns : h'[d] \in Ending \cup {"gone"} => h'[d] = h[d]
  OBVIOUS
<1>4. RegistryOK'
  BY <1>1, <1>2 DEF RegInv, RegistryOK, ShutdownReachesAll, TypeInv, TypeOK
<1>5. CountOK'
  BY <1>2, <1>3 DEF RegInv, CountOK, CleanupOK
<1>6. CleanupOK'
  BY <1>2, <1>3 DEF RegInv, CleanupOK
<1>7. RunOK'
  BY DEF RegInv, RunOK
<1>8. QED
  BY <1>4, <1>5, <1>6, <1>7 DEF RegInv

\* A connection closed, in its two steps.
LEMMA CloseKeepsReg ==
    ASSUME TypeInv, RegInv, NEW c \in Conns, CloseStep(c)
    PROVE  RegInv'
<1>1. /\ UNCHANGED <<server, registry, redis, h, writer>>
      /\ closed \subseteq closed' /\ shut \subseteq shut'
  BY DEF CloseStep, CloseChannel, CloseSocket
<1> USE DEF server, registry, redis
<1>2. ASSUME NEW d \in Conns, Condemned(d) PROVE Condemned(d)'
  BY <1>1, <1>2, CondemnedStays
<1>3. RegistryOK'
  BY <1>1, <1>2 DEF RegInv, RegistryOK, ShutdownReachesAll
<1>4. CountOK' /\ CleanupOK' /\ RunOK'
  BY <1>1 DEF RegInv, CountOK, CleanupOK, RunOK
<1>5. QED
  BY <1>3, <1>4 DEF RegInv

LEMMA PublishKeepsReg ==
    ASSUME TypeInv, RegInv, NEW u \in Users, Publish(u)
    PROVE  RegInv'
BY DEF Publish, server, registry, sockets, redis, RegInv, RegistryOK, CountOK, CleanupOK,
       RunOK, ShutdownReachesAll, Condemned

\* Add: the new connection takes the entry, and the one it had is condemned
\* from here to the end of Evict.
LEMMA AddKeepsReg ==
    ASSUME TypeInv, RegInv, NEW c \in Conns, Add(c)
    PROVE  RegInv'
<1> DEFINE u == Owner[c]
<1> USE DEF Served, Reading, Ending
<1>0. /\ u \in Users /\ Owner \in [Conns -> Users]
      /\ UNCHANGED <<srv, regClosed, toClose, target, presence, subs, writer>>
      /\ closed \subseteq closed' /\ shut \subseteq shut'
      /\ h[c] = "register" /\ h'[c] \in {"ready", "evict", "remove"}
      /\ \A d \in Conns \ {c} : h'[d] = h[d] /\ prev'[d] = prev[d]
  BY GatewayAssumption DEF GatewayAssumption, Add, AddAccepted, AddRefused, ClosedUnseen, Goes,
     server, redis, TypeInv, TypeOK
<1>1. ASSUME NEW d \in Conns, Condemned(d) PROVE Condemned(d)'
  BY <1>0, <1>1, CondemnedStays
<1>2. RegistryOK'
  <2>1. CASE AddRefused(c)
    <3>1. h'[c] = "remove" /\ UNCHANGED <<reg, registered>>
      BY <2>1 DEF AddRefused, Goes, TypeInv, TypeOK
    <3>2. QED
      BY <1>0, <1>1, <3>1 DEF RegInv, RegistryOK, ShutdownReachesAll, TypeInv, TypeOK
  <2>2. CASE AddAccepted(c)
    <3>1. /\ ~regClosed /\ c \in registered' /\ registered \subseteq registered'
          /\ h'[c] \in Served
          /\ reg'[u] = c /\ \A w \in Users \ {u} : reg'[w] = reg[w]
      BY <2>2, <1>0 DEF AddAccepted, Goes, TypeInv, TypeOK
    <3>2. ASSUME NEW d \in Conns, reg[u] = d PROVE Condemned(d)'
      <4>1. h'[c] = "evict" /\ prev'[c] = d
        BY <2>2, <3>2, <1>0, GatewayAssumption
           DEF AddAccepted, Goes, TypeInv, TypeOK, GatewayAssumption
      <4>2. QED
        BY <4>1 DEF Condemned
    <3>3. ASSUME NEW w \in Users, reg'[w] # NoConn
          PROVE  /\ Owner[reg'[w]] = w /\ reg'[w] \in registered'
                 /\ h'[reg'[w]] \in Served \cup {"remove"}
      BY <1>0, <3>1, <3>3 DEF RegInv, RegistryOK, TypeInv, TypeOK
    <3>4. ASSUME NEW d \in Conns, h'[d] \in Served
          PROVE  reg'[Owner[d]] = d \/ Condemned(d)'
      <4>1. CASE d = c
        BY <3>1, <4>1
      <4>2. CASE d # c
        <5>1. reg[Owner[d]] = d \/ Condemned(d)
          BY <1>0, <3>4, <4>2 DEF RegInv, RegistryOK
        <5>2. NoConn # d /\ Owner[d] \in Users
          BY <1>0, GatewayAssumption DEF GatewayAssumption
        <5>3. QED
          BY <1>1, <3>1, <3>2, <5>1, <5>2
      <4>3. QED
        BY <4>1, <4>2
    <3>5. QED
      BY <1>0, <3>1, <3>3, <3>4 DEF RegistryOK, ShutdownReachesAll
  <2>3. QED
    BY <2>1, <2>2 DEF Add
<1>3. CountOK'
  BY <1>0 DEF RegInv, CountOK, CleanupOK, Add, AddAccepted, AddRefused, Goes, TypeInv, TypeOK
<1>4. CleanupOK'
  BY <1>0 DEF RegInv, CleanupOK
<1>5. RunOK'
  BY <1>0 DEF RegInv, RunOK, Add, AddAccepted, AddRefused
<1>6. QED
  BY <1>2, <1>3, <1>4, <1>5 DEF RegInv

LEMMA EvictKeepsReg ==
    ASSUME TypeInv, RegInv, NEW c \in Conns, Evict(c)
    PROVE  RegInv'
<1> USE DEF Served, Reading, Ending
<1>0. /\ UNCHANGED <<server, registry, redis, writer>>
      /\ prev[c] \in closed' /\ UNCHANGED <<closed, shut>>
      /\ h[c] = "evict" /\ h'[c] = "ready"
      /\ \A d \in Conns \ {c} : h'[d] = h[d]
  BY DEF Evict, Goes, TypeInv, TypeOK, sockets
<1> USE DEF server, registry, redis
<1>1. ASSUME NEW d \in Conns, Condemned(d) PROVE Condemned(d)'
  BY <1>0, <1>1, CondemnedStays
<1>2. RegistryOK'
  BY <1>0, <1>1 DEF RegInv, RegistryOK, ShutdownReachesAll, TypeInv, TypeOK
<1>3. CountOK' /\ CleanupOK' /\ RunOK'
  BY <1>0 DEF RegInv, CountOK, CleanupOK, RunOK
<1>4. QED
  BY <1>2, <1>3 DEF RegInv

\* cleanup, step by step.
LEMMA EndKeepsReg ==
    ASSUME TypeInv, RegInv, NEW c \in Conns,
           \/ ReadFails(c) \/ ClientLeaves(c) \/ Remove(c) \/ Unsubscribe(c)
           \/ DeletePresence(c) \/ Close(c) \/ Done(c)
    PROVE  RegInv'
<1> USE DEF Served, Reading, Ending
<1>a. UNCHANGED <<server, prev, writer, closed, shut>>
  BY DEF ReadFails, ClientLeaves, Remove, Unsubscribe, DeletePresence, Close, Done,
         registry, sockets
<1>b. /\ h[c] \notin Served \/ h[c] = "serve"
      /\ h'[c] \notin Served
      /\ \A d \in Conns \ {c} : h'[d] = h[d]
  BY DEF ReadFails, ClientLeaves, Remove, Unsubscribe, DeletePresence, Close, Done, Goes,
         TypeInv, TypeOK
<1>c. \A d \in Conns \ {c} : presence'[d] = presence[d]
  BY DEF ReadFails, ClientLeaves, Remove, Unsubscribe, DeletePresence, Close, Done,
         TypeInv, TypeOK, redis
<1>d. subs' \subseteq subs /\ \A d \in Conns \ {c} : d \in subs' <=> d \in subs
  BY DEF ReadFails, ClientLeaves, Remove, Unsubscribe, DeletePresence, Close, Done, redis
<1>e. registered' = registered \/ (h[c] = "finish" /\ registered' = registered \ {c})
  BY DEF ReadFails, ClientLeaves, Remove, Unsubscribe, DeletePresence, Close, Done, Goes, registry
<1>0. /\ UNCHANGED <<server, prev, writer, closed, shut>>
      /\ h[c] \notin Served \/ h[c] = "serve"
      /\ h'[c] \notin Served
      /\ \A d \in Conns \ {c} : /\ h'[d] = h[d] /\ presence'[d] = presence[d]
                                /\ d \in subs' <=> d \in subs
                                /\ d \in registered' <=> d \in registered
      /\ subs' \subseteq subs
  BY <1>a, <1>b, <1>c, <1>d, <1>e
<1>1. ASSUME NEW d \in Conns, Condemned(d) PROVE Condemned(d)'
  BY <1>0, <1>1, CondemnedStays DEF server
<1>2. RegistryOK'
  <2>1. CASE Remove(c)
    <3>1. /\ h[c] = "remove" /\ registered' = registered
          /\ \A u \in Users : reg'[u] = IF u = Owner[c] /\ reg[u] = c THEN NoConn ELSE reg[u]
      BY <2>1 DEF Remove, Goes, TypeInv, TypeOK
    <3>2. \A u \in Users : reg[u] = c => u = Owner[c]
      BY GatewayAssumption DEF RegInv, RegistryOK, GatewayAssumption
    <3>3. \A d \in Conns : h'[d] \in Served => d # c /\ h[d] \in Served
      BY <1>0, <3>1
    <3>4. ASSUME NEW u \in Users, reg'[u] # NoConn
          PROVE  /\ Owner[reg'[u]] = u /\ reg'[u] \in registered'
                 /\ h'[reg'[u]] \in Served \cup {"remove"}
      BY <1>0, <3>1, <3>2, <3>4 DEF RegInv, RegistryOK, TypeInv, TypeOK
    <3>5. ASSUME NEW d \in Conns, h'[d] \in Served
          PROVE  reg'[Owner[d]] = d \/ Condemned(d)'
      BY <1>1, <3>1, <3>3, <3>5, GatewayAssumption
         DEF RegInv, RegistryOK, GatewayAssumption
    <3>6. ShutdownReachesAll'
      BY <1>0, <1>1, <3>3 DEF RegInv, RegistryOK, ShutdownReachesAll, server
    <3>7. QED
      BY <3>4, <3>5, <3>6 DEF RegistryOK
  <2>2. CASE ReadFails(c) \/ ClientLeaves(c)
    <3>1. h[c] = "serve" /\ h'[c] = "remove" /\ UNCHANGED registry
      BY <2>2 DEF ReadFails, ClientLeaves, Goes, TypeInv, TypeOK
    <3>2. QED
      BY <1>0, <1>1, <3>1
         DEF RegInv, RegistryOK, ShutdownReachesAll, TypeInv, TypeOK, server, registry
  <2>3. CASE Unsubscribe(c) \/ DeletePresence(c) \/ Close(c) \/ Done(c)
    <3>1. h[c] \notin Served \cup {"remove"} /\ h'[c] \notin Served \cup {"remove"} /\ reg' = reg
      BY <2>3 DEF Unsubscribe, DeletePresence, Close, Done, Goes, TypeInv, TypeOK, registry
    <3>2. QED
      BY <1>0, <1>1, <3>1
         DEF RegInv, RegistryOK, ShutdownReachesAll, TypeInv, TypeOK, server
  <2>4. QED
    BY <2>1, <2>2, <2>3
<1>3. CountOK'
  <2>1. \/ registered' = registered
           /\ h[c] \in {"serve"} \cup Ending /\ h'[c] \in Ending
        \/ h[c] = "unset" /\ h'[c] = "gone" /\ registered' = registered
        \/ h[c] = "finish" /\ h'[c] = "gone" /\ registered' = registered \ {c}
    BY DEF ReadFails, ClientLeaves, Remove, Unsubscribe, DeletePresence, Close, Done, Goes,
           TypeInv, TypeOK, registry
  <2>2. QED
    BY <1>0, <2>1 DEF RegInv, CountOK
<1>4. CleanupOK'
  <2>1. \/ h[c] = "serve" /\ h'[c] = "remove"
        \/ h[c] = "remove" /\ h'[c] = "unsubscribe"
        \/ h[c] = "unsubscribe" /\ h'[c] = "forget" /\ c \notin subs'
        \/ h[c] = "forget" /\ h'[c] = "close" /\ presence'[c] # "set"
        \/ h[c] = "unset" /\ h'[c] = "gone"
        \/ h[c] = "close" /\ h'[c] = "finish" /\ c \in shut' /\ presence' = presence
        \/ h[c] = "finish" /\ h'[c] = "gone" /\ presence' = presence
    BY DEF ReadFails, ClientLeaves, Remove, Unsubscribe, DeletePresence, Close, Done, Goes,
           TypeInv, TypeOK, redis, sockets
  <2>2. QED
    BY <1>0, <2>1 DEF RegInv, CleanupOK
<1>5. RunOK'
  BY <1>0, <1>e DEF RegInv, RunOK, server
<1>6. QED
  BY <1>2, <1>3, <1>4, <1>5 DEF RegInv

LEMMA RunKeepsReg ==
    ASSUME TypeInv, RegInv, ServerStep \/ Cancel \/ ListenFails \/ DrainTimeout
    PROVE  RegInv'
<1>0. UNCHANGED <<reg, registered, h, prev, writer, presence, subs, closed, shut>>
  BY DEF ServerStep, CloseAll, CloseNext, Drained, Cancel, ListenFails, DrainTimeout, ServerGoes,
         registry, sockets
<1>1. CountOK' /\ CleanupOK'
  BY <1>0 DEF RegInv, CountOK, CleanupOK
<1>2. RunOK'
  BY <1>0 DEF RegInv, RunOK, ServerStep, CloseAll, CloseNext, Drained, Cancel, ListenFails,
              DrainTimeout, AllClosed, ServerGoes
<1>3. ASSUME NEW d \in Conns, Condemned(d) PROVE Condemned(d)'
  <2>1. /\ toClose \subseteq toClose' \cup {target'}
        /\ target \in {NoConn, target'} \cup closed
    BY DEF RegInv, RunOK, ServerStep, CloseAll, CloseNext, Drained, Cancel, ListenFails,
           DrainTimeout, ServerGoes, TypeInv, TypeOK
  <2>2. QED
    BY <1>0, <1>3, <2>1, CondemnedStays
<1>4. RegistryOK'
  <2>1. CASE CloseAll
    <3>1. \A c \in Conns : reg[Owner[c]] = c => c \in toClose'
      BY <2>1, GatewayAssumption DEF CloseAll, GatewayAssumption
    <3>2. \A c \in Conns : h[c] \in Served => Condemned(c)'
      BY <1>3, <3>1 DEF RegInv, RegistryOK, Condemned
    <3>3. QED
      BY <1>0, <3>2 DEF RegInv, RegistryOK, ShutdownReachesAll
  <2>2. CASE ~CloseAll
    <3>1. regClosed' = regClosed
      BY <2>2 DEF ServerStep, CloseNext, Drained, Cancel, ListenFails, DrainTimeout, ServerGoes
    <3>2. QED
      BY <1>0, <1>3, <3>1 DEF RegInv, RegistryOK, ShutdownReachesAll
  <2>3. QED
    BY <2>1, <2>2
<1>5. QED
  BY <1>1, <1>2, <1>4 DEF RegInv

LEMMA RegNext == TypeInv /\ RegInv /\ [Next]_vars => RegInv'
<1> SUFFICES ASSUME TypeInv, RegInv, [Next]_vars PROVE RegInv'
  OBVIOUS
<1>1. CASE UNCHANGED vars
  BY <1>1 DEF vars, server, registry, sockets, redis, RegInv, RegistryOK, CountOK, CleanupOK,
              RunOK, ShutdownReachesAll, Condemned
<1>2. CASE Next
  BY <1>2, EarlyKeepsReg, AddKeepsReg, EvictKeepsReg, DeliveryKeepsReg, PublishKeepsReg,
     EndKeepsReg, RunKeepsReg, CloseKeepsReg
     DEF Next, EnvironmentStep, HandlerStep, WriterStep, Early, Delivery, ReaderStep, WriterMoves
<1>3. QED
  BY <1>1, <1>2

LEMMA RegInvariance == Spec => [](TypeInv /\ RegInv)
BY TypeInit, TypeNext, RegInit, RegNext, PTL DEF Spec

(***************************************************************************)
(* However registrations, replacements, late Removes and the shutdown      *)
(* interleave, of two served connections of a user one is closed or about  *)
(* to be: only one of them can have the user's entry.                      *)
(***************************************************************************)
THEOREM OneActivePerUserHolds == Spec => []OneActivePerUser
<1>1. TypeInv /\ RegInv => OneActivePerUser
  BY DEF RegInv, RegistryOK, OneActivePerUser
<1>2. QED
  BY <1>1, RegInvariance, PTL

(***************************************************************************)
(* No served connection escapes CloseAll, also one whose Add or Evict is   *)
(* under way when the copy is taken.                                       *)
(***************************************************************************)
THEOREM ShutdownReachesAllHolds == Spec => []ShutdownReachesAll
<1>1. TypeInv /\ RegInv => ShutdownReachesAll
  BY DEF RegInv, RegistryOK
<1>2. QED
  BY <1>1, RegInvariance, PTL

(***************************************************************************)
(* When the WaitGroup lets Run go, every connection that was served has    *)
(* been cleaned up.                                                        *)
(***************************************************************************)
THEOREM CleanDrainHolds == Spec => []CleanDrain
<1>1. TypeInv /\ RegInv => CleanDrain
  <2> SUFFICES ASSUME TypeInv, RegInv, srv = "drained" PROVE CleanDrain
    BY DEF CleanDrain
  <2>1. registered = {}
    BY DEF RegInv, RunOK
  <2>2. \A u \in Users : reg[u] = NoConn
    BY <2>1 DEF RegInv, RegistryOK
  <2>3. ASSUME NEW c \in Conns
        PROVE  /\ h[c] \notin Served
               /\ writer[c] # "off" => /\ h[c] = "gone"
                                       /\ c \in shut /\ c \notin subs
                                       /\ presence[c] # "set"
    BY <2>1 DEF RegInv, CountOK, CleanupOK, Served
  <2>4. QED
    BY <2>2, <2>3 DEF CleanDrain
<1>2. QED
  BY <1>1, RegInvariance, PTL

-----------------------------------------------------------------------------
(* Sequences of messages.                                                  *)

LEMMA EventsIn ==
    ASSUME NEW q \in Seq(Message), NEW m
    PROVE  m \in EventsOf(q) <=> IsEvent(m) /\ \E i \in 1 .. Len(q) : q[i] = m
BY DEF EventsOf

\* Events are messages, so their numbers can be compared.
LEMMA EventNumbers ==
    ASSUME NEW q \in Seq(Message), NEW m \in EventsOf(q)
    PROVE  m \in Message /\ IsEvent(m) /\ m.n \in Nat
<1>1. PICK i \in 1 .. Len(q) : IsEvent(m) /\ q[i] = m
  BY EventsIn DEF IsEvent
<1>2. m \in Message
  BY <1>1, ElementOfSeq
<1>3. QED
  BY <1>1, <1>2, GatewayAssumption DEF Message, GatewayAssumption

Before(p, q) == \A e \in EventsOf(p), f \in EventsOf(q) : e.n < f.n

\* EventsOf and InOrder of a concatenation.
LEMMA EventsOfConcat ==
    ASSUME NEW p \in Seq(Message), NEW q \in Seq(Message)
    PROVE  EventsOf(p \o q) = EventsOf(p) \cup EventsOf(q)
<1>1. /\ p \o q \in Seq(Message) /\ Len(p \o q) = Len(p) + Len(q)
      /\ Len(p) \in Nat /\ Len(q) \in Nat
      /\ \A i \in 1 .. Len(p) : (p \o q)[i] = p[i]
      /\ \A i \in 1 .. Len(q) : (p \o q)[Len(p) + i] = q[i]
  BY ConcatProperties
<1>2. ASSUME NEW m \in EventsOf(p \o q)
      PROVE  m \in EventsOf(p) \cup EventsOf(q)
  <2>0. p \o q \in Seq(Message)
    BY <1>1
  <2>1. PICK i \in 1 .. Len(p \o q) : IsEvent(m) /\ (p \o q)[i] = m
    BY <2>0, EventsIn
  <2>2. CASE i <= Len(p)
    <3>1. i \in 1 .. Len(p) /\ p[i] = m
      BY <1>1, <2>1, <2>2
    <3>2. QED
      BY <2>1, <3>1, EventsIn DEF IsEvent
  <2>3. CASE i > Len(p)
    <3>1. i - Len(p) \in 1 .. Len(q) /\ q[i - Len(p)] = m
      BY <1>1, <2>1, <2>3
    <3>2. QED
      BY <2>1, <3>1, EventsIn
  <2>4. QED
    BY <1>1, <2>1, <2>2, <2>3
<1>3. ASSUME NEW m \in EventsOf(p) \cup EventsOf(q)
      PROVE  m \in EventsOf(p \o q)
  <2>1. CASE m \in EventsOf(p)
    <3>1. PICK i \in 1 .. Len(p) : IsEvent(m) /\ p[i] = m
      BY <2>1, EventsIn
    <3>2. i \in 1 .. Len(p \o q) /\ (p \o q)[i] = m
      BY <1>1, <3>1
    <3>3. QED
      BY <1>1, <3>1, <3>2, EventsIn
  <2>2. CASE m \in EventsOf(q)
    <3>1. PICK i \in 1 .. Len(q) : IsEvent(m) /\ q[i] = m
      BY <2>2, EventsIn
    <3>2. Len(p) + i \in 1 .. Len(p \o q) /\ (p \o q)[Len(p) + i] = m
      BY <1>1, <3>1
    <3>3. QED
      BY <1>1, <3>1, <3>2, EventsIn
  <2>3. QED
    BY <2>1, <2>2
<1>4. QED
  BY <1>2, <1>3

LEMMA InOrderConcat ==
    ASSUME NEW p \in Seq(Message), NEW q \in Seq(Message)
    PROVE  InOrder(p \o q) <=> InOrder(p) /\ InOrder(q) /\ Before(p, q)
<1>1. /\ p \o q \in Seq(Message) /\ Len(p \o q) = Len(p) + Len(q)
      /\ Len(p) \in Nat /\ Len(q) \in Nat
      /\ DOMAIN (p \o q) = 1 .. Len(p) + Len(q)
      /\ DOMAIN p = 1 .. Len(p) /\ DOMAIN q = 1 .. Len(q)
      /\ \A i \in 1 .. Len(p) : (p \o q)[i] = p[i]
      /\ \A i \in 1 .. Len(q) : (p \o q)[Len(p) + i] = q[i]
  BY ConcatProperties, LenProperties
<1>2. ASSUME InOrder(p \o q)
      PROVE  InOrder(p) /\ InOrder(q) /\ Before(p, q)
  <2>1. InOrder(p)
    BY <1>1, <1>2 DEF InOrder
  <2>2. ASSUME NEW i \in 1 .. Len(q), NEW j \in 1 .. Len(q), i < j,
               IsEvent(q[i]), IsEvent(q[j])
        PROVE  q[i].n < q[j].n
    <3>1. /\ Len(p) + i \in DOMAIN (p \o q) /\ Len(p) + j \in DOMAIN (p \o q)
          /\ Len(p) + i < Len(p) + j
      BY <1>1, <2>2
    <3>2. (p \o q)[Len(p) + i] = q[i] /\ (p \o q)[Len(p) + j] = q[j]
      BY <1>1
    <3>3. QED
      BY <1>2, <2>2, <3>1, <3>2 DEF InOrder
  <2>3. ASSUME NEW e \in EventsOf(p), NEW f \in EventsOf(q)
        PROVE  e.n < f.n
    <3>1. PICK i \in 1 .. Len(p) : IsEvent(e) /\ p[i] = e
      BY EventsIn
    <3>2. PICK j \in 1 .. Len(q) : IsEvent(f) /\ q[j] = f
      BY EventsIn
    <3>3. /\ i \in DOMAIN (p \o q) /\ Len(p) + j \in DOMAIN (p \o q) /\ i < Len(p) + j
          /\ (p \o q)[i] = e /\ (p \o q)[Len(p) + j] = f
      BY <1>1, <3>1, <3>2
    <3>4. QED
      BY <1>2, <3>1, <3>2, <3>3 DEF InOrder
  <2>4. QED
    BY <1>1, <2>1, <2>2, <2>3 DEF InOrder, Before
<1>3. ASSUME InOrder(p), InOrder(q), Before(p, q),
             NEW i \in 1 .. Len(p) + Len(q), NEW j \in 1 .. Len(p) + Len(q), i < j,
             IsEvent((p \o q)[i]), IsEvent((p \o q)[j])
      PROVE  (p \o q)[i].n < (p \o q)[j].n
  <2>1. CASE j <= Len(p)
    BY <1>1, <1>3, <2>1 DEF InOrder
  <2>2. CASE j > Len(p)
    <3>1. j - Len(p) \in 1 .. Len(q) /\ (p \o q)[j] = q[j - Len(p)]
      BY <1>1, <2>2
    <3>2. CASE i > Len(p)
      <4>1. i - Len(p) \in 1 .. Len(q) /\ (p \o q)[i] = q[i - Len(p)]
        BY <1>1, <3>2
      <4>2. QED
        BY <1>1, <1>3, <3>1, <4>1 DEF InOrder
    <3>3. CASE i <= Len(p)
      <4>1. (p \o q)[i] \in EventsOf(p) /\ (p \o q)[j] \in EventsOf(q)
        BY <1>1, <1>3, <3>1, <3>3, EventsIn
      <4>2. QED
        BY <1>3, <4>1 DEF Before
    <3>4. QED
      BY <1>1, <3>2, <3>3
  <2>3. QED
    BY <1>1, <2>1, <2>2
<1>4. QED
  BY <1>1, <1>2, <1>3 DEF InOrder

LEMMA AppendToSecond ==
    ASSUME NEW p \in Seq(Message), NEW q \in Seq(Message), NEW m \in Message
    PROVE  p \o Append(q, m) = Append(p \o q, m)
<1>1. /\ p \o Append(q, m) \in Seq(Message) /\ Append(p \o q, m) \in Seq(Message)
      /\ Len(p) \in Nat /\ Len(q) \in Nat
      /\ Len(p \o Append(q, m)) = Len(p) + Len(q) + 1
      /\ Len(Append(p \o q, m)) = Len(p) + Len(q) + 1
  OBVIOUS
<1>2. ASSUME NEW i \in 1 .. Len(p) + Len(q) + 1
      PROVE  (p \o Append(q, m))[i] = Append(p \o q, m)[i]
  OBVIOUS
<1>3. QED
  BY <1>1, <1>2, SeqEqual

LEMMA Associative ==
    ASSUME NEW p \in Seq(Message), NEW q \in Seq(Message), NEW r \in Seq(Message)
    PROVE  p \o (q \o r) = (p \o q) \o r
BY ConcatAssociative

\* A beginning of a sequence, and its rest.
LEMMA PrefixOf ==
    ASSUME NEW p \in Seq(Message), NEW k \in 0 .. Len(p)
    PROVE  \E q \in Seq(Message) :
             SubSeq(p, 1, k) \o q = p /\ SubSeq(p, 1, k) \in Seq(Message)
<1> DEFINE a == SubSeq(p, 1, k)
           q == SubSeq(p, k + 1, Len(p))
<1>1. Len(p) \in Nat /\ k \in Nat /\ k <= Len(p) /\ \A i \in 1 .. Len(p) : p[i] \in Message
  BY ElementOfSeq, LenProperties
<1>2. a \in Seq(Message) /\ Len(a) = k /\ \A i \in 1 .. k : a[i] = p[i]
  BY <1>1, SubSeqProperties
<1>3. /\ q \in Seq(Message) /\ Len(q) = Len(p) - k
      /\ \A i \in 1 .. Len(p) - k : q[i] = p[k + i]
  BY <1>1, SubSeqProperties
<1> HIDE DEF a, q
<1>4. /\ a \o q \in Seq(Message) /\ Len(a \o q) = Len(p)
      /\ \A i \in 1 .. Len(p) : (a \o q)[i] = IF i <= k THEN a[i] ELSE q[i - k]
  <2>1. Len(a) + Len(q) = Len(p)
    BY <1>1, <1>2, <1>3
  <2>2. /\ a \o q \in Seq(Message) /\ Len(a \o q) = Len(a) + Len(q)
        /\ \A i \in 1 .. Len(a) + Len(q) :
             (a \o q)[i] = IF i <= Len(a) THEN a[i] ELSE q[i - Len(a)]
    BY <1>2, <1>3, ConcatProperties
  <2>3. QED
    BY <1>2, <2>1, <2>2
<1>5. ASSUME NEW i \in 1 .. Len(p) PROVE (a \o q)[i] = p[i]
  <2>1. CASE i <= k
    BY <1>1, <1>2, <1>4, <2>1
  <2>2. CASE ~(i <= k)
    <3>1. i - k \in 1 .. Len(p) - k /\ k + (i - k) = i
      BY <1>1, <2>2
    <3>2. QED
      BY <1>3, <1>4, <2>2, <3>1
  <2>3. QED
    BY <2>1, <2>2
<1>6. a \o q = p
  BY <1>4, <1>5, SeqEqual
<1>7. QED
  BY <1>2, <1>3, <1>6 DEF a

LEMMA FirstOfConcat ==
    ASSUME NEW p \in Seq(Message), NEW q \in Seq(Message), p # <<>>
    PROVE  (p \o q)[1] = p[1]
<1>1. Len(p) \in Nat \ {0} /\ Len(q) \in Nat
  BY EmptySeq, LenProperties
<1>2. QED
  BY <1>1, ConcatProperties

LEMMA SingleMessage ==
    ASSUME NEW m \in Message
    PROVE  /\ <<m>> \in Seq(Message) /\ InOrder(<<m>>)
           /\ EventsOf(<<m>>) = IF IsEvent(m) THEN {m} ELSE {}
<1>1. <<m>> \in Seq(Message) /\ Len(<<m>>) = 1 /\ <<m>>[1] = m /\ DOMAIN <<m>> = {1}
  OBVIOUS
<1>2. InOrder(<<m>>)
  BY <1>1 DEF InOrder
<1>3. \A x : x \in EventsOf(<<m>>) <=> IsEvent(x) /\ x = m
  BY <1>1 DEF EventsOf
<1>4. QED
  BY <1>1, <1>2, <1>3

LEMMA EventsOfAppend ==
    ASSUME NEW q \in Seq(Message), NEW m \in Message
    PROVE  EventsOf(Append(q, m)) \subseteq EventsOf(q) \cup {m}
<1>1. Append(q, m) = q \o <<m>>
  BY AppendIsConcat
<1>2. <<m>> \in Seq(Message) /\ EventsOf(<<m>>) \subseteq {m}
  BY SingleMessage
<1>3. EventsOf(q \o <<m>>) = EventsOf(q) \cup EventsOf(<<m>>)
  BY <1>2, EventsOfConcat
<1>4. QED
  BY <1>1, <1>2, <1>3

LEMMA NoMessages ==
    <<>> \in Seq(Message) /\ InOrder(<<>>) /\ EventsOf(<<>>) = {}
<1>1. <<>> \in Seq(Message) /\ Len(<<>>) = 0 /\ DOMAIN <<>> = {}
  OBVIOUS
<1>2. QED
  BY <1>1 DEF InOrder, EventsOf

\* What the writer takes from the buffer, or fanout from the inbox, only moves
\* along the line.
LEMMA HeadMoves ==
    ASSUME NEW p \in Seq(Message), NEW q \in Seq(Message), q # <<>>
    PROVE  /\ Head(q) \in Message /\ Tail(q) \in Seq(Message) /\ Append(p, Head(q)) \in Seq(Message)
           /\ Append(p, Head(q)) \o Tail(q) = p \o q
<1>1. /\ Head(q) \in Message /\ Head(q) = q[1] /\ Tail(q) \in Seq(Message)
      /\ Len(q) \in Nat \ {0} /\ Len(p) \in Nat /\ Len(Tail(q)) = Len(q) - 1
      /\ \A i \in 1 .. Len(q) - 1 : Tail(q)[i] = q[i + 1]
  BY HeadTailProperties, EmptySeq, LenProperties
<1> DEFINE a == Append(p, Head(q))
<1>2. /\ a \in Seq(Message) /\ Len(a) = Len(p) + 1 /\ a[Len(p) + 1] = q[1]
      /\ \A i \in 1 .. Len(p) : a[i] = p[i]
  BY <1>1
<1> HIDE DEF a
<1>3. /\ a \o Tail(q) \in Seq(Message) /\ Len(a \o Tail(q)) = Len(p) + Len(q)
      /\ \A i \in 1 .. Len(p) + Len(q) : (a \o Tail(q))[i] =
           IF i <= Len(p) + 1 THEN a[i] ELSE Tail(q)[i - (Len(p) + 1)]
  <2>1. Len(a) + Len(Tail(q)) = Len(p) + Len(q)
    BY <1>1, <1>2
  <2>2. /\ a \o Tail(q) \in Seq(Message) /\ Len(a \o Tail(q)) = Len(a) + Len(Tail(q))
        /\ \A i \in 1 .. Len(a) + Len(Tail(q)) : (a \o Tail(q))[i] =
             IF i <= Len(a) THEN a[i] ELSE Tail(q)[i - Len(a)]
    BY <1>1, <1>2, ConcatProperties
  <2>3. QED
    BY <1>2, <2>1, <2>2
<1>n. /\ p \o q \in Seq(Message) /\ Len(p \o q) = Len(p) + Len(q)
      /\ \A i \in 1 .. Len(p) + Len(q) : (p \o q)[i] =
           IF i <= Len(p) THEN p[i] ELSE q[i - Len(p)]
  BY ConcatProperties
<1>4. ASSUME NEW i \in 1 .. Len(p) + Len(q)
      PROVE  (a \o Tail(q))[i] = (p \o q)[i]
  <2>1. CASE i <= Len(p)
    BY <1>1, <1>2, <1>3, <1>n, <2>1
  <2>2. CASE i = Len(p) + 1
    <3>1. (a \o Tail(q))[i] = a[i] /\ (p \o q)[i] = q[i - Len(p)] /\ i - Len(p) = 1
      BY <1>1, <1>3, <1>n, <2>2
    <3>2. QED
      BY <1>2, <2>2, <3>1
  <2>3. CASE i > Len(p) + 1
    <3>1. /\ (a \o Tail(q))[i] = Tail(q)[i - (Len(p) + 1)]
          /\ (p \o q)[i] = q[i - Len(p)]
          /\ i - (Len(p) + 1) \in 1 .. Len(q) - 1
          /\ (i - (Len(p) + 1)) + 1 = i - Len(p)
      BY <1>1, <1>3, <1>n, <2>3
    <3>2. QED
      BY <1>1, <3>1
  <2>4. i <= Len(p) \/ i = Len(p) + 1 \/ i > Len(p) + 1
    <3>1. i \in Int /\ Len(p) \in Int
      BY <1>1
    <3>2. QED
      BY <3>1
  <2>5. QED
    BY <2>1, <2>2, <2>3, <2>4
<1>5. a \o Tail(q) = p \o q
  BY <1>3, <1>n, <1>4, SeqEqual
<1>6. QED
  BY <1>1, <1>2, <1>5 DEF a

\* What is left when the first message of the second part is dropped.
LEMMA HeadDropped ==
    ASSUME NEW p \in Seq(Message), NEW q \in Seq(Message), q # <<>>
    PROVE  /\ EventsOf(p \o Tail(q)) \subseteq EventsOf(p \o q)
           /\ InOrder(p \o q) => InOrder(p \o Tail(q))
<1>0. <<>> \in Seq(Message)
  BY NoMessages
<1>1. /\ Head(q) \in Message /\ Tail(q) \in Seq(Message)
      /\ <<Head(q)>> \in Seq(Message) /\ <<Head(q)>> \o Tail(q) = q
  <2>1. /\ Head(q) \in Message /\ Tail(q) \in Seq(Message)
        /\ Append(<<>>, Head(q)) \o Tail(q) = <<>> \o q
    BY <1>0, HeadMoves
  <2>2. <<>> \o q = q
    BY ConcatEmptySeq
  <2>3. Append(<<>>, Head(q)) = <<Head(q)>>
    BY <2>1
  <2>4. <<Head(q)>> \in Seq(Message)
    BY <2>1, SingleMessage
  <2>5. QED
    BY <2>1, <2>2, <2>3, <2>4
<1>2. EventsOf(q) = EventsOf(<<Head(q)>>) \cup EventsOf(Tail(q))
  BY <1>1, EventsOfConcat
<1>3. EventsOf(p \o Tail(q)) = EventsOf(p) \cup EventsOf(Tail(q))
  BY <1>1, EventsOfConcat
<1>4. EventsOf(p \o q) = EventsOf(p) \cup EventsOf(q)
  BY EventsOfConcat
<1>5. ASSUME InOrder(p \o q) PROVE InOrder(p \o Tail(q))
  <2>1. InOrder(p) /\ InOrder(q) /\ Before(p, q)
    BY <1>5, InOrderConcat
  <2>2. InOrder(Tail(q))
    BY <1>1, <2>1, InOrderConcat
  <2>3. Before(p, Tail(q))
    BY <1>2, <2>1 DEF Before
  <2>4. QED
    BY <1>1, <2>1, <2>2, <2>3, InOrderConcat
<1>6. QED
  BY <1>2, <1>3, <1>4, <1>5

\* The events of q are events of t, each once and in order.
Truthful(q, t) == InOrder(q) /\ EventsOf(q) \subseteq EventsOf(t)

\* The beginning of a truthful sequence is truthful, and of a gapless one gapless.
LEMMA TruthfulPrefix ==
    ASSUME NEW p \in Seq(Message), NEW q \in Seq(Message), NEW t, Truthful(p \o q, t)
    PROVE  Truthful(p, t)
BY EventsOfConcat, InOrderConcat DEF Truthful

LEMMA GaplessPrefix ==
    ASSUME NEW p \in Seq(Message), NEW q \in Seq(Message), NEW t \in Seq(Message),
           InOrder(p \o q), Gapless(p \o q, t)
    PROVE  Gapless(p, t)
<1>1. EventsOf(p \o q) = EventsOf(p) \cup EventsOf(q) /\ Before(p, q)
  BY EventsOfConcat, InOrderConcat
<1>2. ASSUME NEW e \in EventsOf(t), NEW f \in EventsOf(p), e.n <= f.n
      PROVE  e \in EventsOf(p)
  <2>1. e \in EventsOf(p) \cup EventsOf(q)
    BY <1>1, <1>2 DEF Gapless
  <2>2. CASE e \in EventsOf(q)
    <3>1. f.n < e.n
      BY <1>1, <2>2 DEF Before
    <3>2. QED
      BY <1>2, <3>1, EventNumbers
  <2>3. QED
    BY <2>1, <2>2
<1>3. QED
  BY <1>2 DEF Gapless

\* A message that is no event changes nothing about the events around it.
LEMMA NoEventBetween ==
    ASSUME NEW p \in Seq(Message), NEW q \in Seq(Message), NEW m \in Message, ~IsEvent(m)
    PROVE  /\ EventsOf(Append(p, m) \o q) = EventsOf(p \o q)
           /\ InOrder(p \o q) => InOrder(Append(p, m) \o q)
<1>1. /\ Append(p, m) = p \o <<m>> /\ Append(p, m) \in Seq(Message)
      /\ <<m>> \in Seq(Message) /\ InOrder(<<m>>) /\ EventsOf(<<m>>) = {}
  BY AppendIsConcat, AppendProperties, SingleMessage
<1>2. EventsOf(Append(p, m)) = EventsOf(p)
  <2>1. <<m>> \in Seq(Message)
    BY <1>1
  <2>2. EventsOf(p \o <<m>>) = EventsOf(p) \cup EventsOf(<<m>>)
    BY <2>1, EventsOfConcat
  <2>3. QED
    BY <1>1, <2>2
<1>3. /\ EventsOf(Append(p, m) \o q) = EventsOf(p) \cup EventsOf(q)
      /\ EventsOf(p \o q) = EventsOf(p) \cup EventsOf(q)
  BY <1>1, <1>2, EventsOfConcat
<1>4. ASSUME InOrder(p \o q) PROVE InOrder(Append(p, m) \o q)
  <2>1. InOrder(p) /\ InOrder(q) /\ Before(p, q)
    BY <1>4, InOrderConcat
  <2>2. Before(p, <<m>>) /\ Before(Append(p, m), q)
    BY <1>1, <1>2, <2>1 DEF Before
  <2>3. InOrder(Append(p, m))
    BY <1>1, <2>1, <2>2, InOrderConcat
  <2>4. QED
    BY <1>1, <2>1, <2>2, <2>3, InOrderConcat
<1>5. QED
  BY <1>3, <1>4

\* The next event, at the end of what was told and of a stream.
LEMMA NextEvent ==
    ASSUME NEW q \in Seq(Message), NEW t \in Seq(Message), NEW m \in Message, IsEvent(m),
           Truthful(q, t), \A e \in EventsOf(t) : e.n < m.n
    PROVE  /\ EventsOf(Append(t, m)) = EventsOf(t) \cup {m}
           /\ EventsOf(Append(q, m)) = EventsOf(q) \cup {m}
           /\ Truthful(q, Append(t, m)) /\ Truthful(Append(q, m), Append(t, m))
           /\ Gapless(q, t) => Gapless(q, Append(t, m))
           /\ Gapless(q, t) /\ EventsOf(t) \subseteq EventsOf(q) =>
                Gapless(Append(q, m), Append(t, m))
<1>1. /\ Append(q, m) = q \o <<m>> /\ Append(t, m) = t \o <<m>>
      /\ <<m>> \in Seq(Message) /\ InOrder(<<m>>) /\ EventsOf(<<m>>) = {m}
  BY AppendIsConcat, SingleMessage
<1>2. /\ EventsOf(Append(q, m)) = EventsOf(q) \cup {m}
      /\ EventsOf(Append(t, m)) = EventsOf(t) \cup {m}
  BY <1>1, EventsOfConcat
<1>3. \A e \in EventsOf(q) : e.n < m.n /\ e.n \in Nat /\ m.n \in Nat
  <2>1. <<m>> \in Seq(Message) /\ m \in EventsOf(<<m>>)
    BY <1>1
  <2>2. m.n \in Nat
    BY <2>1, EventNumbers
  <2>3. \A e \in EventsOf(q) : e.n \in Nat
    BY EventNumbers
  <2>4. QED
    BY <2>2, <2>3 DEF Truthful
<1>4. InOrder(q \o <<m>>)
  <2>1. Before(q, <<m>>)
    BY <1>1, <1>3 DEF Before
  <2>2. QED
    BY <1>1, <2>1, InOrderConcat DEF Truthful
<1>5. ASSUME Gapless(q, t) PROVE Gapless(q, Append(t, m))
  <2>1. ASSUME NEW e \in EventsOf(Append(t, m)), NEW f \in EventsOf(q), e.n <= f.n
        PROVE  e \in EventsOf(q)
    <3>1. e # m
      BY <1>3, <2>1
    <3>2. QED
      BY <1>2, <1>5, <2>1, <3>1 DEF Gapless
  <2>2. QED
    BY <2>1 DEF Gapless
<1>6. ASSUME EventsOf(t) \subseteq EventsOf(q)
      PROVE  Gapless(Append(q, m), Append(t, m))
  BY <1>2, <1>6 DEF Gapless
<1>7. Truthful(q, Append(t, m)) /\ Truthful(Append(q, m), Append(t, m))
  BY <1>1, <1>2, <1>4 DEF Truthful
<1>8. QED
  BY <1>2, <1>5, <1>6, <1>7

-----------------------------------------------------------------------------
(* The stream of a connection.                                             *)

\* What was sent on a connection, and what is still to be sent.
Sent(c) == wire[c] \o buf[c]
Stream(c) == wire[c] \o buf[c] \o inbox[c]

\* The stream of a connection is truthful; until its close begins it is also
\* gapless, complete while it is subscribed, and begins with "ready", which
\* starts the writer.  Nothing is sent before, nor told before Subscribe.
StreamOf(c) ==
    /\ Truthful(Stream(c), told[c])
    /\ \A m \in EventsOf(told[c]) : m.n <= events
    /\ c \notin closed =>
         /\ Gapless(Stream(c), told[c])
         /\ c \in subs => EventsOf(told[c]) \subseteq EventsOf(Stream(c))
         /\ writer[c] # "off" => Sent(c) # <<>> /\ Sent(c)[1] = Ready
    /\ writer[c] = "off" => wire[c] = <<>> /\ buf[c] = <<>>
    /\ h[c] \in Reading => writer[c] # "off"
    /\ h[c] \in {"none", "accepted", "subscribe"} =>
         c \notin subs /\ told[c] = <<>> /\ inbox[c] = <<>>

StreamInv == \A c \in Conns : StreamOf(c)

LEMMA StreamTypes ==
    ASSUME TypeInv, NEW c \in Conns
    PROVE  /\ inbox[c] \in Seq(Message) /\ buf[c] \in Seq(Message)
           /\ wire[c] \in Seq(Message) /\ told[c] \in Seq(Message)
           /\ Sent(c) \in Seq(Message) /\ Stream(c) \in Seq(Message)
           /\ Stream(c) = Sent(c) \o inbox[c]
<1>1. /\ inbox[c] \in Seq(Message) /\ buf[c] \in Seq(Message)
      /\ wire[c] \in Seq(Message) /\ told[c] \in Seq(Message)
  BY DEF TypeInv, TypeOK, Queues
<1>2. Sent(c) \in Seq(Message)
  BY <1>1, ConcatProperties DEF Sent
<1>3. Stream(c) = Sent(c) \o inbox[c]
  BY DEF Stream, Sent
<1>4. Stream(c) \in Seq(Message)
  BY <1>1, <1>2, <1>3, ConcatProperties
<1>5. QED
  BY <1>1, <1>2, <1>3, <1>4

\* The stream of a connection that a step does not reach, but perhaps closes.
LEMMA StreamStays ==
    ASSUME NEW c \in Conns, StreamOf(c), events' = events,
           inbox'[c] = inbox[c], buf'[c] = buf[c], wire'[c] = wire[c], told'[c] = told[c],
           writer'[c] = "off" <=> writer[c] = "off",
           closed \subseteq closed', c \in subs' => c \in subs,
           h'[c] \in Reading => h[c] \in Reading,
           h'[c] \in {"none", "accepted", "subscribe"} =>
               h[c] \in {"none", "accepted", "subscribe"}
    PROVE  StreamOf(c)'
BY DEF StreamOf, Stream, Sent

\* What Send does to the stream: the message joins it, or is lost on a
\* connection whose close has begun.
LEMMA SendAppends ==
    ASSUME TypeInv, NEW c \in Conns, NEW m \in Message, Send(c, m), wire' = wire
    PROVE  Sent(c)' = Append(Sent(c), m) \/ (c \in closed /\ Sent(c)' = Sent(c))
<1>1. buf'[c] = Append(buf[c], m) \/ (c \in closed /\ buf'[c] = buf[c])
  BY DEF Send, TypeInv, TypeOK, Queues
<1>2. wire[c] \o Append(buf[c], m) = Append(wire[c] \o buf[c], m)
  BY StreamTypes, AppendToSecond
<1>3. QED
  BY <1>1, <1>2 DEF Sent

\* "ready" and the answers are no events; "ready" is the first message.
LEMMA SendKeepsStream ==
    ASSUME TypeInv, NEW c \in Conns, StreamOf(c), NEW m \in Message, ~IsEvent(m), Send(c, m),
           UNCHANGED <<wire, inbox, told, events, subs, closed>>,
           h'[c] \in Reading, writer'[c] # "off", writer[c] = "off" => m = Ready
    PROVE  StreamOf(c)'
<1>0. /\ Sent(c) \in Seq(Message) /\ inbox[c] \in Seq(Message) /\ told[c] \in Seq(Message)
      /\ Stream(c) = Sent(c) \o inbox[c] /\ Stream(c)' = Sent(c)' \o inbox[c]
  BY StreamTypes DEF Stream, Sent
<1>1. CASE Sent(c)' = Append(Sent(c), m)
  <2>1. /\ EventsOf(Stream(c)') = EventsOf(Stream(c))
        /\ InOrder(Stream(c)) => InOrder(Stream(c)')
    BY <1>0, <1>1, NoEventBetween
  <2>2. Truthful(Stream(c), told[c])'
    BY <2>1 DEF StreamOf, Truthful
  <2>3. c \notin closed => Gapless(Stream(c), told[c])'
    BY <2>1 DEF StreamOf, Gapless
  <2>4. c \notin closed /\ c \in subs => (EventsOf(told[c]) \subseteq EventsOf(Stream(c)))'
    BY <2>1 DEF StreamOf
  <2>5. ASSUME c \notin closed PROVE Sent(c)' # <<>> /\ Sent(c)'[1] = Ready
    <3>1. CASE writer[c] = "off"
      <4>1. Sent(c) = <<>> /\ m = Ready
        BY <3>1 DEF StreamOf, Sent
      <4>2. QED
        BY <1>1, <4>1
    <3>2. CASE writer[c] # "off"
      <4>1. Sent(c) # <<>> /\ Sent(c)[1] = Ready
        BY <2>5, <3>2 DEF StreamOf
      <4>2. QED
        BY <1>0, <1>1, <4>1, AppendProperties, EmptySeq
    <3>3. QED
      BY <3>1, <3>2
  <2>6. QED
    BY <2>2, <2>3, <2>4, <2>5 DEF StreamOf, Reading
<1>2. CASE c \in closed /\ Sent(c)' = Sent(c)
  BY <1>0, <1>2 DEF StreamOf, Reading
<1>3. QED
  BY <1>1, <1>2, SendAppends

LEMMA ReadyKeepsStream ==
    ASSUME TypeInv, RegInv, NEW c \in Conns, StreamOf(c), SendReady(c)
    PROVE  StreamOf(c)'
<1>1. /\ h'[c] = "serve" /\ writer'[c] = "on"
      /\ UNCHANGED <<wire, inbox, told, events, subs, closed>> /\ Send(c, Ready)
  BY DEF SendReady, Goes, TypeInv, TypeOK, pub, redis
<1>2. Ready \in Message /\ ~IsEvent(Ready)
  BY MessageTypes DEF Ready, IsEvent
<1>3. QED
  BY <1>1, <1>2, SendKeepsStream DEF Reading

LEMMA RespondKeepsStream ==
    ASSUME TypeInv, NEW c \in Conns, StreamOf(c), Respond(c)
    PROVE  StreamOf(c)'
<1>1. /\ h[c] = "respond" /\ h'[c] = "serve" /\ writer' = writer
      /\ UNCHANGED <<wire, inbox, told, events, subs, closed>> /\ Send(c, Response(current[c]))
  BY DEF Respond, Goes, TypeInv, TypeOK, pub, redis, sockets
<1>2. writer[c] # "off"
  BY <1>1 DEF StreamOf, Reading
<1>3. Response(current[c]) \in Message /\ ~IsEvent(Response(current[c]))
  BY MessageTypes DEF Response, IsEvent, TypeInv, TypeOK
<1>4. QED
  BY <1>1, <1>2, <1>3, SendKeepsStream DEF Reading

\* fanout moves an event along the stream, or loses it when close has begun.
LEMMA FanoutKeepsStream ==
    ASSUME TypeInv, NEW c \in Conns, StreamOf(c), Fanout(c) \/ EventLost(c)
    PROVE  StreamOf(c)'
<1>0. /\ h' = h /\ inbox[c] # <<>> /\ inbox'[c] = Tail(inbox[c])
      /\ UNCHANGED <<wire, told, events, subs, closed, writer>>
  BY DEF Fanout, FanoutReady, EventLost, TypeInv, TypeOK, HandsOK, Queues, redis, sockets, out
<1>1. /\ Sent(c) \in Seq(Message) /\ inbox[c] \in Seq(Message) /\ told[c] \in Seq(Message)
      /\ Stream(c) = Sent(c) \o inbox[c] /\ Stream(c)' = Sent(c)' \o Tail(inbox[c])
  BY <1>0, StreamTypes DEF Stream, Sent
<1>2. Head(inbox[c]) \in Message /\ Append(Sent(c), Head(inbox[c])) \o Tail(inbox[c]) = Stream(c)
  BY <1>0, <1>1, HeadMoves
<1>3. \/ Sent(c)' = Append(Sent(c), Head(inbox[c])) /\ writer[c] # "off"
      \/ /\ c \in closed /\ Sent(c)' = Sent(c)
         /\ wire[c] = <<>> /\ buf[c] = <<>> => wire'[c] = <<>> /\ buf'[c] = <<>>
  <2>1. CASE Fanout(c)
    <3>1. Send(c, Head(inbox[c])) /\ writer[c] # "off"
      BY <2>1 DEF Fanout, FanoutReady
    <3>2. buf'[c] = Append(buf[c], Head(inbox[c])) \/ (c \in closed /\ buf'[c] = buf[c])
      BY <3>1 DEF Send, TypeInv, TypeOK, Queues
    <3>3. wire[c] \o Append(buf[c], Head(inbox[c])) = Append(wire[c] \o buf[c], Head(inbox[c]))
      BY <1>2, StreamTypes, AppendToSecond
    <3>4. QED
      BY <1>0, <3>1, <3>2, <3>3 DEF Sent
  <2>2. CASE EventLost(c)
    BY <2>2 DEF EventLost, Sent, TypeInv, TypeOK, out
  <2>3. QED
    BY <2>1, <2>2
<1>4. h[c] \notin {"none", "accepted", "subscribe"}
  BY <1>0 DEF StreamOf
<1>5. CASE Sent(c)' = Append(Sent(c), Head(inbox[c])) /\ writer[c] # "off"
  <2>1. Stream(c)' = Stream(c)
    BY <1>1, <1>2, <1>5
  <2>2. c \notin closed => Sent(c)' # <<>> /\ Sent(c)'[1] = Ready
    BY <1>1, <1>2, <1>5, AppendProperties, EmptySeq DEF StreamOf
  <2>3. QED
    BY <1>0, <1>4, <1>5, <2>1, <2>2 DEF StreamOf
<1>6. CASE /\ c \in closed /\ Sent(c)' = Sent(c)
           /\ wire[c] = <<>> /\ buf[c] = <<>> => wire'[c] = <<>> /\ buf'[c] = <<>>
  <2>1. Truthful(Stream(c), told[c])'
    BY <1>0, <1>1, <1>6, HeadDropped DEF StreamOf, Truthful
  <2>2. QED
    BY <1>0, <1>4, <1>6, <2>1 DEF StreamOf
<1>7. QED
  BY <1>3, <1>5, <1>6

\* writePump moves a message along the stream.
LEMMA WriteKeepsStream ==
    ASSUME TypeInv, NEW c \in Conns, StreamOf(c), WriteMessage(c)
    PROVE  StreamOf(c)' /\ Sent(c)' = Sent(c)
<1>1. /\ h' = h /\ UNCHANGED <<writer, closed, inbox, told, events, subs>>
      /\ writer[c] # "off" /\ buf[c] # <<>>
      /\ wire'[c] = Append(wire[c], Head(buf[c])) /\ buf'[c] = Tail(buf[c])
  BY DEF WriteMessage, Pumps, TypeInv, TypeOK, Queues, redis, sockets, pub
<1>2. Append(wire[c], Head(buf[c])) \o Tail(buf[c]) = Sent(c)
  <2>1. wire[c] \in Seq(Message) /\ buf[c] \in Seq(Message) /\ buf[c] # <<>>
    BY <1>1, StreamTypes
  <2>2. QED
    BY <2>1, HeadMoves DEF Sent
<1>3. Sent(c)' = Sent(c) /\ Stream(c)' = Stream(c)
  BY <1>1, <1>2 DEF Sent, Stream
<1>4. QED
  BY <1>1, <1>3 DEF StreamOf

\* Every other connection keeps its stream.
LEMMA DeliveryElsewhere ==
    ASSUME TypeInv, NEW c \in Conns, Delivery(c), NEW d \in Conns, d # c
    PROVE  /\ inbox'[d] = inbox[d] /\ buf'[d] = buf[d] /\ wire'[d] = wire[d]
           /\ UNCHANGED told /\ writer'[d] = writer[d] /\ h'[d] = h[d]
           /\ current'[d] = current[d]
           /\ UNCHANGED <<events, subs>>
<1> USE DEF TypeInv, TypeOK, Queues, Goes, redis, sockets, pub, out, requests
<1>1. ASSUME NEW m, Send(c, m) PROVE buf'[d] = buf[d]
  BY <1>1 DEF Send
<1>2. CASE SendReady(c) BY <1>1, <1>2 DEF SendReady
<1>3. CASE ReadMessage(c) BY <1>3 DEF ReadMessage
<1>4. CASE HandleInbound(c) BY <1>4 DEF HandleInbound
<1>5. CASE Respond(c) BY <1>1, <1>5 DEF Respond
<1>6. CASE AnswerJams(c) BY <1>6 DEF AnswerJams
<1>7. CASE AnswerLost(c) BY <1>7 DEF AnswerLost
<1>8. CASE Fanout(c) BY <1>1, <1>8 DEF Fanout
<1>9. CASE EventJams(c) BY <1>9 DEF EventJams
<1>10. CASE EventLost(c) BY <1>10 DEF EventLost
<1>11. CASE WriteMessage(c) BY <1>11 DEF WriteMessage
<1>12. CASE WriterMoves(c)
  <2>1. PICK to \in {"expired", "closing", "ended"} : WriterGoes(c, to)
    BY <1>12 DEF WriterMoves, WriteFails, TokenExpires, ExpiryCloses, WriterClosed, WritePumpEnds
  <2>2. QED
    BY <2>1 DEF WriterGoes
<1>13. QED
  BY <1>2, <1>3, <1>4, <1>5, <1>6, <1>7, <1>8, <1>9, <1>10, <1>11, <1>12
     DEF Delivery, ReaderStep, FanoutStep

\* A step that sends nothing.
Quiet(c) ==
    ReadMessage(c) \/ HandleInbound(c) \/ AnswerJams(c) \/ AnswerLost(c) \/ EventJams(c)
        \/ WriterMoves(c)

LEMMA QuietFrame ==
    ASSUME TypeInv, NEW c \in Conns, Quiet(c)
    PROVE  /\ UNCHANGED <<inbox, buf, wire, told, events, subs>>
           /\ writer'[c] = "off" <=> writer[c] = "off"
<1>1. CASE ReadMessage(c) \/ HandleInbound(c) \/ AnswerJams(c) \/ AnswerLost(c) \/ EventJams(c)
  BY <1>1 DEF ReadMessage, HandleInbound, AnswerJams, AnswerLost, EventJams, pub, out, redis,
              sockets
<1>2. CASE WriterMoves(c)
  <2>1. PICK to \in {"expired", "closing", "ended"} : WriterGoes(c, to) /\ writer[c] # "off"
    BY <1>2 DEF WriterMoves, WriteFails, TokenExpires, ExpiryCloses, WriterClosed, WritePumpEnds,
                Pumps
  <2>2. QED
    BY <2>1 DEF WriterGoes, pub, out, TypeInv, TypeOK
<1>3. QED
  BY <1>1, <1>2 DEF Quiet

LEMMA DeliveryKeepsStream ==
    ASSUME TypeInv, RegInv, StreamInv, NEW c \in Conns, Delivery(c)
    PROVE  StreamInv'
<1>1. closed' = closed
  BY DeliveryFrame
<1>2. ASSUME NEW d \in Conns, d # c PROVE StreamOf(d)'
  <2>1. /\ inbox'[d] = inbox[d] /\ buf'[d] = buf[d] /\ wire'[d] = wire[d]
        /\ UNCHANGED told /\ writer'[d] = writer[d] /\ h'[d] = h[d]
        /\ UNCHANGED <<events, subs>>
    BY <1>2, DeliveryElsewhere
  <2>2. QED
    BY <1>1, <2>1, StreamStays DEF StreamInv
<1>3. StreamOf(c)
  BY DEF StreamInv
<1>4. StreamOf(c)'
  <2>1. CASE Quiet(c)
    <3>1. h'[c] \in Reading => h[c] \in Reading
      BY <2>1 DEF Quiet, ReadMessage, HandleInbound, AnswerJams, AnswerLost, EventJams, WriterMoves,
                  WriteFails, TokenExpires, ExpiryCloses, WriterClosed, WritePumpEnds, WriterGoes,
                  Goes, Reading
    <3>2. h'[c] = h[c] \/ h'[c] \notin {"none", "accepted", "subscribe"}
      BY DeliveryFrame DEF Reading
    <3>3. QED
      BY <1>1, <1>3, <2>1, <3>1, <3>2, QuietFrame, StreamStays
  <2>2. QED
    BY <1>3, <2>1, ReadyKeepsStream, RespondKeepsStream, FanoutKeepsStream, WriteKeepsStream
       DEF Delivery, ReaderStep, FanoutStep, Quiet
<1>5. QED
  BY <1>2, <1>4 DEF StreamInv

\* An event joins what was told to a connection it reaches, and its stream.
LEMMA PublishKeepsStream ==
    ASSUME TypeInv, StreamInv, NEW u \in Users, Publish(u)
    PROVE  StreamInv'
<1>0. PICK r \in effective \cup {NoRequest}, reached \in SUBSET {c \in subs : Owner[c] = u} :
        LET After(q) == [c \in Conns |-> IF c \in reached
                                         THEN Append(q[c], Event(r, events'))
                                         ELSE q[c]]
        IN  inbox' = After(inbox) /\ told' = After(told)
  BY DEF Publish
<1> DEFINE m == Event(r, events')
<1>1. /\ events' = events + 1 /\ events \in Nat /\ events' \in 0 .. MaxEvents
      /\ UNCHANGED <<h, closed, writer, buf, wire, subs>>
  BY GatewayAssumption DEF Publish, TypeInv, TypeOK, GatewayAssumption, out, redis, sockets
<1>2. m \in Message /\ IsEvent(m) /\ m.n = events + 1
  <2>1. r \in Requests \cup {NoRequest}
    BY DEF TypeInv, TypeOK
  <2>2. QED
    BY <1>1, <2>1, MessageTypes DEF Event, IsEvent
<1>3. \A c \in Conns :
        \/ c \in subs /\ inbox'[c] = Append(inbox[c], m) /\ told'[c] = Append(told[c], m)
        \/ inbox'[c] = inbox[c] /\ told'[c] = told[c]
  BY <1>0
<1> HIDE DEF m
<1>4. ASSUME NEW c \in Conns, inbox'[c] = inbox[c], told'[c] = told[c]
      PROVE  StreamOf(c)'
  <2>1. \A e \in EventsOf(told[c]) : e.n \in Nat /\ e.n <= events
    BY StreamTypes, EventNumbers DEF StreamInv, StreamOf
  <2>2. \A e \in EventsOf(told[c]) : e.n <= events'
    BY <1>1, <2>1
  <2>3. QED
    BY <1>1, <1>4, <2>2 DEF StreamInv, StreamOf, Stream, Sent
<1>5. ASSUME NEW c \in Conns, c \in subs,
             inbox'[c] = Append(inbox[c], m), told'[c] = Append(told[c], m)
      PROVE  StreamOf(c)'
  <2>0. StreamOf(c)
    BY DEF StreamInv
  <2>1. \A e \in EventsOf(told[c]) : e.n \in Nat /\ e.n <= events
    BY <2>0, StreamTypes, EventNumbers DEF StreamOf
  <2>2. \A e \in EventsOf(told[c]) : e.n < m.n
    BY <1>1, <1>2, <2>1
  <2>3. Stream(c)' = Append(Stream(c), m) /\ Sent(c)' = Sent(c)
    <3>1. Stream(c)' = Sent(c) \o Append(inbox[c], m) /\ Sent(c)' = Sent(c)
      BY <1>1, <1>5 DEF Stream, Sent
    <3>2. /\ Sent(c) \in Seq(Message) /\ inbox[c] \in Seq(Message)
          /\ Stream(c) = Sent(c) \o inbox[c]
      BY StreamTypes
    <3>3. QED
      BY <1>2, <3>1, <3>2, AppendToSecond
  <2>4. /\ EventsOf(told'[c]) = EventsOf(told[c]) \cup {m}
        /\ EventsOf(Stream(c)') = EventsOf(Stream(c)) \cup {m}
        /\ Truthful(Stream(c), told[c])'
        /\ Gapless(Stream(c), told[c]) /\ EventsOf(told[c]) \subseteq EventsOf(Stream(c)) =>
             Gapless(Stream(c), told[c])'
    <3>1. /\ Stream(c) \in Seq(Message) /\ told[c] \in Seq(Message)
          /\ Truthful(Stream(c), told[c])
      BY <2>0, StreamTypes DEF StreamOf
    <3>2. QED
      BY <1>2, <1>5, <2>2, <2>3, <3>1, NextEvent
  <2>5. \A e \in EventsOf(told'[c]) : e.n <= events'
    BY <1>1, <1>2, <2>1, <2>4
  <2>6. h[c] \notin {"none", "accepted", "subscribe"}
    BY <1>5, <2>0 DEF StreamOf
  <2>7. c \notin closed =>
          /\ Gapless(Stream(c), told[c])'
          /\ (EventsOf(told[c]) \subseteq EventsOf(Stream(c)))'
    BY <1>5, <2>0, <2>4 DEF StreamOf
  <2>8. QED
    BY <1>1, <2>0, <2>3, <2>4, <2>5, <2>6, <2>7 DEF StreamOf
<1>6. QED
  BY <1>3, <1>4, <1>5 DEF StreamInv

\* fanout still gets the beginning of what is in the subscription.
LEMMA UnsubscribeKeepsStream ==
    ASSUME TypeInv, StreamInv, NEW c \in Conns, Unsubscribe(c)
    PROVE  StreamInv'
<1>1. PICK k \in 0 .. Len(inbox[c]) : inbox' = [inbox EXCEPT ![c] = SubSeq(@, 1, k)]
  BY DEF Unsubscribe
<1>2. /\ h[c] = "unsubscribe" /\ h'[c] = "forget" /\ subs' = subs \ {c}
      /\ UNCHANGED <<closed, writer, buf, wire, told, events>>
      /\ inbox'[c] = SubSeq(inbox[c], 1, k)
      /\ \A d \in Conns \ {c} : h'[d] = h[d] /\ inbox'[d] = inbox[d]
  BY <1>1 DEF Unsubscribe, Goes, TypeInv, TypeOK, Queues, out, sockets
<1>3. ASSUME NEW d \in Conns, d # c PROVE StreamOf(d)'
  BY <1>2, <1>3, StreamStays DEF StreamInv
<1>4. StreamOf(c)'
  <2>1. StreamOf(c)
    BY DEF StreamInv
  <2>2. PICK q \in Seq(Message) : inbox'[c] \o q = inbox[c] /\ inbox'[c] \in Seq(Message)
    <3>1. inbox[c] \in Seq(Message)
      BY StreamTypes
    <3>2. QED
      BY <1>2, <3>1, PrefixOf
  <2>a. Stream(c) = Stream(c)' \o q /\ Stream(c)' \in Seq(Message)
    <3>1. Stream(c)' = Sent(c) \o inbox'[c] /\ Sent(c) \in Seq(Message)
      BY <1>2, StreamTypes DEF Stream, Sent
    <3>2. Sent(c) \o (inbox'[c] \o q) = (Sent(c) \o inbox'[c]) \o q
      BY <2>2, <3>1, Associative
    <3>3. Stream(c) = Sent(c) \o inbox[c]
      BY StreamTypes
    <3>4. Sent(c) \o inbox'[c] \in Seq(Message)
      BY <2>2, <3>1, ConcatProperties
    <3>5. QED
      BY <2>2, <3>1, <3>2, <3>3, <3>4
  <2>b. Truthful(Stream(c), told[c])'
    <3>1. Truthful(Stream(c)' \o q, told[c])
      BY <2>1, <2>a DEF StreamOf
    <3>2. QED
      BY <1>2, <2>a, <3>1, TruthfulPrefix
  <2>c. ASSUME c \notin closed PROVE Gapless(Stream(c), told[c])'
    <3>1. InOrder(Stream(c)' \o q) /\ Gapless(Stream(c)' \o q, told[c])
      BY <2>1, <2>a, <2>c DEF StreamOf, Truthful
    <3>2. QED
      BY <1>2, <2>a, <3>1, StreamTypes, GaplessPrefix
  <2>3. Sent(c)' = Sent(c)
    BY <1>2 DEF Sent
  <2>4. QED
    BY <1>2, <2>1, <2>b, <2>c, <2>3 DEF StreamOf, Reading
<1>5. QED
  BY <1>3, <1>4 DEF StreamInv

\* The other steps deliver nothing.
LEMMA OthersKeepStream ==
    ASSUME TypeInv, RegInv, StreamInv, NEW c \in Conns,
           \/ Early(c) \/ Add(c) \/ Evict(c) \/ ReadFails(c) \/ ClientLeaves(c)
           \/ Remove(c) \/ DeletePresence(c) \/ Close(c) \/ Done(c) \/ CloseStep(c)
    PROVE  StreamInv'
<1>1. UNCHANGED <<inbox, told, events, buf, wire, writer>>
  BY DEF Early, Accept, AcceptFails, SetPresence, SetPresenceFails, Subscribe, SubscribeFails,
         Add, Evict, ReadFails, ClientLeaves, Remove, DeletePresence, Close, Done, CloseStep, CloseChannel,
         CloseSocket, ClosedUnseen, pub, out,
         sockets
<1>2. closed \subseteq closed'
  <2>1. CASE Early(c)
    BY <2>1, EarlyFrame
  <2>2. CASE ~Early(c)
    BY <2>2
       DEF Add, AddAccepted, AddRefused, ClosedUnseen, Evict, ReadFails, ClientLeaves, Remove,
           DeletePresence, Close, Done, CloseStep, CloseChannel, CloseSocket, sockets
  <2>3. QED
    BY <2>1, <2>2
<1>3. ASSUME NEW d \in Conns, d # c
      PROVE  h'[d] = h[d] /\ (d \in subs' <=> d \in subs)
  <2>1. CASE Early(c)
    BY <1>3, <2>1, EarlyFrame
  <2>2. CASE ~Early(c)
    BY <1>3, <2>2
       DEF Add, AddAccepted, AddRefused, Evict, ReadFails, ClientLeaves, Remove, DeletePresence,
           Close, Done, CloseStep, CloseChannel, CloseSocket, Goes, TypeInv, TypeOK, redis
  <2>3. QED
    BY <2>1, <2>2
<1>4. ASSUME NEW d \in Conns, d # c PROVE StreamOf(d)'
  BY <1>1, <1>2, <1>3, <1>4, StreamStays DEF StreamInv
<1>5. StreamOf(c)'
  <2>1. StreamOf(c)
    BY DEF StreamInv
  <2>2. CASE Subscribe(c)
    <3>1. /\ h[c] = "subscribe" /\ h'[c] = "register" /\ closed' = closed
      BY <2>2 DEF Subscribe, Goes, TypeInv, TypeOK, sockets
    <3>2. EventsOf(told[c]) = {}
      BY <2>1, <3>1, NoMessages DEF StreamOf
    <3>3. QED
      BY <1>1, <2>1, <3>1, <3>2 DEF StreamOf, Stream, Sent, Reading, Gapless
  <2>3. CASE Early(c) /\ ~Subscribe(c)
    <3>1. /\ subs' = subs /\ h'[c] \notin Reading
          /\ h'[c] \in {"accepted", "subscribe"} =>
               h[c] \in {"none", "accepted", "subscribe"}
      BY <2>3
         DEF Early, Accept, AcceptFails, SetPresence, SetPresenceFails, SubscribeFails,
             Goes, TypeInv, TypeOK, Reading, redis
    <3>2. h'[c] # "none"
      BY <2>3, EarlyFrame
    <3>3. QED
      BY <1>1, <1>2, <2>1, <3>1, <3>2, StreamStays
  <2>4. CASE ~Early(c)
    <3>1. /\ subs' = subs
          /\ h'[c] = h[c] \/ h'[c] \notin Reading \cup {"none", "accepted", "subscribe"}
      BY <2>4
         DEF Add, AddAccepted, AddRefused, Evict, ReadFails, ClientLeaves, Remove,
             DeletePresence, Close, Done, CloseStep, CloseChannel, CloseSocket, Goes, TypeInv,
             TypeOK, Reading, redis
    <3>2. QED
      BY <1>1, <1>2, <2>1, <3>1, StreamStays
  <2>5. QED
    BY <2>2, <2>3, <2>4
<1>6. QED
  BY <1>4, <1>5 DEF StreamInv

LEMMA RunKeepsStream ==
    ASSUME StreamInv, ServerStep \/ Cancel \/ ListenFails \/ DrainTimeout
    PROVE  StreamInv'
<1>1. UNCHANGED <<inbox, told, events, buf, wire, writer, subs, h, closed>>
  BY DEF ServerStep, CloseAll, CloseNext, Drained, Cancel, ListenFails, DrainTimeout,
         ServerGoes, pub, out, sockets
<1>2. QED
  BY <1>1, StreamStays DEF StreamInv

LEMMA StreamInit == Init => StreamInv
<1> SUFFICES ASSUME Init, NEW c \in Conns PROVE StreamOf(c)
  BY DEF StreamInv
<1>1. /\ wire[c] = <<>> /\ buf[c] = <<>> /\ inbox[c] = <<>> /\ told[c] = <<>>
      /\ h[c] = "none" /\ writer[c] = "off" /\ c \notin subs
  BY DEF Init
<1>2. Gapless(<<>>, <<>>) /\ Truthful(<<>>, <<>>)
  BY NoMessages DEF Gapless, Truthful
<1>3. Stream(c) = <<>>
  BY <1>1 DEF Stream
<1>4. QED
  BY <1>1, <1>2, <1>3, NoMessages DEF StreamOf, Reading

LEMMA StreamNext == TypeInv /\ RegInv /\ StreamInv /\ [Next]_vars => StreamInv'
<1> SUFFICES ASSUME TypeInv, RegInv, StreamInv, [Next]_vars PROVE StreamInv'
  OBVIOUS
<1>1. CASE UNCHANGED vars
  BY <1>1, StreamStays DEF vars, sockets, redis, pub, out, StreamInv
<1>2. CASE Next
  BY <1>2, DeliveryKeepsStream, PublishKeepsStream, UnsubscribeKeepsStream, OthersKeepStream,
     RunKeepsStream
     DEF Next, EnvironmentStep, HandlerStep, WriterStep, Early, Delivery, ReaderStep, WriterMoves
<1>3. QED
  BY <1>1, <1>2

(***************************************************************************)
(* Whatever the size of the send buffer and however Publish, fanout, the   *)
(* answers, writePump and the two steps of close() interleave: a client    *)
(* sees each event once and in order, and until close() begins it misses   *)
(* none that reached its subscription.  What Pub/Sub loses is not told.    *)
(***************************************************************************)
THEOREM NoGapHolds == Spec => []NoGap
<1>1. TypeInv /\ StreamInv => NoGap
  <2> SUFFICES ASSUME TypeInv, StreamInv, NEW c \in Conns
               PROVE  /\ InOrder(wire[c]) /\ EventsOf(wire[c]) \subseteq EventsOf(told[c])
                      /\ c \notin closed =>
                           /\ Len(wire[c]) > 0 => wire[c][1] = Ready
                           /\ Gapless(wire[c], told[c])
                           /\ c \in subs => /\ InOrder(Stream(c))
                                            /\ EventsOf(Stream(c)) = EventsOf(told[c])
    BY DEF NoGap, Stream
  <2>0. StreamOf(c) /\ told[c] \in Seq(Message)
    BY StreamTypes DEF StreamInv
  <2>1. PICK q \in Seq(Message) : Stream(c) = wire[c] \o q /\ wire[c] \in Seq(Message)
    <3>1. /\ wire[c] \in Seq(Message) /\ buf[c] \in Seq(Message) /\ inbox[c] \in Seq(Message)
          /\ Stream(c) = (wire[c] \o buf[c]) \o inbox[c]
      BY StreamTypes DEF Sent
    <3>2. buf[c] \o inbox[c] \in Seq(Message)
      BY <3>1, ConcatProperties
    <3>3. (wire[c] \o buf[c]) \o inbox[c] = wire[c] \o (buf[c] \o inbox[c])
      BY <3>1, Associative
    <3>4. QED
      BY <3>1, <3>2, <3>3
  <2>2. Truthful(wire[c], told[c])
    <3>1. Truthful(wire[c] \o q, told[c])
      BY <2>0, <2>1 DEF StreamOf
    <3>2. QED
      BY <2>1, <3>1, TruthfulPrefix
  <2>3. ASSUME c \notin closed PROVE Gapless(wire[c], told[c])
    <3>1. InOrder(wire[c] \o q) /\ Gapless(wire[c] \o q, told[c])
      BY <2>0, <2>1, <2>3 DEF StreamOf, Truthful
    <3>2. QED
      BY <2>0, <2>1, <3>1, GaplessPrefix
  <2>4. ASSUME c \notin closed, Len(wire[c]) > 0 PROVE wire[c][1] = Ready
    <3>1. wire[c] # <<>> /\ buf[c] \in Seq(Message) /\ wire[c] \in Seq(Message)
      BY <2>4, StreamTypes
    <3>2. (wire[c] \o buf[c])[1] = wire[c][1]
      BY <3>1, FirstOfConcat
    <3>3. Sent(c)[1] = Ready
      BY <2>0, <2>4, <3>1 DEF StreamOf
    <3>4. QED
      BY <3>2, <3>3 DEF Sent
  <2>5. QED
    BY <2>0, <2>2, <2>3, <2>4 DEF StreamOf, Truthful
<1>2. QED
  BY <1>1, RegInvariance, StreamInit, StreamNext, PTL DEF Spec

-----------------------------------------------------------------------------
(* Answers.                                                                *)

Has(q, m) == \E i \in 1 .. Len(q) : q[i] = m

\* An event that is a consequence of a request made on c.
Follows(m, c, asks) == IsEvent(m) /\ m.of \in Requests /\ asks[m.of] = c

\* In q, sent to c, no answer comes after a consequence of its request; asks
\* tells the connection of a request.
Ordered(q, c, asks) ==
    \A i, j \in 1 .. Len(q) :
        Follows(q[i], c, asks) /\ q[j] = Response(q[i].of) => j < i

Answering(c) == h[c] \in {"respond", "drop"}

OnlyEvents(q) == \A i \in 1 .. Len(q) : IsEvent(q[i])

\* Events are told of requests that took effect only.  For such a request the
\* answer was sent, or its reader still holds the delivery lock and no event
\* has overtaken it, or close() has begun.
AnswerOf(c) ==
    /\ \A m \in EventsOf(told[c]) : m.of \in effective \cup {NoRequest}
    /\ OnlyEvents(inbox[c])
    /\ Ordered(Sent(c), c, asked)
    /\ h[c] = "received" => current[c] \notin effective
    /\ Answering(c) => \A m \in EventsOf(Sent(c)) : m.of # current[c]
    /\ \A r \in effective : asked[r] = c =>
         \/ Answering(c) /\ current[c] = r
         \/ Has(Sent(c), Response(r))
         \/ c \in closed

AnswerInv ==
    /\ \A r \in effective : asked[r] \in Conns
    /\ \A c \in Conns : AnswerOf(c)

LEMMA OnlyEventsKept ==
    ASSUME NEW q \in Seq(Message), OnlyEvents(q)
    PROVE  /\ q # <<>> => IsEvent(Head(q)) /\ OnlyEvents(Tail(q))
           /\ \A k \in 0 .. Len(q) : OnlyEvents(SubSeq(q, 1, k))
           /\ \A m \in Message : IsEvent(m) => OnlyEvents(Append(q, m))
<1>1. ASSUME q # <<>> PROVE IsEvent(Head(q)) /\ OnlyEvents(Tail(q))
  <2>1. /\ Len(q) \in Nat \ {0} /\ Head(q) = q[1] /\ Len(Tail(q)) = Len(q) - 1
        /\ \A i \in 1 .. Len(Tail(q)) : Tail(q)[i] = q[i + 1]
    BY <1>1, HeadTailProperties, EmptySeq, LenProperties
  <2>2. QED
    BY <2>1 DEF OnlyEvents
<1>2. ASSUME NEW k \in 0 .. Len(q) PROVE OnlyEvents(SubSeq(q, 1, k))
  <2>1. k <= Len(q) /\ k \in Nat /\ Len(q) \in Nat /\ \A i \in 1 .. Len(q) : q[i] \in Message
    BY ElementOfSeq, LenProperties
  <2>2. Len(SubSeq(q, 1, k)) = k /\ \A i \in 1 .. k : SubSeq(q, 1, k)[i] = q[i]
    BY <2>1, SubSeqProperties
  <2>3. QED
    BY <2>1, <2>2 DEF OnlyEvents
<1>3. ASSUME NEW m \in Message, IsEvent(m) PROVE OnlyEvents(Append(q, m))
  <2>1. /\ Len(q) \in Nat /\ Len(Append(q, m)) = Len(q) + 1 /\ Append(q, m)[Len(q) + 1] = m
        /\ \A i \in 1 .. Len(q) : Append(q, m)[i] = q[i]
    BY AppendProperties, LenProperties
  <2>2. ASSUME NEW i \in 1 .. Len(Append(q, m)) PROVE IsEvent(Append(q, m)[i])
    <3>1. i \in 1 .. Len(q) \/ i = Len(q) + 1
      BY <2>1, <2>2
    <3>2. QED
      BY <1>3, <2>1, <3>1 DEF OnlyEvents
  <2>3. QED
    BY <2>2 DEF OnlyEvents
<1>4. QED
  BY <1>1, <1>2, <1>3

LEMMA OrderedAppend ==
    ASSUME NEW q \in Seq(Message), NEW m \in Message, NEW c, NEW asks, Ordered(q, c, asks),
           \A e \in EventsOf(q) : m # Response(e.of)
    PROVE  Ordered(Append(q, m), c, asks)
<1> DEFINE a == Append(q, m)
<1>1. /\ Len(q) \in Nat /\ Len(a) = Len(q) + 1 /\ a[Len(q) + 1] = m
      /\ \A i \in 1 .. Len(q) : a[i] = q[i]
  BY AppendProperties, LenProperties
<1> HIDE DEF a
<1>2. ASSUME NEW i \in 1 .. Len(a), NEW j \in 1 .. Len(a), Follows(a[i], c, asks),
             a[j] = Response(a[i].of)
      PROVE  j < i
  <2>1. CASE i \in 1 .. Len(q) /\ j \in 1 .. Len(q)
    BY <1>1, <1>2, <2>1 DEF Ordered
  <2>2. CASE i \in 1 .. Len(q) /\ j \notin 1 .. Len(q)
    <3>1. a[j] = m /\ a[i] = q[i]
      BY <1>1, <1>2, <2>2
    <3>2. q[i] \in EventsOf(q)
      BY <1>2, <2>2, <3>1, EventsIn DEF Follows
    <3>3. QED
      BY <1>2, <3>1, <3>2
  <2>3. CASE i \notin 1 .. Len(q)
    <3>1. i = Len(q) + 1
      BY <1>1, <1>2, <2>3
    <3>2. j # i
      BY <1>2 DEF Follows, IsEvent, Response
    <3>3. QED
      BY <1>1, <1>2, <3>1, <3>2
  <2>4. QED
    BY <2>1, <2>2, <2>3
<1>3. QED
  BY <1>2 DEF Ordered, a

\* A request that no event of q follows from may be asked meanwhile.
LEMMA OrderedStays ==
    ASSUME NEW q \in Seq(Message), NEW c, NEW asks, NEW more, NEW known,
           Ordered(q, c, asks), NoRequest \notin Requests,
           \A m \in EventsOf(q) : m.of \in known \cup {NoRequest},
           \A r \in known : more[r] = asks[r]
    PROVE  Ordered(q, c, more)
<1>1. ASSUME NEW i \in 1 .. Len(q), NEW j \in 1 .. Len(q), Follows(q[i], c, more),
             q[j] = Response(q[i].of)
      PROVE  j < i
  <2>1. q[i] \in EventsOf(q)
    BY <1>1, EventsIn DEF Follows
  <2>2. Follows(q[i], c, asks)
    BY <1>1, <2>1 DEF Follows
  <2>3. QED
    BY <1>1, <2>2 DEF Ordered
<1>2. QED
  BY <1>1 DEF Ordered

LEMMA HasAppend ==
    ASSUME NEW q \in Seq(Message), NEW m \in Message
    PROVE  Has(Append(q, m), m) /\ \A x : Has(q, x) => Has(Append(q, m), x)
<1> DEFINE a == Append(q, m)
<1>1. /\ Len(q) \in Nat /\ Len(a) = Len(q) + 1 /\ a[Len(q) + 1] = m
      /\ \A i \in 1 .. Len(q) : a[i] = q[i]
  BY AppendProperties, LenProperties
<1> HIDE DEF a
<1>2. Has(a, m)
  BY <1>1 DEF Has
<1>3. ASSUME NEW x, Has(q, x) PROVE Has(a, x)
  <2>1. PICK i \in 1 .. Len(q) : q[i] = x
    BY <1>3 DEF Has
  <2>2. i \in 1 .. Len(a) /\ a[i] = x
    BY <1>1, <2>1
  <2>3. QED
    BY <2>2 DEF Has
<1>4. QED
  BY <1>2, <1>3 DEF a

LEMMA Beginning ==
    ASSUME NEW p \in Seq(Message), NEW q \in Seq(Message)
    PROVE  /\ Len(p) \in Nat /\ Len(p \o q) \in Nat /\ Len(p) <= Len(p \o q)
           /\ \A j \in 1 .. Len(p) : (p \o q)[j] = p[j]
<1>1. /\ Len(p) \in Nat /\ Len(q) \in Nat /\ Len(p \o q) = Len(p) + Len(q)
      /\ \A j \in 1 .. Len(p) : (p \o q)[j] = p[j]
  BY ConcatProperties, LenProperties
<1>2. QED
  BY <1>1

\* What was sent was told, and so were the events still to be sent.
LEMMA SentWasTold ==
    ASSUME TypeInv, StreamInv, NEW c \in Conns
    PROVE  /\ EventsOf(Sent(c)) \subseteq EventsOf(told[c])
           /\ EventsOf(inbox[c]) \subseteq EventsOf(told[c])
<1>1. EventsOf(Stream(c)) \subseteq EventsOf(told[c])
  BY DEF StreamInv, StreamOf, Truthful
<1>2. /\ Sent(c) \in Seq(Message) /\ inbox[c] \in Seq(Message)
      /\ Stream(c) = Sent(c) \o inbox[c]
  BY StreamTypes
<1>3. EventsOf(Sent(c) \o inbox[c]) = EventsOf(Sent(c)) \cup EventsOf(inbox[c])
  BY <1>2, EventsOfConcat
<1>4. QED
  BY <1>1, <1>2, <1>3

\* A connection on which nothing is sent and no request handled, though other
\* requests may be read or take effect on other connections.
LEMMA AnswerStays ==
    ASSUME TypeInv, StreamInv, NEW c \in Conns, AnswerOf(c),
           Sent(c)' = Sent(c), told'[c] = told[c], OnlyEvents(inbox'[c]),
           closed \subseteq closed', effective \subseteq effective',
           \A r \in effective : asked'[r] = asked[r],
           \A r \in effective' \ effective :
               asked'[r] # c /\ (h[c] = "received" => current[c] # r),
           \/ h'[c] = h[c] /\ current'[c] = current[c]
           \/ ~Answering(c) /\ h'[c] \notin {"received", "respond", "drop"}
    PROVE  AnswerOf(c)'
<1>1. NoRequest \notin Requests
  BY GatewayAssumption DEF GatewayAssumption
<1>2. Ordered(Sent(c)', c, asked')
  <2>1. \A m \in EventsOf(Sent(c)) : m.of \in effective \cup {NoRequest}
    BY SentWasTold DEF AnswerOf
  <2>2. Ordered(Sent(c), c, asked) /\ Sent(c) \in Seq(Message)
    BY StreamTypes DEF AnswerOf
  <2>3. Ordered(Sent(c), c, asked')
    BY <1>1, <2>1, <2>2, OrderedStays
  <2>4. QED
    BY <2>3
<1>3. \A m \in EventsOf(told'[c]) : m.of \in effective' \cup {NoRequest}
  BY DEF AnswerOf
<1>4. h'[c] = "received" => current'[c] \notin effective'
  BY DEF AnswerOf
<1>5. Answering(c)' => \A m \in EventsOf(Sent(c)') : m.of # current'[c]
  BY DEF AnswerOf, Answering
<1>6. ASSUME NEW r \in effective', asked'[r] = c
      PROVE  \/ Answering(c)' /\ current'[c] = r
             \/ Has(Sent(c)', Response(r))
             \/ c \in closed'
  <2>1. r \in effective /\ asked[r] = c
    BY <1>6
  <2>2. QED
    BY <2>1 DEF AnswerOf, Answering
<1>7. QED
  BY <1>2, <1>3, <1>4, <1>5, <1>6 DEF AnswerOf

\* A message joins what was sent, and the reader is not answering afterwards.
LEMMA SendKeepsAnswers ==
    ASSUME TypeInv, StreamInv, NEW c \in Conns, AnswerOf(c), NEW m \in Message,
           \/ Sent(c)' = Append(Sent(c), m)
           \/ c \in closed /\ Sent(c)' = Sent(c),
           UNCHANGED <<told, asked, effective, closed>>, OnlyEvents(inbox'[c]),
           \A e \in EventsOf(Sent(c)) : m # Response(e.of),
           Answering(c) => m = Response(current[c]),
           ~Answering(c)', h'[c] = "received" => h[c] = "received" /\ current'[c] = current[c]
    PROVE  AnswerOf(c)'
<1>0. Sent(c) \in Seq(Message)
  BY StreamTypes
<1>1. Ordered(Sent(c)', c, asked)
  BY <1>0, OrderedAppend DEF AnswerOf
<1>2. ASSUME NEW r \in effective, asked[r] = c, c \notin closed
      PROVE  Has(Sent(c)', Response(r))
  <2>1. /\ Has(Append(Sent(c), m), m)
        /\ \A x : Has(Sent(c), x) => Has(Append(Sent(c), m), x)
    BY <1>0, HasAppend
  <2>2. m = Response(r) \/ Has(Sent(c), Response(r))
    BY <1>2 DEF AnswerOf
  <2>3. QED
    BY <1>2, <2>1, <2>2
<1>3. QED
  BY <1>1, <1>2 DEF AnswerOf

\* Which requests take effect or are asked in a step of delivery.
LEMMA DeliveryRequests ==
    ASSUME TypeInv, AnswerInv, NEW c \in Conns, Delivery(c)
    PROVE  /\ effective \subseteq effective'
           /\ \A r \in effective : asked'[r] = asked[r]
           /\ \A r \in effective' \ effective :
                /\ HandleInbound(c) /\ current[c] = r /\ r \in Requests
                /\ asked' = asked /\ asked[r] = c
<1>1. CASE ReadMessage(c)
  <2>1. PICK r \in Requests : asked[r] = NoConn /\ asked' = [asked EXCEPT ![r] = c]
    BY <1>1 DEF ReadMessage
  <2>2. \A e \in effective : e # r /\ e \in Requests
    BY <2>1, GatewayAssumption DEF AnswerInv, TypeInv, TypeOK, GatewayAssumption
  <2>3. effective' = effective
    BY <1>1 DEF ReadMessage
  <2>4. QED
    BY <2>1, <2>2, <2>3 DEF TypeInv, TypeOK
<1>2. CASE HandleInbound(c)
  BY <1>2 DEF HandleInbound, Goes, TypeInv, TypeOK, HandsOK
<1>3. CASE WriterMoves(c)
  <2>1. PICK to \in {"expired", "closing", "ended"} : WriterGoes(c, to)
    BY <1>3 DEF WriterMoves, WriteFails, TokenExpires, ExpiryCloses, WriterClosed, WritePumpEnds
  <2>2. QED
    BY <2>1 DEF WriterGoes, requests
<1>4. CASE ~ReadMessage(c) /\ ~HandleInbound(c) /\ ~WriterMoves(c)
  <2>1. asked' = asked /\ effective' = effective
    BY <1>4
       DEF Delivery, ReaderStep, FanoutStep, SendReady, Respond, AnswerJams, AnswerLost, Fanout,
           EventJams, EventLost, WriteMessage, requests
  <2>2. QED
    BY <2>1
<1>5. QED
  BY <1>1, <1>2, <1>3, <1>4

\* handleWS: "ready" answers no request.
LEMMA ReadyKeepsAnswers ==
    ASSUME TypeInv, StreamInv, NEW c \in Conns, AnswerOf(c), SendReady(c)
    PROVE  AnswerOf(c)'
<1>1. /\ h[c] = "ready" /\ h'[c] = "serve"
      /\ UNCHANGED <<wire, inbox, told, asked, effective, closed>> /\ Send(c, Ready)
  BY DEF SendReady, Goes, TypeInv, TypeOK, pub, requests
<1>2. Ready \in Message /\ \A r : Ready # Response(r)
  BY MessageTypes DEF Ready, Response
<1>3. OnlyEvents(inbox'[c])
  BY <1>1 DEF AnswerOf
<1>4. QED
  BY <1>1, <1>2, <1>3, SendAppends, SendKeepsAnswers DEF Answering

\* The request that the reader takes up has had no effect yet.
LEMMA ReadKeepsAnswers ==
    ASSUME TypeInv, StreamInv, AnswerInv, NEW c \in Conns, ReadMessage(c)
    PROVE  AnswerOf(c)'
<1>1. PICK r \in Requests : /\ asked[r] = NoConn /\ asked' = [asked EXCEPT ![r] = c]
                            /\ current' = [current EXCEPT ![c] = r]
  BY DEF ReadMessage
<1>2. /\ h'[c] = "received" /\ current'[c] = r
      /\ UNCHANGED <<wire, buf, inbox, told, effective, closed>>
  BY <1>1 DEF ReadMessage, Goes, TypeInv, TypeOK, pub, out, sockets
<1>3. r \notin effective /\ NoRequest \notin Requests
  BY <1>1, GatewayAssumption DEF AnswerInv, GatewayAssumption
<1>4. \A e \in effective : asked'[e] = asked[e]
  BY <1>1, <1>3 DEF TypeInv, TypeOK
<1>5. AnswerOf(c) /\ Sent(c)' = Sent(c) /\ h[c] = "serve"
  BY <1>2 DEF AnswerInv, Sent, ReadMessage, Goes
<1>6. Ordered(Sent(c), c, asked')
  <2>1. \A m \in EventsOf(Sent(c)) : m.of \in effective \cup {NoRequest}
    BY <1>5, SentWasTold DEF AnswerOf
  <2>2. Ordered(Sent(c), c, asked) /\ Sent(c) \in Seq(Message)
    BY <1>5, StreamTypes DEF AnswerOf
  <2>3. QED
    BY <1>3, <1>4, <2>1, <2>2, OrderedStays
<1>7. \A e \in effective : asked'[e] = c => Has(Sent(c), Response(e)) \/ c \in closed
  BY <1>4, <1>5 DEF AnswerOf, Answering
<1>8. QED
  BY <1>2, <1>3, <1>5, <1>6, <1>7 DEF AnswerOf, Answering

\* Once a request takes effect its reader holds the delivery lock, and no event
\* of it can have been sent.
LEMMA InboundKeepsAnswers ==
    ASSUME TypeInv, StreamInv, NEW c \in Conns, AnswerOf(c), HandleInbound(c)
    PROVE  AnswerOf(c)'
<1>1. /\ h[c] = "received" /\ h'[c] = "respond" /\ effective' = effective \cup {current[c]}
      /\ UNCHANGED <<wire, buf, inbox, told, asked, current, closed>>
  BY DEF HandleInbound, Goes, TypeInv, TypeOK, pub, out, sockets
<1>2. current[c] \in Requests /\ current[c] \notin effective /\ NoRequest \notin Requests
  BY <1>1, GatewayAssumption DEF TypeInv, HandsOK, AnswerOf, GatewayAssumption
<1>3. Sent(c)' = Sent(c)
  BY <1>1 DEF Sent
<1>4. \A m \in EventsOf(Sent(c)) : m.of # current[c]
  BY <1>2, SentWasTold DEF AnswerOf
<1>5. QED
  BY <1>1, <1>3, <1>4 DEF AnswerOf, Answering

\* The answer, sent before any event of its request.
LEMMA RespondKeepsAnswers ==
    ASSUME TypeInv, StreamInv, NEW c \in Conns, AnswerOf(c), Respond(c)
    PROVE  AnswerOf(c)'
<1>1. /\ h[c] = "respond" /\ h'[c] = "serve"
      /\ UNCHANGED <<wire, inbox, told, asked, effective, closed>>
      /\ Send(c, Response(current[c]))
  BY DEF Respond, Goes, TypeInv, TypeOK, pub, sockets
<1>2. Response(current[c]) \in Message
  BY MessageTypes DEF TypeInv, TypeOK
<1>3. \A e \in EventsOf(Sent(c)) : Response(current[c]) # Response(e.of)
  BY <1>1 DEF AnswerOf, Answering, Response
<1>4. OnlyEvents(inbox'[c])
  BY <1>1 DEF AnswerOf
<1>5. QED
  BY <1>1, <1>2, <1>3, <1>4, SendAppends, SendKeepsAnswers DEF Answering

\* fanout sends events, and only while no answer is due.
LEMMA FanoutKeepsAnswers ==
    ASSUME TypeInv, StreamInv, NEW c \in Conns, AnswerOf(c), Fanout(c)
    PROVE  AnswerOf(c)'
<1> DEFINE m == Head(inbox[c])
<1>1. /\ h' = h /\ ~Answering(c) /\ inbox[c] # <<>> /\ current' = current
      /\ UNCHANGED <<wire, told, asked, effective, closed>> /\ Send(c, m)
      /\ inbox'[c] = Tail(inbox[c])
  BY DEF Fanout, FanoutReady, Answering, sockets, requests, TypeInv, TypeOK, Queues
<1>2. m \in Message
  BY <1>1, StreamTypes, HeadTailProperties
<1>3. IsEvent(m) /\ OnlyEvents(inbox'[c])
  BY <1>1, StreamTypes, OnlyEventsKept DEF AnswerOf
<1> HIDE DEF m
<1>4. Sent(c)' = Append(Sent(c), m) \/ (c \in closed /\ Sent(c)' = Sent(c))
  BY <1>1, <1>2, SendAppends
<1>5. \A r : m # Response(r)
  BY <1>3 DEF IsEvent, Response
<1>6. ~Answering(c)'
  BY <1>1 DEF Answering
<1>7. QED
  BY <1>1, <1>2, <1>3, <1>4, <1>5, <1>6, SendKeepsAnswers

\* writePump moves a message from the buffer to the socket.
LEMMA WriteKeepsAnswers ==
    ASSUME TypeInv, StreamInv, NEW c \in Conns, AnswerOf(c), WriteMessage(c)
    PROVE  AnswerOf(c)'
<1>1. h' = h /\ UNCHANGED <<inbox, told, asked, effective, closed, current>>
  BY DEF WriteMessage, sockets, pub, requests
<1>2. Sent(c)' = Sent(c) /\ OnlyEvents(inbox'[c])
  BY <1>1, WriteKeepsStream DEF StreamInv, AnswerOf
<1>3. QED
  BY <1>1, <1>2, AnswerStays

\* A full buffer: the answer or the event is lost, and close() runs.
LEMMA LossKeepsAnswers ==
    ASSUME TypeInv, StreamInv, NEW c \in Conns, AnswerOf(c),
           AnswerJams(c) \/ AnswerLost(c) \/ EventJams(c) \/ EventLost(c) \/ WriterMoves(c)
    PROVE  AnswerOf(c)'
<1>1. CASE AnswerJams(c)
  <2>1. /\ h[c] = "respond" /\ h'[c] = "drop"
        /\ UNCHANGED <<buf, wire, inbox, told, asked, effective, current, closed>>
    BY <1>1 DEF AnswerJams, Goes, TypeInv, TypeOK, pub, out, requests, sockets
  <2>2. Sent(c)' = Sent(c)
    BY <2>1 DEF Sent
  <2>3. QED
    BY <2>1, <2>2 DEF AnswerOf, Answering
<1>2. CASE AnswerLost(c)
  <2>1. /\ h'[c] = "serve" /\ c \in closed
        /\ UNCHANGED <<buf, wire, inbox, told, asked, effective, closed>>
    BY <1>2 DEF AnswerLost, Goes, TypeInv, TypeOK, pub, out, sockets
  <2>2. Sent(c)' = Sent(c)
    BY <2>1 DEF Sent
  <2>3. QED
    BY <2>1, <2>2 DEF AnswerOf, Answering
<1>3. CASE EventJams(c) \/ EventLost(c)
  <2>1. UNCHANGED <<h, buf, wire, told, asked, effective, current, closed>>
    BY <1>3 DEF EventJams, EventLost, out, requests, sockets
  <2>2. inbox'[c] = inbox[c] \/ (inbox[c] # <<>> /\ inbox'[c] = Tail(inbox[c]))
    BY <1>3 DEF EventJams, EventLost, TypeInv, TypeOK, HandsOK, Queues
  <2>3. OnlyEvents(inbox'[c])
    BY <2>2, StreamTypes, OnlyEventsKept DEF AnswerOf
  <2>4. Sent(c)' = Sent(c)
    BY <2>1 DEF Sent
  <2>5. QED
    BY <2>1, <2>3, <2>4, AnswerStays
<1>4. CASE WriterMoves(c)
  <2>1. PICK to \in {"expired", "closing", "ended"} : WriterGoes(c, to)
    BY <1>4 DEF WriterMoves, WriteFails, TokenExpires, ExpiryCloses, WriterClosed, WritePumpEnds
  <2>2. UNCHANGED <<h, buf, wire, inbox, told, asked, effective, current, closed>>
    BY <2>1 DEF WriterGoes, pub, out, requests
  <2>3. Sent(c)' = Sent(c) /\ OnlyEvents(inbox'[c])
    BY <2>2 DEF Sent, AnswerOf
  <2>4. QED
    BY <2>2, <2>3, AnswerStays
<1>5. QED
  BY <1>1, <1>2, <1>3, <1>4

LEMMA DeliveryKeepsAnswers ==
    ASSUME TypeInv, RegInv, StreamInv, AnswerInv, NEW c \in Conns, Delivery(c)
    PROVE  AnswerInv'
<1>1. closed' = closed
  BY DeliveryFrame
<1>2. \A r \in effective' : asked'[r] \in Conns
  BY DeliveryRequests DEF AnswerInv
<1>3. ASSUME NEW d \in Conns, d # c PROVE AnswerOf(d)'
  <2>1. /\ inbox'[d] = inbox[d] /\ buf'[d] = buf[d] /\ wire'[d] = wire[d]
        /\ told' = told /\ h'[d] = h[d] /\ current'[d] = current[d]
    BY <1>3, DeliveryElsewhere
  <2>2. AnswerOf(d) /\ Sent(d)' = Sent(d)
    BY <2>1 DEF AnswerInv, Sent
  <2>3. OnlyEvents(inbox'[d])
    BY <2>1, <2>2 DEF AnswerOf
  <2>4. \A r \in effective' \ effective :
          asked'[r] # d /\ (h[d] = "received" => current[d] # r)
    BY <1>3, DeliveryRequests DEF TypeInv, HandsOK
  <2>5. effective \subseteq effective' /\ \A r \in effective : asked'[r] = asked[r]
    BY DeliveryRequests
  <2>6. QED
    BY <1>1, <2>1, <2>2, <2>3, <2>4, <2>5, AnswerStays
<1>4. AnswerOf(c)'
  <2>1. AnswerOf(c)
    BY DEF AnswerInv
  <2>2. QED
    BY <2>1, ReadyKeepsAnswers, ReadKeepsAnswers, InboundKeepsAnswers, RespondKeepsAnswers,
       FanoutKeepsAnswers, WriteKeepsAnswers, LossKeepsAnswers
       DEF Delivery, ReaderStep, FanoutStep
<1>5. QED
  BY <1>2, <1>3, <1>4 DEF AnswerInv

\* An event is told as the consequence of a request that took effect, or of none.
LEMMA PublishKeepsAnswers ==
    ASSUME TypeInv, StreamInv, AnswerInv, NEW u \in Users, Publish(u)
    PROVE  AnswerInv'
<1>1. UNCHANGED <<h, closed, buf, wire, asked, current, effective>>
  BY DEF Publish, sockets, out, requests
<1>2. PICK r \in effective \cup {NoRequest} :
        \A c \in Conns :
          \/ inbox'[c] = inbox[c] /\ told'[c] = told[c]
          \/ /\ inbox'[c] = Append(inbox[c], Event(r, events'))
             /\ told'[c] = Append(told[c], Event(r, events'))
  BY DEF Publish
<1> DEFINE m == Event(r, events')
<1>3. m \in Message /\ IsEvent(m) /\ m.of = r
  <2>1. r \in Requests \cup {NoRequest} /\ events' \in 0 .. MaxEvents
    BY GatewayAssumption DEF Publish, TypeInv, TypeOK, GatewayAssumption
  <2>2. QED
    BY <2>1, MessageTypes DEF Event, IsEvent
<1>4. \A c \in Conns :
        \/ inbox'[c] = inbox[c] /\ told'[c] = told[c]
        \/ inbox'[c] = Append(inbox[c], m) /\ told'[c] = Append(told[c], m)
  BY <1>2
<1> HIDE DEF m
<1>5. ASSUME NEW c \in Conns PROVE AnswerOf(c)'
  <2>1. AnswerOf(c) /\ Sent(c)' = Sent(c)
    BY <1>1 DEF AnswerInv, Sent
  <2>2. told[c] \in Seq(Message) /\ inbox[c] \in Seq(Message)
    BY StreamTypes
  <2>3. EventsOf(Append(told[c], m)) \subseteq EventsOf(told[c]) \cup {m}
    BY <1>3, <2>2, EventsOfAppend
  <2>4. \A e \in EventsOf(told'[c]) : e.of \in effective \cup {NoRequest}
    BY <1>3, <1>4, <2>1, <2>3 DEF AnswerOf
  <2>5. OnlyEvents(inbox'[c])
    BY <1>3, <1>4, <2>1, <2>2, OnlyEventsKept DEF AnswerOf
  <2>6. QED
    BY <1>1, <2>1, <2>4, <2>5 DEF AnswerOf, Answering
<1>6. QED
  BY <1>1, <1>5 DEF AnswerInv

LEMMA UnsubscribeKeepsAnswers ==
    ASSUME TypeInv, StreamInv, AnswerInv, NEW c \in Conns, Unsubscribe(c)
    PROVE  AnswerInv'
<1>1. /\ UNCHANGED <<closed, buf, wire, told, asked, current, effective>>
      /\ h[c] = "unsubscribe" /\ h'[c] = "forget" /\ \A d \in Conns \ {c} : h'[d] = h[d]
  BY DEF Unsubscribe, Goes, TypeInv, TypeOK, sockets, out, requests
<1>2. PICK k \in 0 .. Len(inbox[c]) : inbox' = [inbox EXCEPT ![c] = SubSeq(@, 1, k)]
  BY DEF Unsubscribe
<1>3. ASSUME NEW d \in Conns PROVE AnswerOf(d)'
  <2>1. AnswerOf(d) /\ Sent(d)' = Sent(d)
    BY <1>1 DEF AnswerInv, Sent
  <2>2. \/ inbox'[d] = inbox[d]
        \/ d = c /\ inbox'[d] = SubSeq(inbox[d], 1, k)
    BY <1>2 DEF TypeInv, TypeOK, Queues
  <2>3. OnlyEvents(inbox'[d])
    <3>1. inbox[d] \in Seq(Message) /\ OnlyEvents(inbox[d])
      BY <2>1, StreamTypes DEF AnswerOf
    <3>2. CASE inbox'[d] = inbox[d]
      BY <3>1, <3>2
    <3>3. CASE d = c /\ inbox'[d] = SubSeq(inbox[d], 1, k)
      BY <3>1, <3>3, OnlyEventsKept
    <3>4. QED
      BY <2>2, <3>2, <3>3
  <2>4. \/ h'[d] = h[d] /\ current'[d] = current[d]
        \/ ~Answering(d) /\ h'[d] \notin {"received", "respond", "drop"}
    BY <1>1 DEF Answering
  <2>5. QED
    BY <1>1, <2>1, <2>3, <2>4, AnswerStays
<1>4. QED
  BY <1>1, <1>3 DEF AnswerInv

\* The other steps neither send nor take up a request.
LEMMA OthersKeepAnswers ==
    ASSUME TypeInv, StreamInv, AnswerInv, NEW c \in Conns,
           \/ Early(c) \/ Add(c) \/ Evict(c) \/ ReadFails(c) \/ ClientLeaves(c)
           \/ Remove(c) \/ DeletePresence(c) \/ Close(c) \/ Done(c) \/ CloseStep(c)
    PROVE  AnswerInv'
<1>1. UNCHANGED <<buf, wire, inbox, told, asked, current, effective>>
  BY DEF Early, Accept, AcceptFails, SetPresence, SetPresenceFails, Subscribe, SubscribeFails,
         Add, Evict, ReadFails, ClientLeaves, Remove, DeletePresence, Close, Done, CloseStep,
         CloseChannel, CloseSocket, pub, out, requests
<1>2. closed \subseteq closed'
  <2>1. CASE Early(c)
    BY <2>1, EarlyFrame
  <2>2. CASE ~Early(c)
    BY <2>2
       DEF Add, AddAccepted, AddRefused, ClosedUnseen, Evict, ReadFails, ClientLeaves, Remove,
           DeletePresence, Close, Done, CloseStep, CloseChannel, CloseSocket, sockets
  <2>3. QED
    BY <2>1, <2>2
<1>3. ASSUME NEW d \in Conns
      PROVE  h'[d] = h[d] \/ (~Answering(d) /\ h'[d] \notin {"received", "respond", "drop"})
  <2>1. CASE Early(c)
    BY <2>1, EarlyFrame DEF Answering
  <2>2. CASE CloseStep(c)
    BY <2>2 DEF CloseStep, CloseChannel, CloseSocket
  <2>3. CASE ~Early(c) /\ ~CloseStep(c)
    BY <2>3
       DEF Add, AddAccepted, AddRefused, Evict, ReadFails, ClientLeaves, Remove, DeletePresence,
           Close, Done, Goes, TypeInv, TypeOK, Answering
  <2>4. QED
    BY <2>1, <2>2, <2>3
<1>4. ASSUME NEW d \in Conns PROVE AnswerOf(d)'
  <2>1. AnswerOf(d) /\ Sent(d)' = Sent(d) /\ OnlyEvents(inbox'[d])
    BY <1>1 DEF AnswerInv, AnswerOf, Sent
  <2>2. QED
    BY <1>1, <1>2, <1>3, <2>1, AnswerStays
<1>5. QED
  BY <1>1, <1>4 DEF AnswerInv

LEMMA RunKeepsAnswers ==
    ASSUME TypeInv, StreamInv, AnswerInv,
           ServerStep \/ Cancel \/ ListenFails \/ DrainTimeout
    PROVE  AnswerInv'
<1>1. UNCHANGED <<buf, wire, inbox, told, asked, current, effective, h, closed>>
  BY DEF ServerStep, CloseAll, CloseNext, Drained, Cancel, ListenFails, DrainTimeout,
         ServerGoes, pub, out, requests, sockets
<1>2. ASSUME NEW d \in Conns PROVE AnswerOf(d)'
  <2>1. AnswerOf(d) /\ Sent(d)' = Sent(d) /\ OnlyEvents(inbox'[d])
    BY <1>1 DEF AnswerInv, AnswerOf, Sent
  <2>2. QED
    BY <1>1, <2>1, AnswerStays
<1>3. QED
  BY <1>1, <1>2 DEF AnswerInv

LEMMA AnswerInit == Init => AnswerInv
<1> SUFFICES ASSUME Init, NEW c \in Conns PROVE AnswerOf(c) /\ effective = {}
  BY DEF AnswerInv, Init
<1>1. /\ wire[c] = <<>> /\ buf[c] = <<>> /\ told[c] = <<>> /\ inbox[c] = <<>>
      /\ effective = {} /\ h[c] = "none"
  BY DEF Init
<1>2. Sent(c) = <<>> /\ Len(<<>>) = 0
  BY <1>1 DEF Sent
<1>3. Ordered(<<>>, c, asked) /\ OnlyEvents(<<>>)
  BY <1>2 DEF Ordered, OnlyEvents
<1>4. QED
  BY <1>1, <1>2, <1>3, NoMessages DEF AnswerOf, Answering

LEMMA AnswerNext ==
    TypeInv /\ RegInv /\ StreamInv /\ AnswerInv /\ [Next]_vars => AnswerInv'
<1> SUFFICES ASSUME TypeInv, RegInv, StreamInv, AnswerInv, [Next]_vars PROVE AnswerInv'
  OBVIOUS
<1>1. CASE UNCHANGED vars
  BY <1>1 DEF vars, sockets, pub, out, requests, AnswerInv, AnswerOf, Answering, Sent
<1>2. CASE Next
  BY <1>2, DeliveryKeepsAnswers, PublishKeepsAnswers, UnsubscribeKeepsAnswers,
     OthersKeepAnswers, RunKeepsAnswers
     DEF Next, EnvironmentStep, HandlerStep, WriterStep, Early, Delivery, ReaderStep, WriterMoves
<1>3. QED
  BY <1>1, <1>2

(***************************************************************************)
(* A client has the answer to its request before any consequence of it,    *)
(* for any number of requests and events in flight: while the answer is    *)
(* due the reader holds the delivery lock, and fanout waits.  An event     *)
(* without the answer takes a connection whose close() has begun.          *)
(***************************************************************************)
THEOREM AnswerComesFirstHolds == Spec => []AnswerComesFirst
<1>1. TypeInv /\ StreamInv /\ AnswerInv => AnswerComesFirst
  <2> SUFFICES ASSUME TypeInv, StreamInv, AnswerInv, NEW c \in Conns,
                      NEW i \in 1 .. Len(wire[c]), Follows(wire[c][i], c, asked)
               PROVE  LET answer == Response(wire[c][i].of)
                          answers == {j \in 1 .. Len(wire[c]) : wire[c][j] = answer}
                      IN  IF answers = {} THEN c \in closed ELSE \A j \in answers : j < i
    BY DEF AnswerComesFirst, Follows
  <2> DEFINE r == wire[c][i].of
  <2>1. AnswerOf(c) /\ Sent(c) \in Seq(Message)
    BY StreamTypes DEF AnswerInv
  <2>2. /\ Len(wire[c]) \in Nat /\ Len(Sent(c)) \in Nat /\ Len(wire[c]) <= Len(Sent(c))
        /\ \A j \in 1 .. Len(wire[c]) : Sent(c)[j] = wire[c][j]
    BY StreamTypes, Beginning DEF Sent
  <2>3. i \in 1 .. Len(Sent(c)) /\ Sent(c)[i] = wire[c][i]
    BY <2>2
  <2>4. \A j \in 1 .. Len(Sent(c)) : Sent(c)[j] = Response(r) => j < i
    BY <2>1, <2>3 DEF AnswerOf, Ordered
  <2>5. wire[c][i] \in EventsOf(Sent(c)) /\ r \in Requests /\ asked[r] = c
    BY <2>1, <2>3, EventsIn DEF Follows
  <2>6. r \in effective
    BY <2>1, <2>5, SentWasTold, GatewayAssumption DEF AnswerOf, GatewayAssumption
  <2>7. Has(Sent(c), Response(r)) \/ c \in closed
    BY <2>1, <2>5, <2>6 DEF AnswerOf
  <2>8. ASSUME NEW j \in 1 .. Len(Sent(c)), Sent(c)[j] = Response(r)
        PROVE  j \in 1 .. Len(wire[c]) /\ wire[c][j] = Response(r)
    <3>1. j < i
      BY <2>4, <2>8
    <3>2. j \in 1 .. Len(wire[c])
      BY <2>2, <3>1
    <3>3. QED
      BY <2>2, <2>8, <3>2
  <2>9. (\A j \in 1 .. Len(wire[c]) : wire[c][j] # Response(r)) => c \in closed
    BY <2>7, <2>8 DEF Has
  <2>10. \A j \in 1 .. Len(wire[c]) : wire[c][j] = Response(r) => j < i
    BY <2>2, <2>4
  <2>11. QED
    BY <2>9, <2>10
<1>2. QED
  BY <1>1, RegInvariance, StreamInit, StreamNext, AnswerInit, AnswerNext, PTL DEF Spec
=============================================================================
