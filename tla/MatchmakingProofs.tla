------------------------- MODULE MatchmakingProofs --------------------------
(***************************************************************************)
(* Proofs about Matchmaking, for every number of users, connections and    *)
(* match processes: a player has one active match, and one queue entry;    *)
(* the scores order the queue; nobody who waits is forgotten; and the      *)
(* types, with at most a pair in the hands of a match process.             *)
(***************************************************************************)
EXTENDS Matchmaking, FiniteSetTheorems, TLAPS

-----------------------------------------------------------------------------
(* The claims.                                                             *)

\* The two tables are functions of user and match; nothing else of their
\* types is needed.
TablesOK ==
    /\ claim = [u \in Users |-> claim[u]]
    /\ active = [i \in MatchIDs |-> active[i]]

ClaimsInv == TablesOK /\ ClaimsAgree

\* createMatch's insert, under both user locks, claims players without a claim.
LEMMA InsertKeepsClaims ==
    ASSUME ClaimsInv, NEW v \in Servers, Ineligible(v) = {}, InsertMatch(v)
    PROVE  ClaimsInv'
<1> DEFINE pair == Owners(sv[v].held)
<1>1. PICK i \in MatchIDs :
        /\ active[i] = {}
        /\ active' = [active EXCEPT ![i] = pair]
        /\ claim' = [u \in Users |-> IF u \in pair THEN i ELSE claim[u]]
  BY DEF InsertMatch
<1>2. \A u \in pair : claim[u] = NoMatch
  BY DEF Ineligible
<1> HIDE DEF pair
<1>3. \A j \in MatchIDs : active'[j] = IF j = i THEN pair ELSE active[j]
  BY <1>1 DEF ClaimsInv, TablesOK
<1>4. TablesOK'
  BY <1>1 DEF ClaimsInv, TablesOK
<1>5. ASSUME NEW u \in Users, NEW j \in MatchIDs
      PROVE  claim'[u] = j <=> u \in active'[j]
  <2>1. claim[u] = j <=> u \in active[j]
    BY DEF ClaimsInv, ClaimsAgree
  <2>2. claim[u] = i <=> u \in active[i]
    BY DEF ClaimsInv, ClaimsAgree
  <2>3. NoMatch # j
    BY ConnsAssumption
  <2>4. QED
    BY <1>1, <1>2, <1>3, <2>1, <2>2, <2>3
<1>6. QED
  BY <1>4, <1>5 DEF ClaimsInv, ClaimsAgree

\* The trigger that fires when a match finishes releases its players only.
LEMMA FinishKeepsClaims ==
    ASSUME ClaimsInv, NEW i \in MatchIDs, Finish(i)
    PROVE  ClaimsInv'
<1>1. /\ active' = [active EXCEPT ![i] = {}]
      /\ claim' = [u \in Users |-> IF claim[u] = i THEN NoMatch ELSE claim[u]]
  BY DEF Finish, ClaimsReleased
<1>2. \A j \in MatchIDs : active'[j] = IF j = i THEN {} ELSE active[j]
  BY <1>1 DEF ClaimsInv, TablesOK
<1>3. QED
  BY <1>1, <1>2, ConnsAssumption DEF ClaimsInv, TablesOK, ClaimsAgree

(***************************************************************************)
(* A player has at most one active match, for any number of gateways,      *)
(* match processes and failures: the claims that createMatch checks are    *)
(* exactly the players of the active matches.                              *)
(***************************************************************************)
THEOREM ClaimsAgreeHolds == Spec => []ClaimsAgree
<1>1. Init => ClaimsInv
  BY ConnsAssumption DEF Init, ClaimsInv, TablesOK, ClaimsAgree
<1>2. ClaimsInv /\ [Next]_vars => ClaimsInv'
  <2> SUFFICES ASSUME ClaimsInv, [Next]_vars PROVE ClaimsInv'
    OBVIOUS
  <2>1. ASSUME claim' = claim, active' = active
        PROVE  ClaimsInv'
    BY <2>1 DEF ClaimsInv, TablesOK, ClaimsAgree
  <2>2. ASSUME NEW c \in Conns, ConnStep(c)
        PROVE  claim' = claim /\ active' = active
    BY <2>2 DEF ConnStep, Connect, Disconnect, Cleanup, CleanupFails, PresenceExpires,
                JoinLock, LockLost, JoinEnqueue, JoinFails, Leave, dbVars
  <2>3. ASSUME NEW v \in Servers, ServerStep(v)
        PROVE  ClaimsInv'
    <3>1. CASE CreateMatch(v) \/ CreateAmbiguous(v)
      BY <3>1, InsertKeepsClaims DEF CreateMatch, CreateAmbiguous
    <3>2. CASE \/ PopPair(v) \/ PopNobody(v) \/ PopPairReplyLost(v) \/ DropIneligible(v)
               \/ CreateFails(v) \/ Requeue(v) \/ RequeueFails(v) \/ ServerDies(v)
      BY <2>1, <3>2 DEF PopPair, PopNobody, PopPairReplyLost, DropIneligible, CreateFails,
                        Requeue, RequeueFails, ServerDies, dbVars
    <3>3. QED
      BY <2>3, <3>1, <3>2 DEF ServerStep
  <2>4. ASSUME NEW u \in Users, RemoveUser(u)
        PROVE  claim' = claim /\ active' = active
    BY <2>4 DEF RemoveUser
  <2>5. CASE UNCHANGED vars
    BY <2>1, <2>5 DEF vars
  <2>6. CASE Next
    BY <2>1, <2>2, <2>3, <2>4, <2>6, FinishKeepsClaims DEF Next
  <2>7. QED
    BY <2>5, <2>6
<1>3. ClaimsInv => ClaimsAgree
  BY DEF ClaimsInv
<1>4. QED
  BY <1>1, <1>2, <1>3, PTL DEF Spec

-----------------------------------------------------------------------------
(* The queue.                                                              *)

\* Popped entries name connections of distinct users and have a score.
EntriesOK(entries) ==
    /\ \A e \in entries : e.conn \in Conns /\ e.score \in Nat \ {0}
    /\ \A e, f \in entries : Owner[e.conn] = Owner[f.conn] => e = f

HeldOK == \A v \in Servers : EntriesOK(sv[v].held)

\* The sorted set and the hash; the hash stores a user's own connections.
ShapeOK ==
    /\ score \in [Conns -> Nat]
    /\ member \in [Users -> Conns \cup {NoConn}]
    /\ \A u \in Users : member[u] # NoConn => Owner[member[u]] = u
    /\ last \in Nat

QueueInv ==
    /\ ShapeOK
    /\ sv = [v \in Servers |-> sv[v]]
    /\ OneEntryPerUser
    /\ HeldOK

\* enqueue.lua: a queued user's entry moves to the new connection, anyone
\* else gets a fresh one.
LEMMA EnqueueKeepsQueue ==
    ASSUME ShapeOK, OneEntryPerUser, NEW c \in Conns, Enqueue(c)
    PROVE  ShapeOK' /\ OneEntryPerUser'
<1> DEFINE old == member[Owner[c]]
<1>0. Owner[c] \in Users /\ Owner \in [Conns -> Users]
  BY ConnsAssumption
<1>1. /\ member' \in [Users -> Conns \cup {NoConn}]
      /\ \A u \in Users : member'[u] = IF u = Owner[c] THEN c ELSE member[u]
      /\ \A u \in Users : member'[u] # NoConn => Owner[member'[u]] = u
  BY <1>0 DEF Enqueue, ShapeOK
<1>2. \A d \in Conns : score[d] # 0 <=> member[Owner[d]] = d
  BY DEF OneEntryPerUser, Queued
<1>3. CASE old # NoConn /\ Queued(old)
  <2>1. /\ score' = [d \in Conns |-> IF d = c THEN score[old]
                                     ELSE IF d = old THEN 0 ELSE score[d]]
        /\ last' = last
    BY <1>3 DEF Enqueue
  <2>2. score[old] # 0 /\ old \in Conns /\ Owner[old] = Owner[c]
    BY <1>0, <1>3 DEF Queued, ShapeOK
  <2>3. ShapeOK'
    BY <1>1, <2>1, <2>2 DEF ShapeOK
  <2>4. \A d \in Conns : score'[d] # 0 <=> member'[Owner[d]] = d
    BY <1>0, <1>1, <1>2, <2>1, <2>2
  <2>5. QED
    BY <2>3, <2>4 DEF OneEntryPerUser, Queued
<1>4. CASE ~(old # NoConn /\ Queued(old))
  <2>1. PICK now \in 0 .. last + 1 :
          /\ score' = [score EXCEPT ![c] = NextScore(now)]
          /\ last' = NextScore(now)
    BY <1>4 DEF Enqueue
  <2>2. NextScore(now) \in Nat \ {0}
    BY DEF NextScore, ShapeOK
  <2>3. /\ score' \in [Conns -> Nat]
        /\ \A d \in Conns : score'[d] = IF d = c THEN NextScore(now) ELSE score[d]
    BY <2>1, <2>2 DEF ShapeOK
  <2>4. \A d \in Conns : Owner[d] = Owner[c] /\ d # c => score[d] = 0
    BY <1>2, <1>4, ConnsAssumption DEF Queued
  <2>5. \A d \in Conns : score'[d] # 0 <=> member'[Owner[d]] = d
    BY <1>0, <1>1, <1>2, <2>2, <2>3, <2>4
  <2>6. QED
    BY <1>1, <2>1, <2>2, <2>3, <2>5 DEF OneEntryPerUser, Queued, ShapeOK
<1>5. QED
  BY <1>3, <1>4

\* dequeue.lua removes the entry from both halves, or from neither.
LEMMA LeaveKeepsQueue ==
    ASSUME ShapeOK, OneEntryPerUser, NEW c \in Conns, Leave(c)
    PROVE  ShapeOK' /\ OneEntryPerUser'
<1>0. Owner[c] \in Users /\ Owner \in [Conns -> Users] /\ NoConn \notin Conns
  BY ConnsAssumption
<1>1. CASE member[Owner[c]] = c
  <2>1. /\ score' = [score EXCEPT ![c] = 0]
        /\ member' = [member EXCEPT ![Owner[c]] = NoConn]
        /\ last' = last
    BY <1>1 DEF Leave
  <2>2. ShapeOK'
    BY <1>0, <2>1 DEF ShapeOK
  <2>3. \A d \in Conns : score'[d] # 0 <=> member'[Owner[d]] = d
    BY <1>0, <1>1, <2>1 DEF ShapeOK, OneEntryPerUser, Queued
  <2>4. QED
    BY <2>2, <2>3 DEF OneEntryPerUser, Queued
<1>2. CASE member[Owner[c]] # c
  BY <1>2 DEF Leave, ShapeOK, OneEntryPerUser, Queued
<1>3. QED
  BY <1>1, <1>2

\* remove_member of pop_pair.lua, for any set of connections.
LEMMA RemoveKeepsQueue ==
    ASSUME ShapeOK, OneEntryPerUser, NEW gone \in SUBSET Conns, Remove(gone)
    PROVE  ShapeOK' /\ OneEntryPerUser'
<1>0. Owner \in [Conns -> Users] /\ NoConn \notin Conns
  BY ConnsAssumption
<1>1. ShapeOK'
  BY DEF Remove, ShapeOK
<1>2. \A d \in Conns : score'[d] # 0 <=> member'[Owner[d]] = d
  BY <1>0 DEF Remove, ShapeOK, OneEntryPerUser, Queued
<1>3. QED
  BY <1>1, <1>2 DEF OneEntryPerUser, Queued

\* requeue.lua restores an entry only where its user has none by now.
LEMMA RestoreKeepsQueue ==
    ASSUME ShapeOK, OneEntryPerUser, NEW entries, EntriesOK(entries),
           RestoreEntries(entries)
    PROVE  ShapeOK' /\ OneEntryPerUser'
<1> DEFINE R == Restored(entries)
<1>0. Owner \in [Conns -> Users] /\ NoConn \notin Conns
  BY ConnsAssumption
<1>1. /\ \A e \in R : e.conn \in Conns /\ e.score \in Nat \ {0}
      /\ \A e, f \in R : Owner[e.conn] = Owner[f.conn] => e = f
      /\ \A e \in R : member[Owner[e.conn]] \in {NoConn, e.conn}
  BY DEF EntriesOK, Restored
<1>2. /\ score' = [c \in Conns |-> IF \E e \in R : e.conn = c
                                     THEN (CHOOSE e \in R : e.conn = c).score
                                     ELSE score[c]]
      /\ member' = [u \in Users |-> IF u \in Owners(R)
                                      THEN (CHOOSE e \in R : Owner[e.conn] = u).conn
                                      ELSE member[u]]
      /\ last' = last
  BY DEF RestoreEntries
<1> HIDE DEF R
<1>3. ASSUME NEW c \in Conns, NEW e \in R, e.conn = c
      PROVE  score'[c] \in Nat \ {0} /\ member'[Owner[c]] = c
  <2>1. (CHOOSE f \in R : f.conn = c) \in R
    BY <1>3
  <2>2. score'[c] \in Nat \ {0}
    BY <1>1, <1>2, <1>3, <2>1
  <2>3. Owner[c] \in Owners(R)
    BY <1>3 DEF Owners
  <2>4. /\ (CHOOSE f \in R : Owner[f.conn] = Owner[c]) \in R
        /\ Owner[(CHOOSE f \in R : Owner[f.conn] = Owner[c]).conn] = Owner[c]
    BY <1>3
  <2>5. (CHOOSE f \in R : Owner[f.conn] = Owner[c]) = e
    BY <1>1, <1>3, <2>4
  <2>6. QED
    BY <1>0, <1>2, <1>3, <2>2, <2>3, <2>5
<1>4. ASSUME NEW c \in Conns, ~ \E e \in R : e.conn = c
      PROVE  /\ score'[c] = score[c]
             /\ score[c] # 0 <=> member'[Owner[c]] = c
  <2>1. score'[c] = score[c]
    BY <1>2, <1>4
  <2>2. score[c] # 0 <=> member[Owner[c]] = c
    BY DEF OneEntryPerUser, Queued
  <2>3. CASE Owner[c] \notin Owners(R)
    BY <1>0, <1>2, <2>1, <2>2, <2>3
  <2>4. CASE Owner[c] \in Owners(R)
    <3>1. PICK e \in R : Owner[e.conn] = Owner[c]
      BY <2>4 DEF Owners
    <3>2. member[Owner[c]] # c
      BY <1>0, <1>1, <1>4, <3>1
    <3>3. (CHOOSE f \in R : Owner[f.conn] = Owner[c]) \in R
      BY <3>1
    <3>4. member'[Owner[c]] # c
      BY <1>0, <1>2, <1>4, <2>4, <3>3
    <3>5. QED
      BY <2>1, <2>2, <3>2, <3>4
  <2>5. QED
    BY <2>3, <2>4
<1>5. \A u \in Users : /\ member'[u] \in Conns \cup {NoConn}
                       /\ member'[u] # NoConn => Owner[member'[u]] = u
  <2> SUFFICES ASSUME NEW u \in Users
               PROVE  /\ member'[u] \in Conns \cup {NoConn}
                      /\ member'[u] # NoConn => Owner[member'[u]] = u
    OBVIOUS
  <2>1. CASE u \in Owners(R)
    <3>1. /\ (CHOOSE f \in R : Owner[f.conn] = u) \in R
          /\ Owner[(CHOOSE f \in R : Owner[f.conn] = u).conn] = u
      BY <2>1 DEF Owners
    <3>2. QED
      BY <1>1, <1>2, <2>1, <3>1
  <2>2. CASE u \notin Owners(R)
    BY <1>2, <2>2 DEF ShapeOK
  <2>3. QED
    BY <2>1, <2>2
<1>6. ShapeOK'
  <2>1. \A c \in Conns : score'[c] \in Nat
    BY <1>3, <1>4 DEF ShapeOK
  <2>2. QED
    BY <1>2, <1>5, <2>1 DEF ShapeOK
<1>7. \A c \in Conns : score'[c] # 0 <=> member'[Owner[c]] = c
  BY <1>3, <1>4
<1>8. QED
  BY <1>6, <1>7 DEF OneEntryPerUser, Queued

\* What pop_pair.lua returns: valid entries, so of distinct users.
LEMMA PoppedEntriesOK ==
    ASSUME ShapeOK
    PROVE  EntriesOK({[conn |-> c, score |-> score[c]] : c \in Selected})
<1>1. \A c \in Selected : c \in Conns /\ score[c] # 0 /\ member[Owner[c]] = c
  BY DEF Selected, Scanned, Valid, Queued
<1>2. QED
  BY <1>1 DEF EntriesOK, ShapeOK

\* A match process that holds good entries after its step keeps HeldOK.
LEMMA HeldKept ==
    ASSUME QueueInv, NEW v \in Servers, NEW s, EntriesOK(s.held), sv' = [sv EXCEPT ![v] = s]
    PROVE  HeldOK' /\ sv' = [w \in Servers |-> sv'[w]]
<1>1. \A w \in Servers : sv'[w] = IF w = v THEN s ELSE sv[w]
  BY DEF QueueInv
<1>2. \A w \in Servers : EntriesOK(sv'[w].held)
  BY <1>1 DEF QueueInv, HeldOK
<1>3. HeldOK'
  BY <1>2 DEF HeldOK, EntriesOK
<1>4. QED
  BY <1>3 DEF QueueInv

\* A step of a match process.
LEMMA ServerKeepsQueue ==
    ASSUME QueueInv, NEW v \in Servers, ServerStep(v)
    PROVE  QueueInv'
<1>1. ShapeOK /\ OneEntryPerUser /\ EntriesOK(sv[v].held)
  BY DEF QueueInv, HeldOK
<1>2. EntriesOK(IdleServer.held)
  BY DEF EntriesOK, IdleServer
<1>3. ASSUME UNCHANGED queueVars
      PROVE  ShapeOK' /\ OneEntryPerUser'
  BY <1>1, <1>3 DEF queueVars, ShapeOK, OneEntryPerUser, Queued
<1>4. ASSUME sv' = sv
      PROVE  HeldOK' /\ sv' = [w \in Servers |-> sv'[w]]
  BY <1>4 DEF QueueInv, HeldOK, EntriesOK
<1>5. Stale \in SUBSET Conns /\ Selected \in SUBSET Conns
  BY DEF Stale, Selected, Scanned
<1>6. ASSUME NEW p, sv' = [sv EXCEPT ![v].pc = p]
      PROVE  HeldOK' /\ sv' = [w \in Servers |-> sv'[w]]
  <2>1. \A w \in Servers : sv'[w].held = sv[w].held
    BY <1>6 DEF QueueInv
  <2>2. \A w \in Servers : EntriesOK(sv'[w].held)
    BY <2>1 DEF QueueInv, HeldOK
  <2>3. QED
    BY <1>6, <2>2 DEF QueueInv, HeldOK, EntriesOK
<1>7. CASE PopPair(v)
  <2> DEFINE s == [pc |-> "create", held |-> {[conn |-> c, score |-> score[c]] : c \in Selected}]
  <2>1. EntriesOK(s.held)
    BY <1>1, PoppedEntriesOK
  <2>2. sv' = [sv EXCEPT ![v] = s] /\ Remove(Stale \cup Selected)
    BY <1>7 DEF PopPair
  <2> HIDE DEF s
  <2>3. QED
    BY <1>1, <1>5, <2>1, <2>2, HeldKept, RemoveKeepsQueue DEF QueueInv
<1>8. CASE PopNobody(v) \/ PopPairReplyLost(v)
  <2>1. sv' = sv /\ \E gone \in SUBSET Conns : Remove(gone)
    BY <1>5, <1>8 DEF PopNobody, PopPairReplyLost
  <2>2. QED
    BY <1>1, <1>4, <2>1, RemoveKeepsQueue DEF QueueInv
<1>9. CASE CreateMatch(v) \/ ServerDies(v)
  <2>1. sv' = [sv EXCEPT ![v] = IdleServer] /\ UNCHANGED queueVars
    BY <1>9 DEF CreateMatch, ServerDies
  <2>2. QED
    BY <1>2, <1>3, <2>1, HeldKept DEF QueueInv
<1>10. CASE DropIneligible(v)
  <2> DEFINE eligible == {e \in sv[v].held : Owner[e.conn] \notin Ineligible(v)}
             s == IF eligible = {} THEN IdleServer ELSE [pc |-> "requeue", held |-> eligible]
  <2>1. EntriesOK(eligible)
    BY <1>1 DEF EntriesOK
  <2>2. EntriesOK(s.held)
    BY <1>2, <2>1
  <2>3. sv' = [sv EXCEPT ![v] = s] /\ UNCHANGED queueVars
    BY <1>10 DEF DropIneligible
  <2> HIDE DEF s
  <2>4. QED
    BY <1>3, <2>2, <2>3, HeldKept DEF QueueInv
<1>11. CASE CreateFails(v) \/ CreateAmbiguous(v)
  <2>1. sv' = [sv EXCEPT ![v].pc = "requeue"] /\ UNCHANGED queueVars
    BY <1>11 DEF CreateFails, CreateAmbiguous
  <2>2. QED
    BY <1>3, <1>6, <2>1 DEF QueueInv
<1>12. CASE Requeue(v)
  <2>1. sv' = [sv EXCEPT ![v] = IdleServer] /\ RestoreEntries(sv[v].held)
    BY <1>12 DEF Requeue
  <2>2. QED
    BY <1>1, <1>2, <2>1, HeldKept, RestoreKeepsQueue DEF QueueInv
<1>13. CASE RequeueFails(v)
  <2>1. /\ sv' = [sv EXCEPT ![v].pc = "pending"]
        /\ RestoreEntries(sv[v].held) \/ UNCHANGED queueVars
    BY <1>13 DEF RequeueFails
  <2>2. QED
    BY <1>1, <1>3, <1>6, <2>1, RestoreKeepsQueue DEF QueueInv
<1>14. QED
  BY <1>7, <1>8, <1>9, <1>10, <1>11, <1>12, <1>13 DEF ServerStep

LEMMA QueueInit == Init => QueueInv
BY ConnsAssumption DEF Init, IdleServer, QueueInv, ShapeOK, OneEntryPerUser, Queued,
   HeldOK, EntriesOK

LEMMA QueueNext == QueueInv /\ [Next]_vars => QueueInv'
<1> SUFFICES ASSUME QueueInv, [Next]_vars PROVE QueueInv'
  OBVIOUS
<1>1. ASSUME sv' = sv
      PROVE  HeldOK' /\ sv' = [w \in Servers |-> sv'[w]]
  BY <1>1 DEF QueueInv, HeldOK, EntriesOK
<1>2. ASSUME UNCHANGED <<score, member, last, sv>>
      PROVE  QueueInv'
  BY <1>1, <1>2 DEF QueueInv, ShapeOK, OneEntryPerUser, Queued
<1>3. ASSUME NEW c \in Conns, ConnStep(c)
      PROVE  QueueInv'
  <2>1. CASE JoinEnqueue(c)
    BY <1>1, <2>1, EnqueueKeepsQueue DEF JoinEnqueue, QueueInv
  <2>2. CASE Leave(c)
    <3>1. sv' = sv
      BY <2>2 DEF Leave
    <3>2. QED
      BY <1>1, <2>2, <3>1, LeaveKeepsQueue DEF QueueInv
  <2>3. CASE \/ Connect(c) \/ Disconnect(c) \/ Cleanup(c) \/ CleanupFails(c)
             \/ PresenceExpires(c) \/ JoinLock(c) \/ LockLost(c) \/ JoinFails(c)
    BY <1>2, <2>3 DEF Connect, Disconnect, Cleanup, CleanupFails, PresenceExpires,
                      JoinLock, LockLost, JoinFails, queueVars
  <2>4. QED
    BY <1>3, <2>1, <2>2, <2>3 DEF ConnStep
<1>4. ASSUME NEW i \in MatchIDs, Finish(i)
      PROVE  QueueInv'
  BY <1>2, <1>4 DEF Finish, queueVars
<1>5. ASSUME NEW u \in Users, RemoveUser(u)
      PROVE  QueueInv'
  BY <1>2, <1>5 DEF RemoveUser, queueVars
<1>6. CASE UNCHANGED vars
  BY <1>2, <1>6 DEF vars
<1>7. CASE Next
  BY <1>3, <1>4, <1>5, <1>7, ServerKeepsQueue DEF Next
<1>8. QED
  BY <1>6, <1>7

LEMMA QueueInvariance == Spec => []QueueInv
BY QueueInit, QueueNext, PTL DEF Spec

(***************************************************************************)
(* A user is queued at most once, for any number of connections and match  *)
(* processes: the four scripts keep the sorted set and the hash in step,   *)
(* a late requeue included.                                                *)
(***************************************************************************)
THEOREM OneEntryPerUserHolds == Spec => []OneEntryPerUser
<1>1. QueueInv => OneEntryPerUser
  BY DEF QueueInv
<1>2. QED
  BY <1>1, QueueInvariance, PTL

-----------------------------------------------------------------------------
(* The order of the queue.                                                 *)

\* Entries on their way back never meet: of two users they differ in score.
HeldApart ==
    \A v, w \in Servers : \A e \in sv[v].held, f \in sv[w].held :
        Owner[e.conn] # Owner[f.conn] => e.score # f.score

OrderInv == ScoresOrder /\ HeldApart

\* A step that only takes entries out of the queue, into a process or away.
Shrinks ==
    /\ \A c \in Conns : score'[c] \in {0, score[c]}
    /\ last' = last
    /\ \A w \in Servers : \A e \in sv'[w].held :
         \/ e \in sv[w].held
         \/ e.conn \in Conns /\ score[e.conn] # 0 /\ e.score = score[e.conn]

\* A step that puts the entries of a process back.
GivesBack(v) ==
    /\ RestoreEntries(sv[v].held)
    /\ \A w \in Servers : sv'[w].held \subseteq sv[w].held

\* What a step does to the queue and to the hands of the match processes.
LEMMA QueueSteps ==
    ASSUME QueueInv, [Next]_vars
    PROVE  \/ \E c \in Conns : Enqueue(c) /\ sv' = sv
           \/ \E v \in Servers : GivesBack(v)
           \/ Shrinks
<1>1. ASSUME UNCHANGED queueVars, \A w \in Servers : sv'[w].held \subseteq sv[w].held
      PROVE  Shrinks
  BY <1>1 DEF Shrinks, queueVars
<1>2. ASSUME NEW gone, Remove(gone),
             \A w \in Servers : \A e \in sv'[w].held :
               e \in sv[w].held \/ \E c \in Selected : e = [conn |-> c, score |-> score[c]]
      PROVE  Shrinks
  <2>1. \A c \in Selected : c \in Conns /\ score[c] # 0
    BY DEF Selected, Scanned, Queued
  <2>2. \A c \in Conns : score'[c] \in {0, score[c]}
    BY <1>2 DEF Remove
  <2>3. last' = last
    BY <1>2 DEF Remove
  <2>4. ASSUME NEW w \in Servers, NEW e \in sv'[w].held, e \notin sv[w].held
        PROVE  e.conn \in Conns /\ score[e.conn] # 0 /\ e.score = score[e.conn]
    <3>1. PICK c \in Selected : e = [conn |-> c, score |-> score[c]]
      BY <1>2, <2>4
    <3>2. QED
      BY <2>1, <3>1
  <2>5. QED
    BY <2>2, <2>3, <2>4 DEF Shrinks
<1>3. ASSUME NEW c \in Conns, ConnStep(c)
      PROVE  Shrinks \/ (Enqueue(c) /\ sv' = sv)
  <2>1. CASE JoinEnqueue(c)
    BY <2>1 DEF JoinEnqueue
  <2>2. CASE Leave(c)
    BY <2>2 DEF Leave, Shrinks, QueueInv, ShapeOK
  <2>3. CASE \/ Connect(c) \/ Disconnect(c) \/ Cleanup(c) \/ CleanupFails(c)
             \/ PresenceExpires(c) \/ JoinLock(c) \/ LockLost(c) \/ JoinFails(c)
    BY <1>1, <2>3 DEF Connect, Disconnect, Cleanup, CleanupFails, PresenceExpires,
       JoinLock, LockLost, JoinFails
  <2>4. QED
    BY <1>3, <2>1, <2>2, <2>3 DEF ConnStep
<1>4. ASSUME NEW v \in Servers, ServerStep(v)
      PROVE  Shrinks \/ GivesBack(v)
  <2>1. ASSUME NEW H, NEW p, sv' = [sv EXCEPT ![v] = [pc |-> p, held |-> H]]
        PROVE  \A w \in Servers : sv'[w].held = IF w = v THEN H ELSE sv[w].held
    BY <2>1 DEF QueueInv
  <2>2. ASSUME NEW p, sv' = [sv EXCEPT ![v].pc = p]
        PROVE  \A w \in Servers : sv'[w].held = sv[w].held
    BY <2>2 DEF QueueInv
  <2>3. CASE PopPair(v)
    <3>1. sv' = [sv EXCEPT ![v] = [pc |-> "create", held |-> {[conn |-> c, score |-> score[c]] : c \in Selected}]]
          /\ Remove(Stale \cup Selected)
      BY <2>3 DEF PopPair
    <3>2. \A w \in Servers : sv'[w].held =
            IF w = v THEN {[conn |-> c, score |-> score[c]] : c \in Selected} ELSE sv[w].held
      BY <2>1, <3>1
    <3>3. QED
      BY <1>2, <3>1, <3>2
  <2>4. CASE PopNobody(v) \/ PopPairReplyLost(v)
    BY <1>2, <2>4 DEF PopNobody, PopPairReplyLost
  <2>5. CASE CreateMatch(v) \/ ServerDies(v)
    BY <1>1, <2>1, <2>5 DEF CreateMatch, ServerDies, IdleServer
  <2>6. CASE DropIneligible(v)
    <3> DEFINE eligible == {e \in sv[v].held : Owner[e.conn] \notin Ineligible(v)}
    <3>1. PICK H \in SUBSET sv[v].held :
            \/ sv' = [sv EXCEPT ![v] = [pc |-> "idle", held |-> H]]
            \/ sv' = [sv EXCEPT ![v] = [pc |-> "requeue", held |-> H]]
      <4>1. CASE eligible = {}
        BY <2>6, <4>1 DEF DropIneligible, IdleServer
      <4>2. CASE eligible # {}
        BY <2>6, <4>2 DEF DropIneligible
      <4>3. QED
        BY <4>1, <4>2
    <3>2. UNCHANGED queueVars
      BY <2>6 DEF DropIneligible
    <3>3. QED
      BY <1>1, <2>1, <3>1, <3>2
  <2>7. CASE CreateFails(v) \/ CreateAmbiguous(v)
    BY <1>1, <2>2, <2>7 DEF CreateFails, CreateAmbiguous
  <2>8. CASE Requeue(v)
    BY <2>1, <2>8 DEF Requeue, IdleServer, GivesBack
  <2>9. CASE RequeueFails(v)
    <3>1. \A w \in Servers : sv'[w].held = sv[w].held
      BY <2>2, <2>9 DEF RequeueFails
    <3>2. QED
      BY <1>1, <2>9, <3>1 DEF RequeueFails, GivesBack
  <2>10. QED
    BY <1>4, <2>3, <2>4, <2>5, <2>6, <2>7, <2>8, <2>9 DEF ServerStep
<1>5. CASE \/ \E i \in MatchIDs : Finish(i)
           \/ \E u \in Users : RemoveUser(u)
           \/ UNCHANGED vars
  BY <1>1, <1>5 DEF Finish, RemoveUser, vars, queueVars
<1>6. QED
  BY <1>3, <1>4, <1>5 DEF Next

\* Taking entries out disturbs no order.
LEMMA ShrinkKeepsOrder ==
    ASSUME QueueInv, OrderInv, Shrinks
    PROVE  OrderInv'
<1> USE DEF OrderInv, Shrinks
<1>1. \A c, d \in Conns : c # d /\ score'[c] # 0 /\ score'[d] # 0 => score'[c] # score'[d]
  BY DEF ScoresOrder, Queued
<1>2. \A c \in Conns : score'[c] <= last'
  BY DEF ScoresOrder, QueueInv, ShapeOK
<1>3. ASSUME NEW w \in Servers, NEW e \in sv'[w].held, NEW c \in Conns
      PROVE  /\ score'[c] # 0 /\ Owner[c] # Owner[e.conn] => score'[c] # e.score
             /\ e.score <= last'
  <2>1. CASE e \in sv[w].held
    BY <1>3, <2>1 DEF ScoresOrder, Queued
  <2>2. CASE e.conn \in Conns /\ score[e.conn] # 0 /\ e.score = score[e.conn]
    BY <1>3, <2>2 DEF ScoresOrder, Queued
  <2>3. QED
    BY <2>1, <2>2
<1>4. ASSUME NEW v \in Servers, NEW w \in Servers, NEW e \in sv'[v].held, NEW f \in sv'[w].held,
             Owner[e.conn] # Owner[f.conn]
      PROVE  e.score # f.score
  <2>1. CASE e \in sv[v].held /\ f \in sv[w].held
    BY <1>4, <2>1 DEF HeldApart
  <2>2. CASE e \in sv[v].held /\ f \notin sv[w].held
    BY <1>4, <2>2 DEF ScoresOrder, Queued
  <2>3. CASE e \notin sv[v].held /\ f \in sv[w].held
    BY <1>4, <2>3 DEF ScoresOrder, Queued
  <2>4. CASE e \notin sv[v].held /\ f \notin sv[w].held
    BY <1>4, <2>4 DEF ScoresOrder, Queued
  <2>5. QED
    BY <2>1, <2>2, <2>3, <2>4
<1>5. QED
  BY <1>1, <1>2, <1>3, <1>4 DEF ScoresOrder, HeldApart, Queued

\* A new score is later than all, also than those on their way back.
LEMMA EnqueueKeepsOrder ==
    ASSUME QueueInv, OrderInv, NEW c \in Conns, Enqueue(c), sv' = sv
    PROVE  OrderInv'
<1> DEFINE old == member[Owner[c]]
<1>1. HeldApart'
  BY DEF OrderInv, HeldApart
<1>2. CASE old # NoConn /\ Queued(old)
  <2>1. /\ score' = [d \in Conns |-> IF d = c THEN score[old]
                                     ELSE IF d = old THEN 0 ELSE score[d]]
        /\ last' = last
    BY <1>2 DEF Enqueue
  <2>2. old \in Conns /\ Owner[old] = Owner[c] /\ score[old] # 0
    BY <1>2, ConnsAssumption DEF Queued, QueueInv, ShapeOK
  <2>3. ScoresOrder'
    BY <2>1, <2>2 DEF OrderInv, ScoresOrder, Queued, QueueInv, ShapeOK
  <2>4. QED
    BY <1>1, <2>3 DEF OrderInv
<1>3. CASE ~(old # NoConn /\ Queued(old))
  <2>1. PICK now \in 0 .. last + 1 :
          /\ score' = [score EXCEPT ![c] = NextScore(now)]
          /\ last' = NextScore(now)
    BY <1>3 DEF Enqueue
  <2>2. NextScore(now) \in Nat /\ last < NextScore(now) /\ last \in Nat
    BY DEF NextScore, QueueInv, ShapeOK
  <2>3. \A d \in Conns : /\ score'[d] = IF d = c THEN NextScore(now) ELSE score[d]
                         /\ score[d] \in Nat /\ score[d] <= last
    BY <2>1 DEF OrderInv, ScoresOrder, QueueInv, ShapeOK
  <2>4. \A w \in Servers : \A e \in sv[w].held : e.score \in Nat /\ e.score <= last
    BY DEF OrderInv, ScoresOrder, QueueInv, HeldOK, EntriesOK
  <2>5. ScoresOrder'
    <3>1. \A d, e \in Conns : d # e /\ score'[d] # 0 /\ score'[e] # 0 => score'[d] # score'[e]
      BY <2>2, <2>3 DEF OrderInv, ScoresOrder, Queued
    <3>2. \A w \in Servers, d \in Conns : \A e \in sv'[w].held :
            /\ score'[d] # 0 /\ Owner[d] # Owner[e.conn] => score'[d] # e.score
            /\ e.score <= last'
      BY <2>1, <2>2, <2>3, <2>4 DEF OrderInv, ScoresOrder, Queued
    <3>3. \A d \in Conns : score'[d] <= last'
      BY <2>1, <2>2, <2>3
    <3>4. QED
      BY <3>1, <3>2, <3>3 DEF ScoresOrder, Queued
  <2>6. QED
    BY <1>1, <2>5 DEF OrderInv
<1>4. QED
  BY <1>2, <1>3

\* A restored entry is alone of its user in the queue, and no other user's
\* entry, queued or held, has its score.
LEMMA GiveBackKeepsOrder ==
    ASSUME QueueInv, OrderInv, NEW v \in Servers, GivesBack(v)
    PROVE  OrderInv'
<1> DEFINE R == Restored(sv[v].held)
<1>0. Owner \in [Conns -> Users] /\ NoConn \notin Conns
  BY ConnsAssumption
<1>1. EntriesOK(sv[v].held) /\ R \subseteq sv[v].held
  BY DEF QueueInv, HeldOK, Restored
<1>2. ASSUME NEW e \in R, NEW d \in Conns, score[d] # 0
      PROVE  Owner[d] # Owner[e.conn]
  <2>1. member[Owner[d]] = d
    BY <1>2 DEF QueueInv, OneEntryPerUser, Queued
  <2>2. QED
    BY <1>0, <1>2, <2>1 DEF Restored, Queued
<1>3. ASSUME NEW c \in Conns
      PROVE  \/ \E e \in R : e.conn = c /\ score'[c] = e.score
             \/ score'[c] = score[c]
  <2>1. score'[c] = IF \E e \in R : e.conn = c THEN (CHOOSE e \in R : e.conn = c).score
                                                ELSE score[c]
    BY DEF GivesBack, RestoreEntries
  <2>2. CASE \E e \in R : e.conn = c
    BY <2>1, <2>2
  <2>3. QED
    BY <2>1, <2>2
<1>4. last' = last
  BY DEF GivesBack, RestoreEntries
<1> HIDE DEF R
<1>5. \A e, f \in R : e.conn # f.conn => e.score # f.score
  <2>1. \A e, f \in R : e.conn # f.conn => Owner[e.conn] # Owner[f.conn]
    BY <1>1 DEF EntriesOK
  <2>2. QED
    BY <1>1, <2>1 DEF OrderInv, HeldApart
<1>6. ASSUME NEW e \in R, NEW d \in Conns, score[d] # 0
      PROVE  score[d] # e.score
  BY <1>1, <1>2, <1>6 DEF OrderInv, ScoresOrder, Queued
<1>7. \A c, d \in Conns : c # d /\ score'[c] # 0 /\ score'[d] # 0 => score'[c] # score'[d]
  <2> SUFFICES ASSUME NEW c \in Conns, NEW d \in Conns, c # d, score'[c] # 0, score'[d] # 0
               PROVE  score'[c] # score'[d]
    OBVIOUS
  <2>1. CASE score'[c] = score[c] /\ score'[d] = score[d]
    BY <2>1 DEF OrderInv, ScoresOrder, Queued
  <2>2. CASE score'[c] = score[c] /\ \E e \in R : e.conn = d /\ score'[d] = e.score
    BY <1>6, <2>2
  <2>3. CASE score'[d] = score[d] /\ \E e \in R : e.conn = c /\ score'[c] = e.score
    BY <1>6, <2>3
  <2>4. CASE /\ \E e \in R : e.conn = c /\ score'[c] = e.score
             /\ \E e \in R : e.conn = d /\ score'[d] = e.score
    BY <1>5, <2>4
  <2>5. QED
    BY <1>3, <2>1, <2>2, <2>3, <2>4
<1>8. ASSUME NEW w \in Servers, NEW f \in sv'[w].held, NEW c \in Conns
      PROVE  /\ score'[c] # 0 /\ Owner[c] # Owner[f.conn] => score'[c] # f.score
             /\ f.score <= last'
  <2>1. f \in sv[w].held
    BY <1>8 DEF GivesBack
  <2>2. CASE score'[c] = score[c]
    BY <1>4, <2>1, <2>2 DEF OrderInv, ScoresOrder, Queued
  <2>3. CASE \E e \in R : e.conn = c /\ score'[c] = e.score
    BY <1>1, <1>4, <2>1, <2>3 DEF OrderInv, ScoresOrder, HeldApart
  <2>4. QED
    BY <1>3, <2>2, <2>3
<1>9. \A c \in Conns : score'[c] <= last'
  BY <1>1, <1>3, <1>4 DEF OrderInv, ScoresOrder
<1>10. HeldApart'
  <2>1. \A w \in Servers : sv'[w].held \subseteq sv[w].held
    BY DEF GivesBack
  <2>2. QED
    BY <2>1 DEF OrderInv, HeldApart
<1>11. QED
  BY <1>7, <1>8, <1>9, <1>10 DEF OrderInv, ScoresOrder, Queued

(***************************************************************************)
(* Scores order the queue, for any number of users and processes and       *)
(* whatever the clock of Redis says: a requeued entry comes back to its    *)
(* own place and to nobody else's.                                         *)
(***************************************************************************)
THEOREM ScoresOrderHolds == Spec => []ScoresOrder
<1>1. Init => OrderInv
  BY DEF Init, IdleServer, OrderInv, ScoresOrder, HeldApart, Queued
<1>2. QueueInv /\ OrderInv /\ [Next]_vars => OrderInv'
  BY QueueSteps, EnqueueKeepsOrder, GiveBackKeepsOrder, ShrinkKeepsOrder
<1>3. OrderInv => ScoresOrder
  BY DEF OrderInv
<1>4. QED
  BY <1>1, <1>2, <1>3, QueueInvariance, PTL DEF Spec

-----------------------------------------------------------------------------
(* Nobody is forgotten.                                                    *)

\* Who waits exists and has no match.
WaitersOK ==
    /\ waiting \subseteq users /\ users \subseteq Users
    /\ \A u \in waiting : claim[u] = NoMatch

\* The entry that the hash names for a user who waits is that of a connection
\* that is present: a requeue that gives way to it forgets nobody.
EntriesPresent ==
    /\ presence \subseteq Conns
    /\ \A u \in waiting : member[u] # NoConn => member[u] \in presence

\* A process that is about to pop has nothing in its hands.
IdleEmpty == \A v \in Servers : sv[v].pc = "idle" => sv[v].held = {}

WaitInv == WaitersOK /\ EntriesPresent /\ IdleEmpty /\ NobodyForgotten

LEMMA IdleStep ==
    ASSUME QueueInv, IdleEmpty, [Next]_vars
    PROVE  IdleEmpty'
<1> USE DEF IdleEmpty
<1>1. CASE sv' = sv
  BY <1>1
<1>2. ASSUME NEW v \in Servers, NEW s, s.pc = "idle" => s.held = {}, sv' = [sv EXCEPT ![v] = s]
      PROVE  IdleEmpty'
  <2>1. \A w \in Servers : sv'[w] = IF w = v THEN s ELSE sv[w]
    BY <1>2 DEF QueueInv
  <2>2. QED
    BY <1>2, <2>1
<1>3. ASSUME NEW v \in Servers, NEW p, p # "idle", sv' = [sv EXCEPT ![v].pc = p]
      PROVE  IdleEmpty'
  <2>1. \A w \in Servers : sv'[w].pc = "idle" => sv'[w] = sv[w]
    BY <1>3 DEF QueueInv
  <2>2. QED
    BY <2>1
<1>4. ASSUME NEW v \in Servers, ServerStep(v) PROVE IdleEmpty'
  <2>1. CASE PopPair(v)
    BY <1>2, <2>1 DEF PopPair
  <2>2. CASE PopNobody(v) \/ PopPairReplyLost(v)
    BY <1>1, <2>2 DEF PopNobody, PopPairReplyLost
  <2>3. CASE CreateMatch(v) \/ Requeue(v) \/ ServerDies(v)
    BY <1>2, <2>3 DEF CreateMatch, Requeue, ServerDies, IdleServer
  <2>4. CASE DropIneligible(v)
    BY <1>2, <2>4 DEF DropIneligible, IdleServer
  <2>5. CASE CreateFails(v) \/ CreateAmbiguous(v) \/ RequeueFails(v)
    BY <1>3, <2>5 DEF CreateFails, CreateAmbiguous, RequeueFails
  <2>6. QED
    BY <1>4, <2>1, <2>2, <2>3, <2>4, <2>5 DEF ServerStep
<1>5. ASSUME NEW c \in Conns, ConnStep(c) PROVE sv' = sv
  BY <1>5 DEF ConnStep, Connect, Disconnect, Cleanup, CleanupFails, PresenceExpires,
     JoinLock, LockLost, JoinEnqueue, JoinFails, Leave
<1>6. CASE \/ \E i \in MatchIDs : Finish(i)
           \/ \E u \in Users : RemoveUser(u)
           \/ UNCHANGED vars
  BY <1>1, <1>6 DEF Finish, RemoveUser, vars
<1>7. QED
  BY <1>1, <1>4, <1>5, <1>6 DEF Next

LEMMA WaitersStep ==
    ASSUME WaitersOK, [Next]_vars
    PROVE  WaitersOK'
<1> USE DEF WaitersOK
<1>1. ASSUME UNCHANGED <<users, claim>>, waiting' \subseteq waiting
      PROVE  WaitersOK'
  BY <1>1
<1>2. ASSUME NEW c \in Conns, ConnStep(c) PROVE WaitersOK'
  <2>1. CASE JoinEnqueue(c)
    BY <2>1 DEF JoinEnqueue, dbVars
  <2>2. CASE \/ Connect(c) \/ Disconnect(c) \/ Cleanup(c) \/ CleanupFails(c)
             \/ PresenceExpires(c) \/ JoinLock(c) \/ LockLost(c) \/ JoinFails(c) \/ Leave(c)
    BY <1>1, <2>2 DEF Connect, Disconnect, Cleanup, CleanupFails, PresenceExpires,
       JoinLock, LockLost, JoinFails, Leave, StopsWaiting, dbVars
  <2>3. QED
    BY <1>2, <2>1, <2>2 DEF ConnStep
<1>3. ASSUME NEW v \in Servers, ServerStep(v) PROVE WaitersOK'
  <2>1. CASE InsertMatch(v)
    BY <2>1 DEF InsertMatch
  <2>2. CASE \/ PopPair(v) \/ PopNobody(v) \/ PopPairReplyLost(v) \/ DropIneligible(v)
             \/ CreateFails(v) \/ Requeue(v) \/ RequeueFails(v) \/ ServerDies(v)
    BY <1>1, <2>2 DEF PopPair, PopNobody, PopPairReplyLost, DropIneligible, CreateFails,
       Requeue, RequeueFails, ServerDies, dbVars
  <2>3. QED
    BY <1>3, <2>1, <2>2 DEF ServerStep, CreateMatch, CreateAmbiguous
<1>4. CASE \E i \in MatchIDs : Finish(i)
  BY <1>4 DEF Finish, ClaimsReleased
<1>5. CASE \E u \in Users : RemoveUser(u)
  BY <1>5 DEF RemoveUser
<1>6. CASE UNCHANGED vars
  BY <1>1, <1>6 DEF vars
<1>7. QED
  BY <1>2, <1>3, <1>4, <1>5, <1>6 DEF Next

\* A step of connections or tables that leaves the queue alone, and takes a
\* presence key only with its user's wait.
LEMMA PresenceStep ==
    ASSUME WaitInv, UNCHANGED <<score, member, sv, lost>>, waiting' \subseteq waiting,
           presence' \subseteq Conns,
           \A c \in presence : c \in presence' \/ Owner[c] \notin waiting',
           \A u \in Users : member[u] # NoConn => Owner[member[u]] = u
    PROVE  EntriesPresent' /\ NobodyForgotten'
<1>1. waiting \subseteq Users
  BY DEF WaitInv, WaitersOK
<1>2. EntriesPresent'
  BY <1>1 DEF WaitInv, EntriesPresent
<1>3. ASSUME NEW u \in waiting' \ lost'
      PROVE  \E c \in presence' : /\ Owner[c] = u
                                  /\ Queued(c)' \/ \E v \in Servers : c \in Held(v)'
  <2>1. PICK c \in presence : Owner[c] = u /\ (Queued(c) \/ \E v \in Servers : c \in Held(v))
    BY <1>3 DEF WaitInv, NobodyForgotten
  <2>2. c \in presence'
    BY <1>3, <2>1
  <2>3. QED
    BY <2>1, <2>2 DEF Queued, Held
<1>4. QED
  BY <1>2, <1>3 DEF NobodyForgotten

LEMMA ConnWaits ==
    ASSUME QueueInv, WaitInv, NEW c \in Conns, ConnStep(c)
    PROVE  EntriesPresent' /\ NobodyForgotten'
<1>0. /\ \A u \in Users : member[u] # NoConn => Owner[member[u]] = u
      /\ presence \subseteq Conns /\ waiting \subseteq Users
      /\ Owner \in [Conns -> Users] /\ NoConn \notin Conns
      /\ score \in [Conns -> Nat] /\ member \in [Users -> Conns \cup {NoConn}]
  BY ConnsAssumption DEF QueueInv, ShapeOK, WaitInv, EntriesPresent, WaitersOK
<1>1. CASE \/ Connect(c) \/ Disconnect(c) \/ CleanupFails(c)
           \/ JoinLock(c) \/ LockLost(c) \/ JoinFails(c)
  <2>1. /\ UNCHANGED <<score, member, sv, lost>> /\ waiting' \subseteq waiting
        /\ presence' \subseteq Conns
        /\ \A d \in presence : d \in presence' \/ Owner[d] \notin waiting'
    BY <1>0, <1>1 DEF Connect, Disconnect, CleanupFails, JoinLock, LockLost, JoinFails,
       queueVars
  <2>2. QED
    BY <1>0, <2>1, PresenceStep
\* The other two change the entry of their own user only.
<1>2. ASSUME NEW u \in waiting \ lost, u # Owner[c], UNCHANGED <<presence, sv>>,
             \A d \in Conns : Owner[d] # Owner[c] => score'[d] = score[d]
      PROVE  \E d \in presence' : /\ Owner[d] = u
                                  /\ Queued(d)' \/ \E v \in Servers : d \in Held(v)'
  <2>1. PICK d \in presence : Owner[d] = u /\ (Queued(d) \/ \E v \in Servers : d \in Held(v))
    BY <1>2 DEF WaitInv, NobodyForgotten
  <2>2. QED
    BY <1>0, <1>2, <2>1 DEF Queued, Held
<1>3. CASE Leave(c)
  <2>1. CASE member[Owner[c]] = c
    <3>1. /\ UNCHANGED <<presence, sv, lost>> /\ waiting' = waiting \ {Owner[c]}
          /\ \A d \in Conns : Owner[d] # Owner[c] => score'[d] = score[d]
          /\ \A u \in Users : u # Owner[c] => member'[u] = member[u]
      BY <1>0, <1>3, <2>1 DEF Leave, StopsWaiting, connVars
    <3>2. QED
      BY <1>0, <1>2, <3>1 DEF WaitInv, EntriesPresent, NobodyForgotten
  <2>2. CASE member[Owner[c]] # c
    <3>1. /\ UNCHANGED <<score, member, sv, lost, presence>> /\ waiting' \subseteq waiting
      BY <1>0, <1>3, <2>2 DEF Leave, StopsWaiting, connVars
    <3>2. QED
      BY <1>0, <3>1, PresenceStep
  <2>3. QED
    BY <2>1, <2>2
<1>4. CASE JoinEnqueue(c)
  <2>1. /\ UNCHANGED <<presence, sv>> /\ lost' = lost \ {Owner[c]}
        /\ waiting' \subseteq waiting \cup {Owner[c]}
        /\ Owner[c] \in waiting' => c \in presence
    BY <1>4 DEF JoinEnqueue
  <2>2. /\ member'[Owner[c]] = c
        /\ \A u \in Users : u # Owner[c] => member'[u] = member[u]
        /\ \A d \in Conns : Owner[d] # Owner[c] => score'[d] = score[d]
    <3>1. CASE member[Owner[c]] # NoConn /\ Queued(member[Owner[c]])
      BY <1>0, <1>4, <3>1 DEF JoinEnqueue, Enqueue
    <3>2. CASE ~(member[Owner[c]] # NoConn /\ Queued(member[Owner[c]]))
      BY <1>0, <1>4, <3>2 DEF JoinEnqueue, Enqueue
    <3>3. QED
      BY <3>1, <3>2
  <2>3. score'[c] # 0
    <3>1. OneEntryPerUser'
      BY <1>4, EnqueueKeepsQueue DEF JoinEnqueue, QueueInv
    <3>2. QED
      BY <2>2, <3>1 DEF OneEntryPerUser, Queued
  <2>4. EntriesPresent'
    BY <1>0, <2>1, <2>2 DEF WaitInv, EntriesPresent
  <2>5. ASSUME NEW u \in waiting' \ lost'
        PROVE  \E d \in presence' : /\ Owner[d] = u
                                    /\ Queued(d)' \/ \E v \in Servers : d \in Held(v)'
    <3>1. CASE u = Owner[c]
      BY <2>1, <2>3, <2>5, <3>1 DEF Queued
    <3>2. CASE u # Owner[c]
      BY <1>2, <2>1, <2>2, <2>5, <3>2
    <3>3. QED
      BY <3>1, <3>2
  <2>6. QED
    BY <2>4, <2>5 DEF NobodyForgotten
\* An older connection goes while a newer one of its user is queued.
<1>5. CASE Cleanup(c) \/ PresenceExpires(c)
  <2>1. /\ UNCHANGED <<score, member, sv, lost>> /\ presence' = presence \ {c}
        /\ StopsWaiting(c)
    BY <1>5 DEF Cleanup, PresenceExpires, queueVars
  <2>2. EntriesPresent'
    BY <1>0, <2>1 DEF WaitInv, EntriesPresent, StopsWaiting
  <2>3. ASSUME NEW u \in waiting' \ lost'
        PROVE  \E d \in presence' : /\ Owner[d] = u
                                    /\ Queued(d)' \/ \E v \in Servers : d \in Held(v)'
    <3>1. u \in waiting \ lost /\ u \in Users
      BY <1>0, <2>1, <2>3 DEF StopsWaiting
    <3>2. CASE u = Owner[c]
      <4>1. member[u] \notin {c, NoConn}
        BY <2>1, <2>3, <3>2 DEF StopsWaiting
      <4>2. /\ member[u] \in presence /\ Owner[member[u]] = u /\ Queued(member[u])
        BY <1>0, <3>1, <4>1 DEF WaitInv, EntriesPresent, QueueInv, OneEntryPerUser
      <4>3. QED
        BY <2>1, <4>1, <4>2 DEF Queued
    <3>3. CASE u # Owner[c]
      <4>1. PICK d \in presence : Owner[d] = u /\ (Queued(d) \/ \E v \in Servers : d \in Held(v))
        BY <3>1 DEF WaitInv, NobodyForgotten
      <4>2. QED
        BY <2>1, <3>3, <4>1 DEF Queued, Held
    <3>4. QED
      BY <3>2, <3>3
  <2>4. QED
    BY <2>2, <2>3 DEF NobodyForgotten
<1>6. QED
  BY <1>1, <1>3, <1>4, <1>5 DEF ConnStep

\* requeue.lua takes nobody out, and an entry that it does not put back gives
\* way to another one of its user.
LEMMA RestoreWaits ==
    ASSUME QueueInv, NEW v \in Servers, RestoreEntries(sv[v].held)
    PROVE  /\ \A c \in Conns : score[c] # 0 => score'[c] # 0
           /\ \A u \in Users : member'[u] = member[u] \/ member'[u] \in presence
           /\ \A c \in Held(v) \cap presence :
                \/ score'[c] # 0
                \/ /\ member[Owner[c]] # NoConn
                   /\ score'[member[Owner[c]]] # 0
<1> DEFINE R == Restored(sv[v].held)
<1>0. Owner \in [Conns -> Users] /\ NoConn \notin Conns
  BY ConnsAssumption
<1>1. EntriesOK(sv[v].held) /\ R \subseteq sv[v].held /\ \A e \in R : e.conn \in presence
  BY DEF QueueInv, HeldOK, Restored
<1>2. /\ score' = [c \in Conns |-> IF \E e \in R : e.conn = c
                                     THEN (CHOOSE e \in R : e.conn = c).score
                                     ELSE score[c]]
      /\ member' = [u \in Users |-> IF u \in Owners(R)
                                      THEN (CHOOSE e \in R : Owner[e.conn] = u).conn
                                      ELSE member[u]]
  BY DEF RestoreEntries
<1>3. ASSUME NEW c \in Conns, NEW e \in sv[v].held, e.conn = c, c \in presence, e \notin R
      PROVE  member[Owner[c]] # NoConn /\ (member[Owner[c]] = c => score[c] # 0)
  BY <1>3 DEF Restored, Queued
<1> HIDE DEF R
<1>4. ASSUME NEW c \in Conns, \E e \in R : e.conn = c
      PROVE  score'[c] # 0
  <2>1. (CHOOSE e \in R : e.conn = c) \in R
    BY <1>4
  <2>2. QED
    BY <1>1, <1>2, <1>4, <2>1 DEF EntriesOK
<1>5. ASSUME NEW c \in Conns, score[c] # 0
      PROVE  score'[c] # 0
  BY <1>2, <1>4, <1>5
<1>6. ASSUME NEW u \in Users
      PROVE  member'[u] = member[u] \/ member'[u] \in presence
  <2>1. CASE u \in Owners(R)
    <3>1. (CHOOSE e \in R : Owner[e.conn] = u) \in R
      BY <2>1 DEF Owners
    <3>2. QED
      BY <1>1, <1>2, <2>1, <3>1
  <2>2. QED
    BY <1>2, <2>1
<1>7. ASSUME NEW c \in Held(v) \cap presence, score'[c] = 0
      PROVE  member[Owner[c]] # NoConn /\ score'[member[Owner[c]]] # 0
  <2>1. PICK e \in sv[v].held : e.conn = c
    BY <1>7 DEF Held
  <2>2. c \in Conns /\ Owner[c] \in Users
    BY <1>0, <1>1, <2>1 DEF EntriesOK
  <2>3. e \notin R /\ score[c] = 0
    BY <1>4, <1>5, <1>7, <2>1, <2>2
  <2>4. member[Owner[c]] # NoConn /\ member[Owner[c]] \in Conns
    BY <1>3, <1>7, <2>1, <2>2, <2>3 DEF QueueInv, ShapeOK
  <2>5. score[member[Owner[c]]] # 0
    BY <2>2, <2>4 DEF QueueInv, ShapeOK, OneEntryPerUser, Queued
  <2>6. QED
    BY <1>5, <2>4, <2>5
<1>8. QED
  BY <1>5, <1>6, <1>7

\* pop_pair.lua takes only its pair from the users who wait.
LEMMA RemoveWaits ==
    ASSUME QueueInv, WaitInv, NEW gone, gone \subseteq Stale \cup Selected, Remove(gone)
    PROVE  /\ \A c \in presence : score[c] # 0 => score'[c] # 0 \/ c \in Selected
           /\ \A u \in Users : member'[u] \in {member[u], NoConn}
<1>0. Owner \in [Conns -> Users] /\ presence \subseteq Conns
  BY ConnsAssumption DEF WaitInv, EntriesPresent
<1>1. ASSUME NEW c \in presence, score[c] # 0
      PROVE  c \notin Stale
  BY <1>0, <1>1 DEF Stale, Valid, QueueInv, OneEntryPerUser, Queued
<1>2. QED
  BY <1>0, <1>1 DEF Remove

\* A match process holds on to the entries of users who wait, until it has
\* matched or requeued them or takes them with it.
LEMMA ServerWaits ==
    ASSUME QueueInv, WaitInv, NEW v \in Servers, ServerStep(v)
    PROVE  EntriesPresent' /\ NobodyForgotten'
<1>0. /\ presence \subseteq Conns /\ waiting \subseteq Users /\ waiting' \subseteq waiting
      /\ presence' = presence /\ lost \subseteq lost'
      /\ Owner \in [Conns -> Users] /\ NoConn \notin Conns
      /\ sv = [w \in Servers |-> sv[w]]
  BY ConnsAssumption DEF QueueInv, WaitInv, EntriesPresent, WaitersOK, ServerStep, PopPair,
     PopNobody, PopPairReplyLost, CreateMatch, DropIneligible, CreateFails, CreateAmbiguous,
     InsertMatch, Requeue, RequeueFails, ServerDies, connVars
<1> DEFINE Placed(c) == score[c] # 0 \/ \E w \in Servers : c \in Held(w)
           PlacedNext(c) == score'[c] # 0 \/ \E w \in Servers : c \in Held(w)'
\* It is enough that whoever had a place has one after the step.
<1>1. ASSUME \A u \in waiting' : member'[u] = member[u] \/ member'[u] = NoConn
                                                       \/ member'[u] \in presence,
             \A c \in presence : Placed(c) /\ Owner[c] \in waiting' \ lost' =>
                \E d \in presence : Owner[d] = Owner[c] /\ PlacedNext(d)
      PROVE  EntriesPresent' /\ NobodyForgotten'
  <2>1. EntriesPresent'
    BY <1>0, <1>1 DEF WaitInv, EntriesPresent
  <2>2. ASSUME NEW u \in waiting' \ lost'
        PROVE  \E d \in presence' : /\ Owner[d] = u
                                    /\ Queued(d)' \/ \E w \in Servers : d \in Held(w)'
    <3>1. PICK c \in presence : Owner[c] = u /\ Placed(c)
      BY <1>0, <2>2 DEF WaitInv, NobodyForgotten, Queued
    <3>2. QED
      BY <1>0, <1>1, <2>2, <3>1 DEF Queued
  <2>3. QED
    BY <2>1, <2>2 DEF NobodyForgotten
<1>2. \A w \in Servers : Held(w) = {e.conn : e \in sv[w].held}
                      /\ Held(w)' = {e.conn : e \in sv'[w].held}
  BY DEF Held
<1>3. \A w \in Servers : sv'[w] = IF w = v THEN sv'[v] ELSE sv[w]
  BY <1>0 DEF ServerStep, PopPair, PopNobody, PopPairReplyLost, CreateMatch, DropIneligible,
     CreateFails, CreateAmbiguous, Requeue, RequeueFails, ServerDies
<1>3a. ASSUME NEW p, sv' = [sv EXCEPT ![v].pc = p]
       PROVE  Held(v)' = Held(v)
  <2>1. \A w \in Servers : sv'[w].held = sv[w].held
    BY <1>3a DEF QueueInv
  <2>2. QED
    BY <1>2, <2>1
<1>4. CASE PopPair(v)
  <2>1. Remove(Stale \cup Selected) /\ sv[v].pc = "idle"
    BY <1>4 DEF PopPair
  <2>2. sv'[v].held = {[conn |-> c, score |-> score[c]] : c \in Selected}
    BY <1>0, <1>4 DEF PopPair
  <2>3. Held(v) = {} /\ Held(v)' = Selected
    <3>1. sv[v].held = {}
      BY <2>1 DEF WaitInv, IdleEmpty
    <3>2. ASSUME NEW c \in Selected PROVE c \in Held(v)'
      <4>1. [conn |-> c, score |-> score[c]] \in sv'[v].held
        BY <2>2
      <4>2. QED
        BY <1>2, <4>1
    <3>3. ASSUME NEW c \in Held(v)' PROVE c \in Selected
      <4>1. PICK e \in sv'[v].held : e.conn = c
        BY <1>2, <3>3
      <4>2. QED
        BY <2>2, <4>1
    <3>4. Held(v) = {}
      BY <1>2, <3>1
    <3>5. QED
      BY <3>2, <3>3, <3>4
  <2>4. \A c \in presence : score[c] # 0 => score'[c] # 0 \/ c \in Selected
    BY <2>1, RemoveWaits
  <2>5. \A u \in Users : member'[u] \in {member[u], NoConn}
    BY <2>1, RemoveWaits
  <2>6. \A w \in Servers : Held(w) \subseteq Held(w)'
    BY <1>2, <1>3, <2>3
  <2>7. QED
    BY <1>0, <1>1, <2>3, <2>4, <2>5, <2>6
<1>5. CASE PopNobody(v)
  <2>1. Remove(Stale) /\ sv' = sv
    BY <1>5 DEF PopNobody
  <2>2. \A c \in presence : score[c] # 0 => score'[c] # 0
    <3>1. Stale \cap presence = {}
      BY DEF Stale, Scanned, Valid, Queued, QueueInv, OneEntryPerUser
    <3>2. QED
      BY <1>0, <2>1, <3>1 DEF Remove
  <2>3. \A u \in Users : member'[u] \in {member[u], NoConn}
    BY <2>1, RemoveWaits
  <2>4. QED
    BY <1>0, <1>1, <1>2, <2>1, <2>2, <2>3
<1>6. CASE PopPairReplyLost(v)
  <2>1. Remove(Stale \cup Selected) /\ sv' = sv /\ \A c \in Selected : Owner[c] \in lost'
    BY <1>6 DEF PopPairReplyLost
  <2>2. \A c \in presence : score[c] # 0 => score'[c] # 0 \/ c \in Selected
    BY <2>1, RemoveWaits
  <2>3. \A u \in Users : member'[u] \in {member[u], NoConn}
    BY <2>1, RemoveWaits
  <2>4. QED
    BY <1>0, <1>1, <1>2, <2>1, <2>2, <2>3
\* The queue stays as it is, and what leaves the process waits no more.
<1>7. ASSUME UNCHANGED queueVars,
             \A c \in Held(v) : c \in Held(v)' \/ Owner[c] \notin waiting' \ lost'
      PROVE  EntriesPresent' /\ NobodyForgotten'
  <2>1. \A w \in Servers : w # v => Held(w)' = Held(w)
    BY <1>2, <1>3
  <2>2. UNCHANGED <<score, member>>
    BY <1>7 DEF queueVars
  <2>3. ASSUME NEW c \in presence, Placed(c), Owner[c] \in waiting' \ lost'
        PROVE  PlacedNext(c)
    BY <1>7, <2>1, <2>2, <2>3
  <2>4. QED
    BY <1>1, <2>2, <2>3
<1>8. \A c \in Held(v) : Owner[c] \in Owners(sv[v].held)
  BY <1>2 DEF Owners
<1>9. CASE CreateMatch(v) \/ CreateAmbiguous(v)
  <2>1. UNCHANGED queueVars /\ waiting' = waiting \ Owners(sv[v].held)
    BY <1>9 DEF CreateMatch, CreateAmbiguous, InsertMatch
  <2>2. QED
    BY <1>7, <1>8, <2>1
<1>10. CASE ServerDies(v)
  <2>1. UNCHANGED queueVars /\ lost' = lost \cup Owners(sv[v].held)
    BY <1>10 DEF ServerDies
  <2>2. QED
    BY <1>7, <1>8, <2>1
<1>11. CASE CreateFails(v)
  <2>1. UNCHANGED queueVars /\ Held(v)' = Held(v)
    BY <1>3a, <1>11 DEF CreateFails
  <2>2. QED
    BY <1>7, <2>1
<1>12. CASE DropIneligible(v)
  <2> DEFINE eligible == {e \in sv[v].held : Owner[e.conn] \notin Ineligible(v)}
  <2>1. UNCHANGED queueVars /\ sv'[v].held = eligible /\ waiting' = waiting
    BY <1>0, <1>12 DEF DropIneligible, IdleServer
  <2>2. \A u \in Ineligible(v) : u \notin waiting
    BY DEF Ineligible, WaitInv, WaitersOK
  <2>3. QED
    BY <1>2, <1>7, <2>1, <2>2
<1>13. ASSUME RestoreEntries(sv[v].held), waiting' = waiting
       PROVE  EntriesPresent' /\ NobodyForgotten'
  <2>1. /\ \A c \in Conns : score[c] # 0 => score'[c] # 0
        /\ \A u \in Users : member'[u] = member[u] \/ member'[u] \in presence
        /\ \A c \in Held(v) \cap presence :
             \/ score'[c] # 0
             \/ /\ member[Owner[c]] # NoConn
                /\ score'[member[Owner[c]]] # 0
    BY <1>13, RestoreWaits
  <2>2. \A w \in Servers : w # v => Held(w)' = Held(w)
    BY <1>2, <1>3
  <2>3. ASSUME NEW c \in presence, Placed(c), Owner[c] \in waiting'
        PROVE  \E d \in presence : Owner[d] = Owner[c] /\ PlacedNext(d)
    <3>1. CASE score[c] # 0 \/ \E w \in Servers : w # v /\ c \in Held(w)
      BY <1>0, <2>1, <2>2, <3>1
    <3>2. CASE c \in Held(v)
      <4>1. CASE score'[c] # 0
        BY <4>1
      <4>2. CASE score'[c] = 0
        <5>1. member[Owner[c]] # NoConn /\ score'[member[Owner[c]]] # 0
          BY <2>1, <3>2, <4>2
        <5>2. member[Owner[c]] \in presence
          BY <1>13, <2>3, <5>1 DEF WaitInv, EntriesPresent
        <5>3. Owner[member[Owner[c]]] = Owner[c]
          BY <1>0, <5>1 DEF QueueInv, ShapeOK
        <5>4. QED
          BY <5>1, <5>2, <5>3
      <4>3. QED
        BY <4>1, <4>2
    <3>3. QED
      BY <2>3, <3>1, <3>2
  <2>4. QED
    BY <1>0, <1>1, <2>1, <2>3
<1>14. CASE Requeue(v)
  BY <1>13, <1>14 DEF Requeue
<1>15. CASE RequeueFails(v)
  <2>1. Held(v)' = Held(v)
    BY <1>3a, <1>15 DEF RequeueFails
  <2>2. CASE UNCHANGED queueVars
    BY <1>7, <2>1, <2>2
  <2>3. QED
    BY <1>13, <1>15, <2>2 DEF RequeueFails
<1>16. QED
  BY <1>4, <1>5, <1>6, <1>9, <1>10, <1>11, <1>12, <1>14, <1>15 DEF ServerStep

(***************************************************************************)
(* Nobody is forgotten, for any number of users, connections and match     *)
(* processes: whoever joined and still waits is queued, or held by a       *)
(* process, through stale scans, failed inserts, ineligible opponents and  *)
(* requeues that fail or come late.                                        *)
(***************************************************************************)
THEOREM NobodyForgottenHolds == Spec => []NobodyForgotten
<1>1. Init => WaitInv
  BY DEF Init, IdleServer, WaitInv, WaitersOK, EntriesPresent, IdleEmpty, NobodyForgotten
<1>2. QueueInv /\ WaitInv /\ [Next]_vars => WaitInv'
  <2> SUFFICES ASSUME QueueInv, WaitInv, [Next]_vars PROVE WaitInv'
    OBVIOUS
  <2>1. WaitersOK' /\ IdleEmpty'
    BY WaitersStep, IdleStep DEF WaitInv
  <2>2. CASE \/ \E i \in MatchIDs : Finish(i)
             \/ \E u \in Users : RemoveUser(u)
             \/ UNCHANGED vars
    <3>1. /\ UNCHANGED <<score, member, sv, lost, presence>>
          /\ waiting' \subseteq waiting
      BY <2>2 DEF Finish, RemoveUser, vars, queueVars, connVars
    <3>2. /\ presence \subseteq Conns
          /\ \A u \in Users : member[u] # NoConn => Owner[member[u]] = u
      BY DEF QueueInv, ShapeOK, WaitInv, EntriesPresent
    <3>3. EntriesPresent' /\ NobodyForgotten'
      BY <3>1, <3>2, PresenceStep
    <3>4. QED
      BY <2>1, <3>3 DEF WaitInv
  <2>3. QED
    BY <2>1, <2>2, ConnWaits, ServerWaits DEF Next, WaitInv
<1>3. WaitInv => NobodyForgotten
  BY DEF WaitInv
<1>4. QED
  BY <1>1, <1>2, <1>3, QueueInvariance, PTL DEF Spec

-----------------------------------------------------------------------------
(* Types, and the pair.                                                    *)

\* The connections, the tables and the two histories.
TablesTyped ==
    /\ h \in [Conns -> {"none", "idle", "joining", "unlocked", "done"}]
    /\ up \in SUBSET Conns
    /\ presence \in SUBSET Conns
    /\ users \in SUBSET Users
    /\ active \in [MatchIDs -> SUBSET Users]
    /\ played \in SUBSET Users
    /\ claim \in [Users -> MatchIDs \cup {NoMatch}]
    /\ waiting \in SUBSET Users
    /\ lost \in SUBSET Users
    /\ faults \in 0 .. MaxFaults

\* At most two of a kind.
NoThree(H) == \A x, y, z \in H : x = y \/ y = z \/ x = z

\* A match process in one of its steps, with entries of at most two players.
HandOK(s) ==
    /\ s \in [pc : {"idle", "create", "requeue", "pending"},
              held : SUBSET [conn : Conns, score : Nat \ {0}]]
    /\ NoThree(s.held)

HandsOK == sv = [v \in Servers |-> sv[v]] /\ \A v \in Servers : HandOK(sv[v])

\* Every join in progress has its score reserved.
Joining == {d \in Conns : h[d] \in {"joining", "unlocked"}}

BudgetOK == last \in Nat /\ last + Cardinality(Joining) <= MaxScore

TypeInv == TablesTyped /\ HandsOK /\ BudgetOK

LEMMA PairCount ==
    ASSUME NEW x, NEW y
    PROVE  /\ IsFiniteSet({x, y})
           /\ Cardinality({x, y}) = IF x = y THEN 1 ELSE 2
<1>1. IsFiniteSet({x}) /\ Cardinality({x}) = 1
  BY FS_Singleton
<1>2. /\ IsFiniteSet({x} \cup {y})
      /\ Cardinality({x} \cup {y}) = IF y \in {x} THEN Cardinality({x}) ELSE Cardinality({x}) + 1
  BY <1>1, FS_AddElement
<1>3. {x} \cup {y} = {x, y}
  OBVIOUS
<1>4. /\ IsFiniteSet({x, y})
      /\ Cardinality({x, y}) = IF y \in {x} THEN Cardinality({x}) ELSE Cardinality({x}) + 1
  BY <1>2, <1>3
<1>5. QED
  BY <1>1, <1>4

LEMMA NoThreeIsTwo ==
    ASSUME NEW H, NoThree(H)
    PROVE  IsFiniteSet(H) /\ Cardinality(H) <= 2
<1>1. CASE H = {}
  BY <1>1, FS_EmptySet
<1>2. CASE H # {}
  <2>1. PICK x \in H : TRUE
    BY <1>2
  <2>2. PICK y \in H : H \subseteq {x, y}
    <3>1. CASE H \subseteq {x}
      BY <2>1, <3>1
    <3>2. CASE ~(H \subseteq {x})
      BY <3>2 DEF NoThree
    <3>3. QED
      BY <3>1, <3>2
  <2>3. IsFiniteSet({x, y}) /\ Cardinality({x, y}) <= 2
    <3>1. Cardinality({x, y}) = 1 \/ Cardinality({x, y}) = 2
      BY PairCount, Zenon
    <3>2. QED
      BY <3>1, PairCount
  <2>4. IsFiniteSet(H) /\ Cardinality(H) <= Cardinality({x, y})
    BY <2>2, <2>3, FS_Subset
  <2>5. Cardinality(H) \in Nat /\ Cardinality({x, y}) \in Nat
    BY <2>3, <2>4, FS_CardinalityType
  <2>6. QED
    BY <2>3, <2>4, <2>5
<1>3. QED
  BY <1>1, <1>2

\* pop_pair.lua returns a pair at most: the scores of three entries differ, so
\* two of them are ahead of the third.
LEMMA SelectedPair ==
    ASSUME QueueInv, ScoresOrder
    PROVE  NoThree(Selected)
<1> DEFINE valid == {c \in Scanned : Valid(c)}
           ahead(c) == {d \in valid : score[d] < score[c]}
<1>1. \A c \in Selected : c \in valid /\ Cardinality(ahead(c)) < 2
  BY DEF Selected
<1>2. \A c \in valid : c \in Conns /\ score[c] # 0 /\ score[c] \in Nat
  BY DEF Scanned, Queued, QueueInv, ShapeOK
<1>3. \A c, d \in valid : c # d => score[c] # score[d]
  BY <1>2 DEF ScoresOrder, Queued
<1>4. ASSUME NEW x \in Selected, NEW y \in Selected, NEW z \in Selected, x # y,
             score[x] < score[z], score[y] < score[z]
      PROVE  FALSE
  <2>1. {x, y} \subseteq ahead(z)
    BY <1>1, <1>4
  <2>2. ahead(z) \subseteq Conns
    BY <1>2
  <2>3. Cardinality({x, y}) = 2
    BY <1>4, PairCount
  <2>4. IsFiniteSet(ahead(z))
    BY <2>2, FS_Subset, FiniteAssumption
  <2>5. Cardinality({x, y}) <= Cardinality(ahead(z)) /\ Cardinality(ahead(z)) \in Nat
    BY <2>1, <2>4, FS_Subset, FS_CardinalityType
  <2>6. QED
    BY <1>1, <2>3, <2>5
<1>5. ASSUME NEW x \in Selected, NEW y \in Selected, NEW z \in Selected,
             x # y, y # z, x # z
      PROVE  FALSE
  <2>1. /\ score[x] \in Nat /\ score[y] \in Nat /\ score[z] \in Nat
        /\ score[x] # score[y] /\ score[y] # score[z] /\ score[x] # score[z]
    BY <1>1, <1>2, <1>3, <1>5
  <2>2. \/ score[x] < score[z] /\ score[y] < score[z]
        \/ score[x] < score[y] /\ score[z] < score[y]
        \/ score[y] < score[x] /\ score[z] < score[x]
    BY <2>1
  <2>3. QED
    BY <1>4, <1>5, <2>2
<1>6. QED
  BY <1>5 DEF NoThree

\* What a match process holds after its step.
LEMMA HandsStep ==
    ASSUME QueueInv, ScoresOrder, HandsOK, [Next]_vars
    PROVE  HandsOK'
<1>1. CASE sv' = sv
  BY <1>1 DEF HandsOK, HandOK, NoThree
<1>2. ASSUME NEW v \in Servers, NEW s, HandOK(s), sv' = [sv EXCEPT ![v] = s]
      PROVE  HandsOK'
  <2>1. \A w \in Servers : sv'[w] = IF w = v THEN s ELSE sv[w]
    BY <1>2 DEF HandsOK
  <2>2. \A w \in Servers : HandOK(sv'[w])
    BY <1>2, <2>1 DEF HandsOK
  <2>3. QED
    BY <1>2, <2>2 DEF HandsOK, HandOK, NoThree
<1>3. ASSUME NEW v \in Servers, NEW p \in {"idle", "create", "requeue", "pending"},
             sv' = [sv EXCEPT ![v].pc = p]
      PROVE  HandsOK'
  <2>1. HandOK(sv[v])
    BY DEF HandsOK
  <2>2. sv[v] = [pc |-> sv[v].pc, held |-> sv[v].held]
    BY <2>1 DEF HandOK
  <2>3. [sv[v] EXCEPT !.pc = p] = [pc |-> p, held |-> sv[v].held]
    BY <2>2
  <2>4. HandOK([sv[v] EXCEPT !.pc = p])
    BY <2>1, <2>3 DEF HandOK
  <2>5. sv' = [sv EXCEPT ![v] = [sv[v] EXCEPT !.pc = p]]
    BY <1>3
  <2>6. QED
    BY <1>2, <2>4, <2>5
<1>4. HandOK(IdleServer)
  BY DEF HandOK, IdleServer, NoThree
<1>5. ASSUME NEW v \in Servers, ServerStep(v) PROVE HandsOK'
  <2>1. CASE PopPair(v)
    <3> DEFINE H == {[conn |-> c, score |-> score[c]] : c \in Selected}
    <3>1. \A c \in Selected : c \in Conns /\ score[c] \in Nat \ {0}
      BY DEF Selected, Scanned, Queued, QueueInv, ShapeOK
    <3>2. H \in SUBSET [conn : Conns, score : Nat \ {0}]
      BY <3>1
    <3>3. NoThree(H)
      <4> SUFFICES ASSUME NEW x \in H, NEW y \in H, NEW z \in H
                   PROVE  x = y \/ y = z \/ x = z
        BY DEF NoThree
      <4>1. PICK a \in Selected : x = [conn |-> a, score |-> score[a]]
        OBVIOUS
      <4>2. PICK b \in Selected : y = [conn |-> b, score |-> score[b]]
        OBVIOUS
      <4>3. PICK c \in Selected : z = [conn |-> c, score |-> score[c]]
        OBVIOUS
      <4>4. a = b \/ b = c \/ a = c
        BY SelectedPair DEF NoThree
      <4>5. QED
        BY <4>1, <4>2, <4>3, <4>4
    <3>4. sv' = [sv EXCEPT ![v] = [pc |-> "create", held |-> H]]
      BY <2>1 DEF PopPair
    <3> HIDE DEF H
    <3>5. HandOK([pc |-> "create", held |-> H])
      BY <3>2, <3>3 DEF HandOK
    <3>6. QED
      BY <1>2, <3>4, <3>5
  <2>2. CASE PopNobody(v) \/ PopPairReplyLost(v)
    BY <1>1, <2>2 DEF PopNobody, PopPairReplyLost
  <2>3. CASE CreateMatch(v) \/ Requeue(v) \/ ServerDies(v)
    BY <1>2, <1>4, <2>3 DEF CreateMatch, Requeue, ServerDies
  <2>4. CASE DropIneligible(v)
    <3> DEFINE eligible == {e \in sv[v].held : Owner[e.conn] \notin Ineligible(v)}
               s == IF eligible = {} THEN IdleServer ELSE [pc |-> "requeue", held |-> eligible]
    <3>1. HandOK(sv[v])
      BY DEF HandsOK
    <3>2. HandOK([pc |-> "requeue", held |-> eligible])
      BY <3>1 DEF HandOK, NoThree
    <3>3. HandOK(s)
      BY <1>4, <3>2
    <3>4. sv' = [sv EXCEPT ![v] = s]
      BY <2>4 DEF DropIneligible
    <3> HIDE DEF s
    <3>5. QED
      BY <1>2, <3>3, <3>4
  <2>5. CASE CreateFails(v) \/ CreateAmbiguous(v) \/ RequeueFails(v)
    BY <1>3, <2>5 DEF CreateFails, CreateAmbiguous, RequeueFails
  <2>6. QED
    BY <1>5, <2>1, <2>2, <2>3, <2>4, <2>5 DEF ServerStep
<1>6. ASSUME NEW c \in Conns, ConnStep(c) PROVE sv' = sv
  BY <1>6 DEF ConnStep, Connect, Disconnect, Cleanup, CleanupFails, PresenceExpires,
     JoinLock, LockLost, JoinEnqueue, JoinFails, Leave
<1>7. CASE \/ \E i \in MatchIDs : Finish(i)
           \/ \E u \in Users : RemoveUser(u)
           \/ UNCHANGED vars
  BY <1>1, <1>7 DEF Finish, RemoveUser, vars
<1>8. QED
  BY <1>1, <1>5, <1>6, <1>7 DEF Next

\* A join reserves a score, and its enqueue takes at most that one.
LEMMA BudgetStep ==
    ASSUME TablesTyped, BudgetOK, [Next]_vars
    PROVE  BudgetOK'
<1>0. IsFiniteSet(Joining) /\ Cardinality(Joining) \in Nat /\ MaxScore \in Nat
  BY FS_Subset, FS_CardinalityType, FiniteAssumption, ScanAssumption DEF Joining
<1>1. ASSUME Joining' \subseteq Joining, last' = last
      PROVE  BudgetOK'
  <2>1. Cardinality(Joining') <= Cardinality(Joining) /\ Cardinality(Joining') \in Nat
    BY <1>0, <1>1, FS_Subset, FS_CardinalityType
  <2>2. QED
    BY <1>0, <1>1, <2>1 DEF BudgetOK
<1>2. ASSUME h' = h PROVE Joining' = Joining
  BY <1>2 DEF Joining
<1>3. ASSUME NEW c \in Conns, NEW s \in {"joining", "unlocked"}, h' = [h EXCEPT ![c] = s]
      PROVE  Joining' = Joining \cup {c}
  BY <1>3 DEF TablesTyped, Joining
<1>3a. ASSUME NEW c \in Conns, NEW s \in {"idle", "done"}, h' = [h EXCEPT ![c] = s]
      PROVE  Joining' = Joining \ {c}
  BY <1>3a DEF TablesTyped, Joining
<1>4. ASSUME NEW c \in Conns, ConnStep(c) PROVE BudgetOK'
  <2>1. CASE JoinLock(c)
    <3>1. Joining' = Joining \cup {c} /\ last' = last /\ c \notin Joining
          /\ last + Cardinality(Joining) < MaxScore
      BY <1>3, <2>1 DEF JoinLock, queueVars, Joining
    <3>2. Cardinality(Joining') = Cardinality(Joining) + 1
      BY <1>0, <3>1, FS_AddElement
    <3>3. QED
      BY <1>0, <3>1, <3>2 DEF BudgetOK
  <2>2. CASE JoinEnqueue(c)
    <3>1. Joining' = Joining \ {c} /\ c \in Joining /\ Enqueue(c)
      <4>1. h' = [h EXCEPT ![c] = "idle"] /\ h[c] \in {"joining", "unlocked"} /\ Enqueue(c)
        BY <2>2 DEF JoinEnqueue
      <4>2. Joining' = Joining \ {c}
        BY <1>3a, <4>1
      <4>3. QED
        BY <4>1, <4>2 DEF Joining
    <3>2. Cardinality(Joining') = Cardinality(Joining) - 1
      BY <1>0, <3>1, FS_RemoveElement
    <3>3. last' \in Nat /\ last' <= last + 1
      <4>1. CASE member[Owner[c]] # NoConn /\ Queued(member[Owner[c]])
        BY <3>1, <4>1 DEF Enqueue, BudgetOK
      <4>2. CASE ~(member[Owner[c]] # NoConn /\ Queued(member[Owner[c]]))
        BY <3>1, <4>2 DEF Enqueue, NextScore, BudgetOK
      <4>3. QED
        BY <4>1, <4>2
    <3>4. QED
      BY <1>0, <3>2, <3>3 DEF BudgetOK
  <2>3. CASE Connect(c) \/ Cleanup(c) \/ CleanupFails(c) \/ JoinFails(c)
    <3>1. last' = last /\ \E s \in {"idle", "done"} : h' = [h EXCEPT ![c] = s]
      BY <2>3 DEF Connect, Cleanup, CleanupFails, JoinFails, queueVars
    <3>2. Joining' \subseteq Joining
      BY <1>3a, <3>1
    <3>3. QED
      BY <1>1, <3>1, <3>2
  <2>4. CASE LockLost(c)
    <3>1. last' = last /\ Joining' = Joining \cup {c} /\ c \in Joining
      BY <1>3, <2>4 DEF LockLost, queueVars, Joining
    <3>2. QED
      BY <1>1, <3>1
  <2>5. CASE Disconnect(c) \/ PresenceExpires(c) \/ Leave(c)
    <3>1. last' = last /\ h' = h
      BY <2>5 DEF Disconnect, PresenceExpires, Leave, queueVars, connVars
    <3>2. QED
      BY <1>1, <1>2, <3>1
  <2>6. QED
    BY <1>4, <2>1, <2>2, <2>3, <2>4, <2>5 DEF ConnStep
<1>5. ASSUME NEW v \in Servers, ServerStep(v) PROVE last' = last /\ h' = h
  BY <1>5 DEF ServerStep, PopPair, PopNobody, PopPairReplyLost, CreateMatch, DropIneligible,
     CreateFails, CreateAmbiguous, Requeue, RequeueFails, ServerDies, Remove, RestoreEntries,
     queueVars, connVars
<1>6. CASE \/ \E i \in MatchIDs : Finish(i)
           \/ \E u \in Users : RemoveUser(u)
           \/ UNCHANGED vars
  <2>1. last' = last /\ h' = h
    BY <1>6 DEF Finish, RemoveUser, vars, queueVars, connVars
  <2>2. QED
    BY <1>1, <1>2, <2>1
<1>7. QED
  BY <1>1, <1>2, <1>4, <1>5, <1>6 DEF Next

LEMMA TablesStep ==
    ASSUME QueueInv, TablesTyped, HandsOK, [Next]_vars
    PROVE  TablesTyped'
<1>0. Owner \in [Conns -> Users] /\ MaxFaults \in Nat
  BY ConnsAssumption, ScanAssumption
<1>1. ASSUME NEW c \in Conns, ConnStep(c) PROVE TablesTyped'
  <2>1. /\ UNCHANGED dbVars
        /\ \E s \in {"none", "idle", "joining", "unlocked", "done"} :
             h' = h \/ h' = [h EXCEPT ![c] = s]
        /\ up' \subseteq up \cup {c} /\ presence' \subseteq presence \cup {c}
        /\ waiting' \subseteq waiting \cup {Owner[c]}
        /\ lost' \subseteq lost
        /\ faults' = faults \/ Fault
    BY <1>1 DEF ConnStep, Connect, Disconnect, Cleanup, CleanupFails, PresenceExpires,
       JoinLock, LockLost, JoinEnqueue, JoinFails, Leave, StopsWaiting, connVars
  <2>2. QED
    BY <1>0, <2>1 DEF TablesTyped, dbVars, Fault
<1>2. ASSUME NEW v \in Servers, ServerStep(v) PROVE TablesTyped'
  <2>1. Owners(sv[v].held) \subseteq Users /\ {Owner[c] : c \in Selected} \subseteq Users
    <3>1. \A e \in sv[v].held : e.conn \in Conns
      BY DEF QueueInv, HeldOK, EntriesOK
    <3>2. \A c \in Selected : c \in Conns
      BY DEF Selected, Scanned
    <3>3. QED
      BY <1>0, <3>1, <3>2 DEF Owners
  <2>2. UNCHANGED connVars /\ (faults' = faults \/ Fault)
    BY <1>2 DEF ServerStep, PopPair, PopNobody, PopPairReplyLost, CreateMatch, DropIneligible,
       CreateFails, CreateAmbiguous, Requeue, RequeueFails, ServerDies
  <2>3. faults' \in 0 .. MaxFaults
    BY <1>0, <2>2 DEF TablesTyped, Fault
  <2>4. CASE InsertMatch(v) /\ lost' = lost
    <3>1. PICK i \in MatchIDs :
            /\ active' = [active EXCEPT ![i] = Owners(sv[v].held)]
            /\ played' = played \cup Owners(sv[v].held)
            /\ claim' = [u \in Users |-> IF u \in Owners(sv[v].held) THEN i ELSE claim[u]]
            /\ waiting' = waiting \ Owners(sv[v].held)
            /\ users' = users
      BY <2>4 DEF InsertMatch
    <3>2. active' \in [MatchIDs -> SUBSET Users]
      BY <2>1, <3>1 DEF TablesTyped
    <3>3. claim' \in [Users -> MatchIDs \cup {NoMatch}]
      BY <3>1 DEF TablesTyped
    <3>4. QED
      BY <2>1, <2>2, <2>3, <2>4, <3>1, <3>2, <3>3 DEF TablesTyped, connVars
  <2>5. CASE /\ UNCHANGED <<dbVars, waiting>>
             /\ lost' \subseteq lost \cup Users
    BY <2>2, <2>3, <2>5 DEF TablesTyped, connVars, dbVars
  <2>6. CASE CreateMatch(v) \/ CreateAmbiguous(v)
    BY <2>4, <2>6 DEF CreateMatch, CreateAmbiguous
  <2>7. CASE \/ PopPair(v) \/ PopNobody(v) \/ PopPairReplyLost(v) \/ DropIneligible(v)
             \/ CreateFails(v) \/ Requeue(v) \/ RequeueFails(v) \/ ServerDies(v)
    <3>1. /\ UNCHANGED <<dbVars, waiting>>
          /\ \/ lost' = lost
             \/ lost' = lost \cup {Owner[c] : c \in Selected}
             \/ lost' = lost \cup Owners(sv[v].held)
      BY <2>7 DEF PopPair, PopNobody, PopPairReplyLost, DropIneligible, CreateFails,
         Requeue, RequeueFails, ServerDies
    <3>2. QED
      BY <2>1, <2>5, <3>1
  <2>8. QED
    BY <1>2, <2>6, <2>7 DEF ServerStep
<1>3. ASSUME NEW i \in MatchIDs, Finish(i) PROVE TablesTyped'
  BY <1>3 DEF Finish, ClaimsReleased, TablesTyped, connVars
<1>4. ASSUME NEW u \in Users, RemoveUser(u) PROVE TablesTyped'
  BY <1>4 DEF RemoveUser, TablesTyped, connVars
<1>5. CASE UNCHANGED vars
  BY <1>5 DEF vars, TablesTyped
<1>6. QED
  BY <1>1, <1>2, <1>3, <1>4, <1>5 DEF Next

(***************************************************************************)
(* Types, for any number of users, connections and match processes: a      *)
(* match process never holds the entries of more than two players, because *)
(* scores differ and pop_pair.lua stops at the second valid entry, and the *)
(* scores that the bound allows are enough for the joins that take one.    *)
(***************************************************************************)
THEOREM MatchmakingTypeCorrect == Spec => []TypeOK
<1>1. Init => TypeInv
  <2> SUFFICES ASSUME Init PROVE TypeInv
    OBVIOUS
  <2>1. TablesTyped
    BY ScanAssumption DEF Init, TablesTyped
  <2>2. HandsOK
    BY DEF Init, HandsOK, HandOK, IdleServer, NoThree
  <2>3. Joining = {} /\ last = 0
    BY DEF Init, Joining
  <2>4. QED
    BY <2>1, <2>2, <2>3, FS_EmptySet, ScanAssumption DEF TypeInv, BudgetOK
<1>2. QueueInv /\ ScoresOrder /\ TypeInv /\ [Next]_vars => TypeInv'
  BY TablesStep, HandsStep, BudgetStep DEF TypeInv
<1>3. QueueInv /\ ScoresOrder /\ TypeInv => TypeOK
  <2> SUFFICES ASSUME QueueInv, ScoresOrder, TypeInv PROVE TypeOK
    OBVIOUS
  <2>1. last \in 0 .. MaxScore
    <3>1. IsFiniteSet(Joining)
      BY FS_Subset, FiniteAssumption DEF Joining
    <3>2. Cardinality(Joining) \in Nat
      BY <3>1, FS_CardinalityType
    <3>3. QED
      BY <3>2, ScanAssumption DEF TypeInv, BudgetOK
  <2>2. score \in [Conns -> 0 .. MaxScore]
    BY <2>1, ScanAssumption DEF QueueInv, ShapeOK, ScoresOrder
  <2>3. ASSUME NEW v \in Servers PROVE sv[v] \in ServerState
    <3>1. HandOK(sv[v])
      BY DEF TypeInv, HandsOK
    <3>2. \A e \in sv[v].held : e \in Entry
      <4> SUFFICES ASSUME NEW e \in sv[v].held PROVE e \in Entry
        OBVIOUS
      <4>1. e \in [conn : Conns, score : Nat \ {0}]
        BY <3>1 DEF HandOK
      <4>2. e.score <= last
        BY <4>1 DEF ScoresOrder
      <4>3. QED
        BY <2>1, <4>1, <4>2, ScanAssumption DEF Entry
    <3>3. Cardinality(sv[v].held) <= 2
      BY <3>1, NoThreeIsTwo DEF HandOK
    <3>4. QED
      BY <3>1, <3>2, <3>3 DEF HandOK, ServerState
  <2>4. QED
    BY <2>1, <2>2, <2>3 DEF TypeOK, TypeInv, TablesTyped, HandsOK, QueueInv, ShapeOK
<1>4. QED
  BY <1>1, <1>2, <1>3, QueueInvariance, ScoresOrderHolds, PTL DEF Spec

=============================================================================
