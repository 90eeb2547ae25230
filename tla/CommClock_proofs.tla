--------------------------- MODULE CommClock_proofs ----------------------------
(* Theorems about the two ends of an ask.  CommServer, with any number of      *)
(* request threads: the rows keep their types, an ask that has an answer is    *)
(* never pending again, and what requests that overlap can do to a status is   *)
(* bounded.  PeerClock: the algebra of the version vectors for every set of    *)
(* peers, and the order of the events of one process.  The two share no state; *)
(* the names of the clocks' module carry the prefix Clock.                     *)
EXTENDS CommServer, PeerClock, TLAPS

(* CommServer *)
\* An event has a status and a kind from the same commit, that of its id.
Entered ==
    \A e \in Ids :
       /\ kind[e] = None <=> status[e] = Life!Unknown
       /\ e \in Asks => kind[e] \in {None, "ask"}
       /\ e \in Answers => kind[e] # "ask"
       /\ kind[e] \in AnswerKinds => parent[e] \in Recorded

\* The status of an ask, which no verdict is given on.
AskStatus == \A a \in Asks : status[a] \notin {"revised", "needs_human_review"}

\* The rows that requests have read are there, and the ids they bring are not.
ReadOK ==
    \A w \in Workers :
       /\ req[w].op = "ask" =>
            /\ req[w].id \notin Recorded
            /\ \A v \in Workers \ {w} : req[v].op = "ask" => req[v].id # req[w].id
       /\ req[w].op = "answer" =>
            /\ req[w].id \in Recorded
            /\ req[w].seen # "pending_delivery" => status[req[w].id] # "pending_delivery"
       /\ req[w].op = "reconcile" => kind[req[w].id] = "simulated_answer"

Inv == TypeOK /\ Entered /\ AskStatus /\ ReadOK /\ AnsweredNotPending

--------------------------------------------------------------------------------
(* Any number of requests.                                                     *)

\* A request that has been read, by the row it was read from.
LEMMA RequestTypes ==
    ASSUME NEW r \in Requests
    PROVE  /\ r.op \in {"idle", "ask", "answer", "reconcile", "beat"}
           /\ r.op = "ask" => r.id \in Asks /\ r.re \in Ids \cup {None} /\ r.online \in BOOLEAN
           /\ r.op = "answer" => r.id \in Ids /\ r.seen \in Life!Statuses /\ r.realtime \in BOOLEAN
           /\ r.op = "reconcile" => r.id \in Answers /\ r.seen \in Life!Statuses
           /\ r.op = "beat" => r.member \in Members /\ r.known \in BOOLEAN /\ r.online \in BOOLEAN
  BY DEF Requests, Idle

\* What an answer leaves of the status it found.
LEMMA AnswerStatus ==
    ASSUME NEW s \in Life!Statuses, NEW rt \in BOOLEAN
    PROVE  /\ AnswerMoves(s, rt) \in Life!Statuses
           /\ AnswerMoves(s, rt) # "pending_delivery"
           /\ AnswerMoves(s, rt) # s => <<s, AnswerMoves(s, rt)>> \in Life!Transitions
           /\ AnswerMoves(s, rt) # s =>
                AnswerMoves(s, rt) = "confirmed" \/ (AnswerMoves(s, rt) = "delivered" /\ ~rt)
           /\ rt /\ s \notin {"revised", "needs_human_review"} => AnswerMoves(s, rt) = "confirmed"
           /\ s = "confirmed" => AnswerMoves(s, rt) = s
  <1>1. AnswerMoves(s, rt) # s =>
          AnswerMoves(s, rt) = "confirmed" \/ (AnswerMoves(s, rt) = "delivered" /\ ~rt)
    <2>1. CASE rt /\ s \in {"pending_delivery", "delivered"}
      <3>1. AnswerMoves(s, rt) = "confirmed"
        BY <2>1 DEF AnswerMoves
      <3> QED
        BY <3>1
    <2>2. CASE ~(rt /\ s \in {"pending_delivery", "delivered"})
      <3>1. AnswerMoves(s, rt) = IF s = "pending_delivery" THEN "delivered" ELSE s
        BY <2>2, Zenon DEF AnswerMoves
      <3>2. s = "pending_delivery" => ~rt
        BY <2>2
      <3> QED
        BY <3>1, <3>2
    <2> QED
      BY <2>1, <2>2
  <1> QED
    BY <1>1 DEF AnswerMoves, Life!Statuses, Life!Terminal, Life!Transitions

\* The invariant holds at first.
LEMMA InitInv == Init => Inv
  <1> SUFFICES ASSUME Init PROVE Inv
    OBVIOUS
  <1>1. TypeOK
    BY DEF Init, TypeOK, Requests, Idle, Life!Known
  <1>2. Entered /\ AskStatus /\ AnsweredNotPending
    BY CommAssumption DEF Init, Entered, AskStatus, AnsweredNotPending, Recorded, AnswerKinds, Ids,
       Kinds, Life!Unknown
  <1>3. ReadOK
    BY DEF Init, ReadOK, Idle
  <1> QED
    BY <1>1, <1>2, <1>3 DEF Inv

\* Reading an ask's peer keeps it.
LEMMA AskCheckInv ==
    ASSUME Inv, NEW w \in Workers, NEW a \in Asks, NEW re \in Ids \cup {None}, AskCheck(w, a, re)
    PROVE  Inv'
  <1> DEFINE r == [op |-> "ask", id |-> a, re |-> re, online |-> Online(To[a])]
  <1>1. r \in Requests /\ r.op = "ask" /\ r.id = a
    <2>1. Online(To[a]) \in BOOLEAN
      BY DEF Online, Inv, TypeOK
    <2> QED
      BY <2>1 DEF Requests
  <1> HIDE DEF r
  <1>2. req' = [req EXCEPT ![w] = r] /\ UNCHANGED <<events, peers>>
    BY DEF AskCheck, Reads, r
  <1>3. a \notin Recorded /\ \A v \in Workers : req[v].op = "ask" => req[v].id # a
    BY DEF AskCheck
  <1>4. TypeOK'
    BY <1>1, <1>2 DEF Inv, TypeOK, events, peers
  <1>5. Recorded' = Recorded
    BY <1>2 DEF Recorded, events
  <1>6. ReadOK'
    BY <1>1, <1>2, <1>3, <1>5 DEF Inv, TypeOK, ReadOK, events
  <1> QED
    BY <1>2, <1>4, <1>5, <1>6 DEF Inv, Entered, AskStatus, AnsweredNotPending, events

\* So does every other request that only reads.
LEMMA ReadInv ==
    ASSUME Inv, NEW w \in Workers, NEW r \in Requests, r.op # "ask",
           req' = [req EXCEPT ![w] = r], UNCHANGED events, TypeOK',
           r.op = "answer" => r.id \in Recorded /\ r.seen = status[r.id],
           r.op = "reconcile" => kind[r.id] = "simulated_answer"
    PROVE  Inv'
  <1>1. Recorded' = Recorded
    BY DEF Recorded, events
  <1>2. ReadOK'
    BY <1>1 DEF Inv, TypeOK, ReadOK, events
  <1> QED
    BY <1>1, <1>2 DEF Inv, Entered, AskStatus, AnsweredNotPending, events

\* Inserting an ask keeps it.
LEMMA AskCommitInv == ASSUME Inv, NEW w \in Workers, AskCommit(w) PROVE Inv'
  <1> DEFINE r == req[w]
  <1>1. /\ r.id \in Asks /\ r.re \in Ids \cup {None} /\ r.id \in Ids /\ r.id \notin Answers
        /\ r.id \notin Recorded
        /\ \A v \in Workers \ {w} : req[v].op = "ask" => req[v].id # r.id
    BY RequestTypes, CommAssumption DEF AskCommit, Inv, TypeOK, ReadOK, Ids
  <1>2. /\ kind' = [kind EXCEPT ![r.id] = "ask"]
        /\ parent' = [parent EXCEPT ![r.id] = r.re]
        /\ UNCHANGED <<revised, peers>>
        /\ req' = [req EXCEPT ![w] = Idle]
    BY DEF AskCommit, Commits
  <1>3. PICK s \in {"delivered", "pending_delivery"} : status' = [status EXCEPT ![r.id] = s]
    BY DEF AskCommit
  <1> HIDE DEF r
  <1>4. s \in Life!Known /\ s # Life!Unknown
    BY DEF Life!Known, Life!Statuses, Life!Unknown
  <1>5. TypeOK'
    BY <1>1, <1>2, <1>3, <1>4 DEF Inv, TypeOK, peers, Requests, Kinds
  <1>6. Recorded' = Recorded \cup {r.id} /\ "ask" # None
    <2>1. "ask" # None
      BY CommAssumption DEF Kinds
    <2>2. \A e \in Ids : kind'[e] = IF e = r.id THEN "ask" ELSE kind[e]
      BY <1>1, <1>2 DEF Inv, TypeOK
    <2> QED
      BY <2>1, <2>2, <1>1 DEF Recorded
  <1>7. Entered'
    BY <1>1, <1>2, <1>3, <1>4, <1>6 DEF Inv, TypeOK, Entered, AnswerKinds
  <1>8. AskStatus'
    BY <1>1, <1>2, <1>3, <1>4 DEF Inv, TypeOK, AskStatus
  <1>9. ReadOK'
    BY <1>1, <1>2, <1>3, <1>6, RequestTypes DEF Inv, TypeOK, ReadOK, Idle
  <1>10. AnsweredNotPending'
    BY <1>1, <1>2, <1>3, <1>6 DEF Inv, TypeOK, Entered, AnsweredNotPending, AnswerKinds, Recorded
  <1> QED
    BY <1>5, <1>7, <1>8, <1>9, <1>10 DEF Inv

\* Inserting an answer keeps it: the ask that is answered leaves pending_delivery.
LEMMA AnswerCommitInv ==
    ASSUME Inv, NEW w \in Workers, NEW n \in Answers, AnswerCommit(w, n)
    PROVE  Inv'
  <1> DEFINE r == req[w]
             new == AnswerMoves(r.seen, r.realtime)
  <1>1. /\ r.id \in Recorded /\ r.id \in Ids /\ n \in Ids /\ n \notin Asks /\ n # r.id
        /\ n \notin Recorded
        /\ r.seen \in Life!Statuses /\ r.realtime \in BOOLEAN
        /\ r.seen # "pending_delivery" => status[r.id] # "pending_delivery"
    BY RequestTypes, CommAssumption DEF AnswerCommit, Inv, TypeOK, ReadOK, Ids
  <1>2. PICK k \in AnswerKinds : kind' = [kind EXCEPT ![n] = k]
    BY DEF AnswerCommit, AnswerKinds
  <1>3. /\ parent' = [parent EXCEPT ![n] = r.id]
        /\ UNCHANGED <<revised, peers>>
        /\ req' = [req EXCEPT ![w] = Idle]
    BY DEF AnswerCommit, Commits
  <1>4. PICK s \in {"confirmed", "pending_delivery"} :
           status' = [e \in Ids |-> IF e = n THEN s
                                    ELSE IF e = r.id /\ new # r.seen THEN new ELSE status[e]]
    BY DEF AnswerCommit
  <1>5. /\ new \in Life!Statuses /\ new # "pending_delivery"
        /\ new # r.seen => new \in {"delivered", "confirmed"}
    BY <1>1, AnswerStatus
  <1>6. k # None /\ k # "ask" /\ k \in Kinds
    BY CommAssumption DEF AnswerKinds, Kinds
  <1> HIDE DEF r, new
  <1>7. s \in Life!Known /\ s # Life!Unknown /\ Life!Statuses \subseteq Life!Known
        /\ Life!Unknown \notin Life!Statuses
    BY DEF Life!Known, Life!Statuses, Life!Unknown, Life!Terminal
  <1>8. TypeOK'
    <2>1. kind' \in [Ids -> Kinds \cup {None}] /\ parent' \in [Ids -> Ids \cup {None}]
      BY <1>1, <1>2, <1>3, <1>6 DEF Inv, TypeOK
    <2>2. status' \in [Ids -> Life!Known]
      BY <1>4, <1>5, <1>7 DEF Inv, TypeOK
    <2>3. req' \in [Workers -> Requests]
      BY <1>3 DEF Inv, TypeOK, Requests
    <2> QED
      BY <1>3, <2>1, <2>2, <2>3 DEF Inv, TypeOK, peers
  <1>9. Recorded' = Recorded \cup {n}
    <2>1. \A e \in Ids : kind'[e] = IF e = n THEN k ELSE kind[e]
      BY <1>1, <1>2 DEF Inv, TypeOK
    <2> QED
      BY <2>1, <1>1, <1>6 DEF Recorded
  <1>10. \A e \in Ids : /\ kind'[e] = IF e = n THEN k ELSE kind[e]
                        /\ parent'[e] = IF e = n THEN r.id ELSE parent[e]
    BY <1>1, <1>2, <1>3 DEF Inv, TypeOK
  <1>11. \A e \in Ids : status'[e] = IF e = n THEN s
                            ELSE IF e = r.id /\ new # r.seen THEN new ELSE status[e]
    BY <1>4
  <1>12. Entered'
    BY <1>1, <1>5, <1>6, <1>7, <1>9, <1>10, <1>11 DEF Inv, Entered, AnswerKinds, Recorded
  <1>13. AskStatus'
    BY <1>1, <1>5, <1>11 DEF Inv, AskStatus, Ids
  <1>14. ReadOK'
    <2> SUFFICES ASSUME NEW v \in Workers, v # w
                 PROVE  /\ req[v].op = "ask" => req[v].id \notin Recorded'
                        /\ req[v].op = "answer" =>
                             /\ req[v].id \in Recorded'
                             /\ req[v].seen # "pending_delivery" => status'[req[v].id] # "pending_delivery"
                        /\ req[v].op = "reconcile" => kind'[req[v].id] = "simulated_answer"
      BY <1>3, <1>9 DEF Inv, TypeOK, ReadOK, Idle
    <2>1. req[v].op = "ask" => req[v].id \notin Recorded'
      BY <1>1, <1>9, RequestTypes DEF Inv, TypeOK, ReadOK
    <2>2. req[v].op = "answer" =>
             /\ req[v].id \in Recorded'
             /\ req[v].seen # "pending_delivery" => status'[req[v].id] # "pending_delivery"
      BY <1>1, <1>5, <1>9, <1>11, RequestTypes DEF Inv, TypeOK, ReadOK
    <2>3. req[v].op = "reconcile" => kind'[req[v].id] = "simulated_answer"
      BY <1>1, <1>10, RequestTypes, CommAssumption DEF Inv, TypeOK, ReadOK, Recorded, Ids, Kinds
    <2> QED
      BY <2>1, <2>2, <2>3
  <1>15. AnsweredNotPending'
    <2> SUFFICES ASSUME NEW m \in Recorded', kind'[m] \in AnswerKinds
                 PROVE  status'[parent'[m]] # "pending_delivery"
      BY DEF AnsweredNotPending
    <2>1. CASE m = n
      <3>1. status'[r.id] = IF new # r.seen THEN new ELSE status[r.id]
        BY <1>1, <1>11
      <3> QED
        BY <2>1, <3>1, <1>1, <1>5, <1>10
    <2>2. CASE m # n
      <3>1. m \in Recorded /\ parent'[m] = parent[m] /\ parent[m] \in Recorded
            /\ status[parent[m]] # "pending_delivery"
        BY <2>2, <1>9, <1>10 DEF Inv, Entered, AnsweredNotPending, Recorded
      <3> QED
        BY <3>1, <1>1, <1>5, <1>11 DEF Recorded
    <2> QED
      BY <2>1, <2>2
  <1> QED
    BY <1>8, <1>12, <1>13, <1>14, <1>15 DEF Inv

\* A verdict keeps it.
LEMMA ReconcileCommitInv ==
    ASSUME Inv, NEW w \in Workers, NEW v \in Life!Terminal, NEW text \in BOOLEAN,
           ReconcileCommit(w, v, text)
    PROVE  Inv'
  <1> DEFINE r == req[w]
  <1>1. r.id \in Answers /\ r.id \in Ids /\ r.id \notin Asks /\ kind[r.id] = "simulated_answer"
    BY RequestTypes, CommAssumption DEF ReconcileCommit, Inv, TypeOK, ReadOK, Ids
  <1>2. /\ status' = [status EXCEPT ![r.id] = v]
        /\ UNCHANGED <<kind, parent, peers>>
        /\ req' = [req EXCEPT ![w] = Idle]
        /\ revised' \in {revised, revised \cup {r.id}}
    BY DEF ReconcileCommit, Commits
  <1> HIDE DEF r
  <1>3. v \in Life!Known /\ v # Life!Unknown /\ v # "pending_delivery"
    BY DEF Life!Known, Life!Statuses, Life!Unknown, Life!Terminal
  <1>4. TypeOK'
    <2>1. req' \in [Workers -> Requests]
      BY <1>2 DEF Inv, TypeOK, Requests
    <2> QED
      BY <2>1, <1>1, <1>2, <1>3 DEF Inv, TypeOK, peers
  <1>5. Recorded' = Recorded
    BY <1>2 DEF Recorded
  <1>6. \A e \in Ids : status'[e] = IF e = r.id THEN v ELSE status[e]
    BY <1>1, <1>2 DEF Inv, TypeOK
  <1>7. Entered'
    <2>1. kind[r.id] # None
      BY <1>1, CommAssumption DEF Kinds
    <2> QED
      BY <2>1, <1>1, <1>2, <1>3, <1>5, <1>6 DEF Inv, Entered
  <1>8. AskStatus'
    BY <1>1, <1>6 DEF Inv, AskStatus, Ids
  <1>9. ReadOK'
    BY <1>1, <1>2, <1>3, <1>5, <1>6, RequestTypes DEF Inv, TypeOK, ReadOK, Idle
  <1>10. AnsweredNotPending'
    BY <1>2, <1>3, <1>5, <1>6 DEF Inv, Entered, AnsweredNotPending, Recorded
  <1> QED
    BY <1>4, <1>7, <1>8, <1>9, <1>10 DEF Inv

\* The heartbeats leave the events alone.
LEMMA BeatInv ==
    ASSUME Inv, NEW w \in Workers, BeatCommit(w) \/ ListPeers(w)
    PROVE  Inv'
  <1>1. UNCHANGED events /\ req' \in {req, [req EXCEPT ![w] = Idle]}
    BY DEF BeatCommit, ListPeers, Commits
  <1>2. TypeOK'
    <2>1. req' \in [Workers -> Requests]
      BY <1>1 DEF Inv, TypeOK, Requests
    <2>2. /\ beat' \in [Members -> {"none", "fresh", "old"}]
          /\ online' \in [Members -> BOOLEAN] /\ rejected' \subseteq Members
      <3>1. CASE BeatCommit(w)
        <4> DEFINE m == req[w].member
        <4>1. m \in Members
          BY <3>1, RequestTypes DEF BeatCommit, Inv, TypeOK
        <4>2. /\ beat' \in {beat, [beat EXCEPT ![m] = "fresh"]}
              /\ online' \in {online, [online EXCEPT ![m] = TRUE]}
              /\ rejected' \in {rejected, rejected \cup {m}}
          BY <3>1 DEF BeatCommit
        <4> HIDE DEF m
        <4> QED
          BY <4>1, <4>2 DEF Inv, TypeOK
      <3>2. CASE ListPeers(w)
        BY <3>2 DEF ListPeers, Inv, TypeOK
      <3> QED
        BY <3>1, <3>2
    <2> QED
      BY <1>1, <2>1, <2>2 DEF Inv, TypeOK, events
  <1>3. Recorded' = Recorded
    BY <1>1 DEF Recorded, events
  <1>4. ReadOK'
    BY <1>1, <1>3 DEF Inv, TypeOK, ReadOK, events, Idle
  <1> QED
    BY <1>1, <1>2, <1>3, <1>4 DEF Inv, Entered, AskStatus, AnsweredNotPending, events

\* Every step keeps the invariant.
LEMMA NextInv == Inv /\ [Next]_vars => Inv'
  <1> SUFFICES ASSUME Inv, [Next]_vars PROVE Inv'
    OBVIOUS
  <1>1. ASSUME NEW w \in Workers, NEW a \in Asks, NEW re \in Ids \cup {None}, AskCheck(w, a, re)
        PROVE  Inv'
    BY <1>1, AskCheckInv
  <1>2. ASSUME NEW w \in Workers, AskCommit(w) PROVE Inv'
    BY <1>2, AskCommitInv
  <1>3. ASSUME NEW w \in Workers, NEW e \in Ids, NEW rt \in BOOLEAN, AnswerRead(w, e, rt)
        PROVE  Inv'
    <2> DEFINE r == [op |-> "answer", id |-> e, seen |-> status[e], realtime |-> rt]
    <2>1. e \in Recorded /\ req' = [req EXCEPT ![w] = r] /\ UNCHANGED <<events, peers>>
      BY <1>3 DEF AnswerRead, Reads
    <2>2. status[e] \in Life!Statuses
      BY <2>1 DEF Inv, TypeOK, Entered, Recorded, Life!Known
    <2>3. r \in Requests /\ r.op = "answer" /\ r.id = e /\ r.seen = status[e]
      BY <2>2 DEF Requests
    <2> HIDE DEF r
    <2>4. TypeOK'
      BY <2>1, <2>3 DEF Inv, TypeOK, events, peers
    <2> QED
      BY <2>1, <2>3, <2>4, ReadInv
  <1>4. ASSUME NEW w \in Workers, NEW n \in Answers, AnswerCommit(w, n) PROVE Inv'
    BY <1>4, AnswerCommitInv
  <1>5. ASSUME NEW w \in Workers, NEW e \in Answers, ReconcileRead(w, e) PROVE Inv'
    <2> DEFINE r == [op |-> "reconcile", id |-> e, seen |-> status[e]]
    <2>1. kind[e] = "simulated_answer" /\ req' = [req EXCEPT ![w] = r] /\ UNCHANGED <<events, peers>>
      BY <1>5 DEF ReconcileRead, Reads
    <2>0. status[e] \in Life!Statuses
      BY <2>1, CommAssumption DEF Inv, TypeOK, Entered, Kinds, Ids, Life!Known
    <2>2. r \in Requests /\ r.op = "reconcile" /\ r.id = e
      BY <2>0 DEF Requests
    <2> HIDE DEF r
    <2>3. TypeOK'
      BY <2>1, <2>2 DEF Inv, TypeOK, events, peers
    <2> QED
      BY <2>1, <2>2, <2>3, ReadInv
  <1>6. ASSUME NEW w \in Workers, NEW v \in Life!Terminal, NEW text \in BOOLEAN,
               ReconcileCommit(w, v, text)
        PROVE  Inv'
    BY <1>6, ReconcileCommitInv
  <1>7. ASSUME NEW w \in Workers, NEW m \in Members, BeatRead(w, m) PROVE Inv'
    <2> DEFINE known == beat[m] # "none"
               on    == online[m]
               r     == [op |-> "beat", member |-> m, known |-> known, online |-> on]
    <2>1. req' = [req EXCEPT ![w] = r] /\ UNCHANGED <<events, peers>>
      BY <1>7 DEF BeatRead, Reads
    <2>2. r \in Requests /\ r.op = "beat"
      <3>1. known \in BOOLEAN /\ on \in BOOLEAN
        BY DEF Inv, TypeOK
      <3> HIDE DEF known, on
      <3> QED
        BY <3>1 DEF Requests
    <2> HIDE DEF r, known, on
    <2>3. TypeOK'
      BY <2>1, <2>2 DEF Inv, TypeOK, events, peers
    <2> QED
      BY <2>1, <2>2, <2>3, ReadInv
  <1>8. ASSUME NEW w \in Workers, BeatCommit(w) \/ ListPeers(w) PROVE Inv'
    BY <1>8, BeatInv
  <1>9. ASSUME UNCHANGED <<kind, parent, status, req>>,
               revised' = revised /\ rejected' = rejected,
               beat' \in [Members -> {"none", "fresh", "old"}], online' = online
        PROVE  Inv'
    BY <1>9 DEF Inv, TypeOK, Entered, AskStatus, ReadOK, AnsweredNotPending, Recorded
  <1>10. ASSUME NEW m \in Members, Age(m) PROVE Inv'
    <2>1. beat' \in [Members -> {"none", "fresh", "old"}]
      BY <1>10 DEF Age, Inv, TypeOK
    <2> QED
      BY <2>1, <1>9, <1>10 DEF Age, events
  <1>11. ASSUME UNCHANGED vars PROVE Inv'
    BY <1>9, <1>11 DEF vars, Inv, TypeOK
  <1> QED
    BY <1>1, <1>2, <1>3, <1>4, <1>5, <1>6, <1>7, <1>8, <1>10, <1>11 DEF Next

\* The rows of events and members keep their types.
THEOREM TypeCorrect == Spec => []TypeOK
  <1>1. Inv => TypeOK
    BY DEF Inv
  <1> QED
    BY InitInv, NextInv, <1>1, PTL DEF Spec

\* With any number of requests, no event that was answered waits for delivery.
THEOREM AnsweredIsDelivered == Spec => []AnsweredNotPending
  <1>1. Inv => AnsweredNotPending
    BY DEF Inv
  <1> QED
    BY InitInv, NextInv, <1>1, PTL DEF Spec

--------------------------------------------------------------------------------
(* What requests that overlap can do to a status.                              *)

\* An ask that a realtime answer was recorded for, as far as it can fall back.
Settled(a) ==
    \/ status[a] = "confirmed"
    \/ /\ status[a] = "delivered"
       /\ \E m \in Recorded : kind[m] = "simulated_answer" /\ parent[m] = a

\* What a request has read: a verdict found none, and a request that found an
\* ask confirmed commits to one that is settled.
SeenOK ==
    \A w \in Workers :
       /\ req[w].op = "reconcile" => req[w].seen \in {"pending_delivery", "delivered"}
       /\ \A a \in Asks : req[w].op = "answer" /\ req[w].id = a =>
            /\ req[w].seen \notin {"revised", "needs_human_review"}
            /\ req[w].seen = "confirmed" => Settled(a)

\* A recorded answer stays what it is; an event that was not there comes with the
\* commit of its own request.
LEMMA AnswersStay ==
    ASSUME Inv, [Next]_vars, NEW n \in Recorded, kind[n] # "ask"
    PROVE  n \in Recorded' /\ kind'[n] = kind[n] /\ parent'[n] = parent[n]
  <1>1. ASSUME UNCHANGED <<kind, parent>>
        PROVE  n \in Recorded' /\ kind'[n] = kind[n] /\ parent'[n] = parent[n]
    BY <1>1 DEF Recorded
  <1>2. ASSUME NEW w \in Workers, AskCommit(w)
        PROVE  n \in Recorded' /\ kind'[n] = kind[n] /\ parent'[n] = parent[n]
    <2>1. req[w].id \in Ids /\ req[w].id \notin Recorded
      BY <1>2, RequestTypes DEF AskCommit, Inv, TypeOK, ReadOK, Ids
    <2> QED
      BY <1>2, <2>1 DEF AskCommit, Recorded, Inv, TypeOK
  <1>3. ASSUME NEW w \in Workers, NEW m \in Answers, AnswerCommit(w, m)
        PROVE  n \in Recorded' /\ kind'[n] = kind[n] /\ parent'[n] = parent[n]
    BY <1>3 DEF AnswerCommit, Recorded, Inv, TypeOK
  <1> QED
    BY <1>1, <1>2, <1>3
    DEF Next, AskCheck, AnswerRead, ReconcileRead, ReconcileCommit, BeatRead, BeatCommit, ListPeers,
        Age, vars, events

\* The status of a settled ask changes by an answer only, and a simulated one that
\* writes it is recorded with it.
LEMMA SettledStays ==
    ASSUME Inv, SeenOK, [Next]_vars, NEW a \in Asks \cap Recorded, Settled(a)
    PROVE  Settled(a)'
  <1>0. a \in Ids /\ a \notin Answers
    BY CommAssumption DEF Ids
  <1>1. (\E m \in Recorded : kind[m] = "simulated_answer" /\ parent[m] = a)
          => \E m \in Recorded' : kind'[m] = "simulated_answer" /\ parent'[m] = a
    BY AnswersStay
  <1>2. ASSUME status'[a] = status[a] PROVE Settled(a)'
    BY <1>1, <1>2 DEF Settled
  <1>3. ASSUME NEW w \in Workers, AskCommit(w) PROVE Settled(a)'
    <2>1. req[w].id # a
      BY <1>3 DEF AskCommit, Inv, ReadOK
    <2> QED
      BY <1>0, <1>2, <1>3, <2>1 DEF AskCommit, Inv, TypeOK
  <1>4. ASSUME NEW w \in Workers, NEW n \in Answers, AnswerCommit(w, n) PROVE Settled(a)'
    <2> DEFINE r   == req[w]
               new == AnswerMoves(r.seen, r.realtime)
    <2>1. /\ n # a /\ n \in Ids
          /\ status'[a] = IF a = r.id /\ new # r.seen THEN new ELSE status[a]
      BY <1>0, <1>4, CommAssumption DEF AnswerCommit, Ids
    <2>2. CASE a = r.id /\ new # r.seen
      <3>1. r.seen \in Life!Statuses /\ r.realtime \in BOOLEAN
        BY <1>4, RequestTypes DEF AnswerCommit, Inv, TypeOK
      <3>2. new = "confirmed" \/ (new = "delivered" /\ ~r.realtime)
        <4> HIDE DEF r
        <4> QED
          BY <2>2, <3>1, AnswerStatus
      <3>3. ~r.realtime => /\ n \in Recorded' /\ kind'[n] = "simulated_answer" /\ parent'[n] = a
        BY <1>4, <2>1, <2>2, CommAssumption DEF AnswerCommit, Recorded, Inv, TypeOK, Kinds
      <3> QED
        BY <2>1, <2>2, <3>2, <3>3 DEF Settled
    <2>3. CASE ~(a = r.id /\ new # r.seen)
      BY <1>2, <2>1, <2>3
    <2> QED
      BY <2>2, <2>3
  <1>5. ASSUME NEW w \in Workers, NEW v \in Life!Terminal, NEW text \in BOOLEAN,
               ReconcileCommit(w, v, text)
        PROVE  Settled(a)'
    <2>1. req[w].id \in Answers
      BY <1>5, RequestTypes DEF ReconcileCommit, Inv, TypeOK
    <2> QED
      BY <1>0, <1>2, <1>5, <2>1 DEF ReconcileCommit, Inv, TypeOK
  <1> QED
    BY <1>2, <1>3, <1>4, <1>5
    DEF Next, AskCheck, AnswerRead, ReconcileRead, BeatRead, BeatCommit, ListPeers, Age, vars, events

\* Reads take what the rows hold, and what was read stays as true as it has to.
LEMMA SeenStep == ASSUME Inv, SeenOK, [Next]_vars PROVE SeenOK'
  <1>1. ASSUME NEW v \in Workers, req'[v] = req[v] \/ req'[v] = Idle
        PROVE  /\ req'[v].op = "reconcile" => req'[v].seen \in {"pending_delivery", "delivered"}
               /\ \A a \in Asks : req'[v].op = "answer" /\ req'[v].id = a =>
                    /\ req'[v].seen \notin {"revised", "needs_human_review"}
                    /\ req'[v].seen = "confirmed" => Settled(a)'
    <2>1. CASE req'[v] = req[v]
      <3>1. req[v].op = "answer" => req[v].id \in Recorded
        BY DEF Inv, ReadOK
      <3>2. ASSUME NEW a \in Asks, req[v].op = "answer", req[v].id = a, req[v].seen = "confirmed"
            PROVE  Settled(a)'
        BY <3>1, <3>2, SettledStays DEF SeenOK
      <3> QED
        BY <2>1, <3>2 DEF SeenOK
    <2>2. CASE req'[v] = Idle
      BY <2>2 DEF Idle
    <2> QED
      BY <1>1, <2>1, <2>2
  <1>2. ASSUME NEW w \in Workers, NEW r, req' = [req EXCEPT ![w] = r],
               r.op = "reconcile" => r.seen \in {"pending_delivery", "delivered"},
               \A a \in Asks : r.op = "answer" /\ r.id = a =>
                 /\ r.seen \notin {"revised", "needs_human_review"}
                 /\ r.seen = "confirmed" => Settled(a)'
        PROVE  SeenOK'
    <2>1. \A v \in Workers : req'[v] = IF v = w THEN r ELSE req[v]
      BY <1>2 DEF Inv, TypeOK
    <2> QED
      BY <1>1, <1>2, <2>1 DEF SeenOK
  <1>3. ASSUME NEW w \in Workers, NEW a \in Asks, NEW re \in Ids \cup {None}, AskCheck(w, a, re)
        PROVE  SeenOK'
    <2> DEFINE r == [op |-> "ask", id |-> a, re |-> re, online |-> Online(To[a])]
    <2>1. req' = [req EXCEPT ![w] = r] /\ r.op = "ask"
      BY <1>3 DEF AskCheck, Reads
    <2> HIDE DEF r
    <2> QED
      BY <1>2, <2>1
  <1>4. ASSUME NEW w \in Workers, NEW e \in Ids, NEW rt \in BOOLEAN, AnswerRead(w, e, rt)
        PROVE  SeenOK'
    <2> DEFINE r == [op |-> "answer", id |-> e, seen |-> status[e], realtime |-> rt]
    <2>1. req' = [req EXCEPT ![w] = r] /\ r.op = "answer" /\ r.id = e /\ r.seen = status[e]
      BY <1>4 DEF AnswerRead, Reads
    <2>2. e \in Asks => status[e] \notin {"revised", "needs_human_review"}
      BY DEF Inv, AskStatus
    <2>3. status[e] = "confirmed" => Settled(e)'
      BY <1>4 DEF AnswerRead, events, Settled
    <2> HIDE DEF r
    <2> QED
      BY <1>2, <2>1, <2>2, <2>3
  <1>5. ASSUME NEW w \in Workers, NEW e \in Answers, ReconcileRead(w, e) PROVE SeenOK'
    <2> DEFINE r == [op |-> "reconcile", id |-> e, seen |-> status[e]]
    <2>1. req' = [req EXCEPT ![w] = r] /\ r.op = "reconcile" /\ r.seen = status[e]
      BY <1>5 DEF ReconcileRead, Reads
    <2>2. status[e] \in {"pending_delivery", "delivered"}
      <3>1. e \in Ids /\ status[e] \in Life!Known /\ status[e] \notin Life!Terminal
            /\ kind[e] # None
        BY <1>5, CommAssumption DEF ReconcileRead, Inv, TypeOK, Kinds, Ids
      <3>2. status[e] # Life!Unknown
        BY <3>1 DEF Inv, Entered
      <3> QED
        BY <3>1, <3>2 DEF Life!Known, Life!Statuses
    <2> HIDE DEF r
    <2> QED
      BY <1>2, <2>1, <2>2
  <1>6. ASSUME NEW w \in Workers, NEW m \in Members, BeatRead(w, m) PROVE SeenOK'
    <2> DEFINE known == beat[m] # "none"
               r     == [op |-> "beat", member |-> m, known |-> known, online |-> online[m]]
    <2>1. req' = [req EXCEPT ![w] = r] /\ r.op = "beat"
      BY <1>6 DEF BeatRead, Reads
    <2> HIDE DEF r
    <2> QED
      BY <1>2, <2>1
  <1>7. ASSUME NEW w \in Workers, req' = [req EXCEPT ![w] = Idle] PROVE SeenOK'
    <2>1. Idle.op = "idle"
      BY DEF Idle
    <2> QED
      BY <1>2, <1>7, <2>1
  <1>8. ASSUME req' = req PROVE SeenOK'
    BY <1>1, <1>8 DEF SeenOK
  <1> QED
    BY <1>3, <1>4, <1>5, <1>6, <1>7, <1>8
    DEF Next, AskCommit, AnswerCommit, ReconcileCommit, BeatCommit, ListPeers, Age, Commits, vars

\* AnsweredConfirmed, by the ask.
AnswersSettle ==
    \A n \in Recorded, a \in Asks :
        kind[n] = "realtime_answer" /\ parent[n] = a => Settled(a)

\* A realtime answer is recorded with the confirmation of its ask, or after one.
LEMMA SettleStep ==
    ASSUME Inv, SeenOK, AnswersSettle, [Next]_vars
    PROVE  AnswersSettle'
  <1> SUFFICES ASSUME NEW n \in Recorded', NEW a \in Asks, kind'[n] = "realtime_answer",
                      parent'[n] = a
               PROVE  Settled(a)'
    BY DEF AnswersSettle
  <1>0. a \in Ids
    BY DEF Ids
  <1>1. CASE n \in Recorded /\ kind[n] # "ask"
    <2>1. kind[n] = "realtime_answer" /\ parent[n] = a
      BY <1>1, AnswersStay
    <2>2. a \in Asks \cap Recorded /\ Settled(a)
      BY <1>1, <2>1 DEF AnswersSettle, Inv, Entered, AnswerKinds, Recorded
    <2> QED
      BY <2>2, SettledStays
  <1>2. CASE ~(n \in Recorded /\ kind[n] # "ask")
    <2>1. PICK w \in Workers : AnswerCommit(w, n) /\ n \in Answers
      <3>1. ASSUME UNCHANGED kind PROVE FALSE
        BY <1>2, <3>1 DEF Recorded
      <3>2. ASSUME NEW v \in Workers, AskCommit(v) PROVE FALSE
        BY <1>2, <3>2 DEF AskCommit, Recorded, Inv, TypeOK
      <3>3. ASSUME NEW v \in Workers, NEW m \in Answers, AnswerCommit(v, m) PROVE m = n
        BY <1>2, <3>3 DEF AnswerCommit, Recorded, Inv, TypeOK
      <3> QED
        BY <3>1, <3>2, <3>3
        DEF Next, AskCheck, AnswerRead, ReconcileRead, ReconcileCommit, BeatRead, BeatCommit,
            ListPeers, Age, vars, events
    <2> DEFINE r   == req[w]
               new == AnswerMoves(r.seen, r.realtime)
    <2>2. /\ r.id = a /\ a \in Recorded /\ a # n /\ r.op = "answer" /\ r.realtime
          /\ r.seen \in Life!Statuses /\ r.realtime \in BOOLEAN
      BY <2>1, RequestTypes DEF AnswerCommit, Inv, TypeOK, ReadOK, Ids
    <2>3. status'[a] = IF new # r.seen THEN new ELSE status[a]
      BY <1>0, <2>1, <2>2 DEF AnswerCommit
    <2>4. /\ r.seen \notin {"revised", "needs_human_review"}
          /\ r.seen = "confirmed" => Settled(a)
      BY <2>2 DEF SeenOK
    <2>5. r.seen = "confirmed" => Settled(a)'
      BY <2>2, <2>4, SettledStays
    <2> HIDE DEF r
    <2>6. new = "confirmed"
      BY <2>2, <2>4, AnswerStatus
    <2> QED
      BY <2>3, <2>5, <2>6 DEF Settled
  <1> QED
    BY <1>1, <1>2

\* With any number of requests, an ask with a realtime answer is confirmed, or
\* delivered when a simulated answer to it was written over the confirmation.
THEOREM RealtimeConfirms == Spec => []AnsweredConfirmed
  <1>1. Init => SeenOK /\ AnswersSettle
    BY CommAssumption DEF Init, SeenOK, AnswersSettle, Recorded, Idle, Ids
  <1>2. Inv /\ SeenOK /\ AnswersSettle /\ [Next]_vars => SeenOK' /\ AnswersSettle'
    BY SeenStep, SettleStep
  <1>3. Inv /\ AnswersSettle => AnsweredConfirmed
    <2> SUFFICES ASSUME Inv, AnswersSettle, NEW n \in Recorded, kind[n] = "realtime_answer",
                        kind[parent[n]] = "ask"
                 PROVE  Settled(parent[n])
      BY DEF AnsweredConfirmed, Settled
    <2>1. parent[n] \in Asks
      BY DEF Inv, Entered, AnswerKinds, Recorded, Ids
    <2> QED
      BY <2>1 DEF AnswersSettle
  <1> QED
    BY <1>1, <1>2, <1>3, InitInv, NextInv, PTL DEF Spec

\* With any number of requests, a status leaves the transition table only when a
\* request commits that another one has overtaken.
THEOREM MovesUnlessOvertaken == Spec => StatusMoves
  <1> DEFINE Moves == \A e \in Ids : \/ status[e] \in {Life!Unknown, status'[e]}
                                     \/ <<status[e], status'[e]>> \in Life!Transitions
                                     \/ \E w \in Workers : Overtaken(w, e)
  <1>1. Inv /\ SeenOK /\ [Next]_vars => [Moves]_vars
    <2> SUFFICES ASSUME Inv, SeenOK, Next PROVE Moves
      OBVIOUS
    <2>1. ASSUME NEW w \in Workers, AskCommit(w) PROVE Moves
      <3> DEFINE r == req[w]
      <3>1. r.id \in Ids /\ status[r.id] = Life!Unknown
        BY <2>1, RequestTypes DEF AskCommit, Inv, TypeOK, ReadOK, Entered, Recorded, Ids
      <3>2. \E s : status' = [status EXCEPT ![r.id] = s]
        BY <2>1 DEF AskCommit
      <3> HIDE DEF r
      <3> QED
        BY <3>1, <3>2 DEF Inv, TypeOK
    <2>2. ASSUME NEW w \in Workers, NEW n \in Answers, AnswerCommit(w, n) PROVE Moves
      <3> DEFINE r   == req[w]
                 new == AnswerMoves(r.seen, r.realtime)
      <3>1. /\ r.op = "answer" /\ r.seen \in Life!Statuses /\ r.realtime \in BOOLEAN
            /\ n \in Ids /\ status[n] = Life!Unknown /\ req'[w] = Idle
        BY <2>2, RequestTypes
        DEF AnswerCommit, Commits, Inv, TypeOK, Entered, Recorded, Ids
      <3>2. new # r.seen => <<r.seen, new>> \in Life!Transitions
        BY <3>1, AnswerStatus
      <3>3. \A e \in Ids \ {n} : status'[e] = IF e = r.id /\ new # r.seen THEN new ELSE status[e]
        BY <2>2 DEF AnswerCommit
      <3>4. r.seen # status[r.id] => Overtaken(w, r.id)
        BY <3>1 DEF Overtaken
      <3> HIDE DEF r, new
      <3> QED
        BY <3>1, <3>2, <3>3, <3>4
    <2>3. ASSUME NEW w \in Workers, NEW v \in Life!Terminal, NEW text \in BOOLEAN,
                 ReconcileCommit(w, v, text)
          PROVE  Moves
      <3> DEFINE r == req[w]
      <3>1. /\ r.op = "reconcile" /\ r.id \in Ids /\ req'[w] = Idle
            /\ r.seen \in {"pending_delivery", "delivered"}
        BY <2>3, RequestTypes DEF ReconcileCommit, Commits, Inv, TypeOK, SeenOK, Ids
      <3>2. status' = [status EXCEPT ![r.id] = v]
        BY <2>3 DEF ReconcileCommit
      <3>3. r.seen # status[r.id] => Overtaken(w, r.id)
        BY <3>1 DEF Overtaken
      <3> HIDE DEF r
      <3>4. <<r.seen, v>> \in Life!Transitions
        BY <3>1 DEF Life!Transitions
      <3> QED
        BY <3>1, <3>2, <3>3, <3>4 DEF Inv, TypeOK
    <2>4. CASE UNCHANGED status
      BY <2>4
    <2> QED
      BY <2>1, <2>2, <2>3, <2>4
      DEF Next, AskCheck, AnswerRead, ReconcileRead, BeatRead, BeatCommit, ListPeers, Age, events
  <1>2. Init => SeenOK
    BY DEF Init, SeenOK, Idle
  <1>3. Inv /\ SeenOK /\ [Next]_vars => SeenOK'
    BY SeenStep
  <1> QED
    BY <1>1, <1>2, <1>3, InitInv, NextInv, PTL DEF Spec, StatusMoves
--------------------------------------------------------------------------------
(* PeerClock *)
\* compare() says "before" exactly for the causal order, and never both ways.
THEOREM CompareIsBefore ==
    ASSUME NEW c \in Clocks, NEW d \in Clocks
    PROVE  /\ Compare(c, d) = "before" <=> Before(c, d)
           /\ Compare(c, d) = "after" <=> Before(d, c)
           /\ Compare(c, d) = "equal" <=> c = d
<1>1. ~Less(c, d) <=> \A p \in Peers : d[p] <= c[p]
  BY DEF Less, Clocks
<1>2. ~Less(d, c) <=> \A p \in Peers : c[p] <= d[p]
  BY DEF Less, Clocks
<1>3. ~Less(c, d) /\ ~Less(d, c) <=> c = d
  <2>1. ASSUME ~Less(c, d), ~Less(d, c) PROVE c = d
    <3>1. ASSUME NEW p \in Peers PROVE c[p] = d[p]
      <4>1. c[p] \in Nat /\ d[p] \in Nat
        BY DEF Clocks
      <4>2. d[p] <= c[p] /\ c[p] <= d[p]
        BY <2>1, <1>1, <1>2
      <4> QED
        BY <4>1, <4>2
    <3> QED
      BY <3>1 DEF Clocks
  <2>2. ASSUME c = d PROVE ~Less(c, d) /\ ~Less(d, c)
    BY <2>2 DEF Less, Clocks
  <2> QED
    BY <2>1, <2>2
<1> QED
  BY <1>1, <1>2, <1>3 DEF Compare, Before

\* merge() is the least upper bound: it is above both clocks and below every
\* clock that is.
THEOREM MergeIsLeast ==
    ASSUME NEW c \in Clocks, NEW d \in Clocks
    PROVE  /\ Merge(c, d) \in Clocks
           /\ \A p \in Peers : c[p] <= Merge(c, d)[p] /\ d[p] <= Merge(c, d)[p]
           /\ \A u \in Clocks :
                (\A p \in Peers : c[p] <= u[p] /\ d[p] <= u[p])
                  => \A p \in Peers : Merge(c, d)[p] <= u[p]
           /\ Merge(c, d) = Merge(d, c)
           /\ Merge(c, c) = c
<1>1. Merge(c, d) \in Clocks
  BY DEF Merge, Clocks
<1>2. \A p \in Peers : c[p] <= Merge(c, d)[p] /\ d[p] <= Merge(c, d)[p]
  BY DEF Merge, Clocks
<1>3. ASSUME NEW u \in Clocks, \A p \in Peers : c[p] <= u[p] /\ d[p] <= u[p]
      PROVE  \A p \in Peers : Merge(c, d)[p] <= u[p]
  BY <1>3 DEF Merge, Clocks
<1>4. Merge(c, d) = Merge(d, c)
  <2>1. \A p \in Peers : Merge(c, d)[p] = Merge(d, c)[p]
    BY DEF Merge, Clocks
  <2> QED
    BY <2>1 DEF Merge
<1>5. Merge(c, c) = c
  BY DEF Merge, Clocks
<1> QED
  BY <1>1, <1>2, <1>3, <1>4, <1>5
--------------------------------------------------------------------------------
\* Clocks, the log and the peer's log keep their types.
THEOREM ClockTypeCorrect == ClockSpec => []ClockTypeOK
<1> USE ClockAssumption DEF ClockTypeOK, Events, Clocks
<1>1. ClockInit => ClockTypeOK
  BY DEF ClockInit, Zero
<1>2. ClockTypeOK /\ [ClockNext]_clockVars => ClockTypeOK'
  <2> SUFFICES ASSUME ClockTypeOK, [ClockNext]_clockVars PROVE ClockTypeOK'
    OBVIOUS
  <2>0. Zero \in Clocks
    BY DEF Zero
  <2>1. ASSUME NEW seen \in BOOLEAN, Ask(seen) PROVE ClockTypeOK'
    <3>1. clock' \in Clocks
      BY <2>1 DEF Ask, Increment
    <3>2. Event("ask", clock', 0) \in Events /\ (IF seen THEN clock' ELSE Zero) \in Clocks
      BY <2>0, <3>1 DEF Event
    <3> HIDE DEF Events, Clocks
    <3> QED
      BY <2>1, <3>1, <3>2 DEF Ask
  <2>2. ASSUME NEW c \in SnapshotClocks, ShadowAsk(c) PROVE ClockTypeOK'
    BY <2>0, <2>2 DEF ShadowAsk, Event
  <2>3. CASE Answer
    <3>1. PICK i \in Unanswered : log' = Append(log, Event("answer", clock, i))
      BY <2>3 DEF Answer
    <3>2. Event("answer", clock, i) \in Events
      <4>1. i \in Nat
        BY DEF Unanswered
      <4> HIDE DEF Clocks
      <4>2. clock \in Clocks /\ restarts \in 0 .. MaxRestarts
        OBVIOUS
      <4> HIDE DEF ClockTypeOK
      <4> QED
        BY <4>1, <4>2 DEF Event
    <3> HIDE DEF Events, Clocks
    <3> QED
      BY <2>0, <2>3, <3>1, <3>2 DEF Answer
  <2>4. CASE Restart
    BY <2>0, <2>4 DEF Restart
  <2>5. CASE UNCHANGED clockVars
    BY <2>5 DEF clockVars
  <2> QED
    BY <2>1, <2>2, <2>3, <2>4, <2>5 DEF ClockNext, RealtimeAsk, OfflineAsk
<1> QED
  BY <1>1, <1>2, PTL DEF ClockSpec

\* Only the local counter moves in a process.
OnlySelf == /\ \A p \in Peers \ {Self} : clock[p] = 0
            /\ \A i \in 1 .. Len(log) : Own(i) =>
                 \A p \in Peers \ {Self} : log[i].clock[p] = 0

\* Whether the process asked something after event i.
AskedSince(i) ==
    \E k \in i + 1 .. Len(log) : log[k].kind = "ask" /\ log[k].run = restarts

\* The clock has moved on from that of an event of this run by what was asked.
Current == \A i \in 1 .. Len(log) :
             Own(i) /\ log[i].run = restarts =>
               IF AskedSince(i) THEN log[i].clock[Self] < clock[Self]
                                ELSE log[i].clock[Self] = clock[Self]

\* And so have those of the later events of the run.
SelfOrder(i, j) ==
    IF HappenedBefore(i, j) THEN log[i].clock[Self] < log[j].clock[Self]
                            ELSE log[i].clock[Self] = log[j].clock[Self]

Ordered == \A i, j \in 1 .. Len(log) :
             i < j /\ Own(i) /\ Own(j) /\ log[i].run = log[j].run => SelfOrder(i, j)

Past == \A i \in 1 .. Len(log) : log[i].run \in 0 .. restarts

ClockInv == OnlySelf /\ Current /\ Ordered /\ Past

\* What ClockTypeOK says of an event of the log.
LEMMA EventType ==
    ASSUME ClockTypeOK, NEW i \in 1 .. Len(log)
    PROVE  /\ log[i] \in Events
           /\ log[i].clock \in Clocks
           /\ log[i].clock[Self] \in Nat
<1>1. log[i] \in Events
  BY DEF ClockTypeOK
<1>2. log[i].clock \in [Peers -> Nat]
  BY <1>1 DEF Events, Clocks
<1> QED
  BY <1>1, <1>2, ClockAssumption DEF Clocks

\* The log after an event of this run has been appended: the events before it
\* keep what they are, and their order.
LEMMA Logged ==
    ASSUME ClockTypeOK, ClockInv, NEW e, NEW n, n = Len(log) + 1, e.run = restarts,
           restarts' = restarts, log' = Append(log, e)
    PROVE  /\ Len(log) \in Nat /\ Len(log') = Len(log) + 1
           /\ log'[n] = e
           /\ \A i \in 1 .. Len(log) : log'[i] = log[i]
           /\ \A i \in 1 .. Len(log') : i \in 1 .. Len(log) \/ i = n
           /\ \A i \in 1 .. Len(log) : AskedSince(i)' <=> AskedSince(i) \/ e.kind = "ask"
           /\ ~AskedSince(n)'
           /\ \A i, j \in 1 .. Len(log) : HappenedBefore(i, j)' <=> HappenedBefore(i, j)
           /\ \A i \in 1 .. Len(log) :
                HappenedBefore(i, n)' <=> AskedSince(i) \/ e.kind = "ask"
           /\ Past'
<1>1. /\ Len(log) \in Nat /\ Len(log') = Len(log) + 1
      /\ log'[n] = e
      /\ \A i \in 1 .. Len(log) : log'[i] = log[i]
  BY DEF ClockTypeOK
<1>2. \A i \in 1 .. Len(log') : i \in 1 .. Len(log) \/ i = n
  BY <1>1
<1>3. ASSUME NEW i \in 1 .. Len(log) PROVE AskedSince(i)' <=> AskedSince(i) \/ e.kind = "ask"
  <2>1. \A k \in i + 1 .. Len(log) : k \in 1 .. Len(log)
    BY <1>1
  <2>2. \A k : k \in i + 1 .. Len(log') <=> k \in i + 1 .. Len(log) \/ k = n
    BY <1>1
  <2> QED
    BY <1>1, <2>1, <2>2 DEF AskedSince
<1>4. ~AskedSince(n)'
  BY <1>1 DEF AskedSince
<1>5. ASSUME NEW i \in 1 .. Len(log), NEW j \in 1 .. Len(log)
      PROVE  HappenedBefore(i, j)' <=> HappenedBefore(i, j)
  <2>1. \A k \in i + 1 .. j : k \in 1 .. Len(log)
    BY <1>1
  <2> QED
    BY <1>1, <2>1 DEF HappenedBefore
<1>6. ASSUME NEW i \in 1 .. Len(log)
      PROVE  HappenedBefore(i, n)' <=> AskedSince(i) \/ e.kind = "ask"
  BY <1>1, <1>3 DEF HappenedBefore, AskedSince
<1>7. Past'
  <2>1. restarts \in Nat
    BY ClockAssumption DEF ClockTypeOK
  <2> QED
    BY <1>1, <1>2, <2>1 DEF ClockInv, Past
<1> QED
  BY <1>1, <1>2, <1>3, <1>4, <1>5, <1>6, <1>7

\* What the invariant says of the clock and an event of this run.
LEMMA NotAhead ==
    ASSUME ClockTypeOK, ClockInv, NEW i \in 1 .. Len(log), Own(i), log[i].run = restarts
    PROVE  log[i].clock[Self] <= clock[Self] /\ clock[Self] \in Nat
<1>1. log[i].clock[Self] \in Nat /\ clock[Self] \in Nat
  BY EventType, ClockAssumption DEF ClockTypeOK, Clocks
<1> QED
  BY <1>1 DEF ClockInv, Current

\* An ask moves the clock past every event of the run.
LEMMA AskStep ==
    ASSUME ClockTypeOK, ClockInv, NEW seen \in BOOLEAN, Ask(seen) PROVE ClockInv'
<1> DEFINE e == Event("ask", clock', 0)
<1>1. /\ e.kind = "ask" /\ e.clock = clock' /\ e.run = restarts /\ restarts' = restarts
      /\ log' = Append(log, e)
  BY DEF Ask, Event
<1>2. /\ clock[Self] \in Nat /\ clock'[Self] = clock[Self] + 1
      /\ \A p \in Peers \ {Self} : clock'[p] = 0
  BY ClockAssumption DEF Ask, Increment, ClockTypeOK, Clocks, ClockInv, OnlySelf
<1> HIDE DEF e
<1>3. OnlySelf'
  BY <1>1, <1>2, Logged DEF ClockInv, OnlySelf, Own
<1>4. ASSUME NEW i \in 1 .. Len(log), Own(i), log[i].run = restarts
      PROVE  log[i].clock[Self] < clock'[Self]
  BY <1>2, <1>4, NotAhead, EventType
<1>5. Current'
  BY <1>1, <1>4, Logged DEF Current, Own
<1>6. Ordered'
  <2> SUFFICES ASSUME NEW i \in 1 .. Len(log'), NEW j \in 1 .. Len(log'),
                      i < j, Own(i)', Own(j)', log'[i].run = log'[j].run
               PROVE  SelfOrder(i, j)'
    BY DEF Ordered
  <2>1. i \in 1 .. Len(log)
    BY <1>1, Logged
  <2>2. CASE j \in 1 .. Len(log)
    BY <1>1, <2>1, <2>2, Logged DEF ClockInv, Ordered, SelfOrder, Own
  <2>3. CASE j = Len(log) + 1
    BY <1>1, <1>4, <2>1, <2>3, Logged DEF SelfOrder, Own
  <2> QED
    BY <1>1, <2>2, <2>3, Logged
<1> QED
  BY <1>1, <1>3, <1>5, <1>6, Logged DEF ClockInv

\* An answer carries the clock as it is, so what was asked since its ask counts.
LEMMA AnswerStep == ASSUME ClockTypeOK, ClockInv, Answer PROVE ClockInv'
<1>0. PICK n \in Unanswered : log' = Append(log, Event("answer", clock, n))
  BY DEF Answer
<1> DEFINE e == Event("answer", clock, n)
<1>1. /\ e.kind = "answer" /\ e.clock = clock /\ e.run = restarts /\ restarts' = restarts
      /\ log' = Append(log, e) /\ clock' = clock
  BY <1>0 DEF Answer, Event
<1> HIDE DEF e
<1>2. OnlySelf'
  BY <1>1, Logged DEF ClockInv, OnlySelf, Own
<1>3. Current'
  BY <1>1, Logged DEF ClockInv, Current, Own
<1>4. Ordered'
  <2> SUFFICES ASSUME NEW i \in 1 .. Len(log'), NEW j \in 1 .. Len(log'),
                      i < j, Own(i)', Own(j)', log'[i].run = log'[j].run
               PROVE  SelfOrder(i, j)'
    BY DEF Ordered
  <2>1. i \in 1 .. Len(log)
    BY <1>1, Logged
  <2>2. CASE j \in 1 .. Len(log)
    BY <1>1, <2>1, <2>2, Logged DEF ClockInv, Ordered, SelfOrder, Own
  <2>3. CASE j = Len(log) + 1
    BY <1>1, <2>1, <2>3, Logged DEF ClockInv, Current, SelfOrder, Own
  <2> QED
    BY <1>1, <2>2, <2>3, Logged
<1> QED
  BY <1>1, <1>2, <1>3, <1>4, Logged DEF ClockInv

\* A shadow event is not one of the process's own.
LEMMA ShadowStep ==
    ASSUME ClockTypeOK, ClockInv, NEW c \in SnapshotClocks, ShadowAsk(c) PROVE ClockInv'
<1> DEFINE e == Event("shadow", c, 0)
<1>1. /\ e.kind = "shadow" /\ e.run = restarts /\ restarts' = restarts
      /\ log' = Append(log, e) /\ clock' = clock
  BY DEF ShadowAsk, Event
<1> HIDE DEF e
<1>2. \A i \in 1 .. Len(log') : Own(i)' => i \in 1 .. Len(log) /\ Own(i) /\ log'[i] = log[i]
  BY <1>1, Logged DEF Own
<1>3. OnlySelf'
  BY <1>1, <1>2 DEF ClockInv, OnlySelf
<1>4. Current'
  BY <1>1, <1>2, Logged DEF ClockInv, Current
<1>5. Ordered'
  BY <1>1, <1>2, Logged DEF ClockInv, Ordered, SelfOrder
<1> QED
  BY <1>1, <1>3, <1>4, <1>5, Logged DEF ClockInv

\* A new process has no event of its own yet.
LEMMA RestartStep == ASSUME ClockTypeOK, ClockInv, Restart PROVE ClockInv'
<1>1. log' = log /\ restarts' = restarts + 1 /\ clock' = Zero /\ restarts \in Nat
  BY ClockAssumption DEF Restart, ClockTypeOK
<1>2. OnlySelf'
  BY <1>1 DEF ClockInv, OnlySelf, Own, Zero
<1>3. Current'
  BY <1>1 DEF ClockInv, Past, Current
<1>4. Ordered'
  BY <1>1 DEF ClockInv, Ordered, SelfOrder, HappenedBefore, Own
<1>5. Past'
  BY <1>1 DEF ClockInv, Past
<1> QED
  BY <1>2, <1>3, <1>4, <1>5 DEF ClockInv

\* ClockInv is inductive.
LEMMA ClockInvariant == ClockSpec => [](ClockTypeOK /\ ClockInv)
<1>1. ClockInit => ClockInv
  BY DEF ClockInit, ClockInv, OnlySelf, Current, Ordered, Past, Zero
<1>2. ClockTypeOK /\ ClockInv /\ [ClockNext]_clockVars => ClockInv'
  <2> SUFFICES ASSUME ClockTypeOK, ClockInv, [ClockNext]_clockVars PROVE ClockInv'
    OBVIOUS
  <2>1. ASSUME UNCHANGED clockVars PROVE ClockInv'
    BY <2>1 DEF clockVars, ClockInv, OnlySelf, Current, AskedSince, Ordered, SelfOrder,
       HappenedBefore, Own, Past
  <2> QED
    BY <2>1, AskStep, AnswerStep, ShadowStep, RestartStep DEF ClockNext, RealtimeAsk, OfflineAsk
<1> QED
  BY <1>1, <1>2, ClockTypeCorrect, PTL DEF ClockSpec

\* compare() on two of the process's own clocks is the order of its counter.
LEMMA SelfDecides ==
    ASSUME ClockTypeOK, ClockInv, NEW i \in 1 .. Len(log), NEW j \in 1 .. Len(log),
           Own(i), Own(j)
    PROVE  /\ log[i].clock[Self] < log[j].clock[Self] => InOrder(log[i].clock, log[j].clock)
           /\ log[i].clock[Self] = log[j].clock[Self]
                => Compare(log[i].clock, log[j].clock) = "equal"
<1> DEFINE c == log[i].clock
           d == log[j].clock
<1>1. /\ c \in Clocks /\ d \in Clocks /\ c[Self] \in Nat /\ d[Self] \in Nat
      /\ \A p \in Peers \ {Self} : c[p] = 0 /\ d[p] = 0
  BY EventType DEF ClockInv, OnlySelf
<1> HIDE DEF c, d
<1>2. ASSUME c[Self] < d[Self] PROVE Before(c, d)
  <2>1. \A p \in Peers : c[p] <= d[p]
    <3> SUFFICES ASSUME NEW p \in Peers PROVE c[p] <= d[p]
      OBVIOUS
    <3>1. p # Self => c[p] = 0 /\ d[p] = 0
      BY <1>1
    <3> QED
      BY <1>1, <1>2, <3>1
  <2>2. c # d
    BY <1>1, <1>2
  <2> QED
    BY <2>1, <2>2 DEF Before
<1>3. ASSUME c[Self] = d[Self] PROVE c = d
  <2>1. \A p \in Peers : c[p] = d[p]
    BY <1>1, <1>3
  <2> QED
    BY <1>1, <2>1 DEF Clocks
<1> QED
  BY <1>1, <1>2, <1>3, CompareIsBefore DEF InOrder, c, d

\* Restarts, answers and shadow events do not disturb the order of the asks of
\* one run.
THEOREM AsksOrdered == ClockSpec => []AskOrder
<1>1. ClockTypeOK /\ ClockInv => AskOrder
  <2> SUFFICES ASSUME ClockTypeOK, ClockInv,
                      NEW i \in 1 .. Len(log), NEW j \in 1 .. Len(log),
                      EarlierAsk(i, j), log[i].run = log[j].run
               PROVE  InOrder(log[i].clock, log[j].clock)
    BY DEF AskOrder
  <2>1. HappenedBefore(i, j) /\ Own(i) /\ Own(j) /\ i < j
    BY DEF HappenedBefore, EarlierAsk, Own
  <2> QED
    BY <2>1, SelfDecides DEF ClockInv, Ordered, SelfOrder
<1> QED
  BY <1>1, ClockInvariant, PTL

\* The verdicts "before" and "equal" together are the pointwise order.
LEMMA NotAfter ==
    ASSUME NEW c \in Clocks, NEW d \in Clocks
    PROVE  Compare(c, d) \in {"before", "equal"} <=> \A p \in Peers : c[p] <= d[p]
<1>1. c = d => \A p \in Peers : c[p] <= d[p]
  BY DEF Clocks
<1>2. Compare(c, d) \in {"before", "equal"} <=> Before(c, d) \/ c = d
  BY CompareIsBefore
<1> QED
  BY <1>1, <1>2 DEF Before

\* In a run of a process compare() tells what happened before what, whichever
\* thread asked and however late an answer came.
THEOREM CompareCausal == ClockSpec => []CompareIsCausal
<1>1. ClockTypeOK /\ ClockInv => CompareIsCausal
  BY SelfDecides DEF CompareIsCausal, ClockInv, Ordered, SelfOrder
<1> QED
  BY <1>1, ClockInvariant, PTL

\* merge() of types.py is the least clock above two clocks of the log, as
\* compare() sees it.
THEOREM MergeLub == ClockSpec => []MergeIsLub
<1>1. ClockTypeOK => MergeIsLub
  <2> SUFFICES ASSUME ClockTypeOK, NEW i \in 1 .. Len(log), NEW j \in 1 .. Len(log)
               PROVE  LET c == log[i].clock
                          d == log[j].clock
                          m == Merge(c, d)
                      IN  /\ Compare(c, m) \in {"before", "equal"}
                          /\ Compare(d, m) \in {"before", "equal"}
                          /\ \A k \in 1 .. Len(log) :
                               LET u == log[k].clock
                               IN  Compare(c, u) \in {"before", "equal"}
                                   /\ Compare(d, u) \in {"before", "equal"}
                                     => Compare(m, u) \in {"before", "equal"}
    BY DEF MergeIsLub
  <2> DEFINE c == log[i].clock
             d == log[j].clock
             m == Merge(c, d)
  <2>1. c \in Clocks /\ d \in Clocks
    BY EventType DEF Events
  <2> HIDE DEF c, d
  <2>2. m \in Clocks
    BY <2>1, MergeIsLeast
  <2> HIDE DEF m
  <2>3. Compare(c, m) \in {"before", "equal"} /\ Compare(d, m) \in {"before", "equal"}
    BY <2>1, <2>2, MergeIsLeast, NotAfter DEF m
  <2>4. ASSUME NEW k \in 1 .. Len(log),
               Compare(c, log[k].clock) \in {"before", "equal"},
               Compare(d, log[k].clock) \in {"before", "equal"}
        PROVE  Compare(m, log[k].clock) \in {"before", "equal"}
    <3> DEFINE u == log[k].clock
    <3>1. u \in Clocks
      BY EventType DEF Events
    <3> HIDE DEF u
    <3>2. \A p \in Peers : c[p] <= u[p] /\ d[p] <= u[p]
      BY <2>1, <2>4, <3>1, NotAfter DEF u
    <3>3. \A p \in Peers : m[p] <= u[p]
      BY <2>1, <3>1, <3>2, MergeIsLeast DEF m
    <3> QED
      BY <2>2, <3>1, <3>3, NotAfter DEF u
  <2> QED
    BY <2>3, <2>4 DEF c, d, m
<1> QED
  BY <1>1, ClockTypeCorrect, PTL
================================================================================
