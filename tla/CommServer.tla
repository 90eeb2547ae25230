------------------------------- MODULE CommServer -------------------------------
(* comm/service.py: the server's record of asks and answers (CommEvent) and of *)
(* the members' heartbeats (CommPeerStatus).  A request reads its row in one   *)
(* database session, without a row lock, and commits later; requests run on    *)
(* the threads of the server.  A commit writes the columns whose value the     *)
(* request has changed against what it read, and no others.                    *)
EXTENDS Naturals, FiniteSets

CONSTANTS Workers,   \* request threads
          Members,
          Asks, Answers,  \* event ids: each is a fresh UUID, used once
          To,             \* To[a] : the peer that ask a is put to
          None

Ids == Asks \cup Answers

Kinds == {"ask", "realtime_answer", "simulated_answer"}

VARIABLES kind,      \* kind[e] : event_type, or None before e is recorded
          parent,    \* in_reply_to, or None
          status,    \* status[e] : the status column
          revised,   \* answers whose payload carries a revised_answer
          beat,      \* beat[m] : the row of m: none, fresh (<= 120 s) or old
          online,    \* online[m] : its online column
          rejected,  \* members whose heartbeat request failed
          req        \* req[w] : what request w has read

vars == <<kind, parent, status, revised, beat, online, rejected, req>>

events == <<kind, parent, status, revised>>
peers  == <<beat, online, rejected>>

Life == INSTANCE MessageLifecycle WITH OutIds <- Asks, InIds <- Answers

ASSUME CommAssumption == /\ Asks \cap Answers = {}
                         /\ To \in [Asks -> Members]
                         /\ None \notin Ids \cup Kinds
                         /\ IsFiniteSet(Ids)
                         /\ IsFiniteSet(Workers)

Idle      == [op |-> "idle"]
Requests  == {Idle}
        \cup [op : {"ask"}, id : Asks, re : Ids \cup {None}, online : BOOLEAN]
        \cup [op : {"answer"}, id : Ids, seen : Life!Statuses, realtime : BOOLEAN]
        \cup [op : {"reconcile"}, id : Answers, seen : Life!Statuses]
        \cup [op : {"beat"}, member : Members, known : BOOLEAN, online : BOOLEAN]

Init == /\ kind     = [e \in Ids |-> None]
        /\ parent   = [e \in Ids |-> None]
        /\ status   = [e \in Ids |-> Life!Unknown]
        /\ revised  = {}
        /\ beat     = [m \in Members |-> "none"]
        /\ online   = [m \in Members |-> FALSE]
        /\ rejected = {}
        /\ req      = [w \in Workers |-> Idle]

Recorded == {e \in Ids : kind[e] # None}

\* _is_peer_online
Online(m) == online[m] /\ beat[m] = "fresh"

Reads(w, r)  == req[w] = Idle /\ req' = [req EXCEPT ![w] = r]
Commits(w)   == req' = [req EXCEPT ![w] = Idle]
--------------------------------------------------------------------------------
(* Events *)

\* record_ask: is the peer online?  (A session of its own.)
AskCheck(w, a, re) ==
    /\ a \notin Recorded
    /\ \A v \in Workers : ~(req[v].op = "ask" /\ req[v].id = a)
    /\ re \in Recorded \cup {None}
    /\ Reads(w, [op |-> "ask", id |-> a, re |-> re, online |-> Online(To[a])])
    /\ UNCHANGED <<events, peers>>

\* record_ask, continued: insert the event.
AskCommit(w) ==
    /\ req[w].op = "ask"
    /\ kind'   = [kind EXCEPT ![req[w].id] = "ask"]
    /\ parent' = [parent EXCEPT ![req[w].id] = req[w].re]
    /\ status' = [status EXCEPT ![req[w].id] =
                    IF req[w].online THEN "delivered" ELSE "pending_delivery"]
    /\ Commits(w)
    /\ UNCHANGED <<revised, peers>>

\* Bound: an answer is begun only when an id is left for it.
IdLeft == Cardinality({v \in Workers : req[v].op = "answer"})
            < Cardinality(Answers \ Recorded)

\* record_answer: read the event that is answered, of whatever type.
AnswerRead(w, e, realtime) ==
    /\ e \in Recorded
    /\ IdLeft
    /\ Reads(w, [op |-> "answer", id |-> e, seen |-> status[e], realtime |-> realtime])
    /\ UNCHANGED <<events, peers>>

\* Mutant: a realtime answer moves a pending ask one step only.
AnswerMoves_OneStep(seen, realtime) ==
    IF seen = "pending_delivery" THEN "delivered"
    ELSE IF seen = "delivered" /\ realtime THEN "confirmed"
    ELSE seen

\* Mutant: a simulated answer leaves the status alone.
AnswerMoves_RealtimeOnly(seen, realtime) ==
    IF realtime /\ seen \in {"pending_delivery", "delivered"} THEN "confirmed" ELSE seen

\* The status of the answered event after an answer.
AnswerMoves(seen, realtime) ==
    IF realtime /\ seen \in {"pending_delivery", "delivered"} THEN "confirmed"
    ELSE IF seen = "pending_delivery" THEN "delivered"
    ELSE seen

\* record_answer, continued: insert answer n and write the status, if it has
\* changed since the read.
AnswerCommit(w, n) ==
    /\ req[w].op = "answer"
    /\ n \notin Recorded
    /\ LET r   == req[w]
           new == AnswerMoves(r.seen, r.realtime)
       IN  /\ kind'   = [kind EXCEPT ![n] =
                           IF r.realtime THEN "realtime_answer" ELSE "simulated_answer"]
           /\ parent' = [parent EXCEPT ![n] = r.id]
           /\ status' = [e \in Ids |->
                           IF e = n
                           THEN IF r.realtime THEN "confirmed" ELSE "pending_delivery"
                           ELSE IF e = r.id /\ new # r.seen THEN new
                           ELSE status[e]]
    /\ Commits(w)
    /\ UNCHANGED <<revised, peers>>

\* Mutant: the verdict is accepted whatever the status.
ReconcileRead_Again(w, e) ==
    /\ kind[e] = "simulated_answer"
    /\ Reads(w, [op |-> "reconcile", id |-> e, seen |-> status[e]])
    /\ UNCHANGED <<events, peers>>

\* update_reconciliation: only a simulated answer that has no verdict yet.
ReconcileRead(w, e) ==
    /\ kind[e] = "simulated_answer"
    /\ status[e] \notin Life!Terminal
    /\ Reads(w, [op |-> "reconcile", id |-> e, seen |-> status[e]])
    /\ UNCHANGED <<events, peers>>

\* update_reconciliation, continued: write the verdict, and the revised text.
ReconcileCommit(w, verdict, text) ==
    /\ req[w].op = "reconcile"
    /\ status'  = [status EXCEPT ![req[w].id] = verdict]
    /\ revised' = IF verdict = "revised" /\ text THEN revised \cup {req[w].id} ELSE revised
    /\ Commits(w)
    /\ UNCHANGED <<kind, parent, peers>>
--------------------------------------------------------------------------------
(* Peer status *)

\* heartbeat: look the row up.
BeatRead(w, m) ==
    /\ Reads(w, [op |-> "beat", member |-> m, known |-> beat[m] # "none",
                 online |-> online[m]])
    /\ UNCHANGED <<events, peers>>

\* Mutant: the online column is written for a new row only.
BeatCommit_NewOnly(w) ==
    /\ req[w].op = "beat"
    /\ beat'   = [beat EXCEPT ![req[w].member] = "fresh"]
    /\ online' = IF req[w].known THEN online ELSE [online EXCEPT ![req[w].member] = TRUE]
    /\ Commits(w)
    /\ UNCHANGED <<events, rejected>>

\* heartbeat, continued: a row that was not there is inserted, which fails when
\* another request has inserted it; the online column of a known row is written
\* when it was read as false.
BeatCommit(w) ==
    /\ req[w].op = "beat"
    /\ LET r == req[w]
           m == r.member
       IN  IF ~r.known /\ beat[m] # "none"
           THEN rejected' = rejected \cup {m} /\ UNCHANGED <<beat, online>>
           ELSE /\ beat'   = [beat EXCEPT ![m] = "fresh"]
                /\ online' = IF r.known /\ r.online THEN online
                             ELSE [online EXCEPT ![m] = TRUE]
                /\ UNCHANGED rejected
    /\ Commits(w)
    /\ UNCHANGED events

\* HEARTBEAT_TIMEOUT_SECONDS pass without a heartbeat.
Age(m) ==
    /\ beat[m] = "fresh"
    /\ beat' = [beat EXCEPT ![m] = "old"]
    /\ UNCHANGED <<events, online, rejected, req>>

\* list_peers, on an idle worker: mark the old rows offline, in one statement.
ListPeers(w) ==
    /\ req[w] = Idle
    /\ online' = [m \in Members |-> online[m] /\ beat[m] # "old"]
    /\ UNCHANGED <<events, beat, rejected, req>>

Next == \/ \E w \in Workers :
             \/ \E a \in Asks, re \in Ids \cup {None} : AskCheck(w, a, re)
             \/ AskCommit(w)
             \/ \E e \in Ids, realtime \in BOOLEAN : AnswerRead(w, e, realtime)
             \/ \E n \in Answers : AnswerCommit(w, n)
             \/ \E e \in Answers : ReconcileRead(w, e)
             \/ \E v \in Life!Terminal, text \in BOOLEAN : ReconcileCommit(w, v, text)
             \/ \E m \in Members : BeatRead(w, m)
             \/ BeatCommit(w)
             \/ ListPeers(w)
        \/ \E m \in Members : Age(m)

\* A request that has read its row comes to its commit.
Finish(w) == \/ AskCommit(w)
             \/ \E n \in Answers : AnswerCommit(w, n)
             \/ \E v \in Life!Terminal, text \in BOOLEAN : ReconcileCommit(w, v, text)
             \/ BeatCommit(w)

Spec == Init /\ [][Next]_vars

FairSpec == Spec /\ \A w \in Workers : WF_vars(Finish(w))
--------------------------------------------------------------------------------
(* Threads: get_thread *)

\* Climb[n] : the event reached from e by n steps up the reply chain.
Climb == LET up[n \in 0 .. Cardinality(Ids)] ==
               [e \in Ids |-> IF n = 0 THEN e
                              ELSE IF parent[up[n - 1][e]] \in Recorded
                                   THEN parent[up[n - 1][e]] ELSE up[n - 1][e]]
         IN  up

Root(e) == Climb[Cardinality(Ids)][e]

\* The root and the events that reply to it.
Thread(e) == {f \in Recorded : f = Root(e) \/ parent[f] = Root(e)}
--------------------------------------------------------------------------------
(* Properties *)

TypeOK == /\ kind \in [Ids -> Kinds \cup {None}]
          /\ parent \in [Ids -> Ids \cup {None}]
          /\ status \in [Ids -> Life!Known]
          /\ revised \subseteq Answers
          /\ beat \in [Members -> {"none", "fresh", "old"}]
          /\ online \in [Members -> BOOLEAN]
          /\ rejected \subseteq Members
          /\ req \in [Workers -> Requests]

AnswerKinds == {"realtime_answer", "simulated_answer"}

\* An event with an answer of any kind is not pending, however requests overlap
\* (record_answer: pending_delivery becomes delivered or confirmed).
AnsweredNotPending ==
    \A n \in Recorded : kind[n] \in AnswerKinds => status[parent[n]] # "pending_delivery"

\* A request commits to event e, whose status another one has changed since the
\* request read it.
Overtaken(w, e) ==
    /\ req[w].op \in {"answer", "reconcile"} /\ req[w].id = e /\ req[w].seen # status[e]
    /\ req'[w] = Idle

\* Every recorded status moves by the mailbox's transition table, and a terminal
\* one is final (docstring of CommEvent), however answers and verdicts overlap:
\* only a request that another has overtaken may break that.
StatusMoves ==
    [][\A e \in Ids :
          \/ status[e] \in {Life!Unknown, status'[e]}
          \/ <<status[e], status'[e]>> \in Life!Transitions
          \/ \E w \in Workers : Overtaken(w, e)]_vars

\* An ask with a realtime answer is confirmed (record_answer); what requests that
\* overlap can do to it is at most to leave it delivered, and that only when
\* there is a simulated answer to it as well.
AnsweredConfirmed ==
    \A n \in Recorded :
        kind[n] = "realtime_answer" /\ kind[parent[n]] = "ask" =>
            \/ status[parent[n]] = "confirmed"
            \/ /\ status[parent[n]] = "delivered"
               /\ \E m \in Recorded : kind[m] = "simulated_answer" /\ parent[m] = parent[n]

\* A revised text belongs to the verdict "revised" (update_reconciliation).  Two
\* verdicts at once violate it: one leaves its text under the other's status.
RevisedHasVerdict == \A e \in revised : status[e] = "revised"

\* A member with a heartbeat of the last 120 s is listed as online ("judged by
\* last_heartbeat, <= 120 s is online", docstring of list_peers).  A sweep that
\* comes between the two halves of a heartbeat violates it.
FreshIsOnline == \A m \in Members : beat[m] = "fresh" => online[m]

\* But a member that goes on beating is found online again and again, whatever
\* sweeps and other heartbeats come between the two halves of each beat.
BeatingIsOnline ==
    \A m \in Members :
        ([]<><<\E w \in Workers : BeatRead(w, m)>>_vars) => []<>Online(m)

\* heartbeat() creates or updates, it never fails (docstring of heartbeat).  Two
\* first heartbeats of a member at once violate it.
BeatAccepted == rejected = {}

\* get_thread finds the thread of any event: the event is in it ("starting from
\* any event, up to the root ask, down to all replies").
ThreadHasEvent == \A e \in Recorded : e \in Thread(e)
================================================================================
