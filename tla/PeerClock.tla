------------------------------- MODULE PeerClock -------------------------------
(* async_comm/types.py VectorClock, and the clocks PeerComm and ShadowComm put *)
(* on the events they log.  A clock is a function of Peers; 0 stands for a     *)
(* peer that is not in the dict.                                              *)
(*                                                                            *)
(* The local clock lives in the PeerComm object and is written nowhere, so a  *)
(* restart forgets it.  An ask goes to the peer with its clock in the payload *)
(* (realtime path) or from the outbox, whose message is built from the event's *)
(* payload only (sync path).                                                  *)
EXTENDS Naturals, Sequences

CONSTANTS Peers, Self,
          MaxEvents,    \* bound on logged events
          MaxRestarts,  \* bound on restarts of the process
          SnapshotClocks \* clocks a peer snapshot may carry

ASSUME ClockAssumption == /\ Self \in Peers
                          /\ MaxEvents \in Nat
                          /\ MaxRestarts \in Nat
                          /\ SnapshotClocks \subseteq [Peers -> Nat]

Clocks == [Peers -> Nat]
Zero   == [p \in Peers |-> 0]
--------------------------------------------------------------------------------
Increment(c, p) == [c EXCEPT ![p] = @ + 1]

\* Mutant: the other clock wins wherever it knows the peer.
Merge_OtherWins(c, d) == [p \in Peers |-> IF d[p] > 0 THEN d[p] ELSE c[p]]

Merge(c, d) == [p \in Peers |-> IF c[p] >= d[p] THEN c[p] ELSE d[p]]

Less(c, d) == \E p \in Peers : c[p] < d[p]

Compare(c, d) ==
    IF ~Less(c, d) /\ ~Less(d, c) THEN "equal"
    ELSE IF ~Less(d, c) THEN "before"
    ELSE IF ~Less(c, d) THEN "after"
    ELSE "concurrent"

\* The reference definition: the product order.
Before(c, d) == c # d /\ \A p \in Peers : c[p] <= d[p]
--------------------------------------------------------------------------------
VARIABLES clock,     \* PeerComm._local_vector_clock
          log,       \* the asks and answers of the conversation log, in order
          remote,    \* remote[i] : the clock the peer logged for ask i
          restarts

clockVars == <<clock, log, remote, restarts>>

\* re is the ask that an answer is to; 0 for an ask.
Event(kind, c, re) == [kind |-> kind, clock |-> c, run |-> restarts, re |-> re]

ClockInit == /\ clock = Zero
             /\ log = <<>>
             /\ remote = <<>>
             /\ restarts = 0

\* Mutant: the offline path does not increment.
Ask_RealtimeOnly(seen) ==
    /\ Len(log) < MaxEvents
    /\ clock'  = IF seen THEN Increment(clock, Self) ELSE clock
    /\ log'    = Append(log, Event("ask", clock', 0))
    /\ remote' = Append(remote, IF seen THEN clock' ELSE Zero)
    /\ UNCHANGED restarts

\* PeerComm._create_ask_event, then either _realtime_ask (the payload carries
\* the clock) or the outbox and _push_outbox (it does not, and the receiver's
\* _event_from_message falls back to an empty clock).
Ask(seen) ==
    /\ Len(log) < MaxEvents
    /\ clock'  = Increment(clock, Self)
    /\ log'    = Append(log, Event("ask", clock', 0))
    /\ remote' = Append(remote, IF seen THEN clock' ELSE Zero)
    /\ UNCHANGED restarts

RealtimeAsk == Ask(TRUE)
OfflineAsk  == Ask(FALSE)

\* The asks of this run that went the realtime path and have no answer yet.
Unanswered ==
    {i \in 1 .. Len(log) :
        /\ log[i].kind = "ask" /\ log[i].run = restarts /\ remote[i] # Zero
        /\ \A j \in 1 .. Len(log) : log[j].re # i}

\* Mutant: the answer carries an empty clock.
Answer_NoClock ==
    /\ Len(log) < MaxEvents
    /\ \E i \in Unanswered : log' = Append(log, Event("answer", Zero, i))
    /\ remote' = Append(remote, Zero)
    /\ UNCHANGED <<clock, restarts>>

\* PeerComm._realtime_ask, after the fetch: the answer is logged with the local
\* clock as it is then.  Other threads may have asked since.
Answer ==
    /\ Len(log) < MaxEvents
    /\ \E i \in Unanswered : log' = Append(log, Event("answer", clock, i))
    /\ remote' = Append(remote, Zero)
    /\ UNCHANGED <<clock, restarts>>

\* ShadowComm._create_ask_event: the clock is the peer snapshot's, and the local
\* one is not incremented.
ShadowAsk(c) ==
    /\ Len(log) < MaxEvents
    /\ log'    = Append(log, Event("shadow", c, 0))
    /\ remote' = Append(remote, Zero)
    /\ UNCHANGED <<clock, restarts>>

\* A new process builds a PeerComm with an empty clock; the log is on disk.
Restart == /\ restarts < MaxRestarts
           /\ restarts' = restarts + 1
           /\ clock' = Zero
           /\ UNCHANGED <<log, remote>>

ClockNext == \/ RealtimeAsk
             \/ OfflineAsk
             \/ Answer
             \/ \E c \in SnapshotClocks : ShadowAsk(c)
             \/ Restart

ClockSpec == ClockInit /\ [][ClockNext]_clockVars
--------------------------------------------------------------------------------
(* Properties *)

Events == [kind : {"ask", "answer", "shadow"}, clock : Clocks, run : 0 .. MaxRestarts, re : Nat]

ClockTypeOK == /\ clock \in Clocks
               /\ log \in Seq(Events)
               /\ remote \in Seq(Clocks)
               /\ Len(remote) = Len(log)
               /\ restarts \in 0 .. MaxRestarts

EarlierAsk(i, j) == i < j /\ log[i].kind = "ask" /\ log[j].kind = "ask"

InOrder(c, d) == Compare(c, d) = "before" /\ Compare(d, c) = "after"

\* compare() of types.py sorts the asks of one process causally, whatever path
\* each took and whatever shadow events lie between them.
AskOrder ==
    \A i, j \in 1 .. Len(log) :
        EarlierAsk(i, j) /\ log[i].run = log[j].run
            => InOrder(log[i].clock, log[j].clock)

\* The version vector orders the asks of a peer in the log ("version vector, for
\* causal order", head of types.py), whichever process logged them.
LogOrder ==
    \A i, j \in 1 .. Len(log) :
        EarlierAsk(i, j) => InOrder(log[i].clock, log[j].clock)

\* An event with a clock of this process: an ask or a realtime answer.
Own(i) == log[i].kind \in {"ask", "answer"}

\* What the process did in a run: i is earlier than j when it asked something
\* after i, be it j itself.  Between two asks nothing moves the clock.
HappenedBefore(i, j) == \E k \in i + 1 .. j : log[k].kind = "ask" /\ log[k].run = log[j].run

\* compare() tells what happened before what in a run (types.py:43-49: "before"
\* is the causal predecessor, "concurrent" a conflict): it says "before" of an
\* event exactly when another ask lies between, "equal" when none does, and
\* never "concurrent"; whichever thread asked and however late an answer came.
CompareIsCausal ==
    \A i, j \in 1 .. Len(log) :
        i < j /\ Own(i) /\ Own(j) /\ log[i].run = log[j].run =>
            IF HappenedBefore(i, j) THEN InOrder(log[i].clock, log[j].clock)
                                    ELSE Compare(log[i].clock, log[j].clock) = "equal"

\* On every pair of clocks an event carries, merge() is the least clock that is
\* not before either.
MergeIsLub ==
    \A i, j \in 1 .. Len(log) :
        LET c == log[i].clock
            d == log[j].clock
            m == Merge(c, d)
        IN  /\ Compare(c, m) \in {"before", "equal"}
            /\ Compare(d, m) \in {"before", "equal"}
            /\ \A k \in 1 .. Len(log) :
                 LET u == log[k].clock
                 IN  Compare(c, u) \in {"before", "equal"}
                     /\ Compare(d, u) \in {"before", "equal"}
                       => Compare(m, u) \in {"before", "equal"}

\* An ask reaches the peer with the clock it was created with ("events carry the
\* current version vector", head of peer_comm.py).
RemoteKeepsClock ==
    \A i \in 1 .. Len(log) : log[i].kind = "ask" => remote[i] = log[i].clock
================================================================================
