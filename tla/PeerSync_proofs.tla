----------------------------- MODULE PeerSync_proofs -----------------------------
(* Theorems about PeerSync, for every set of peers and requests, and for asker *)
(* and daemon in one process or in two.                                        *)
EXTENDS PeerSync, TLAPS

BoxOK == /\ disk \in [Msgs -> Status]
         /\ cache \in [Procs -> [Msgs -> Status]]

\* Who wrote what: what is called delivered, on file, in a cache or by a result
\* that is still to be marked, was accepted.
Honest == /\ \A m \in Msgs : disk[m] = "delivered" => m \in Accepted
          /\ \A q \in Procs : \A m \in Msgs :
               cache[q][m] = "delivered" => m \in Accepted
          /\ sync.at = "mark" => sync.left \subseteq Accepted \cap lines

\* A message is appended once: before, no copy of the statuses knows it.
Once == /\ call \in Calls
        /\ \A m \in Msgs : disk[m] # "none" => m \in lines
        /\ \A q \in Procs : \A m \in Msgs : cache[q][m] # "none" => m \in lines
        /\ \A r \in Requests : First(r) \in lines => r \in done \/ call = At("shadow", r)
        /\ \A q \in Questions : <<q, "shadow">> \in lines => q \in done
        /\ call # NoCall => call.req \notin done

SyncInv == BoxOK /\ Honest /\ Once
--------------------------------------------------------------------------------
\* The messages of a request are messages, and differ from those of the others.
LEMMA RequestMsgs ==
    ASSUME NEW r \in Requests
    PROVE  /\ First(r) \in Msgs
           /\ r \in Questions => <<r, "shadow">> \in Msgs
           /\ \A s \in Requests : First(s) = First(r) => s = r
           /\ \A q \in Questions : <<q, "shadow">> # First(r)
  BY DEF First, Msgs, Requests

LEMMA CallFields ==
    ASSUME NEW r \in Requests, NEW s \in Requests
    PROVE  /\ At("queue", r) # At("shadow", s) /\ At("queue", r) # NoCall
           /\ At("deliver", r) # At("shadow", s) /\ At("deliver", r) # NoCall
           /\ At("fetch", r) # At("shadow", s) /\ At("fetch", r) # NoCall
           /\ At("shadow", r) # NoCall /\ NoCall # At("shadow", s)
           /\ At("shadow", r) = At("shadow", s) => r = s
           /\ At("queue", r).req = r /\ At("shadow", r).req = r
           /\ At("deliver", r).req = r /\ At("fetch", r).req = r
           /\ At("queue", r) \in Calls /\ At("shadow", r) \in Calls
           /\ At("deliver", r) \in Calls /\ At("fetch", r) \in Calls
           /\ NoCall \in Calls
<1>1. /\ At("queue", r).at = "queue" /\ At("shadow", s).at = "shadow" /\ NoCall.at = "idle"
      /\ At("deliver", r).at = "deliver" /\ At("fetch", r).at = "fetch"
      /\ At("shadow", r).at = "shadow"
      /\ At("queue", r).req = r /\ At("shadow", r).req = r /\ At("shadow", s).req = s
      /\ At("deliver", r).req = r /\ At("fetch", r).req = r
  BY DEF At, NoCall
<1>2. /\ At("queue", r) \in Calls /\ At("shadow", r) \in Calls
      /\ At("deliver", r) \in Calls /\ At("fetch", r) \in Calls
      /\ NoCall \in Calls
  BY DEF At, Calls
<1>3. "queue" # "shadow" /\ "deliver" # "shadow" /\ "fetch" # "shadow" /\ "idle" # "shadow"
      /\ "queue" # "idle" /\ "deliver" # "idle" /\ "fetch" # "idle"
  OBVIOUS
<1> QED
  BY <1>1, <1>2, <1>3

\* What append_outbox does to the copies of the statuses.
LEMMA AppendBox ==
    ASSUME BoxOK, NEW q \in Procs, NEW m \in Msgs, Append(q, m)
    PROVE  /\ BoxOK'
           /\ lines' = lines \cup {m}
           /\ disk' = cache'[q]
           /\ disk' = [cache[q] EXCEPT ![m] = "pending_delivery"]
           /\ \A p \in Procs \ {q} : cache'[p] = cache[p]
<1>1. cache' = [cache EXCEPT ![q] = [cache[q] EXCEPT ![m] = "pending_delivery"]]
  BY DEF Append, BoxOK
<1>2. disk' = [cache[q] EXCEPT ![m] = "pending_delivery"]
  BY <1>1 DEF Append, BoxOK
<1>3. [cache[q] EXCEPT ![m] = "pending_delivery"] \in [Msgs -> Status]
  BY DEF BoxOK, Status
<1> QED
  BY <1>1, <1>2, <1>3 DEF BoxOK, Append

\* An append of a message that no copy knew keeps what is honest, and loses
\* no status the appending process knew.
LEMMA AppendStep ==
    ASSUME BoxOK, Honest, NEW m \in Msgs, Append(Asker, m), m \notin lines, Once,
           UNCHANGED <<received, held, sync>>
    PROVE  /\ BoxOK' /\ Honest'
           /\ \A n \in Msgs : disk'[n] # "none" => n \in lines'
           /\ \A q \in Procs : \A n \in Msgs : cache'[q][n] # "none" => n \in lines'
           /\ \A n \in Msgs : disk[n] # "none" =>
                disk'[n] \in {disk[n], "delivered"} \/ Overwritten(n)
<1>0. Asker \in Procs
  BY DEF Procs
<1>1. /\ BoxOK' /\ lines' = lines \cup {m} /\ disk' = cache'[Asker]
      /\ disk' = [cache[Asker] EXCEPT ![m] = "pending_delivery"]
      /\ \A p \in Procs \ {Asker} : cache'[p] = cache[p]
  BY <1>0, AppendBox
<1>2. disk'[m] = "pending_delivery" /\ \A n \in Msgs \ {m} : disk'[n] = cache[Asker][n]
  BY <1>0, <1>1 DEF BoxOK
<1>3. \A q \in Procs : cache'[q] = disk' \/ cache'[q] = cache[q]
  BY <1>1
<1>4. Accepted' = Accepted
  BY DEF Accepted
<1>5. \A n \in Msgs : disk'[n] = "delivered" => n \in Accepted
  BY <1>0, <1>2 DEF Honest
<1>6. Honest'
  <2>1. sync'.at = "mark" => sync'.left \subseteq Accepted' \cap lines'
    BY <1>1, <1>4 DEF Honest
  <2> QED
    BY <1>3, <1>4, <1>5, <2>1 DEF Honest
<1>7. \A n \in Msgs : disk'[n] # "none" => n \in lines'
  BY <1>0, <1>1, <1>2 DEF Once
<1>8. \A q \in Procs : \A n \in Msgs : cache'[q][n] # "none" => n \in lines'
  BY <1>1, <1>3, <1>7 DEF Once
<1>9. ASSUME NEW n \in Msgs, disk[n] # "none"
      PROVE  disk'[n] \in {disk[n], "delivered"} \/ Overwritten(n)
  <2>1. n # m
    BY <1>9 DEF Once
  <2> QED
    BY <1>0, <1>1, <1>2, <2>1 DEF Overwritten
<1> QED
  BY <1>1, <1>6, <1>7, <1>8, <1>9

\* What marking one message as delivered does.
LEMMA MarkStep ==
    ASSUME BoxOK, Honest, Once, NEW m \in Msgs, Mark(m)
    PROVE  /\ BoxOK' /\ Honest'
           /\ \A n \in Msgs : disk'[n] # "none" => n \in lines'
           /\ \A q \in Procs : \A n \in Msgs : cache'[q][n] # "none" => n \in lines'
           /\ \A n \in Msgs : disk[n] # "none" =>
                disk'[n] \in {disk[n], "delivered"} \/ Overwritten(n)
<1>0. Daemon \in Procs
  BY DEF Procs
<1>1. cache' = [cache EXCEPT ![Daemon] = [cache[Daemon] EXCEPT ![m] = "delivered"]]
  BY <1>0 DEF Mark, BoxOK
<1>2. [cache[Daemon] EXCEPT ![m] = "delivered"] \in [Msgs -> Status]
  BY <1>0 DEF BoxOK, Status
<1>3. /\ BoxOK' /\ disk' = cache'[Daemon]
      /\ disk' = [cache[Daemon] EXCEPT ![m] = "delivered"]
      /\ \A p \in Procs \ {Daemon} : cache'[p] = cache[p]
  BY <1>0, <1>1, <1>2 DEF Mark, BoxOK
<1>4. disk'[m] = "delivered" /\ \A n \in Msgs \ {m} : disk'[n] = cache[Daemon][n]
  BY <1>0, <1>3 DEF BoxOK
<1>5. Accepted' = Accepted /\ lines' = lines
  BY DEF Mark, Accepted, net
<1>6. m \in Accepted /\ m \in lines
  BY DEF Honest, Mark
<1>7. \A q \in Procs : cache'[q] = disk' \/ cache'[q] = cache[q]
  BY <1>3
<1>8. sync'.at = "mark" => sync'.left \subseteq sync.left
  BY DEF Mark, Sync
<1>9. Honest'
  <2>1. \A n \in Msgs : disk'[n] = "delivered" => n \in Accepted
    BY <1>0, <1>4, <1>6 DEF Honest
  <2>2. sync.left \subseteq Accepted \cap lines
    BY DEF Honest, Mark
  <2> QED
    BY <1>5, <1>7, <1>8, <2>1, <2>2 DEF Honest
<1>10. \A n \in Msgs : disk'[n] # "none" => n \in lines'
  BY <1>0, <1>4, <1>5, <1>6 DEF Once
<1>11. \A q \in Procs : \A n \in Msgs : cache'[q][n] # "none" => n \in lines'
  BY <1>5, <1>7, <1>10 DEF Once
<1>12. \A n \in Msgs : disk[n] # "none" =>
         disk'[n] \in {disk[n], "delivered"} \/ Overwritten(n)
  BY <1>0, <1>3, <1>4 DEF Overwritten
<1> QED
  BY <1>3, <1>9, <1>10, <1>11, <1>12
--------------------------------------------------------------------------------
\* The calls of the asker that do not append.
Calm == /\ UNCHANGED <<box, sync>>
        /\ received \subseteq received' /\ held \subseteq held'

\* What leaves the copies of the statuses alone keeps them honest.
LEMMA CalmHonest ==
    ASSUME BoxOK, Honest, Calm
    PROVE  BoxOK' /\ Honest'
<1>1. Accepted \subseteq Accepted' /\ disk' = disk /\ cache' = cache
      /\ lines' = lines /\ sync' = sync
  BY DEF Calm, Accepted, box
<1> QED
  BY <1>1 DEF BoxOK, Honest

\* A call that starts, goes on or ends without an append.
LEMMA CalmOnce ==
    ASSUME Once, UNCHANGED box, call' \in Calls,
           done \subseteq done',
           \A r \in Requests : call = At("shadow", r) =>
              call' = call \/ r \in done',
           call' # NoCall => call'.req \notin done'
    PROVE  Once'
<1>1. disk' = disk /\ cache' = cache /\ lines' = lines
  BY DEF box
<1>2. \A r \in Requests : First(r) \in lines' => r \in done' \/ call' = At("shadow", r)
  BY <1>1 DEF Once
<1> QED
  BY <1>1, <1>2 DEF Once

\* The mailbox stays typed and honest, and each message is appended once.
THEOREM SyncInvariant == Spec => []SyncInv
<1>1. Init => SyncInv
  <2> SUFFICES ASSUME Init PROVE SyncInv
    OBVIOUS
  <2>1. BoxOK
    BY DEF Init, BoxOK, Status
  <2>2. Honest
    BY DEF Init, Honest, NoSync, Procs
  <2>3. Once
    BY DEF Init, Once, Calls, Procs
  <2> QED
    BY <2>1, <2>2, <2>3 DEF SyncInv
<1>2. SyncInv /\ [Next]_vars => SyncInv'
  <2> SUFFICES ASSUME BoxOK, Honest, Once, [Next]_vars PROVE BoxOK' /\ Honest' /\ Once'
    BY DEF SyncInv
  <2>1. ASSUME NEW r \in Requests, Begin(r) PROVE BoxOK' /\ Honest' /\ Once'
    <3>1. Calm
      BY <2>1 DEF Begin, Calm, net, daemon
    <3>2. call = NoCall /\ call' \in {At("deliver", r), At("queue", r)} /\ r \notin done
          /\ done' = done /\ UNCHANGED box
      BY <2>1 DEF Begin
    <3>3. Once'
      BY <3>2, CalmOnce, CallFields DEF Requests
    <3> QED
      BY <3>1, <3>3, CalmHonest
  <2>2. ASSUME NEW r \in Requests, Deliver(r) PROVE BoxOK' /\ Honest' /\ Once'
    <3>1. Calm
      BY <2>2 DEF Deliver, Calm, daemon
    <3>2. /\ call = At("deliver", r) /\ UNCHANGED box
          /\ \/ call' = At("fetch", r) /\ done' = done
             \/ call' = NoCall /\ done' = done \cup {r}
      BY <2>2 DEF Deliver
    <3>3. r \notin done
      BY <3>2, CallFields DEF Once
    <3>4. Once'
      BY <3>2, <3>3, CalmOnce, CallFields
    <3> QED
      BY <3>1, <3>4, CalmHonest
  <2>3. ASSUME NEW r \in Questions, Fetch(r) PROVE BoxOK' /\ Honest' /\ Once'
    <3>1. Calm /\ r \in Requests
      BY <2>3 DEF Fetch, Calm, net, daemon, Requests
    <3>2. call = At("fetch", r) /\ UNCHANGED box /\ call' = NoCall /\ done' = done \cup {r}
      BY <2>3 DEF Fetch
    <3>3. Once'
      BY <3>1, <3>2, CalmOnce, CallFields
    <3> QED
      BY <3>1, <3>3, CalmHonest
  <2>4. ASSUME NEW r \in Requests, Queue(r) PROVE BoxOK' /\ Honest' /\ Once'
    <3>1. First(r) \in Msgs /\ call = At("queue", r) /\ Append(Asker, First(r))
          /\ UNCHANGED <<received, held, sync>>
      BY <2>4, RequestMsgs DEF Queue, net, daemon
    <3>2. r \notin done /\ First(r) \notin lines
      BY <3>1, CallFields DEF Once
    <3>3. /\ BoxOK' /\ Honest'
          /\ \A n \in Msgs : disk'[n] # "none" => n \in lines'
          /\ \A q \in Procs : \A n \in Msgs : cache'[q][n] # "none" => n \in lines'
      BY <3>1, <3>2, AppendStep
    <3>4. lines' = lines \cup {First(r)}
      BY <3>1 DEF Append
    <3>5. \/ r \in Questions /\ call' = At("shadow", r) /\ done' = done
          \/ call' = NoCall /\ done' = done \cup {r}
      BY <2>4 DEF Queue
    <3>6. \A s \in Requests : First(s) \in lines' => s \in done' \/ call' = At("shadow", s)
      BY <3>1, <3>4, <3>5, RequestMsgs, CallFields DEF Once
    <3>7. \A q \in Questions : <<q, "shadow">> \in lines' => q \in done'
      BY <3>4, <3>5, RequestMsgs DEF Once
    <3>8. call' \in Calls /\ (call' # NoCall => call'.req \notin done')
      BY <3>2, <3>5, CallFields
    <3> QED
      BY <3>3, <3>6, <3>7, <3>8 DEF Once
  <2>5. ASSUME NEW r \in Questions, Shadow(r) PROVE BoxOK' /\ Honest' /\ Once'
    <3>0. r \in Requests
      BY DEF Requests
    <3>1. <<r, "shadow">> \in Msgs /\ call = At("shadow", r) /\ Append(Asker, <<r, "shadow">>)
          /\ UNCHANGED <<received, held, sync>>
      BY <2>5, <3>0, RequestMsgs DEF Shadow, net, daemon
    <3>2. r \notin done /\ <<r, "shadow">> \notin lines
      BY <3>0, <3>1, CallFields DEF Once
    <3>3. /\ BoxOK' /\ Honest'
          /\ \A n \in Msgs : disk'[n] # "none" => n \in lines'
          /\ \A q \in Procs : \A n \in Msgs : cache'[q][n] # "none" => n \in lines'
      BY <3>1, <3>2, AppendStep
    <3>4. lines' = lines \cup {<<r, "shadow">>}
      BY <3>1 DEF Append
    <3>5. call' = NoCall /\ done' = done \cup {r}
      BY <2>5 DEF Shadow
    <3>6. \A s \in Requests : First(s) \in lines' => s \in done' \/ call' = At("shadow", s)
      BY <3>0, <3>1, <3>4, <3>5, RequestMsgs, CallFields DEF Once
    <3>7. \A q \in Questions : <<q, "shadow">> \in lines' => q \in done'
      BY <3>4, <3>5 DEF Once
    <3>8. call' \in Calls /\ (call' # NoCall => call'.req \notin done')
      BY <3>0, <3>5, CallFields
    <3> QED
      BY <3>3, <3>6, <3>7, <3>8 DEF Once
  <2>6. ASSUME NEW p \in Peers, Push(p) PROVE BoxOK' /\ Honest' /\ Once'
    <3>1. /\ UNCHANGED <<box, call, done>>
          /\ received \subseteq received' /\ held \subseteq held'
      BY <2>6 DEF Push, asker
    <3>2. PICK got \in SUBSET Pending(p) : \E kept \in SUBSET (Pending(p) \ got) :
           \E ids \in SUBSET got, success \in BOOLEAN :
             /\ Result(p, Pending(p), got, kept, ids, success)
             /\ received' = received \cup got
             /\ held'     = held \cup kept
             /\ LET left == Successful(Pending(p), ids, success)
                IN  sync' = IF left = {} THEN Sync("pull", p)
                            ELSE [at |-> "mark", peer |-> p, left |-> left]
      BY <2>6 DEF Push
    <3>3. PICK kept \in SUBSET (Pending(p) \ got), ids \in SUBSET got, success \in BOOLEAN :
             /\ Result(p, Pending(p), got, kept, ids, success)
             /\ received' = received \cup got
             /\ held'     = held \cup kept
             /\ LET left == Successful(Pending(p), ids, success)
                IN  sync' = IF left = {} THEN Sync("pull", p)
                            ELSE [at |-> "mark", peer |-> p, left |-> left]
      BY <3>2
    <3>4. Successful(Pending(p), ids, success) \subseteq got \cup kept
      BY <3>3 DEF Successful, Result
    <3>5. Pending(p) \subseteq lines /\ lines' = lines
      BY <3>1 DEF Pending, box
    <3>6. sync'.at = "mark" => sync'.left \subseteq Accepted' \cap lines'
      BY <3>3, <3>4, <3>5 DEF Accepted, Sync
    <3>7. Accepted \subseteq Accepted' /\ disk' = disk /\ cache' = cache
      BY <3>1 DEF Accepted, box
    <3>8. BoxOK' /\ Honest'
      BY <3>6, <3>7 DEF BoxOK, Honest
    <3>9. Once'
      BY <3>1, CalmOnce DEF Once
    <3> QED
      BY <3>8, <3>9
  <2>7. ASSUME NEW m \in Msgs, Mark(m) PROVE BoxOK' /\ Honest' /\ Once'
    <3>1. UNCHANGED <<call, done, lines>>
      BY <2>7 DEF Mark, asker
    <3>2. /\ BoxOK' /\ Honest'
          /\ \A n \in Msgs : disk'[n] # "none" => n \in lines'
          /\ \A q \in Procs : \A n \in Msgs : cache'[q][n] # "none" => n \in lines'
      BY <2>7, MarkStep
    <3> QED
      BY <3>1, <3>2 DEF Once
  <2>8. ASSUME NEW p \in Peers, Pull(p) \/ Reconcile(p) PROVE BoxOK' /\ Honest' /\ Once'
    <3>1. UNCHANGED <<box, received, held, call, done>> /\ sync'.at # "mark"
      BY <2>8 DEF Pull, Reconcile, net, asker, Sync, NoSync
    <3>2. Accepted' = Accepted /\ disk' = disk /\ cache' = cache
      BY <3>1 DEF Accepted, box
    <3>3. Once'
      BY <3>1, CalmOnce DEF Once
    <3> QED
      BY <3>1, <3>2, <3>3 DEF BoxOK, Honest
  <2>9. ASSUME Heartbeat PROVE BoxOK' /\ Honest' /\ Once'
    <3>1. Calm /\ UNCHANGED <<box, call, done>>
      BY <2>9 DEF Heartbeat, Calm, net, asker
    <3>2. Once'
      BY <3>1, CalmOnce DEF Once
    <3> QED
      BY <3>1, <3>2, CalmHonest
  <2>10. ASSUME NEW q \in Procs, Restart(q) PROVE BoxOK' /\ Honest' /\ Once'
    <3>1. \A r \in Procs : cache'[r] = cache[r] \/ cache'[r] = disk
      BY <2>10 DEF Restart, BoxOK
    <3>2. cache' \in [Procs -> [Msgs -> Status]]
      BY <2>10 DEF Restart, BoxOK
    <3>3. disk' = disk /\ lines' = lines /\ Accepted' = Accepted
      BY <2>10 DEF Restart, net, Accepted
    <3>4. sync' = sync \/ sync'.at # "mark"
      BY <2>10 DEF Restart, daemon, NoSync
    <3>5. BoxOK' /\ Honest'
      BY <3>1, <3>2, <3>3, <3>4 DEF BoxOK, Honest
    <3>6. \A r \in Procs : \A m \in Msgs : cache'[r][m] # "none" => m \in lines'
      BY <3>1, <3>3 DEF Once
    <3>7. \/ call' = call /\ done' = done
          \/ call' = NoCall /\ done' = IF call = NoCall THEN done ELSE done \cup {call.req}
      BY <2>10 DEF Restart, asker
    <3>8. \A r \in Requests : First(r) \in lines' => r \in done' \/ call' = At("shadow", r)
      BY <3>3, <3>7, CallFields DEF Once
    <3>9. \A r \in Questions : <<r, "shadow">> \in lines' => r \in done'
      BY <3>3, <3>7 DEF Once
    <3>10. call' \in Calls /\ (call' # NoCall => call'.req \notin done')
      BY <3>7 DEF Once, Calls
    <3> QED
      BY <3>3, <3>5, <3>6, <3>8, <3>9, <3>10 DEF Once
  <2>11. ASSUME NEW p \in Peers, Flip(p) \/ Expire(p) PROVE BoxOK' /\ Honest' /\ Once'
    <3>1. Calm /\ UNCHANGED <<box, call, done>>
      BY <2>11 DEF Flip, Expire, Calm, net, asker, daemon
    <3>2. Once'
      BY <3>1, CalmOnce DEF Once
    <3> QED
      BY <3>1, <3>2, CalmHonest
  <2>12. ASSUME NEW m \in Msgs, Reply(m) \/ Relay(m) PROVE BoxOK' /\ Honest' /\ Once'
    <3>1. Calm /\ UNCHANGED <<box, call, done>>
      BY <2>12 DEF Reply, Relay, Calm, asker, daemon
    <3>2. Once'
      BY <3>1, CalmOnce DEF Once
    <3> QED
      BY <3>1, <3>2, CalmHonest
  <2>13. CASE UNCHANGED vars
    <3>1. Calm /\ UNCHANGED <<box, call, done>>
      BY <2>13 DEF vars, Calm, box
    <3>2. Once'
      BY <3>1, CalmOnce DEF Once
    <3> QED
      BY <3>1, <3>2, CalmHonest
  <2> QED
    BY <2>1, <2>2, <2>3, <2>4, <2>5, <2>6, <2>7, <2>8, <2>9, <2>10, <2>11, <2>12, <2>13
    DEF Next, AskerNext, DaemonNext
<1> QED
  BY <1>1, <1>2, PTL DEF Spec

\* Whoever overwrites the status file, and wherever a push is interrupted, a
\* message it calls delivered has arrived or was accepted by the transport.
THEOREM DeliveryHonest == Spec => []DeliveredAccepted
<1>1. SyncInv => DeliveredAccepted
  BY DEF SyncInv, Honest, DeliveredAccepted
<1> QED
  BY <1>1, SyncInvariant, PTL

\* A status on file is lost to an overwrite by a process that knew another, and
\* to nothing else.
THEOREM QueuedKept == Spec => KeptUnlessOverwritten
<1> DEFINE Step == \A m \in Msgs : disk[m] # "none" =>
                     disk'[m] \in {disk[m], "delivered"} \/ Overwritten(m)
<1>1. SyncInv /\ [Next]_vars => [Step]_vars
  <2> SUFFICES ASSUME BoxOK, Honest, Once, [Next]_vars PROVE Step \/ UNCHANGED vars
    BY DEF SyncInv
  <2>1. ASSUME NEW r \in Requests, Queue(r) PROVE Step
    <3>1. First(r) \in Msgs /\ call = At("queue", r) /\ Append(Asker, First(r))
          /\ UNCHANGED <<received, held, sync>>
      BY <2>1, RequestMsgs DEF Queue, net, daemon
    <3>2. r \notin done /\ First(r) \notin lines
      BY <3>1, CallFields DEF Once
    <3> QED
      BY <3>1, <3>2, AppendStep
  <2>2. ASSUME NEW r \in Questions, Shadow(r) PROVE Step
    <3>0. r \in Requests
      BY DEF Requests
    <3>1. <<r, "shadow">> \in Msgs /\ call = At("shadow", r) /\ Append(Asker, <<r, "shadow">>)
          /\ UNCHANGED <<received, held, sync>>
      BY <2>2, <3>0, RequestMsgs DEF Shadow, net, daemon
    <3>2. r \notin done /\ <<r, "shadow">> \notin lines
      BY <3>0, <3>1, CallFields DEF Once
    <3> QED
      BY <3>1, <3>2, AppendStep
  <2>3. ASSUME NEW m \in Msgs, Mark(m) PROVE Step
    BY <2>3, MarkStep
  <2>4. ASSUME disk' = disk PROVE Step
    BY <2>4
  <2> HIDE DEF Step
  <2> QED
    BY <2>1, <2>2, <2>3, <2>4
    DEF Next, AskerNext, DaemonNext, Begin, Deliver, Fetch, Push, Pull, Reconcile, Heartbeat,
        Restart, Flip, Expire, Reply, Relay, box
<1>2. KeptUnlessOverwritten <=> [][Step]_vars
  BY DEF KeptUnlessOverwritten
<1> QED
  BY <1>1, <1>2, SyncInvariant, PTL DEF Spec
================================================================================
