--------------------------- MODULE AgentTransport ---------------------------
(***************************************************************************)
(* WSClient of the agent (transport/ws_client.py): the queue every service *)
(* of the agent puts its messages in, the loop run() that connects again   *)
(* and again, and the send loops that drain the queue.                     *)
(*                                                                         *)
(* asyncio.gather does not cancel a send loop when the receive loop of its *)
(* connection raises, so loops of earlier connections live on, waiting in  *)
(* the queue's FIFO of getters in front of the loop of the new connection. *)
(* The agent has one thread: what happens between two awaits is one step.  *)
(***************************************************************************)
EXTENDS SequencesExt

CONSTANTS
    Msg,         \* messages; one that was sent may be put in the queue again
    Periodic,    \* those the heartbeat service puts there every interval
    Loop,        \* slots for the send loops that may exist at a time
    NoLoop,      \* "no connection"
    NoMsg        \* "no message in hand"

ASSUME PeriodicAssumption == Periodic \subseteq Msg
ASSUME NoLoopAssumption == NoLoop \notin Loop
ASSUME NoMsgAssumption == NoMsg \notin Msg

VARIABLES
    cur,         \* the send loop of the connection run() has; NoLoop while it waits
    ws,          \* that connection: open, broken, or closed cleanly by the server
    loopPc,      \* where each send loop stands
    held,        \* the message each has taken and not yet sent
    getters,     \* loops that wait in Queue.get, in the order they came
    queue,       \* WSClient._send_queue
    accepted,    \* history: messages put and not yet sent, in the order of put
    requeued     \* history: those of them whose send failed

loopVars == <<loopPc, held, getters, queue>>
vars == <<cur, ws, loopVars, accepted, requeued>>

\* "new": created by gather, not yet run; "parked": in getters; "woken": its
\* getter has a result, it looks at the queue next; "sending": in ws.send.
LoopPhase == {"done", "new", "parked", "woken", "sending"}

TypeOK ==
    /\ cur \in Loop \cup {NoLoop}
    /\ ws \in {"open", "broken", "closed"}
    /\ loopPc \in [Loop -> LoopPhase]
    /\ held \in [Loop -> Msg \cup {NoMsg}]
    /\ \A l \in Loop : held[l] # NoMsg <=> loopPc[l] = "sending"
    /\ getters \in Seq(Loop)
    /\ ToSet(getters) = {l \in Loop : loopPc[l] = "parked"}
    /\ queue \in Seq(Msg)
    /\ accepted \in Seq(Msg)
    /\ requeued \in SUBSET Msg

Init ==
    /\ cur = NoLoop
    /\ ws = "closed"
    /\ loopPc = [l \in Loop |-> "done"]
    /\ held = [l \in Loop |-> NoMsg]
    /\ getters = <<>>
    /\ queue = <<>>
    /\ accepted = <<>>
    /\ requeued = {}

-----------------------------------------------------------------------------
(* asyncio.Queue.                                                          *)

\* get: the head of the queue, or a place at the end of the getters.
Get(l) ==
    IF queue = <<>>
    THEN /\ loopPc' = [loopPc EXCEPT ![l] = "parked"]
         /\ held' = [held EXCEPT ![l] = NoMsg]
         /\ getters' = Append(getters, l)
         /\ UNCHANGED queue
    ELSE /\ loopPc' = [loopPc EXCEPT ![l] = "sending"]
         /\ held' = [held EXCEPT ![l] = Head(queue)]
         /\ queue' = Tail(queue)
         /\ UNCHANGED getters

\* put wakes the first getter; another loop may still take the message first.
PutAnd(m, pc) ==
    /\ queue' = Append(queue, m)
    /\ loopPc' = IF getters = <<>> THEN pc ELSE [pc EXCEPT ![Head(getters)] = "woken"]
    /\ getters' = IF getters = <<>> THEN getters ELSE Tail(getters)

(* Variant: a new message goes to the front of the queue.                  *)
PutFirst(m) ==
    /\ m \notin ToSet(accepted)
    /\ IF getters = <<>>
       THEN UNCHANGED <<loopPc, getters>>
       ELSE /\ loopPc' = [loopPc EXCEPT ![Head(getters)] = "woken"]
            /\ getters' = Tail(getters)
    /\ queue' = <<m>> \o queue
    /\ accepted' = Append(accepted, m)
    /\ UNCHANGED <<cur, ws, held, requeued>>

(* WSClient.send.  The bound of the model: one copy of each message at a   *)
(* time; in the code an outage leaves a heartbeat per interval.            *)
Put(m) ==
    /\ m \notin ToSet(accepted)
    /\ PutAnd(m, loopPc)
    /\ accepted' = Append(accepted, m)
    /\ UNCHANGED <<cur, ws, held, requeued>>

-----------------------------------------------------------------------------
(* WSClient.run and the two loops it gathers.                              *)

Connect(l) ==
    /\ cur = NoLoop
    /\ loopPc[l] = "done"
    /\ cur' = l
    /\ ws' = "open"
    /\ loopPc' = [loopPc EXCEPT ![l] = "new"]
    /\ UNCHANGED <<held, getters, queue, accepted, requeued>>

(* A network error or a missed pong breaks the connection; a server that   *)
(* goes away closes it.                                                    *)
ConnectionEnds ==
    /\ cur # NoLoop
    /\ ws = "open"
    /\ ws' \in {"broken", "closed"}
    /\ UNCHANGED <<cur, loopVars, accepted, requeued>>

SendLoopGets(l) ==
    /\ loopPc[l] \in {"new", "woken"}
    /\ Get(l)
    /\ UNCHANGED <<cur, ws, accepted, requeued>>

Alive(l) == l = cur /\ ws = "open"

\* The history without m, which is in it once.
Without(s, m) == RemoveAt(s, CHOOSE i \in DOMAIN s : s[i] = m)

(* The loop goes on to Queue.get without an await in between.              *)
SendSucceeds(l) ==
    /\ loopPc[l] = "sending"
    /\ Alive(l)
    /\ accepted' = Without(accepted, held[l])
    /\ requeued' = requeued \ {held[l]}
    /\ Get(l)
    /\ UNCHANGED <<cur, ws>>

(* Variant: the message is not put back.                                   *)
SendFailsForgets(l) ==
    /\ loopPc[l] = "sending"
    /\ loopPc' = [loopPc EXCEPT ![l] = "done"]
    /\ held' = [held EXCEPT ![l] = NoMsg]
    /\ UNCHANGED <<cur, ws, getters, queue, accepted, requeued>>

(* Variant: the message goes back to its place, past Queue.put.            *)
SendFailsInPlace(l) ==
    /\ loopPc[l] = "sending"
    /\ queue' = <<held[l]>> \o queue
    /\ loopPc' = [loopPc EXCEPT ![l] = "done"]
    /\ held' = [held EXCEPT ![l] = NoMsg]
    /\ requeued' = requeued \cup {held[l]}
    /\ UNCHANGED <<cur, ws, getters, accepted>>

(* Variant: the loop does not break, it sends again.                       *)
SendFailsAgain(l) ==
    /\ loopPc[l] = "sending"
    /\ requeued' = requeued \cup {held[l]}
    /\ LET q == Append(queue, held[l])
       IN  queue' = Tail(q) /\ held' = [held EXCEPT ![l] = Head(q)]
    /\ UNCHANGED <<cur, ws, loopPc, getters, accepted>>

(* ws.send raises, on a lost connection or, since every exception is       *)
(* caught, on a live one: the message goes to the end of the queue and the *)
(* loop is over.  On a live connection no other loop takes its place until *)
(* run() connects again.                                                   *)
SendFails(l) ==
    /\ loopPc[l] = "sending"
    /\ PutAnd(held[l], [loopPc EXCEPT ![l] = "done"])
    /\ held' = [held EXCEPT ![l] = NoMsg]
    /\ requeued' = requeued \cup {held[l]}
    /\ UNCHANGED <<cur, ws, accepted>>

(* Variant: the send loop is cancelled as well, not the rest of its state. *)
RunCancelsSendLoop ==
    /\ cur # NoLoop
    /\ ws # "open"
    /\ cur' = NoLoop
    /\ loopPc' = [loopPc EXCEPT ![cur] = "done"]
    /\ UNCHANGED <<ws, held, getters, queue, accepted, requeued>>

(* The receive loop raises on a broken connection, and gather with it.  On *)
(* a closed one it returns, and gather goes on to wait for the send loop.  *)
RunGivesUp ==
    /\ cur # NoLoop
    /\ ws = "broken" \/ (ws = "closed" /\ loopPc[cur] = "done")
    /\ cur' = NoLoop
    /\ UNCHANGED <<ws, loopVars, accepted, requeued>>

(* The process ends; queue and loops are in memory.                        *)
Restart ==
    /\ cur' = NoLoop
    /\ ws' = "closed"
    /\ loopPc' = [l \in Loop |-> "done"]
    /\ held' = [l \in Loop |-> NoMsg]
    /\ getters' = <<>>
    /\ queue' = <<>>
    /\ accepted' = <<>>
    /\ requeued' = {}

SendLoopStep(l) == SendLoopGets(l) \/ SendSucceeds(l) \/ SendFails(l)

Next ==
    \/ \E m \in Msg : Put(m)
    \/ \E l \in Loop : Connect(l) \/ SendLoopStep(l)
    \/ ConnectionEnds
    \/ RunGivesUp
    \/ Restart

Spec == Init /\ [][Next]_vars

(* The event loop runs every ready task, ws.send ends one way or the       *)
(* other, and the heartbeat service never stops.  Nothing else makes       *)
(* messages, and nothing makes the server accept a connection.             *)
Fairness ==
    /\ \A l \in Loop : WF_vars(SendLoopStep(l))
    /\ WF_vars(RunGivesUp)
    /\ \A m \in Periodic : WF_vars(Put(m))

FairSpec == Spec /\ Fairness

-----------------------------------------------------------------------------
(* The loops that take messages out and put them back neither lose nor     *)
(* duplicate one: a message that was put and not sent is in the queue or   *)
(* in one loop's hand, once.                                               *)
Places(m) ==
    Cardinality({i \in DOMAIN queue : queue[i] = m})
        + Cardinality({l \in Loop : held[l] = m})

EachInOnePlace ==
    \A m \in Msg : Places(m) = IF m \in ToSet(accepted) THEN 1 ELSE 0

(* No message lies in the queue while every loop that could take it        *)
(* sleeps, although loops of dead connections are woken first: for each    *)
(* message there is a loop that will look.                                 *)
NoMissedWakeup ==
    getters # <<>> =>
        Len(queue) <= Cardinality({l \in Loop : loopPc[l] = "woken"})

(* Messages leave in the order they were put, except that one is overtaken *)
(* when its send has failed or a loop of a dead connection holds it.       *)
Late(i) ==
    \/ accepted[i] \in requeued
    \/ \E l \in Loop \ {cur} : held[l] = accepted[i]

OvertakenOnlyAfterFailure ==
    [][\A l \in Loop : SendSucceeds(l) =>
           \A i \in DOMAIN accepted :
               held[l] \in ToSet(SubSeq(accepted, i + 1, Len(accepted))) => Late(i)]_vars

(* If the connection stays up in the end and its send loop does not end on *)
(* an exception, every message is sent, through all the loops of earlier   *)
(* connections that try it first.                                          *)
Served == cur # NoLoop /\ ws = "open" /\ loopPc[cur] # "done"

EveryMessageIsSent ==
    \A m \in Msg :
        <>[]Served
            => [](m \in ToSet(accepted) => <>(m \notin ToSet(accepted)))

(* A connection that is gone is given up, also when the server closed it   *)
(* while the send loop was asleep: the next heartbeat wakes the loop.      *)
LostConnectionIsGivenUp ==
    (cur # NoLoop /\ ws # "open") ~> (cur = NoLoop)
=============================================================================
