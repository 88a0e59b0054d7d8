--------------------------- MODULE CommandDelivery ---------------------------
(***************************************************************************)
(* The life of a remote command: the three endpoints that create one       *)
(* (dispatch_command, wipe_device, enable_bitlocker), the redelivery of    *)
(* pending commands when an agent connects, the agent that runs it, and    *)
(* the handling of its result.  The connections are ConnectionRegistry's.  *)
(*                                                                         *)
(* A row is visible to other sessions from its commit on; what a request   *)
(* or a handler has sent but not committed is in its own variables.        *)
(***************************************************************************)
EXTENDS ConnectionRegistry, Sequences

CONSTANTS
    Cmd,          \* commands administrators ask for, one request each
    deviceOfCmd,  \* the device each is for
    MaxUplink     \* bound on the results under way on one connection

ASSUME DeviceOfCmdAssumption == deviceOfCmd \in [Cmd -> Device]
ASSUME MaxUplinkAssumption == MaxUplink \in Nat \ {0}

VARIABLES
    kind,         \* the endpoint that is asked for each command
    request,      \* where the request that creates each command stands
    reqWorker,    \* the worker that serves it
    status,       \* Command.status as committed; "absent" before
    toDrain,      \* pending commands a setting-up handler has still to send
    marked,       \* those it sent, to be committed as "sent"
    toAgent,      \* command_dispatch messages on the way down, per connection
    running,      \* messages whose task the agent has started, per device
    outbox,       \* command_result messages in the agent's queue, per device
    toServer,     \* those on the way up, per connection
    waited,       \* history: commands whose row has been "pending"
    wired,        \* history: commands a send has succeeded for
    runs,         \* history: times the agent started each, 2 for "more"
    succeeded     \* history: commands a task of which succeeded

serverVars == <<kind, request, reqWorker, status, toDrain, marked>>
wireVars == <<toAgent, running, outbox, toServer>>
historyVars == <<waited, wired, runs, succeeded>>
vars == <<registryVars, serverVars, wireVars, historyVars>>

\* A message is sent by the endpoint or by the redelivery to a new connection.
Kind == {"dispatch", "wipe", "bitlocker"}
Message == [cmd : Cmd, via : {"request", "drain"}]
Result == [msg : Message, is : {"chunk", "success", "failure"}]
Status == {"absent", "pending", "sent", "completed", "failed"}
Terminal == {"completed", "failed"}

\* Only dispatch_command sends the correlation id stored with the row; the
\* others send the primary key.
Correlated(m) == m.via = "request" /\ kind[m.cmd] = "dispatch"

\* enable_bitlocker's own message carries no command_type.
Understood(m) == ~(m.via = "request" /\ kind[m.cmd] = "bitlocker")

\* Output is streamed by the shell commands dispatch_command sends.
Streams(m) == kind[m.cmd] = "dispatch"

TypeOK ==
    /\ RegistryTypeOK
    /\ kind \in [Cmd -> Kind]
    /\ request \in [Cmd -> {"new", "unsent", "delivered", "inserted", "over"}]
    /\ reqWorker \in [Cmd -> Worker]
    /\ status \in [Cmd -> Status]
    /\ toDrain \in [Conn -> SUBSET Cmd]
    /\ marked \in [Conn -> SUBSET Cmd]
    /\ toAgent \in [Conn -> SUBSET Message]
    /\ running \in [Device -> SUBSET Message]
    /\ outbox \in [Device -> SUBSET Result]
    /\ toServer \in [Conn -> Seq(Result)]
    /\ waited \in SUBSET Cmd
    /\ wired \in SUBSET Cmd
    /\ runs \in [Cmd -> 0 .. 2]
    /\ succeeded \in SUBSET Cmd

Init ==
    /\ RegistryInit
    /\ kind \in [Cmd -> Kind]
    /\ request = [m \in Cmd |-> "new"]
    /\ reqWorker \in [Cmd -> Worker]
    /\ status = [m \in Cmd |-> "absent"]
    /\ toDrain = [c \in Conn |-> {}]
    /\ marked = [c \in Conn |-> {}]
    /\ toAgent = [c \in Conn |-> {}]
    /\ running = [d \in Device |-> {}]
    /\ outbox = [d \in Device |-> {}]
    /\ toServer = [c \in Conn |-> <<>>]
    /\ waited = {}
    /\ wired = {}
    /\ runs = [m \in Cmd |-> 0]
    /\ succeeded = {}

-----------------------------------------------------------------------------
(* AgentConnection.send: it succeeds while the link is up, and may succeed *)
(* while the server has not noticed that it is down; the message is lost.  *)
Send(c, m, sent) ==
    /\ IF link[c] THEN sent
       ELSE pc[c] = "failed" => ~sent
    /\ toAgent' = IF link[c] THEN [toAgent EXCEPT ![c] = @ \cup {m}] ELSE toAgent
    /\ wired' = IF sent THEN wired \cup {m.cmd} ELSE wired

(* manager.send_to_agent in worker w.                                      *)
SendToAgent(w, m, sent) ==
    LET c == agents[w][deviceOfCmd[m.cmd]]
    IN  IF c = NoConn THEN ~sent /\ UNCHANGED <<toAgent, wired>>
                      ELSE Send(c, m, sent)

(* dispatch_command up to the send: the row is flushed, not committed.     *)
DispatchSends(m, w) ==
    /\ kind[m] = "dispatch"
    /\ request[m] = "new"
    /\ \E sent \in BOOLEAN :
        /\ SendToAgent(w, [cmd |-> m, via |-> "request"], sent)
        /\ request' = [request EXCEPT ![m] = IF sent THEN "delivered" ELSE "unsent"]
    /\ reqWorker' = [reqWorker EXCEPT ![m] = w]
    /\ UNCHANGED <<registryVars, kind, status, toDrain, marked,
                   running, outbox, toServer, waited, runs, succeeded>>

DispatchCommits(m) ==
    /\ request[m] \in {"unsent", "delivered"}
    /\ LET sent == request[m] = "delivered"
       IN  /\ status' = [status EXCEPT ![m] = IF sent THEN "sent" ELSE "pending"]
           /\ waited' = IF sent THEN waited ELSE waited \cup {m}
    /\ request' = [request EXCEPT ![m] = "over"]
    /\ UNCHANGED <<registryVars, kind, reqWorker, toDrain, marked, wireVars,
                   wired, runs, succeeded>>

(* wipe_device and enable_bitlocker commit the row before they send.       *)
InsertPending(m, w) ==
    /\ kind[m] \in {"wipe", "bitlocker"}
    /\ request[m] = "new"
    /\ request' = [request EXCEPT ![m] = "inserted"]
    /\ reqWorker' = [reqWorker EXCEPT ![m] = w]
    /\ status' = [status EXCEPT ![m] = "pending"]
    /\ waited' = waited \cup {m}
    /\ UNCHANGED <<registryVars, kind, toDrain, marked, wireVars, wired, runs, succeeded>>

(* They ignore whether the send succeeded and leave the status alone.      *)
InsertedSends(m) ==
    /\ request[m] = "inserted"
    /\ \E sent \in BOOLEAN :
        SendToAgent(reqWorker[m], [cmd |-> m, via |-> "request"], sent)
    /\ request' = [request EXCEPT ![m] = "over"]
    /\ UNCHANGED <<registryVars, kind, reqWorker, status, toDrain, marked,
                   running, outbox, toServer, waited, runs, succeeded>>

(* The request raises or its client goes away before the last commit or    *)
(* send; get_db rolls the session back.                                    *)
RequestFails(m) ==
    /\ request[m] \in {"unsent", "delivered", "inserted"}
    /\ request' = [request EXCEPT ![m] = "over"]
    /\ UNCHANGED <<registryVars, kind, reqWorker, status, toDrain, marked,
                   wireVars, historyVars>>

-----------------------------------------------------------------------------
(* The handler of one connection.                                          *)

AgentConnects(c, w) ==
    /\ ConnectAgent(c, w)
    /\ UNCHANGED <<serverVars, wireVars, historyVars>>

(* Variant: commands already sent are selected again.                      *)
HandlerSelectsUnanswered(c) ==
    /\ MarkOnline(c)
    /\ toDrain' = [toDrain EXCEPT ![c] =
           {m \in Cmd : /\ deviceOfCmd[m] = deviceOf[c]
                        /\ status[m] \in {"pending", "sent"}}]
    /\ UNCHANGED <<kind, request, reqWorker, status, marked, wireVars, historyVars>>

(* The commit of is_online and the select of the pending commands.         *)
HandlerSelectsPending(c) ==
    /\ MarkOnline(c)
    /\ toDrain' = [toDrain EXCEPT ![c] =
           {m \in Cmd : deviceOfCmd[m] = deviceOf[c] /\ status[m] = "pending"}]
    /\ UNCHANGED <<kind, request, reqWorker, status, marked, wireVars, historyVars>>

(* Variant: the result of the send is ignored.                             *)
HandlerRedeliversBlindly(c, m) ==
    /\ pc[c] = "online"
    /\ m \in toDrain[c]
    /\ toDrain' = [toDrain EXCEPT ![c] = @ \ {m}]
    /\ \E sent \in BOOLEAN : Send(c, [cmd |-> m, via |-> "drain"], sent)
    /\ marked' = [marked EXCEPT ![c] = @ \cup {m}]
    /\ UNCHANGED <<registryVars, kind, request, reqWorker, status,
                   running, outbox, toServer, waited, runs, succeeded>>

(* Variant: the status is never set after the send.                        *)
HandlerRedeliversUnmarked(c, m) ==
    /\ pc[c] = "online"
    /\ m \in toDrain[c]
    /\ toDrain' = [toDrain EXCEPT ![c] = @ \ {m}]
    /\ \E sent \in BOOLEAN : Send(c, [cmd |-> m, via |-> "drain"], sent)
    /\ UNCHANGED <<registryVars, kind, request, reqWorker, status, marked,
                   running, outbox, toServer, waited, runs, succeeded>>

HandlerRedelivers(c, m) ==
    /\ pc[c] = "online"
    /\ m \in toDrain[c]
    /\ toDrain' = [toDrain EXCEPT ![c] = @ \ {m}]
    /\ \E sent \in BOOLEAN :
        /\ Send(c, [cmd |-> m, via |-> "drain"], sent)
        /\ marked' = IF sent THEN [marked EXCEPT ![c] = @ \cup {m}] ELSE marked
    /\ UNCHANGED <<registryVars, kind, request, reqWorker, status,
                   running, outbox, toServer, waited, runs, succeeded>>

(* The update names the row by its key alone: what the row holds by then   *)
(* is overwritten.                                                         *)
HandlerCommitsSent(c) ==
    /\ toDrain[c] = {}
    /\ FinishSetup(c)
    /\ status' = [m \in Cmd |-> IF m \in marked[c] THEN "sent" ELSE status[m]]
    /\ marked' = [marked EXCEPT ![c] = {}]
    /\ UNCHANGED <<kind, request, reqWorker, toDrain, wireVars, historyVars>>

(* Variant: the outcome is stored as the agent names it.                   *)
HandlerStoresOutcome(c) ==
    /\ pc[c] = "receiving"
    /\ toServer[c] # <<>>
    /\ LET r == Head(toServer[c])
       IN  status' = IF Correlated(r.msg) /\ status[r.msg.cmd] # "absent"
                     THEN [status EXCEPT ![r.msg.cmd] = r.is]
                     ELSE status
    /\ toServer' = [toServer EXCEPT ![c] = Tail(@)]
    /\ UNCHANGED <<registryVars, kind, request, reqWorker, toDrain, marked,
                   toAgent, running, outbox, historyVars>>

(* Variant: whatever does not report an error counts as a success.         *)
HandlerTakesChunkAsSuccess(c) ==
    /\ pc[c] = "receiving"
    /\ toServer[c] # <<>>
    /\ LET r == Head(toServer[c])
       IN  status' = IF Correlated(r.msg) /\ status[r.msg.cmd] # "absent"
                     THEN [status EXCEPT ![r.msg.cmd] = 
                              IF r.is = "failure" THEN "failed" ELSE "completed"]
                     ELSE status
    /\ toServer' = [toServer EXCEPT ![c] = Tail(@)]
    /\ UNCHANGED <<registryVars, kind, request, reqWorker, toDrain, marked,
                   toAgent, running, outbox, historyVars>>

(* The select by correlation_id finds the row of a correlated result once  *)
(* that row is committed; any other result is dropped.  A chunk of output  *)
(* has no "success" and counts as a failure.                               *)
HandlerTakesResult(c) ==
    /\ pc[c] = "receiving"
    /\ toServer[c] # <<>>
    /\ LET r == Head(toServer[c])
       IN  status' = IF Correlated(r.msg) /\ status[r.msg.cmd] # "absent"
                     THEN [status EXCEPT ![r.msg.cmd] =
                              IF r.is = "success" THEN "completed" ELSE "failed"]
                     ELSE status
    /\ toServer' = [toServer EXCEPT ![c] = Tail(@)]
    /\ UNCHANGED <<registryVars, kind, request, reqWorker, toDrain, marked,
                   toAgent, running, outbox, historyVars>>

(* What a connection holds when its coroutine or its socket is gone.       *)
ForgetConnections(S) ==
    /\ toDrain' = [c \in Conn |-> IF c \in S THEN {} ELSE toDrain[c]]
    /\ marked' = [c \in Conn |-> IF c \in S THEN {} ELSE marked[c]]
    /\ toAgent' = [c \in Conn |-> IF c \in S THEN {} ELSE toAgent[c]]
    /\ toServer' = [c \in Conn |-> IF c \in S THEN <<>> ELSE toServer[c]]

HandlerSetupFails(c) ==
    /\ SetupFails(c)
    /\ ForgetConnections({c})
    /\ UNCHANGED <<kind, request, reqWorker, status, running, outbox, historyVars>>

HandlerLeaves(c) ==
    /\ Leave(c)
    /\ UNCHANGED <<serverVars, wireVars, historyVars>>

HandlerEnds(c) ==
    /\ MarkOffline(c) \/ MarkOfflineFails(c)
    /\ ForgetConnections({c})
    /\ UNCHANGED <<kind, request, reqWorker, status, running, outbox, historyVars>>

(* The requests the worker was serving end with it, uncommitted.           *)
WorkerCrashes(w) ==
    /\ Crash(w)
    /\ ForgetConnections({c \in Conn : worker[c] = w})
    /\ request' = [m \in Cmd |->
           IF reqWorker[m] = w /\ request[m] # "new" THEN "over" ELSE request[m]]
    /\ UNCHANGED <<kind, reqWorker, status, running, outbox, historyVars>>

-----------------------------------------------------------------------------
(* The link and the agent.                                                 *)

(* What was on its way down is lost; of what was on its way up, a prefix   *)
(* has reached the server.                                                 *)
LinkDrops(c) ==
    /\ DropLink(c)
    /\ toAgent' = [toAgent EXCEPT ![c] = {}]
    /\ \E n \in 0 .. Len(toServer[c]) :
        toServer' = [toServer EXCEPT ![c] = SubSeq(@, 1, n)]
    /\ UNCHANGED <<serverVars, running, outbox, historyVars>>

(* CommandHandler.handle starts a task for each message, so the order in   *)
(* which messages arrive does not matter.                                  *)
AgentReceives(c, m) ==
    /\ link[c]
    /\ m \in toAgent[c]
    /\ toAgent' = [toAgent EXCEPT ![c] = @ \ {m}]
    /\ IF Understood(m)
       THEN /\ running' = [running EXCEPT ![deviceOf[c]] = @ \cup {m}]
            /\ runs' = [runs EXCEPT ![m.cmd] = IF @ = 2 THEN 2 ELSE @ + 1]
       ELSE UNCHANGED <<running, runs>>
    /\ UNCHANGED <<registryVars, serverVars, outbox, toServer,
                   waited, wired, succeeded>>

AgentStreams(d, m) ==
    /\ m \in running[d]
    /\ Streams(m)
    /\ outbox' = [outbox EXCEPT ![d] = @ \cup {[msg |-> m, is |-> "chunk"]}]
    /\ UNCHANGED <<registryVars, serverVars, toAgent, running, toServer, historyVars>>

\* The results the task of a message may end with; file transfers and
\* unknown command types end without one.
Outcomes(m) ==
    CASE kind[m.cmd] = "dispatch" -> {"success", "failure", "none"}
      [] kind[m.cmd] = "wipe" -> {"success"}
      [] kind[m.cmd] = "bitlocker" -> {"success", "failure"}

AgentFinishes(d, m) ==
    /\ m \in running[d]
    /\ running' = [running EXCEPT ![d] = @ \ {m}]
    /\ \E is \in Outcomes(m) :
        /\ outbox' = IF is = "none" THEN outbox
                     ELSE [outbox EXCEPT ![d] = @ \cup {[msg |-> m, is |-> is]}]
        /\ succeeded' = IF is = "success" THEN succeeded \cup {m.cmd} ELSE succeeded
    /\ UNCHANGED <<registryVars, serverVars, toAgent, toServer, waited, wired, runs>>

(* WSClient._send_loop puts a message it could not send at the end of the  *)
(* queue, so the queue keeps no order.                                     *)
AgentSends(c, r) ==
    /\ link[c]
    /\ r \in outbox[deviceOf[c]]
    /\ Len(toServer[c]) < MaxUplink
    /\ outbox' = [outbox EXCEPT ![deviceOf[c]] = @ \ {r}]
    /\ toServer' = [toServer EXCEPT ![c] = Append(@, r)]
    /\ UNCHANGED <<registryVars, serverVars, toAgent, running, historyVars>>

(* Tasks and queue are in memory.  A process that ends takes its link      *)
(* along: LinkDrops comes first.                                           *)
AgentRestarts(d) ==
    /\ ~Connected(d)
    /\ running' = [running EXCEPT ![d] = {}]
    /\ outbox' = [outbox EXCEPT ![d] = {}]
    /\ UNCHANGED <<registryVars, serverVars, toAgent, toServer, historyVars>>

-----------------------------------------------------------------------------
RequestStep(m) ==
    \/ \E w \in Worker : DispatchSends(m, w) \/ InsertPending(m, w)
    \/ DispatchCommits(m)
    \/ InsertedSends(m)
    \/ RequestFails(m)

HandlerStep(c) ==
    \/ HandlerSelectsPending(c)
    \/ \E m \in Cmd : HandlerRedelivers(c, m)
    \/ HandlerCommitsSent(c)
    \/ HandlerTakesResult(c)
    \/ HandlerSetupFails(c)
    \/ HandlerLeaves(c)
    \/ HandlerEnds(c)

AgentStep ==
    \/ \E c \in Conn :
        \/ LinkDrops(c)
        \/ \E m \in toAgent[c] : AgentReceives(c, m)
        \/ \E r \in outbox[deviceOf[c]] : AgentSends(c, r)
    \/ \E d \in Device :
        \/ \E m \in running[d] : AgentStreams(d, m) \/ AgentFinishes(d, m)
        \/ AgentRestarts(d)

Next ==
    \/ \E m \in Cmd : RequestStep(m)
    \/ \E c \in Conn, w \in Worker : AgentConnects(c, w)
    \/ \E c \in Conn : HandlerStep(c)
    \/ \E w \in Worker : WorkerCrashes(w)
    \/ AgentStep

Spec == Init /\ [][Next]_vars

(* The event loop runs every ready coroutine and uvicorn's ping finds a    *)
(* dead link; nothing makes an agent connect or a request come.            *)
Fairness ==
    \A c \in Conn :
        /\ WF_pc(HandlerSelectsPending(c))
        /\ WF_toDrain(\E m \in Cmd : HandlerRedelivers(c, m))
        /\ WF_pc(HandlerCommitsSent(c))
        /\ WF_pc(~link[c] /\ HandlerLeaves(c))
        /\ WF_pc(HandlerEnds(c))

FairSpec == Spec /\ Fairness

-----------------------------------------------------------------------------
(* A command is recorded as sent, or as answered, only after a send of it  *)
(* succeeded; crashes and overlapping redeliveries do not break this.      *)
SentMeansWired ==
    \A m \in Cmd : status[m] \notin {"absent", "pending"} => m \in wired

(* A command is completed only if a task of the agent succeeded with it,   *)
(* whatever chunks, duplicates and late results arrive around its result.  *)
CompletedMeansSucceeded ==
    \A m \in Cmd : status[m] = "completed" => m \in succeeded

(* A command that reached its agent at once is never redelivered, so the   *)
(* agent starts it at most once.                                           *)
RunOnceUnlessWaited ==
    \A m \in Cmd \ waited : runs[m] <= 1

(* The server implements CommandLifecycle: although a redelivery sets      *)
(* "sent" by the key of the row alone, and its commit comes after results  *)
(* of older connections, no answered command becomes "sent" or "pending"   *)
(* again.  A later result may replace the answer.                          *)
Lifecycle == INSTANCE CommandLifecycle WITH Cmd <- Cmd, status <- status
LifecycleSpec == Lifecycle!Spec

(* The comment in dispatch_command, "stays pending, will be sent on next   *)
(* agent connection": if connections of the device with a working link     *)
(* keep finishing their setup, no command stays pending.                   *)
PendingIsSent ==
    \A m \in Cmd :
        []<><<\E c \in Conn : /\ deviceOf[c] = deviceOfCmd[m]
                              /\ link[c]
                              /\ HandlerCommitsSent(c)>>_vars
            => [](status[m] = "pending" => <>(status[m] # "pending"))
=============================================================================
