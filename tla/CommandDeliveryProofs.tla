----------------------- MODULE CommandDeliveryProofs -----------------------
(***************************************************************************)
(* Proofs about CommandDelivery, for every set of commands, devices,       *)
(* workers and connections: the life of a command implements               *)
(* CommandLifecycle, and with it the invariants the runs check.            *)
(***************************************************************************)
EXTENDS CommandDelivery, TLAPS

-----------------------------------------------------------------------------
(* Sequences of results: what a connection delivers, sends on or loses.    *)

Has(s, r) == \E i \in 1 .. Len(s) : s[i] = r

LEMMA HasHead ==
    ASSUME NEW S, NEW s \in Seq(S), s # <<>>
    PROVE  Has(s, Head(s)) /\ Head(s) \in S
BY DEF Has

LEMMA HasTail ==
    ASSUME NEW S, NEW s \in Seq(S), s # <<>>, NEW r, Has(Tail(s), r)
    PROVE  Has(s, r)
BY DEF Has

LEMMA HasAppend ==
    ASSUME NEW S, NEW s \in Seq(S), NEW x \in S, NEW r, Has(Append(s, x), r)
    PROVE  Has(s, r) \/ r = x
BY DEF Has

LEMMA HasPrefix ==
    ASSUME NEW S, NEW s \in Seq(S), NEW n \in 0 .. Len(s), NEW r,
           Has(SubSeq(s, 1, n), r)
    PROVE  Has(s, r)
BY DEF Has

LEMMA HasEmpty ==
    ASSUME NEW r, Has(<<>>, r)
    PROVE  FALSE
BY DEF Has

-----------------------------------------------------------------------------
(* Every step is a registry step or leaves the registry alone.             *)
LEMMA StepOfRegistry ==
    ASSUME [Next]_vars
    PROVE  [RegistryNext]_registryVars
BY DEF Next, vars, RequestStep, HandlerStep, AgentStep, RegistryNext,
       DispatchSends, DispatchCommits, InsertPending, InsertedSends, RequestFails,
       AgentConnects, HandlerSelectsPending, HandlerRedelivers,
       HandlerCommitsSent, HandlerTakesResult, HandlerSetupFails,
       HandlerLeaves, HandlerEnds, WorkerCrashes, LinkDrops, AgentReceives,
       AgentStreams, AgentFinishes, AgentSends, AgentRestarts

(* CommandDelivery implements ConnectionRegistry.                          *)
THEOREM ImplementsRegistry == Spec => RegistrySpec
<1>1. Init => RegistryInit
  BY DEF Init
<1>2. [Next]_vars => [RegistryNext]_registryVars
  BY StepOfRegistry
<1> QED
  BY <1>1, <1>2, PTL DEF Spec, RegistrySpec

-----------------------------------------------------------------------------
(* Types.                                                                  *)

LEMMA TypeInit == Init => TypeOK
<1>1. RegistryInit => RegistryTypeOK
  BY NoConnAssumption, MaxFaultsAssumption DEF RegistryInit, RegistryTypeOK, Phase
<1> QED
  BY <1>1 DEF Init, TypeOK, Status, Kind

(* What the registry contributes to a step.                                *)
LEMMA RegistryTypeStep ==
    ASSUME RegistryTypeOK, [RegistryNext]_registryVars
    PROVE  RegistryTypeOK'
<1> USE DeviceOfAssumption, MaxFaultsAssumption DEF RegistryTypeOK, Phase
<1>1. ASSUME NEW c \in Conn, NEW w \in Worker, ConnectAgent(c, w)
      PROVE  RegistryTypeOK'
  BY <1>1 DEF ConnectAgent
<1>2. ASSUME NEW c \in Conn, MarkOnline(c)
      PROVE  RegistryTypeOK'
  BY <1>2 DEF MarkOnline
<1>3. ASSUME NEW c \in Conn, FinishSetup(c)
      PROVE  RegistryTypeOK'
  BY <1>3 DEF FinishSetup
<1>4. ASSUME NEW c \in Conn, SetupFails(c)
      PROVE  RegistryTypeOK'
  BY <1>4 DEF SetupFails
<1>5. ASSUME NEW c \in Conn, DropLink(c)
      PROVE  RegistryTypeOK'
  BY <1>5 DEF DropLink
<1>6. ASSUME NEW c \in Conn, Leave(c)
      PROVE  RegistryTypeOK'
  BY <1>6 DEF Leave
<1>7. ASSUME NEW c \in Conn, MarkOffline(c)
      PROVE  RegistryTypeOK'
  BY <1>7 DEF MarkOffline, EndHandler
<1>8. ASSUME NEW c \in Conn, MarkOfflineFails(c)
      PROVE  RegistryTypeOK'
  BY <1>8 DEF MarkOfflineFails, EndHandler
<1>9. ASSUME NEW w \in Worker, Crash(w)
      PROVE  RegistryTypeOK'
  BY <1>9 DEF Crash
<1>10. CASE UNCHANGED registryVars
  BY <1>10 DEF registryVars
<1> QED
  BY <1>1, <1>2, <1>3, <1>4, <1>5, <1>6, <1>7, <1>8, <1>9, <1>10 DEF RegistryNext

LEMMA TypeSend ==
    ASSUME TypeOK, NEW c \in Conn, NEW m \in Message, NEW sent, Send(c, m, sent)
    PROVE  toAgent' \in [Conn -> SUBSET Message] /\ wired' \in SUBSET Cmd
BY DEF Send, TypeOK, Message

LEMMA TypeSendToAgent ==
    ASSUME TypeOK, NEW w \in Worker, NEW m \in Message, NEW sent,
           SendToAgent(w, m, sent)
    PROVE  toAgent' \in [Conn -> SUBSET Message] /\ wired' \in SUBSET Cmd
<1>1. agents[w][deviceOfCmd[m.cmd]] \in Conn \cup {NoConn}
  BY DeviceOfCmdAssumption DEF TypeOK, RegistryTypeOK, Message
<1> QED
  BY <1>1, TypeSend DEF SendToAgent, TypeOK

LEMMA TypeRequestStep ==
    ASSUME TypeOK, RegistryTypeOK', NEW m \in Cmd, RequestStep(m)
    PROVE  TypeOK'
<1> USE DEF TypeOK, Status
<1>1. ASSUME NEW w \in Worker, DispatchSends(m, w)
      PROVE  TypeOK'
  <2>1. [cmd |-> m, via |-> "request"] \in Message
    BY DEF Message
  <2>2. toAgent' \in [Conn -> SUBSET Message] /\ wired' \in SUBSET Cmd
    BY <1>1, <2>1, TypeSendToAgent DEF DispatchSends
  <2> QED
    BY <1>1, <2>2 DEF DispatchSends
<1>2. CASE DispatchCommits(m)
  BY <1>2 DEF DispatchCommits, wireVars
<1>3. ASSUME NEW w \in Worker, InsertPending(m, w)
      PROVE  TypeOK'
  BY <1>3 DEF InsertPending, wireVars
<1>4. CASE InsertedSends(m)
  <2>1. [cmd |-> m, via |-> "request"] \in Message
    BY DEF Message
  <2>2. toAgent' \in [Conn -> SUBSET Message] /\ wired' \in SUBSET Cmd
    BY <1>4, <2>1, TypeSendToAgent DEF InsertedSends
  <2> QED
    BY <1>4, <2>2 DEF InsertedSends
<1>5. CASE RequestFails(m)
  BY <1>5 DEF RequestFails, wireVars, historyVars
<1> QED
  BY <1>1, <1>2, <1>3, <1>4, <1>5 DEF RequestStep

LEMMA TypeForget ==
    ASSUME TypeOK, NEW S, ForgetConnections(S)
    PROVE  /\ toDrain' \in [Conn -> SUBSET Cmd]
           /\ marked' \in [Conn -> SUBSET Cmd]
           /\ toAgent' \in [Conn -> SUBSET Message]
           /\ toServer' \in [Conn -> Seq(Result)]
BY DEF TypeOK, ForgetConnections

LEMMA TypeHandlerStep ==
    ASSUME TypeOK, RegistryTypeOK', NEW c \in Conn, HandlerStep(c)
    PROVE  TypeOK'
<1> USE DEF TypeOK, Status
<1>1. CASE HandlerSelectsPending(c)
  BY <1>1 DEF HandlerSelectsPending, wireVars, historyVars
<1>2. ASSUME NEW m \in Cmd, HandlerRedelivers(c, m)
      PROVE  TypeOK'
  <2>1. [cmd |-> m, via |-> "drain"] \in Message
    BY DEF Message
  <2>2. toAgent' \in [Conn -> SUBSET Message] /\ wired' \in SUBSET Cmd
    BY <1>2, <2>1, TypeSend DEF HandlerRedelivers
  <2>3. marked' \in [Conn -> SUBSET Cmd]
    BY <1>2 DEF HandlerRedelivers
  <2> QED
    BY <1>2, <2>2, <2>3 DEF HandlerRedelivers
<1>3. CASE HandlerCommitsSent(c)
  BY <1>3 DEF HandlerCommitsSent, wireVars, historyVars
<1>4. CASE HandlerTakesResult(c)
  <2>1. Head(toServer[c]) \in Result /\ Tail(toServer[c]) \in Seq(Result)
    BY <1>4, HasHead DEF HandlerTakesResult
  <2>2. status' \in [Cmd -> Status]
    BY <1>4 DEF HandlerTakesResult
  <2> QED
    BY <1>4, <2>1, <2>2 DEF HandlerTakesResult, historyVars
<1>5. CASE HandlerSetupFails(c)
  BY <1>5, TypeForget DEF HandlerSetupFails, historyVars
<1>6. CASE HandlerLeaves(c)
  BY <1>6 DEF HandlerLeaves, serverVars, wireVars, historyVars
<1>7. CASE HandlerEnds(c)
  BY <1>7, TypeForget DEF HandlerEnds, historyVars
<1> QED
  BY <1>1, <1>2, <1>3, <1>4, <1>5, <1>6, <1>7 DEF HandlerStep

LEMMA TypeAgentStep ==
    ASSUME TypeOK, RegistryTypeOK', AgentStep
    PROVE  TypeOK'
<1> USE DeviceOfAssumption DEF TypeOK, Status
<1>1. ASSUME NEW c \in Conn, LinkDrops(c)
      PROVE  TypeOK'
  BY <1>1 DEF LinkDrops, serverVars, historyVars
<1>2. ASSUME NEW c \in Conn, NEW m \in toAgent[c], AgentReceives(c, m)
      PROVE  TypeOK'
  <2>1. m.cmd \in Cmd /\ m \in Message
    BY DEF Message
  <2>2. running' \in [Device -> SUBSET Message] /\ runs' \in [Cmd -> 0 .. 2]
    <3>1. CASE Understood(m)
      <4>1. running' = [running EXCEPT ![deviceOf[c]] = @ \cup {m}]
        BY <1>2, <3>1 DEF AgentReceives
      <4>2. runs' = [runs EXCEPT ![m.cmd] = IF @ = 2 THEN 2 ELSE @ + 1]
        BY <1>2, <3>1 DEF AgentReceives
      <4>3. running' \in [Device -> SUBSET Message]
        BY <2>1, <4>1
      <4>4. runs \in [Cmd -> 0 .. 2] /\ runs[m.cmd] \in 0 .. 2
        BY <2>1
      <4>5. (IF runs[m.cmd] = 2 THEN 2 ELSE runs[m.cmd] + 1) \in 0 .. 2
        BY <4>4
      <4>6. runs' \in [Cmd -> 0 .. 2]
        BY <4>2, <4>4, <4>5, Zenon
      <4> QED
        BY <4>3, <4>6
    <3>2. CASE ~Understood(m)
      BY <1>2, <3>2 DEF AgentReceives
    <3> QED
      BY <3>1, <3>2
  <2> QED
    BY <1>2, <2>2 DEF AgentReceives, serverVars
<1>3. ASSUME NEW c \in Conn, NEW r \in outbox[deviceOf[c]], AgentSends(c, r)
      PROVE  TypeOK'
  BY <1>3 DEF AgentSends, serverVars, historyVars
<1>4. ASSUME NEW d \in Device, NEW m \in running[d], AgentStreams(d, m)
      PROVE  TypeOK'
  <2>1. [msg |-> m, is |-> "chunk"] \in Result
    BY DEF Result
  <2>2. outbox' \in [Device -> SUBSET Result]
    BY <1>4, <2>1 DEF AgentStreams
  <2> QED
    BY <1>4, <2>2 DEF AgentStreams, serverVars, historyVars
<1>5. ASSUME NEW d \in Device, NEW m \in running[d], AgentFinishes(d, m)
      PROVE  TypeOK'
  <2>1. m.cmd \in Cmd /\ m \in Message
    BY DEF Message
  <2>2. kind[m.cmd] \in Kind
    BY <2>1
  <2>3. Outcomes(m) \subseteq {"success", "failure", "none"}
    BY <2>2 DEF Outcomes, Kind
  <2>4. outbox' \in [Device -> SUBSET Result] /\ succeeded' \in SUBSET Cmd
    BY <1>5, <2>1, <2>3 DEF AgentFinishes, Result
  <2> QED
    BY <1>5, <2>4 DEF AgentFinishes, serverVars
<1>6. ASSUME NEW d \in Device, AgentRestarts(d)
      PROVE  TypeOK'
  BY <1>6 DEF AgentRestarts, serverVars, historyVars
<1> QED
  BY <1>1, <1>2, <1>3, <1>4, <1>5, <1>6 DEF AgentStep

LEMMA TypeStep ==
    ASSUME TypeOK, [Next]_vars
    PROVE  TypeOK'
<1>1. RegistryTypeOK'
  BY StepOfRegistry, RegistryTypeStep DEF TypeOK
<1>2. ASSUME NEW c \in Conn, NEW w \in Worker, AgentConnects(c, w)
      PROVE  TypeOK'
  BY <1>1, <1>2 DEF TypeOK, AgentConnects, serverVars, wireVars, historyVars
<1>3. ASSUME NEW w \in Worker, WorkerCrashes(w)
      PROVE  TypeOK'
  BY <1>1, <1>3, TypeForget DEF TypeOK, WorkerCrashes, historyVars
<1>4. CASE UNCHANGED vars
  BY <1>1, <1>4 DEF TypeOK, vars, serverVars, wireVars, historyVars
<1> QED
  BY <1>1, <1>2, <1>3, <1>4, TypeRequestStep, TypeHandlerStep, TypeAgentStep DEF Next

(* Every variable keeps its type in every behaviour.                       *)
THEOREM TypeCorrect == Spec => []TypeOK
<1>1. Init => TypeOK
  BY TypeInit
<1>2. TypeOK /\ [Next]_vars => TypeOK'
  BY TypeStep
<1> QED
  BY <1>1, <1>2, PTL DEF Spec

-----------------------------------------------------------------------------
(* The inductive invariant.  A message that carries a correlation id was   *)
(* sent by a request that has left the row alone or committed it as sent:  *)
(* that is why its result never meets a row that has been pending.         *)

Sound(m) ==
    Correlated(m) => /\ request[m.cmd] \in {"delivered", "over"}
                     /\ m.cmd \in wired
                     /\ m.cmd \notin waited

Told(r) == Sound(r.msg) /\ (r.is = "success" => r.msg.cmd \in succeeded)

MessagesOK ==
    /\ \A c \in Conn : \A m \in toAgent[c] : Sound(m)
    /\ \A d \in Device : \A m \in running[d] : Sound(m)
    /\ \A d \in Device : \A r \in outbox[d] : Told(r)
    /\ \A c \in Conn : \A r \in Result : Has(toServer[c], r) => Told(r)

RequestsOK ==
    \A m \in Cmd :
        /\ request[m] \in {"new", "unsent", "delivered"} => status[m] = "absent"
        /\ request[m] = "delivered" => m \in wired
        /\ request[m] = "inserted" => m \in waited /\ kind[m] # "dispatch"

DrainsOK ==
    \A c \in Conn : /\ toDrain[c] \subseteq waited
                    /\ marked[c] \subseteq waited \cap wired

(* Redelivery sends the primary key, results are looked up by the other    *)
(* id, so a row that has been pending gets no result.                      *)
WaitedUnanswered == \A m \in waited : status[m] \in {"pending", "sent"}

StatusOK ==
    /\ \A m \in Cmd : status[m] = "pending" => m \in waited
    /\ WaitedUnanswered
    /\ SentMeansWired
    /\ CompletedMeansSucceeded

Inv == TypeOK /\ MessagesOK /\ RequestsOK /\ DrainsOK /\ StatusOK

\* A command that never waited has one message, on its way or started.
Only(m) == [cmd |-> m, via |-> "request"]

OnceOK ==
    /\ \A c \in Conn : \A x \in toAgent[c] : x.via = "drain" => x.cmd \in waited
    /\ \A m \in Cmd \ waited :
        /\ runs[m] \in {0, 1}
        /\ request[m] = "new" => runs[m] = 0 /\ \A c \in Conn : Only(m) \notin toAgent[c]
        /\ \A c \in Conn : Only(m) \in toAgent[c] => runs[m] = 0
        /\ \A c, e \in Conn :
               Only(m) \in toAgent[c] /\ Only(m) \in toAgent[e] => c = e

LEMMA InvInit == Init => Inv /\ OnceOK
<1> SUFFICES ASSUME Init
             PROVE  Inv /\ OnceOK
  OBVIOUS
<1>1. TypeOK
  BY TypeInit
<1>2. MessagesOK
  BY HasEmpty DEF Init, MessagesOK
<1>3. RequestsOK /\ DrainsOK
  BY DEF Init, RequestsOK, DrainsOK
<1>4. StatusOK
  BY DEF Init, StatusOK, WaitedUnanswered, SentMeansWired,
         CompletedMeansSucceeded
<1>5. OnceOK
  BY DEF Init, OnceOK
<1> QED
  BY <1>1, <1>2, <1>3, <1>4, <1>5 DEF Inv

-----------------------------------------------------------------------------
(* What a step does to the histories.                                      *)
Grows ==
    /\ kind' = kind
    /\ wired \subseteq wired'
    /\ succeeded \subseteq succeeded'
    /\ waited \subseteq waited'
    /\ \A m \in Cmd :
        /\ request[m] \in {"delivered", "over"} => request'[m] \in {"delivered", "over"}
        /\ m \in waited' \ waited /\ kind[m] = "dispatch" => request[m] = "unsent"

LEMMA SendGrows ==
    ASSUME NEW c, NEW m, NEW sent, Send(c, m, sent)
    PROVE  wired \subseteq wired'
BY DEF Send

LEMMA SendToAgentGrows ==
    ASSUME NEW w, NEW m, NEW sent, SendToAgent(w, m, sent)
    PROVE  wired \subseteq wired'
BY SendGrows DEF SendToAgent

LEMMA RequestGrows ==
    ASSUME TypeOK, NEW m \in Cmd, RequestStep(m)
    PROVE  Grows
<1> USE DEF TypeOK, Grows
<1>1. ASSUME NEW w \in Worker, DispatchSends(m, w)
      PROVE  Grows
  <2>1. wired \subseteq wired'
    BY <1>1, SendToAgentGrows DEF DispatchSends
  <2> QED
    BY <1>1, <2>1 DEF DispatchSends
<1>2. CASE DispatchCommits(m)
  BY <1>2 DEF DispatchCommits
<1>3. ASSUME NEW w \in Worker, InsertPending(m, w)
      PROVE  Grows
  BY <1>3 DEF InsertPending
<1>4. CASE InsertedSends(m)
  <2>1. wired \subseteq wired'
    BY <1>4, SendToAgentGrows DEF InsertedSends
  <2> QED
    BY <1>4, <2>1 DEF InsertedSends
<1>5. CASE RequestFails(m)
  BY <1>5 DEF RequestFails, historyVars
<1> QED
  BY <1>1, <1>2, <1>3, <1>4, <1>5 DEF RequestStep

LEMMA HandlerGrows ==
    ASSUME TypeOK, NEW c \in Conn, HandlerStep(c)
    PROVE  Grows /\ waited' = waited /\ request' = request /\ succeeded' = succeeded
<1>1. ASSUME NEW m \in Cmd, HandlerRedelivers(c, m)
      PROVE  Grows /\ waited' = waited /\ request' = request /\ succeeded' = succeeded
  <2>1. wired \subseteq wired'
    BY <1>1, SendGrows DEF HandlerRedelivers
  <2> QED
    BY <1>1, <2>1 DEF HandlerRedelivers, Grows
<1> QED
  BY <1>1 DEF HandlerStep, Grows, HandlerSelectsPending, HandlerCommitsSent,
     HandlerTakesResult, HandlerSetupFails, HandlerLeaves, HandlerEnds,
     historyVars, serverVars

LEMMA AgentGrows ==
    ASSUME TypeOK, AgentStep
    PROVE  Grows /\ UNCHANGED <<serverVars, waited, wired>>
BY DEF AgentStep, Grows, LinkDrops, AgentReceives, AgentStreams, AgentFinishes,
       AgentSends, AgentRestarts, serverVars, historyVars

LEMMA StepGrows ==
    ASSUME TypeOK, [Next]_vars
    PROVE  Grows
<1>1. ASSUME NEW c \in Conn, NEW w \in Worker, AgentConnects(c, w)
      PROVE  Grows
  BY <1>1 DEF AgentConnects, serverVars, historyVars, Grows
<1>2. ASSUME NEW w \in Worker, WorkerCrashes(w)
      PROVE  Grows
  BY <1>2 DEF WorkerCrashes, historyVars, Grows, TypeOK
<1>3. CASE UNCHANGED vars
  BY <1>3 DEF vars, serverVars, historyVars, Grows
<1> QED
  BY <1>1, <1>2, <1>3, RequestGrows, HandlerGrows, AgentGrows DEF Next

LEMMA SoundStable ==
    ASSUME TypeOK, Grows, NEW m \in Message, Sound(m)
    PROVE  Sound(m)'
BY DEF Sound, Correlated, Grows, Message

LEMMA ToldStable ==
    ASSUME TypeOK, Grows, NEW r \in Result, Told(r)
    PROVE  Told(r)'
<1>1. r.msg \in Message
  BY DEF Result
<1> QED
  BY <1>1, SoundStable DEF Told, Grows

-----------------------------------------------------------------------------
(* Where messages and results come from.                                   *)

LEMMA SendAdds ==
    ASSUME TypeOK, NEW c \in Conn, NEW m \in Message, NEW sent, Send(c, m, sent),
           NEW e \in Conn, NEW x \in toAgent'[e]
    PROVE  x \in toAgent[e] \/ (x = m /\ e = c /\ sent)
BY DEF Send, TypeOK

LEMMA SendToAgentAdds ==
    ASSUME TypeOK, NEW w \in Worker, NEW m \in Message, NEW sent,
           SendToAgent(w, m, sent), NEW e \in Conn, NEW x \in toAgent'[e]
    PROVE  \/ x \in toAgent[e]
           \/ x = m /\ sent /\ e = agents[w][deviceOfCmd[m.cmd]]
<1>1. agents[w][deviceOfCmd[m.cmd]] \in Conn \cup {NoConn}
  BY DeviceOfCmdAssumption DEF TypeOK, RegistryTypeOK, Message
<1> QED
  BY <1>1, SendAdds DEF SendToAgent

LEMMA SendWires ==
    ASSUME NEW c, NEW m, NEW sent, Send(c, m, sent), sent
    PROVE  m.cmd \in wired'
BY DEF Send

LEMMA SendToAgentWires ==
    ASSUME NEW w, NEW m, NEW sent, SendToAgent(w, m, sent), sent
    PROVE  m.cmd \in wired'
BY SendWires DEF SendToAgent

\* Only a send adds to toAgent, and what it adds is sound.
LEMMA ToAgentSound ==
    ASSUME Inv, [Next]_vars, NEW e \in Conn, NEW x \in toAgent'[e]
    PROVE  x \in toAgent[e] \/ Sound(x)'
<1> USE DEF Inv
<1>1. ASSUME NEW m \in Cmd, NEW w \in Worker, DispatchSends(m, w)
      PROVE  x \in toAgent[e] \/ Sound(x)'
  <2>1. Only(m) \in Message /\ Only(m).cmd = m
    BY DEF Message, Only
  <2>2. PICK sent \in BOOLEAN :
            /\ SendToAgent(w, Only(m), sent)
            /\ request' = [request EXCEPT ![m] = IF sent THEN "delivered" ELSE "unsent"]
    BY <1>1 DEF DispatchSends, Only
  <2>3. CASE x \in toAgent[e]
    BY <2>3
  <2>4. CASE x = Only(m) /\ sent
    <3>1. m \in wired'
      BY <2>1, <2>2, <2>4, SendToAgentWires
    <3>2. m \notin waited'
      BY <1>1 DEF DispatchSends, RequestsOK, StatusOK, WaitedUnanswered
    <3>3. request'[m] = "delivered"
      BY <2>2, <2>4 DEF TypeOK
    <3> QED
      BY <2>1, <2>4, <3>1, <3>2, <3>3 DEF Sound
  <2> QED
    BY <2>1, <2>2, <2>3, <2>4, SendToAgentAdds
<1>2. ASSUME NEW m \in Cmd, InsertedSends(m)
      PROVE  x \in toAgent[e] \/ Sound(x)'
  <2>1. Only(m) \in Message /\ Only(m).cmd = m /\ reqWorker[m] \in Worker
    BY DEF Message, Only, TypeOK
  <2>2. PICK sent \in BOOLEAN : SendToAgent(reqWorker[m], Only(m), sent)
    BY <1>2 DEF InsertedSends, Only
  <2>3. x \in toAgent[e] \/ (x = Only(m) /\ sent)
    BY <2>1, <2>2, SendToAgentAdds
  <2>4. kind' = kind /\ kind[m] # "dispatch"
    BY <1>2 DEF InsertedSends, RequestsOK
  <2> QED
    BY <2>1, <2>3, <2>4 DEF Sound, Correlated
<1>3. ASSUME NEW c \in Conn, NEW m \in Cmd, HandlerRedelivers(c, m)
      PROVE  x \in toAgent[e] \/ Sound(x)'
  <2>1. [cmd |-> m, via |-> "drain"] \in Message
    BY DEF Message
  <2>2. x \in toAgent[e] \/ x = [cmd |-> m, via |-> "drain"]
    BY <1>3, <2>1, SendAdds DEF HandlerRedelivers
  <2> QED
    BY <2>2 DEF Sound, Correlated
<1>4. ASSUME NEW S, ForgetConnections(S)
      PROVE  x \in toAgent[e]
  BY <1>4 DEF ForgetConnections
<1>5. CASE AgentStep
  BY <1>5 DEF AgentStep, LinkDrops, AgentReceives, AgentStreams, AgentFinishes,
              AgentSends, AgentRestarts, TypeOK
<1>6. ASSUME NEW c \in Conn, HandlerStep(c), \A m \in Cmd : ~HandlerRedelivers(c, m)
      PROVE  x \in toAgent[e]
  BY <1>4, <1>6 DEF HandlerStep, HandlerSelectsPending, HandlerCommitsSent,
     HandlerTakesResult, HandlerSetupFails, HandlerLeaves, HandlerEnds, wireVars
<1>7. ASSUME NEW m \in Cmd,
             \/ DispatchCommits(m)
             \/ \E w \in Worker : InsertPending(m, w)
             \/ RequestFails(m)
      PROVE  x \in toAgent[e]
  BY <1>7 DEF DispatchCommits, InsertPending, RequestFails, wireVars
<1>8. ASSUME NEW c \in Conn, NEW w \in Worker, AgentConnects(c, w)
      PROVE  x \in toAgent[e]
  BY <1>8 DEF AgentConnects, wireVars
<1>9. ASSUME NEW w \in Worker, WorkerCrashes(w)
      PROVE  x \in toAgent[e]
  BY <1>4, <1>9 DEF WorkerCrashes
<1>10. CASE UNCHANGED vars
  BY <1>10 DEF vars, wireVars
<1> QED
  BY <1>1, <1>2, <1>3, <1>5, <1>6, <1>7, <1>8, <1>9, <1>10 DEF Next, RequestStep

\* A task starts with a message that was on its way down.
LEMMA RunningFrom ==
    ASSUME TypeOK, [Next]_vars, NEW d \in Device, NEW m \in running'[d]
    PROVE  m \in running[d] \/ \E c \in Conn : m \in toAgent[c]
<1>1. CASE AgentStep
  <2>1. ASSUME NEW c \in Conn, NEW x \in toAgent[c], AgentReceives(c, x)
        PROVE  m \in running[d] \/ m = x
    BY <2>1, DeviceOfAssumption DEF AgentReceives, TypeOK
  <2> QED
    BY <1>1, <2>1 DEF AgentStep, LinkDrops, AgentStreams, AgentFinishes,
                      AgentSends, AgentRestarts, TypeOK
<1>2. ASSUME ~AgentStep
      PROVE  running' = running
  BY <1>2 DEF Next, vars, wireVars, RequestStep, DispatchSends, DispatchCommits,
     InsertPending, InsertedSends, RequestFails, AgentConnects, HandlerStep,
     HandlerSelectsPending, HandlerRedelivers, HandlerCommitsSent,
     HandlerTakesResult, HandlerSetupFails, HandlerLeaves, HandlerEnds, WorkerCrashes
<1> QED
  BY <1>1, <1>2

\* A result is put in the queue by the task of its message.
LEMMA OutboxFrom ==
    ASSUME TypeOK, [Next]_vars, NEW d \in Device, NEW r \in outbox'[d]
    PROVE  \/ r \in outbox[d]
           \/ r.msg \in running[d] /\ (r.is = "success" => r.msg.cmd \in succeeded')
<1>1. CASE AgentStep
  <2>1. ASSUME NEW b \in Device, NEW m \in running[b], AgentStreams(b, m)
        PROVE  r \in outbox[d] \/ (d = b /\ r = [msg |-> m, is |-> "chunk"])
    BY <2>1 DEF AgentStreams, TypeOK
  <2>2. ASSUME NEW b \in Device, NEW m \in running[b], AgentFinishes(b, m)
        PROVE  \/ r \in outbox[d]
               \/ d = b /\ r.msg = m /\ (r.is = "success" => m.cmd \in succeeded')
    <3>1. PICK is \in Outcomes(m) :
            /\ outbox' = IF is = "none" THEN outbox
                         ELSE [outbox EXCEPT ![b] = @ \cup {[msg |-> m, is |-> is]}]
            /\ succeeded' = IF is = "success" THEN succeeded \cup {m.cmd} ELSE succeeded
      BY <2>2 DEF AgentFinishes
    <3>2. r \in outbox[d] \/ (d = b /\ r = [msg |-> m, is |-> is])
      BY <3>1 DEF TypeOK
    <3>3. is = "success" => m.cmd \in succeeded'
      BY <3>1
    <3> QED
      BY <3>2, <3>3
  <2>3. ASSUME NEW c \in Conn, NEW x \in outbox[deviceOf[c]], AgentSends(c, x)
        PROVE  r \in outbox[d]
    BY <2>3, DeviceOfAssumption DEF AgentSends, TypeOK
  <2> QED
    BY <1>1, <2>1, <2>2, <2>3 DEF AgentStep, LinkDrops, AgentReceives,
                                  AgentRestarts, TypeOK
<1>2. ASSUME ~AgentStep
      PROVE  outbox' = outbox
  BY <1>2 DEF Next, vars, wireVars, RequestStep, DispatchSends, DispatchCommits,
     InsertPending, InsertedSends, RequestFails, AgentConnects, HandlerStep,
     HandlerSelectsPending, HandlerRedelivers, HandlerCommitsSent,
     HandlerTakesResult, HandlerSetupFails, HandlerLeaves, HandlerEnds, WorkerCrashes
<1> QED
  BY <1>1, <1>2

\* What is on its way up was in the queue of the agent.
LEMMA ToServerFrom ==
    ASSUME TypeOK, [Next]_vars, NEW e \in Conn, NEW r, Has(toServer'[e], r)
    PROVE  Has(toServer[e], r) \/ \E d \in Device : r \in outbox[d]
<1> USE DEF TypeOK
<1>1. ASSUME NEW c \in Conn, LinkDrops(c)
      PROVE  Has(toServer[e], r)
  <2>1. PICK n \in 0 .. Len(toServer[c]) :
            toServer' = [toServer EXCEPT ![c] = SubSeq(@, 1, n)]
    BY <1>1 DEF LinkDrops
  <2>2. CASE e = c
    <3>1. toServer'[e] = SubSeq(toServer[e], 1, n) /\ toServer[e] \in Seq(Result)
      BY <2>1, <2>2
    <3> QED
      BY <2>1, <2>2, <3>1, HasPrefix
  <2>3. CASE e # c
    BY <2>1, <2>3
  <2> QED
    BY <2>2, <2>3
<1>2. ASSUME NEW c \in Conn, NEW x \in outbox[deviceOf[c]], AgentSends(c, x)
      PROVE  Has(toServer[e], r) \/ r = x
  <2>1. x \in Result
    BY DeviceOfAssumption
  <2>2. CASE e = c
    <3>1. toServer'[e] = Append(toServer[e], x) /\ toServer[e] \in Seq(Result)
      BY <1>2, <2>2 DEF AgentSends
    <3> QED
      BY <2>1, <3>1, HasAppend
  <2>3. CASE e # c
    BY <1>2, <2>3 DEF AgentSends
  <2> QED
    BY <2>2, <2>3
<1>3. ASSUME NEW c \in Conn, HandlerTakesResult(c)
      PROVE  Has(toServer[e], r)
  <2>1. CASE e = c
    <3>1. toServer[e] # <<>> /\ toServer[e] \in Seq(Result)
          /\ toServer'[e] = Tail(toServer[e])
      BY <1>3, <2>1 DEF HandlerTakesResult
    <3> QED
      BY <3>1, HasTail
  <2>2. CASE e # c
    BY <1>3, <2>2 DEF HandlerTakesResult
  <2> QED
    BY <2>1, <2>2
<1>4. ASSUME NEW S, ForgetConnections(S)
      PROVE  Has(toServer[e], r)
  <2>1. toServer'[e] = toServer[e] \/ toServer'[e] = <<>>
    BY <1>4 DEF ForgetConnections
  <2> QED
    BY <2>1, HasEmpty
<1>5. CASE AgentStep
  BY <1>1, <1>2, <1>5, DeviceOfAssumption
     DEF AgentStep, AgentReceives, AgentStreams, AgentFinishes, AgentRestarts
<1>6. ASSUME NEW c \in Conn, HandlerStep(c)
      PROVE  Has(toServer[e], r)
  BY <1>3, <1>4, <1>6 DEF HandlerStep, HandlerSelectsPending, HandlerRedelivers,
     HandlerCommitsSent, HandlerSetupFails, HandlerLeaves, HandlerEnds, wireVars
<1>7. ASSUME NEW m \in Cmd, RequestStep(m)
      PROVE  toServer' = toServer
  BY <1>7 DEF RequestStep, DispatchSends, DispatchCommits, InsertPending,
              InsertedSends, RequestFails, wireVars
<1>8. ASSUME NEW c \in Conn, NEW w \in Worker, AgentConnects(c, w)
      PROVE  toServer' = toServer
  BY <1>8 DEF AgentConnects, wireVars
<1>9. ASSUME NEW w \in Worker, WorkerCrashes(w)
      PROVE  Has(toServer[e], r)
  BY <1>4, <1>9 DEF WorkerCrashes
<1>10. CASE UNCHANGED vars
  BY <1>10 DEF vars, wireVars
<1> QED
  BY <1>5, <1>6, <1>7, <1>8, <1>9, <1>10 DEF Next

LEMMA MessagesStep ==
    ASSUME Inv, [Next]_vars
    PROVE  MessagesOK'
<1> USE DEF Inv
<1>1. Grows /\ TypeOK'
  BY StepGrows, TypeStep
<1>2. ASSUME NEW c \in Conn, NEW x \in toAgent'[c]
      PROVE  Sound(x)'
  <2>1. CASE x \in toAgent[c]
    BY <1>1, <2>1, SoundStable DEF MessagesOK, TypeOK
  <2> QED
    BY <1>2, <2>1, ToAgentSound
<1>3. ASSUME NEW d \in Device, NEW x \in running'[d]
      PROVE  Sound(x)'
  <2>1. x \in Message /\ Sound(x)
    BY <1>3, RunningFrom DEF MessagesOK, TypeOK
  <2> QED
    BY <1>1, <2>1, SoundStable
<1>4. ASSUME NEW d \in Device, NEW r \in outbox'[d]
      PROVE  Told(r)'
  <2>1. CASE r \in outbox[d]
    BY <1>1, <2>1, ToldStable DEF MessagesOK, TypeOK
  <2>2. CASE r.msg \in running[d] /\ (r.is = "success" => r.msg.cmd \in succeeded')
    <3>1. r.msg \in Message /\ Sound(r.msg)
      BY <2>2 DEF MessagesOK, TypeOK
    <3>2. Sound(r.msg)'
      BY <1>1, <3>1, SoundStable
    <3> QED
      BY <2>2, <3>2 DEF Told
  <2> QED
    BY <1>4, <2>1, <2>2, OutboxFrom
<1>5. ASSUME NEW c \in Conn, NEW r \in Result, Has(toServer'[c], r)
      PROVE  Told(r)'
  <2>1. Told(r)
    BY <1>5, ToServerFrom DEF MessagesOK
  <2> QED
    BY <1>1, <2>1, ToldStable
<1> QED
  BY <1>2, <1>3, <1>4, <1>5 DEF MessagesOK

-----------------------------------------------------------------------------
(* The rows.  Four actions write them.                                     *)

Writes ==
    \/ \E m \in Cmd : DispatchCommits(m)
    \/ \E m \in Cmd, w \in Worker : InsertPending(m, w)
    \/ \E c \in Conn : HandlerCommitsSent(c)
    \/ \E c \in Conn : HandlerTakesResult(c)

LEMMA StatusFrame ==
    ASSUME [Next]_vars, ~Writes
    PROVE  status' = status /\ waited' = waited
BY DEF Writes, Next, vars, serverVars, historyVars, RequestStep, DispatchSends,
   InsertedSends, RequestFails, AgentConnects, HandlerStep,
   HandlerSelectsPending, HandlerRedelivers, HandlerSetupFails, HandlerLeaves,
   HandlerEnds, WorkerCrashes, AgentStep, LinkDrops, AgentReceives,
   AgentStreams, AgentFinishes, AgentSends, AgentRestarts

\* The result a handler takes, when it finds its row.
LEMMA ResultTaken ==
    ASSUME Inv, NEW c \in Conn, HandlerTakesResult(c)
    PROVE  \/ status' = status
           \/ \E m \in Cmd, outcome \in Terminal :
                /\ m \notin waited /\ m \in wired
                /\ status[m] \in {"sent"} \cup Terminal
                /\ status' = [status EXCEPT ![m] = outcome]
                /\ outcome = "completed" => m \in succeeded
<1> USE DEF Inv
<1> DEFINE r == Head(toServer[c])
           outcome == IF r.is = "success" THEN "completed" ELSE "failed"
<1>1. toServer[c] \in Seq(Result) /\ toServer[c] # <<>>
  BY DEF HandlerTakesResult, TypeOK
<1>2. r \in Result /\ Told(r)
  BY <1>1, HasHead DEF MessagesOK
<1>3. r.msg.cmd \in Cmd /\ outcome \in Terminal
  BY <1>2 DEF Result, Message, Terminal
<1>4. CASE Correlated(r.msg) /\ status[r.msg.cmd] # "absent"
  <2>1. r.msg.cmd \notin waited /\ r.msg.cmd \in wired
    BY <1>2, <1>4 DEF Told, Sound
  <2>2. status[r.msg.cmd] \in {"sent"} \cup Terminal
    BY <1>3, <1>4, <2>1 DEF StatusOK, TypeOK, Status, Terminal
  <2>3. status' = [status EXCEPT ![r.msg.cmd] = outcome]
    BY <1>4 DEF HandlerTakesResult
  <2>4. outcome = "completed" => r.msg.cmd \in succeeded
    BY <1>2 DEF Told
  <2> QED
    BY <1>3, <2>1, <2>2, <2>3, <2>4
<1>5. CASE ~(Correlated(r.msg) /\ status[r.msg.cmd] # "absent")
  BY <1>5 DEF HandlerTakesResult
<1> QED
  BY <1>4, <1>5

LEMMA StatusStep ==
    ASSUME Inv, [Next]_vars
    PROVE  StatusOK'
<1> USE DEF Inv, StatusOK, WaitedUnanswered, SentMeansWired, CompletedMeansSucceeded
<1>1. Grows
  BY StepGrows
<1>2. ASSUME NEW m \in Cmd, DispatchCommits(m)
      PROVE  StatusOK'
  <2>1. CASE request[m] = "delivered"
    <3>1. status' = [status EXCEPT ![m] = "sent"] /\ waited' = waited
      BY <1>2, <2>1 DEF DispatchCommits
    <3>2. m \in wired'
      BY <1>1, <2>1 DEF RequestsOK, Grows
    <3> QED
      BY <1>1, <3>1, <3>2 DEF Grows, TypeOK
  <2>2. CASE request[m] = "unsent"
    <3>1. status' = [status EXCEPT ![m] = "pending"] /\ waited' = waited \cup {m}
      BY <1>2, <2>2 DEF DispatchCommits
    <3> QED
      BY <1>1, <3>1 DEF Grows, TypeOK
  <2> QED
    BY <1>2, <2>1, <2>2 DEF DispatchCommits
<1>3. ASSUME NEW m \in Cmd, NEW w \in Worker, InsertPending(m, w)
      PROVE  StatusOK'
  BY <1>1, <1>3 DEF InsertPending, Grows, TypeOK
<1>4. ASSUME NEW c \in Conn, HandlerCommitsSent(c)
      PROVE  StatusOK'
  <2>1. waited' = waited /\ marked[c] \subseteq waited \cap wired
    BY <1>4 DEF HandlerCommitsSent, historyVars, DrainsOK
  <2>2. \A m \in Cmd : status'[m] = IF m \in marked[c] THEN "sent" ELSE status[m]
    BY <1>4 DEF HandlerCommitsSent
  <2> QED
    BY <1>1, <2>1, <2>2 DEF Grows, TypeOK
<1>5. ASSUME NEW c \in Conn, HandlerTakesResult(c)
      PROVE  StatusOK'
  <2>1. waited' = waited /\ wired' = wired /\ succeeded' = succeeded
    BY <1>5 DEF HandlerTakesResult, historyVars
  <2>2. CASE status' = status
    BY <2>1, <2>2
  <2>3. ASSUME NEW m \in Cmd, NEW outcome \in Terminal,
               m \notin waited, m \in wired,
               status' = [status EXCEPT ![m] = outcome],
               outcome = "completed" => m \in succeeded
        PROVE  StatusOK'
    BY <2>1, <2>3 DEF TypeOK, Terminal
  <2> QED
    BY <1>5, <2>2, <2>3, ResultTaken
<1>6. CASE ~Writes
  BY <1>1, <1>6, StatusFrame DEF Grows
<1> QED
  BY <1>2, <1>3, <1>4, <1>5, <1>6 DEF Writes

LEMMA RequestsStep ==
    ASSUME Inv, [Next]_vars
    PROVE  RequestsOK'
<1> USE DEF Inv, RequestsOK
<1>1. Grows
  BY StepGrows
<1>2. \A m \in Cmd : request[m] = "new" => m \notin waited
  BY DEF StatusOK, WaitedUnanswered
<1>3. ASSUME NEW m \in Cmd, NEW w \in Worker, DispatchSends(m, w)
      PROVE  RequestsOK'
  <2>1. PICK sent \in BOOLEAN :
            /\ SendToAgent(w, Only(m), sent)
            /\ request' = [request EXCEPT ![m] = IF sent THEN "delivered" ELSE "unsent"]
    BY <1>3 DEF DispatchSends, Only
  <2>2. ASSUME sent PROVE m \in wired'
    <3>1. Only(m).cmd = m
      BY DEF Only
    <3> QED
      BY <2>1, <2>2, <3>1, SendToAgentWires
  <2>3. request[m] = "new" /\ UNCHANGED <<kind, status, waited>>
    BY <1>3 DEF DispatchSends
  <2> QED
    BY <1>1, <2>1, <2>2, <2>3 DEF Grows, TypeOK
<1>4. ASSUME NEW m \in Cmd, DispatchCommits(m)
      PROVE  RequestsOK'
  BY <1>1, <1>4 DEF DispatchCommits, Grows, TypeOK
<1>5. ASSUME NEW m \in Cmd, NEW w \in Worker, InsertPending(m, w)
      PROVE  RequestsOK'
  BY <1>1, <1>5 DEF InsertPending, Grows, TypeOK
<1>6. ASSUME NEW m \in Cmd, InsertedSends(m)
      PROVE  RequestsOK'
  BY <1>1, <1>6 DEF InsertedSends, Grows, TypeOK
<1>7. ASSUME NEW m \in Cmd, RequestFails(m)
      PROVE  RequestsOK'
  BY <1>1, <1>7 DEF RequestFails, historyVars, Grows, TypeOK
<1>8. ASSUME NEW w \in Worker, WorkerCrashes(w)
      PROVE  RequestsOK'
  BY <1>1, <1>8 DEF WorkerCrashes, historyVars, Grows, TypeOK
<1>9. ASSUME NEW c \in Conn, HandlerCommitsSent(c)
      PROVE  RequestsOK'
  <2>1. marked[c] \subseteq waited
    BY DEF DrainsOK
  <2>2. \A m \in marked[c] : status[m] \in {"pending", "sent"}
    BY <2>1 DEF StatusOK, WaitedUnanswered
  <2>3. \A m \in Cmd : status[m] = "absent" => status'[m] = "absent"
    BY <1>9, <2>2 DEF HandlerCommitsSent
  <2>4. UNCHANGED <<kind, request, waited>>
    BY <1>9 DEF HandlerCommitsSent, historyVars
  <2> QED
    BY <1>1, <2>3, <2>4 DEF Grows
<1>10. ASSUME NEW c \in Conn, HandlerTakesResult(c)
       PROVE  RequestsOK'
  <2>1. UNCHANGED <<kind, request, waited, wired>>
    BY <1>10 DEF HandlerTakesResult, historyVars
  <2>2. \A m \in Cmd : status[m] = "absent" => status'[m] = "absent"
    BY <1>10, ResultTaken DEF TypeOK, Terminal
  <2> QED
    BY <2>1, <2>2
<1>11. CASE UNCHANGED <<request, status, waited>>
  BY <1>1, <1>11 DEF Grows
<1>12. ASSUME NEW c \in Conn, HandlerStep(c), ~HandlerCommitsSent(c),
              ~HandlerTakesResult(c)
       PROVE  UNCHANGED <<request, status, waited>>
  BY <1>12 DEF HandlerStep, HandlerSelectsPending, HandlerRedelivers,
     HandlerSetupFails, HandlerLeaves, HandlerEnds, serverVars, historyVars
<1>13. AgentStep => UNCHANGED <<request, status, waited>>
  BY AgentGrows DEF serverVars
<1>14. ASSUME NEW c \in Conn, NEW w \in Worker, AgentConnects(c, w)
       PROVE  UNCHANGED <<request, status, waited>>
  BY <1>14 DEF AgentConnects, serverVars, historyVars
<1>15. UNCHANGED vars => UNCHANGED <<request, status, waited>>
  BY DEF vars, serverVars, historyVars
<1> QED
  BY <1>3, <1>4, <1>5, <1>6, <1>7, <1>8, <1>9, <1>10, <1>11, <1>12, <1>13,
     <1>14, <1>15 DEF Next, RequestStep

\* What a handler has to send, or has sent, waited for it.
LEMMA DrainsStep ==
    ASSUME Inv, [Next]_vars
    PROVE  DrainsOK'
<1> USE DEF Inv, DrainsOK
<1>1. Grows
  BY StepGrows
<1>2. ASSUME NEW c \in Conn, HandlerSelectsPending(c)
      PROVE  DrainsOK'
  <2>1. \A e \in Conn : toDrain'[e] \subseteq waited
    BY <1>2 DEF HandlerSelectsPending, TypeOK, StatusOK
  <2> QED
    BY <1>1, <1>2, <2>1 DEF HandlerSelectsPending, Grows
<1>3. ASSUME NEW c \in Conn, NEW m \in Cmd, HandlerRedelivers(c, m)
      PROVE  DrainsOK'
  <2>1. m \in waited
    BY <1>3 DEF HandlerRedelivers
  <2>2. PICK sent \in BOOLEAN :
            /\ Send(c, [cmd |-> m, via |-> "drain"], sent)
            /\ marked' = IF sent THEN [marked EXCEPT ![c] = @ \cup {m}] ELSE marked
    BY <1>3 DEF HandlerRedelivers
  <2>3. ASSUME sent PROVE m \in wired'
    BY <2>2, <2>3 DEF Send
  <2>4. toDrain' = [toDrain EXCEPT ![c] = @ \ {m}]
    BY <1>3 DEF HandlerRedelivers
  <2>5. \A e \in Conn : toDrain'[e] \subseteq waited
    BY <2>4 DEF TypeOK
  <2>6. \A e \in Conn : marked'[e] \subseteq waited \cap wired'
    BY <1>1, <2>1, <2>2, <2>3 DEF TypeOK, Grows
  <2> QED
    BY <1>1, <2>5, <2>6 DEF Grows
<1>4. ASSUME NEW c \in Conn, HandlerCommitsSent(c)
      PROVE  DrainsOK'
  BY <1>1, <1>4 DEF HandlerCommitsSent, Grows, TypeOK
<1>5. ASSUME NEW S, ForgetConnections(S)
      PROVE  DrainsOK'
  BY <1>1, <1>5 DEF ForgetConnections, Grows
<1>6. CASE UNCHANGED <<toDrain, marked>>
  BY <1>1, <1>6 DEF Grows
<1>7. ASSUME NEW c \in Conn, HandlerStep(c)
      PROVE  DrainsOK'
  BY <1>2, <1>3, <1>4, <1>5, <1>6, <1>7
     DEF HandlerStep, HandlerTakesResult, HandlerSetupFails, HandlerLeaves,
         HandlerEnds, serverVars
<1>8. ASSUME NEW m \in Cmd, RequestStep(m)
      PROVE  UNCHANGED <<toDrain, marked>>
  BY <1>8 DEF RequestStep, DispatchSends, DispatchCommits, InsertPending,
              InsertedSends, RequestFails
<1>9. AgentStep => UNCHANGED <<toDrain, marked>>
  BY AgentGrows DEF serverVars
<1>10. ASSUME NEW c \in Conn, NEW w \in Worker, AgentConnects(c, w)
       PROVE  UNCHANGED <<toDrain, marked>>
  BY <1>10 DEF AgentConnects, serverVars
<1>11. ASSUME NEW w \in Worker, WorkerCrashes(w)
       PROVE  DrainsOK'
  BY <1>5, <1>11 DEF WorkerCrashes
<1>12. UNCHANGED vars => UNCHANGED <<toDrain, marked>>
  BY DEF vars, serverVars
<1> QED
  BY <1>6, <1>7, <1>8, <1>9, <1>10, <1>11, <1>12 DEF Next

LEMMA InvStep ==
    ASSUME Inv, [Next]_vars
    PROVE  Inv'
BY TypeStep, MessagesStep, RequestsStep, DrainsStep, StatusStep DEF Inv

(* Every reachable state satisfies the inductive invariant.                *)
THEOREM Invariant == Spec => []Inv
<1>1. Init => Inv
  BY InvInit
<1>2. Inv /\ [Next]_vars => Inv'
  BY InvStep
<1> QED
  BY <1>1, <1>2, PTL DEF Spec

(* No status past "pending" is written without a successful send.          *)
THEOREM SentIsWired == Spec => []SentMeansWired
<1>1. Inv => SentMeansWired
  BY DEF Inv, StatusOK
<1> QED
  BY <1>1, Invariant, PTL

(* _handle_command_result completes only commands that succeeded.          *)
THEOREM CompletedIsSucceeded == Spec => []CompletedMeansSucceeded
<1>1. Inv => CompletedMeansSucceeded
  BY DEF Inv, StatusOK
<1> QED
  BY <1>1, Invariant, PTL

-----------------------------------------------------------------------------
(* The server implements CommandLifecycle.                                 *)

LEMMA LifecycleStep ==
    ASSUME Inv, [Next]_vars
    PROVE  [Lifecycle!Next]_status
<1> USE DEF Inv
<1>1. ASSUME NEW m \in Cmd, DispatchCommits(m)
      PROVE  Lifecycle!Create(m)
  <2>1. status[m] = "absent"
    BY <1>1 DEF DispatchCommits, RequestsOK
  <2> QED
    BY <1>1, <2>1
       DEF DispatchCommits, Lifecycle!Create
<1>2. ASSUME NEW m \in Cmd, NEW w \in Worker, InsertPending(m, w)
      PROVE  Lifecycle!Create(m)
  BY <1>2 DEF InsertPending, RequestsOK, Lifecycle!Create
<1>3. ASSUME NEW c \in Conn, HandlerCommitsSent(c)
      PROVE  \E S \in SUBSET Cmd : Lifecycle!Deliver(S)
  <2> DEFINE S == {m \in marked[c] : status[m] = "pending"}
  <2>1. marked[c] \subseteq waited /\ S \in SUBSET Cmd
    BY <1>3 DEF DrainsOK, TypeOK
  <2>2. \A m \in marked[c] \ S : status[m] = "sent"
    BY <2>1 DEF StatusOK, WaitedUnanswered
  <2>3. [m \in Cmd |-> IF m \in marked[c] THEN "sent" ELSE status[m]]
            = [m \in Cmd |-> IF m \in S THEN "sent" ELSE status[m]]
    BY <2>2
  <2>4. Lifecycle!Deliver(S)
    BY <1>3, <2>3 DEF HandlerCommitsSent, Lifecycle!Deliver
  <2> QED
    BY <2>1, <2>4
<1>4. ASSUME NEW c \in Conn, HandlerTakesResult(c)
      PROVE  \/ UNCHANGED status
             \/ \E m \in Cmd, outcome \in Terminal : Lifecycle!Report(m, outcome)
  <2>1. Lifecycle!Terminal = Terminal
    BY DEF Lifecycle!Terminal, Terminal
  <2> QED
    BY <1>4, <2>1, ResultTaken DEF Lifecycle!Report
<1>5. ~Writes => UNCHANGED status
  BY StatusFrame
<1>6. Lifecycle!Terminal = Terminal
  BY DEF Lifecycle!Terminal, Terminal
<1> QED
  BY <1>1, <1>2, <1>3, <1>4, <1>5, <1>6 DEF Writes, Lifecycle!Next

(* Every behaviour of the server, seen through the committed rows, is one  *)
(* that CommandLifecycle allows.                                           *)
THEOREM ImplementsLifecycle == Spec => LifecycleSpec
<1>1. Init => Lifecycle!Init
  BY DEF Init, Lifecycle!Init
<1>2. Inv /\ [Next]_vars => [Lifecycle!Next]_status
  BY LifecycleStep
<1> QED
  BY <1>1, <1>2, Invariant, PTL DEF Spec, LifecycleSpec, Lifecycle!Spec

-----------------------------------------------------------------------------
(* A command that reached its agent at once is started at most once.       *)

LEMMA OnceShrinks ==
    ASSUME TypeOK, OnceOK, Grows, runs' = runs,
           \A e \in Conn : toAgent'[e] \subseteq toAgent[e],
           \A m \in Cmd : request'[m] = "new" => request[m] = "new"
    PROVE  OnceOK'
BY DEF OnceOK, Grows, TypeOK, Only

LEMMA OnceRequestStep ==
    ASSUME Inv, OnceOK, Grows, NEW m \in Cmd, RequestStep(m)
    PROVE  OnceOK'
<1> USE DEF Inv
<1>1. Only(m) \in Message /\ Only(m).cmd = m /\ Only(m).via = "request"
  BY DEF Message, Only
<1>2. ASSUME NEW w \in Worker, DispatchSends(m, w)
      PROVE  OnceOK'
  <2>1. PICK sent \in BOOLEAN : SendToAgent(w, Only(m), sent)
    BY <1>2 DEF DispatchSends, Only
  <2>2. \A e \in Conn : \A x \in toAgent'[e] :
            x \in toAgent[e] \/ (x = Only(m) /\ e = agents[w][deviceOfCmd[m]])
    BY <1>1, <2>1, SendToAgentAdds
  <2>3. request[m] = "new" /\ request'[m] # "new" /\ m \notin waited
    BY <1>2 DEF DispatchSends, TypeOK, RequestsOK, StatusOK, WaitedUnanswered
  <2>4. UNCHANGED <<waited, runs>> /\ \A n \in Cmd \ {m} : request'[n] = request[n]
    BY <1>2 DEF DispatchSends, TypeOK
  <2>5. runs[m] = 0 /\ \A e \in Conn : Only(m) \notin toAgent[e]
    BY <2>3 DEF OnceOK
  <2>6. \A n \in Cmd \ {m} : \A e \in Conn :
            Only(n) \in toAgent'[e] => Only(n) \in toAgent[e]
    BY <2>2 DEF Only
  <2>7. \A e \in Conn : \A x \in toAgent'[e] : x.via = "drain" => x.cmd \in waited'
    BY <1>1, <2>2, <2>4 DEF OnceOK
  <2>8. ASSUME NEW n \in Cmd \ waited', n # m
        PROVE  /\ runs'[n] \in {0, 1}
               /\ request'[n] = "new" =>
                    runs'[n] = 0 /\ \A e \in Conn : Only(n) \notin toAgent'[e]
               /\ \A e \in Conn : Only(n) \in toAgent'[e] => runs'[n] = 0
               /\ \A b, e \in Conn :
                    Only(n) \in toAgent'[b] /\ Only(n) \in toAgent'[e] => b = e
    BY <2>4, <2>6, <2>8 DEF OnceOK
  <2>9. /\ runs'[m] \in {0, 1}
        /\ request'[m] # "new"
        /\ \A e \in Conn : Only(m) \in toAgent'[e] => runs'[m] = 0
        /\ \A b, e \in Conn :
             Only(m) \in toAgent'[b] /\ Only(m) \in toAgent'[e] => b = e
    BY <2>2, <2>3, <2>4, <2>5
  <2> QED
    BY <2>7, <2>8, <2>9 DEF OnceOK, Only
<1>3. CASE InsertedSends(m)
  <2>1. reqWorker[m] \in Worker /\ m \in waited
    BY <1>3 DEF InsertedSends, TypeOK, RequestsOK
  <2>2. PICK sent \in BOOLEAN : SendToAgent(reqWorker[m], Only(m), sent)
    BY <1>3 DEF InsertedSends, Only
  <2>3. \A e \in Conn : \A x \in toAgent'[e] : x \in toAgent[e] \/ x = Only(m)
    BY <1>1, <2>1, <2>2, SendToAgentAdds
  <2>4. UNCHANGED <<waited, runs>>
    BY <1>3 DEF InsertedSends
  <2>5. \A n \in Cmd : request'[n] = "new" => request[n] = "new"
    BY <1>3 DEF InsertedSends, TypeOK
  <2>6. \A n \in Cmd \ waited : \A e \in Conn :
            Only(n) \in toAgent'[e] => Only(n) \in toAgent[e]
    BY <2>1, <2>3 DEF Only
  <2>7. \A e \in Conn : \A x \in toAgent'[e] : x.via = "drain" => x.cmd \in waited'
    BY <1>1, <2>3, <2>4 DEF OnceOK
  <2> QED
    BY <2>4, <2>5, <2>6, <2>7 DEF OnceOK, Only
<1>4. ASSUME \/ DispatchCommits(m)
             \/ \E w \in Worker : InsertPending(m, w)
             \/ RequestFails(m)
      PROVE  OnceOK'
  <2>1. runs' = runs /\ toAgent' = toAgent
    BY <1>4 DEF DispatchCommits, InsertPending, RequestFails, wireVars, historyVars
  <2>2. \A n \in Cmd : request'[n] = "new" => request[n] = "new"
    BY <1>4 DEF DispatchCommits, InsertPending, RequestFails, TypeOK
  <2> QED
    BY <2>1, <2>2, OnceShrinks
<1> QED
  BY <1>2, <1>3, <1>4 DEF RequestStep

LEMMA OnceHandlerStep ==
    ASSUME Inv, OnceOK, Grows, NEW c \in Conn, HandlerStep(c)
    PROVE  OnceOK'
<1> USE DEF Inv
<1>1. ASSUME NEW m \in Cmd, HandlerRedelivers(c, m)
      PROVE  OnceOK'
  <2>1. [cmd |-> m, via |-> "drain"] \in Message /\ m \in waited
    BY <1>1 DEF Message, HandlerRedelivers, DrainsOK
  <2>2. \A e \in Conn : \A x \in toAgent'[e] :
            x \in toAgent[e] \/ x = [cmd |-> m, via |-> "drain"]
    BY <1>1, <2>1, SendAdds DEF HandlerRedelivers
  <2>3. UNCHANGED <<waited, runs, request>>
    BY <1>1 DEF HandlerRedelivers
  <2>4. \A n \in Cmd : \A e \in Conn :
            Only(n) \in toAgent'[e] => Only(n) \in toAgent[e]
    BY <2>2 DEF Only
  <2>5. \A e \in Conn : \A x \in toAgent'[e] : x.via = "drain" => x.cmd \in waited'
    BY <2>1, <2>2, <2>3 DEF OnceOK
  <2> QED
    BY <2>3, <2>4, <2>5 DEF OnceOK, Only
<1>2. ASSUME \A m \in Cmd : ~HandlerRedelivers(c, m)
      PROVE  OnceOK'
  <2>1. UNCHANGED <<runs, request>>
    BY <1>2 DEF HandlerStep, HandlerSelectsPending, HandlerCommitsSent,
       HandlerTakesResult, HandlerSetupFails, HandlerLeaves, HandlerEnds,
       serverVars, historyVars
  <2>2. \A e \in Conn : toAgent'[e] \subseteq toAgent[e]
    BY <1>2 DEF HandlerStep, HandlerSelectsPending, HandlerCommitsSent,
       HandlerTakesResult, HandlerSetupFails, HandlerLeaves, HandlerEnds,
       ForgetConnections, wireVars
  <2> QED
    BY <2>1, <2>2, OnceShrinks
<1> QED
  BY <1>1, <1>2

LEMMA OnceAgentStep ==
    ASSUME Inv, OnceOK, Grows, AgentStep
    PROVE  OnceOK'
<1> USE DEF Inv
<1>1. waited' = waited /\ request' = request
  BY AgentGrows DEF serverVars
<1>2. ASSUME NEW c \in Conn, NEW x \in toAgent[c], AgentReceives(c, x)
      PROVE  OnceOK'
  <2>1. x \in Message /\ x.cmd \in Cmd
    BY DEF TypeOK, Message
  <2>2. toAgent' = [toAgent EXCEPT ![c] = @ \ {x}]
    BY <1>2 DEF AgentReceives
  <2>3. \A e \in Conn : toAgent'[e] \subseteq toAgent[e]
    BY <2>2 DEF TypeOK
  <2>4. \A n \in Cmd \ {x.cmd} : runs'[n] = runs[n]
    BY <1>2 DEF AgentReceives, TypeOK
  <2>5. CASE x.cmd \in waited
    BY <1>1, <2>3, <2>4, <2>5 DEF OnceOK
  <2>6. CASE x.cmd \notin waited
    <3>1. x = Only(x.cmd)
      BY <2>1, <2>6 DEF OnceOK, Message, Only
    <3>2. runs[x.cmd] = 0 /\ request[x.cmd] # "new"
      BY <2>1, <2>6, <3>1 DEF OnceOK
    <3>3. runs'[x.cmd] \in {0, 1}
      <4>1. CASE Understood(x)
        <5>1. runs' = [runs EXCEPT ![x.cmd] = IF @ = 2 THEN 2 ELSE @ + 1]
          BY <1>2, <4>1 DEF AgentReceives
        <5> QED
          BY <2>1, <3>2, <5>1 DEF TypeOK
      <4>2. CASE ~Understood(x)
        BY <1>2, <3>2, <4>2 DEF AgentReceives
      <4> QED
        BY <4>1, <4>2
    <3>4. \A e \in Conn : Only(x.cmd) \notin toAgent'[e]
      BY <2>1, <2>2, <2>6, <3>1 DEF OnceOK, TypeOK
    <3> QED
      BY <1>1, <2>1, <2>3, <2>4, <3>2, <3>3, <3>4 DEF OnceOK
  <2> QED
    BY <2>5, <2>6
<1>3. ASSUME \A c \in Conn : \A x \in toAgent[c] : ~AgentReceives(c, x)
      PROVE  OnceOK'
  <2>1. runs' = runs
    BY <1>3 DEF AgentStep, LinkDrops, AgentStreams, AgentFinishes, AgentSends,
                AgentRestarts, historyVars
  <2>2. \A e \in Conn : toAgent'[e] \subseteq toAgent[e]
    BY <1>3 DEF AgentStep, LinkDrops, AgentStreams, AgentFinishes, AgentSends,
                AgentRestarts, TypeOK
  <2> QED
    BY <1>1, <2>1, <2>2, OnceShrinks
<1> QED
  BY <1>2, <1>3

LEMMA OnceStep ==
    ASSUME Inv, OnceOK, [Next]_vars
    PROVE  OnceOK'
<1>1. Grows /\ TypeOK
  BY StepGrows DEF Inv
<1>2. ASSUME NEW c \in Conn, NEW w \in Worker, AgentConnects(c, w)
      PROVE  OnceOK'
  <2>1. UNCHANGED <<runs, toAgent, request>>
    BY <1>2 DEF AgentConnects, serverVars, wireVars, historyVars
  <2> QED
    BY <1>1, <2>1, OnceShrinks
<1>3. ASSUME NEW w \in Worker, WorkerCrashes(w)
      PROVE  OnceOK'
  <2>1. runs' = runs /\ \A e \in Conn : toAgent'[e] \subseteq toAgent[e]
    BY <1>3 DEF WorkerCrashes, ForgetConnections, historyVars
  <2>2. \A m \in Cmd : request'[m] = "new" => request[m] = "new"
    BY <1>3 DEF WorkerCrashes
  <2> QED
    BY <1>1, <2>1, <2>2, OnceShrinks
<1>4. CASE UNCHANGED vars
  <2>1. UNCHANGED <<runs, toAgent, request>>
    BY <1>4 DEF vars, serverVars, wireVars, historyVars
  <2> QED
    BY <1>1, <2>1, OnceShrinks
<1> QED
  BY <1>1, <1>2, <1>3, <1>4, OnceRequestStep, OnceHandlerStep, OnceAgentStep DEF Next

(* A command that dispatch_command could send at once is never redelivered *)
(* and never started twice, whatever connections and workers do.           *)
THEOREM RunsOnce == Spec => []RunOnceUnlessWaited
<1>1. Init => Inv /\ OnceOK
  BY InvInit
<1>2. (Inv /\ OnceOK) /\ [Next]_vars => (Inv /\ OnceOK)'
  BY InvStep, OnceStep
<1>3. Inv /\ OnceOK => RunOnceUnlessWaited
  BY DEF OnceOK, RunOnceUnlessWaited
<1> QED
  BY <1>1, <1>2, <1>3, PTL DEF Spec
=============================================================================
