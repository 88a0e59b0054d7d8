------------------------- MODULE ConnectionRegistry -------------------------
(***************************************************************************)
(* The agent side of core/ws_manager.py and the life of the handler        *)
(* agent_ws (api/websocket.py) that registers in it.                       *)
(*                                                                         *)
(* docker-compose.yml starts uvicorn with several worker processes, each   *)
(* with a ConnectionManager of its own, so the registry is one map per     *)
(* worker.  A connection is a slot: the WebSocket of one agent and the     *)
(* coroutine that serves it.  A slot is used again once its coroutine is   *)
(* over and no registry refers to it, so a behaviour may reconnect for     *)
(* ever.  The device table and the commands are added by DevicePresence    *)
(* and CommandDelivery, which extend this module.                          *)
(***************************************************************************)
EXTENDS Naturals, FiniteSets

CONSTANTS
    Device,      \* enrolled devices
    Worker,      \* uvicorn worker processes
    Conn,        \* connection slots
    deviceOf,    \* the device_id in the path of each slot's WebSocket
    NoConn,      \* "no entry in the registry"
    MaxFaults    \* bound on crashes and database errors in one behaviour

ASSUME DeviceOfAssumption == deviceOf \in [Conn -> Device]
ASSUME NoConnAssumption == NoConn \notin Conn
ASSUME MaxFaultsAssumption == MaxFaults \in Nat

VARIABLES
    agents,      \* ConnectionManager._agents of each worker
    pc,          \* where the coroutine of each slot stands
    worker,      \* the worker that serves, or served last, each slot
    link,        \* TRUE while the TCP connection is up
    faults       \* crashes and database errors so far

registryVars == <<agents, pc, worker, link, faults>>

\* "registered": in the registry, device row not yet marked online.
\* "online":     device row marked online, pending commands being sent.
\* "receiving":  inside the receive loop.
\* "leaving":    in the finally block, after disconnect_agent.
\* "failed":     left by an exception before the try block was entered.
Phase == {"closed", "registered", "online", "receiving", "leaving", "failed"}

Setup == {"registered", "online"}
Serving == Setup \cup {"receiving"}

RegistryTypeOK ==
    /\ agents \in [Worker -> [Device -> Conn \cup {NoConn}]]
    /\ pc \in [Conn -> Phase]
    /\ worker \in [Conn -> Worker]
    /\ link \in [Conn -> BOOLEAN]
    /\ faults \in 0 .. MaxFaults

Entry(c) == agents[worker[c]][deviceOf[c]]
Peers(c) == {e \in Conn \ {c} : deviceOf[e] = deviceOf[c]}
Free(c) == pc[c] = "closed" \/ (pc[c] = "failed" /\ Entry(c) # c)
Connected(d) == \E c \in Conn : deviceOf[c] = d /\ link[c]

-----------------------------------------------------------------------------
RegistryInit ==
    /\ agents = [w \in Worker |-> [d \in Device |-> NoConn]]
    /\ pc = [c \in Conn |-> "closed"]
    /\ worker \in [Conn -> Worker]
    /\ link = [c \in Conn |-> FALSE]
    /\ faults = 0

(* The agent has one WSClient, which opens a connection only after it gave *)
(* up the previous one.  The server may still be serving that one.         *)
ConnectAgent(c, w) ==
    /\ Free(c)
    /\ ~Connected(deviceOf[c])
    /\ agents' = [agents EXCEPT ![w][deviceOf[c]] = c]
    /\ pc' = [pc EXCEPT ![c] = "registered"]
    /\ worker' = [worker EXCEPT ![c] = w]
    /\ link' = [link EXCEPT ![c] = TRUE]
    /\ UNCHANGED faults

MarkOnline(c) ==
    /\ pc[c] = "registered"
    /\ pc' = [pc EXCEPT ![c] = "online"]
    /\ UNCHANGED <<agents, worker, link, faults>>

FinishSetup(c) ==
    /\ pc[c] = "online"
    /\ pc' = [pc EXCEPT ![c] = "receiving"]
    /\ UNCHANGED <<agents, worker, link, faults>>

(* The statements from connect_agent to the last commit stand outside the  *)
(* try block: an exception there ends the coroutine without the finally.   *)
SetupFails(c) ==
    /\ pc[c] \in Setup
    /\ faults < MaxFaults
    /\ faults' = faults + 1
    /\ pc' = [pc EXCEPT ![c] = "failed"]
    /\ link' = [link EXCEPT ![c] = FALSE]
    /\ UNCHANGED <<agents, worker>>

DropLink(c) ==
    /\ link[c]
    /\ link' = [link EXCEPT ![c] = FALSE]
    /\ UNCHANGED <<agents, pc, worker, faults>>

(* Variant: the finally block forgets disconnect_agent.                    *)
LeaveRegistered(c) ==
    /\ pc[c] = "receiving"
    /\ pc' = [pc EXCEPT ![c] = "leaving"]
    /\ UNCHANGED <<agents, worker, link, faults>>

(* WebSocketDisconnect when the link is down, an exception of a message    *)
(* handler when it is up.  disconnect_agent pops by device id.             *)
Leave(c) ==
    /\ pc[c] = "receiving"
    /\ agents' = [agents EXCEPT ![worker[c]][deviceOf[c]] = NoConn]
    /\ pc' = [pc EXCEPT ![c] = "leaving"]
    /\ UNCHANGED <<worker, link, faults>>

EndHandler(c) ==
    /\ pc[c] = "leaving"
    /\ pc' = [pc EXCEPT ![c] = "closed"]
    /\ link' = [link EXCEPT ![c] = FALSE]
    /\ UNCHANGED <<agents, worker>>

MarkOffline(c) == EndHandler(c) /\ UNCHANGED faults

(* The database refuses the update of the finally block.                   *)
MarkOfflineFails(c) ==
    /\ EndHandler(c)
    /\ faults < MaxFaults
    /\ faults' = faults + 1

(* A worker process dies with its registry, handlers and sockets.          *)
Crash(w) ==
    /\ faults < MaxFaults
    /\ faults' = faults + 1
    /\ agents' = [agents EXCEPT ![w] = [d \in Device |-> NoConn]]
    /\ pc' = [c \in Conn |-> IF worker[c] = w THEN "closed" ELSE pc[c]]
    /\ link' = [c \in Conn |-> link[c] /\ worker[c] # w]
    /\ UNCHANGED worker

RegistryNext ==
    \/ \E c \in Conn, w \in Worker : ConnectAgent(c, w)
    \/ \E c \in Conn :
        \/ MarkOnline(c)
        \/ FinishSetup(c)
        \/ SetupFails(c)
        \/ DropLink(c)
        \/ Leave(c)
        \/ MarkOffline(c)
        \/ MarkOfflineFails(c)
    \/ \E w \in Worker : Crash(w)

RegistrySpec == RegistryInit /\ [][RegistryNext]_registryVars

-----------------------------------------------------------------------------
(* What a worker finds under a device is a connection of that device that  *)
(* it serves itself and whose finally block has not run, or one whose      *)
(* setup raised: send_to_agent never uses a connection that was torn down. *)
RegisteredIsServed ==
    \A w \in Worker, d \in Device :
        LET c == agents[w][d]
        IN  c # NoConn =>
                /\ deviceOf[c] = d
                /\ worker[c] = w
                /\ pc[c] \in Serving \cup {"failed"}

(* ws_manager.py promises "a registry of connected agents": an agent with  *)
(* its link up and its handler in the receive loop is in its worker's      *)
(* registry once no older handler of the device is left.                   *)
ConnectedIsRegistered ==
    \A c \in Conn :
        /\ link[c]
        /\ pc[c] = "receiving"
        /\ \A e \in Peers(c) : pc[e] = "closed"
        => Entry(c) = c
=============================================================================
