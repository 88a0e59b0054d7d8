------------------------------- MODULE Rollout -------------------------------
(***************************************************************************)
(* Software and patches: the endpoints of api/v1/software.py that store a  *)
(* package and deploy it, deploy_patches of api/v1/patches.py, and what    *)
(* the agent does with their messages (command_handler.py, thirdparty.py,  *)
(* wua.py).                                                                *)
(*                                                                         *)
(* Nothing serves the download_url of a package: the agent saves the error *)
(* page, and msiexec refuses it.  The tasks of patch_tasks.py run in a     *)
(* process that has no connections and reach nobody.  A deployment has no  *)
(* correlation id, so the agent's result is dropped by the server, and its *)
(* row stays as it was committed.  A worker's registry of agents is        *)
(* ConnectionRegistry's; what matters of it here is that an entry may be   *)
(* stale, and missing for an agent that is connected.                      *)
(***************************************************************************)
EXTENDS Naturals, Sequences

CONSTANTS
    Worker,       \* the server's processes, each with a registry of its own
    NoWorker,     \* "not connected"
    Device,
    Unknown,      \* ids of devices that are not there
    Package,
    Update,       \* updates Windows may miss
    Targets,      \* the device_ids of a deployment: sequences
    Request,      \* bounds the requests served at a time
    NoPackage,
    MaxRow,       \* bounds the deployments
    MaxTrigger    \* bounds the calls of deploy_patches

ASSUME RolloutAssumption ==
    /\ Targets \subseteq Seq(Device \cup Unknown)
    /\ MaxRow \in Nat /\ MaxTrigger \in Nat
    /\ NoPackage \notin Package /\ NoWorker \notin Worker

VARIABLES
    disk,         \* the packages whose file is written
    package,      \* the committed SoftwarePackage rows: [winget, file]
    request,      \* the requests being served
    flushed,      \* how many SoftwareDeployment rows were flushed
    row,          \* those committed: [package, device, action, status]
    triggers,     \* how often deploy_patches was called
    registered,   \* the devices in the registry of each worker
    link,         \* the worker that serves each agent's connection
    wire,         \* the messages on the way to each agent
    tasks,        \* the tasks each agent has created and not begun, in order
    downloading,  \* the deployments that wait for their download
    installed,    \* the packages on each device
    missing,      \* the updates each device lacks
    ran           \* history: the deployments each agent has given to winget

packageVars == <<disk, package>>
deployVars == <<request, flushed, row, triggers>>
linkVars == <<registered, link>>
agentVars == <<tasks, downloading, installed, missing, ran>>
vars == <<packageVars, deployVars, linkVars, wire, agentVars>>

RowId == 1 .. MaxRow
Action == {"install", "uninstall", "update"}
Idle == [at |-> "idle", rows |-> <<>>]
Source == [winget : BOOLEAN, file : BOOLEAN]
Flushed == [package : Package, device : Device, action : Action, status : {"pending", "sent"}]
Message ==
    [type : {"command_dispatch"}, id : RowId, package : Package, action : Action]
    \cup [type : {"patch_trigger"}, all : BOOLEAN]
Dispatched(message) == message.type = "command_dispatch"

(* A package with a file has the file on disk; a committed deployment has  *)
(* its package, and a request at work holds no committed row.              *)
TypeOK ==
    /\ disk \subseteq Package
    /\ package \in [Package -> Source \cup {NoPackage}]
    /\ \A p \in Package : package[p] # NoPackage /\ package[p].file => p \in disk
    /\ flushed \in 0 .. MaxRow
    /\ DOMAIN row \subseteq 1 .. flushed
    /\ \A i \in DOMAIN row : row[i] \in Flushed /\ package[row[i].package] # NoPackage
    /\ \A r \in Request : DOMAIN request[r].rows \cap DOMAIN row = {}
    /\ triggers \in 0 .. MaxTrigger
    /\ registered \in [Worker -> SUBSET Device]
    /\ link \in [Device -> Worker \cup {NoWorker}]
    /\ wire \in [Device -> Seq(Message)]
    /\ tasks \in [Device -> Seq(Message)]
    /\ downloading \in [Device -> SUBSET RowId]
    /\ installed \in [Device -> SUBSET Package]
    /\ missing \in [Device -> SUBSET Update]
    /\ ran \in [Device -> Seq(RowId)]

Init ==
    /\ disk = {}
    /\ package = [p \in Package |-> NoPackage]
    /\ request = [r \in Request |-> Idle]
    /\ flushed = 0
    /\ row = <<>>
    /\ triggers = 0
    /\ registered = [w \in Worker |-> {}]
    /\ link = [d \in Device |-> NoWorker]
    /\ wire = [d \in Device |-> <<>>]
    /\ tasks = [d \in Device |-> <<>>]
    /\ downloading = [d \in Device |-> {}]
    /\ installed = [d \in Device |-> {}]
    /\ missing = [d \in Device |-> Update]
    /\ ran = [d \in Device |-> <<>>]

-----------------------------------------------------------------------------
\* Variant: the row is committed first.
StoreFileLater(p) ==
    /\ p \notin disk
    /\ package[p] = NoPackage
    /\ package' = [package EXCEPT ![p] = [winget |-> FALSE, file |-> TRUE]]
    /\ UNCHANGED <<disk, deployVars, linkVars, wire, agentVars>>

(* upload_package: the file is written, under a name of its own; then the  *)
(* row is committed.  A request that dies between leaves the file.         *)
StoreFile(p) ==
    /\ p \notin disk
    /\ package[p] = NoPackage
    /\ disk' = disk \cup {p}
    /\ UNCHANGED <<package, deployVars, linkVars, wire, agentVars>>

CommitPackage(p) ==
    /\ package[p] = NoPackage
    /\ \E winget \in BOOLEAN :
          package' = [package EXCEPT ![p] = [winget |-> winget, file |-> p \in disk]]
    /\ UNCHANGED <<disk, deployVars, linkVars, wire, agentVars>>

-----------------------------------------------------------------------------
(* deploy_package, on one of the workers.                                  *)
LoadPackage(r) ==
    /\ request[r] = Idle
    /\ \E w \in Worker, p \in Package, action \in Action, targets \in Targets :
          /\ package[p] # NoPackage
          /\ flushed + Len(targets) <= MaxRow
          /\ request' = [request EXCEPT ![r] =
                [at |-> "deploying", worker |-> w, package |-> p, action |-> action,
                 todo |-> targets, rows |-> <<>>]]
    /\ UNCHANGED <<packageVars, flushed, row, triggers, linkVars, wire, agentVars>>

(* send_to_agent on worker w, and what it returns.  A device that is not   *)
(* registered is sent nothing; through a stale entry the message is lost,  *)
(* whether or not the socket tells.                                        *)
SendToAgent(w, d, message, returned) ==
    \/ /\ d \notin registered[w]
       /\ returned = FALSE
       /\ UNCHANGED wire
    \/ /\ d \in registered[w] /\ link[d] = w
       /\ returned = TRUE
       /\ wire' = [wire EXCEPT ![d] = Append(@, message)]
    \/ /\ d \in registered[w] /\ link[d] # w
       /\ returned \in BOOLEAN
       /\ UNCHANGED wire

(* One device: its row is flushed, its message sent, and the status the    *)
(* row has by default overwritten if send_to_agent returned True.          *)
DeployTo(r) ==
    LET q == request[r]
        d == Head(q.todo)
        i == flushed + 1
        new(sent) == [package |-> q.package, device |-> d, action |-> q.action,
                      status |-> IF sent THEN "sent" ELSE "pending"]
        message == [type |-> "command_dispatch", id |-> i, package |-> q.package, action |-> q.action]
    IN
    /\ q.at = "deploying"
    /\ q.todo # <<>>
    /\ d \in Device
    /\ flushed < MaxRow
    /\ flushed' = i
    /\ \E sent \in BOOLEAN :
          /\ SendToAgent(q.worker, d, message, sent)
          /\ request' = [request EXCEPT ![r] = [q EXCEPT !.todo = Tail(@),
                !.rows = [j \in DOMAIN @ \cup {i} |-> IF j = i THEN new(sent) ELSE @[j]]]]
    /\ UNCHANGED <<packageVars, row, triggers, linkVars, agentVars>>

CommitDeployment(r) ==
    /\ request[r].at = "deploying"
    /\ request[r].todo = <<>>
    /\ row' = [i \in DOMAIN row \cup DOMAIN request[r].rows |->
                  IF i \in DOMAIN row THEN row[i] ELSE request[r].rows[i]]
    /\ request' = [request EXCEPT ![r] = Idle]
    /\ UNCHANGED <<packageVars, flushed, triggers, linkVars, wire, agentVars>>

(* The flush of a device that is not there raises; or the worker dies.     *)
(* The rows are rolled back, the messages are not.                         *)
DeploymentFails(r) ==
    /\ request[r].at = "deploying"
    /\ request' = [request EXCEPT ![r] = Idle]
    /\ UNCHANGED <<packageVars, flushed, row, triggers, linkVars, wire, agentVars>>

(* deploy_patches, with a list of patches or without; it is one message to *)
(* each device and no row.                                                 *)
DeployPatches(w, d, all) ==
    /\ triggers < MaxTrigger
    /\ triggers' = triggers + 1
    /\ \E sent \in BOOLEAN : SendToAgent(w, d, [type |-> "patch_trigger", all |-> all], sent)
    /\ UNCHANGED <<packageVars, request, flushed, row, linkVars, agentVars>>

-----------------------------------------------------------------------------
Connects(d, w) ==
    /\ link[d] = NoWorker
    /\ link' = [link EXCEPT ![d] = w]
    /\ registered' = [registered EXCEPT ![w] = @ \cup {d}]
    /\ UNCHANGED <<packageVars, deployVars, wire, agentVars>>

(* The entry stays until some handler of the device on that worker ends.   *)
(* What the agent has not read is lost.                                    *)
LinkDrops(d) ==
    /\ link[d] # NoWorker
    /\ link' = [link EXCEPT ![d] = NoWorker]
    /\ wire' = [wire EXCEPT ![d] = <<>>]
    /\ UNCHANGED <<packageVars, deployVars, registered, agentVars>>

(* disconnect_agent; the handler may be that of an older connection.       *)
Unregisters(w, d) ==
    /\ d \in registered[w]
    /\ registered' = [registered EXCEPT ![w] = @ \ {d}]
    /\ UNCHANGED <<packageVars, deployVars, link, wire, agentVars>>

-----------------------------------------------------------------------------
(* handle() makes a task of every message and takes the next one.  Tasks   *)
(* begin in the order in which they were made.                             *)
Receive(d) ==
    /\ wire[d] # <<>>
    /\ tasks' = [tasks EXCEPT ![d] = Append(@, Head(wire[d]))]
    /\ wire' = [wire EXCEPT ![d] = Tail(@)]
    /\ UNCHANGED <<packageVars, deployVars, linkVars, downloading, installed, missing, ran>>

(* A deployment: install_via_winget and uninstall_via_winget wait for      *)
(* winget, and nothing else runs on the event loop until it is done;       *)
(* it may fail.  "update" is no command of the agent.                      *)
Wanted(message) == message.action \in {"install", "uninstall"}

Results(d, message) ==
    {installed[d], IF message.action = "install" THEN installed[d] \cup {message.package}
                                                 ELSE installed[d] \ {message.package}}

\* Variant: winget runs in a thread of its own, so that any may be first.
RunWingetInThread(d) ==
    \E k \in 1 .. Len(tasks[d]) :
        LET message == tasks[d][k] IN
        /\ Dispatched(message) /\ Wanted(message)
        /\ package[message.package].winget
        /\ tasks' = [tasks EXCEPT ![d] = SubSeq(@, 1, k - 1) \o SubSeq(@, k + 1, Len(@))]
        /\ ran' = [ran EXCEPT ![d] = Append(@, message.id)]
        /\ \E result \in Results(d, message) : installed' = [installed EXCEPT ![d] = result]
        /\ UNCHANGED <<packageVars, deployVars, linkVars, wire, downloading, missing>>

RunWinget(d) ==
    LET message == Head(tasks[d]) IN
    /\ tasks[d] # <<>>
    /\ Dispatched(message) /\ Wanted(message)
    /\ package[message.package].winget
    /\ tasks' = [tasks EXCEPT ![d] = Tail(@)]
    /\ ran' = [ran EXCEPT ![d] = Append(@, message.id)]
    /\ \E result \in Results(d, message) : installed' = [installed EXCEPT ![d] = result]
    /\ UNCHANGED <<packageVars, deployVars, linkVars, wire, downloading, missing>>

(* Without a winget_id it awaits the download, if there is a file; other   *)
(* tasks go on meanwhile.                                                  *)
StartDownload(d) ==
    LET message == Head(tasks[d]) IN
    /\ tasks[d] # <<>>
    /\ Dispatched(message)
    /\ ~(Wanted(message) /\ package[message.package].winget)
    /\ tasks' = [tasks EXCEPT ![d] = Tail(@)]
    /\ downloading' = [downloading EXCEPT ![d] =
          IF Wanted(message) /\ package[message.package].file THEN @ \cup {message.id} ELSE @]
    /\ UNCHANGED <<packageVars, deployVars, linkVars, wire, installed, missing, ran>>

(* The download fails or gives an error page: there is nothing to install. *)
DownloadEnds(d) ==
    /\ \E i \in downloading[d] : downloading' = [downloading EXCEPT ![d] = @ \ {i}]
    /\ UNCHANGED <<packageVars, deployVars, linkVars, wire, tasks, installed, missing, ran>>

(* install_patches blocks the event loop too.  The ids of a list are the   *)
(* server's, the agent looks for KB numbers: it finds none.  Each update   *)
(* may fail.                                                               *)
InstallPatches(d) ==
    LET message == Head(tasks[d]) IN
    /\ tasks[d] # <<>>
    /\ ~Dispatched(message)
    /\ tasks' = [tasks EXCEPT ![d] = Tail(@)]
    /\ \E done \in SUBSET (IF message.all THEN missing[d] ELSE {}) :
          missing' = [missing EXCEPT ![d] = @ \ done]
    /\ UNCHANGED <<packageVars, deployVars, linkVars, wire, downloading, installed, ran>>

(* The service is restarted: what it has not begun is lost.                *)
AgentRestarts(d) ==
    /\ tasks' = [tasks EXCEPT ![d] = <<>>]
    /\ downloading' = [downloading EXCEPT ![d] = {}]
    /\ link' = [link EXCEPT ![d] = NoWorker]
    /\ wire' = [wire EXCEPT ![d] = <<>>]
    /\ UNCHANGED <<packageVars, deployVars, registered, installed, missing, ran>>

-----------------------------------------------------------------------------
Next ==
    \/ \E p \in Package : StoreFile(p) \/ CommitPackage(p)
    \/ \E r \in Request :
          LoadPackage(r) \/ DeployTo(r) \/ CommitDeployment(r) \/ DeploymentFails(r)
    \/ \E d \in Device, w \in Worker :
          \/ \E all \in BOOLEAN : DeployPatches(w, d, all)
          \/ Connects(d, w) \/ Unregisters(w, d)
    \/ \E d \in Device :
          \/ LinkDrops(d) \/ Receive(d) \/ RunWinget(d) \/ StartDownload(d)
          \/ DownloadEnds(d) \/ InstallPatches(d) \/ AgentRestarts(d)

Spec == Init /\ [][Next]_vars

-----------------------------------------------------------------------------
(* Every deployment is a task of its own on the agent, some wait for a     *)
(* download, links drop, and requests of several workers send at once;     *)
(* still winget is run for a device at most once for each deployment and   *)
(* in the order in which they were sent: an "uninstall" never gives way to *)
(* an "install" that was sent before it.                                   *)
RunsInOrder ==
    \A d \in Device : \A j, k \in 1 .. Len(ran[d]) : j < k => ran[d][j] < ran[d][k]
=============================================================================
