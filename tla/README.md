# UEM: specifications

UEM manages Windows devices: a FastAPI server with PostgreSQL, Redis and Celery
(`server/backend`), a React console (`server/frontend`) and a Python agent on every
device (`agent`). This directory holds TLA+ models of the parts of it where several
processes, coroutines or connections act on the same state, the TLC configurations that
check them, and proofs of the main results for instances of any size. Paths are relative
to the repository's root; `app/` is `server/backend/app/`.

## 1. Inventory

| Component | State | Operations | Talks to |
|---|---|---|---|
| Agent connections (`app/core/ws_manager.py`, `app/api/websocket.py` `agent_ws`) | `_agents`: one map from device id to connection per uvicorn worker | connect, replace, send, disconnect, worker crash | agents (WebSocket), device rows, commands |
| Device presence (`app/api/websocket.py`, `app/workers/alert_tasks.py`) | `is_online`, `last_heartbeat`, `device_offline` alerts | mark online/offline, heartbeat, `check_offline_devices`, acknowledge/resolve | connections, Celery beat, database |
| Remote commands (`app/api/v1/commands.py`, `devices.py` wipe, `bitlocker.py`, agent `command_handler.py`, `remote/shell.py`) | `commands` rows; tasks and results in the agent | dispatch, wipe, enable BitLocker, redeliver, run, stream, report | connections, agent transport |
| Agent transport (`agent/src/transport/ws_client.py`) | send queue, one connection, send loops | put, connect, send, requeue, reconnect | every service of the agent, `agent_ws` |
| Sessions (`app/api/v1/auth.py`, `frontend/src/api/client.ts`, `store/auth.ts`, login page) | refresh-token rows, cookie, persisted access token, `isAuthenticated` and `failedQueue` per tab | login, refresh, logout, reload, deactivate, expiry | every API request |
| Enrollment (`devices.py`, `core/pki.py`, agent `enrollment.py`, `config.py`) | device rows and certificates; the agent's four files | enroll, save, connect, retire | database, agent disk |
| Certificate expiry (`alert_tasks.py` `check_certificate_expiry`) | certificates' remaining time, `certificate_expiry` alerts | check once a week, acknowledge/resolve | Celery beat, database |
| Inventory (`_handle_inventory`, agent `inventory/*`) | hardware, BitLocker, software and network rows of a device | collect, replace, refuse | connections |
| Compliance (`_handle_compliance_report`, agent `compliance/checker.py`) | score, status, one row per rule | score, store, refuse | connections |
| Policies (`policies.py`, `groups.py`, agent `policy/executor.py`) | policies with versions, assignments, groups; settings of a device | create, update, delete, assign, push, execute | connections |
| Software and patches (`software.py`, `patches.py`, agent `thirdparty.py`, `wua.py`) | packages and their files, deployments; what is installed | upload, deploy, trigger, install | connections |
| Start-up, users, roles (`main.py`, `core/rbac.py`, `users.py`) | tables, first administrator, rules, accounts | start, crash, create, change, delete, permission check | every endpoint |
| Console connections (`ws_manager.py`, `hooks/useWebSocket.ts`) | list of consoles per worker, reconnect timer | connect, broadcast, reconnect | handlers |
| File transfer (agent `remote/file_transfer.py`) | partial files on the device | write a chunk, read and send chunks | called for `file_upload` and `file_download` commands (`command_handler.py:58-79`); `websocket.py:102-109` forwards the chunks to the consoles |

What is hard in this code, by kind (PROJECT.json "hazards" has each at its line):

* **interleaving** - handlers of one device overlap, because the agent reconnects
  (after 5 seconds) long before the server notices that the old link is dead (ping
  timeout); executions of a Celery sweep overlap, because `acks_late` and four workers let
  queued sweeps run together after an outage; the agent's old send loops live on beside
  the new one; tabs of a browser share a refresh token.
* **atomicity** - rows are read, then awaited on, then written: the sweep and heartbeats,
  redelivery and the dispatch endpoint, `refresh`.
* **partial failure** - a message is sent before its row is committed; a set-up that
  raises before the `try` of `agent_ws`; a sweep of all devices undone by one.
* **crash** - a worker process takes its registry and its handlers with it, but no row; a sweep is
  killed before its commit; an enrollment dies in the middle of a file.
* **delivery** - a send succeeds on a dead link, or raises on a live one; a result comes twice,
  late or never; a logout is carried out and its answer is lost.
* **liveness** - pending commands, queued messages and requests have to leave in the end;
  workers that stop each other at start-up have to come up, an expiring certificate has to be
  reported again after its alert was closed.
* **protocol sequences** - a report with a value its column does not take ends the connection,
  and the agent sends it again on the next; two superadmins delete each other.

What makes each component correct: a registry entry is a connection that is being served,
and a served connection has one; presence follows the agent; no sent or answered command
becomes pending again and no answered one sent (an answer itself may be replaced by a later
one), a status says only what happened, and a command is run once; a message put in the queue
arrives, once and in order; an API request ends; a refresh token is used once; a device is
enrolled once, and a configuration it can read is complete; an expiring certificate is reported;
stored inventories, policies and scores equal one report, not a mixture of two; packages are
installed and removed in the order an administrator asked for.

The code does not do all of this. Where it does not, a property below says what it does do, and
section 3 names the exception.

## 2. Modules

| Module | Models | Extends |
|---|---|---|
| `ConnectionRegistry` | `ConnectionManager` (agent half) and the phases of `agent_ws` | |
| `DevicePresence` | presence, heartbeats, sweeps, alerts | `ConnectionRegistry` |
| `CommandLifecycle` | what the server promises of `Command.status` (abstract) | |
| `CommandDelivery` | the command machinery; implements `CommandLifecycle` | `ConnectionRegistry` |
| `AgentTransport` | `WSClient` with `asyncio.Queue` | |
| `Sessions` | tokens on the server, the interceptor in each tab | |
| `Enrollment` | `enroll()`, `enroll_device`, certificates, retirement | |
| `CertificateExpiry` | `check_certificate_expiry` and its alerts | |
| `ComplianceScore` | the score and the verdict, as operators | |
| `DeviceReports` | inventory and compliance reports of overlapping handlers | `ComplianceScore` |
| `Administration` | start-up of the workers, roles, user endpoints | |
| `Policies` | policies, groups, assignment, push, `execute_policy` | |
| `Rollout` | packages, deployments, patch triggers, installation | |
| `MC...` | small instances for TLC (`AgentTransport` and `CertificateExpiry` need none) | |
| `...Proofs` | theorems and proofs; `DevicePresenceProofs` also those of `ConnectionRegistry`, `EnrollmentProofs` those of `CertificateExpiry`, `AccessProofs` those of `Sessions` and `Administration` | the module |

A definition marked "Variant" is what a plausible mistake would make of the one it stands in
front of; nothing refers to it. PROJECT.json "mutants" pairs each with the property it breaks.

### ConnectionRegistry

`agents[w][d]` is `_agents` of worker `w`; there is one map per worker because
`docker-compose.yml:57` starts four processes. A *connection slot* `c` stands for one
WebSocket and its coroutine; `pc[c]` says between which awaits the coroutine stands:

| `pc` | code |
|---|---|
| `closed` | no coroutine |
| `registered` | after `connect_agent`, before the commit of `is_online = True` |
| `online` | after it, pending commands being sent (still outside `try`) |
| `receiving` | in the receive loop |
| `leaving` | in `finally`, after `disconnect_agent`, before the commit of `is_online = False` |
| `failed` | an exception left the coroutine before `try`, so the entry stays |

`link[c]` is the TCP connection. A link can drop at any moment; the handler learns of it
later (`Leave`). A handler may also leave while the link is up: an exception in a message
handler reaches the `finally` block. A slot is used again once it is closed and no registry
refers to it, so a finite number of slots gives behaviours with any number of reconnects.
`Crash(w)` ends every coroutine of a worker. Crashes and database errors count as `faults`,
bounded by `MaxFaults`.

`send` on a registered connection whose link is down may still succeed (the write lands
in a buffer): `CommandDelivery` loses the message then. Sends are atomic in the models.

### DevicePresence

Adds `isOnline`, `lastBeat` (NULL, within 15 minutes, older) and the sweep. An execution of
`check_offline_devices` is a slot too: it selects the stale devices, looks up the open alert
of one device after the other and commits everything at the end. It may be killed anywhere
before that (`SweepAborts`), and it raises when it finds a second open alert of a device, which
drops the whole execution (`SweepRaises`). A heartbeat that commits between select and commit
is overwritten, as in the code. `openAlerts` counts the rows with status `open`; both endpoints
that close an alert take one row out of the count. `stranded` is a history variable: a handler
died after it had marked the device online.

### CommandDelivery and CommandLifecycle

Each command has one request, of one of three kinds:

* `dispatch`: send if the agent is connected *to this worker*, then insert and commit with
  status `sent` or `pending` (send before commit);
* `wipe`: insert and commit `pending`, then send; the status stays `pending`;
* `bitlocker`: the same in what matters here, but the message lacks a field the agent's
  handler needs, so that the agent drops it (`Understood`).

A connecting handler selects the pending commands, sends each and commits them all as `sent`. The
agent starts a task per message, streams chunks (results without `success`) and reports; its outbox
is a set here (`AgentTransport` has the order). A result is looked up by the correlation id;
redelivery and the other two endpoints put the primary key there, so `Correlated` is true only of
messages `dispatch` sent itself. `waited` (the row has been pending), `wired`, `runs` and
`succeeded` are history.

`CommandLifecycle` is the promise, of `status` alone: a command is created waiting or sent, waiting
ones are delivered, only sent ones are answered; no step takes a sent or answered command back to
`pending`, or an answered one back to `sent`. An answer is not final: a chunk of output that comes
late turns `completed` into `failed` (`websocket.py:246`), and the module allows it. That
`CommandDelivery` implements it is not obvious, because the commit after a redelivery writes `sent`
by primary key, whatever another handler has stored meanwhile.

### AgentTransport

`asyncio.gather` does not cancel its other member when one raises. When a connection breaks,
its send loop survives, asleep in `Queue.get`, in front of the loop of the next connection.
The model has the queue, its FIFO of getters, and a slot per living send loop. Loops of dead
connections fail with the first message they take, put it back at the end and end. The same happens
to the loop of a *live* connection when `ws.send` or `json.dumps` raises, since the loop catches
every exception (`ws_client.py:106-112`): then no loop sends until the next connection, and
`EveryMessageIsSent` is about connections whose loop lives. A step is what the event loop runs
between two awaits; `Get` is inlined where the code does not yield.
After a clean close by the server the receive loop *returns*, so `gather` waits for the send
loop (`RunGivesUp`). The lengths of the delays (5 to 60 seconds) are left out.

### Sessions

The server's refresh tokens, the cookie the tabs share, and one interceptor per tab:
a request answered 401 either starts the refresh of its tab or waits in `failedQueue`.
`refresh` is two steps, the select and the commit. Access tokens expire with what they were
attached to (`carries`). The replacement token that `refresh` stores is not modelled as a
row, because it is never given to anybody. A failed refresh leaves the page, which ends
every request of the tab; a logout does not, so requests of the old session may overlap a
new login. The bare `axios.post` of login does not pass the interceptor, so a wrong
password is no step here.

A login is followed by `GET /users/me` (`Me`), which does pass the interceptor, and there a token
the store still holds takes the place of the new one (`client.ts:14-16`): after a reload, which
keeps `accessToken` and forgets `isAuthenticated`, that request may carry an expired token and go
through a refresh of its own. Only its answer makes the tab authenticated. A logout revokes the
token it came with (`brings`), also when its answer is lost; then the cookie stays. A request of
`Logout` is a logout or any other, which the model tells when it ends, because nothing depends on it
before. A simplification: while `refresh` of a tab stands between its select and its commit, the tab
does not give up and is not reloaded; both may happen right before and right after.

### Enrollment

An attempt `a` is one run of `agent_main.py enroll`; `client[a]` is where the program stands,
`server[a]` where the endpoint stands with its request. The name of an attempt also stands for
its keys, certificate and files, so `disk[m][f]` says of which attempt each file is. The UUID
and the serial number are read by two calls of `wmic`, each of which may fail by itself and
then gives a fallback or "None". The select and the insert of `enroll_device` are two steps; a
unique key makes an insert wait for an uncommitted one. Timeouts (30 seconds), lost
answers and kills between two files are `EnrollCutShort`; the request goes on on the server.
`write_text` empties a file before it writes it, so a run may also die inside a file
(`SaveCutShort`): what is left of it is in `torn`, beside files of older runs. `AgentConfig.load`
does not read a `config.json` that is torn (`Loads`). Two runs that write the same file at the
same instant are not modelled.

What the model says of the code, and no property repeats:

* The certificate is for a key pair the *server* makes and forgets (`pki.py:68`,
  `devices.py:49`), while the agent keeps the key of its own CSR: `KeyFits` never holds, and
  `load_cert_chain` refuses the pair in every attempt to connect.
* A second enrollment is always answered 409, because a row is never `pending` or `inactive`.
* `retire_device` sets the status (`RetireStarts`), then reads a relationship lazily in an async
  session, which raises and rolls back (`RetireRaises`, `devices.py:215`), so nothing ever retires,
  although the endpoint means to answer "Device retired". That a device stays enrolled is
  therefore a defect and not stated as a property.

### CertificateExpiry

`left[d]` is how long the certificate of a device is valid. An execution of
`check_certificate_expiry` selects the certificates with at most thirty days left - one that has
expired is among them - looks up the open alert of each device, and commits all new alerts at the
end. The task is due once a week (`celery_app.py:49-53`); executions overlap when one is redelivered
or queued. Two that overlap both insert; the second alert makes `scalar_one_or_none`
(`alert_tasks.py:86`) raise in every later execution, for all devices (`CheckRaises`), until an
administrator closes one. Executions may be killed (`CheckAborts`).

### DeviceReports and ComplianceScore

A handler takes one report at a time. An inventory goes through the select of the hardware
row, the delete of the software rows, of the network rows, the select of the BitLocker row, and
the commit, in which the session flushes its inserts; a compliance report through the update of
the device, the selects of the rules and the commit. PostgreSQL's READ COMMITTED is modelled by
what each statement has seen (`seen`, `seenRules`), by the rows a transaction has deleted and
not yet committed (`doomed`), for which another delete waits, and by the row lock of the device.
Rows carry the handler they are of. `RefuseInventory` and `RefuseCompliance` are the exceptions
that end the connection: unique keys, values a column does not take, and rule ids that name no
rule (the foreign key, at the commit) or are no UUID (at the select; `Foreign`). Among the values
are what Windows itself reports: `bios_date` and `install_date` are strings for `Date` columns,
`cpu_architecture` is a number for a `String` one.

`ComplianceScore!Scores` is a set, because the product of floats may lie on either side of a half;
`MCDeviceReports` checks it against its reference for up to 40 checks, and `ScoreExists` proves the
first two parts of that for any number. Its assumption `RoundingHides` places the boundary: 199 of
200 round to 100, and below 200 checks 100 hides nothing. Nothing in the agent calls
`evaluate_compliance`; the reports modelled are those its functions would give, and reports of a
rule that is not there.

### Administration

Every worker runs `_init_db` by itself: `create_all` inspects and then creates, the first
administrator is selected and then inserted, the rules are counted and then added. A conflict ends
the worker and the supervisor starts it again; the rules have no key, so two workers may add them
twice (`ruleSets`). An id is used again when no row and no request has it. A worker that serves
handles one user request at a time, in three steps: the permission check of the caller, the select
of the target, the commit. Its check is not repeated at the commit.

### Policies

`update_policy` and `assign_policy` are split at their selects and commits. An assignment
looks up each target, commits, and then pushes the policy *as it was loaded*; `stale` records that
it had changed. A push to a device that is not connected is dropped for good. The agent runs a push
to its end and in order; a script may stop after any statement, and a setting once made is
not taken back (`Script`, one operator per policy type). `raced` is history: a version was read,
incremented and written back over another one's.

In the code, seen while modelling: a target twice in one call gets two rows, and then every
later assignment of the policy to it raises in `scalar_one_or_none`; `is_active`
and `priority` are looked at by nothing; changing a policy reaches no device until it is
assigned again.

### Rollout

A deployment goes through its devices one after the other: flush the row, send, note the status;
the commit comes at the end, and a flush that raises rolls all rows back although messages have
left. The request looks into the registry of the worker it runs on (`registered[w]`), so an agent
connected to another worker is sent nothing, and an entry may be stale. The agent makes a task of
each message, and tasks begin in the order in which they were made: one with a winget id holds the
event loop until winget is done; one without awaits its download, and others go on meanwhile. The
rows stay as they were committed: a deployment has no correlation id, so results are dropped.

Seen while modelling: nothing inserts `Patch` rows (`approve_patches` answers 404), so no patch is
ever approved, and a trigger without a list installs everything Windows misses (`wua.py:72`), where
its docstring says "install all approved"; the ids `deploy_patches` sends are the server's UUIDs where
the agent looks for KB numbers; nothing serves `download_url`. The model has the outcomes of these
calls.

## 3. Runs

| Run | Instance | States | Shows |
|---|---|---|---|
| `DevicePresence` | 1 device, 2 connections, 2 workers, 2 sweeps, 1 fault | 584 k | types; registry entries are served; online needs a handler or a dead one; duplicate alerts bounded; a gone agent goes offline, a live one comes online |
| `CommandSafety` | 1 command of any kind, 2 connections, 2 workers, 1 fault | 649 k | the safety properties and the refinement of `CommandLifecycle` |
| `CommandLive` | 1 command, 2 connections, 2 workers, no fault | 705 k | a pending command is sent, also when the agent was connected to the other worker |
| `AgentTransport` | 3 messages, 3 loops | 94 k | nothing lost, doubled, stuck; order; connections given up |
| `Sessions` | 2 tabs, 3 requests, 2 tokens | 618 k | queue, token uses, termination |
| `Enrollment` | 2 machines with one serial number, 2 attempts | 83 k | one enrollment per device; a configuration that can be read is complete |
| `CertificateExpiry` | 2 certificates, 2 executions | 4 k | alerts bounded; an expiring certificate is reported again and again |
| `DeviceReports` | 2 handlers, 4 inventories, 5 compliance reports, 2 programs, 1 rule, 1 rule that is not there | 536 k | score, verdict and rows of one report; one generation of rows per handler; refusals have a cause; every report ends |
| `Administration` | 2 workers, 4 ids, 2 emails, 2 changes of a role, 1 crash | 521 k | somebody may administer; workers come up |
| `Policies` | 1 device in or out of 1 group, 1 unknown id, 1 policy, 2 configurations | 699 k | settings are those of an assigned policy; versions do not go back |
| `Rollout` | 1 device, 1 unknown id, 1 package, 2 workers, 2 requests, 2 rows, 1 trigger | 3.45 M | winget runs once per deployment and in order; a package row with a file has the file |
| `RegistryMissesReconnected` | 2 connections, no fault | - | **violated**, see below |

**Why the bounds suffice.** Devices do not interact except in one sweep's commit (one device shows
all handler races). Two connections give an old and a current handler, and slots are reused without
end; three of them on one and on two workers held the same properties in a longer run (1.2 million
states), and the invariants are proved for any number. Two workers give "connected elsewhere"; two
sweeps give every race of a check-then-insert. Commands share nothing but the lists of a draining
handler, and one command already meets two deliveries by two handlers. `MaxUplink = 1` is one result
on its way per connection; results still overtake each other between two connections, and the set of
tasks is not bounded. One fault: a second one only repeats what slots reused after the first can
show. In `AgentTransport` there is one copy of each message at a time - three messages and three
loops give an old loop in front, an old loop with a message in hand, and a current one. In `Sessions`
each tab has its `GET /users/me`, and one of them another request, which may be a logout: it queues
behind the refresh of the first or starts one itself, while the other tab races both for the token; a
token slot is reused when nobody can present it any more.

In `Enrollment` two attempts are a retry on one machine, or two machines cloned from one disk image;
a third meets nothing but a committed row, as the second does. In `CertificateExpiry` two executions
overlap, and the second device is there because the alerts of one make the check of the other fail.
In `DeviceReports` two handlers are the old and the new connection; the inventories are one that is
well formed, one of programs that no key tells apart, and the two ways to be refused; the compliance
reports disagree, name a rule twice or one that is not there, or are empty. In `Administration` two
workers give every race of a select and an insert, and two superadmins the deletion of each other. In
`Policies` the bodies name a device twice, a device that is not there, or a group; the USB policy is
the type whose configurations write different values, so that what is left behind shows. In `Rollout`
two deployments are enough for one to overtake the other, on one worker or on two, and a trigger adds
a task that stands between them.

**Fairness, and why.** Handlers run because the event loop runs every ready coroutine; a handler
whose link is gone leaves because uvicorn's keep-alive ping fails. Heartbeats are sent by a loop
that never stops; time passes; Celery beat starts sweeps, and once a week the expiry task
(`CertificateExpiry`), and an execution that is not killed goes on. Requests have a 30-second timeout
(`client.ts:9`); the refresh (`client.ts:55`) has none, and is assumed to end because TCP gives up. A
handler of a report is strongly fair, because PostgreSQL queues those that wait for a row
(`DeviceReports`); a worker's own steps are weakly fair, and its supervisor starts it again
(`Administration`). Nothing is assumed to make an agent connect, a link drop, a user log in, an
administrator act, or a fault happen; where one of these is needed, or must stop, it is a premise of
the property (`PendingIsSent`: set-ups on a working link complete again and again;
`EveryMessageIsSent`: in the end one connection stays up, with its send loop; `EveryRequestEnds`:
logins stop in the end; the alert properties: executions are not killed for ever). `Policies` and
`Rollout` have no liveness property: nothing in the code makes a policy or a deployment that missed
its device arrive later.

**What the violated run shows.** `disconnect_agent` (`ws_manager.py:70`) pops by device id; the
handler of the old connection removes the new one, and a connected agent counts as offline.

**What the properties except, because the code does it.** A property that holds says what the code
achieves, which is at times less than its authors wanted:

* `DuplicateAlertsBounded` and `ExpiryAlertsBounded` bound the open alerts of a device by the
  executions that overlap, which is weaker than "create alert if not already open"; one execution at
  a time does keep it (`OneSweepOneAlert`, `OneCheckNeverRaises`).
* Two open alerts of one device make every later execution raise, for every device:
  `GoneAgentsGoOffline` and `ExpiryIsReported` hold unless that goes on for ever, or executions are
  killed for ever.
* The sweep compares `last_heartbeat` with a threshold, which NULL never passes, although its
  message provides for "never": `GoneAgentsGoOffline` speaks of devices that have sent a heartbeat.
* A wipe that was sent stays pending and is sent again on the next connection, and so is a command
  whose redelivery was not committed: `RunOnceUnlessWaited` excepts commands that have waited. The
  result of a redelivered command is never found, because its message carries the primary key
  (`websocket.py:62`) and results are looked up by the other id (`:240`).
* The first chunk of streamed output marks a running command failed, and a late one replaces an
  answer: `CompletedMeansSucceeded` states the one direction that holds.
* A connection whose send loop ended with an exception sends nothing although it lives:
  `EveryMessageIsSent` is about those whose loop lives.
* Rotation revokes the cookie's refresh token and does not hand out the new one, so the second
  refresh sends the user to the login page, which `EveryRequestEnds` counts as an end; and `refresh`
  locks nothing, so `UsesBounded` allows one access token per tab, not one.
* `OneGenerationPerHandler` bounds the sets of software rows by the handlers that overlapped: two
  handlers may leave two.
* `RefusedHasCause` has two causes: the report is malformed, or it was handled while another was.
* An update of a policy that is lost to another one, and a push of a policy as it was before it was
  changed: the exceptions of `NeverBack`.
* `update_user` lets the last superadmin give up the role, and two may delete each other:
  the causes in `LockOutHasCause`.
* What deployment rows say after a failed `deploy_patches` or `deploy_package` rolled them back has no
  property, since no text of the repository says what they should say.

## 4. Proofs

All for arbitrary constants, under the ASSUMEs of the modules (slots, loops, tabs, sweeps and
executions are finite only where cardinalities are counted).

* `DevicePresenceProofs!RegistryInvariant`: an entry of a registry is a connection of that device
  and worker which is being served or failed in set-up. It is inductive with the types: a handler
  never leaves its own entry behind, and a slot is reused only when no registry refers to it.
* `DevicePresenceProofs` and `CommandDeliveryProofs` each prove `ImplementsRegistry` (`Spec =>
  RegistrySpec`, one step per action): both machines are registries, so the invariant above holds of
  them and is used in their own proofs.
* `PresenceIsJustified`, `AlertsBounded`, `OneSweepOneAlert`: the first is inductive with the types;
  the second counts open alerts plus those about to be inserted, which every step preserves; the
  third is the second for one sweep.
* `CommandDeliveryProofs`: `Inv` adds to the types four named parts. `MessagesOK`: a message, task
  or result that carries a correlation id is of a request that sent and of a command that never
  waited; `RequestsOK`: the row by the phase of its request; `DrainsOK`: what a handler is about to
  send or commit has waited; `StatusOK`: status and history agree. The key fact
  (`WaitedUnanswered`) is that a result that is correlated never belongs to a command that has
  waited, so the blind write of a redelivery and the write of a result never meet. From `Inv` follow
  `SentIsWired`, `CompletedIsSucceeded`, and `ImplementsLifecycle` (initial states, then one case per
  action: a step or a stutter of `CommandLifecycle`), which says that no sent or answered command
  becomes pending and no answered one sent, and not that an answer is final. `RunsOnce` needs a second
  invariant, `OnceOK`, on where the one message of a command that never waited may be.
* `AccessProofs`: `NoRequestForgotten` is inductive with the types, which already say that
  `isRefreshing`, the request it is for and the POST agree. `UsesAreBounded` adds that a live token
  is unused: a select that finds it starts from zero, and each of the finitely many tabs that found
  it before the first commit uses it once.
* `AgentTransportProofs!NoWakeupMissed`: the invariant adds that the getters of the queue are the
  parked loops, each once (`GettersOK`), so that every `put` wakes one more loop and every `get`
  takes away at most one woken loop together with one message. `MessagesOK` adds where each message
  is: what was put and not sent is at one place in the queue or in one loop's hand (`Placed`), and
  those in the queue that were not put back stand in the order they were put (`InOrder`).
  `NothingLostOrDoubled` and `OrderIsKept` follow from it. These theorems take the loops to be
  finitely many, because `NoMissedWakeup` and `EachInOnePlace` count them.
* `AccessProofs`, of `Administration`: `AccountsTypeCorrect` needs `SeedingOK`: the sets of rules in
  the database and the workers about to add one are together no more than the workers.
  `LockOutIsCaused` needs `AdminOK`: a superadmin is left, or there is a cause, or there are no
  accounts yet and no worker has passed the insert of the administrator; and `CallsOK`: a request in
  flight is one its endpoint takes, so that the caller of a deletion is not its target and outlives
  it. `FreshIds` makes the caller's row his own: an id in use by a request is not given to somebody
  else.
* `PoliciesProofs`: with the types, no policy is referred to before it has a configuration, so that
  one which was deleted never comes back and is never assigned again (`Grows`). `OnlyWhatIsAssigned`
  adds `DevicesMeant` (a request that assigns a policy holds devices of targets which have it or get
  it with the commit; one that pushes, devices that have it) and `PushedAreEntitled`. `NotBack` adds
  `OneRowPerVersion` (of a policy of which no update was lost, all copies in the database, requests,
  pushes and devices with the same version are the same row, and none is newer than the database's)
  and `FreshPushes` (a push that was current when it was sent is not older than what the device has
  or what is on the way in front of it).
* `EnrollmentProofs`: `Inv` has, beside the types, `Unique` (an uncommitted row holds its keys as a
  committed one does: without it two inserts could both commit), `RowsOK` (rows and committed
  requests are the same) and `FilesOK` with `TornOK` (every file is of a committed request, a run leaves the files
  it saved, a torn one is of a run that ended in it, and `config.json` comes last).
  `OneEnrollment` and `ConfigurationIsComplete` follow, the second of every mixture of whole and torn
  files that runs leave behind.
* `EnrollmentProofs`, of `CertificateExpiry`: `ExpiryAlertsAreBounded` counts as `AlertsBounded` does,
  for any number of overlapping executions; `OneCheckNeverRaises` is the case of one.
* `RolloutProofs`: `TypeCorrect` has packages and files. `DeploymentsRunInOrder` needs `OrderOK`:
  what winget has run, then the tasks of the agent in the order they were made, then the messages on
  the wire, are in the order of sending (`InLine`), and none is newer than the last row that was
  flushed, so that the next one is newer than all; `RequestsOK` has the rows of requests.
* `DeviceReportsProofs`: `OneGeneration` from `GenerationsOK`: behind the delete of a table a
  handler has deleted all its own rows, which nobody but itself adds. `SummaryIsOfOneReport` from
  `RulesOK`: the update of the device is a lock, one handler holds it, so the rows of the rules are
  still as it found them when it commits. `ScoreExists` is about `ComplianceScore!Scores`, for any
  numbers of checks: it is never empty, so no commit is stuck for want of a score, and has two
  members only for a share exactly between two percents. That a score of 100 hides no failed check
  is true of reports with fewer than 200 checks, which the theorem assumes: 199 of 200
  round to 100 (`RoundingHides`). `RefusalsHaveCause` from `OverlapOK` (of two handlers at work each counts as
  overlapped) and `FoundOK` (a handler alone at work has found or deleted every row its inventory
  could conflict with); a conflict over rows of rules is excluded by `RulesOK`.

Types are proved of every component, and so is every safety property the passing runs check.
Only model-checked: the liveness properties, because reasoning with ENABLED is outside the
prover's reach. No recursive definition is proved about: the modules have none.

## 5. Not modelled

* Console connections: the server only sends to them and stores nothing; a console whose send
  raises is dropped, and the hook connects again. A Celery process has a `ConnectionManager` of its
  own that is always empty, so its broadcasts reach no console.
* The contents of file transfer: `file_upload` and `file_download` are commands like others as far as
  `CommandDelivery` goes. `command_handler.py:58-79` writes a chunk, or sends a file in chunks that
  `websocket.py:102-109` passes on to the consoles; but no code of the repository starts a transfer,
  reads a chunk that was passed on, or looks at the verdict of the checksum, and a file command reports no
  result. So nothing says in what order chunks have to come, and there is no property to state.
* Celery's patch, inventory and compliance tasks: they run in a process that holds no connections
  and reach nobody. The daily summary and the report, list and dashboard endpoints only read.
* Two workers behind one database connection pool, and a Celery task that runs `asyncio.run`
  per execution on an engine made in another loop: a task that fails so is `SweepAborts` or
  `CheckAborts`.
* `change_password`, which writes a password hash and leaves tokens alone.
* Formatting of messages, logging, audit rows, the Windows calls of the agent (their results are
  inputs), console pages, shell scripts, PKI scripts and the installer.

## 6. What could come next

1. Abstract specifications of a component other than the command machinery, and proofs that the
   detailed modules implement them.
2. Console connections, once something depends on what a console was told; file transfer, once
   something starts one.
